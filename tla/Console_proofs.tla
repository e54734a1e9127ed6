--------------------------- MODULE Console_proofs ---------------------------
(***************************************************************************)
(* Proofs about Console for any candidates, plans, tasks and blocks.       *)
(***************************************************************************)
EXTENDS Console, FiniteSetTheorems, TLAPS

(* The steps by what they may change: candidates, plans or the queue only. *)
CandMove == \E t \in Tasks : CandStep(t) \/ CandRequest(t)

PlanMove ==
    \/ \E r \in Runners : InsertRun(r) \/ RunFails(r)
    \/ \E t \in Tasks : ResumeCommit(t) \/ PlanRequest(t)
    \/ Wake \/ Fire \/ Clear \/ ClearFails
    \/ \E p \in Plans :
          DeletePlan(p) \/ ComesDue(p) \/ \E when \in {"none", "later"} : SavePlan(p, when)

QueueMove == (\E r \in Runners : ReadSeq(r)) \/ Reorder \/ \E b \in Blocks : Dispatch(b) \/ Finish(b)

LEMMA Sorted ==
    Next => \/ CandMove /\ UNCHANGED planVars
            \/ PlanMove /\ UNCHANGED candVars
            \/ QueueMove /\ UNCHANGED <<candVars, planVars>>
            \/ Crash
<1> SUFFICES ASSUME Next
             PROVE  \/ CandMove /\ UNCHANGED planVars
                    \/ PlanMove /\ UNCHANGED candVars
                    \/ QueueMove /\ UNCHANGED <<candVars, planVars>>
                    \/ Crash
  OBVIOUS
<1>1. ASSUME NEW t \in Tasks, TaskStep(t)
      PROVE  \/ CandMove /\ UNCHANGED planVars
             \/ PlanMove /\ UNCHANGED candVars
             \/ QueueMove /\ UNCHANGED <<candVars, planVars>>
  BY <1>1, Zenon DEF TaskStep, PlanStep, CandMove, PlanMove, QueueMove, Runners
<1>2. ASSUME SchedStep
      PROVE  \/ PlanMove /\ UNCHANGED candVars
             \/ QueueMove /\ UNCHANGED <<candVars, planVars>>
  <2>1. Scheduler \in Runners /\ ~(Scheduler \in Tasks)
    BY QueueConstants DEF Runners
  <2> QED
    BY <1>2, <2>1, Zenon DEF SchedStep, SchedulerStep, PlanStep, PlanMove, QueueMove
<1> QED
  BY <1>1, <1>2, Zenon DEF Next, CandMove, PlanMove, QueueMove

-----------------------------------------------------------------------------
(***************************************************************************)
(* Types.                                                                  *)
(***************************************************************************)
Tasking ==
    [pc : {"idle", "ingest", "notify", "announce", "mark", "decide", "number", "insert", "store",
           "reject", "reset", "cancel", "resume", "next", "clear"},
     of : Owners \cup {None}, was : {"none"} \cup Open \cup Decided, blk : 0 .. MaxBlocks, seq : 0 .. MaxBlocks, after : SUBSET Blocks,
     todo : SUBSET Owners, act : Actions]

TaskOK == task \in [Runners -> Tasking]

BlockOK == block \in [Blocks -> BlockRows]

CandOK ==
    /\ cand \in [Cands -> [state : {"none"} \cup Open \cup Decided, request : 0 .. MaxBlocks]]
    /\ audit \in [Cands -> {"none", "reset"} \cup Decided]
    /\ announced \in [Cands -> 0 .. 2]

PlanOK ==
    /\ plan \in [Plans -> [saved : BOOLEAN, when : {"none", "later", "due"}, last : 0 .. MaxBlocks]]
    /\ fired \in [Plans -> 0 .. 2]

FlagsOK ==
    /\ reordered \in BOOLEAN
    /\ lost \in [Cands -> BOOLEAN] /\ stale \in [Cands -> BOOLEAN] /\ tangled \in [Cands -> BOOLEAN]
    /\ spoiled \in [Plans -> BOOLEAN]

LEMMA TypeParts == TypeOK <=> TaskOK /\ BlockOK /\ CandOK /\ PlanOK /\ FlagsOK
BY Zenon DEF TypeOK, TaskOK, BlockOK, CandOK, PlanOK, FlagsOK, Tasking

(* What handlers become is a task record. *)
LEMMA Sets ==
    /\ Blocks \subseteq 0 .. MaxBlocks /\ 0 \in 0 .. MaxBlocks /\ Existing \subseteq Blocks
    /\ Cands \subseteq Owners /\ Plans \subseteq Owners /\ Due \subseteq Owners
    /\ Cands \cap Plans = {} /\ None \notin Owners
    /\ Tasks \subseteq Runners /\ Scheduler \in Runners /\ Scheduler \notin Tasks
BY QueueConstants DEF Blocks, Existing, Owners, Due, Runners

LEMMA IdleRecord == Idle \in Tasking
BY Sets DEF Idle, Actions, Tasking

LEMMA Records ==
    ASSUME NEW x \in Tasking
    PROVE
    /\ \A pc \in {"mark", "notify", "number", "clear"} : [x EXCEPT !.pc = pc] \in Tasking
    /\ \A n \in 0 .. MaxBlocks : [x EXCEPT !.pc = "insert", !.seq = n] \in Tasking
    /\ \A S \in SUBSET Owners, pc \in {"ingest", "notify", "next", "idle"} :
          [x EXCEPT !.pc = pc, !.todo = S] \in Tasking
    /\ \A c \in Owners, pc \in {"announce", "notify"} :
          [x EXCEPT !.todo = @ \ {c}, !.of = c, !.pc = pc] \in Tasking
    /\ \A c \in Owners, act \in Actions, S \in SUBSET Blocks :
          [x EXCEPT !.pc = "decide", !.of = c, !.act = act, !.after = S] \in Tasking
    /\ \A b \in 0 .. MaxBlocks :
          /\ [x EXCEPT !.pc = "store", !.blk = b] \in Tasking
          /\ [x EXCEPT !.pc = "cancel", !.blk = b] \in Tasking
    /\ \A c \in Owners, b \in 0 .. MaxBlocks : [x EXCEPT !.pc = "resume", !.of = c, !.blk = b] \in Tasking
    /\ \A c \in Owners, S \in SUBSET Blocks :
          [x EXCEPT !.pc = "number", !.of = c, !.after = S] \in Tasking
    /\ \A c \in Owners, S \in SUBSET Blocks, pc \in {"number", "clear"} :
          [x EXCEPT !.of = c, !.todo = @ \ {c}, !.after = S, !.pc = pc] \in Tasking
BY Zenon DEF Tasking

LEMMA LeavingRecords ==
    ASSUME NEW x \in Tasking, NEW c \in Owners, NEW s \in {"none"} \cup Open \cup Decided
    PROVE
    /\ [x EXCEPT !.pc = "reject", !.of = c, !.was = s] \in Tasking
    /\ \A b \in 0 .. MaxBlocks : [x EXCEPT !.pc = "reset", !.of = c, !.was = s, !.blk = b] \in Tasking
BY DEF Tasking

(* The scheduler when it is through with a plan. *)
LEMMA Cleared ==
    ASSUME Clear \/ ClearFails
    PROVE  \E pc \in {"idle", "next"}, S \in {task[Scheduler].todo, {}} :
               Become(Scheduler, [Idle EXCEPT !.pc = pc, !.todo = S])
<1>1. CASE Clear
  BY <1>1 DEF Clear
<1>2. CASE ClearFails
  <2>1. Idle = [Idle EXCEPT !.pc = "idle", !.todo = {}]
    <3>1. Idle.pc = "idle" /\ Idle.todo = {}
      BY DEF Idle
    <3>2. \A x \in Tasking : x.pc = "idle" /\ x.todo = {} => x = [x EXCEPT !.pc = "idle", !.todo = {}]
      BY DEF Tasking
    <3> QED
      BY <3>1, <3>2, IdleRecord
  <2>2. Become(Scheduler, [Idle EXCEPT !.pc = "idle", !.todo = {}])
    BY <1>2, <2>1 DEF ClearFails, Done
  <2> QED
    BY <2>2
<1> QED
  BY <1>1, <1>2

LEMMA Becomes ==
    ASSUME TaskOK, NEW r, NEW rec \in Tasking, Become(r, rec)
    PROVE  TaskOK'
BY DEF TaskOK, Become

LEMMA TaskTyping == ASSUME TypeOK, [Next]_vars PROVE TaskOK'
<1>0. TaskOK
  BY TypeParts
<1>1. ASSUME NEW t \in Tasks, CandStep(t) \/ CandRequest(t) PROVE TaskOK'
  <2>0. task[t] \in Tasking
    BY <1>0, Sets DEF TaskOK
  <2>1. CASE Poll(t)
    <3>1. PICK new \in SUBSET Cands : Become(t, [Idle EXCEPT !.pc = "ingest", !.todo = new])
      BY <2>1 DEF Poll
    <3> QED
      BY <1>0, <3>1, Becomes, Records, IdleRecord, Sets
  <2>2. CASE Ingest(t)
    <3>1. PICK obs \in SUBSET task[t].todo : Become(t, [Idle EXCEPT !.pc = "notify", !.todo = obs])
      BY <2>2 DEF Ingest
    <3>2. obs \in SUBSET Owners
      BY <2>0 DEF Tasking
    <3> QED
      BY <1>0, <3>1, <3>2, Becomes, Records, IdleRecord, Sets
  <2>3. CASE IngestFails(t) \/ Notified(t) \/ BuildFails(t) \/ StoreRequest(t) \/ RejectCommit(t) \/ ResetCommit(t) \/ CancelCommit(t)
    <3>1. Become(t, Idle)
      BY <2>3 DEF IngestFails, Notified, BuildFails, StoreRequest, RejectCommit, ResetCommit, CancelCommit, Done
    <3> QED
      BY <1>0, <3>1, Becomes, Records, IdleRecord, Sets
  <2>4. CASE Notify(t)
    <3>1. PICK c \in task[t].todo, pc \in {"announce", "notify"} :
             Become(t, [task[t] EXCEPT !.todo = @ \ {c}, !.of = c, !.pc = pc])
      BY <2>4 DEF Notify
    <3>2. c \in Owners
      BY <2>0 DEF Tasking
    <3> QED
      BY <1>0, <2>0, <3>1, <3>2, Becomes, Records, IdleRecord, Sets
  <2>5. CASE Announce(t) \/ MarkNotified(t) \/ Decide(t)
    <3>1. PICK pc \in {"mark", "notify", "number"} : Become(t, [task[t] EXCEPT !.pc = pc])
      BY <2>5 DEF Announce, MarkNotified, Decide
    <3> QED
      BY <1>0, <2>0, <3>1, Becomes, Records, IdleRecord, Sets
  <2>6. CASE InsertRequest(t)
    <3>1. PICK b \in Blocks : Become(t, [task[t] EXCEPT !.pc = "store", !.blk = b])
      BY <2>6 DEF InsertRequest
    <3> QED
      BY <1>0, <2>0, <3>1, Becomes, Records, IdleRecord, Sets
  <2>7. ASSUME NEW c \in Cands, Reset(t, c) PROVE TaskOK'
    <3>1. cand[c].request \in 0 .. MaxBlocks /\ cand[c].state \in {"none"} \cup Open \cup Decided
      BY DEF TypeOK
    <3> QED
      BY <1>0, <2>7, <3>1, Becomes, LeavingRecords, IdleRecord, Sets DEF Reset
  <2>10. ASSUME NEW c \in Cands, Reject(t, c) PROVE TaskOK'
    <3>1. cand[c].state \in {"none"} \cup Open \cup Decided
      BY DEF TypeOK
    <3> QED
      BY <1>0, <2>10, <3>1, Becomes, LeavingRecords, IdleRecord, Sets DEF Reject
  <2>8. ASSUME NEW c \in Cands, NEW act \in Actions, Approve(t, c, act) PROVE TaskOK'
    BY <1>0, <2>8, Becomes, Records, IdleRecord, Sets DEF Approve
  <2>9. ASSUME NEW b \in Blocks, Cancel(t, b) PROVE TaskOK'
    BY <1>0, <2>9, Becomes, Records, IdleRecord, Sets DEF Cancel
  <2> QED
    BY <1>1, <2>1, <2>2, <2>3, <2>4, <2>5, <2>6, <2>7, <2>8, <2>9, <2>10, Zenon
       DEF CandStep, CandRequest
<1>2. CASE CandMove
  BY <1>1, <1>2, Zenon DEF CandMove
<1>3. ASSUME NEW r \in Runners, InsertRun(r) \/ RunFails(r) \/ ReadSeq(r) PROVE TaskOK'
  <2>0. task[r] \in Tasking
    BY <1>0 DEF TaskOK
  <2>1. CASE ReadSeq(r)
    BY <1>0, <2>0, <2>1, Becomes, Records, IdleRecord, Sets DEF ReadSeq
  <2>2. CASE InsertRun(r) \/ RunFails(r)
    <3>1. Become(r, [task[r] EXCEPT !.pc = "clear"]) \/ Become(r, Idle)
      BY <2>2 DEF InsertRun, RunFails, Done
    <3> QED
      BY <1>0, <2>0, <3>1, Becomes, Records, IdleRecord, Sets
  <2> QED
    BY <1>3, <2>1, <2>2
<1>4. ASSUME NEW t \in Tasks, ResumeCommit(t) \/ PlanRequest(t) PROVE TaskOK'
  <2>1. CASE ResumeCommit(t)
    BY <1>0, <2>1, Becomes, Records, IdleRecord, Sets DEF ResumeCommit, Done
  <2>2. ASSUME NEW p \in Plans, RunPlan(t, p) PROVE TaskOK'
    BY <1>0, <2>2, Becomes, Records, IdleRecord, Sets DEF RunPlan
  <2>3. ASSUME NEW p \in Plans, ResumePlan(t, p) PROVE TaskOK'
    <3>1. plan[p].last \in 0 .. MaxBlocks
      BY TypeParts DEF PlanOK
    <3> QED
      BY <1>0, <2>3, <3>1, Becomes, Records, IdleRecord, Sets DEF ResumePlan
  <2> QED
    BY <1>4, <2>1, <2>2, <2>3, Zenon DEF PlanRequest
<1>5. CASE Wake \/ Fire \/ Clear \/ ClearFails
  <2>0. task[Scheduler] \in Tasking /\ task[Scheduler].todo \in SUBSET Owners
    BY <1>0, Sets DEF TaskOK, Tasking
  <2>1. CASE Wake
    BY <1>0, <2>1, Becomes, Records, IdleRecord, Sets DEF Wake
  <2>2. CASE Fire
    <3>1. PICK p \in task[Scheduler].todo, pc \in {"number", "clear"} :
             Become(Scheduler, [task[Scheduler] EXCEPT !.of = p, !.todo = @ \ {p}, !.after = Existing,
                                                     !.pc = pc])
      BY <2>2 DEF Fire
    <3>2. p \in Owners
      BY <2>0
    <3> QED
      BY <1>0, <2>0, <3>1, <3>2, Becomes, Records, IdleRecord, Sets
  <2>3. CASE Clear \/ ClearFails
    <3>1. PICK pc \in {"idle", "next"}, S \in {task[Scheduler].todo, {}} :
             Become(Scheduler, [Idle EXCEPT !.pc = pc, !.todo = S])
      BY <2>3, Cleared
    <3> QED
      BY <1>0, <2>0, <3>1, Becomes, Records, IdleRecord, Sets
  <2> QED
    BY <1>5, <2>1, <2>2, <2>3
<1>6. ASSUME UNCHANGED task PROVE TaskOK'
  BY <1>0, <1>6 DEF TaskOK
<1>7. CASE PlanMove
  BY <1>3, <1>4, <1>5, <1>6, <1>7, Zenon DEF PlanMove, DeletePlan, ComesDue, SavePlan, queueVars
<1>8. CASE QueueMove
  BY <1>3, <1>6, <1>8, Zenon DEF QueueMove, Reorder, Dispatch, Finish
<1>9. CASE Crash
  BY <1>9, IdleRecord DEF Crash, TaskOK
<1> QED
  BY <1>2, <1>6, <1>7, <1>8, <1>9, Sorted DEF vars, queueVars

-----------------------------------------------------------------------------
(***************************************************************************)
(* What handlers hold belongs to what they work on.                        *)
(***************************************************************************)
Fits(r, h) ==
    /\ h.pc \in {"announce", "mark", "decide", "reject", "reset", "store"} => h.of \in Cands
    /\ h.pc \in {"number", "insert"} => h.of \in Owners
    /\ h.pc = "resume" => h.of \in Plans
    /\ h.pc \in {"store", "resume"} => h.blk # 0
    /\ h.pc \in {"store", "resume", "reset"} /\ h.blk # 0 => block[h.blk].owner = h.of
    /\ h.pc = "cancel" => h.blk \in Existing
    /\ r \in Tasks => h.todo \subseteq Cands /\ h.pc \notin {"next", "clear"}
    /\ r = Scheduler =>
          /\ h.todo \subseteq Plans
          /\ h.pc \in {"idle", "next", "number", "insert", "clear"}
          /\ h.pc \in {"number", "insert", "clear"} => h.of \in Plans

Carried == \A r \in Runners : Fits(r, task[r])

LastIsOwn == \A p \in Plans : plan[p].last # 0 => block[plan[p].last].owner = p

TInv == TypeOK /\ Carried /\ RequestIsOwn /\ LastIsOwn

LEMMA OwnedExist ==
    ASSUME BlockOK, NEW b \in 0 .. MaxBlocks, b # 0, block[b].owner \in Owners
    PROVE  b \in Existing
<1>1. b \in Blocks
  BY QueueConstants DEF Blocks
<1>2. block[b] \in BlockRows
  BY <1>1 DEF BlockOK
<1>3. block[b] # Missing
  BY Sets DEF Missing
<1>4. block[b].state \in Waiting \cup Active \cup Finished
  BY <1>2, <1>3 DEF BlockRows
<1> QED
  BY <1>1, <1>4 DEF Waiting, Active, Finished, Existing

(* The only steps that touch a block row, and what each makes of it. *)
Inserts(b, r) == b \in Blocks /\ task[r].of \in Owners /\ NewBlock(r, b)

Restates(b, s) == b \in Existing /\ block' = [block EXCEPT ![b].state = s]

LEMMA BlockSteps ==
    ASSUME TInv, [Next]_vars
    PROVE  \/ UNCHANGED block
           \/ \E r \in Runners, b \in Blocks : Inserts(b, r) /\ (InsertRequest(r) \/ InsertRun(r))
           \/ \E b \in Blocks :
                 \/ Restates(b, "queued") /\ \E t \in Tasks : ResumeCommit(t) /\ b = task[t].blk
                 \/ Restates(b, "aborted") /\ \E t \in Tasks :
                       (ResetCommit(t) \/ CancelCommit(t)) /\ b = task[t].blk
                 \/ Restates(b, "running") /\ Dispatch(b)
                 \/ Finish(b) /\ \E s \in Finished : Restates(b, s)
           \/ Reorder
<1> DEFINE Goal ==
           \/ UNCHANGED block
           \/ \E r \in Runners, b \in Blocks : Inserts(b, r) /\ (InsertRequest(r) \/ InsertRun(r))
           \/ \E b \in Blocks :
                 \/ Restates(b, "queued") /\ \E t \in Tasks : ResumeCommit(t) /\ b = task[t].blk
                 \/ Restates(b, "aborted") /\ \E t \in Tasks :
                       (ResetCommit(t) \/ CancelCommit(t)) /\ b = task[t].blk
                 \/ Restates(b, "running") /\ Dispatch(b)
                 \/ Finish(b) /\ \E s \in Finished : Restates(b, s)
           \/ Reorder
<1>0. BlockOK /\ TaskOK /\ Carried
  BY TypeParts DEF TInv
<1>1. ASSUME NEW t \in Tasks PROVE task[t].blk \in 0 .. MaxBlocks /\ Fits(t, task[t]) /\ t \in Runners
  BY <1>0, Sets DEF TaskOK, Tasking, Carried
<1>2. ASSUME NEW t \in Tasks, ResetCommit(t) PROVE Goal
  <2>1. CASE UNCHANGED block
    BY <2>1
  <2>2. CASE ~UNCHANGED block
    <3>1. /\ At(t, "reset") /\ task[t].blk # 0
          /\ block' = [block EXCEPT ![task[t].blk].state = "aborted"]
      BY <1>2, <2>2 DEF ResetCommit
    <3>2. task[t].blk \in Existing
      BY <1>0, <1>1, <3>1, OwnedExist, Sets DEF Fits, At
    <3> QED
      BY <1>2, <3>1, <3>2 DEF Restates, Existing
  <2> QED
    BY <2>1, <2>2
<1>3. ASSUME NEW t \in Tasks, CancelCommit(t) PROVE Goal
  <2>1. task[t].blk \in Existing
    BY <1>1, <1>3 DEF CancelCommit, Fits, At
  <2>2. block' = [block EXCEPT ![task[t].blk].state = "aborted"]
    BY <1>3 DEF CancelCommit
  <2> QED
    BY <1>3, <2>1, <2>2 DEF Restates, Existing
<1>4. ASSUME NEW t \in Tasks, ResumeCommit(t) PROVE Goal
  <2>1. task[t].blk \in Existing
    BY <1>0, <1>1, <1>4, OwnedExist, Sets DEF ResumeCommit, Fits, At
  <2>2. block' = [block EXCEPT ![task[t].blk].state = "queued"]
    BY <1>4 DEF ResumeCommit
  <2> QED
    BY <1>4, <2>1, <2>2 DEF Restates, Existing
<1>5. ASSUME NEW r \in Runners, InsertRequest(r) \/ InsertRun(r) PROVE Goal
  BY <1>5, Sets DEF InsertRequest, InsertRun, Inserts, NewBlock
<1>6. CASE QueueMove
  <2>1. ASSUME NEW b \in Blocks, Dispatch(b) \/ Finish(b) PROVE Goal
    BY <2>1 DEF Dispatch, Finish, Restates, Existing, L!Takable, L!Closable
  <2> QED
    BY <1>6, <2>1 DEF QueueMove, ReadSeq
<1>7. CASE CandMove
  BY <1>2, <1>3, <1>5, <1>7, Sets
     DEF CandMove, CandStep, CandRequest, Poll, Ingest, IngestFails, Notify, Announce, MarkNotified,
         Notified, Approve, Decide, BuildFails, StoreRequest, Reject, RejectCommit, queueVars, Reset, Cancel
<1>8. CASE PlanMove
  BY <1>4, <1>5, <1>8
     DEF PlanMove, RunFails, PlanRequest, RunPlan, ResumePlan, Wake, Fire, Clear, ClearFails, DeletePlan,
         ComesDue, SavePlan, queueVars
<1> QED
  BY <1>6, <1>7, <1>8, Sorted DEF Crash, vars, queueVars

-----------------------------------------------------------------------------
LEMMA RowFacts ==
    ASSUME BlockOK, NEW b \in Existing
    PROVE  /\ b \in Blocks /\ block[b] \in BlockRows
           /\ block[b].state \in Waiting \cup Active \cup Finished /\ block[b].owner \in Owners
           /\ block[b].seq \in 0 .. MaxBlocks /\ block[b].after \in SUBSET Blocks
           /\ \A s \in Waiting \cup Active \cup Finished : [block[b] EXCEPT !.state = s] \in BlockRows
           /\ \A n \in 0 .. MaxBlocks : [block[b] EXCEPT !.seq = n] \in BlockRows
<1> DEFINE Rows == [state : Waiting \cup Active \cup Finished, owner : Owners,
                    seq : 0 .. MaxBlocks, after : SUBSET Blocks]
<1>1. b \in Blocks /\ block[b] \in BlockRows /\ block[b] # Missing
  BY DEF Existing, BlockOK, Missing
<1>2. block[b] \in Rows /\ Rows \subseteq BlockRows
  BY <1>1 DEF BlockRows
<1>3. \A s \in Waiting \cup Active \cup Finished : [block[b] EXCEPT !.state = s] \in Rows
  BY <1>2
<1>4. \A n \in 0 .. MaxBlocks : [block[b] EXCEPT !.seq = n] \in Rows
  BY <1>2
<1> QED
  BY <1>1, <1>2, <1>3, <1>4

(* A row, once there, keeps its owner and what was there before it, and    *)
(* moves in the queue only when somebody reorders it.                      *)
LEMMA BlocksStay ==
    ASSUME TInv, [Next]_vars, NEW b \in Existing
    PROVE  /\ b \in Existing'
           /\ block'[b].owner = block[b].owner /\ block'[b].after = block[b].after
           /\ block'[b].seq = block[b].seq \/ reordered'
<1>0. BlockOK /\ DOMAIN block = Blocks /\ b \in Blocks
  BY TypeParts DEF TInv, BlockOK, Existing
<1>f. block[b] \in BlockRows /\ block[b].state # "none"
  BY <1>0, RowFacts DEF Existing
<1>1. ASSUME NEW r \in Runners, NEW x \in Blocks, Inserts(x, r)
      PROVE  block'[b] = block[b]
  BY <1>0, <1>1 DEF Inserts, NewBlock
<1>2. ASSUME NEW x \in Blocks, NEW s \in Waiting \cup Active \cup Finished, Restates(x, s)
      PROVE  /\ block'[b].owner = block[b].owner /\ block'[b].after = block[b].after
             /\ block'[b].seq = block[b].seq /\ block'[b].state # "none"
  BY <1>0, <1>2, <1>f DEF Restates, Waiting, Active, Finished
<1>3. ASSUME Reorder
      PROVE  /\ block'[b].owner = block[b].owner /\ block'[b].after = block[b].after
             /\ block'[b].state # "none" /\ reordered'
  <2>1. block'[b] = block[b] \/ \E n : block'[b] = [block[b] EXCEPT !.seq = n]
    BY <1>0, <1>3 DEF Reorder
  <2>2. block'[b].owner = block[b].owner /\ block'[b].after = block[b].after /\ block'[b].state = block[b].state
    BY <1>f, <2>1 DEF BlockRows, Missing
  <2> QED
    BY <1>3, <1>f, <2>2 DEF Reorder
<1> QED
  BY <1>0, <1>f, <1>1, <1>2, <1>3, BlockSteps DEF Waiting, Active, Finished, Existing

LEMMA BlockTyping == ASSUME TInv, [Next]_vars PROVE BlockOK'
<1>0. BlockOK /\ TaskOK
  BY TypeParts DEF TInv
<1>1. ASSUME NEW r \in Runners, NEW b \in Blocks, Inserts(b, r) PROVE BlockOK'
  <2>1. task[r].seq \in 0 .. MaxBlocks /\ task[r].after \in SUBSET Blocks /\ task[r].of \in Owners
    BY <1>0, <1>1 DEF TaskOK, Tasking, Inserts
  <2>2. [state |-> "queued", owner |-> task[r].of, seq |-> task[r].seq, after |-> task[r].after] \in BlockRows
    BY <2>1 DEF BlockRows, Waiting
  <2> QED
    BY <1>0, <1>1, <2>2 DEF BlockOK, Inserts, NewBlock
<1>2. ASSUME NEW b \in Blocks, NEW s \in Waiting \cup Active \cup Finished, Restates(b, s) PROVE BlockOK'
  <2>1. block' = [block EXCEPT ![b] = [block[b] EXCEPT !.state = s]] /\ b \in Existing
    BY <1>2 DEF Restates
  <2>2. [block[b] EXCEPT !.state = s] \in BlockRows
    BY <1>0, <2>1, RowFacts
  <2> QED
    BY <1>0, <2>1, <2>2 DEF BlockOK
<1>3. ASSUME Reorder PROVE BlockOK'
  <2>1. PICK S \in SUBSET Existing \ {{}} : \E pos \in [S -> 0 .. Cardinality(S) - 1] :
            block' = [b \in Blocks |-> IF b \in S THEN [block[b] EXCEPT !.seq = pos[b]] ELSE block[b]]
    BY <1>3 DEF Reorder
  <2>2. PICK pos \in [S -> 0 .. Cardinality(S) - 1] :
            block' = [b \in Blocks |-> IF b \in S THEN [block[b] EXCEPT !.seq = pos[b]] ELSE block[b]]
    BY <2>1
  <2>3. IsFiniteSet(Blocks) /\ Cardinality(Blocks) = MaxBlocks
    <3>1. MaxBlocks \in Nat
      BY QueueConstants
    <3>2. IsFiniteSet(1 .. MaxBlocks) /\ Cardinality(1 .. MaxBlocks) = IF 1 > MaxBlocks THEN 0 ELSE MaxBlocks - 1 + 1
      BY <3>1, FS_Interval
    <3> QED
      BY <3>1, <3>2 DEF Blocks
  <2>4. S \subseteq Blocks
    BY Sets
  <2>5. Cardinality(S) \in Nat /\ Cardinality(S) <= MaxBlocks
    BY <2>3, <2>4, FS_Subset, FS_CardinalityType
  <2>6. ASSUME NEW b \in S PROVE pos[b] \in 0 .. MaxBlocks
    BY <2>5, QueueConstants
  <2>7. ASSUME NEW b \in S PROVE [block[b] EXCEPT !.seq = pos[b]] \in BlockRows
    BY <1>0, <2>6, RowFacts
  <2> QED
    BY <1>0, <2>2, <2>4, <2>7 DEF BlockOK
<1> QED
  BY <1>0, <1>1, <1>2, <1>3, BlockSteps DEF BlockOK, Waiting, Active, Finished

LEMMA HeldTask ==
    ASSUME TInv, NEW t \in Runners
    PROVE  /\ task[t] \in Tasking /\ Fits(t, task[t])
           /\ task[t].blk \in 0 .. MaxBlocks /\ task[t].seq \in 0 .. MaxBlocks
           /\ task[t].after \subseteq Blocks /\ task[t].act \in Actions
           /\ task[t].of \in Owners \cup {None} /\ task[t].todo \subseteq Owners
BY TypeParts DEF TInv, TaskOK, Tasking, Carried

(* What a rejection or a reset makes of its candidate, column by column. *)
LEMMA Left ==
    ASSUME TInv, NEW t \in Runners, At(t, "reject") \/ At(t, "reset"), NEW s, Leaves(t, s)
    PROVE  LET c == task[t].of IN
           /\ c \in Cands
           /\ cand' = [cand EXCEPT ![c] = cand'[c]]
           /\ cand'[c] \in [state : {cand[c].state, s}, request : {cand[c].request, 0}]
           /\ cand'[c].state = IF task[t].was = s THEN cand[c].state ELSE s
           /\ At(t, "reject") => cand'[c].request = cand[c].request
           /\ At(t, "reset") /\ task[t].blk # 0 => cand'[c].request = 0
           /\ At(t, "reset") /\ task[t].blk = 0 => cand'[c].request = cand[c].request
           /\ stale' = [stale EXCEPT ![c] = stale'[c]]
           /\ stale'[c] = (task[t].was = s /\ cand[c].state # s)
<1> DEFINE c == task[t].of
           a == IF task[t].was = s THEN cand[c].state ELSE s
           b == IF At(t, "reset") /\ task[t].blk # 0 THEN 0 ELSE cand[c].request
<1>1. c \in Cands
  BY HeldTask, Sets DEF Fits, At
<1>2. cand[c] \in [state : {"none"} \cup Open \cup Decided, request : 0 .. MaxBlocks]
      /\ DOMAIN cand = Cands /\ DOMAIN stale = Cands
  BY <1>1, TypeParts DEF TInv, CandOK, FlagsOK
<1>3. cand' = [cand EXCEPT ![c] = [cand[c] EXCEPT !.state = a, !.request = b]]
  <2>1. a = Flushed(cand[c].state, task[t].was, s)
    BY DEF Flushed
  <2>2. b = IF At(t, "reset") THEN Flushed(cand[c].request, task[t].blk, 0) ELSE cand[c].request
    BY DEF Flushed
  <2>3. cand' = [cand EXCEPT ![c] = [cand[c] EXCEPT
                    !.state = Flushed(cand[c].state, task[t].was, s),
                    !.request = IF At(t, "reset") THEN Flushed(cand[c].request, task[t].blk, 0)
                                                  ELSE cand[c].request]]
    BY <1>1, <1>2 DEF Leaves
  <2> QED
    BY <2>1, <2>2, <2>3, Zenon
<1>4. /\ [cand[c] EXCEPT !.state = a, !.request = b].state = a
      /\ [cand[c] EXCEPT !.state = a, !.request = b].request = b
      /\ \A S, T : a \in S /\ b \in T
             => [cand[c] EXCEPT !.state = a, !.request = b] \in [state : S, request : T]
  <2>1. ASSUME NEW row \in [state : {"none"} \cup Open \cup Decided, request : 0 .. MaxBlocks], NEW u, NEW v
        PROVE  /\ [row EXCEPT !.state = u, !.request = v].state = u
               /\ [row EXCEPT !.state = u, !.request = v].request = v
    OBVIOUS
  <2>2. ASSUME NEW row \in [state : {"none"} \cup Open \cup Decided, request : 0 .. MaxBlocks],
               NEW S, NEW T, NEW u \in S, NEW v \in T
        PROVE  [row EXCEPT !.state = u, !.request = v] \in [state : S, request : T]
    BY Zenon
  <2> HIDE DEF a, b, c
  <2> QED
    BY <1>2, <2>1, <2>2, Zenon
<1>5. stale' = [stale EXCEPT ![c] = (task[t].was = s /\ cand[c].state # s)]
  BY DEF Leaves
<1>6. cand'[c] = [cand[c] EXCEPT !.state = a, !.request = b]
  <2> HIDE DEF a, b
  <2> QED
    BY <1>1, <1>2, <1>3
<1>7. ~(At(t, "reject") /\ At(t, "reset"))
  BY DEF At
<1>8. cand'[c].state = a /\ cand'[c].request = b
  BY <1>4, <1>6, Zenon
<1>9. stale'[c] = (task[t].was = s /\ cand[c].state # s)
  BY <1>1, <1>2, <1>5
<1>10. a \in {cand[c].state, s} /\ b \in {cand[c].request, 0}
  OBVIOUS
<1>11. cand'[c] \in [state : {cand[c].state, s}, request : {cand[c].request, 0}]
  BY <1>4, <1>6, <1>10, Zenon
<1>12. stale' = [stale EXCEPT ![c] = stale'[c]] /\ cand' = [cand EXCEPT ![c] = cand'[c]]
  BY <1>3, <1>5, <1>6, <1>9, Zenon
<1> QED
  BY <1>1, <1>7, <1>8, <1>9, <1>11, <1>12

LEMMA CandTyping == ASSUME TInv, [Next]_vars PROVE CandOK'
<1>0. CandOK
  BY TypeParts DEF TInv
<1> DEFINE Row == [state : {"none"} \cup Open \cup Decided, request : 0 .. MaxBlocks]
<1>r. /\ \A x \in Row, s \in {"none"} \cup Open \cup Decided : [x EXCEPT !.state = s] \in Row
      /\ \A x \in Row, n \in 0 .. MaxBlocks : [x EXCEPT !.request = n] \in Row
      /\ [state |-> "new", request |-> 0] \in Row
      /\ \A act : As(act) \in Decided
  BY Sets DEF Open, As, Approved, Decided
<1>c. \A c \in Cands : cand[c] \in Row
  BY <1>0 DEF CandOK
<1>1. ASSUME NEW t \in Tasks, CandStep(t) \/ CandRequest(t) PROVE CandOK'
  <2>0. /\ task[t] \in Tasking /\ Fits(t, task[t]) /\ task[t].blk \in 0 .. MaxBlocks
        /\ task[t].todo \subseteq Cands
    BY HeldTask, Sets DEF Fits
  <2>1. CASE Ingest(t)
    BY <1>0, <1>r, <1>c, <2>1 DEF Ingest, CandOK, Open
  <2>2. CASE Announce(t)
    <3>1. task[t].of \in Cands
      BY <2>0, <2>2 DEF Announce, Fits, At
    <3>2. announced[task[t].of] \in 0 .. 2
      BY <1>0, <3>1 DEF CandOK
    <3>3. announced' = [announced EXCEPT ![task[t].of] = IF @ < 2 THEN @ + 1 ELSE @]
      BY <2>2 DEF Announce
    <3>4. announced' \in [Cands -> 0 .. 2]
      BY <1>0, <3>1, <3>2, <3>3 DEF CandOK
    <3> QED
      BY <1>0, <2>2, <3>4 DEF Announce, CandOK
  <2>3. CASE MarkNotified(t)
    BY <1>0, <1>r, <1>c, <2>0, <2>3 DEF MarkNotified, CandOK, Fits, At, Open
  <2>4. CASE Decide(t)
    <3>1. task[t].of \in Cands /\ As(task[t].act) \in Decided
      BY <1>r, <2>0, <2>4 DEF Decide, Fits, At
    <3>2. /\ cand' = [cand EXCEPT ![task[t].of] = [cand[task[t].of] EXCEPT !.state = As(task[t].act)]]
          /\ audit' = [audit EXCEPT ![task[t].of] = As(task[t].act)]
          /\ announced' = announced
      BY <2>4 DEF Decide
    <3> QED
      BY <1>0, <1>r, <1>c, <3>1, <3>2 DEF CandOK
  <2>5. CASE StoreRequest(t)
    BY <1>0, <1>r, <1>c, <2>0, <2>5 DEF StoreRequest, CandOK, Fits, At
  <2>6. ASSUME NEW s \in {"new", "rejected"}, At(t, "reject") \/ At(t, "reset"), Leaves(t, s)
        PROVE  cand' \in [Cands -> Row]
    <3> DEFINE c == task[t].of
    <3>1. /\ c \in Cands /\ cand' = [cand EXCEPT ![c] = cand'[c]]
          /\ cand'[c] \in [state : {cand[c].state, s}, request : {cand[c].request, 0}]
      BY <2>6, Left, Sets
    <3>2. cand[c] \in Row /\ s \in {"none"} \cup Open \cup Decided
      BY <1>c, <2>6, <3>1 DEF Open, Decided
    <3>3. cand'[c] \in Row
      BY <3>1, <3>2, Sets
    <3> QED
      BY <1>0, <3>1, <3>3 DEF CandOK
  <2>8. CASE RejectCommit(t) \/ ResetCommit(t)
    <3>1. cand' \in [Cands -> Row] /\ announced' = announced
      BY <2>6, <2>8 DEF RejectCommit, ResetCommit
    <3>2. audit' \in [Cands -> {"none", "reset"} \cup Decided]
      BY <1>0, <2>8 DEF RejectCommit, ResetCommit, CandOK, Decided
    <3> QED
      BY <1>0, <3>1, <3>2 DEF CandOK
  <2>7. CASE CancelCommit(t)
    <3>1. \A c \in Cands : Reopened(c) \in Row
      BY <1>r, <1>c DEF Reopened
    <3>2. \/ cand' = cand
          \/ \E c \in Cands : cand' = [cand EXCEPT ![c] = Reopened(c)]
      BY <2>7 DEF CancelCommit
    <3> QED
      BY <1>0, <2>7, <3>1, <3>2 DEF CancelCommit, CandOK
  <2> QED
    BY <1>0, <1>1, <2>1, <2>2, <2>3, <2>4, <2>5, <2>7, <2>8
       DEF CandStep, CandRequest, Poll, IngestFails, Notify, Notified, BuildFails, InsertRequest,
           Reject, Reset, Approve, Cancel, candVars, CandOK
<1>3. ASSUME UNCHANGED <<cand, audit, announced>> PROVE CandOK'
  BY <1>0, <1>3 DEF CandOK
<1> QED
  BY <1>1, <1>3, Sorted, Zenon DEF CandMove, Crash, vars, candVars

LEMMA PlanTyping == ASSUME TInv, [Next]_vars PROVE PlanOK'
<1> DEFINE Row == [saved : BOOLEAN, when : {"none", "later", "due"}, last : 0 .. MaxBlocks]
<1>r. /\ \A x \in Row, w \in {"none", "later", "due"} :
             /\ [x EXCEPT !.saved = TRUE, !.when = w] \in Row
             /\ [x EXCEPT !.when = w] \in Row
      /\ \A x \in Row, n \in 0 .. MaxBlocks : [x EXCEPT !.last = n] \in Row
      /\ 0 \in 0 .. MaxBlocks => [saved |-> FALSE, when |-> "none", last |-> 0] \in Row
  BY Zenon
<1>0. plan \in [Plans -> Row] /\ fired \in [Plans -> 0 .. 2]
  BY TypeParts DEF TInv, PlanOK
<1>g. plan' \in [Plans -> Row] /\ fired' \in [Plans -> 0 .. 2] => PlanOK'
  BY DEF PlanOK
<1> HIDE DEF Row
<1>1. ASSUME NEW r \in Runners, InsertRun(r) PROVE PlanOK'
  <2>0. task[r].of \in Plans /\ fired[task[r].of] \in 0 .. 2
    BY <1>0, <1>1 DEF InsertRun
  <2>1. \/ plan' = plan
        \/ \E b \in Blocks : plan' = [plan EXCEPT ![task[r].of] = [plan[task[r].of] EXCEPT !.last = b]]
    BY <1>1 DEF InsertRun
  <2>5. \A b \in Blocks : [plan[task[r].of] EXCEPT !.last = b] \in Row
    BY <1>0, <1>r, <2>0, Sets, Zenon
  <2>2. plan' \in [Plans -> Row]
    <3>1. CASE plan' = plan
      BY <1>0, <3>1
    <3>2. ASSUME NEW b \in Blocks, plan' = [plan EXCEPT ![task[r].of] = [plan[task[r].of] EXCEPT !.last = b]]
          PROVE  plan' \in [Plans -> Row]
      BY <1>0, <2>0, <2>5, <3>2
    <3> QED
      BY <2>1, <3>1, <3>2
  <2>3. \/ fired' = fired
        \/ fired' = [fired EXCEPT ![task[r].of] = IF @ < 2 THEN @ + 1 ELSE @]
    BY <1>1 DEF InsertRun
  <2>4. fired' \in [Plans -> 0 .. 2]
    BY <1>0, <2>0, <2>3
  <2> QED
    BY <1>g, <2>2, <2>4
<1>2. CASE Clear
  <2>1. task[Scheduler].of \in Plans
    BY <1>2, HeldTask, Sets DEF Clear, Fits, At
  <2> QED
    BY <1>0, <1>2, <1>r, <1>g, <2>1 DEF Clear
<1>7. CASE ClearFails
  <2>1. plan' = plan /\ fired' = [fired EXCEPT ![task[Scheduler].of] = 0]
    BY <1>7 DEF ClearFails
  <2>3. task[Scheduler].of \in Plans
    BY <1>7, HeldTask, Sets DEF ClearFails, Fits, At
  <2>2. fired' \in [Plans -> 0 .. 2]
    BY <1>0, <2>1, <2>3
  <2> QED
    BY <1>0, <1>g, <2>1, <2>2
<1>3. ASSUME NEW p \in Plans, NEW w \in {"none", "later"}, SavePlan(p, w) PROVE PlanOK'
  <2>1. [plan[p] EXCEPT !.saved = TRUE, !.when = w] \in Row
    BY <1>0, <1>r, Zenon
  <2>2. plan' = [plan EXCEPT ![p] = [plan[p] EXCEPT !.saved = TRUE, !.when = w]]
        /\ fired' = [fired EXCEPT ![p] = 0]
    BY <1>3, Zenon DEF SavePlan
  <2> QED
    BY <1>0, <1>g, <2>1, <2>2
<1>4. ASSUME NEW p \in Plans, DeletePlan(p) \/ ComesDue(p) PROVE PlanOK'
  <2>1. \E row \in Row : plan' = [plan EXCEPT ![p] = row]
    BY <1>0, <1>4, <1>r, Sets, Zenon DEF DeletePlan, ComesDue
  <2>2. fired' = fired
    BY <1>4 DEF DeletePlan, ComesDue
  <2> QED
    BY <1>0, <1>g, <2>1, <2>2
<1>5. CASE Crash
  BY <1>0, <1>5, <1>g DEF Crash
<1>6. ASSUME UNCHANGED <<plan, fired>> PROVE PlanOK'
  BY <1>0, <1>6, <1>g
<1> QED
  BY <1>1, <1>2, <1>3, <1>4, <1>5, <1>6, <1>7, Sorted, Zenon
     DEF PlanMove, RunFails, ResumeCommit, PlanRequest, RunPlan, ResumePlan, Wake, Fire, vars, planVars

LEMMA Flips ==
    ASSUME NEW S, NEW f \in [S -> BOOLEAN], NEW x, NEW v \in BOOLEAN
    PROVE  [f EXCEPT ![x] = v] \in [S -> BOOLEAN]
OBVIOUS

LEMMA Tangles == ASSUME NEW c, Tangle(c) PROVE tangled' \in [Cands -> BOOLEAN]
BY Zenon DEF Tangle

(* The order of the queue is the builders' own until somebody reorders it. *)
LEMMA Reorderings == ASSUME TInv, [Next]_vars PROVE reordered' = reordered \/ (Reorder /\ reordered')
BY Sorted, Zenon
  DEF CandMove, CandStep, CandRequest, Poll, Ingest, IngestFails, Notify, Announce, MarkNotified,
      Notified, Approve, Decide, BuildFails, InsertRequest, StoreRequest, Reject, RejectCommit, queueVars, Reset,
      ResetCommit, CancelCommit, Cancel, PlanMove, InsertRun, RunFails, PlanRequest, ResumeCommit,
      RunPlan, ResumePlan, Wake, Fire, Clear, ClearFails, DeletePlan, ComesDue, SavePlan, QueueMove, Reorder,
      ReadSeq, Dispatch, Finish, Crash, vars

LEMMA FlagsTyping == ASSUME TInv, [Next]_vars PROVE FlagsOK'
<1>0. FlagsOK
  BY TypeParts DEF TInv
<1>1. reordered' \in BOOLEAN
  <2>1. reordered' = reordered \/ Reorder
    BY Reorderings
  <2>2. CASE reordered' = reordered
    BY <1>0, <2>2 DEF FlagsOK
  <2>3. CASE Reorder
    BY <2>3 DEF Reorder
  <2> QED
    BY <2>1, <2>2, <2>3
<1>2. lost' \in [Cands -> BOOLEAN]
  <2>1. CASE lost' = lost
    BY <1>0, <2>1 DEF FlagsOK
  <2>2. ASSUME NEW t \in Tasks, Decide(t) \/ BuildFails(t) PROVE lost' \in [Cands -> BOOLEAN]
    BY <1>0, <2>2, Flips, Zenon DEF Decide, BuildFails, FlagsOK
  <2>3. CASE Crash
    BY <2>3, Zenon DEF Crash
  <2> QED
    BY <2>1, <2>2, <2>3, Sorted, Zenon
       DEF CandMove, CandStep, CandRequest, Poll, Ingest, IngestFails, Notify, Announce, MarkNotified,
           Notified, Approve, InsertRequest, StoreRequest, Reject, RejectCommit, Reset, ResetCommit, CancelCommit,
           Cancel, vars, candVars
<1>5. stale' \in [Cands -> BOOLEAN]
  <2>1. CASE stale' = stale
    BY <1>0, <2>1 DEF FlagsOK
  <2>2. ASSUME NEW t \in Tasks, RejectCommit(t) \/ ResetCommit(t) PROVE stale' \in [Cands -> BOOLEAN]
    <3>1. PICK s : Leaves(t, s)
      BY <2>2, Zenon DEF RejectCommit, ResetCommit
    <3>2. (task[t].was = s /\ cand[task[t].of].state # s) \in BOOLEAN
      OBVIOUS
    <3> QED
      BY <1>0, <3>1, <3>2, Flips, Zenon DEF Leaves, FlagsOK
  <2>3. ASSUME NEW t \in Tasks, Decide(t) PROVE stale' \in [Cands -> BOOLEAN]
    BY <1>0, <2>3, Flips, Zenon DEF Decide, FlagsOK
  <2> QED
    BY <2>1, <2>2, <2>3, Sorted, Zenon
       DEF CandMove, CandStep, CandRequest, Poll, Ingest, IngestFails, Notify, Announce, MarkNotified,
           Notified, Approve, BuildFails, InsertRequest, StoreRequest, Reject, Reset, CancelCommit,
           Cancel, Crash, vars, candVars
<1>3. tangled' \in [Cands -> BOOLEAN]
  <2>1. CASE tangled' = tangled
    BY <1>0, <2>1 DEF FlagsOK
  <2>2. ASSUME NEW c, Tangle(c) PROVE tangled' \in [Cands -> BOOLEAN]
    BY <2>2, Tangles
  <2>4. ASSUME NEW t \in Tasks, BuildFails(t) PROVE tangled' \in [Cands -> BOOLEAN]
    <3>1. tangled[task[t].of] \in BOOLEAN /\ At(t, "store") \in BOOLEAN
      BY <1>0, <2>4, Zenon DEF FlagsOK, BuildFails, At
    <3>2. (tangled[task[t].of] \/ At(t, "store")) \in BOOLEAN
      BY <3>1, Zenon
    <3>3. tangled' = [tangled EXCEPT ![task[t].of] = (tangled[task[t].of] \/ At(t, "store"))]
      BY <2>4, Zenon DEF BuildFails
    <3> QED
      BY <1>0, <3>2, <3>3, Flips, Zenon DEF FlagsOK
  <2>3. CASE Crash
    BY <2>3, Zenon DEF Crash
  <2> QED
    BY <2>1, <2>2, <2>3, <2>4, Sorted, Zenon
       DEF CandMove, CandStep, CandRequest, Poll, Ingest, IngestFails, Notify, Announce, MarkNotified,
           Notified, Approve, Decide, InsertRequest, StoreRequest, Reject, RejectCommit, Reset, ResetCommit,
           CancelCommit, Cancel, vars, candVars
<1>4. spoiled' \in [Plans -> BOOLEAN]
  <2>1. CASE spoiled' = spoiled
    BY <1>0, <2>1 DEF FlagsOK
  <2>2. ASSUME NEW p \in Plans, spoiled' = [spoiled EXCEPT ![p] = Held(p)]
        PROVE  spoiled' \in [Plans -> BOOLEAN]
    BY <1>0, <2>2, Flips, Zenon DEF Held, FlagsOK
  <2>3. ASSUME NEW r, RunFails(r) PROVE spoiled' \in [Plans -> BOOLEAN]
    BY <1>0, <2>3, Flips, Zenon DEF RunFails, FlagsOK
  <2>4. CASE Crash
    BY <2>4, Zenon DEF Crash
  <2> QED
    BY <2>1, <2>2, <2>3, <2>4, Sorted, Zenon
       DEF PlanMove, InsertRun, PlanRequest, ResumeCommit, RunPlan, ResumePlan, Wake, Fire, Clear, ClearFails,
           DeletePlan, ComesDue, SavePlan, vars, planVars
<1> QED
  BY <1>1, <1>2, <1>3, <1>4, <1>5 DEF FlagsOK

-----------------------------------------------------------------------------
(* What a handler that does not move holds stays its own. *)
LEMMA OthersFit ==
    ASSUME TInv, [Next]_vars, NEW r \in Runners, task'[r] = task[r]
    PROVE  Fits(r, task[r])'
<1>0. BlockOK
  BY TypeParts DEF TInv
<1>1. Fits(r, task[r]) /\ task[r].blk \in 0 .. MaxBlocks
  BY HeldTask
<1>2. ASSUME task[r].pc \in {"store", "resume", "reset"}, task[r].blk # 0
      PROVE  block'[task[r].blk].owner = task[r].of
  <2>1. block[task[r].blk].owner = task[r].of /\ task[r].of \in Owners
    BY <1>1, <1>2, Sets DEF Fits
  <2>2. task[r].blk \in Existing
    BY <1>0, <1>1, <1>2, <2>1, OwnedExist
  <2> QED
    BY <2>1, <2>2, BlocksStay
<1>3. ASSUME task[r].pc = "cancel" PROVE task[r].blk \in Existing'
  BY <1>1, <1>3, BlocksStay DEF Fits
<1> QED
  BY <1>1, <1>2, <1>3 DEF Fits

(* It is enough to look at the handler that moves. *)
LEMMA MoverFits ==
    ASSUME TInv, [Next]_vars, NEW r \in Runners, NEW rec, Become(r, rec), Fits(r, task[r])'
    PROVE  Carried'
<1>1. \A x \in Runners \ {r} : task'[x] = task[x]
  BY TypeParts DEF TInv, TaskOK, Become
<1> QED
  BY <1>1, OthersFit DEF Carried

LEMMA CarriedCand ==
    ASSUME TInv, [Next]_vars, NEW t \in Tasks, CandStep(t) \/ CandRequest(t)
    PROVE  Carried'
<1>0. /\ task[t] \in Tasking /\ Fits(t, task[t]) /\ task[t].blk \in 0 .. MaxBlocks
      /\ task[t].todo \subseteq Cands /\ t \in Runners /\ t # Scheduler /\ DOMAIN task = Runners
  BY HeldTask, Sets, TypeParts DEF Fits, TInv, TaskOK
<1>1. CASE Ingest(t)
  <2>1. PICK S \in SUBSET task[t].todo : Become(t, [Idle EXCEPT !.pc = "notify", !.todo = S])
    BY <1>1 DEF Ingest
  <2>2. task'[t].pc = "notify" /\ task'[t].todo \subseteq Cands
    BY <1>0, <2>1 DEF Become, Idle
  <2> QED
    BY <1>0, <2>1, <2>2, MoverFits DEF Fits
<1>2. CASE IngestFails(t) \/ Notified(t) \/ BuildFails(t) \/ StoreRequest(t) \/ RejectCommit(t) \/ ResetCommit(t) \/ CancelCommit(t)
  <2>1. Become(t, Idle)
    BY <1>2 DEF IngestFails, Notified, BuildFails, StoreRequest, RejectCommit, ResetCommit, CancelCommit, Done
  <2>2. task'[t].pc = "idle" /\ task'[t].todo = {}
    BY <1>0, <2>1 DEF Become, Idle
  <2> QED
    BY <1>0, <2>1, <2>2, MoverFits DEF Fits
<1>3. CASE Notify(t)
  <2>1. PICK c \in task[t].todo, pc \in {"announce", "notify"} :
           Become(t, [task[t] EXCEPT !.todo = @ \ {c}, !.of = c, !.pc = pc])
    BY <1>3 DEF Notify
  <2>2. task'[t].pc = pc /\ task'[t].of = c /\ task'[t].todo \subseteq Cands /\ c \in Cands
    BY <1>0, <2>1 DEF Become, Tasking
  <2> QED
    BY <1>0, <2>1, <2>2, MoverFits DEF Fits
<1>4. CASE Announce(t) \/ MarkNotified(t) \/ Decide(t)
  <2>1. PICK pc \in {"mark", "notify", "number"} : Become(t, [task[t] EXCEPT !.pc = pc])
    BY <1>4 DEF Announce, MarkNotified, Decide
  <2>2. task'[t].pc = pc /\ task'[t].of = task[t].of /\ task'[t].todo = task[t].todo
    BY <1>0, <2>1 DEF Become, Tasking
  <2>3. task[t].of \in Cands
    BY <1>0, <1>4 DEF Fits, At, Announce, MarkNotified, Decide
  <2> QED
    BY <1>0, <2>1, <2>2, <2>3, Sets, MoverFits DEF Fits
<1>5. CASE InsertRequest(t)
  <2>1. PICK b \in Blocks : NewBlock(t, b) /\ Become(t, [task[t] EXCEPT !.pc = "store", !.blk = b])
    BY <1>5 DEF InsertRequest
  <2>2. /\ task'[t].pc = "store" /\ task'[t].of = task[t].of /\ task'[t].todo = task[t].todo
        /\ task'[t].blk = b /\ b # 0
    BY <1>0, <2>1, QueueConstants DEF Become, Tasking, Blocks
  <2>3. block'[b].owner = task[t].of /\ task[t].of \in Cands
    BY <1>5, <2>1, TypeParts DEF TInv, BlockOK, NewBlock, InsertRequest
  <2> QED
    BY <1>0, <2>1, <2>2, <2>3, MoverFits DEF Fits
<1>6. CASE Poll(t)
  <2>1. PICK new \in SUBSET Cands : Become(t, [Idle EXCEPT !.pc = "ingest", !.todo = new])
    BY <1>6 DEF Poll
  <2>2. task'[t].pc = "ingest" /\ task'[t].todo \subseteq Cands
    BY <1>0, <2>1 DEF Become, Idle
  <2> QED
    BY <1>0, <2>1, <2>2, MoverFits DEF Fits
<1>7. ASSUME NEW c \in Cands, Reset(t, c) PROVE Carried'
  <2>1. /\ Become(t, [Idle EXCEPT !.pc = "reset", !.of = c, !.was = cand[c].state, !.blk = cand[c].request])
        /\ block' = block
    BY <1>7 DEF Reset
  <2>2. task'[t].pc = "reset" /\ task'[t].of = c /\ task'[t].todo = {} /\ task'[t].blk = cand[c].request
    BY <1>0, <2>1 DEF Become, Idle
  <2>3. task'[t].blk # 0 => block'[task'[t].blk].owner = c
    BY <2>1, <2>2 DEF TInv, RequestIsOwn
  <2> QED
    BY <1>0, <2>1, <2>2, <2>3, MoverFits DEF Fits
<1>8. ASSUME NEW c \in Cands, NEW act \in Actions, Approve(t, c, act) PROVE Carried'
  <2>1. Become(t, [Idle EXCEPT !.pc = "decide", !.of = c, !.act = act, !.after = Existing])
    BY <1>8 DEF Approve
  <2>2. task'[t].pc = "decide" /\ task'[t].of = c /\ task'[t].todo = {}
    BY <1>0, <2>1 DEF Become, Idle
  <2> QED
    BY <1>0, <2>1, <2>2, MoverFits DEF Fits
<1>9. ASSUME NEW b \in Blocks, Cancel(t, b) PROVE Carried'
  <2>1. Become(t, [Idle EXCEPT !.pc = "cancel", !.blk = b]) /\ block' = block /\ b \in Existing
    BY <1>9 DEF Cancel, Waiting, Existing
  <2>2. task'[t].pc = "cancel" /\ task'[t].blk = b /\ task'[t].todo = {}
    BY <1>0, <2>1 DEF Become, Idle
  <2>3. b \in Existing'
    BY <2>1, BlocksStay
  <2> QED
    BY <1>0, <2>1, <2>2, <2>3, MoverFits DEF Fits
<1>10. ASSUME NEW c \in Cands, Reject(t, c) PROVE Carried'
  <2>1. Become(t, [Idle EXCEPT !.pc = "reject", !.of = c, !.was = cand[c].state])
    BY <1>10 DEF Reject
  <2>2. task'[t].pc = "reject" /\ task'[t].of = c /\ task'[t].todo = {}
    BY <1>0, <2>1 DEF Become, Idle
  <2> QED
    BY <1>0, <2>1, <2>2, MoverFits DEF Fits
<1> QED
  BY <1>1, <1>2, <1>3, <1>4, <1>5, <1>6, <1>7, <1>8, <1>9, <1>10, Zenon DEF CandStep, CandRequest

LEMMA CarriedPlan == ASSUME TInv, [Next]_vars, PlanMove PROVE Carried'
<1>0. DOMAIN task = Runners
  BY TypeParts DEF TInv, TaskOK
<1>1. ASSUME NEW r \in Runners, InsertRun(r) \/ RunFails(r) PROVE Carried'
  <2>0. /\ task[r] \in Tasking /\ Fits(r, task[r]) /\ task[r].of \in Plans
        /\ r # Scheduler => r \in Tasks
    BY <1>1, HeldTask DEF InsertRun, RunFails, Runners
  <2>1. CASE r = Scheduler
    <3>1. Become(r, [task[r] EXCEPT !.pc = "clear"])
      BY <1>1, <2>1 DEF InsertRun, RunFails
    <3>2. task'[r].pc = "clear" /\ task'[r].of \in Plans /\ task'[r].todo = task[r].todo
      BY <1>0, <2>0, <3>1 DEF Become, Tasking
    <3> QED
      BY <1>0, <2>0, <2>1, <3>1, <3>2, Sets, MoverFits DEF Fits
  <2>2. CASE r # Scheduler
    <3>1. Become(r, Idle)
      BY <1>1, <2>2 DEF InsertRun, RunFails, Done
    <3>2. task'[r].pc = "idle" /\ task'[r].todo = {}
      BY <1>0, <3>1 DEF Become, Idle
    <3> QED
      BY <1>0, <2>0, <2>2, <3>1, <3>2, MoverFits DEF Fits
  <2> QED
    BY <2>1, <2>2
<1>2. ASSUME NEW t \in Tasks, ResumeCommit(t) \/ PlanRequest(t) PROVE Carried'
  <2>0. t \in Runners /\ t # Scheduler
    BY Sets
  <2>1. CASE ResumeCommit(t)
    <3>1. Become(t, Idle)
      BY <2>1 DEF ResumeCommit, Done
    <3>2. task'[t].pc = "idle" /\ task'[t].todo = {}
      BY <1>0, <2>0, <3>1 DEF Become, Idle
    <3> QED
      BY <2>0, <3>1, <3>2, MoverFits DEF Fits
  <2>2. ASSUME NEW p \in Plans, RunPlan(t, p) PROVE Carried'
    <3>1. Become(t, [Idle EXCEPT !.pc = "number", !.of = p, !.after = Existing])
      BY <2>2 DEF RunPlan
    <3>2. task'[t].pc = "number" /\ task'[t].todo = {} /\ task'[t].of \in Owners
      BY <1>0, <2>0, <3>1, Sets DEF Become, Idle
    <3> QED
      BY <2>0, <3>1, <3>2, MoverFits DEF Fits
  <2>3. ASSUME NEW p \in Plans, ResumePlan(t, p) PROVE Carried'
    <3>1. /\ Become(t, [Idle EXCEPT !.pc = "resume", !.of = p, !.blk = plan[p].last])
          /\ block' = block /\ plan[p].last # 0
      BY <2>3 DEF ResumePlan, Resumable
    <3>2. task'[t].pc = "resume" /\ task'[t].todo = {} /\ task'[t].of = p /\ task'[t].blk = plan[p].last
      BY <1>0, <2>0, <3>1 DEF Become, Idle
    <3>3. block'[plan[p].last].owner = p
      BY <3>1 DEF TInv, LastIsOwn
    <3> QED
      BY <2>0, <3>1, <3>2, <3>3, MoverFits DEF Fits
  <2> QED
    BY <1>2, <2>1, <2>2, <2>3, Zenon DEF PlanRequest
<1>3. CASE Wake \/ Fire \/ Clear \/ ClearFails
  <2>0. /\ task[Scheduler] \in Tasking /\ Fits(Scheduler, task[Scheduler]) /\ Scheduler \in Runners
        /\ Scheduler \notin Tasks /\ task[Scheduler].todo \subseteq Plans /\ Plans \subseteq Owners
    BY HeldTask, Sets DEF Fits
  <2>1. CASE Wake
    <3>1. Become(Scheduler, [Idle EXCEPT !.pc = "next", !.todo = Due])
      BY <2>1 DEF Wake
    <3>2. task'[Scheduler].pc = "next" /\ task'[Scheduler].todo \subseteq Plans
      BY <1>0, <2>0, <3>1 DEF Become, Idle, Due
    <3> QED
      BY <2>0, <3>1, <3>2, MoverFits DEF Fits
  <2>2. CASE Fire
    <3>1. PICK p \in task[Scheduler].todo, pc \in {"number", "clear"} :
             Become(Scheduler, [task[Scheduler] EXCEPT !.of = p, !.todo = @ \ {p}, !.after = Existing,
                                                     !.pc = pc])
      BY <2>2 DEF Fire
    <3>2. task'[Scheduler].pc = pc /\ task'[Scheduler].todo \subseteq Plans /\ task'[Scheduler].of \in Plans
      BY <1>0, <2>0, <3>1 DEF Become, Tasking
    <3> QED
      BY <2>0, <3>1, <3>2, MoverFits DEF Fits
  <2>3. CASE Clear \/ ClearFails
    <3>1. PICK pc \in {"idle", "next"}, S \in {task[Scheduler].todo, {}} :
             Become(Scheduler, [Idle EXCEPT !.pc = pc, !.todo = S])
      BY <2>3, Cleared
    <3>2. task'[Scheduler].pc = pc /\ task'[Scheduler].todo \subseteq Plans
      BY <1>0, <2>0, <3>1 DEF Become, Idle
    <3> QED
      BY <2>0, <3>1, <3>2, MoverFits DEF Fits
  <2> QED
    BY <1>3, <2>1, <2>2, <2>3
<1>4. ASSUME UNCHANGED task PROVE Carried'
  BY <1>4, OthersFit DEF Carried
<1> QED
  BY <1>1, <1>2, <1>3, <1>4, Zenon DEF PlanMove, DeletePlan, ComesDue, SavePlan, queueVars

LEMMA CarriedStays == ASSUME TInv, [Next]_vars PROVE Carried'
<1>1. ASSUME UNCHANGED task PROVE Carried'
  BY <1>1, OthersFit DEF Carried
<1>2. CASE CandMove
  BY <1>2, CarriedCand, Zenon DEF CandMove
<1>3. ASSUME NEW r \in Runners, ReadSeq(r) PROVE Carried'
  <2>0. task[r] \in Tasking /\ Fits(r, task[r]) /\ DOMAIN task = Runners
    BY HeldTask, TypeParts DEF TInv, TaskOK
  <2>1. PICK n : Become(r, [task[r] EXCEPT !.pc = "insert", !.seq = n])
    BY <1>3 DEF ReadSeq
  <2>2. task'[r].pc = "insert" /\ task'[r].of = task[r].of /\ task'[r].todo = task[r].todo
    BY <2>0, <2>1 DEF Become, Tasking
  <2>3. task[r].of \in Owners /\ (r = Scheduler => task[r].of \in Plans)
    BY <1>3, <2>0 DEF ReadSeq, At, Fits
  <2> QED
    BY <2>0, <2>1, <2>2, <2>3, MoverFits DEF Fits
<1>4. CASE QueueMove
  BY <1>1, <1>3, <1>4, Zenon DEF QueueMove, Reorder, Dispatch, Finish
<1>5. CASE Crash
  <2>1. \A r \in Runners : task'[r] = Idle
    BY <1>5 DEF Crash
  <2> QED
    BY <2>1 DEF Carried, Fits, Idle
<1> QED
  BY <1>1, <1>2, <1>4, <1>5, CarriedPlan, Sorted, Zenon DEF vars, queueVars

(* Only two steps put a request id or a block id on record. *)
LEMMA RequestSteps ==
    ASSUME TInv, [Next]_vars, NEW c \in Cands
    PROVE  \/ cand'[c].request = cand[c].request
           \/ /\ cand'[c].request = 0 /\ (cand'[c].state = "new" \/ stale'[c])
              /\ \E t \in Tasks :
                    \/ ResetCommit(t) /\ task[t].of = c
                    \/ CancelCommit(t) /\ block[task[t].blk].owner = c
           \/ \E t \in Tasks : StoreRequest(t) /\ task[t].of = c /\ cand'[c].request = task[t].blk
<1>0. CandOK /\ DOMAIN cand = Cands /\ DOMAIN stale = Cands
  BY TypeParts DEF TInv, CandOK, FlagsOK
<1>1. cand[c] \in [state : {"none"} \cup Open \cup Decided, request : 0 .. MaxBlocks]
  BY <1>0 DEF CandOK
<1> DEFINE Goal(t) ==
           \/ cand'[c].request = cand[c].request
           \/ /\ cand'[c].request = 0 /\ (cand'[c].state = "new" \/ stale'[c])
              /\ \/ ResetCommit(t) /\ task[t].of = c
                 \/ CancelCommit(t) /\ block[task[t].blk].owner = c
           \/ StoreRequest(t) /\ task[t].of = c /\ cand'[c].request = task[t].blk
     All ==
           \/ cand'[c].request = cand[c].request
           \/ /\ cand'[c].request = 0 /\ (cand'[c].state = "new" \/ stale'[c])
              /\ \E t \in Tasks :
                    \/ ResetCommit(t) /\ task[t].of = c
                    \/ CancelCommit(t) /\ block[task[t].blk].owner = c
           \/ \E t \in Tasks : StoreRequest(t) /\ task[t].of = c /\ cand'[c].request = task[t].blk
<1>2. ASSUME NEW t \in Tasks, CandStep(t) \/ CandRequest(t) PROVE Goal(t)
  <2>1. CASE CancelCommit(t)
    BY <1>0, <1>1, <2>1 DEF CancelCommit, Reopened
  <2>2. CASE Ingest(t)
    BY <1>0, <1>1, <2>2 DEF Ingest
  <2>3. CASE MarkNotified(t)
    BY <1>0, <1>1, <2>3 DEF MarkNotified
  <2>4. CASE Decide(t)
    <3>1. cand' = [cand EXCEPT ![task[t].of] = [cand[task[t].of] EXCEPT !.state = As(task[t].act)]]
      BY <2>4 DEF Decide
    <3> QED
      BY <1>0, <1>1, <3>1
  <2>5. CASE StoreRequest(t)
    BY <1>0, <1>1, <2>5 DEF StoreRequest
  <2>6. CASE ResetCommit(t)
    <3>1. At(t, "reset") /\ Leaves(t, "new")
      BY <2>6 DEF ResetCommit
    <3> QED
      <4>1. CASE task[t].of = c
        <5>1. /\ cand'[c].state = IF task[t].was = "new" THEN cand[c].state ELSE "new"
              /\ stale'[c] = (task[t].was = "new" /\ cand[c].state # "new")
              /\ task[t].blk # 0 => cand'[c].request = 0
              /\ task[t].blk = 0 => cand'[c].request = cand[c].request
          BY <3>1, <4>1, Left, Sets
        <5>2. cand'[c].state = "new" \/ stale'[c]
          BY <5>1
        <5> QED
          BY <2>6, <4>1, <5>1, <5>2
      <4>2. CASE task[t].of # c
        BY <1>0, <1>1, <3>1, <4>2, Left, Sets
      <4> QED
        BY <4>1, <4>2
  <2>7. CASE RejectCommit(t)
    <3>1. At(t, "reject") /\ ~At(t, "reset") /\ Leaves(t, "rejected")
      BY <2>7 DEF RejectCommit, At
    <3> QED
      BY <1>0, <1>1, <3>1, Left, Sets
  <2> QED
    BY <1>2, <2>1, <2>2, <2>3, <2>4, <2>5, <2>6, <2>7, Zenon
       DEF CandStep, CandRequest, Poll, IngestFails, Notify, Announce, Notified, BuildFails,
           InsertRequest, Reject, Reset, Approve, Cancel, candVars
<1>4. CASE UNCHANGED cand
  BY <1>4
<1>5. ASSUME NEW t \in Tasks, Goal(t) PROVE All
  BY <1>5, Zenon
<1>6. CASE CandMove
  BY <1>2, <1>5, <1>6, Zenon DEF CandMove
<1> QED
  BY <1>4, <1>6, Sorted, Zenon DEF Crash, vars, candVars

LEMMA LastSteps ==
    ASSUME TInv, [Next]_vars, NEW p \in Plans
    PROVE  \/ plan'[p].last = plan[p].last
           \/ plan'[p].last = 0
           \/ \E r \in Runners, b \in Blocks :
                 NewBlock(r, b) /\ task[r].of = p /\ plan'[p].last = b
<1>0. plan[p] \in [saved : BOOLEAN, when : {"none", "later", "due"}, last : 0 .. MaxBlocks]
      /\ DOMAIN plan = Plans
  BY TypeParts DEF TInv, PlanOK
<1>1. ASSUME NEW r \in Runners, InsertRun(r)
      PROVE  \/ plan'[p].last = plan[p].last
             \/ \E b \in Blocks : NewBlock(r, b) /\ task[r].of = p /\ plan'[p].last = b
  BY <1>0, <1>1 DEF InsertRun
<1>2. ASSUME NEW x \in Plans, NEW w \in {"none", "later"}, SavePlan(x, w) PROVE plan'[p].last = plan[p].last
  BY <1>0, <1>2 DEF SavePlan
<1>3. ASSUME NEW x \in Plans, DeletePlan(x) \/ ComesDue(x)
      PROVE  plan'[p].last = plan[p].last \/ plan'[p].last = 0
  BY <1>0, <1>3 DEF DeletePlan, ComesDue
<1>4. CASE Clear
  BY <1>0, <1>4 DEF Clear
<1>5. CASE UNCHANGED plan
  BY <1>5
<1> QED
  BY <1>1, <1>2, <1>3, <1>4, <1>5, Sorted, Zenon
     DEF PlanMove, RunFails, PlanRequest, ResumeCommit, RunPlan, ResumePlan, Wake, Fire, ClearFails,
         Crash, vars, planVars

LEMMA OwnStays == ASSUME TInv, [Next]_vars PROVE RequestIsOwn' /\ LastIsOwn'
<1>0. BlockOK /\ CandOK /\ PlanOK
  BY TypeParts DEF TInv
<1>k. ASSUME NEW b \in 0 .. MaxBlocks, b # 0, NEW x \in Owners, block[b].owner = x PROVE block'[b].owner = x
  BY <1>0, <1>k, OwnedExist, BlocksStay
<1>1. ASSUME NEW c \in Cands, cand'[c].request # 0 PROVE block'[cand'[c].request].owner = c
  <2>1. CASE cand'[c].request = cand[c].request
    <3>1. cand[c].request \in 0 .. MaxBlocks /\ block[cand[c].request].owner = c
      BY <1>0, <1>1, <2>1 DEF TInv, RequestIsOwn, CandOK
    <3> QED
      BY <1>1, <1>k, <2>1, <3>1, Sets
  <2>2. ASSUME NEW t \in Tasks, StoreRequest(t), task[t].of = c, cand'[c].request = task[t].blk
        PROVE  block'[cand'[c].request].owner = c
    <3>1. task[t].blk \in 0 .. MaxBlocks /\ task[t].blk # 0 /\ block[task[t].blk].owner = c
      BY <2>2, HeldTask, Sets DEF StoreRequest, Fits, At
    <3> QED
      BY <1>k, <2>2, <3>1, Sets
  <2> QED
    BY <1>1, <2>1, <2>2, RequestSteps
<1>2. ASSUME NEW p \in Plans, plan'[p].last # 0 PROVE block'[plan'[p].last].owner = p
  <2>1. CASE plan'[p].last = plan[p].last
    <3>1. plan[p].last \in 0 .. MaxBlocks /\ block[plan[p].last].owner = p
      BY <1>0, <1>2, <2>1 DEF TInv, LastIsOwn, PlanOK
    <3> QED
      BY <1>2, <1>k, <2>1, <3>1, Sets
  <2>2. ASSUME NEW r \in Runners, NEW b \in Blocks, NewBlock(r, b), task[r].of = p, plan'[p].last = b
        PROVE  block'[plan'[p].last].owner = p
    BY <1>0, <2>2 DEF NewBlock, BlockOK
  <2> QED
    BY <1>2, <2>1, <2>2, LastSteps
<1> QED
  BY <1>1, <1>2 DEF RequestIsOwn, LastIsOwn

LEMMA TInvInit == Init => TInv
<1> SUFFICES ASSUME Init PROVE TInv
  OBVIOUS
<1>1. TaskOK /\ BlockOK
  BY IdleRecord DEF Init, QueueInit, TaskOK, BlockOK, BlockRows
<1>2. CandOK /\ PlanOK
  <2>1. [state |-> "none", request |-> 0] \in
             [state : {"none"} \cup Open \cup Decided, request : 0 .. MaxBlocks]
    BY Sets
  <2>2. [saved |-> FALSE, when |-> "none", last |-> 0] \in
             [saved : BOOLEAN, when : {"none", "later", "due"}, last : 0 .. MaxBlocks]
    BY Sets
  <2> QED
    BY <2>1, <2>2 DEF Init, CandInit, PlanInit, CandOK, PlanOK
<1>3. FlagsOK
  BY DEF Init, QueueInit, CandInit, PlanInit, FlagsOK
<1>4. Carried
  BY Sets DEF Init, QueueInit, Carried, Fits, Idle
<1>5. RequestIsOwn /\ LastIsOwn
  BY DEF Init, CandInit, PlanInit, RequestIsOwn, LastIsOwn
<1> QED
  BY <1>1, <1>2, <1>3, <1>4, <1>5, TypeParts DEF TInv

LEMMA TInvStep == TInv /\ [Next]_vars => TInv'
<1> SUFFICES ASSUME TInv, [Next]_vars PROVE TInv'
  OBVIOUS
<1>1. TypeOK'
  <2>1. TaskOK'
    BY TaskTyping DEF TInv
  <2> QED
    BY <2>1, BlockTyping, CandTyping, PlanTyping, FlagsTyping, TypeParts, PTL
<1> QED
  BY <1>1, CarriedStays, OwnStays DEF TInv

LEMMA TInvAlways == Spec => []TInv
BY TInvInit, TInvStep, PTL DEF Spec

(* Whatever handlers overlap and whenever the process dies, the rows and   *)
(* what handlers hold are of their types.                                  *)
THEOREM WellTyped == Spec => []TypeOK
<1>1. TInv => TypeOK
  BY DEF TInv
<1> QED
  BY <1>1, TInvAlways, PTL

(* No request id on a candidate is of another one's request, nor a plan's   *)
(* last block of another plan's run, whatever was reset, removed and       *)
(* approved again beside the build that made it.                           *)
THEOREM RequestsAreOwn == Spec => []RequestIsOwn
<1>1. TInv => RequestIsOwn
  BY DEF TInv
<1> QED
  BY <1>1, TInvAlways, PTL

-----------------------------------------------------------------------------
(* Who may move a handler on, by where it is. *)
LEMMA Movers ==
    ASSUME TInv, [Next]_vars, NEW r \in Runners
    PROVE  \/ task'[r] = task[r]
           \/ Crash /\ task'[r] = Idle
           \/ r \in Tasks /\ (CandStep(r) \/ CandRequest(r) \/ ResumeCommit(r) \/ PlanRequest(r))
           \/ InsertRun(r) \/ RunFails(r) \/ ReadSeq(r)
           \/ r = Scheduler /\ (Wake \/ Fire \/ Clear \/ ClearFails)
<1>0. DOMAIN task = Runners /\ Scheduler \in Runners /\ Tasks \subseteq Runners
  BY TypeParts, Sets DEF TInv, TaskOK
<1>1. ASSUME NEW x \in Runners, x # r, NEW rec, Become(x, rec) PROVE task'[r] = task[r]
  BY <1>0, <1>1 DEF Become
<1>2. ASSUME NEW t \in Tasks, CandStep(t) \/ CandRequest(t), t # r PROVE task'[r] = task[r]
  <2>1. \E rec : Become(t, rec)
    BY <1>2, Zenon
       DEF CandStep, CandRequest, Poll, Ingest, IngestFails, Notify, Announce, MarkNotified, Notified,
           Decide, BuildFails, InsertRequest, StoreRequest, RejectCommit, ResetCommit, CancelCommit,
           Reject, Reset, Approve, Cancel, Done
  <2> QED
    BY <1>0, <1>1, <1>2, <2>1
<1>3. ASSUME NEW t \in Tasks, ResumeCommit(t) \/ PlanRequest(t), t # r PROVE task'[r] = task[r]
  BY <1>0, <1>1, <1>3 DEF ResumeCommit, PlanRequest, RunPlan, ResumePlan, Done
<1>4. ASSUME NEW x \in Runners, InsertRun(x) \/ RunFails(x) \/ ReadSeq(x), x # r PROVE task'[r] = task[r]
  <2>1. \E rec : Become(x, rec)
    BY <1>4, Zenon DEF InsertRun, RunFails, ReadSeq, Done
  <2> QED
    BY <1>1, <1>4, <2>1
<1>5. ASSUME Wake \/ Fire \/ Clear \/ ClearFails, r # Scheduler PROVE task'[r] = task[r]
  <2>1. \E rec : Become(Scheduler, rec)
    BY <1>5, Zenon DEF Wake, Fire, Clear, ClearFails, Done
  <2> QED
    BY <1>0, <1>1, <1>5, <2>1
<1>6. CASE Crash
  BY <1>6 DEF Crash
<1> QED
  BY <1>2, <1>3, <1>4, <1>5, <1>6, Sorted, Zenon
     DEF CandMove, PlanMove, SavePlan, DeletePlan, ComesDue, QueueMove, Reorder, Dispatch,
         Finish, vars, queueVars

Still(r) == task'[r] = task[r] \/ (Crash /\ task'[r] = Idle)

LEMMA Flow ==
    ASSUME TInv, [Next]_vars, NEW r \in Runners
    PROVE
    /\ At(r, "number") => Still(r) \/ BuildFails(r) \/ ReadSeq(r)
    /\ At(r, "insert") => \/ Still(r) \/ InsertRun(r) \/ RunFails(r) \/ BuildFails(r)
                          \/ InsertRequest(r) /\ r \in Tasks
    /\ At(r, "store")  => Still(r) \/ StoreRequest(r) \/ BuildFails(r)
    /\ At(r, "reject") => Still(r) \/ RejectCommit(r)
    /\ At(r, "decide") => Still(r) \/ Decide(r)
    /\ At(r, "reset")  => Still(r) \/ ResetCommit(r)
    /\ At(r, "cancel") => Still(r) \/ CancelCommit(r)
    /\ At(r, "mark")   => Still(r) \/ MarkNotified(r)
    /\ At(r, "announce") => Still(r) \/ Announce(r)
    /\ At(r, "notify") => Still(r) \/ Notify(r) \/ Notified(r)
    /\ At(r, "ingest") => Still(r) \/ Ingest(r) \/ IngestFails(r)
    /\ At(r, "resume") => Still(r) \/ ResumeCommit(r)
    /\ At(r, "next")   => Still(r) \/ (Fire /\ r = Scheduler)
    /\ At(r, "clear")  => Still(r) \/ ((Clear \/ ClearFails) /\ r = Scheduler)
    /\ At(r, "idle")   => Still(r) \/ (r \in Tasks /\ (CandRequest(r) \/ PlanRequest(r)))
                                   \/ (Wake /\ r = Scheduler)
<1>1. /\ Ingest(r) \/ IngestFails(r) => At(r, "ingest")
      /\ Notify(r) \/ Notified(r) => At(r, "notify")
      /\ Announce(r) => At(r, "announce")
      /\ MarkNotified(r) => At(r, "mark")
      /\ Decide(r) => At(r, "decide")
      /\ BuildFails(r) => At(r, "number") \/ At(r, "insert") \/ At(r, "store")
      /\ ReadSeq(r) => At(r, "number")
      /\ InsertRequest(r) \/ InsertRun(r) \/ RunFails(r) => At(r, "insert")
      /\ StoreRequest(r) => At(r, "store")
      /\ RejectCommit(r) => At(r, "reject")
      /\ ResetCommit(r) => At(r, "reset")
      /\ CancelCommit(r) => At(r, "cancel")
      /\ ResumeCommit(r) => At(r, "resume")
  BY DEF At, Ingest, IngestFails, Notify, Announce, MarkNotified, Notified, Decide, BuildFails, ReadSeq,
         InsertRequest, InsertRun, RunFails, StoreRequest, RejectCommit, ResetCommit, CancelCommit, ResumeCommit
<1>2. CandRequest(r) \/ PlanRequest(r) => At(r, "idle")
  BY Zenon DEF CandRequest, Poll, Reject, Reset, Approve, Cancel, PlanRequest, RunPlan, ResumePlan
<1>3. /\ Wake => At(Scheduler, "idle")
      /\ Fire => At(Scheduler, "next")
      /\ Clear \/ ClearFails => At(Scheduler, "clear")
  BY DEF Wake, Fire, Clear, ClearFails
<1>4. \/ Still(r)
      \/ r \in Tasks /\ (CandStep(r) \/ CandRequest(r) \/ ResumeCommit(r) \/ PlanRequest(r))
      \/ InsertRun(r) \/ RunFails(r) \/ ReadSeq(r)
      \/ r = Scheduler /\ (Wake \/ Fire \/ Clear \/ ClearFails)
  BY Movers, Zenon DEF Still
<1>5. CASE Still(r)
  BY <1>5
<1>6. CASE r \in Tasks /\ CandStep(r)
  BY <1>1, <1>6 DEF At, CandStep
<1>7. CASE r \in Tasks /\ (CandRequest(r) \/ ResumeCommit(r) \/ PlanRequest(r))
  BY <1>1, <1>2, <1>7 DEF At
<1>8. CASE InsertRun(r) \/ RunFails(r) \/ ReadSeq(r)
  BY <1>1, <1>8 DEF At
<1>9. CASE r = Scheduler /\ (Wake \/ Fire \/ Clear \/ ClearFails)
  BY <1>3, <1>9 DEF At
<1> QED
  BY <1>4, <1>5, <1>6, <1>7, <1>8, <1>9

(* What a step may make of a candidate's decision and of its last audit. *)
Decides(t, c) ==
    \/ cand'[c].state = cand[c].state /\ audit'[c] = audit[c] /\ (stale[c] => stale'[c])
    \/ Ingest(t) /\ c \in task[t].todo /\ cand'[c].state = "new"
    \/ MarkNotified(t) /\ task[t].of = c /\ cand'[c].state = "notified"
    \/ /\ Decide(t) /\ task[t].of = c
       /\ cand'[c].state = As(task[t].act) /\ audit'[c] = As(task[t].act)
    \/ /\ RejectCommit(t) /\ task[t].of = c /\ audit'[c] = "rejected"
       /\ cand'[c].state = IF task[t].was = "rejected" THEN cand[c].state ELSE "rejected"
       /\ cand'[c].state # "rejected" => stale'[c]
    \/ /\ ResetCommit(t) /\ task[t].of = c
       /\ cand'[c].state = IF task[t].was = "new" THEN cand[c].state ELSE "new"
       /\ cand'[c].state # "new" => stale'[c]
    \/ /\ CancelCommit(t) /\ block[task[t].blk].owner = c
       /\ cand[c].state \in Approved /\ cand'[c].state = "new"

LEMMA StateSteps ==
    ASSUME TInv, [Next]_vars, NEW c \in Cands
    PROVE  \/ cand'[c].state = cand[c].state /\ audit'[c] = audit[c] /\ (stale[c] => stale'[c])
           \/ \E t \in Tasks : Decides(t, c)
<1>0. /\ CandOK /\ DOMAIN cand = Cands /\ DOMAIN audit = Cands /\ DOMAIN stale = Cands
  BY TypeParts DEF TInv, CandOK, FlagsOK
<1>1. cand[c] \in [state : {"none"} \cup Open \cup Decided, request : 0 .. MaxBlocks]
  BY <1>0 DEF CandOK
<1>2. ASSUME NEW t \in Tasks, CandStep(t) \/ CandRequest(t) PROVE Decides(t, c)
  <2>1. CASE Ingest(t)
    BY <1>0, <1>1, <2>1 DEF Ingest, Decides
  <2>2. CASE MarkNotified(t)
    BY <1>0, <1>1, <2>2 DEF MarkNotified, Decides
  <2>3. CASE Decide(t)
    <3>1. /\ cand' = [cand EXCEPT ![task[t].of] = [cand[task[t].of] EXCEPT !.state = As(task[t].act)]]
          /\ audit' = [audit EXCEPT ![task[t].of] = As(task[t].act)]
          /\ stale' = [stale EXCEPT ![task[t].of] = FALSE]
      BY <2>3 DEF Decide
    <3> QED
      BY <1>0, <1>1, <2>3, <3>1 DEF Decides
  <2>4. CASE StoreRequest(t)
    BY <1>0, <1>1, <2>4 DEF StoreRequest, Decides
  <2>5. CASE RejectCommit(t)
    <3>1. At(t, "reject") /\ Leaves(t, "rejected") /\ audit' = [audit EXCEPT ![task[t].of] = "rejected"]
      BY <2>5 DEF RejectCommit
    <3>2. CASE task[t].of = c
      <4>1. /\ cand'[c].state = IF task[t].was = "rejected" THEN cand[c].state ELSE "rejected"
            /\ stale'[c] = (task[t].was = "rejected" /\ cand[c].state # "rejected")
        BY <3>1, <3>2, Left, Sets
      <4> QED
        BY <1>0, <2>5, <3>1, <3>2, <4>1 DEF Decides
    <3>3. CASE task[t].of # c
      BY <1>0, <3>1, <3>3, Left, Sets DEF Decides
    <3> QED
      BY <3>2, <3>3
  <2>6. CASE ResetCommit(t)
    <3>1. At(t, "reset") /\ Leaves(t, "new") /\ audit' = [audit EXCEPT ![task[t].of] = "reset"]
      BY <2>6 DEF ResetCommit
    <3>2. CASE task[t].of = c
      <4>1. /\ cand'[c].state = IF task[t].was = "new" THEN cand[c].state ELSE "new"
            /\ stale'[c] = (task[t].was = "new" /\ cand[c].state # "new")
        BY <3>1, <3>2, Left, Sets
      <4> QED
        BY <1>0, <2>6, <3>1, <3>2, <4>1 DEF Decides
    <3>3. CASE task[t].of # c
      BY <1>0, <3>1, <3>3, Left, Sets DEF Decides
    <3> QED
      BY <3>2, <3>3
  <2>7. CASE CancelCommit(t)
    BY <1>0, <1>1, <2>7 DEF CancelCommit, Reopened, Decides
  <2>8. ASSUME UNCHANGED <<cand, audit, stale>> PROVE Decides(t, c)
    BY <2>8 DEF Decides
  <2> QED
    BY <1>2, <2>1, <2>2, <2>3, <2>4, <2>5, <2>6, <2>7, <2>8, Zenon
       DEF CandStep, CandRequest, Poll, IngestFails, Notify, Announce, Notified, BuildFails,
           InsertRequest, Reject, Reset, Approve, Cancel, candVars
<1>4. CASE UNCHANGED <<cand, audit, stale>>
  BY <1>4
<1> QED
  BY <1>2, <1>4, Sorted, Zenon DEF CandMove, Crash, vars, candVars

(* The audit trail agrees with every decision that stands, unless the last *)
(* to write it was a handler that found nothing to change and was wrong    *)
(* about it by then: everybody else writes both rows in one transaction.   *)
THEOREM AuditAgreesAlways == Spec => []AuditAgrees
<1>1. Init => AuditAgrees
  BY DEF Init, CandInit, AuditAgrees, Decided, Approved
<1>2. ASSUME TInv, AuditAgrees, [Next]_vars PROVE AuditAgrees'
  <2>1. ASSUME NEW c \in Cands, cand'[c].state \in Decided PROVE audit'[c] = cand'[c].state \/ stale'[c]
    <3>1. CASE cand'[c].state = cand[c].state /\ audit'[c] = audit[c] /\ (stale[c] => stale'[c])
      BY <1>2, <2>1, <3>1 DEF AuditAgrees
    <3>2. ASSUME NEW t \in Tasks, Decides(t, c) PROVE audit'[c] = cand'[c].state \/ stale'[c]
      BY <2>1, <3>1, <3>2 DEF Decides, Decided, Approved
    <3> QED
      BY <1>2, <3>1, <3>2, StateSteps
  <2> QED
    BY <2>1 DEF AuditAgrees
<1> QED
  BY <1>1, <1>2, TInvAlways, PTL DEF Spec

-----------------------------------------------------------------------------
(* What becomes of an approval that is still being built. *)
LEMMA BuildingEnds ==
    ASSUME TInv, [Next]_vars, NEW c \in Cands, Building(c)
    PROVE  Building(c)' \/ lost'[c] \/ cand'[c].request # 0
<1>0. TaskOK /\ CandOK /\ DOMAIN lost = Cands
  BY TypeParts DEF TInv, FlagsOK
<1>1. PICK r \in Runners : task[r].pc \in {"number", "insert", "store"} /\ task[r].of = c
  BY DEF Building
<1>2. task[r] \in Tasking /\ Fits(r, task[r]) /\ DOMAIN task = Runners
  BY <1>0, HeldTask DEF TaskOK
<1>3. ASSUME task'[r].pc \in {"number", "insert", "store"}, task'[r].of = c PROVE Building(c)'
  BY <1>3 DEF Building
<1>4. CASE Crash
  BY <1>0, <1>4 DEF Crash
<1>5. CASE task'[r] = task[r]
  BY <1>1, <1>3, <1>5
<1>6. CASE BuildFails(r)
  BY <1>0, <1>1, <1>6 DEF BuildFails
<1>7. CASE ReadSeq(r)
  <2>1. PICK n : Become(r, [task[r] EXCEPT !.pc = "insert", !.seq = n])
    BY <1>7 DEF ReadSeq
  <2>2. task'[r].pc = "insert" /\ task'[r].of = c
    BY <1>1, <1>2, <2>1 DEF Become, Tasking
  <2> QED
    BY <1>3, <2>2
<1>8. CASE InsertRequest(r)
  <2>1. PICK b : Become(r, [task[r] EXCEPT !.pc = "store", !.blk = b])
    BY <1>8 DEF InsertRequest
  <2>2. task'[r].pc = "store" /\ task'[r].of = c
    BY <1>1, <1>2, <2>1 DEF Become, Tasking
  <2> QED
    BY <1>3, <2>2
<1>9. CASE StoreRequest(r)
  <2>1. task[r].blk # 0
    BY <1>2, <1>9 DEF StoreRequest, Fits, At
  <2> QED
    BY <1>0, <1>1, <1>9, <2>1 DEF StoreRequest, CandOK
<1>10. ~InsertRun(r) /\ ~RunFails(r)
  BY <1>1, Sets DEF InsertRun, RunFails
<1> QED
  BY <1>1, <1>4, <1>5, <1>6, <1>7, <1>8, <1>9, <1>10, Flow DEF Still, At

LEMMA LostStays ==
    ASSUME TInv, [Next]_vars, NEW c \in Cands, lost[c]
    PROVE  lost'[c] \/ Building(c)'
<1>0. DOMAIN lost = Cands /\ DOMAIN task = Runners /\ lost[c] = TRUE
  BY TypeParts DEF TInv, FlagsOK, TaskOK
<1>1. ASSUME NEW t \in Tasks, Decide(t) PROVE lost'[c] \/ Building(c)'
  <2>1. t \in Runners /\ task[t] \in Tasking /\ Become(t, [task[t] EXCEPT !.pc = "number"])
    BY <1>1, HeldTask, Sets DEF Decide
  <2>2. task'[t].pc = "number" /\ task'[t].of = task[t].of
    BY <1>0, <2>1 DEF Become, Tasking
  <2>3. CASE task[t].of = c
    BY <2>1, <2>2, <2>3 DEF Building
  <2>4. CASE task[t].of # c
    BY <1>0, <1>1, <2>4 DEF Decide
  <2> QED
    BY <2>3, <2>4
<1>2. ASSUME NEW t \in Tasks, BuildFails(t) PROVE lost'[c]
  BY <1>0, <1>2 DEF BuildFails
<1>3. CASE Crash
  BY <1>0, <1>3 DEF Crash
<1>4. CASE lost' = lost
  BY <1>0, <1>4
<1> QED
  BY <1>1, <1>2, <1>3, <1>4, Sorted, Zenon
     DEF CandMove, CandStep, CandRequest, Poll, Ingest, IngestFails, Notify, Announce, MarkNotified,
         Notified, Approve, InsertRequest, StoreRequest, Reject, RejectCommit, Reset, ResetCommit, CancelCommit,
         Cancel, vars, candVars

(* An approved candidate has its request on record unless its build failed, *)
(* died, or is under way, or a reset that had found it open took it: no    *)
(* other reset, removal, rejection or second approval beside the three     *)
(* transactions of an approval leaves one approved with nothing to observe.*)
THEOREM ApprovedHasRequestAlways == Spec => []ApprovedHasRequest
<1>1. Init => ApprovedHasRequest
  BY DEF Init, CandInit, ApprovedHasRequest, Approved
<1>2. ASSUME TInv, ApprovedHasRequest, [Next]_vars PROVE ApprovedHasRequest'
  <2> SUFFICES ASSUME NEW c \in Cands, cand'[c].state \in Approved, cand'[c].request = 0,
                      ~lost'[c], ~stale'[c]
               PROVE  Building(c)'
    BY DEF ApprovedHasRequest
  <2>1. ASSUME NEW t \in Tasks, Decide(t), task[t].of = c PROVE Building(c)'
    <3>1. /\ t \in Runners /\ task[t] \in Tasking /\ Become(t, [task[t] EXCEPT !.pc = "number"])
          /\ DOMAIN task = Runners
      BY <1>2, <2>1, HeldTask, Sets, TypeParts DEF Decide, TInv, TaskOK
    <3>2. task'[t].pc = "number" /\ task'[t].of = task[t].of
      BY <3>1 DEF Become, Tasking
    <3> QED
      BY <2>1, <3>1, <3>2 DEF Building
  <2>2. CASE cand'[c].state = cand[c].state /\ (stale[c] => stale'[c])
    <3>1. cand[c].request = 0
      <4>1. ASSUME NEW t \in Tasks, StoreRequest(t) PROVE task[t].blk # 0
        BY <1>2, <4>1, HeldTask, Sets DEF StoreRequest, Fits, At
      <4> QED
        BY <1>2, <4>1, RequestSteps DEF Approved
    <3>2. lost[c] \/ Building(c)
      BY <1>2, <2>2, <3>1 DEF ApprovedHasRequest
    <3> QED
      BY <1>2, <3>2, LostStays, BuildingEnds
  <2>3. ASSUME NEW t \in Tasks, Decides(t, c) PROVE Building(c)'
    BY <2>1, <2>2, <2>3 DEF Decides, Approved
  <2> QED
    BY <1>2, <2>2, <2>3, StateSteps
<1> QED
  BY <1>1, <1>2, TInvAlways, PTL DEF Spec

-----------------------------------------------------------------------------
(***************************************************************************)
(* One announcement: a pass holds a candidate from the transaction that    *)
(* inserted it until it has sent it, and no other pass can come to hold it.*)
(***************************************************************************)
Holds(t, c) ==
    \/ task[t].pc \in {"notify", "announce", "mark"} /\ c \in task[t].todo
    \/ task[t].pc = "announce" /\ task[t].of = c

AInv ==
    /\ \A c \in Cands : announced[c] <= 1
    /\ \A c \in Cands, t \in Runners : Holds(t, c) => announced[c] = 0 /\ cand[c].state # "none"
    /\ \A c \in Cands : cand[c].state = "none" => announced[c] = 0
    /\ \A c \in Cands, t, u \in Runners : Holds(t, c) /\ Holds(u, c) => t = u
    /\ \A t \in Runners : task[t].pc = "announce" => task[t].of \notin task[t].todo

LEMMA HoldSteps ==
    ASSUME TInv, AInv, [Next]_vars, NEW t \in Runners
    PROVE  /\ \A c \in Cands : Holds(t, c)' =>
                 \/ Holds(t, c) /\ ~(Announce(t) /\ task[t].of = c)
                 \/ Ingest(t) /\ c \in task[t].todo
           /\ task'[t].pc = "announce" => task'[t].of \notin task'[t].todo
<1> DEFINE Goal == /\ \A c \in Cands : Holds(t, c)' =>
                         \/ Holds(t, c) /\ ~(Announce(t) /\ task[t].of = c)
                         \/ Ingest(t) /\ c \in task[t].todo
                   /\ task'[t].pc = "announce" => task'[t].of \notin task'[t].todo
<1>0. task[t] \in Tasking /\ DOMAIN task = Runners
  BY HeldTask, TypeParts DEF TInv, TaskOK
<1>1. ASSUME task'[t].pc \notin {"notify", "announce", "mark"} PROVE Goal
  BY <1>1 DEF Holds
<1>2. CASE task'[t] = task[t]
  <2>1. ~Announce(t)
    <3>1. ASSUME Announce(t) PROVE task'[t].pc \in {"mark", "notify"} /\ task[t].pc = "announce"
      BY <1>0, <3>1 DEF Announce, Become, Tasking, At
    <3> QED
      BY <1>2, <3>1
  <2> QED
    BY <1>2, <2>1 DEF Holds, AInv
<1>3. CASE Ingest(t)
  <2>1. PICK S \in SUBSET task[t].todo : Become(t, [Idle EXCEPT !.pc = "notify", !.todo = S])
    BY <1>3 DEF Ingest
  <2>2. task'[t].pc = "notify" /\ task'[t].todo = S
    BY <1>0, <2>1 DEF Become, Idle
  <2> QED
    BY <1>3, <2>2 DEF Holds
<1>4. CASE Notify(t)
  <2>1. PICK x \in task[t].todo, pc \in {"announce", "notify"} :
           Become(t, [task[t] EXCEPT !.todo = @ \ {x}, !.of = x, !.pc = pc])
    BY <1>4 DEF Notify
  <2>2. task'[t].pc = pc /\ task'[t].of = x /\ task'[t].todo = task[t].todo \ {x} /\ task[t].pc = "notify"
    BY <1>0, <1>4, <2>1 DEF Become, Tasking, Notify, At
  <2>3. ~Announce(t)
    BY <2>2 DEF Announce, At
  <2> QED
    BY <2>1, <2>2, <2>3 DEF Holds
<1>5. CASE Announce(t)
  <2>1. PICK pc \in {"mark", "notify"} : Become(t, [task[t] EXCEPT !.pc = pc])
    BY <1>5 DEF Announce
  <2>2. task'[t].pc = pc /\ task'[t].todo = task[t].todo /\ task[t].pc = "announce"
    BY <1>0, <1>5, <2>1 DEF Become, Tasking, Announce, At
  <2> QED
    BY <1>0, <2>1, <2>2 DEF Holds, AInv
<1>6. CASE MarkNotified(t)
  <2>1. task'[t].pc = "notify" /\ task'[t].todo = task[t].todo /\ task[t].pc = "mark"
    BY <1>0, <1>6 DEF Become, Tasking, MarkNotified, At
  <2>2. ~Announce(t)
    BY <2>1 DEF Announce, At
  <2> QED
    BY <2>1, <2>2 DEF Holds
<1>7. CASE t \in Tasks /\ (CandStep(t) \/ CandRequest(t) \/ ResumeCommit(t) \/ PlanRequest(t))
  <2>1. \/ Ingest(t) \/ Notify(t) \/ Announce(t) \/ MarkNotified(t)
        \/ \E rec : Become(t, rec) /\ rec.pc \notin {"notify", "announce", "mark"}
    <3>1. CASE Decide(t)
      <4>1. Become(t, [task[t] EXCEPT !.pc = "number"])
        BY <3>1 DEF Decide
      <4> QED
        BY <1>0, <4>1 DEF Tasking
    <3>2. CASE InsertRequest(t)
      <4>1. PICK b \in Blocks : Become(t, [task[t] EXCEPT !.pc = "store", !.blk = b])
        BY <3>2 DEF InsertRequest
      <4>2. [task[t] EXCEPT !.pc = "store", !.blk = b].pc = "store"
        BY <1>0 DEF Tasking
      <4> QED
        BY <4>1, <4>2
    <3>3. CASE IngestFails(t) \/ Notified(t) \/ BuildFails(t) \/ StoreRequest(t) \/ RejectCommit(t)
               \/ ResetCommit(t) \/ CancelCommit(t) \/ ResumeCommit(t)
      <4>1. Become(t, Idle)
        BY <3>3 DEF IngestFails, Notified, BuildFails, StoreRequest, RejectCommit, ResetCommit, CancelCommit, ResumeCommit, Done
      <4> QED
        BY <4>1 DEF Idle
    <3>4. CASE CandRequest(t) \/ PlanRequest(t)
      <4> DEFINE Elsewhere == \E rec : Become(t, rec) /\ rec.pc \notin {"notify", "announce", "mark"}
      <4>0. ASSUME NEW rec, Become(t, rec), rec.pc \in {"ingest", "decide", "reject", "reset", "cancel", "number", "resume"}
            PROVE  Elsewhere
        BY <4>0
      <4>1. CASE Poll(t)
        <5>1. PICK S : Become(t, [Idle EXCEPT !.pc = "ingest", !.todo = S])
          BY <4>1 DEF Poll
        <5>2. [Idle EXCEPT !.pc = "ingest", !.todo = S].pc = "ingest"
          BY DEF Idle
        <5> QED
          BY <4>0, <5>1, <5>2
      <4>2. ASSUME NEW c \in Cands, Reset(t, c) PROVE Elsewhere
        <5>1. [Idle EXCEPT !.pc = "reset", !.of = c, !.was = cand[c].state, !.blk = cand[c].request].pc = "reset"
          BY DEF Idle
        <5> QED
          BY <4>0, <4>2, <5>1 DEF Reset
      <4>7. ASSUME NEW c \in Cands, Reject(t, c) PROVE Elsewhere
        <5>1. [Idle EXCEPT !.pc = "reject", !.of = c, !.was = cand[c].state].pc = "reject"
          BY DEF Idle
        <5> QED
          BY <4>0, <4>7, <5>1 DEF Reject
      <4>3. ASSUME NEW c \in Cands, NEW act \in Actions, Approve(t, c, act) PROVE Elsewhere
        <5>1. [Idle EXCEPT !.pc = "decide", !.of = c, !.act = act, !.after = Existing].pc = "decide"
          BY DEF Idle
        <5> QED
          BY <4>0, <4>3, <5>1 DEF Approve
      <4>4. ASSUME NEW b \in Blocks, Cancel(t, b) PROVE Elsewhere
        <5>1. [Idle EXCEPT !.pc = "cancel", !.blk = b].pc = "cancel"
          BY DEF Idle
        <5> QED
          BY <4>0, <4>4, <5>1 DEF Cancel
      <4>5. ASSUME NEW p \in Plans, RunPlan(t, p) PROVE Elsewhere
        <5>1. [Idle EXCEPT !.pc = "number", !.of = p, !.after = Existing].pc = "number"
          BY DEF Idle
        <5> QED
          BY <4>0, <4>5, <5>1 DEF RunPlan
      <4>6. ASSUME NEW p \in Plans, ResumePlan(t, p) PROVE Elsewhere
        <5>1. [Idle EXCEPT !.pc = "resume", !.of = p, !.blk = plan[p].last].pc = "resume"
          BY DEF Idle
        <5> QED
          BY <4>0, <4>6, <5>1 DEF ResumePlan
      <4> QED
        BY <3>4, <4>1, <4>2, <4>3, <4>4, <4>5, <4>6, <4>7, Zenon DEF CandRequest, PlanRequest
    <3> QED
      BY <1>7, <3>1, <3>2, <3>3, <3>4, Zenon DEF CandStep
  <2>2. ASSUME NEW rec, Become(t, rec), rec.pc \notin {"notify", "announce", "mark"} PROVE Goal
    BY <1>0, <1>1, <2>2 DEF Become
  <2> QED
    BY <1>3, <1>4, <1>5, <1>6, <2>1, <2>2
<1>8. CASE InsertRun(t) \/ RunFails(t) \/ ReadSeq(t) \/ (t = Scheduler /\ (Wake \/ Fire \/ Clear \/ ClearFails))
  <2>1. task'[t].pc \in {"clear", "idle", "insert", "next", "number"}
    <3>1. CASE InsertRun(t) \/ RunFails(t)
      BY <1>0, <3>1 DEF InsertRun, RunFails, Become, Done, Tasking, Idle
    <3>2. CASE ReadSeq(t)
      BY <1>0, <3>2 DEF ReadSeq, Become, Tasking
    <3>3. CASE t = Scheduler /\ Wake
      BY <1>0, <3>3 DEF Wake, Become, Idle
    <3>5. CASE t = Scheduler /\ (Clear \/ ClearFails)
      BY <1>0, <3>5, Cleared DEF Become, Idle
    <3>4. CASE t = Scheduler /\ Fire
      BY <1>0, <3>4 DEF Fire, Become, Tasking
    <3> QED
      BY <1>8, <3>1, <3>2, <3>3, <3>4, <3>5
  <2> QED
    BY <1>1, <2>1
<1>9. CASE task'[t] = Idle
  BY <1>1, <1>9 DEF Idle
<1> QED
  BY <1>2, <1>7, <1>8, <1>9, Movers

LEMMA AnnounceSteps ==
    ASSUME TInv, [Next]_vars, NEW c \in Cands
    PROVE  \/ announced'[c] = announced[c]
           \/ \E t \in Tasks : /\ Announce(t) /\ task[t].of = c
                               /\ announced[c] = 0 => announced'[c] = 1
<1>0. DOMAIN announced = Cands
  BY TypeParts DEF TInv, CandOK
<1>1. ASSUME NEW t \in Tasks, Announce(t)
      PROVE  \/ announced'[c] = announced[c]
             \/ task[t].of = c /\ (announced[c] = 0 => announced'[c] = 1)
  <2>1. announced' = [announced EXCEPT ![task[t].of] = IF @ < 2 THEN @ + 1 ELSE @]
    BY <1>1 DEF Announce
  <2> QED
    BY <1>0, <2>1
<1>2. CASE announced' = announced
  BY <1>2
<1> QED
  BY <1>1, <1>2, Sorted, Zenon
     DEF CandMove, CandStep, CandRequest, Poll, Ingest, IngestFails, Notify, MarkNotified, Notified,
         Approve, Decide, BuildFails, InsertRequest, StoreRequest, Reject, RejectCommit, Reset, ResetCommit,
         CancelCommit, Cancel, Crash, vars, candVars

LEMMA AInvStep == TInv /\ AInv /\ [Next]_vars => AInv'
<1> SUFFICES ASSUME TInv, AInv, [Next]_vars PROVE AInv'
  OBVIOUS
<1>0. CandOK /\ TaskOK /\ DOMAIN task = Runners /\ Tasks \subseteq Runners
  BY TypeParts, Sets DEF TInv, TaskOK
<1>1. ASSUME NEW t \in Runners, Ingest(t), NEW c \in Cands, c \in task[t].todo
      PROVE  cand[c].state = "none" /\ cand'[c].state = "new" /\ task'[t].pc = "notify" /\ task[t].pc = "ingest"
             /\ announced' = announced
  <2>1. PICK S : Become(t, [Idle EXCEPT !.pc = "notify", !.todo = S])
    BY <1>1 DEF Ingest
  <2>2. task'[t].pc = "notify"
    BY <1>0, <2>1 DEF Become, Idle
  <2>3. cand'[c] = [cand[c] EXCEPT !.state = "new"] /\ cand[c].state = "none" /\ task[t].pc = "ingest"
        /\ announced' = announced
    BY <1>0, <1>1 DEF Ingest, At, CandOK
  <2> QED
    BY <1>0, <2>2, <2>3 DEF CandOK
<1>2. ASSUME NEW t \in Tasks, Announce(t), NEW c \in Cands, task[t].of = c
      PROVE  Holds(t, c)
  BY <1>2 DEF Announce, At, Holds
<1>3. ASSUME NEW t \in Runners, NEW u \in Runners, Ingest(t), Ingest(u) PROVE t = u \/ task'[t] = task[t]
  BY <1>0, <1>3 DEF Ingest, Become
<1>4. ASSUME NEW c \in Cands, cand'[c].state = "none" PROVE cand[c].state = "none"
  <2>1. \A act : As(act) # "none"
    BY DEF As
  <2> QED
    BY <1>4, <2>1, StateSteps DEF Decides
<1>5. ASSUME NEW c \in Cands PROVE announced'[c] <= 1
  <2>1. announced[c] \in 0 .. 2 /\ announced[c] <= 1
    BY <1>0 DEF CandOK, AInv
  <2>2. ASSUME NEW t \in Tasks, Announce(t), task[t].of = c PROVE announced[c] = 0
    BY <1>0, <1>2, <2>2 DEF AInv
  <2> QED
    BY <2>1, <2>2, AnnounceSteps
<1>6. ASSUME NEW c \in Cands, cand[c].state = "none"
      PROVE  announced'[c] = 0
  <2>1. announced[c] = 0 /\ \A t \in Runners : ~Holds(t, c)
    BY <1>6 DEF AInv
  <2>2. \A t \in Tasks : ~(Announce(t) /\ task[t].of = c)
    BY <1>0, <1>2, <2>1
  <2> QED
    BY <2>1, <2>2, AnnounceSteps
<1>7. ASSUME NEW c \in Cands, NEW t \in Runners, Holds(t, c)'
      PROVE  announced'[c] = 0 /\ cand'[c].state # "none"
  <2>1. CASE Ingest(t) /\ c \in task[t].todo
    BY <1>1, <1>6, <2>1
  <2>2. CASE Holds(t, c) /\ ~(Announce(t) /\ task[t].of = c)
    <3>1. announced[c] = 0 /\ cand[c].state # "none"
      BY <2>2 DEF AInv
    <3>2. \A u \in Tasks : ~(Announce(u) /\ task[u].of = c)
      <4>1. ASSUME NEW u \in Tasks, Announce(u), task[u].of = c PROVE FALSE
        <5>1. u = t
          BY <1>0, <1>2, <2>2, <4>1 DEF AInv
        <5> QED
          BY <2>2, <4>1, <5>1
      <4> QED
        BY <4>1
    <3> QED
      BY <1>4, <3>1, <3>2, AnnounceSteps
  <2> QED
    BY <1>7, <2>1, <2>2, HoldSteps
<1>8. ASSUME NEW c \in Cands, NEW t \in Runners, NEW u \in Runners, Holds(t, c)', Holds(u, c)' PROVE t = u
  <2>1. \A x \in Runners : Holds(x, c)' => Holds(x, c) \/ (Ingest(x) /\ c \in task[x].todo)
    BY HoldSteps
  <2>2. CASE Ingest(t) /\ c \in task[t].todo
    <3>1. ~Holds(u, c)
      BY <1>1, <2>2 DEF AInv
    <3>2. Ingest(u)
      BY <1>8, <2>1, <3>1
    <3> QED
      BY <1>1, <1>3, <2>2, <3>2
  <2>3. CASE Ingest(u) /\ c \in task[u].todo
    <3>1. ~Holds(t, c)
      BY <1>1, <2>3 DEF AInv
    <3>2. Ingest(t) /\ c \in task[t].todo
      BY <1>8, <2>1, <3>1
    <3> QED
      BY <1>1, <1>3, <2>3, <3>2
  <2> QED
    BY <1>8, <2>1, <2>2, <2>3 DEF AInv
<1>9. \A t \in Runners : task'[t].pc = "announce" => task'[t].of \notin task'[t].todo
  BY HoldSteps
<1>10. \A c \in Cands : cand'[c].state = "none" => announced'[c] = 0
  BY <1>4, <1>6
<1> QED
  BY <1>5, <1>7, <1>8, <1>9, <1>10 DEF AInv

(* However many polls overlap, and wherever the process dies, no candidate *)
(* is sent to the supervisor twice.                                        *)
THEOREM AnnouncedOnceAlways == Spec => []AnnouncedOnce
<1>1. Init => AInv
  BY DEF Init, QueueInit, CandInit, Idle, AInv, Holds
<1>2. AInv => AnnouncedOnce
  BY DEF AInv, AnnouncedOnce
<1> QED
  BY <1>1, <1>2, AInvStep, TInvAlways, PTL DEF Spec

-----------------------------------------------------------------------------
(***************************************************************************)
(* First come, first served.  What a handler found in the queue when it    *)
(* began stays there and stays where it is; the position it reads is       *)
(* beyond all of it.                                                       *)
(***************************************************************************)
Numbered == {"decide", "number", "insert"}

FInv ==
    /\ \A b \in Existing : block[b].after \subseteq Existing
    /\ \A r \in Runners : task[r].pc \in Numbered => task[r].after \subseteq Existing
    /\ reordered \/ \A r \in Runners : At(r, "insert") =>
                        \A x \in task[r].after : block[x].seq < task[r].seq
    /\ FirstComeFirst

LEMMA AfterSteps ==
    ASSUME TInv, [Next]_vars, NEW r \in Runners, task'[r].pc \in Numbered
    PROVE  \/ task'[r] = task[r]
           \/ task'[r].pc # "insert" /\ task'[r].after = Existing
           \/ At(r, "decide") /\ task'[r].pc = "number" /\ task'[r].after = task[r].after
           \/ /\ At(r, "number") /\ task'[r].after = task[r].after
              /\ IsNextSeq(task'[r].seq) /\ block' = block
<1> DEFINE Goal ==
           \/ task'[r] = task[r]
           \/ task'[r].pc # "insert" /\ task'[r].after = Existing
           \/ At(r, "decide") /\ task'[r].pc = "number" /\ task'[r].after = task[r].after
           \/ /\ At(r, "number") /\ task'[r].after = task[r].after
              /\ IsNextSeq(task'[r].seq) /\ block' = block
<1>0. task[r] \in Tasking /\ DOMAIN task = Runners /\ task'[r].pc \in {"decide", "number", "insert"}
  BY HeldTask, TypeParts DEF TInv, TaskOK, Numbered
<1>1. ASSUME NEW rec, Become(r, rec) PROVE task'[r] = rec
  BY <1>0, <1>1 DEF Become
<1>2. CASE task'[r] = Idle
  BY <1>0, <1>2 DEF Idle
<1>3. CASE CandStep(r)
  <2>1. CASE Decide(r)
    <3>1. task'[r] = [task[r] EXCEPT !.pc = "number"] /\ At(r, "decide")
      BY <1>1, <2>1 DEF Decide
    <3> QED
      BY <1>0, <3>1 DEF Tasking
  <2>2. CASE Ingest(r)
    <3>1. PICK S : task'[r] = [Idle EXCEPT !.pc = "notify", !.todo = S]
      BY <1>1, <2>2 DEF Ingest
    <3> QED
      BY <1>0, <3>1 DEF Idle
  <2>3. CASE Notify(r)
    <3>1. PICK x \in task[r].todo, pc \in {"announce", "notify"} :
             task'[r] = [task[r] EXCEPT !.todo = @ \ {x}, !.of = x, !.pc = pc]
      BY <1>1, <2>3 DEF Notify
    <3> QED
      BY <1>0, <3>1 DEF Tasking
  <2>4. CASE Announce(r) \/ MarkNotified(r)
    <3>1. PICK pc \in {"mark", "notify"} : task'[r] = [task[r] EXCEPT !.pc = pc]
      BY <1>1, <2>4 DEF Announce, MarkNotified
    <3> QED
      BY <1>0, <3>1 DEF Tasking
  <2>5. CASE InsertRequest(r)
    <3>1. PICK b \in Blocks : task'[r] = [task[r] EXCEPT !.pc = "store", !.blk = b]
      BY <1>1, <2>5 DEF InsertRequest
    <3> QED
      BY <1>0, <3>1 DEF Tasking
  <2>6. CASE IngestFails(r) \/ Notified(r) \/ BuildFails(r) \/ StoreRequest(r) \/ RejectCommit(r) \/ ResetCommit(r) \/ CancelCommit(r)
    BY <1>1, <1>2, <2>6 DEF IngestFails, Notified, BuildFails, StoreRequest, RejectCommit, ResetCommit, CancelCommit, Done
  <2> QED
    BY <1>3, <2>1, <2>2, <2>3, <2>4, <2>5, <2>6, Zenon DEF CandStep
<1>4. CASE CandRequest(r)
  <2>1. CASE Poll(r)
    <3>1. PICK S : task'[r] = [Idle EXCEPT !.pc = "ingest", !.todo = S]
      BY <1>1, <2>1 DEF Poll
    <3> QED
      BY <1>0, <3>1 DEF Idle
  <2>2. ASSUME NEW c \in Cands, Reset(r, c) PROVE Goal
    <3>1. task'[r] = [Idle EXCEPT !.pc = "reset", !.of = c, !.was = cand[c].state, !.blk = cand[c].request]
      BY <1>1, <2>2 DEF Reset
    <3> QED
      BY <1>0, <3>1 DEF Idle
  <2>5. ASSUME NEW c \in Cands, Reject(r, c) PROVE Goal
    <3>1. task'[r] = [Idle EXCEPT !.pc = "reject", !.of = c, !.was = cand[c].state]
      BY <1>1, <2>5 DEF Reject
    <3> QED
      BY <1>0, <3>1 DEF Idle
  <2>3. ASSUME NEW c \in Cands, NEW act \in Actions, Approve(r, c, act) PROVE Goal
    <3>1. task'[r] = [Idle EXCEPT !.pc = "decide", !.of = c, !.act = act, !.after = Existing]
      BY <1>1, <2>3 DEF Approve
    <3> QED
      BY <1>0, <3>1 DEF Idle
  <2>4. ASSUME NEW b \in Blocks, Cancel(r, b) PROVE Goal
    <3>1. task'[r] = [Idle EXCEPT !.pc = "cancel", !.blk = b]
      BY <1>1, <2>4 DEF Cancel
    <3> QED
      BY <1>0, <3>1 DEF Idle
  <2> QED
    BY <1>4, <2>1, <2>2, <2>3, <2>4, <2>5, Zenon DEF CandRequest
<1>5. CASE ResumeCommit(r) \/ PlanRequest(r)
  <2>1. CASE ResumeCommit(r)
    BY <1>1, <1>2, <2>1 DEF ResumeCommit, Done
  <2>2. ASSUME NEW p \in Plans, RunPlan(r, p) PROVE Goal
    <3>1. task'[r] = [Idle EXCEPT !.pc = "number", !.of = p, !.after = Existing]
      BY <1>1, <2>2 DEF RunPlan
    <3> QED
      BY <1>0, <3>1 DEF Idle
  <2>3. ASSUME NEW p \in Plans, ResumePlan(r, p) PROVE Goal
    <3>1. task'[r] = [Idle EXCEPT !.pc = "resume", !.of = p, !.blk = plan[p].last]
      BY <1>1, <2>3 DEF ResumePlan
    <3> QED
      BY <1>0, <3>1 DEF Idle
  <2> QED
    BY <1>5, <2>1, <2>2, <2>3, Zenon DEF PlanRequest
<1>6. CASE InsertRun(r) \/ RunFails(r)
  <2>1. task'[r] = [task[r] EXCEPT !.pc = "clear"] \/ task'[r] = Idle
    BY <1>1, <1>6 DEF InsertRun, RunFails, Done
  <2> QED
    BY <1>0, <1>2, <2>1 DEF Tasking
<1>7. CASE ReadSeq(r)
  <2>1. PICK n : IsNextSeq(n) /\ task'[r] = [task[r] EXCEPT !.pc = "insert", !.seq = n]
    BY <1>1, <1>7 DEF ReadSeq
  <2>2. task'[r].seq = n /\ task'[r].after = task[r].after
    BY <1>0, <2>1 DEF Tasking
  <2>3. At(r, "number") /\ block' = block
    BY <1>7 DEF ReadSeq
  <2> QED
    BY <2>1, <2>2, <2>3
<1>8. CASE r = Scheduler /\ (Wake \/ Fire \/ Clear \/ ClearFails)
  <2>1. CASE Wake
    <3>1. task'[r] = [Idle EXCEPT !.pc = "next", !.todo = Due]
      BY <1>1, <1>8, <2>1 DEF Wake
    <3> QED
      BY <1>0, <3>1 DEF Idle
  <2>2. CASE Fire
    <3>1. PICK p \in task[r].todo, pc \in {"number", "clear"} :
             task'[r] = [task[r] EXCEPT !.of = p, !.todo = @ \ {p}, !.after = Existing, !.pc = pc]
      BY <1>1, <1>8, <2>2 DEF Fire
    <3>2. task'[r].pc = pc /\ task'[r].after = Existing
      BY <1>0, <3>1 DEF Tasking
    <3> QED
      BY <3>1, <3>2
  <2>3. CASE Clear \/ ClearFails
    <3>1. PICK pc \in {"idle", "next"}, S \in {task[r].todo, {}} :
             task'[r] = [Idle EXCEPT !.pc = pc, !.todo = S]
      BY <1>1, <1>8, <2>3, Cleared
    <3> QED
      BY <1>0, <3>1 DEF Idle
  <2> QED
    BY <1>8, <2>1, <2>2, <2>3
<1> QED
  BY <1>2, <1>3, <1>4, <1>5, <1>6, <1>7, <1>8, Movers, Zenon

(* Whoever adds a block was about to insert it. *)
LEMMA Arrivals ==
    ASSUME TInv, [Next]_vars, NEW b, b \in Existing', b \notin Existing
    PROVE  ~Reorder /\ \E r \in Runners :
              /\ At(r, "insert") /\ NewBlock(r, b) /\ (InsertRequest(r) \/ InsertRun(r))
              /\ block'[b].owner = task[r].of /\ block'[b].seq = task[r].seq
              /\ block'[b].after = task[r].after
<1>0. DOMAIN block = Blocks /\ b \in Blocks
  BY TypeParts DEF TInv, BlockOK, Existing
<1>1. block'[b].state # "none" /\ block[b].state = "none"
  BY <1>0 DEF Existing
<1>2. ~Reorder
  BY <1>0, <1>1 DEF Reorder, Existing
<1>3. ASSUME NEW x \in Blocks, NEW s, Restates(x, s) PROVE FALSE
  <2>1. block'[b] = block[b]
    BY <1>0, <1>3 DEF Restates
  <2> QED
    BY <1>1, <2>1
<1>4. PICK r \in Runners, x \in Blocks : Inserts(x, r) /\ (InsertRequest(r) \/ InsertRun(r))
  BY <1>1, <1>2, <1>3, BlockSteps
<1>5. x = b
  BY <1>0, <1>1, <1>4 DEF Inserts, NewBlock
<1>6. At(r, "insert")
  BY <1>4 DEF InsertRequest, InsertRun
<1> QED
  BY <1>0, <1>2, <1>4, <1>5, <1>6 DEF Inserts, NewBlock

LEMMA FInvStep == TInv /\ FInv /\ [Next]_vars => FInv'
<1> SUFFICES ASSUME TInv, FInv, [Next]_vars PROVE FInv'
  OBVIOUS
<1>0. BlockOK /\ Existing \subseteq Existing'
  BY BlocksStay, TypeParts DEF TInv
<1>1. ASSUME NEW b \in Existing' PROVE block'[b].after \subseteq Existing'
  <2>1. CASE b \in Existing
    BY <1>0, <2>1, BlocksStay DEF FInv
  <2>2. CASE b \notin Existing
    <3>1. PICK r \in Runners : At(r, "insert") /\ block'[b].after = task[r].after
      BY <1>1, <2>2, Arrivals
    <3> QED
      BY <1>0, <3>1 DEF FInv, At, Numbered
  <2> QED
    BY <2>1, <2>2
<1>2. ASSUME NEW r \in Runners, task'[r].pc \in Numbered PROVE task'[r].after \subseteq Existing'
  BY <1>0, <1>2, AfterSteps DEF FInv, At, Numbered
<1>3. ASSUME ~reordered' PROVE ~reordered /\ \A b \in Existing : block'[b].seq = block[b].seq
  BY <1>3, BlocksStay, Reorderings
<1>4. ASSUME ~reordered', NEW r \in Runners, task'[r].pc = "insert", NEW x \in task'[r].after
      PROVE  block'[x].seq < task'[r].seq
  <2>0. /\ \A y \in Runners : task[y].pc \in Numbered => task[y].after \subseteq Existing
        /\ \A y \in Runners : At(y, "insert") => \A z \in task[y].after : block[z].seq < task[y].seq
    BY <1>3, <1>4 DEF FInv
  <2>1. CASE task'[r] = task[r]
    <3>1. x \in Existing /\ block[x].seq < task[r].seq
      BY <1>4, <2>0, <2>1 DEF At, Numbered
    <3> QED
      BY <1>3, <1>4, <2>1, <3>1
  <2>2. CASE At(r, "number") /\ task'[r].after = task[r].after /\ IsNextSeq(task'[r].seq) /\ block' = block
    <3>1. x \in Existing
      BY <1>4, <2>0, <2>2 DEF At, Numbered
    <3> QED
      BY <2>2, <3>1 DEF IsNextSeq
  <2> QED
    BY <1>4, <2>1, <2>2, AfterSteps DEF Numbered
<1>5. ASSUME ~reordered', NEW b \in Existing', NEW x \in block'[b].after PROVE block'[x].seq < block'[b].seq
  <2>1. CASE b \in Existing
    <3>1. x \in Existing /\ block[x].seq < block[b].seq
      BY <1>3, <1>5, <2>1, BlocksStay DEF FInv, FirstComeFirst
    <3> QED
      BY <1>3, <1>5, <2>1, <3>1
  <2>2. CASE b \notin Existing
    <3>1. PICK r \in Runners : At(r, "insert") /\ block'[b].after = task[r].after /\ block'[b].seq = task[r].seq
      BY <1>5, <2>2, Arrivals
    <3>2. x \in Existing /\ block[x].seq < task[r].seq
      BY <1>3, <1>5, <3>1 DEF FInv, At, Numbered
    <3> QED
      BY <1>3, <1>5, <3>1, <3>2
  <2> QED
    BY <2>1, <2>2
<1> QED
  BY <1>1, <1>2, <1>4, <1>5 DEF FInv, FirstComeFirst, At

(* A block whose build began when another was in the queue is behind it,    *)
(* however many builds and runs number their blocks at once, until         *)
(* somebody reorders the queue.                                            *)
THEOREM FirstComeFirstAlways == Spec => []FirstComeFirst
<1>1. Init => FInv
  BY DEF Init, QueueInit, Idle, Missing, FInv, FirstComeFirst, Existing, Numbered, At
<1>2. FInv => FirstComeFirst
  BY DEF FInv
<1> QED
  BY <1>1, <1>2, FInvStep, TInvAlways, PTL DEF Spec

-----------------------------------------------------------------------------
(***************************************************************************)
(* One block per candidate in the queue, and decisions that stand.  While  *)
(* handlers do not overlap over a candidate, at most one has it in hand,   *)
(* what that one has read is still so, and the only block waiting for the  *)
(* candidate is that of the request on its row, or the one the handler     *)
(* has just inserted.                                                      *)
(***************************************************************************)
W(c) == {b \in BlocksOf(c) : block[b].state \in Waiting}

UpToDate(r, c) ==
    /\ task[r].pc = "mark" => cand[c].state = "new"
    /\ task[r].pc \in {"decide", "number", "insert"} => W(c) = {}
    /\ task[r].pc \in {"number", "insert", "store"} => cand[c].state \in Approved
    /\ task[r].pc \in {"store", "cancel"} => W(c) \subseteq {task[r].blk}
    /\ task[r].pc = "reset" => task[r].blk = cand[c].request
    /\ task[r].pc \in {"reject", "reset"} => task[r].was = cand[c].state /\ cand[c].state # "none"

HandOK(c) ==
    /\ \A r, u \in InHand(c) : r = u
    /\ \A r \in InHand(c) : UpToDate(r, c)
    /\ \A b \in W(c) : \/ cand[c].state \in Decided /\ b = cand[c].request
                       \/ \E r \in InHand(c) : At(r, "store") /\ task[r].blk = b

OInv == \A c \in Cands : ~tangled[c] => HandOK(c)

LEMMA TangledStays ==
    ASSUME TInv, [Next]_vars, NEW c \in Cands, ~tangled'[c]
    PROVE  ~tangled[c]
<1>0. DOMAIN tangled = Cands
  BY TypeParts DEF TInv, FlagsOK
<1>1. ASSUME NEW x, Tangle(x) PROVE ~tangled[c]
  BY <1>0, <1>1 DEF Tangle
<1>2. CASE Crash
  BY <1>0, <1>2 DEF Crash
<1>3. CASE tangled' = tangled
  BY <1>3
<1>4. ASSUME NEW t \in Tasks, BuildFails(t) PROVE ~tangled[c]
  BY <1>0, <1>4 DEF BuildFails
<1> QED
  BY <1>1, <1>2, <1>3, <1>4, Sorted, Zenon
     DEF CandMove, CandStep, CandRequest, Poll, Ingest, IngestFails, Notify, Announce, MarkNotified,
         Notified, Approve, Decide, InsertRequest, StoreRequest, Reject, RejectCommit, Reset, ResetCommit,
         CancelCommit, Cancel, vars, candVars

(* Who tangles finds nobody at it, or the candidate is tangled. *)
LEMMA Untangled ==
    ASSUME NEW c \in Cands, Tangle(c), ~tangled'[c]
    PROVE  InHand(c) = {}
BY DEF Tangle

LEMMA StatesStay ==
    ASSUME TInv, [Next]_vars, Reorder, NEW b \in Existing
    PROVE  block'[b].state = block[b].state
<1>0. block[b] \in BlockRows /\ b \in Blocks
  BY TypeParts, RowFacts DEF TInv
<1>1. block'[b] = block[b] \/ \E n : block'[b] = [block[b] EXCEPT !.seq = n]
  BY <1>0 DEF Reorder
<1> QED
  BY <1>0, <1>1 DEF BlockRows, Missing

LEMMA InsertLands ==
    ASSUME TInv, NEW t \in Runners, InsertRequest(t)
    PROVE  /\ task'[t].pc = "store" /\ task'[t].of = task[t].of
           /\ task'[t].blk \in Blocks /\ NewBlock(t, task'[t].blk)
           /\ UNCHANGED candVars
<1>0. task[t] \in Tasking /\ DOMAIN task = Runners
  BY HeldTask, TypeParts DEF TInv, TaskOK
<1>1. PICK b \in Blocks : NewBlock(t, b) /\ Become(t, [task[t] EXCEPT !.pc = "store", !.blk = b])
  BY DEF InsertRequest
<1>2. task'[t].pc = "store" /\ task'[t].of = task[t].of /\ task'[t].blk = b
  BY <1>0, <1>1 DEF Become, Tasking
<1> QED
  BY <1>1, <1>2 DEF InsertRequest

(* Blocks that come to wait for a candidate, and that stop to. *)
LEMMA WaitSteps ==
    ASSUME TInv, [Next]_vars, NEW c \in Cands, NEW b \in W(c)'
    PROVE  \/ b \in W(c)
           \/ \E t \in Tasks : InsertRequest(t) /\ task[t].of = c /\ b = task'[t].blk
<1>0. BlockOK /\ DOMAIN block = Blocks /\ b \in Existing' /\ block'[b].owner = c /\ block'[b].state \in Waiting
  BY TypeParts DEF TInv, BlockOK, W, BlocksOf
<1>1. CASE b \notin Existing
  <2>1. PICK r \in Runners : /\ At(r, "insert") /\ NewBlock(r, b) /\ (InsertRequest(r) \/ InsertRun(r))
                             /\ block'[b].owner = task[r].of
    BY <1>0, <1>1, Arrivals
  <2>2. InsertRequest(r) /\ ~(r = Scheduler)
    <3>1. ~InsertRun(r)
      BY <1>0, <2>1, Sets DEF InsertRun
    <3>2. r = Scheduler => task[r].of \in Plans
      BY <2>1, HeldTask DEF Fits, At
    <3> QED
      BY <1>0, <2>1, <3>1, <3>2, Sets
  <2>3. r \in Tasks
    BY <2>2 DEF Runners
  <2>4. NewBlock(r, task'[r].blk)
    BY <2>2, InsertLands
  <2>5. b = task'[r].blk
    BY <1>0, <1>1, <2>1, <2>4, QueueConstants DEF NewBlock, Blocks, Existing
  <2> QED
    BY <1>0, <2>1, <2>2, <2>3, <2>5
<1>2. CASE b \in Existing
  <2>1. block[b].owner = c /\ b \in Blocks
    BY <1>0, <1>2, BlocksStay DEF Existing
  <2>2. block[b].state \in Waiting
    <3>1. ASSUME NEW r \in Runners, NEW x \in Blocks, Inserts(x, r) PROVE block'[b] = block[b]
      BY <1>0, <1>2, <3>1 DEF Inserts, NewBlock
    <3>2. ASSUME NEW x \in Blocks, Restates(x, "queued"), NEW t \in Tasks, ResumeCommit(t), x = task[t].blk
          PROVE  block'[b] = block[b]
      <4>1. x # b
        BY <2>1, <3>2, HeldTask, Sets DEF ResumeCommit, At, Fits
      <4> QED
        BY <1>0, <3>2, <4>1 DEF Restates
    <3>3. ASSUME NEW x \in Blocks, NEW s \in {"running", "aborted"} \cup Finished, Restates(x, s)
          PROVE  x # b /\ block'[b] = block[b]
      <4>1. x # b
        <5>1. ASSUME x = b PROVE block'[b].state = s
          <6>1. block[b] \in BlockRows
            BY <1>0, <1>2, RowFacts
          <6> QED
            BY <1>0, <2>1, <3>3, <5>1, <6>1 DEF Restates, BlockRows, Missing
        <5> QED
          BY <1>0, <5>1 DEF Waiting, Finished
      <4> QED
        BY <1>0, <3>3, <4>1 DEF Restates
    <3>4. CASE Reorder
      BY <1>0, <1>2, <3>4, StatesStay
    <3> QED
      BY <1>0, <3>1, <3>2, <3>3, <3>4, BlockSteps
  <2> QED
    BY <1>2, <2>1, <2>2 DEF W, BlocksOf
<1> QED
  BY <1>1, <1>2

LEMMA Aborted ==
    ASSUME TInv, [Next]_vars, NEW b \in Blocks, Restates(b, "aborted")
    PROVE  \A c \in Cands : b \notin W(c)'
<1>0. block[b] \in BlockRows /\ DOMAIN block = Blocks
  BY TypeParts, RowFacts DEF TInv, Restates, BlockOK
<1>1. block'[b].state = "aborted"
  BY <1>0 DEF Restates, BlockRows, Missing
<1> QED
  BY <1>1 DEF W, BlocksOf, Waiting

-----------------------------------------------------------------------------
(* How a handler comes to have a candidate in hand. *)
Enters(t, c) ==
    /\ t \in Tasks /\ Tangle(c) /\ UNCHANGED <<block, cand>>
    /\ \E rec : Become(t, rec)
    /\ \/ task'[t].pc = "mark" /\ task'[t].of = c /\ cand[c].state = "new"
       \/ task'[t].pc = "decide" /\ task'[t].of = c /\ cand[c].state \in Open
       \/ task'[t].pc = "reject" /\ task'[t].of = c /\ task'[t].was = cand[c].state /\ cand[c].state # "none"
       \/ /\ task'[t].pc = "reset" /\ task'[t].of = c /\ task'[t].blk = cand[c].request
          /\ task'[t].was = cand[c].state /\ cand[c].state # "none"
       \/ task'[t].pc = "cancel" /\ task'[t].blk \in W(c)

(* What the one who has it in hand does next. *)
Works(t, c) ==
    /\ t \in InHand(c)
    /\ \/ MarkNotified(t) \/ Decide(t) \/ BuildFails(t) \/ ReadSeq(t) \/ InsertRequest(t)
       \/ StoreRequest(t) \/ RejectCommit(t) \/ ResetCommit(t) \/ CancelCommit(t)

LEMMA NewHand ==
    ASSUME TInv, [Next]_vars, NEW c \in Cands, NEW r \in Runners, r \notin InHand(c), r \in InHand(c)'
    PROVE  Enters(r, c) \/ task'[r] = task[r]
<1> DEFINE Goal == Enters(r, c) \/ task'[r] = task[r]
<1>0. /\ task[r] \in Tasking /\ DOMAIN task = Runners
      /\ \/ task'[r].of = c /\ task'[r].pc \in {"mark", "decide", "number", "insert", "store", "reject", "reset"}
         \/ task'[r].pc = "cancel" /\ block'[task'[r].blk].owner = c
      /\ ~(task[r].of = c /\ task[r].pc \in {"mark", "decide", "number", "insert", "store", "reject", "reset"})
  BY HeldTask, TypeParts DEF TInv, TaskOK, InHand, At
<1>1. ASSUME NEW rec, Become(r, rec) PROVE task'[r] = rec
  BY <1>0, <1>1 DEF Become
<1>2. CASE task'[r] = Idle
  BY <1>0, <1>2 DEF Idle
<1>3. CASE r \in Tasks /\ CandStep(r)
  <2>1. CASE Decide(r)
    <3>1. task'[r] = [task[r] EXCEPT !.pc = "number"] /\ At(r, "decide")
      BY <1>1, <2>1 DEF Decide
    <3> QED
      BY <1>0, <3>1 DEF Tasking, At
  <2>2. CASE Ingest(r)
    <3>1. PICK S : task'[r] = [Idle EXCEPT !.pc = "notify", !.todo = S]
      BY <1>1, <2>2 DEF Ingest
    <3> QED
      BY <1>0, <3>1 DEF Idle
  <2>3. CASE Notify(r)
    <3>1. PICK x \in task[r].todo, pc \in {"announce", "notify"} :
             task'[r] = [task[r] EXCEPT !.todo = @ \ {x}, !.of = x, !.pc = pc]
      BY <1>1, <2>3 DEF Notify
    <3> QED
      BY <1>0, <3>1 DEF Tasking
  <2>4. CASE MarkNotified(r)
    <3>1. task'[r] = [task[r] EXCEPT !.pc = "notify"]
      BY <1>1, <2>4 DEF MarkNotified
    <3> QED
      BY <1>0, <3>1 DEF Tasking
  <2>5. CASE Announce(r)
    <3>1. \/ task'[r] = [task[r] EXCEPT !.pc = "notify"]
          \/ /\ task'[r] = [task[r] EXCEPT !.pc = "mark"] /\ Become(r, [task[r] EXCEPT !.pc = "mark"])
             /\ cand[task[r].of].state = "new" /\ Tangle(task[r].of) /\ UNCHANGED <<block, cand>>
      BY <1>1, <2>5 DEF Announce
    <3>2. CASE task'[r] = [task[r] EXCEPT !.pc = "notify"]
      BY <1>0, <3>2 DEF Tasking
    <3>3. CASE /\ task'[r] = [task[r] EXCEPT !.pc = "mark"] /\ Become(r, [task[r] EXCEPT !.pc = "mark"])
               /\ cand[task[r].of].state = "new" /\ Tangle(task[r].of) /\ UNCHANGED <<block, cand>>
      <4>1. task'[r].pc = "mark" /\ task'[r].of = task[r].of
        BY <1>0, <3>3 DEF Tasking
      <4>2. task[r].of = c
        BY <1>0, <4>1
      <4>3. Tangle(c) /\ UNCHANGED <<block, cand>> /\ \E rec : Become(r, rec)
        BY <3>3, <4>2
      <4> QED
        BY <1>3, <3>3, <4>1, <4>2, <4>3 DEF Enters
    <3> QED
      BY <3>1, <3>2, <3>3
  <2>6. CASE InsertRequest(r)
    <3>1. task'[r].pc = "store" /\ task'[r].of = task[r].of /\ task[r].pc = "insert"
      BY <2>6, InsertLands DEF InsertRequest, At
    <3> QED
      BY <1>0, <3>1
  <2>7. CASE IngestFails(r) \/ Notified(r) \/ BuildFails(r) \/ StoreRequest(r) \/ RejectCommit(r) \/ ResetCommit(r) \/ CancelCommit(r)
    BY <1>1, <1>2, <2>7 DEF IngestFails, Notified, BuildFails, StoreRequest, RejectCommit, ResetCommit, CancelCommit, Done
  <2> QED
    BY <1>3, <2>1, <2>2, <2>3, <2>4, <2>5, <2>6, <2>7, Zenon DEF CandStep
<1>4. CASE r \in Tasks /\ CandRequest(r)
  <2>1. CASE Poll(r)
    <3>1. PICK S : task'[r] = [Idle EXCEPT !.pc = "ingest", !.todo = S]
      BY <1>1, <2>1 DEF Poll
    <3> QED
      BY <1>0, <3>1 DEF Idle
  <2>2. ASSUME NEW x \in Cands, Reset(r, x) PROVE Goal
    <3>1. /\ Become(r, [Idle EXCEPT !.pc = "reset", !.of = x, !.was = cand[x].state, !.blk = cand[x].request])
          /\ Tangle(x) /\ UNCHANGED <<block, cand>> /\ cand[x].state # "none"
      BY <2>2 DEF Reset
    <3>2. /\ task'[r].pc = "reset" /\ task'[r].of = x /\ task'[r].blk = cand[x].request
          /\ task'[r].was = cand[x].state
      BY <1>1, <3>1 DEF Idle
    <3>3. x = c
      BY <1>0, <3>2
    <3>4. Tangle(c) /\ UNCHANGED <<block, cand>> /\ \E rec : Become(r, rec)
      BY <3>1, <3>3
    <3> QED
      BY <1>4, <3>1, <3>2, <3>3, <3>4 DEF Enters
  <2>5. ASSUME NEW x \in Cands, Reject(r, x) PROVE Goal
    <3>1. /\ Become(r, [Idle EXCEPT !.pc = "reject", !.of = x, !.was = cand[x].state])
          /\ Tangle(x) /\ UNCHANGED <<block, cand>> /\ cand[x].state # "none"
      BY <2>5 DEF Reject
    <3>2. task'[r].pc = "reject" /\ task'[r].of = x /\ task'[r].was = cand[x].state
      BY <1>1, <3>1 DEF Idle
    <3>3. x = c
      BY <1>0, <3>2
    <3>4. Tangle(c) /\ UNCHANGED <<block, cand>> /\ \E rec : Become(r, rec)
      BY <3>1, <3>3
    <3> QED
      BY <1>4, <3>1, <3>2, <3>3, <3>4 DEF Enters
  <2>3. ASSUME NEW x \in Cands, NEW act \in Actions, Approve(r, x, act) PROVE Goal
    <3>1. Become(r, [Idle EXCEPT !.pc = "decide", !.of = x, !.act = act, !.after = Existing]) /\ Tangle(x)
          /\ UNCHANGED <<block, cand>> /\ cand[x].state \in Open
      BY <2>3 DEF Approve
    <3>2. task'[r].pc = "decide" /\ task'[r].of = x
      BY <1>1, <3>1 DEF Idle
    <3>3. x = c
      BY <1>0, <3>2
    <3>4. Tangle(c) /\ UNCHANGED <<block, cand>> /\ \E rec : Become(r, rec)
      BY <3>1, <3>3
    <3> QED
      BY <1>4, <3>1, <3>2, <3>3, <3>4 DEF Enters
  <2>4. ASSUME NEW b \in Blocks, Cancel(r, b) PROVE Goal
    <3>1. Become(r, [Idle EXCEPT !.pc = "cancel", !.blk = b]) /\ Tangle(block[b].owner)
          /\ UNCHANGED <<block, cand>> /\ block[b].state \in Waiting
      BY <2>4 DEF Cancel
    <3>2. task'[r].pc = "cancel" /\ task'[r].blk = b
      BY <1>1, <3>1 DEF Idle
    <3>3. block[b].owner = c
      BY <1>0, <3>1, <3>2
    <3>4. b \in W(c)
      BY <3>1, <3>3 DEF W, BlocksOf, Existing, Waiting
    <3>5. Tangle(c) /\ UNCHANGED <<block, cand>> /\ \E rec : Become(r, rec)
      BY <3>1, <3>3
    <3> QED
      BY <1>4, <3>2, <3>4, <3>5 DEF Enters
  <2> QED
    BY <1>4, <2>1, <2>2, <2>3, <2>4, <2>5, Zenon DEF CandRequest
<1>5. CASE ResumeCommit(r) \/ PlanRequest(r)
  <2>1. CASE ResumeCommit(r)
    BY <1>1, <1>2, <2>1 DEF ResumeCommit, Done
  <2>2. ASSUME NEW p \in Plans, RunPlan(r, p) PROVE Goal
    <3>1. task'[r] = [Idle EXCEPT !.pc = "number", !.of = p, !.after = Existing]
      BY <1>1, <2>2 DEF RunPlan
    <3> QED
      BY <1>0, <3>1, Sets DEF Idle
  <2>3. ASSUME NEW p \in Plans, ResumePlan(r, p) PROVE Goal
    <3>1. task'[r] = [Idle EXCEPT !.pc = "resume", !.of = p, !.blk = plan[p].last]
      BY <1>1, <2>3 DEF ResumePlan
    <3> QED
      BY <1>0, <3>1 DEF Idle
  <2> QED
    BY <1>5, <2>1, <2>2, <2>3, Zenon DEF PlanRequest
<1>6. CASE InsertRun(r) \/ RunFails(r)
  <2>1. task'[r] = [task[r] EXCEPT !.pc = "clear"] \/ task'[r] = Idle
    BY <1>1, <1>6 DEF InsertRun, RunFails, Done
  <2> QED
    BY <1>0, <1>2, <2>1 DEF Tasking
<1>7. CASE ReadSeq(r)
  <2>1. PICK n : task'[r] = [task[r] EXCEPT !.pc = "insert", !.seq = n]
    BY <1>1, <1>7 DEF ReadSeq
  <2> QED
    BY <1>0, <1>7, <2>1 DEF Tasking, ReadSeq, At
<1>8. CASE r = Scheduler /\ (Wake \/ Fire \/ Clear \/ ClearFails)
  <2>0. task[r].todo \subseteq Plans
    BY <1>8, HeldTask DEF Fits
  <2>1. CASE Wake
    <3>1. task'[r] = [Idle EXCEPT !.pc = "next", !.todo = Due]
      BY <1>1, <1>8, <2>1 DEF Wake
    <3> QED
      BY <1>0, <3>1 DEF Idle
  <2>2. CASE Fire
    <3>1. PICK p \in task[r].todo, pc \in {"number", "clear"} :
             task'[r] = [task[r] EXCEPT !.of = p, !.todo = @ \ {p}, !.after = Existing, !.pc = pc]
      BY <1>1, <1>8, <2>2 DEF Fire
    <3>2. task'[r].pc = pc /\ task'[r].of = p /\ p \in Plans
      BY <1>0, <2>0, <3>1 DEF Tasking
    <3> QED
      BY <1>0, <3>1, <3>2, Sets
  <2>3. CASE Clear \/ ClearFails
    <3>1. PICK pc \in {"idle", "next"}, S \in {task[r].todo, {}} :
             task'[r] = [Idle EXCEPT !.pc = pc, !.todo = S]
      BY <1>1, <1>8, <2>3, Cleared
    <3> QED
      BY <1>0, <3>1 DEF Idle
  <2> QED
    BY <1>8, <2>1, <2>2, <2>3
<1> QED
  BY <1>2, <1>3, <1>4, <1>5, <1>6, <1>7, <1>8, Movers, Zenon


LEMMA HandStays ==
    ASSUME TInv, [Next]_vars, NEW c \in Cands, NEW r \in Runners, task'[r] = task[r]
    PROVE  r \in InHand(c) <=> r \in InHand(c)'
<1>1. ASSUME task[r].pc = "cancel" PROVE block'[task[r].blk].owner = block[task[r].blk].owner
  BY <1>1, HeldTask, BlocksStay DEF Fits
<1> QED
  BY <1>1 DEF InHand, At

LEMMA OneHand ==
    ASSUME TInv, [Next]_vars, NEW c \in Cands, NEW t \in Runners, NEW rec, Become(t, rec),
           InHand(c) \subseteq {t}
    PROVE  InHand(c)' \subseteq {t}
<1>1. \A x \in Runners \ {t} : task'[x] = task[x]
  BY TypeParts DEF TInv, TaskOK, Become
<1>2. ASSUME NEW x \in InHand(c)' PROVE x = t
  <2>1. x \in Runners
    BY <1>2 DEF InHand
  <2> QED
    BY <1>1, <1>2, <2>1, HandStays
<1> QED
  BY <1>2

(* Any step is one of these, or leaves the candidate and who has it alone. *)
Aside(c) ==
    /\ cand'[c].state = cand[c].state /\ cand'[c].request = cand[c].request
    /\ W(c)' \subseteq W(c)
    /\ \A r \in Runners : r \in InHand(c) \/ r \in InHand(c)' => task'[r] = task[r]

LEMMA HandSplit ==
    ASSUME TInv, [Next]_vars, NEW c \in Cands
    PROVE  \/ Crash \/ Aside(c)
           \/ \E t \in Tasks : Ingest(t) /\ c \in task[t].todo
           \/ \E t \in Runners : Enters(t, c) \/ Works(t, c)
<1> SUFFICES ASSUME ~Crash, \A t \in Tasks : ~(Ingest(t) /\ c \in task[t].todo),
                    \A t \in Runners : ~Enters(t, c) /\ ~Works(t, c)
             PROVE  Aside(c)
  OBVIOUS
<1>t. Tasks \subseteq Runners
  BY Sets
<1>h. ASSUME NEW t \in Tasks
      PROVE  /\ (MarkNotified(t) \/ Decide(t) \/ InsertRequest(t) \/ StoreRequest(t) \/ RejectCommit(t)
                     \/ ResetCommit(t)) /\ task[t].of = c => Works(t, c)
             /\ CancelCommit(t) /\ block[task[t].blk].owner = c => Works(t, c)
  BY <1>t DEF Works, InHand, At, MarkNotified, Decide, InsertRequest, StoreRequest, RejectCommit, ResetCommit, CancelCommit
<1>1. cand'[c].state = cand[c].state
  BY <1>t, <1>h, StateSteps DEF Decides
<1>2. cand'[c].request = cand[c].request
  BY <1>t, <1>h, RequestSteps
<1>3. W(c)' \subseteq W(c)
  BY <1>t, <1>h, WaitSteps
<1>4. ASSUME NEW r \in Runners, r \in InHand(c) PROVE task'[r] = task[r]
  <2>1. \/ task[r].of = c /\ task[r].pc \in {"mark", "decide", "number", "insert", "store", "reject", "reset"}
        \/ At(r, "cancel")
    BY <1>4 DEF InHand
  <2>2. ~(task[r].of = c /\ (InsertRun(r) \/ RunFails(r)))
    BY Sets DEF InsertRun, RunFails
  <2>3. ~(MarkNotified(r) \/ Decide(r) \/ BuildFails(r) \/ ReadSeq(r) \/ InsertRequest(r)
             \/ StoreRequest(r) \/ RejectCommit(r) \/ ResetCommit(r) \/ CancelCommit(r))
    BY <1>4 DEF Works
  <2> QED
    BY <2>1, <2>2, <2>3, Flow DEF At, Still
<1>5. ASSUME NEW r \in Runners, r \in InHand(c)' PROVE task'[r] = task[r]
  BY <1>4, <1>5, NewHand
<1> QED
  BY <1>1, <1>2, <1>3, <1>4, <1>5 DEF Aside

-----------------------------------------------------------------------------
LEMMA AsideOK ==
    ASSUME TInv, [Next]_vars, NEW c \in Cands, HandOK(c), Aside(c)
    PROVE  HandOK(c)'
<1>0. InHand(c) \subseteq Runners /\ InHand(c)' \subseteq Runners
  BY DEF InHand
<1>1. \A r \in InHand(c)' : r \in InHand(c) /\ task'[r] = task[r]
  BY <1>0, HandStays DEF Aside
<1>2. \A r \in InHand(c) : r \in InHand(c)' /\ task'[r] = task[r]
  BY <1>0, HandStays DEF Aside
<1>3. \A r, u \in InHand(c)' : r = u
  BY <1>1 DEF HandOK
<1>4. ASSUME NEW r \in InHand(c)' PROVE UpToDate(r, c)'
  BY <1>1, <1>4 DEF HandOK, UpToDate, Aside
<1>5. ASSUME NEW b \in W(c)'
      PROVE  \/ cand'[c].state \in Decided /\ b = cand'[c].request
             \/ \E r \in InHand(c)' : At(r, "store")' /\ task'[r].blk = b
  BY <1>2, <1>5 DEF HandOK, Aside, At
<1> QED
  BY <1>3, <1>4, <1>5 DEF HandOK

LEMMA EnterOK ==
    ASSUME TInv, [Next]_vars, NEW c \in Cands, HandOK(c), NEW t \in Runners, Enters(t, c), ~tangled'[c]
    PROVE  HandOK(c)'
<1>1. InHand(c) = {} /\ t \in Tasks
  BY Untangled DEF Enters
<1>2. InHand(c)' \subseteq {t}
  BY <1>1, OneHand DEF Enters
<1>3. W(c)' = W(c) /\ cand' = cand
  BY DEF Enters, W, BlocksOf, Existing
<1>4. \A b \in W(c) : cand[c].state \in Decided /\ b = cand[c].request
  BY <1>1 DEF HandOK
<1>5. ASSUME t \in InHand(c)' PROVE UpToDate(t, c)'
  <2>1. /\ task'[t].pc = "mark" => cand[c].state = "new"
        /\ task'[t].pc = "decide" => W(c) = {}
        /\ task'[t].pc \notin {"number", "insert", "store"}
        /\ task'[t].pc = "cancel" => W(c) \subseteq {task'[t].blk}
        /\ task'[t].pc = "reset" => task'[t].blk = cand[c].request
        /\ task'[t].pc \in {"reject", "reset"} => task'[t].was = cand[c].state /\ cand[c].state # "none"
    BY <1>4 DEF Enters, Open, Decided, Approved
  <2> QED
    BY <1>3, <2>1 DEF UpToDate
<1> QED
  BY <1>2, <1>3, <1>4, <1>5 DEF HandOK

LEMMA NobodyOK ==
    ASSUME NEW c \in Cands, InHand(c)' = {}, W(c)' = {}
    PROVE  HandOK(c)'
BY DEF HandOK

LEMMA IngestOK ==
    ASSUME TInv, [Next]_vars, NEW c \in Cands, HandOK(c), NEW t \in Tasks, Ingest(t), c \in task[t].todo
    PROVE  HandOK(c)'
<1>1. cand[c].state = "none" /\ block' = block /\ cand'[c].state = "new" /\ cand'[c].request = cand[c].request
  BY TypeParts DEF Ingest, TInv, CandOK
<1>2. W(c)' = W(c)
  BY <1>1 DEF W, BlocksOf, Existing
<1>3. \A r \in InHand(c) : task[r].pc \notin {"store", "mark", "number", "insert", "reject", "reset"}
  <2>1. ASSUME NEW r \in InHand(c) PROVE UpToDate(r, c)
    BY <2>1 DEF HandOK
  <2>2. cand[c].state \notin Approved /\ cand[c].state # "new"
    BY <1>1 DEF Approved
  <2> QED
    BY <1>1, <2>1, <2>2 DEF UpToDate
<1>4. W(c) = {}
  BY <1>1, <1>3 DEF HandOK, Decided, Approved, At
<1>5. ASSUME NEW r \in InHand(c)' PROVE r \in InHand(c) /\ task'[r] = task[r]
  <2>1. r \in Runners /\ t \in Runners /\ DOMAIN task = Runners
    BY <1>5, Sets, TypeParts DEF InHand, TInv, TaskOK
  <2>2. PICK S : Become(t, [Idle EXCEPT !.pc = "notify", !.todo = S])
    BY DEF Ingest
  <2>3. task'[t].pc = "notify"
    BY <2>1, <2>2 DEF Become, Idle
  <2>4. r # t
    BY <1>5, <2>3 DEF InHand, At
  <2>5. task'[r] = task[r]
    BY <2>1, <2>2, <2>4 DEF Become
  <2> QED
    BY <1>5, <2>1, <2>5, HandStays
<1>6. ASSUME NEW r \in InHand(c)' PROVE UpToDate(r, c)'
  BY <1>1, <1>2, <1>3, <1>4, <1>5, <1>6 DEF HandOK, UpToDate, At
<1> QED
  BY <1>2, <1>4, <1>5, <1>6 DEF HandOK


LEMMA WorkOK ==
    ASSUME TInv, [Next]_vars, NEW c \in Cands, HandOK(c), NEW t \in Runners, Works(t, c), ~tangled'[c]
    PROVE  HandOK(c)'
<1>0. /\ t \in InHand(c) /\ InHand(c) = {t} /\ UpToDate(t, c) /\ DOMAIN tangled = Cands /\ task[t] \in Tasking /\ Fits(t, task[t])
      /\ DOMAIN task = Runners
  BY HeldTask, TypeParts DEF Works, HandOK, TInv, TaskOK, FlagsOK
<1>1. ASSUME NEW rec, Become(t, rec) PROVE task'[t] = rec /\ InHand(c)' \subseteq {t}
  BY <1>0, <1>1, OneHand DEF Become
<1>2. ASSUME NEW pc \in {"idle", "notify"}, task'[t].pc = pc PROVE t \notin InHand(c)'
  BY <1>2 DEF InHand, At
<1>3. ASSUME block' = block PROVE W(c)' = W(c)
  BY <1>3 DEF W, BlocksOf, Existing
<1>4. ASSUME NEW b \in W(c)'
      PROVE  b \in W(c) \/ (InsertRequest(t) /\ b = task'[t].blk)
  <2>1. ASSUME NEW u \in Tasks, InsertRequest(u), task[u].of = c PROVE u = t
    <3>1. u \in InHand(c)
      BY <2>1, Sets DEF InsertRequest, InHand, At
    <3> QED
      BY <1>0, <3>1
  <2> QED
    BY <1>4, <2>1, WaitSteps
<1>5. CASE MarkNotified(t)
  <2>1. At(t, "mark") /\ task[t].of = c /\ cand[c].state = "new"
    BY <1>0, <1>5 DEF MarkNotified, InHand, At, UpToDate
  <2>2. W(c) = {}
    BY <1>0, <2>1 DEF HandOK, At, Decided, Approved
  <2>3. Become(t, [task[t] EXCEPT !.pc = "notify"]) /\ block' = block
    BY <1>5 DEF MarkNotified
  <2>4. task'[t].pc = "notify"
    BY <1>0, <1>1, <2>3 DEF Tasking
  <2> QED
    BY <1>1, <1>2, <1>3, <2>2, <2>3, <2>4, NobodyOK
<1>6. CASE Decide(t)
  <2>1. task[t].pc = "decide" /\ task[t].of = c
    BY <1>0, <1>6 DEF Decide, InHand, At
  <2>2. Become(t, [task[t] EXCEPT !.pc = "number"]) /\ block' = block
        /\ cand' = [cand EXCEPT ![c] = [cand[c] EXCEPT !.state = As(task[t].act)]]
    BY <1>6, <2>1 DEF Decide
  <2>3. W(c)' = {}
    BY <1>0, <1>3, <2>1, <2>2 DEF UpToDate
  <2>4. task'[t].pc = "number" /\ cand'[c].state \in Approved
    <3>1. cand'[c].state = As(task[t].act)
      BY <2>2, TypeParts DEF TInv, CandOK
    <3> QED
      BY <1>0, <1>1, <2>2, <3>1 DEF Tasking, As, Approved
  <2>5. UpToDate(t, c)'
    BY <2>3, <2>4 DEF UpToDate
  <2> QED
    BY <1>1, <2>2, <2>3, <2>5 DEF HandOK
<1>7. CASE BuildFails(t)
  <2>1. task[t].pc \in {"number", "insert"} /\ block' = block /\ Become(t, Idle)
    <3>1. ASSUME At(t, "store") PROVE tangled'[task[t].of]
      BY <1>0, <1>7, <3>1 DEF BuildFails
    <3>2. task[t].of = c
      BY <1>0, <1>7 DEF BuildFails, InHand, At
    <3> QED
      BY <1>7, <3>1, <3>2 DEF BuildFails, At, Done
  <2>2. W(c)' = {}
    BY <1>0, <1>3, <2>1 DEF UpToDate
  <2>3. task'[t].pc = "idle"
    BY <1>1, <2>1 DEF Idle
  <2> QED
    BY <1>1, <1>2, <2>1, <2>2, <2>3, NobodyOK
<1>8. CASE ReadSeq(t)
  <2>1. task[t].pc = "number" /\ block' = block
    BY <1>8 DEF ReadSeq, At
  <2>2. PICK n : Become(t, [task[t] EXCEPT !.pc = "insert", !.seq = n])
    BY <1>8 DEF ReadSeq
  <2>3. task'[t].pc = "insert"
    <3>1. task'[t] = [task[t] EXCEPT !.pc = "insert", !.seq = n]
      BY <1>1, <2>2
    <3> QED
      BY <1>0, <3>1 DEF Tasking
  <2>4. W(c)' = {} /\ cand[c].state \in Approved
    BY <1>0, <1>3, <2>1 DEF UpToDate
  <2>5. cand'[c].state = cand[c].state
    <3>1. ASSUME NEW u \in Tasks,
                 \/ (MarkNotified(u) \/ Decide(u) \/ RejectCommit(u) \/ ResetCommit(u)) /\ task[u].of = c
                 \/ CancelCommit(u) /\ block[task[u].blk].owner = c
          PROVE  FALSE
      <4>1. u \in InHand(c) /\ task[u].pc # "number"
        BY <3>1, Sets DEF InHand, At, MarkNotified, Decide, RejectCommit, ResetCommit, CancelCommit
      <4> QED
        BY <1>0, <2>1, <4>1
    <3>2. \A u \in Tasks : Ingest(u) => c \notin task[u].todo
      BY <2>4 DEF Ingest, Approved
    <3> QED
      BY <3>1, <3>2, StateSteps DEF Decides
  <2>6. UpToDate(t, c)'
    BY <2>3, <2>4, <2>5 DEF UpToDate
  <2> QED
    BY <1>1, <2>2, <2>4, <2>6 DEF HandOK
<1>9. CASE InsertRequest(t)
  <2>1. task[t].pc = "insert" /\ task'[t].pc = "store" /\ UNCHANGED candVars
    BY <1>9, InsertLands DEF InsertRequest, At
  <2>2. W(c) = {} /\ cand[c].state \in Approved
    BY <1>0, <2>1 DEF UpToDate
  <2>3. W(c)' \subseteq {task'[t].blk}
    BY <1>4, <2>2
  <2>4. UpToDate(t, c)'
    BY <2>1, <2>2, <2>3 DEF UpToDate, candVars
  <2>5. t \in InHand(c)'
    <3>1. task'[t].of = task[t].of /\ task[t].of = c
      BY <1>0, <1>9, <2>1, InsertLands DEF InHand, At
    <3> QED
      BY <2>1, <3>1 DEF InHand
  <2>6. InHand(c)' \subseteq {t}
    <3>1. \E rec : Become(t, rec)
      BY <1>9 DEF InsertRequest
    <3> QED
      BY <1>1, <3>1
  <2> QED
    BY <2>1, <2>3, <2>4, <2>5, <2>6 DEF HandOK, At
<1>10. CASE StoreRequest(t)
  <2>1. task[t].pc = "store" /\ task[t].of = c /\ block' = block /\ Become(t, Idle)
    BY <1>0, <1>10 DEF StoreRequest, InHand, At, Done
  <2>2. W(c)' \subseteq {task[t].blk} /\ cand[c].state \in Approved
    BY <1>0, <1>3, <2>1 DEF UpToDate
  <2>3. cand'[c].request = task[t].blk /\ cand'[c].state = cand[c].state
    BY <1>10, <2>1, TypeParts DEF StoreRequest, TInv, CandOK
  <2>4. InHand(c)' = {}
    BY <1>1, <1>2, <2>1 DEF Idle
  <2> QED
    BY <2>2, <2>3, <2>4 DEF HandOK, Decided
<1>11. CASE ResetCommit(t)
  <2>1. task[t].pc = "reset" /\ task[t].of = c /\ Become(t, Idle)
    BY <1>0, <1>11 DEF ResetCommit, InHand, At, Done
  <2>2. InHand(c)' = {}
    BY <1>1, <1>2, <2>1 DEF Idle
  <2>3. ASSUME NEW b \in W(c)' PROVE FALSE
    <3>1. b \in W(c) /\ b = cand[c].request /\ task[t].blk = b
      BY <1>0, <1>4, <2>1, <2>3 DEF HandOK, At, UpToDate, InsertRequest
    <3>2. b \in Existing /\ b # 0 /\ block[b].state \in Waiting
      BY <3>1, QueueConstants DEF W, BlocksOf, Existing, Blocks
    <3>3. Restates(b, "aborted")
      BY <1>11, <3>1, <3>2 DEF ResetCommit, Restates
    <3> QED
      BY <2>3, <3>2, <3>3, Aborted, Sets
  <2> QED
    BY <2>2, <2>3, NobodyOK
<1>12. CASE CancelCommit(t)
  <2>1. task[t].pc = "cancel" /\ Become(t, Idle)
    BY <1>12 DEF CancelCommit, At, Done
  <2>2. InHand(c)' = {}
    BY <1>1, <1>2, <2>1 DEF Idle
  <2>3. ASSUME NEW b \in W(c)' PROVE FALSE
    <3>1. b = task[t].blk
      BY <1>0, <1>4, <2>1, <2>3 DEF UpToDate, InsertRequest, At
    <3>2. b \in Existing
      BY <1>0, <2>1, <3>1 DEF Fits
    <3>3. Restates(b, "aborted")
      BY <1>12, <3>1, <3>2 DEF CancelCommit, Restates
    <3> QED
      BY <2>3, <3>2, <3>3, Aborted, Sets
  <2> QED
    BY <2>2, <2>3, NobodyOK
<1>13. CASE RejectCommit(t)
  <2>1. At(t, "reject") /\ ~At(t, "reset") /\ Leaves(t, "rejected") /\ Become(t, Idle) /\ block' = block
    BY <1>13 DEF RejectCommit, At, Done
  <2>2. task[t].of = c /\ ~At(t, "store") /\ task[t].was = cand[c].state
    BY <1>0, <2>1 DEF InHand, At, UpToDate
  <2>3. cand'[c].state = "rejected" /\ cand'[c].request = cand[c].request
    BY <2>1, <2>2, Left, Sets DEF Works
  <2>4. InHand(c)' = {} /\ W(c)' = W(c)
    BY <1>1, <1>2, <1>3, <2>1 DEF Idle
  <2> QED
    BY <1>0, <2>2, <2>3, <2>4 DEF HandOK, Decided
<1> QED
  BY <1>5, <1>6, <1>7, <1>8, <1>9, <1>10, <1>11, <1>12, <1>13 DEF Works

LEMMA OInvStep == TInv /\ OInv /\ [Next]_vars => OInv'
<1> SUFFICES ASSUME TInv, OInv, [Next]_vars, NEW c \in Cands, ~tangled'[c]
             PROVE  HandOK(c)'
  BY DEF OInv
<1>1. HandOK(c)
  BY TangledStays DEF OInv
<1>2. CASE Crash
  <2>1. \A r \in Runners : task'[r] = Idle
    BY <1>2 DEF Crash
  <2>2. InHand(c)' = {}
    BY <2>1 DEF InHand, At, Idle
  <2>3. InHand(c) = {} /\ block' = block /\ cand' = cand
    BY <1>2 DEF Crash
  <2>4. W(c)' = W(c)
    BY <2>3 DEF W, BlocksOf, Existing
  <2> QED
    BY <1>1, <2>2, <2>3, <2>4 DEF HandOK
<1> QED
  BY <1>1, <1>2, HandSplit, AsideOK, EnterOK, IngestOK, WorkOK

LEMMA OInvInit == Init => OInv
BY DEF Init, QueueInit, Missing, OInv, HandOK, InHand, W, BlocksOf, Existing, At, Idle

(* A candidate waits in the queue once, however often it was approved, reset *)
(* and removed, unless two handlers had it in hand at the same time.       *)
THEOREM OneWaitingAlways == Spec => []OneWaiting
<1>1. OInv /\ TInv => OneWaiting
  <2> SUFFICES ASSUME OInv, NEW c \in Cands, ~tangled[c]
               PROVE  Cardinality(W(c)) <= 1
    BY DEF OneWaiting, W
  <2>1. \A x, y \in W(c) : x = y
    BY DEF OInv, HandOK, UpToDate, At
  <2>2. CASE W(c) = {}
    BY <2>2, FS_EmptySet
  <2>3. ASSUME NEW b \in W(c) PROVE Cardinality(W(c)) <= 1
    <3>1. W(c) = {b}
      BY <2>1, <2>3
    <3>2. Cardinality({b}) = 1
      BY FS_Singleton
    <3> QED
      BY <3>1, <3>2
  <2> QED
    BY <2>2, <2>3
<1> QED
  BY <1>1, OInvInit, OInvStep, TInvAlways, PTL DEF Spec

(* A decision stands until somebody resets the candidate or removes its    *)
(* block: nothing a poll, a notification or another approval does undoes   *)
(* it, unless it had the candidate in hand already.                        *)
THEOREM DecisionsStandAlways == Spec => DecisionsStand
<1>1. TInv /\ OInv /\ [Next]_vars =>
         [\A c \in Cands : cand[c].state \in Decided /\ cand'[c].state \in Open /\ ~tangled[c]
              => \E t \in Tasks : ResetCommit(t) \/ CancelCommit(t)]_vars
  <2> SUFFICES ASSUME TInv, OInv, [Next]_vars, NEW c \in Cands, cand[c].state \in Decided,
                      cand'[c].state \in Open, ~tangled[c]
               PROVE  \E t \in Tasks : ResetCommit(t) \/ CancelCommit(t)
    OBVIOUS
  <2>1. ASSUME NEW t \in Tasks, Ingest(t), c \in task[t].todo PROVE FALSE
    BY <2>1 DEF Ingest, Decided, Approved
  <2>2. ASSUME NEW t \in Tasks, MarkNotified(t), task[t].of = c PROVE FALSE
    <3>1. t \in InHand(c) /\ task[t].pc = "mark"
      BY <2>2, Sets DEF MarkNotified, InHand, At
    <3> QED
      BY <3>1 DEF OInv, HandOK, UpToDate, Decided, Approved
  <2> QED
    BY <2>1, <2>2, StateSteps DEF Decides, Open, Decided, Approved, As
<1> QED
  BY <1>1, OInvInit, OInvStep, TInvAlways, PTL DEF Spec, DecisionsStand

-----------------------------------------------------------------------------
(***************************************************************************)
(* The scheduler.  A plan on its list has not been fired and is still due, *)
(* or somebody has changed it since; one that was fired has its schedule   *)
(* cleared, or is the one whose schedule is about to be.                   *)
(***************************************************************************)
Working == {"number", "insert", "clear"}

SInv ==
    LET s == task[Scheduler] IN
    /\ s.pc \in Working => s.of \notin s.todo
    /\ \A p \in Plans :
          /\ p \in s.todo \/ (s.pc \in {"number", "insert"} /\ s.of = p) => fired[p] = 0
          /\ p \in s.todo \/ (s.pc \in Working /\ s.of = p) => plan[p].when = "due" \/ spoiled[p]
          /\ s.pc = "clear" /\ s.of = p => fired[p] > 0 \/ spoiled[p]
          /\ fired[p] > 0 => plan[p].when = "none" \/ (s.pc = "clear" /\ s.of = p)
          /\ fired[p] <= 1
          /\ ~plan[p].saved => plan[p].when = "none"

(* Neither the scheduler nor what it decides by has moved. *)
Idles ==
    /\ task'[Scheduler] = task[Scheduler] /\ UNCHANGED <<fired, spoiled>>
    /\ \A p \in Plans : plan'[p].when = plan[p].when /\ plan'[p].saved = plan[p].saved

LEMMA PlanSplit ==
    ASSUME TInv, [Next]_vars
    PROVE  \/ Idles \/ Crash
           \/ \E p \in Plans :
                 DeletePlan(p) \/ ComesDue(p) \/ \E when \in {"none", "later"} : SavePlan(p, when)
           \/ InsertRun(Scheduler) \/ RunFails(Scheduler) \/ (ReadSeq(Scheduler) /\ UNCHANGED planVars)
           \/ Wake \/ Fire \/ Clear \/ ClearFails
<1>0. /\ DOMAIN task = Runners /\ Tasks \subseteq Runners /\ Scheduler \in Runners /\ Scheduler \notin Tasks
      /\ PlanOK /\ DOMAIN plan = Plans
  BY TypeParts, Sets DEF TInv, TaskOK, PlanOK
<1>1. ASSUME UNCHANGED planVars, task'[Scheduler] = task[Scheduler] PROVE Idles
  BY <1>1 DEF Idles, planVars
<1>2. ASSUME NEW t \in Tasks, TaskStep(t) PROVE Idles
  <2>1. task'[Scheduler] = task[Scheduler]
    <3>1. \E rec : Become(t, rec)
      BY <1>0, <1>2, Zenon
         DEF TaskStep, CandStep, PlanStep, Ingest, IngestFails, Notify, Announce, MarkNotified, Notified,
             Decide, BuildFails, InsertRequest, StoreRequest, RejectCommit, ResetCommit, CancelCommit, InsertRun,
             RunFails, ResumeCommit, ReadSeq, Done
    <3> QED
      BY <1>0, <3>1 DEF Become
  <2>2. CASE InsertRun(t)
    <3>1. /\ UNCHANGED <<fired, spoiled>>
          /\ \/ plan' = plan
             \/ \E b : plan' = [plan EXCEPT ![task[t].of] = [plan[task[t].of] EXCEPT !.last = b]]
      BY <1>0, <2>2 DEF InsertRun
    <3>2. \A p \in Plans : plan[p] \in [saved : BOOLEAN, when : {"none", "later", "due"}, last : 0 .. MaxBlocks]
      BY <1>0 DEF PlanOK
    <3>3. ASSUME NEW p \in Plans PROVE plan'[p].when = plan[p].when /\ plan'[p].saved = plan[p].saved
      <4>1. plan'[p] = plan[p] \/ \E b : plan'[p] = [plan[p] EXCEPT !.last = b]
        BY <1>0, <3>1
      <4> QED
        BY <3>2, <4>1, Zenon
    <3> QED
      BY <2>1, <3>1, <3>3 DEF Idles
  <2>3. CASE RunFails(t)
    BY <1>0, <1>1, <2>1, <2>3 DEF RunFails, planVars
  <2> QED
    BY <1>1, <1>2, <2>1, <2>2, <2>3, Zenon DEF TaskStep, PlanStep, ResumeCommit
<1>3. ASSUME NEW t \in Tasks, (CandRequest(t) /\ UNCHANGED planVars) \/ PlanRequest(t) PROVE Idles
  <2>1. \E rec : Become(t, rec)
    BY <1>3, Zenon DEF CandRequest, Poll, Reject, Reset, Approve, Cancel, PlanRequest, RunPlan, ResumePlan
  <2>2. task'[Scheduler] = task[Scheduler]
    BY <1>0, <2>1 DEF Become
  <2> QED
    BY <1>1, <1>3, <2>2, Zenon DEF PlanRequest, RunPlan, ResumePlan
<1>4. CASE SchedStep
  BY <1>0, <1>4, Zenon DEF SchedStep, SchedulerStep, PlanStep
<1>5. ASSUME UNCHANGED <<task, planVars>> PROVE Idles
  BY <1>1, <1>5
<1> QED
  BY <1>2, <1>3, <1>4, <1>5, Zenon DEF Next, Reorder, Dispatch, Finish, queueVars, vars

LEMMA SInvStep == TInv /\ SInv /\ [Next]_vars => SInv'
<1> SUFFICES ASSUME TInv, SInv, [Next]_vars PROVE SInv'
  OBVIOUS
<1> DEFINE s == task[Scheduler]
<1>0. /\ DOMAIN task = Runners /\ Scheduler \in Runners
      /\ s \in Tasking /\ s.todo \subseteq Plans /\ (s.pc \in Working => s.of \in Plans)
      /\ s.pc \in {"idle", "next", "number", "insert", "clear"}
      /\ DOMAIN fired = Plans /\ DOMAIN spoiled = Plans /\ DOMAIN plan = Plans
      /\ \A p \in Plans : fired[p] \in 0 .. 2
  BY HeldTask, Sets, TypeParts DEF TInv, TaskOK, PlanOK, FlagsOK, Fits, Working
<1>r. \A p \in Plans : plan[p] \in [saved : BOOLEAN, when : {"none", "later", "due"}, last : 0 .. MaxBlocks]
  BY TypeParts DEF TInv, PlanOK
<1>b. ASSUME NEW rec, Become(Scheduler, rec) PROVE s' = rec
  BY <1>0, <1>b DEF Become
<1>1. CASE Idles
  BY <1>1 DEF SInv, Idles
<1>2. CASE Crash
  <2>1. s' = Idle /\ plan' = plan /\ \A p \in Plans : fired'[p] = 0
    BY <1>0, <1>2 DEF Crash
  <2> QED
    BY <2>1 DEF SInv, Idle, Working
<1>3. ASSUME NEW q \in Plans, NEW when \in {"none", "later"}, SavePlan(q, when) PROVE SInv'
  <2>1. /\ s' = s /\ \A p \in Plans \ {q} : plan'[p] = plan[p] /\ fired'[p] = fired[p] /\ spoiled'[p] = spoiled[p]
        /\ fired'[q] = 0
    BY <1>0, <1>3 DEF SavePlan, queueVars
  <2>2. (q = s.of \/ q \in s.todo) => spoiled'[q]
    BY <1>0, <1>3 DEF SavePlan, Held
  <2>3. plan'[q] = [plan[q] EXCEPT !.saved = TRUE, !.when = when]
    BY <1>0, <1>3, Zenon DEF SavePlan
  <2>4. plan'[q].saved
    BY <1>r, <2>3, Zenon
  <2> QED
    BY <2>1, <2>2, <2>4 DEF SInv
<1>4. ASSUME NEW q \in Plans, DeletePlan(q) PROVE SInv'
  <2>1. /\ s' = s /\ fired' = fired /\ plan'[q].when = "none"
        /\ \A p \in Plans \ {q} : plan'[p] = plan[p] /\ spoiled'[p] = spoiled[p]
    BY <1>0, <1>4 DEF DeletePlan, queueVars
  <2>2. (q = s.of \/ q \in s.todo) => spoiled'[q]
    BY <1>0, <1>4 DEF DeletePlan, Held
  <2> QED
    BY <2>1, <2>2 DEF SInv
<1>5. ASSUME NEW q \in Plans, ComesDue(q) PROVE SInv'
  <2>1. /\ s' = s /\ fired' = fired /\ spoiled' = spoiled /\ plan[q].when = "later"
        /\ \A p \in Plans \ {q} : plan'[p] = plan[p]
        /\ plan'[q] = [plan[q] EXCEPT !.when = "due"]
    BY <1>0, <1>5 DEF ComesDue, queueVars
  <2>2. plan'[q].when = "due" /\ plan'[q].saved = plan[q].saved
    BY <1>r, <2>1
  <2> QED
    BY <2>1, <2>2 DEF SInv
<1>6. CASE InsertRun(Scheduler)
  <2>1. /\ s.pc = "insert" /\ s.of \in Plans /\ s' = [s EXCEPT !.pc = "clear"] /\ spoiled' = spoiled
    BY <1>6, <1>b DEF InsertRun, At
  <2>2. s'.pc = "clear" /\ s'.of = s.of /\ s'.todo = s.todo
    BY <1>0, <2>1 DEF Tasking
  <2>3. CASE plan[s.of].saved
    <3>1. \E b : plan' = [plan EXCEPT ![s.of] = [plan[s.of] EXCEPT !.last = b]]
      BY <1>6, <2>3 DEF InsertRun
    <3>2. fired' = [fired EXCEPT ![s.of] = IF @ < 2 THEN @ + 1 ELSE @]
      BY <1>6, <2>3 DEF InsertRun
    <3>3. ASSUME NEW p \in Plans PROVE plan'[p].when = plan[p].when /\ plan'[p].saved = plan[p].saved
      <4>1. plan'[p] = plan[p] \/ \E b : plan'[p] = [plan[p] EXCEPT !.last = b]
        BY <1>0, <3>1
      <4> QED
        BY <1>r, <4>1, Zenon
    <3>4. fired'[s.of] = 1 /\ \A p \in Plans \ {s.of} : fired'[p] = fired[p]
      BY <1>0, <2>1, <3>2 DEF SInv
    <3> QED
      BY <2>1, <2>2, <3>3, <3>4 DEF SInv, Working
  <2>4. CASE ~plan[s.of].saved
    <3>1. plan' = plan /\ fired' = fired
      BY <1>6, <2>4 DEF InsertRun
    <3>2. spoiled[s.of]
      BY <2>1, <2>4 DEF SInv, Working
    <3> QED
      BY <2>1, <2>2, <3>1, <3>2 DEF SInv, Working
  <2> QED
    BY <2>3, <2>4
<1>7. CASE RunFails(Scheduler)
  <2>1. /\ s.pc = "insert" /\ s.of \in Plans /\ s' = [s EXCEPT !.pc = "clear"]
        /\ plan' = plan /\ fired' = fired /\ spoiled' = [spoiled EXCEPT ![s.of] = TRUE]
    BY <1>7, <1>b DEF RunFails, At
  <2>2. s'.pc = "clear" /\ s'.of = s.of /\ s'.todo = s.todo
    BY <1>0, <2>1 DEF Tasking
  <2>3. spoiled'[s.of] /\ \A p \in Plans : spoiled[p] => spoiled'[p]
    BY <1>0, <2>1
  <2> QED
    BY <2>1, <2>2, <2>3 DEF SInv, Working
<1>8. CASE ReadSeq(Scheduler) /\ UNCHANGED planVars
  <2>1. PICK n : s' = [s EXCEPT !.pc = "insert", !.seq = n]
    BY <1>8, <1>b DEF ReadSeq
  <2>2. s'.pc = "insert" /\ s'.of = s.of /\ s'.todo = s.todo /\ s.pc = "number"
    BY <1>0, <1>8, <2>1 DEF Tasking, ReadSeq, At
  <2> QED
    BY <1>8, <2>2 DEF SInv, Working, planVars
<1>9. CASE Wake
  <2>1. s' = [Idle EXCEPT !.pc = "next", !.todo = Due] /\ s.pc = "idle" /\ UNCHANGED <<plan, fired, spoiled>>
    BY <1>9, <1>b DEF Wake, At, planVars
  <2>2. s'.pc = "next" /\ s'.todo = Due
    BY <2>1 DEF Idle
  <2>3. \A p \in Due : fired[p] = 0 /\ plan[p].when = "due"
    BY <1>0, <2>1 DEF SInv, Due
  <2> QED
    BY <2>1, <2>2, <2>3 DEF SInv, Working
<1>10. CASE Fire
  <2>1. PICK p \in s.todo :
           Become(Scheduler, [s EXCEPT !.of = p, !.todo = @ \ {p}, !.after = Existing,
                                       !.pc = IF plan[p].saved THEN "number" ELSE "clear"])
    BY <1>10 DEF Fire
  <2>2. UNCHANGED <<plan, fired, spoiled>> /\ s.pc = "next"
    BY <1>10 DEF Fire, planVars, At
  <2>3. s'.of = p /\ s'.todo = s.todo \ {p} /\ s'.pc = IF plan[p].saved THEN "number" ELSE "clear"
    BY <1>0, <1>b, <2>1 DEF Tasking
  <2> QED
    BY <2>2, <2>3 DEF SInv, Working
<1>11. CASE Clear
  <2>1. PICK pc \in {"idle", "next"} : Become(Scheduler, [Idle EXCEPT !.pc = pc, !.todo = s.todo])
    BY <1>11 DEF Clear
  <2>2. s'.pc = pc /\ s'.todo = s.todo
    BY <1>b, <2>1 DEF Idle
  <2>3. s.pc = "clear" /\ UNCHANGED <<fired, spoiled>> /\ plan' = [plan EXCEPT ![s.of] = [plan[s.of] EXCEPT !.when = "none"]]
    BY <1>11 DEF Clear, At
  <2>4. plan'[s.of].when = "none" /\ \A p \in Plans \ {s.of} : plan'[p] = plan[p]
    BY <1>0, <1>r, <2>3 DEF Working
  <2> QED
    BY <2>1, <2>2, <2>3, <2>4 DEF SInv, Working
<1>12. CASE ClearFails
  <2>1. s.pc = "clear" /\ UNCHANGED <<plan, spoiled>> /\ fired' = [fired EXCEPT ![s.of] = 0]
    BY <1>12 DEF ClearFails, At
  <2>2. s'.pc = "idle" /\ s'.todo = {}
    BY <1>b, <1>12 DEF ClearFails, Done, Idle
  <2>3. fired'[s.of] = 0 /\ \A p \in Plans \ {s.of} : fired'[p] = fired[p]
    BY <1>0, <2>1 DEF Working
  <2> QED
    BY <2>1, <2>2, <2>3 DEF SInv, Working
<1> QED
  BY <1>1, <1>2, <1>3, <1>4, <1>5, <1>6, <1>7, <1>8, <1>9, <1>10, <1>11, <1>12, PlanSplit

(* The scheduler fires no plan early and none twice, and clears no schedule *)
(* it has not served, whatever crashes, deletions and edits come between   *)
(* its reading the list and its three transactions for each plan on it.    *)
THEOREM ScheduleServedAlways == Spec => ScheduleServed
<1>1. Init => SInv
  BY DEF Init, QueueInit, PlanInit, SInv, Idle, Working, Runners
<1>2. TInv /\ SInv /\ SInv' /\ [Next]_vars =>
         [\A p \in Plans :
             /\ fired'[p] <= 1
             /\ fired'[p] > fired[p] => plan[p].when = "due" \/ spoiled[p]
             /\ plan[p].when # "none" /\ plan'[p].when = "none" /\ plan'[p].saved
                   => SavePlan(p, "none") \/ fired[p] > 0 \/ spoiled[p]]_vars
  <2> SUFFICES ASSUME TInv, SInv, SInv', [Next]_vars, NEW p \in Plans
               PROVE  /\ fired'[p] <= 1
                      /\ fired'[p] > fired[p] => plan[p].when = "due" \/ spoiled[p]
                      /\ plan[p].when # "none" /\ plan'[p].when = "none" /\ plan'[p].saved
                            => SavePlan(p, "none") \/ fired[p] > 0 \/ spoiled[p]
    OBVIOUS
  <2> DEFINE s == task[Scheduler]
             Kept == fired'[p] = fired[p] /\ plan'[p].when = plan[p].when
  <2>0. /\ DOMAIN fired = Plans /\ DOMAIN plan = Plans /\ fired[p] \in 0 .. 2
        /\ plan[p] \in [saved : BOOLEAN, when : {"none", "later", "due"}, last : 0 .. MaxBlocks]
    BY TypeParts DEF TInv, PlanOK
  <2>1. fired'[p] <= 1
    BY DEF SInv
  <2>2. ASSUME Idles PROVE Kept
    BY <2>2 DEF Idles
  <2>3. CASE Crash
    BY <2>0, <2>1, <2>3 DEF Crash
  <2>4. ASSUME NEW q \in Plans, NEW when \in {"none", "later"}, SavePlan(q, when), q # p PROVE Kept
    BY <2>0, <2>4 DEF SavePlan
  <2>5. ASSUME NEW when \in {"none", "later"}, SavePlan(p, when)
        PROVE  fired'[p] = 0 /\ (plan'[p].when = "none" => when = "none")
    <3>1. plan'[p] = [plan[p] EXCEPT !.saved = TRUE, !.when = when]
      BY <2>0, <2>5, Zenon DEF SavePlan
    <3>2. plan'[p].when = when
      BY <2>0, <3>1, Zenon
    <3> QED
      BY <2>0, <2>5, <3>2 DEF SavePlan
  <2>6. ASSUME NEW q \in Plans, DeletePlan(q) PROVE Kept \/ (fired'[p] = fired[p] /\ ~plan'[p].saved)
    BY <2>0, <2>6 DEF DeletePlan
  <2>7. ASSUME NEW q \in Plans, ComesDue(q) PROVE fired'[p] = fired[p] /\ (plan'[p].when = plan[p].when \/ plan'[p].when = "due")
    BY <2>0, <2>7 DEF ComesDue
  <2>8. CASE InsertRun(Scheduler)
    <3>1. s.pc = "insert" /\ s.of \in Plans /\ (fired'[p] = fired[p] \/ p = s.of)
      BY <2>0, <2>8 DEF InsertRun, At
    <3>2. plan'[p] = plan[p] \/ \E b : plan'[p] = [plan[p] EXCEPT !.last = b]
      BY <2>0, <2>8 DEF InsertRun
    <3>3. plan'[p].when = plan[p].when
      BY <2>0, <3>2, Zenon
    <3>4. p = s.of => plan[p].when = "due" \/ spoiled[p]
      BY <3>1 DEF SInv, Working
    <3> QED
      BY <2>0, <2>1, <3>1, <3>3, <3>4
  <2>9. ASSUME RunFails(Scheduler) \/ (ReadSeq(Scheduler) /\ UNCHANGED planVars) \/ Wake \/ Fire PROVE Kept
    BY <2>9 DEF RunFails, Wake, Fire, planVars
  <2>10. CASE Clear
    <3>1. s.pc = "clear" /\ fired' = fired /\ (plan'[p] = plan[p] \/ p = s.of)
      BY <2>0, <2>10 DEF Clear, At
    <3>2. p = s.of => fired[p] > 0 \/ spoiled[p]
      BY <3>1 DEF SInv
    <3>3. plan'[p].when = plan[p].when \/ p = s.of
      BY <3>1
    <3> QED
      BY <2>0, <2>1, <3>1, <3>2, <3>3
  <2>11. ASSUME ClearFails PROVE plan' = plan /\ (fired'[p] = fired[p] \/ fired'[p] = 0)
    BY <2>0, <2>11 DEF ClearFails
  <2> QED
    <3>1. CASE Kept
      BY <2>0, <2>1, <3>1
    <3>2. ASSUME NEW q \in Plans, NEW when \in {"none", "later"}, SavePlan(q, when)
          PROVE  Kept \/ (q = p /\ fired'[p] = 0 /\ (plan'[p].when = "none" => SavePlan(p, "none")))
      BY <2>4, <2>5, <3>2
    <3> QED
      BY <2>0, <2>1, <2>2, <2>3, <2>6, <2>7, <2>8, <2>9, <2>10, <2>11, <3>1, <3>2, PlanSplit
<1> QED
  BY <1>1, <1>2, SInvStep, TInvAlways, PTL DEF Spec, ScheduleServed

-----------------------------------------------------------------------------
(* A block row changes state only as BlockLife lets it: a handler queues a  *)
(* row it inserts and queues or aborts one that is there, however stale     *)
(* what it read of it, and reordering the queue leaves every state alone.   *)
THEOREM RowsAgreed == Spec => RowsAsAgreed
<1>1. Init => L!LifeInit
  BY DEF Init, QueueInit, Missing, States, L!LifeInit
<1>2. ASSUME TInv, TInv', [Next]_vars PROVE [L!LifeNext]_States
  <2>1. /\ DOMAIN block = Blocks /\ DOMAIN States = Blocks /\ DOMAIN States' = Blocks
        /\ \A b \in Blocks : block[b] \in BlockRows
    BY <1>2, TypeParts DEF TInv, BlockOK, States
  <2>2. CASE UNCHANGED block
    BY <2>2 DEF States
  <2>3. ASSUME NEW r \in Runners, NEW b \in Blocks, Inserts(b, r) PROVE L!LifeNext
    <3>1. States[b] = "none"
      BY <2>3 DEF Inserts, NewBlock, Existing, States
    <3>2. States' = [States EXCEPT ![b] = "queued"]
      BY <2>1, <2>3 DEF Inserts, NewBlock, States
    <3> QED
      BY <3>1, <3>2 DEF L!LifeNext, L!Order, L!Ordered
  <2>4. ASSUME NEW b \in Blocks, NEW s, Restates(b, s)
        PROVE  States[b] = block[b].state /\ States[b] # "none" /\ States' = [States EXCEPT ![b] = s]
    <3>1. block[b] # Missing
      BY <2>4 DEF Restates, Existing, Missing
    <3>2. [block[b] EXCEPT !.state = s].state = s
      BY <2>1, <3>1 DEF BlockRows
    <3> QED
      BY <2>1, <2>4, <3>2 DEF Restates, Existing, States
  <2>5. ASSUME NEW b \in Blocks, NEW s \in L!Ordered, Restates(b, s) PROVE L!LifeNext
    BY <2>4, <2>5 DEF L!LifeNext, L!Order
  <2>6. ASSUME NEW b \in Blocks, Dispatch(b), Restates(b, "running") PROVE L!LifeNext
    BY <2>4, <2>6 DEF Dispatch, L!LifeNext, L!Take
  <2>7. ASSUME NEW b \in Blocks, Finish(b), NEW s \in Finished, Restates(b, s) PROVE L!LifeNext
    BY <2>4, <2>7 DEF Finish, Finished, L!LifeNext, L!Close, L!Finished
  <2>8. CASE Reorder
    <3>1. \A b \in Blocks : block'[b].state = block[b].state
      BY <2>1, <2>8 DEF Reorder, BlockRows, Missing
    <3> QED
      BY <3>1 DEF States
  <2>9. "queued" \in L!Ordered /\ "aborted" \in L!Ordered
    BY DEF L!Ordered
  <2> QED
    BY <1>2, <2>2, <2>3, <2>5, <2>6, <2>7, <2>8, <2>9, BlockSteps
<1> QED
  BY <1>1, <1>2, TInvAlways, PTL DEF Spec, RowsAsAgreed, L!LifeSpec

=============================================================================
