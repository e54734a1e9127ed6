------------------------------- MODULE Queue -------------------------------
(***************************************************************************)
(* The execution queue as the services beside the sequencer see it: the    *)
(* rows of execution_block (crito/transient/requests.py) and the request   *)
(* handlers that are in flight.  Every handler reads through one database  *)
(* session, and commits after further awaits: what it read may be stale    *)
(* when it writes.  A read and the commit that follows it are therefore    *)
(* two steps, and what lies behind an autoflush (from there on the         *)
(* session holds the write lock) belongs to the commit.  A request row is  *)
(* created with its block and is only ever displayed: one id stands for    *)
(* both.                                                                   *)
(***************************************************************************)
EXTENDS Naturals, FiniteSets, Session

CONSTANTS
    Cands,      \* candidates of the night
    Plans,      \* saved observation plans
    Tasks,      \* bound: HTTP, Slack and poller handlers in flight at a time
    Scheduler,  \* the task of _plan_scheduler
    MaxBlocks,  \* bound: execution blocks ever created
    None

ASSUME QueueConstants ==
    /\ MaxBlocks \in Nat
    /\ Scheduler \notin Tasks
    /\ Cands \cap Plans = {}
    /\ None \notin Cands \cup Plans

VARIABLES
    block,      \* execution_block: state, whom it observes, queue position
    task,       \* the handler each task is in, with what it has read
    reordered   \* history: somebody has given the queue an order of his own

queueVars == <<block, task, reordered>>

Blocks   == 1 .. MaxBlocks
Runners  == Tasks \cup {Scheduler}
Owners   == Cands \cup Plans
Actions  == {"queue", "execute"}
Waiting  == {"queued", "paused"}
Active   == {"queued", "running", "paused"}
Finished == {"done", "failed", "aborted"}

(* What the services and the sequencer rely on each other for.             *)
States == [b \in Blocks |-> block[b].state]
L      == INSTANCE BlockLife WITH Rows <- Blocks, row <- States

Missing  == [state |-> "none", owner |-> None, seq |-> 0, after |-> {}]
Idle     == [pc |-> "idle", of |-> None, was |-> "none", blk |-> 0, seq |-> 0, after |-> {},
             todo |-> {}, act |-> "queue"]

Existing    == {b \in Blocks : block[b].state # "none"}
BlocksOf(x) == {b \in Existing : block[b].owner = x}
At(r, pc)   == task[r].pc = pc

(* Builds under way take up room too. *)
Room == Cardinality(Existing)
        + Cardinality({r \in Runners : task[r].pc \in {"decide", "number", "insert"}}) < MaxBlocks

QueueInit ==
    /\ block = [b \in Blocks |-> Missing]
    /\ task = [r \in Runners |-> Idle]
    /\ reordered = FALSE

Become(r, rec) == task' = [task EXCEPT ![r] = rec]
Done(r)        == Become(r, Idle)

-----------------------------------------------------------------------------
(***************************************************************************)
(* RequestBuilder.build and the fresh run of PlanService.run_plan: the     *)
(* next position is read in one await and used in another.                 *)
(***************************************************************************)

(* Mutant: the largest position instead of the one after it. *)
IsLastSeq(n) ==
    /\ \A b \in Existing : block[b].seq <= n
    /\ n > 0 => \E b \in Existing : block[b].seq = n

(* One past the largest position of any block, finished ones included. *)
IsNextSeq(n) ==
    /\ \A b \in Existing : block[b].seq < n
    /\ n > 0 => \E b \in Existing : block[b].seq + 1 = n

ReadSeq(r) ==
    /\ At(r, "number")
    /\ \E n \in 0 .. MaxBlocks :
          /\ IsNextSeq(n)
          /\ Become(r, [task[r] EXCEPT !.pc = "insert", !.seq = n])
    /\ UNCHANGED <<block, reordered>>

(* The new block has a fresh id; numbering the ids in order loses nothing. *)
NewBlock(r, b) ==
    /\ b \in Blocks \ Existing
    /\ \A x \in Blocks \ Existing : b <= x
    /\ block' = [block EXCEPT ![b] = [state |-> "queued", owner |-> task[r].of,
                                      seq |-> task[r].seq, after |-> task[r].after]]

(***************************************************************************)
(* Commands on the queue.                                                  *)
(***************************************************************************)

(* reorder_queue, given a list of ids: from the console, or the active     *)
(* blocks as queue_sort listed them some awaits ago.  Blocks that are not  *)
(* on the list keep their position.                                        *)
Reorder ==
    \E S \in SUBSET Existing \ {{}} : \E pos \in [S -> 0 .. Cardinality(S) - 1] :
        /\ \A x, y \in S : x # y => pos[x] # pos[y]
        /\ block' = [b \in Blocks |-> IF b \in S THEN [block[b] EXCEPT !.seq = pos[b]]
                                                 ELSE block[b]]
        /\ reordered' = TRUE
        /\ UNCHANGED task

(* The sequencer, as BlockLife has it: blocks are dispatched and end,      *)
(* whatever has become of their rows since it looked.                      *)
Dispatch(b) ==
    /\ block[b].state \in L!Takable
    /\ block' = [block EXCEPT ![b].state = "running"]
    /\ UNCHANGED <<task, reordered>>

Finish(b) ==
    /\ block[b].state \in L!Closable
    /\ \E s \in Finished : block' = [block EXCEPT ![b].state = s]
    /\ UNCHANGED <<task, reordered>>

QueueNext ==
    \/ \E r \in Runners : ReadSeq(r)
    \/ Reorder
    \/ \E b \in Blocks : Dispatch(b) \/ Finish(b)

-----------------------------------------------------------------------------
BlockRows ==
    {Missing} \cup [state : Waiting \cup Active \cup Finished, owner : Owners,
                    seq : 0 .. MaxBlocks, after : SUBSET Blocks]

(* First come, first served: a block whose approval or run began when      *)
(* another was already in the queue is behind it, however the builds of    *)
(* several handlers overlap, unless somebody has reordered the queue.      *)
FirstComeFirst ==
    reordered \/ \A b \in Existing : \A x \in block[b].after : block[x].seq < block[b].seq

=============================================================================
