----------------------------- MODULE BlockLife -----------------------------
(***************************************************************************)
(* The state column of execution_block, as its two kinds of writers rely   *)
(* on each other for it: the sequencer (crito/transient/executor.py), and  *)
(* the services that fill and empty the queue (requests.py, plans.py,      *)
(* candidates.py).  Sequencer models the one, Queue and what is built on   *)
(* it the others; each has the other side as this module states it.        *)
(***************************************************************************)
CONSTANT Rows

VARIABLE row    \* row[b]: the state of block b, "none" before there is one

Finished == {"done", "failed", "aborted"}
Ordered  == {"queued", "aborted"}       \* what a service may write

(* The sequencer writes RUNNING over what has become of a block that it    *)
(* found QUEUED: that block may have been removed since.                   *)
Takable  == {"queued", "aborted"}

(* And it closes a block over what has become of it while it ran.          *)
Closable == {"running", "queued", "aborted"}

LifeInit == row \in [Rows -> {"none", "queued"}]

Take(b) ==
    /\ row[b] \in Takable
    /\ row' = [row EXCEPT ![b] = "running"]

Close(b) ==
    /\ row[b] \in Closable
    /\ \E s \in Finished : row' = [row EXCEPT ![b] = s]

(* Created, queued again, removed. *)
Order(b) ==
    \E s \in Ordered :
        /\ row[b] = "none" => s = "queued"
        /\ row' = [row EXCEPT ![b] = s]

LifeNext == \E b \in Rows : Take(b) \/ Close(b) \/ Order(b)

LifeSpec == LifeInit /\ [][LifeNext]_row

=============================================================================
