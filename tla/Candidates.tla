----------------------------- MODULE Candidates -----------------------------
(***************************************************************************)
(* Alert ingest and the decisions on candidates (CandidateService in       *)
(* crito/transient/candidates.py), as the poller, the console, Slack and   *)
(* e-mail links call them.  Whoever decides calls the same approve and     *)
(* reject, so a channel is only another task.  Scores and visibility are   *)
(* not modelled: an alert is observable or it is not.  EXPIRED is a state  *)
(* no code sets.                                                           *)
(***************************************************************************)
EXTENDS Queue

VARIABLES
    cand,       \* the candidate rows: state and request_id (0 when NULL)
    audit,      \* the action of a candidate's latest audit row
    announced,  \* history: times a candidate was sent to the supervisor, up to 2
    lost,       \* history: an approval's build failed or died with the process
    stale,      \* history: the handler behind the latest audit row found the candidate
                \* as it was to leave it, which others had changed by then
    tangled     \* history: two handlers had the candidate in hand at once, each on
                \* what it had read before, or one died with it

candVars == <<cand, audit, announced, lost, stale, tangled>>

Open      == {"new", "notified"}
Approved  == {"approved_queue", "approved_execute"}
Decided   == Approved \cup {"rejected"}

(* Mutant: one word for both ways of approving. *)
AsOne(act) == "approved"

As(act) == IF act = "queue" THEN "approved_queue" ELSE "approved_execute"

(* A task between the commit of its approval of c and what becomes of it. *)
Building(c) == \E r \in Runners : task[r].pc \in {"number", "insert", "store"} /\ task[r].of = c

(* Handlers that have read the candidate, or its block, and will write. *)
InHand(c) ==
    {r \in Runners : \/ task[r].of = c /\ task[r].pc \in {"mark", "decide", "number", "insert",
                                                        "store", "reject", "reset"}
                     \/ At(r, "cancel") /\ block[task[r].blk].owner = c}

Tangle(c) == tangled' = [x \in Cands |-> tangled[x] \/ (x = c /\ InHand(c) # {})]

CandInit ==
    /\ cand = [c \in Cands |-> [state |-> "none", request |-> 0]]
    /\ audit = [c \in Cands |-> "none"]
    /\ announced = [c \in Cands |-> 0]
    /\ lost = [c \in Cands |-> FALSE]
    /\ stale = [c \in Cands |-> FALSE]
    /\ tangled = [c \in Cands |-> FALSE]

-----------------------------------------------------------------------------
(***************************************************************************)
(* poll_once -> evaluate_alerts -> _notify_new, by the poller's loop or by *)
(* a request to poll now: two passes may overlap.                          *)
(***************************************************************************)

(* The pass finds which of the broker's objects have no row yet; a row     *)
(* that is there gets its visibility refreshed and nothing else.           *)
Poll(t) ==
    /\ At(t, "idle")
    /\ \E new \in SUBSET {c \in Cands : cand[c].state = "none"} \ {{}} :
          Become(t, [Idle EXCEPT !.pc = "ingest", !.todo = new])
    /\ UNCHANGED <<block, reordered, candVars>>

(* All rows are inserted in one transaction; a row that another pass has   *)
(* inserted meanwhile fails it as a whole (IntegrityError).  Only what     *)
(* this pass inserted, and is observable, is announced.                    *)
Ingest(t) ==
    /\ At(t, "ingest")
    /\ \A c \in task[t].todo : cand[c].state = "none"
    /\ cand' = [c \in Cands |-> IF c \in task[t].todo THEN [cand[c] EXCEPT !.state = "new"]
                                                      ELSE cand[c]]
    /\ \E observable \in SUBSET task[t].todo :
          Become(t, [Idle EXCEPT !.pc = "notify", !.todo = observable])
    /\ UNCHANGED <<block, reordered, audit, announced, lost, stale, tangled>>

(* Mutant: a pass that finds the rows inserted already announces them too. *)
IngestFailsLoudly(t) ==
    /\ At(t, "ingest")
    /\ \E c \in task[t].todo : cand[c].state # "none"
    /\ Become(t, [Idle EXCEPT !.pc = "notify", !.todo = task[t].todo])
    /\ UNCHANGED <<block, reordered, candVars>>

IngestFails(t) ==
    /\ At(t, "ingest")
    /\ \E c \in task[t].todo : cand[c].state # "none"
    /\ Done(t)
    /\ UNCHANGED <<block, reordered, candVars>>

(* _notify_new, candidate by candidate: skipped when it is decided already. *)
Notify(t) ==
    /\ At(t, "notify")
    /\ \E c \in task[t].todo :
          Become(t, [task[t] EXCEPT !.todo = @ \ {c}, !.of = c,
                                    !.pc = IF cand[c].state = "new" THEN "announce" ELSE "notify"])
    /\ UNCHANGED <<block, reordered, candVars>>

(* Mutant: the candidate is not looked at again after the await. *)
AnnounceBlindly(t) ==
    /\ At(t, "announce")
    /\ announced' = [announced EXCEPT ![task[t].of] = IF @ < 2 THEN @ + 1 ELSE @]
    /\ Become(t, [task[t] EXCEPT !.pc = "mark"])
    /\ Tangle(task[t].of)
    /\ UNCHANGED <<block, reordered, cand, audit, lost, stale>>

(* notify() posts to Slack and by e-mail and swallows what goes wrong with  *)
(* them; the row is read again when it returns.                             *)
Announce(t) ==
    /\ At(t, "announce")
    /\ LET c == task[t].of IN
          /\ announced' = [announced EXCEPT ![c] = IF @ < 2 THEN @ + 1 ELSE @]
          /\ \/ /\ cand[c].state = "new"
                /\ Become(t, [task[t] EXCEPT !.pc = "mark"])
                /\ Tangle(c)
             \/ /\ cand[c].state # "new"
                /\ Become(t, [task[t] EXCEPT !.pc = "notify"])
                /\ UNCHANGED tangled
    /\ UNCHANGED <<block, reordered, cand, audit, lost, stale>>

MarkNotified(t) ==
    /\ At(t, "mark")
    /\ cand' = [cand EXCEPT ![task[t].of].state = "notified"]
    /\ Become(t, [task[t] EXCEPT !.pc = "notify"])
    /\ UNCHANGED <<block, reordered, audit, announced, lost, stale, tangled>>

Notified(t) ==
    /\ At(t, "notify")
    /\ task[t].todo = {}
    /\ Done(t)
    /\ UNCHANGED <<block, reordered, candVars>>

-----------------------------------------------------------------------------
(***************************************************************************)
(* approve(), from the console's route, _decide (Slack) or the e-mail link:*)
(* the decision, the build and the note of the request's id are three      *)
(* transactions.                                                           *)
(***************************************************************************)

(* A candidate already decided is returned as it is. *)
Approve(t, c, act) ==
    /\ At(t, "idle")
    /\ Room
    /\ cand[c].state \in Open
    /\ Become(t, [Idle EXCEPT !.pc = "decide", !.of = c, !.act = act, !.after = Existing])
    /\ Tangle(c)
    /\ UNCHANGED <<block, reordered, cand, audit, announced, lost, stale>>

Decide(t) ==
    /\ At(t, "decide")
    /\ LET c == task[t].of  act == task[t].act IN
          /\ cand' = [cand EXCEPT ![c].state = As(act)]
          /\ audit' = [audit EXCEPT ![c] = As(act)]
          /\ lost' = [lost EXCEPT ![c] = FALSE]
          /\ stale' = [stale EXCEPT ![c] = FALSE]
    /\ Become(t, [task[t] EXCEPT !.pc = "number"])
    /\ UNCHANGED <<block, reordered, announced, tangled>>

(* build(), or the transaction that stores the id of what it has built,    *)
(* raises: that is only logged, and the approval stands without a block,   *)
(* or with one that it does not know of.                                   *)
BuildFails(t) ==
    /\ task[t].pc \in {"number", "insert", "store"}
    /\ task[t].of \in Cands
    /\ lost' = [lost EXCEPT ![task[t].of] = TRUE]
    /\ tangled' = [tangled EXCEPT ![task[t].of] = @ \/ At(t, "store")]
    /\ Done(t)
    /\ UNCHANGED <<block, reordered, cand, audit, announced, stale>>

InsertRequest(t) ==
    /\ At(t, "insert")
    /\ task[t].of \in Cands
    /\ \E b \in Blocks : NewBlock(t, b) /\ Become(t, [task[t] EXCEPT !.pc = "store", !.blk = b])
    /\ UNCHANGED <<reordered, candVars>>

(* Whatever has become of the candidate meanwhile.  approve() returns the   *)
(* candidate, which has no block_id: the route launches nothing, asked to   *)
(* or not.                                                                  *)
StoreRequest(t) ==
    /\ At(t, "store")
    /\ cand' = [cand EXCEPT ![task[t].of].request = task[t].blk]
    /\ Done(t)
    /\ UNCHANGED <<block, reordered, audit, announced, lost, stale, tangled>>

(* reject(), whatever the candidate is; what an approved one has in the    *)
(* queue stays there.                                                      *)
Reject(t, c) ==
    /\ At(t, "idle")
    /\ cand[c].state # "none"
    /\ Become(t, [Idle EXCEPT !.pc = "reject", !.of = c, !.was = cand[c].state])
    /\ Tangle(c)
    /\ UNCHANGED <<block, reordered, cand, audit, announced, lost, stale>>

(* The audit row is written in any case, the state if it is to change. *)
Leaves(t, state) ==
    LET c == task[t].of IN
        /\ cand' = [cand EXCEPT ![c].state = Flushed(@, task[t].was, state),
                                ![c].request = IF At(t, "reset") THEN Flushed(@, task[t].blk, 0)
                                                                 ELSE @]
        /\ stale' = [stale EXCEPT ![c] = task[t].was = state /\ cand[c].state # state]

(* Mutant: a rejection leaves no audit row. *)
RejectSilently(t) ==
    /\ At(t, "reject")
    /\ Leaves(t, "rejected")
    /\ Done(t)
    /\ UNCHANGED <<block, reordered, audit, announced, lost, tangled>>

RejectCommit(t) ==
    /\ At(t, "reject")
    /\ Leaves(t, "rejected")
    /\ audit' = [audit EXCEPT ![task[t].of] = "rejected"]
    /\ Done(t)
    /\ UNCHANGED <<block, reordered, announced, lost, tangled>>

-----------------------------------------------------------------------------
(* reset(): the candidate is read, then reopened and the blocks of the     *)
(* request it had aborted if they have not started.                        *)
Reset(t, c) ==
    /\ At(t, "idle")
    /\ cand[c].state # "none"
    /\ Become(t, [Idle EXCEPT !.pc = "reset", !.of = c, !.was = cand[c].state,
                              !.blk = cand[c].request])
    /\ Tangle(c)
    /\ UNCHANGED <<block, reordered, cand, audit, announced, lost, stale>>

(* Mutant: the candidate is reopened, its block stays in the queue. *)
ResetKeepsBlock(t) ==
    /\ At(t, "reset")
    /\ Leaves(t, "new")
    /\ audit' = [audit EXCEPT ![task[t].of] = "reset"]
    /\ Done(t)
    /\ UNCHANGED <<block, reordered, announced, lost, tangled>>

ResetCommit(t) ==
    /\ At(t, "reset")
    /\ Leaves(t, "new")
    /\ LET b == task[t].blk IN
          /\ audit' = [audit EXCEPT ![task[t].of] = "reset"]
          /\ block' = IF b # 0 /\ block[b].state \in Waiting
                      THEN [block EXCEPT ![b].state = "aborted"] ELSE block
    /\ Done(t)
    /\ UNCHANGED <<reordered, announced, lost, tangled>>

(* cancel_block(): the block's state is read; aborting it, and reopening   *)
(* the candidate of its request, is the commit.  A running block is left   *)
(* to the sequencer, and its candidate stays as it is.                     *)
Cancel(t, b) ==
    /\ At(t, "idle")
    /\ block[b].state \in Waiting
    /\ Become(t, [Idle EXCEPT !.pc = "cancel", !.blk = b])
    /\ Tangle(block[b].owner)
    /\ UNCHANGED <<block, reordered, cand, audit, announced, lost, stale>>

(* Mutant: the request is forgotten, the decision is not. *)
ReopenedQueueOnly(c) ==
    IF cand[c].state \in Approved
    THEN [state |-> IF cand[c].state = "approved_queue" THEN "new" ELSE cand[c].state,
          request |-> 0]
    ELSE cand[c]

Reopened(c) == IF cand[c].state \in Approved THEN [state |-> "new", request |-> 0] ELSE cand[c]

CancelCommit(t) ==
    /\ At(t, "cancel")
    /\ LET b == task[t].blk  c == block[b].owner IN
          /\ block' = [block EXCEPT ![b].state = "aborted"]
          /\ cand' = IF c \in Cands THEN [cand EXCEPT ![c] = Reopened(c)] ELSE cand
    /\ Done(t)
    /\ UNCHANGED <<reordered, audit, announced, lost, stale, tangled>>

CandStep(t) ==
    \/ Ingest(t) \/ IngestFails(t) \/ Notify(t) \/ Announce(t) \/ MarkNotified(t) \/ Notified(t)
    \/ Decide(t) \/ BuildFails(t) \/ InsertRequest(t) \/ StoreRequest(t)
    \/ RejectCommit(t) \/ ResetCommit(t) \/ CancelCommit(t)

CandRequest(t) ==
    \/ Poll(t)
    \/ \E c \in Cands : Reject(t, c) \/ Reset(t, c) \/ \E act \in Actions : Approve(t, c, act)
    \/ \E b \in Blocks : Cancel(t, b)

=============================================================================
