----------------------------- MODULE Sequencer -----------------------------
(***************************************************************************)
(* The ExecutionSequencer (crito/transient/executor.py) with everything    *)
(* that acts on it: the safety monitor, the operator's verbs, the queue's  *)
(* cancel, the plan service's resume, the device link and process crashes. *)
(*                                                                         *)
(* The program is one asyncio process, so a step here is what one          *)
(* coroutine does between two awaits; pc is the await run()/_run_block is  *)
(* suspended at.  Block, step and request rows survive a crash; the rest   *)
(* does not.                                                               *)
(***************************************************************************)
EXTENDS Integers, FiniteSets, Mount, SafetyGate, Session

CONSTANTS
    Blocks,         \* execution blocks; a block's number is its queue seq
    NSteps,         \* steps per block
    Kinds,          \* Kinds[b][i]: kind of step i of block b; a slew without
                    \* coordinates moves nothing and is an "other"
    Dispatch,       \* Dispatch[b]: how b may start without being launched
    AutoExecute,    \* settings.auto_execute
    PlanBlocks,     \* blocks that are the latest block of a saved plan
    NoBlock,        \* progress["block_id"] is None
    Handlers,       \* bound: removals and resumes being served at the same time
    Explored,       \* bound: the kinds of disturbing events that may happen
    MaxEvents       \* bound: how many of them in a behaviour

Steps      == 1 .. NSteps
ExposeKind == {"light", "flat"}
Kind       == ExposeKind \cup {"slew", "center", "autofocus", "dither", "prompt", "other"}

EventKind == {"launch", "pause", "manual", "abort", "cancel", "resume_plan",
              "weather", "override", "link", "error", "crash"}

ASSUME SequencerConstants ==
    /\ Blocks \subseteq Nat
    /\ NSteps \in Nat
    /\ Kinds \in [Blocks -> [Steps -> Kind]]
    /\ Dispatch \in [Blocks -> {"attended", "timed", "auto"}]
    /\ AutoExecute \in BOOLEAN
    /\ PlanBlocks \subseteq Blocks
    /\ NoBlock \notin Blocks
    /\ Blocks \subseteq Targets
    /\ Explored \subseteq EventKind
    /\ MaxEvents \in Nat

VARIABLES
    \* database rows
    blockState,     \* ExecutionBlock.state
    stepState,      \* ExecutionStep.state
    nDone,          \* ExecutionBlock.n_done
    reqState,       \* ObservationRequest.state of the block's request
    archive,        \* Image rows: which step of which block, taken pointing where
    \* the sequencer's flags
    launched,       \* _launched
    abort,          \* _abort_block
    pause,          \* _pause
    manual,         \* manual_override
    confirmed,      \* _confirmed
    shown,          \* progress["block_id"]
    \* locals of run, _next_runnable and _run_block
    pc, todo, cur, plan, idx, frames, failures, aborted, shot,
    \* around it
    link,           \* dm.connected, with mount and camera bound
    clock,          \* scheduled_utc and the observing window, against now
    call,           \* call[h]: what request h has read and is going to do
    events,         \* events used so far
    \* history
    abortFor,       \* the block the last abort was meant for: the removed one, or the
                    \* one that was executing
    answered,       \* confirm() came since the open prompt was shown
    crossed,        \* blocks removed or re-queued over a run that had begun
    interrupted     \* blocks whose run was broken off by an error or a crash

rows    == <<blockState, stepState, nDone, reqState, archive>>
flags   == <<launched, abort, pause, manual, confirmed, shown>>
locals  == <<todo, cur, plan, idx, frames, failures, aborted, shot>>
world   == <<link, clock, call, events>>
history == <<abortFor, answered, crossed, interrupted>>
vars    == <<rows, flags, pc, locals, world, history, mountVars, gateVars>>

StepStates  == {"pending", "running", "done", "failed", "skipped"}
BlockStates == {"queued", "running", "done", "failed", "aborted"}
Incomplete  == BlockStates \ {"done"}
Settled     == {"done", "skipped"}
Final       == Settled \cup {"failed"}

(* At one of the block's steps, and in _run_block past the reset of         *)
(* _abort_block.                                                            *)
AtStep    == {"mark", "act", "slewing", "prompt", "exposing", "ingest", "record"}
Executing == AtStep \cup {"gate", "finish"}
Working   == Executing \cup {"load", "commit", "start", "wrapup"}
PC        == Working \cup {"poll", "scan", "window"}

(* How far _run_block is with a step. *)
Stage == [p \in Executing |-> CASE p = "gate" -> 1 [] p = "mark" -> 2 [] p = "act" -> 3
                                [] p \in {"slewing", "prompt", "exposing"} -> 4
                                [] p = "ingest" -> 5 [] p = "record" -> 6 [] p = "finish" -> 7]

(* What a DELETE or a resume is about to do, to which block, and what it    *)
(* had read of it: the columns state and n_done, and the steps.             *)
Call == [do : {"none", "remove", "stop", "check", "resume", "launch"},
         block : Blocks \cup {NoBlock}, was : BlockStates, n : Nat,
         steps : [Steps -> StepStates]]

NoCall == [do |-> "none", block |-> NoBlock, was |-> "queued", n |-> 0,
           steps |-> [i \in Steps |-> "pending"]]

(* All that is left to do, once the rows are written. *)
Then(do, b) == [NoCall EXCEPT !.do = do, !.block = b]

Frame == [block : Blocks, step : Steps, at : Targets \cup {Nowhere}]

RowsTypeOK ==
    /\ blockState \in [Blocks -> BlockStates]
    /\ stepState \in [Blocks -> [Steps -> StepStates]]
    /\ nDone \in [Blocks -> Nat]
    /\ reqState \in [Blocks -> {"queued", "done", "cancelled"}]
    /\ archive \subseteq Frame

FlagsTypeOK ==
    /\ launched \subseteq Blocks
    /\ abort \in BOOLEAN /\ pause \in BOOLEAN
    /\ manual \in BOOLEAN /\ confirmed \in BOOLEAN
    /\ shown \in Blocks \cup {NoBlock}

LocalsTypeOK ==
    /\ pc \in PC
    /\ todo \subseteq Blocks
    /\ cur \in Blocks \cup {NoBlock}
    /\ cur \in Blocks <=> pc \in Working \cup {"window"}
    /\ plan \in [Steps -> StepStates]
    /\ idx \in 1 .. (NSteps + 1)
    /\ pc \in AtStep => idx \in Steps
    /\ frames \in Nat /\ failures \in Nat
    /\ aborted \in BOOLEAN
    /\ shot \in Targets \cup {Nowhere}

WorldTypeOK ==
    /\ link \in BOOLEAN
    /\ clock \in [Blocks -> {"before", "in", "after"}]
    /\ call \in [Handlers -> Call]
    /\ \A h \in Handlers : call[h].block \in Blocks <=> call[h].do # "none"
    /\ events \in 0 .. MaxEvents

HistoryTypeOK ==
    /\ abortFor \in Blocks \cup {NoBlock}
    /\ answered \in BOOLEAN
    /\ crossed \subseteq Blocks
    /\ interrupted \subseteq Blocks

TypeOK ==
    /\ MountTypeOK /\ GateTypeOK
    /\ RowsTypeOK /\ FlagsTypeOK /\ LocalsTypeOK /\ WorldTypeOK /\ HistoryTypeOK

Init ==
    /\ MountInit /\ GateInit
    /\ blockState = [b \in Blocks |-> "queued"]
    /\ stepState = [b \in Blocks |-> [i \in Steps |-> "pending"]]
    /\ nDone = [b \in Blocks |-> 0]
    /\ reqState = [b \in Blocks |-> "queued"]
    /\ archive = {}
    /\ launched = {}
    /\ abort = FALSE /\ pause = FALSE /\ manual = FALSE /\ confirmed = FALSE
    /\ shown = NoBlock
    /\ pc = "poll"
    /\ todo = {} /\ cur = NoBlock /\ plan = [i \in Steps |-> "pending"]
    /\ idx = 1 /\ frames = 0 /\ failures = 0 /\ aborted = FALSE /\ shot = Nowhere
    /\ link = FALSE
    /\ clock = [b \in Blocks |-> "before"]
    /\ call = [h \in Handlers |-> NoCall]
    /\ events = 0
    /\ abortFor = NoBlock /\ answered = FALSE /\ crossed = {} /\ interrupted = {}

-----------------------------------------------------------------------------
(***************************************************************************)
(* run() and _next_runnable().                                             *)
(***************************************************************************)

(* What the services that edit the queue rely on. *)
L == INSTANCE BlockLife WITH Rows <- Blocks, row <- blockState

(* Manual hold or no devices: nothing to run, progress goes back to idle. *)
PollHeld ==
    /\ pc = "poll"
    /\ manual \/ ~link
    /\ shown' = NoBlock
    /\ UNCHANGED <<rows, launched, abort, pause, manual, confirmed, pc, locals, world,
                   history, mountVars, gateVars>>

(* Mutant: what failed is taken up again. *)
PollUnfinished ==
    /\ pc = "poll"
    /\ ~manual /\ link
    /\ pc' = "scan"
    /\ todo' = {b \in Blocks : blockState[b] \in {"queued", "failed"}}
    /\ UNCHANGED <<rows, flags, cur, plan, idx, frames, failures, aborted, shot, world,
                   history, mountVars, gateVars>>

(* The query for queued blocks; what it returned is used from here on. *)
Poll ==
    /\ pc = "poll"
    /\ ~manual /\ link
    /\ pc' = "scan"
    /\ todo' = {b \in Blocks : blockState[b] = "queued"}
    /\ UNCHANGED <<rows, flags, cur, plan, idx, frames, failures, aborted, shot, world,
                   history, mountVars, gateVars>>

Due(b) == clock[b] # "before"

(* Mutant: a launched block waits for SAFE, as an automatic one does. *)
ReadyWhenSafe(b) ==
    /\ OkToDispatch("auto")
    /\ b \in launched \/ (Dispatch[b] = "timed" /\ Due(b))

(* Launched, or scheduled and due: returned at once while safety permits. *)
Ready(b) ==
    /\ OkToDispatch("attended")
    /\ b \in launched \/ (Dispatch[b] = "timed" /\ Due(b))

(* Neither launched nor scheduled: its request row is fetched first. *)
NeedsRequest(b) == b \notin launched /\ Dispatch[b] # "timed"

Considered == {b \in todo : Ready(b) \/ NeedsRequest(b)}

(* The scan in seq order, up to a block to run or to the next await. *)
Scan ==
    /\ pc = "scan"
    /\ Considered # {}
    /\ \E b \in Considered :
        /\ \A c \in Considered : b <= c
        /\ cur' = b
        /\ pc' = IF NeedsRequest(b) THEN "window" ELSE "load"
    /\ UNCHANGED <<rows, flags, todo, plan, idx, frames, failures, aborted, shot, world,
                   history, mountVars, gateVars>>

NothingRunnable ==
    /\ pc = "scan"
    /\ Considered = {}
    /\ pc' = "poll"
    /\ shown' = NoBlock
    /\ UNCHANGED <<rows, launched, abort, pause, manual, confirmed, locals, world,
                   history, mountVars, gateVars>>

AutoReady(b) ==
    /\ Dispatch[b] = "auto"
    /\ AutoExecute
    /\ clock[b] = "in"
    /\ OkToDispatch("auto")

(* The request row is here: guarded auto-dispatch, or on to the next block. *)
CheckWindow ==
    /\ pc = "window"
    /\ IF AutoReady(cur)
       THEN pc' = "load" /\ UNCHANGED <<cur, todo>>
       ELSE /\ pc' = "scan"
            /\ cur' = NoBlock
            /\ todo' = {b \in todo : b > cur}
    /\ UNCHANGED <<rows, flags, plan, idx, frames, failures, aborted, shot, world,
                   history, mountVars, gateVars>>

-----------------------------------------------------------------------------
(***************************************************************************)
(* _run_block(): the opening transaction, then one step after the other.   *)
(***************************************************************************)

(* The steps are read; the plan that is run is this snapshot. *)
Load ==
    /\ pc = "load"
    /\ pc' = "commit"
    /\ plan' = stepState[cur]
    /\ crossed' = crossed \ {cur}
    /\ UNCHANGED <<rows, flags, todo, cur, idx, frames, failures, aborted, shot, world,
                   abortFor, answered, interrupted, mountVars, gateVars>>

(* state = RUNNING is written whatever the row says by now. *)
CommitRunning ==
    /\ pc = "commit"
    /\ pc' = "start"
    /\ blockState' = [blockState EXCEPT ![cur] = "running"]
    /\ interrupted' = interrupted \ {cur}
    /\ UNCHANGED <<stepState, nDone, reqState, archive, flags, locals, world, abortFor,
                   answered, crossed, mountVars, gateVars>>

(* Mutant: an abort left over from before the block is not forgotten. *)
StartKeepingAbort ==
    /\ pc = "start"
    /\ pc' = "gate"
    /\ abortFor' = NoBlock
    /\ shown' = cur
    /\ idx' = 1 /\ frames' = 0 /\ failures' = 0 /\ aborted' = FALSE
    /\ UNCHANGED <<rows, launched, abort, pause, manual, confirmed, todo, cur, plan, shot,
                   world, answered, crossed, interrupted, mountVars, gateVars>>

Start ==
    /\ pc = "start"
    /\ pc' = "gate"
    /\ abort' = FALSE
    /\ abortFor' = NoBlock
    /\ shown' = cur
    /\ idx' = 1 /\ frames' = 0 /\ failures' = 0 /\ aborted' = FALSE
    /\ UNCHANGED <<rows, launched, pause, manual, confirmed, todo, cur, plan, shot, world,
                   answered, crossed, interrupted, mountVars, gateVars>>

(* A step that was finished in an earlier run of this block. *)
SkipSettled ==
    /\ pc = "gate"
    /\ idx \in Steps
    /\ plan[idx] \in Settled
    /\ idx' = idx + 1
    /\ frames' = IF plan[idx] = "done" /\ Kinds[cur][idx] \in ExposeKind
                 THEN frames + 1 ELSE frames
    /\ UNCHANGED <<rows, flags, pc, todo, cur, plan, failures, aborted, shot, world,
                   history, mountVars, gateVars>>

AtOpenStep == pc = "gate" /\ idx \in Steps /\ plan[idx] \notin Settled

(* Mutant: the wait in _gate does not look at the abort flag. *)
GateAbortsUnheld ==
    /\ AtOpenStep
    /\ abort /\ ~pause /\ ~manual
    /\ pc' = "finish"
    /\ aborted' = TRUE
    /\ UNCHANGED <<rows, flags, todo, cur, plan, idx, frames, failures, shot, world,
                   history, mountVars, gateVars>>

GateAborts ==
    /\ AtOpenStep
    /\ abort
    /\ pc' = "finish"
    /\ aborted' = TRUE
    /\ UNCHANGED <<rows, flags, todo, cur, plan, idx, frames, failures, shot, world,
                   history, mountVars, gateVars>>

(* _gate() lets the step through; _set_step(RUNNING) is awaited next. *)
GatePasses ==
    /\ AtOpenStep
    /\ ~abort /\ ~pause /\ ~manual
    /\ pc' = "mark"
    /\ UNCHANGED <<rows, flags, locals, world, history, mountVars, gateVars>>

LastStepDone ==
    /\ pc = "gate"
    /\ idx = NSteps + 1
    /\ pc' = "finish"
    /\ UNCHANGED <<rows, flags, locals, world, history, mountVars, gateVars>>

(* _set_step(RUNNING) only overwrites PENDING. *)
MarkRunning ==
    /\ pc = "mark"
    /\ pc' = "act"
    /\ stepState' = [stepState EXCEPT ![cur][idx] = IF @ = "pending" THEN "running" ELSE @]
    /\ UNCHANGED <<blockState, nDone, reqState, archive, flags, locals, world, history,
                   mountVars, gateVars>>

-----------------------------------------------------------------------------
(***************************************************************************)
(* The steps.  Each ends by recording its outcome and moving to the next;  *)
(* the outcome is decided in the same uninterrupted stretch as the         *)
(* _set_step call, so the two are one action.                              *)
(***************************************************************************)
StepKind == Kinds[cur][idx]

Record(outcome) ==
    /\ stepState' = [stepState EXCEPT ![cur][idx] = outcome]
    /\ idx' = idx + 1
    /\ pc' = "gate"

(* Mutant: a step that failed is tried again. *)
RaiseAgain ==
    /\ stepState' = [stepState EXCEPT ![cur][idx] = "failed"]
    /\ failures' = failures + 1
    /\ IF StepKind = "slew"
       THEN pc' = "finish" /\ aborted' = TRUE /\ UNCHANGED idx
       ELSE pc' = "gate" /\ UNCHANGED <<idx, aborted>>

(* The except branch: FAILED, counted; a failed slew ends the block. *)
Raise ==
    /\ stepState' = [stepState EXCEPT ![cur][idx] = "failed"]
    /\ failures' = failures + 1
    /\ IF StepKind = "slew"
       THEN pc' = "finish" /\ aborted' = TRUE /\ UNCHANGED idx
       ELSE pc' = "gate" /\ idx' = idx + 1 /\ UNCHANGED aborted

(* What recording a step leaves alone. *)
StepFrame ==
    UNCHANGED <<blockState, nDone, reqState, archive, flags, todo, cur, plan, shot,
                world, history, gateVars>>

SendSlew ==
    /\ pc = "act" /\ StepKind = "slew" /\ link
    /\ SlewTo(cur)
    /\ pc' = "slewing"
    /\ UNCHANGED <<rows, flags, locals, world, history, gateVars>>

(* A small offset from wherever the mount now is. *)
SendDither ==
    /\ pc = "act" /\ StepKind = "dither" /\ link
    /\ SlewTo(aim)
    /\ pc' = "slewing"
    /\ UNCHANGED <<rows, flags, locals, world, history, gateVars>>

(* Mutant: the slew is over when the mount tracks, not when it rests. *)
SlewEndsTracking ==
    /\ pc = "slewing"
    /\ abort \/ (link /\ motion = "tracking")
    /\ Record("done")
    /\ UNCHANGED <<frames, failures, aborted, mountVars>> /\ StepFrame

(* _await_slew() returns when the mount rests, and also when abort is set;  *)
(* the caller cannot tell which, and records DONE.                          *)
SlewEnds ==
    /\ pc = "slewing"
    /\ abort \/ (link /\ ~Slewing)
    /\ Record("done")
    /\ UNCHANGED <<frames, failures, aborted, mountVars>> /\ StepFrame

(* 180 s passed, or the mount adapter is gone. *)
SlewFails ==
    /\ pc = "slewing"
    /\ ~abort
    /\ Slewing \/ ~link
    /\ Raise
    /\ UNCHANGED <<frames, mountVars>> /\ StepFrame

(* No adapter, or its socket is gone: the call raises. *)
ActWithoutLink ==
    /\ pc = "act" /\ ~link
    /\ StepKind \in ExposeKind \cup {"slew", "dither"}
    /\ Raise
    /\ UNCHANGED <<frames, mountVars>> /\ StepFrame

(* No mount adapter, no known position or no amplitude: nothing is sent. *)
DitherNothing ==
    /\ pc = "act" /\ StepKind = "dither"
    /\ Record("done")
    /\ UNCHANGED <<frames, failures, aborted, mountVars>> /\ StepFrame

(* run_center() re-slews to the target between solves; it does not look at *)
(* _abort_block.                                                            *)
CenterMoves ==
    /\ pc = "act" /\ StepKind = "center" /\ link
    /\ SlewTo(cur)
    /\ UNCHANGED <<rows, flags, pc, locals, world, history, gateVars>>

(* Skipped without a solver or focuser; not converging is not an error. *)
PrecisionEnds ==
    /\ pc = "act" /\ StepKind \in {"center", "autofocus"}
    /\ \/ /\ \E outcome \in {"skipped", "done", "failed"} : Record(outcome)
          /\ UNCHANGED <<failures, aborted>>
       \/ Raise
    /\ UNCHANGED <<frames, mountVars>> /\ StepFrame

(* Mutant: an earlier confirmation is left standing. *)
OpenPromptConfirmed ==
    /\ pc = "act" /\ StepKind = "prompt"
    /\ pc' = "prompt"
    /\ answered' = FALSE
    /\ UNCHANGED <<rows, flags, locals, world, abortFor, crossed, interrupted, mountVars,
                   gateVars>>

(* _await_confirm() forgets any earlier confirmation, then waits. *)
OpenPrompt ==
    /\ pc = "act" /\ StepKind = "prompt"
    /\ pc' = "prompt"
    /\ confirmed' = FALSE
    /\ answered' = FALSE
    /\ UNCHANGED <<rows, launched, abort, pause, manual, shown, locals, world, abortFor,
                   crossed, interrupted, mountVars, gateVars>>

ClosePrompt ==
    /\ pc = "prompt"
    /\ confirmed \/ abort
    /\ Record(IF abort THEN "skipped" ELSE "done")
    /\ UNCHANGED <<frames, failures, aborted, mountVars>> /\ StepFrame

(* dm.capture() samples the pointing, then exposes. *)
Expose ==
    /\ pc = "act" /\ StepKind \in ExposeKind /\ link
    /\ pc' = "exposing"
    /\ shot' = IF motion = "tracking" THEN aim ELSE Nowhere
    /\ UNCHANGED <<rows, flags, todo, cur, plan, idx, frames, failures, aborted, world,
                   history, mountVars, gateVars>>

(* Mutant: the step is recorded as soon as the camera has delivered. *)
CaptureSkipsIngest ==
    /\ pc = "exposing"
    /\ pc' = "record"
    /\ UNCHANGED <<rows, flags, locals, world, history, mountVars, gateVars>>

CaptureReturns ==
    /\ pc = "exposing"
    /\ pc' = "ingest"
    /\ UNCHANGED <<rows, flags, locals, world, history, mountVars, gateVars>>

(* Time-out, lost camera, unreadable image, a failing archive, or a failing *)
(* database write after the image row is there.                             *)
ExposureFails ==
    /\ pc \in {"exposing", "ingest", "record"}
    /\ Raise
    /\ UNCHANGED <<frames, mountVars>> /\ StepFrame

Ingest ==
    /\ pc = "ingest"
    /\ pc' = "record"
    /\ archive' = archive \cup {[block |-> cur, step |-> idx, at |-> shot]}
    /\ UNCHANGED <<blockState, stepState, nDone, reqState, flags, locals, world, history,
                   mountVars, gateVars>>

FrameDone ==
    /\ pc = "record"
    /\ Record("done")
    /\ frames' = frames + 1
    /\ UNCHANGED <<failures, aborted, mountVars>> /\ StepFrame

(* Nothing to do: an unknown kind, or a slew without coordinates. *)
UnknownKind ==
    /\ pc = "act" /\ StepKind = "other"
    /\ Record("skipped")
    /\ UNCHANGED <<frames, failures, aborted, mountVars>> /\ StepFrame

(* Mutant: breaking out of the loop early is not remembered. *)
VerdictByFrames == IF frames = 0 /\ failures > 0 THEN "failed" ELSE "done"

(* Mutant: the verdict is taken from the wrong enumeration. *)
VerdictOfSteps ==
    IF aborted THEN "skipped"
    ELSE IF frames = 0 /\ failures > 0 THEN "failed" ELSE "done"

Verdict ==
    IF aborted THEN "aborted"
    ELSE IF frames = 0 /\ failures > 0 THEN "failed" ELSE "done"

(* The closing transaction.  The request is DONE however the block ended. *)
Finish ==
    /\ pc = "finish"
    /\ pc' = "wrapup"
    /\ blockState' = [blockState EXCEPT ![cur] = Verdict]
    /\ nDone' = [nDone EXCEPT ![cur] = frames]
    /\ reqState' = [reqState EXCEPT ![cur] = "done"]
    /\ UNCHANGED <<stepState, archive, flags, locals, world, history, mountVars, gateVars>>

(* The locals are dead from here on; they are set back to keep states few. *)
ForgetLocals ==
    /\ todo' = {} /\ cur' = NoBlock /\ plan' = [i \in Steps |-> "pending"]
    /\ idx' = 1 /\ frames' = 0 /\ failures' = 0 /\ aborted' = FALSE /\ shot' = Nowhere

WrapUp ==
    /\ pc = "wrapup"
    /\ pc' = "poll"
    /\ launched' = launched \ {cur}
    /\ abort' = FALSE
    /\ shown' = NoBlock
    /\ ForgetLocals
    /\ UNCHANGED <<rows, pause, manual, confirmed, world, history, mountVars, gateVars>>

StepAction ==
    \/ SendSlew \/ SendDither \/ SlewEnds \/ SlewFails \/ ActWithoutLink \/ DitherNothing
    \/ PrecisionEnds \/ OpenPrompt \/ ClosePrompt
    \/ Expose \/ CaptureReturns \/ ExposureFails \/ Ingest \/ FrameDone \/ UnknownKind

SequencerStep ==
    \/ PollHeld \/ Poll \/ Scan \/ NothingRunnable \/ CheckWindow
    \/ Load \/ CommitRunning \/ Start
    \/ SkipSettled \/ GateAborts \/ GatePasses \/ LastStepDone \/ MarkRunning
    \/ StepAction
    \/ Finish \/ WrapUp

-----------------------------------------------------------------------------
(***************************************************************************)
(* The operator: HTTP handlers of transient_routes.py and app.py.          *)
(***************************************************************************)
(* Disturbing events are counted.  What lets the sequence go on (resume,  *)
(* confirm, better weather, the link coming up) is not, so that a hold can *)
(* always be lifted.                                                       *)
Event(kind) ==
    /\ kind \in Explored
    /\ events < MaxEvents
    /\ events' = events + 1

UnchangedBesidesFlags ==
    UNCHANGED <<rows, pc, locals, link, clock, call, mountVars, gateVars>>

Launch(b) ==
    /\ Event("launch")
    /\ launched' = launched \cup {b}
    /\ UNCHANGED <<abort, pause, manual, confirmed, shown, history>>
    /\ UnchangedBesidesFlags

Pause ==
    /\ Event("pause")
    /\ pause' = TRUE
    /\ UNCHANGED <<launched, abort, manual, confirmed, shown, history>>
    /\ UnchangedBesidesFlags

Resume ==
    /\ UNCHANGED events
    /\ pause' = FALSE /\ manual' = FALSE
    /\ UNCHANGED <<launched, abort, confirmed, shown, history>>
    /\ UnchangedBesidesFlags

Confirm ==
    /\ UNCHANGED events
    /\ confirmed' = TRUE /\ pause' = FALSE /\ manual' = FALSE
    /\ answered' = (answered \/ pc = "prompt")
    /\ UNCHANGED <<launched, abort, shown, abortFor, crossed, interrupted>>
    /\ UnchangedBesidesFlags

SetManual(on) ==
    /\ Event("manual")
    /\ manual' = on
    /\ UNCHANGED <<launched, abort, pause, confirmed, shown, history>>
    /\ UnchangedBesidesFlags

(* A /api/mount/ command to move, stop or park: note_manual() comes first. *)
ManualMove ==
    /\ Event("manual")
    /\ link
    /\ manual' = TRUE
    /\ SlewTo(Nowhere) \/ AbortMotion \/ Park
    /\ UNCHANGED <<rows, launched, abort, pause, confirmed, shown, pc, locals, link, clock,
                   call, history, gateVars>>

(* ExecutionSequencer.abort(): the flag, then the mount if there is one. *)
AbortSequence(meant) ==
    /\ abort' = TRUE
    /\ IF link THEN AbortMotion ELSE UNCHANGED mountVars
    /\ abortFor' = meant

InHand == IF pc \in Executing THEN cur ELSE NoBlock

Abort ==
    /\ Event("abort")
    /\ AbortSequence(InHand)
    /\ UNCHANGED <<rows, launched, pause, manual, confirmed, shown, pc, locals, link, clock,
                   call, answered, crossed, interrupted, gateVars>>

(* Between the RUNNING commit and the closing one. *)
Running(b) == cur = b /\ pc \in Executing \cup {"start"}

(* From the moment _run_block has read the block's steps. *)
HasRead(b) == cur = b /\ pc \in Executing \cup {"commit", "start"}

UnchangedBesidesCall ==
    UNCHANGED <<flags, pc, locals, link, clock, answered, interrupted, mountVars, gateVars>>

(* Mutant: a running block is removed as well. *)
CancelBlockRunning(h, b) ==
    /\ Event("cancel")
    /\ call[h] = NoCall
    /\ call' = [call EXCEPT ![h] =
                   IF blockState[b] \in {"queued", "running"}
                   THEN [Then("remove", b) EXCEPT !.was = blockState[b]]
                   ELSE Then("stop", b)]
    /\ UNCHANGED <<rows, abortFor, crossed>> /\ UnchangedBesidesCall

(* DELETE /queue/{id}: cancel_block() reads the row, and is going to remove *)
(* it if it was queued.                                                     *)
CancelBlock(h, b) ==
    /\ Event("cancel")
    /\ call[h] = NoCall
    /\ call' = [call EXCEPT ![h] =
                   IF blockState[b] = "queued"
                   THEN [Then("remove", b) EXCEPT !.was = blockState[b]]
                   ELSE Then("stop", b)]
    /\ UNCHANGED <<rows, abortFor, crossed>> /\ UnchangedBesidesCall

(* ABORTED is not what was read, so it is written whatever has become of the *)
(* block meanwhile, and its request is cancelled with it.                   *)
CancelCommit(h) ==
    LET b == call[h].block IN
    /\ call[h].do = "remove"
    /\ call' = [call EXCEPT ![h] = Then("stop", b)]
    /\ blockState' = [blockState EXCEPT ![b] = Flushed(@, call[h].was, "aborted")]
    /\ reqState' = [reqState EXCEPT ![b] = "cancelled"]
    /\ crossed' = IF call[h].was = "queued" /\ Running(b) THEN crossed \cup {b} ELSE crossed
    /\ UNCHANGED <<stepState, nDone, archive, events, abortFor>> /\ UnchangedBesidesCall

(* Then executor.cancel() aborts the block if it is the one shown. *)
CancelExecution(h) ==
    LET b == call[h].block IN
    /\ call[h].do = "stop"
    /\ call' = [call EXCEPT ![h] = NoCall]
    /\ launched' = launched \ {b}
    /\ IF shown = b
       THEN AbortSequence(b)
       ELSE UNCHANGED <<abort, abortFor, mountVars>>
    /\ UNCHANGED <<rows, pause, manual, confirmed, shown, pc, locals, link, clock, events,
                   answered, crossed, interrupted, gateVars>>

FramesIn(b, steps) == {i \in Steps : Kinds[b][i] \in ExposeKind /\ steps[i] = "done"}
Frames(b) == FramesIn(b, stepState[b])

(* POST /plans/{id}/run?resume=true for a plan whose block is incomplete:   *)
(* the block's row is read,                                                 *)
ResumePlan(h, b) ==
    /\ Event("resume_plan")
    /\ call[h] = NoCall
    /\ blockState[b] \in Incomplete
    /\ call' = [call EXCEPT ![h] =
                   [Then("check", b) EXCEPT !.was = blockState[b], !.n = nDone[b]]]
    /\ UNCHANGED <<rows, abortFor, crossed>> /\ UnchangedBesidesCall

(* then its steps (with all of them DONE the plan is run afresh instead),   *)
ResumeSteps(h) ==
    LET b == call[h].block IN
    /\ call[h].do = "check"
    /\ call' = [call EXCEPT ![h] =
                   IF \E i \in Steps : stepState[b][i] # "done"
                   THEN [@ EXCEPT !.do = "resume", !.steps = stepState[b]]
                   ELSE NoCall]
    /\ UNCHANGED <<rows, events, abortFor, crossed>> /\ UnchangedBesidesCall

(* Mutant: resuming reopens every step. *)
ResumeCommitAnew(h) ==
    LET b == call[h].block IN
    /\ call[h].do = "resume"
    /\ call' = [call EXCEPT ![h] = Then("launch", b)]
    /\ blockState' = [blockState EXCEPT ![b] = Flushed(@, call[h].was, "queued")]
    /\ stepState' = [stepState EXCEPT ![b] = [i \in Steps |-> "pending"]]
    /\ nDone' = [nDone EXCEPT ![b] = 0]
    /\ crossed' = IF HasRead(b) \/ blockState'[b] = "done" THEN crossed \cup {b} ELSE crossed
    /\ UNCHANGED <<reqState, archive, events, abortFor>> /\ UnchangedBesidesCall

(* then it is queued again, the steps that were read as FAILED are opened,  *)
(* and n_done is what was counted.                                          *)
ResumeCommit(h) ==
    LET b == call[h].block  read == call[h] IN
    /\ read.do = "resume"
    /\ call' = [call EXCEPT ![h] = Then("launch", b)]
    /\ blockState' = [blockState EXCEPT ![b] = Flushed(@, read.was, "queued")]
    /\ stepState' = [stepState EXCEPT ![b] =
                        [i \in Steps |-> IF read.steps[i] = "failed" THEN "pending" ELSE @[i]]]
    /\ nDone' = [nDone EXCEPT ![b] =
                    Flushed(@, read.n, Cardinality(FramesIn(b, read.steps)))]
    /\ crossed' = IF HasRead(b) \/ blockState'[b] = "done" THEN crossed \cup {b} ELSE crossed
    /\ UNCHANGED <<reqState, archive, events, abortFor>> /\ UnchangedBesidesCall

(* and it is launched. *)
LaunchResumed(h) ==
    /\ call[h].do = "launch"
    /\ call' = [call EXCEPT ![h] = NoCall]
    /\ launched' = launched \cup {call[h].block}
    /\ UNCHANGED <<rows, abort, pause, manual, confirmed, shown, pc, locals, link, clock,
                   events, history, mountVars, gateVars>>

(* The database raises: the request is answered with an error. *)
CallFails(h) ==
    /\ Event("error")
    /\ call[h].do \in {"remove", "check", "resume"}
    /\ call' = [call EXCEPT ![h] = NoCall]
    /\ UNCHANGED <<rows, abortFor, crossed>> /\ UnchangedBesidesCall

CallStep(h) ==
    \/ CancelCommit(h) \/ CancelExecution(h)
    \/ ResumeSteps(h) \/ ResumeCommit(h) \/ LaunchResumed(h)

OperatorAction ==
    \/ \E b \in Blocks : Launch(b)
    \/ \E h \in Handlers, b \in Blocks : CancelBlock(h, b)
    \/ \E h \in Handlers, b \in PlanBlocks : ResumePlan(h, b)
    \/ Pause \/ Resume \/ Confirm \/ Abort \/ ManualMove
    \/ \E on \in BOOLEAN : SetManual(on)

-----------------------------------------------------------------------------
(***************************************************************************)
(* The safety monitor.  Getting worse counts against the bound; getting    *)
(* better, and finishing a protective action, does not.                    *)
(***************************************************************************)
SequencerVars == <<rows, flags, pc, locals, link, clock, call, history>>

SafetyTrips(level) ==
    /\ Event("weather")
    /\ Trip(level)
    /\ AbortSequence(InHand)
    /\ UNCHANGED <<rows, launched, pause, manual, confirmed, shown, pc, locals, link, clock,
                   call, answered, crossed, interrupted>>

SafetyShifts(level) ==
    /\ IF Severity[level] > Severity[safety] THEN Event("weather") ELSE UNCHANGED events
    /\ Shift(level)
    /\ UNCHANGED <<SequencerVars, mountVars>>

SafetyParks ==
    /\ ParkOrdered
    /\ IF link THEN Park ELSE UNCHANGED mountVars
    /\ UNCHANGED <<SequencerVars, events>>

SafetySettles == Settle /\ UNCHANGED <<SequencerVars, events, mountVars>>

SafetyOverride(on) ==
    /\ Event("override")
    /\ SetOverride(on)
    /\ UNCHANGED <<SequencerVars, mountVars>>

SafetyAction ==
    \/ \E level \in Level : SafetyTrips(level) \/ SafetyShifts(level)
    \/ SafetyParks \/ SafetySettles
    \/ \E on \in BOOLEAN : SafetyOverride(on)

-----------------------------------------------------------------------------
(***************************************************************************)
(* The rest of the world: the mount, the INDI link, time, and failures.    *)
(***************************************************************************)
MountMoves ==
    /\ Arrive \/ ParkComplete
    /\ UNCHANGED <<SequencerVars, events, gateVars>>

LinkUp ==
    /\ ~link
    /\ link' = TRUE
    /\ UNCHANGED <<rows, flags, pc, locals, clock, call, events, history, mountVars,
                   gateVars>>

LinkDown ==
    /\ Event("link")
    /\ link
    /\ link' = FALSE
    /\ UNCHANGED <<rows, flags, pc, locals, clock, call, history, mountVars, gateVars>>

(* A start time arrives; a window opens, and later closes. *)
ClockMoves(b) ==
    /\ \/ clock[b] = "before" /\ Dispatch[b] # "attended"
          /\ clock' = [clock EXCEPT ![b] = "in"]
       \/ clock[b] = "in" /\ Dispatch[b] = "auto"
          /\ clock' = [clock EXCEPT ![b] = "after"]
    /\ UNCHANGED <<rows, flags, pc, locals, link, call, events, history, mountVars,
                   gateVars>>

BreakOff ==
    interrupted' = interrupted \cup {b \in Blocks : Running(b)}

(* The database raises where _run_block does not catch it, or again where   *)
(* the except branch writes FAILED: run() logs it, sleeps and polls again,  *)
(* and the rows and flags stay as they are.                                 *)
LoopError ==
    /\ Event("error")
    /\ pc \in {"scan", "window", "load", "commit", "finish"} \cup (AtStep \ {"prompt"})
    /\ pc' = "poll"
    /\ BreakOff
    /\ ForgetLocals
    /\ UNCHANGED <<rows, flags, link, clock, call, abortFor, answered, crossed,
                   mountVars, gateVars>>

(* The process dies and is started again: only the rows and the mount stay. *)
Crash ==
    /\ Event("crash")
    /\ pc' = "poll"
    /\ ForgetLocals
    /\ launched' = {} /\ shown' = NoBlock
    /\ abort' = FALSE /\ pause' = FALSE /\ manual' = FALSE /\ confirmed' = FALSE
    /\ link' = FALSE /\ call' = [h \in Handlers |-> NoCall]
    /\ safety' = "unsafe" /\ override' = FALSE /\ phase' = "watch" /\ pending' = "unsafe"
    /\ abortFor' = NoBlock /\ answered' = FALSE
    /\ BreakOff
    /\ UNCHANGED <<rows, clock, crossed, mountVars>>

WorldAction ==
    \/ MountMoves \/ LinkUp \/ LinkDown \/ LoopError \/ Crash
    \/ \E b \in Blocks : ClockMoves(b)

HandlerAction == \E h \in Handlers : CallStep(h) \/ CallFails(h)

Next ==
    SequencerStep \/ CenterMoves \/ HandlerAction \/ OperatorAction \/ SafetyAction \/ WorldAction

Spec == Init /\ [][Next]_vars

(***************************************************************************)
(* Every coroutine is scheduled again, every awaited reply or time-out     *)
(* comes, and DeviceManager keeps reconnecting.  Nothing is assumed of     *)
(* the operator, of the weather, or of how often centring moves the mount. *)
(***************************************************************************)
Fairness ==
    /\ WF_vars(SequencerStep)
    /\ \A h \in Handlers : WF_vars(CallStep(h))
    /\ WF_vars(SafetyParks \/ SafetySettles)
    /\ WF_vars(MountMoves)
    /\ WF_vars(LinkUp)

FairSpec == Spec /\ Fairness

-----------------------------------------------------------------------------
(***************************************************************************)
(* Safety.                                                                 *)
(***************************************************************************)

(* The queue the operator sees is true: a row says RUNNING exactly while    *)
(* _run_block is between its opening and closing transactions for it,       *)
(* unless an error or a crash broke the run off, or a removal or a resume   *)
(* that had read the row before it was taken wrote it after.                *)
RowsFollowSequencer ==
    \A b \in Blocks \ (crossed \cup interrupted) :
        (blockState[b] = "running") <=> Running(b)

(* A block closed as DONE has no step left open, and its n_done is the      *)
(* number of its exposures that are DONE, over however many runs, pauses,   *)
(* crashes and resumes it took, unless a resume wrote over a run of it.     *)
DoneMeansSettled ==
    \A b \in Blocks \ crossed : blockState[b] = "done" =>
        /\ \A i \in Steps : stepState[b][i] \in Final
        /\ nDone[b] = Cardinality(Frames(b))

(* An exposure is DONE only once its frame is in the archive, so a run that *)
(* is broken off anywhere and resumed later skips no frame it never filed.  *)
DoneFramesArchived ==
    \A b \in Blocks : \A i \in Frames(b) :
        \E f \in archive : f.block = b /\ f.step = i

(* An abort reaches the block it was asked for and never a later one: a     *)
(* raised flag seen by a running block was raised during that run, and one  *)
(* raised during it stands until the run is over.                           *)
AbortHitsItsBlock ==
    pc \in Executing => (abort <=> abortFor = cur)

(* A run never goes back: whatever happens beside it, it leaves an await    *)
(* for a later one of the same step, or for a later step, or ends.  The     *)
(* steps being finitely many, it cannot go round in a circle.               *)
RunGoesOn ==
    [][<<pc, idx>>' # <<pc, idx>> /\ pc \in Executing =>
            \/ pc' \in {"wrapup", "poll"}
            \/ pc' \in Executing /\ (idx' > idx \/ (idx' = idx /\ Stage[pc'] > Stage[pc]))]_vars

(* Its rows change as the services beside the sequencer rely on: RUNNING is *)
(* written only over a block that was found queued and is not finished, and *)
(* the end of a run never over another end, except one by removal.          *)
RowsAsAgreed == L!LifeSpec

(* A finished step is never reopened, and no frame is exposed again for it: *)
(* re-running, resuming or restarting skips what is already there.  Only a  *)
(* resume that had read the step as FAILED, and is overtaken by another     *)
(* that runs it, reopens it.                                                *)
NeverRetaken ==
    [][\A b \in Blocks, i \in Steps : stepState[b][i] = "done" =>
            /\ \/ stepState'[b][i] = "done"
               \/ \E h \in Handlers : ResumeCommit(h) /\ call[h].block = b
                                                     /\ call[h].steps[i] = "failed"
            /\ ~(cur = b /\ idx = i /\ pc = "act" /\ pc' = "exposing")]_vars

(* A prompt step is recorded DONE only if the operator confirmed after that *)
(* prompt was shown; a confirmation left over from before does not count.   *)
PromptAnswered ==
    [][\A b \in Blocks, i \in Steps :
            Kinds[b][i] = "prompt" /\ stepState[b][i] # "done" /\ stepState'[b][i] = "done"
                => answered]_vars

(***************************************************************************)
(* Liveness.                                                               *)
(***************************************************************************)

(* What may hold the sequence up for as long as the operator, the weather   *)
(* or the INDI server likes.                                                *)
Held == pause \/ manual \/ ~link \/ ~OkToDispatch("attended") \/ pc = "prompt"

(* An abort that reached a running block ends that run, whatever it was     *)
(* waiting for: a hold, a prompt, a slew, an exposure.                      *)
AbortEndsRun == (pc \in Executing /\ abort) ~> pc = "poll"

(* A launched block does not stay in the queue unless something holds it.   *)
LaunchedStarts ==
    \A b \in Blocks :
        (blockState[b] = "queued" /\ b \in launched) ~>
            (blockState[b] # "queued" \/ b \notin launched \/ Held)

(* A row does not say RUNNING for ever unless the sequence is held up or    *)
(* the run was broken off.                                                  *)
RunningEnds ==
    \A b \in Blocks :
        blockState[b] = "running" ~>
            (blockState[b] # "running" \/ Held \/ b \in interrupted)

(***************************************************************************)
(* What the documentation says and the code does not do.                   *)
(***************************************************************************)

(* RUNBOOK section 11: "On UNSAFE/FAULT the monitor aborts the running      *)
(* sequence and parks the mount."  Once UNSAFE or FAULT is published, a     *)
(* block that is executing has been told to abort.                          *)
UnsafeHalts ==
    safety \in Stop /\ ~override /\ pc \in Executing => abort

(* COOKBOOK 7.6: "Remove / Abort (drops it)".  A candidate's block that was *)
(* cancelled while queued is not executed.                                  *)
DroppedNeverRuns ==
    \A b \in Blocks \ PlanBlocks :
        reqState[b] = "cancelled" => blockState[b] # "running"

(* plans.py: a resumed plan "continues where it stopped".  A light frame is *)
(* taken with the telescope tracking its block's target.                    *)
FramesOnTarget ==
    \A f \in archive : Kinds[f.block][f.step] = "light" => f.at = f.block

(* COOKBOOK 7.7: on flats "the sequence pauses and prompts".  A flat frame  *)
(* is taken only after every prompt before it was confirmed.                *)
FlatsAreConfirmed ==
    \A f \in archive : Kinds[f.block][f.step] = "flat" =>
        \A i \in 1 .. (f.step - 1) :
            Kinds[f.block][i] = "prompt" => stepState[f.block][i] = "done"

=============================================================================
