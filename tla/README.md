# CRITO, specified

CRITO runs a small observatory: it follows transient alerts, lets people
approve targets, queues them, and drives mount, camera, focuser and filter
wheel through an INDI server while a safety monitor watches the weather.  This
directory holds TLA+ modules of its concurrent core, TLC configurations that
model-check them, and proofs checked by TLAPS.

The backend is one asyncio process.  Coroutines interleave only at `await`, so
in the modules *a step is what one coroutine does between two awaits*, and
everything read before an await and used after it may be out of date.  A
database session adds to that: its commit writes the columns that differ from
what it has loaded, so a handler whose row has changed meanwhile may overwrite
the change, or not write what it meant to (`Session`).

## 1. Inventory

| Component | State it keeps | Operations | Hard behaviour | What makes it correct |
|---|---|---|---|---|
| Execution sequencer `transient/executor.py` | block, step, request rows (database); `_launched`, `_abort_block`, `_pause`, `manual_override`, `_confirmed`, `progress` (memory) | poll the queue, run a block step by step; launch, pause, resume, confirm, cancel, abort | flags set by HTTP handlers and the safety monitor at any await; snapshot of the plan; errors; crashes that leave rows behind | rows tell what is going on; finished work is never redone, unfinished work never counted; an abort ends the run it is meant for and no other; nothing gets stuck |
| Safety monitor `agent/safety.py` | `state`, `override`, `estop`, `_ok_since`, latest reading | evaluate every second, hysteresis, protective action; push readings, e-stop, clear, override | the state is published only after the awaits of the protective action; readings age; action on the edge only | stops are immediate, SAFE is earned, an e-stop ends in FAULT |
| Mount adapter `dal/indi_adapter.py` | the INDI property cache (driver outside) | slew (unparks), abort, park, track | several issuers, last command wins | frames are taken on target |
| Queue and requests `transient/requests.py` | requests, blocks, steps | build, list, reorder, cancel | `max(seq)+1` read in one await and written in another; cancel races with the sequencer | a removed block does not run; first come, first served |
| Plans `transient/plans.py`, scheduler in `core/app.py` | plans, `last_block_id`, `scheduled_utc` | save, run, resume, schedule, delete | resume while running; crash between run, launch and clear | resume continues where it stopped; a schedule is served, once |
| Candidates, approvals `transient/candidates.py`, `approvals.py` | candidate state, audit | ingest, notify, approve, reject, reset | three transactions per approval; Slack, e-mail and console race; polls overlap | a decision stands and is the one audited; one block waiting per candidate |
| Alert feed `transient/alerce.py`, `poller.py` | the last error, shared | a pass: all classes at a time, pages, merge, fallback | partial failures, overlapping passes | nothing is lost or demoted; silence is not taken for an empty sky |
| Visibility `transient/visibility.py`, night cache in `core/app.py` | `_NIGHT_CACHE` | compute the night, a target's windows | cache filled after an await, across the change of night | an answer is about the night it was asked in |
| Device manager, INDI client `agent/device_manager.py`, `dal/indi/protocol.py` | connection, bindings, adapters, property cache | reconnect loop, bind, unbind, set_server | reconnect against bind; adapters vanish under their users | the link comes back; adapters belong to it |
| Capture and archive `indi_adapter.py`, `device_manager.py`, `core/archive.py` | one pending future per camera; file and row | capture, ingest | late images, concurrent captures, the wheel, two stores | a frame is the exposure it is filed as, through its filter |
| Precision operations `agent/precision.py` | lock, progress | centre, autofocus | mount and focuser are moved beside the lock | what is reported is true of the devices |
| Autoguiding client `agent/phd2.py` | state, samples | events, commands, reconnect | PHD2 acts by itself; the link takes lines with it | the state shown is PHD2's |

Authentication, the exposure planner, plate solving and FITS files, detector
characterisation, configuration and the web console are listed in
`PROJECT.json` with the reason they are not modelled.

**Interactions.**  The sequencer asks `safety.ok_to_dispatch` before it takes a
block; the monitor calls `executor.abort` and then parks the mount; operator
requests set the sequencer's flags, drive the mount (after `note_manual`) and
edit the rows; decisions and plans insert rows beside each other and beside the
sequencer; plans launch what they insert; captures, precision operations and
the sequencer use adapters that the device manager takes away when the link
drops; all of them write to the same devices.

## 2. Modules

| Module | Models | Built on |
|---|---|---|
| `Mount` | commands of `IndiMount` and the driver's progress (external) | |
| `SafetyGate` | what others rely on of the monitor: a level, and protective action (abort, park, mail) as separate steps before the level is published | |
| `Sequencer` | `executor.py` composed with operator, queue cancel, plan resume, safety gate, mount, link, crashes | `Mount`, `SafetyGate`, `Session`; `L == INSTANCE BlockLife` |
| `BlockLife` | what sequencer and services rely on of each other for a block row: who may take, close and order blocks, over which states | |
| `Safety` | `safety.py` in full: sources, ages, evaluation, hysteresis, transitions; `Gate == INSTANCE SafetyGate` | |
| `Session` | what a commit writes: a column, only if its new value is not the one that was loaded (external: SQLAlchemy) | |
| `Queue` | the block rows as the services see them: building, positions, reordering | `Session`; `L == INSTANCE BlockLife` |
| `Candidates` | ingest, notification, approve, reject, reset, removal | `Queue` |
| `Plans` | save, delete, run, resume, the plan scheduler | `Queue` |
| `Console` | the composition of the two over one queue, with crashes; its properties | `Candidates`, `Plans` |
| `Recipes` | what plans and requests expand to | |
| `Night` | the night, a target's windows in it, and the cache of the night | |
| `Feed` | passes over the alert broker's classes | |
| `Link` | the promise of the device manager: connected or not, which roles have an adapter | |
| `DeviceLink` | reconnect loop, binds, repointing, the INDI client; `L == INSTANCE Link` | |
| `Camera` | captures, filter wheel, images, archive | `Link` |
| `Precision` | centring and autofocus behind their lock | |
| `Guiding` | the PHD2 client, with PHD2 (external) | |
| `MCSequencer`, `MCSafety`, `MCLoops`, `MCConsole`, `MCDevices` | small instances | |
| `*_proofs` (8) | theorems | TLAPS |

Three abstract specifications stand between components: the sequencer is composed
with `SafetyGate`, which `Safety` implements; captures are built on `Link`,
which `DeviceLink` implements; and `BlockLife` is the contract on
`execution_block.state`, which two components write.  `Sequencer` and `Console`
each contain the other's writes as `BlockLife` has them, and each is shown to
implement it with its own.  All refinements are proved, and all but `Console`'s
are also checked by runs.

### Sequencer

`pc` is the await at which `run` / `_run_block` is suspended:

    poll -> scan -> [window ->] load -> commit -> start -> gate
    gate -> mark -> act -> (slewing | prompt | exposing -> ingest -> record)* -> gate
    gate -> finish -> wrapup -> poll

* `PollHeld`, `Poll`, `Scan`, `CheckWindow`, `NothingRunnable` are
  `_next_runnable`.  The list of queued blocks is read once (`todo`); the scan
  then goes by current flags up to a block to run or to the next await, which
  is the fetch of an automatic block's request (`window`).
* `Load`, `CommitRunning`, `Start` are the opening transaction and what follows
  it: RUNNING is written whatever the row says by then, and `_abort_block` is
  cleared.  `plan` is the snapshot of step states the loop works on.
* `SkipSettled`, `GateAborts`, `GatePasses`, `MarkRunning` are the head of the
  loop.  `Record` and `Raise` are the two ways a step ends (`_set_step` and the
  except branch); a failed slew ends the block.
* The kinds of step are separate actions (`SendSlew`, `SlewEnds`, `SlewFails`,
  `SendDither`, `CenterMoves`, `PrecisionEnds`, `OpenPrompt`, `ClosePrompt`,
  `Expose` ... `FrameDone`, `UnknownKind`).
* `Finish` and `WrapUp` are the closing transaction and the flags after it.
  They are apart, because a handler may run between them.
* `call` holds the removals and resumes that are being served, each with what it
  has read; how many overlap is bounded by `Handlers`.  `DELETE /queue/{id}` is
  `CancelBlock` (the row is read), `CancelCommit` (ABORTED is written if the row
  was read as queued) and `CancelExecution` (`executor.cancel`).  Running a plan
  with `resume=true` is `ResumePlan` (the row is read), `ResumeSteps` (its steps
  are), `ResumeCommit` (the row is queued, what was read as FAILED is opened) and
  `LaunchResumed`.  `CallFails` is a database error in any of them.
* A removal that has read the row as queued writes ABORTED over whatever it is by
  its commit.  If `CommitRunning` came between, the block is being run under a row
  that says ABORTED until `CancelExecution`, or the end of the run, puts that
  right; a resume can likewise queue a row that is being run, and reopen a step by
  what it was.  `crossed` marks such blocks until they are next loaded.
* `LoopError` is an exception that `_run_block` does not catch; `Crash` loses
  everything but the rows and the physical mount.

Rows are functions over `Blocks` and `Steps`; a block's number is its queue
position; targets are identified with blocks.  Times are abstracted to
before / in / after the block's window.  `abortFor`, `answered`, `crossed` and
`interrupted` are history variables: they record for whom an abort was meant,
whether a confirmation came after the prompt was shown, which blocks a removal or
a resume wrote over a run that had begun, and which runs were broken off.

`Finish`, `Record` and `MarkRunning` read a row and commit it in one step,
although the code awaits both.  Nobody else writes the columns they read, so they
take effect at their commit, but for a block that is crossed anyway: there a
column may stay as another wrote it.  A slew without coordinates is recorded
SKIPPED and moves nothing (`executor.py:241-243`): it is a step of kind "other".

`SlewTo` stands for the moment the coordinates are sent.  The adapter awaits
the unparking before it; a command that arrives during that wait takes effect
before the coordinates, as it would have just before the call.

### Safety

Readings are classes (`none`, `ok`, `caution`, `unsafe`: what `_evaluate` makes
of the numbers), ages are ticks of the loop's one-second sleep and stop counting
where no comparison can tell the difference.  `pc` runs
`evaluate -> sleep` or `evaluate -> abort -> notify -> sleep`.  Time also passes
during `abort` and `notify` (`Tick`), and inputs change at any point.
`seen`, `sinceStop`, `heard` and `stopped` are history variables.

`SafetyGate` is the abstraction: the level may change to any other level, but
entering UNSAFE or FAULT without override goes through `Trip`, `ParkOrdered`
and `Settle`, and the level is published by the last.  `Safety` implements it
(`ImplementsGate`, checked and proved) with `phase` read off `pc`; the
sequencer is composed with the abstract gate only, so what holds there holds
for every weather.

### Queue, Candidates, Plans, Console

`task` holds every handler in flight with what it has read: a database session
reads in one await and commits in a later one, so a read and the commit that
follows it are two steps, and whatever happens between them happens to stale
data.  The scheduler is one more task.  A channel (console, Slack, e-mail link)
is a task too, since all call the same `approve` and `reject`.

* `Approve -> Decide -> ReadSeq -> InsertRequest -> StoreRequest` are the three
  transactions of `approve`; `BuildFails` and `Crash` leave it between them.
* `Poll -> Ingest | IngestFails -> (Notify -> Announce -> MarkNotified)*` is a
  pass of the poller; two may overlap.
* `Reset`/`ResetCommit` and `Cancel`/`CancelCommit` reopen a candidate,
  `Reject`/`RejectCommit` rejects one.  Each commit writes by `Session`: a reset
  that has read NEW writes no state, one that has read no request leaves the
  request.  Their audit row is written in any case.
* What comes after an autoflush belongs to the commit, the session holding the
  write lock from there on: the candidate that `cancel_block` reads
  (`requests.py:175`) comes after the flush of the block's row by the query
  before it, and so do the blocks that `reset` looks for.
* `RunPlan` or the scheduler's `Wake -> Fire`, then `ReadSeq -> InsertRun`, then
  `Clear` or `ClearFails` for the scheduler; `ResumePlan -> ResumeCommit` for the last block.
* `Dispatch` and `Finish` are the sequencer as these services see it: `Take` and
  `Close` of `BlockLife`.  A resume that finds its block still queued writes
  nothing (an unchanged column is not flushed), so `Resumable` leaves it out.

`lost`, `stale`, `tangled`, `announced`, `fired`, `spoiled`, `reordered` are
history variables.  `stale` marks a candidate whose latest audit row is of a
handler that had nothing to change and was wrong about it by its commit.  `tangled` marks a candidate that two handlers held at once: the code
has no guard there, and what then becomes of the decision is not claimed.

### Recipes, Night, Feed

`Recipes` states `_expand` and `_expand_steps` over all recipes within bounds; a
loop of the code is a function of the number of its turns that are over, with the
work so far (steps, frames counted, prompted or not) as its value.
`Night` computes the night over a discrete grid: the sun's and the target's
altitudes are small numbers at each point, chosen freely, thresholds are
`Twilights`, `AltMin`, `BestMin`.  Requests read the label, compute in a thread
and fill the cache, while the clock passes noon.  `Feed` has passes that ask
all classes at a time; a class's pages are one step, because nothing that is
shared changes between them, and end anywhere by failure or at the last page that
is asked for (`MaxPages`).

### Link, DeviceLink, Camera, Precision, Guiding

* `DeviceLink`: `loop` is `_run` (connecting, restoring, watching, sleeping,
  ended), `hand` the bind the loop or the console is in the middle of.  An
  adapter is the number of the client it was made with, and whether `connect()`
  of that client has forgotten its image handler since.
* `Camera`: adapters are numbered objects; one that is replaced stays registered
  with the client, and hears images.  `pending` is the one future each has room
  for.  The driver's exposure says whose it is (`of`), which no code can see:
  `FrameIsOwn` compares it with the capture that got the image.
* `Precision`: the lock is a line of callers.  Mount and focuser move beside it
  (`MountMoved`, `FocuserMoved`); `nudged`, `disturbed` and `misread` remember it.
* `Guiding`: events and commands are lines in a socket, and `SocketLost` takes any
  tail of them with it.  PHD2's other states (looping, calibrating, star selected
  or lost) are left out: the client shows them as `AppState` gives them, and its
  `LoopingExposuresStopped` is treated as `GuidingStopped`.

## 3. Runs

| Run | Question | Bounds |
|---|---|---|
| `seq_safe` | do the rows stay true, is nothing lost or redone, does a run go on, do aborts and confirmations reach what they are for? | 2 blocks of 2 steps (slew + light; prompt + centre), both timed, the first of a resumable plan; 2 disturbing events out of pause, abort, removal, resume, database error and crash; removals and resumes 2 at a time, which are alike (symmetry); about 2.1 million states |
| `seq_live` | does it get stuck? | 2 blocks of 2 steps (dither + unknown kind, dispatched automatically; prompt + unknown kind), 2 events out of launch, manual control, abort, weather, override, link loss, error; about 180 thousand states |
| `loops` | do the monitor and the plan scheduler keep their promises? | stale after 3 ticks, clearing delay 2, all inputs free; 1 plan, 1 handler beside the scheduler, 3 blocks, of which the first is worked through; about 182 thousand states |
| `console` | do queue, decisions, audit and schedules stay consistent, are recipes, nights and feeds right? | 1 candidate or 1 plan, 2 handlers, which are alike (symmetry), the scheduler, 2 blocks, any number of failed builds and crashes; recipes of 2 entries, counts and repeats up to 2; a grid of 3 points, 2 requests, 2 noons; 2 passes over 2 classes, 2 objects and 2 pages, with a record on a third; about 1.8 million states |
| `devices` | is what is reported of the devices true, and does all work end? | 2 devices, one of them a camera, 2 clients (one repoint); 2 captures, 2 cameras, 2 adapters, 2 filters; 2 callers, 2 iterations, a sweep of 3 samples with backlash 1; 2 events under way; about 320 thousand states |

`seq_safe` and `seq_live`: two events are what the known races need: a
disturbance while a block runs, and a second one that meets the traces of the first
(a crash or a resume after an abort) or overlaps it (a removal beside a resume, for
which there are two handlers).  Timed and automatic blocks start without an event,
so that both events are left for what happens to them; launches and bad weather are
among those of `seq_live`, and the proofs of section 4 have all kinds together and
no bound on their number.  Two blocks are needed for an abort that
could hit the wrong one; two steps for a step that is skipped and one that is
not.  Improvements (resume, confirm, better weather, link up) are never counted,
so a bound cannot fake a hold.  `loops`: a stale age of 3 exceeds the clearing
delay, so that a reading can be good for the whole delay, and still runs out.

Symmetry is used with invariants and action properties only, and the handlers it
exchanges are told apart by nothing.  `loops`, `console` and `devices` hold several
components that share no state.  The bounds `loop` (`MCLoops`), `desk` (`MCConsole`)
and `part` (`MCDevices`) let one of them move in a behaviour, which makes the
instance their sum instead of their product.  Two handlers are what every race
needs here: each is between a read and the commit on it.  Two blocks allow a
candidate or a plan to be queued, taken back and queued again.  Candidates and
plans share only the numbering of blocks: in `console` requests come for the one or
for the other, and the proofs of section 4 cover them together, for any number of
each.  In `loops` the scheduler's second run of a plan still has room beside the
handler's, and only blocks it does not look at are left unworked.  On the device
side, two clients are one repoint; two captures on one camera, with its adapter
made anew in between and a second camera beside it, are what can misroute an
image; two callers are what the lock is for; the sweep has a lowest, a middle
and a highest sample, and starts low enough to be asked below zero.

What the passing runs show:

* `RowsFollowSequencer`: RUNNING means being run, and being run means RUNNING, but
  for the crossed rows described above and for runs that were broken off.
* `DoneMeansSettled`: a DONE block has no open step, and `n_done` counts its
  finished frames over all its runs.
* `DoneFramesArchived`, `NeverRetaken`: a step is DONE only with its frame on
  file, and finished steps are neither reopened nor exposed again.
* `AbortHitsItsBlock`: a flag seen by a running block was raised for it, in this
  run, and one raised for it stands until the run is over.  The abort of a removal
  is meant for the block that was removed, whatever is being run.
* `RunGoesOn`: a run never returns to an await it has left.
* `RowsAsAgreed`: the sequencer writes block states only as the services rely on.
  `Console` has the same property for the services, which is proved only.
* `PromptAnswered`: only a confirmation that came after the prompt counts.
* `AbortEndsRun`, `LaunchedStarts`, `RunningEnds`: progress.
* `NeverBetterThanSeen`, `SafeIsEarned`, `EStopLatches`, `SafeComesBack`,
  `ImplementsGate`: the monitor.
* `ApprovedHasRequest`, `AuditAgrees`, `DecisionsStand`, `OneWaiting`,
  `AnnouncedOnce`: decisions and what becomes of them.  The first two except a
  candidate whose last handler was `stale`, which section 5 describes.
* `FirstComeFirst`: nobody overtakes a block that was in the queue before.
* `ScheduleServed`, `DuePlansRun`: the scheduler neither forgets nor repeats.
* `RecipesExpand`, `AnswersHold`, `FeedIsBest`: the algorithms, against what
  they promise.
* `AdaptersAreLive`, `ImplementsLink`, `LinkComesBack`: the device manager.
* `FrameIsOwn`, `FramesAsFiled`: a frame is what it is filed as, and is there,
  where the code can know: not for exposures of one camera that overlap (`mixed`),
  nor for a wheel that is late or told otherwise (`shifted`).  The slot compared is
  the one asked for; the row names the one the wheel reports as the exposure
  begins, which differs only where the wait has run out.
* `ResultsHold`, `SweepReadsTrue`: precision operations report the truth.  `GuidingShown`: so does the guiding panel.
* `WorkEnds`: captures and precision operations end, whatever never comes.

**Disagreements between code and documentation** (violation runs; each checks
one property that states the quoted sentence, and `PROJECT.json` gives the
quotation):

| Run | Trace, in short |
|---|---|
| `v_unsafe_halts` | the monitor aborts and parks, still awaiting; the sequencer dispatches by the old SAFE and clears the abort flag; UNSAFE is published; the block runs on |
| `v_dropped_runs` | the scan picks a block; the operator removes it; RUNNING is committed over ABORTED |
| `v_resume_target` | abort during the slew; the slew is recorded DONE; resume; the frame is taken wherever the mount stopped |
| `v_resume_flats` | abort during the prompt; it is recorded SKIPPED; resume; the flat is taken with no prompt |
| `v_estop` | e-stop while UNSAFE: FAULT without abort or park |
| `v_station` | the weather station falls silent; its cached values are stamped with the present time for ever |
| `v_repoint` | `set_server` while the link is up cancels the read task; the loop takes that for its own cancellation and ends; nobody connects the new client |

**Fairness.**  Weak fairness of the sequencer's own steps: asyncio schedules
every ready coroutine, database calls return or raise, and the waits for slews
and exposures have time-outs.  Weak fairness of the steps of a removal and of a
resume once they are asked for, of the protective action (its awaits are sends, and a mail with a socket time-out),
of the mount's progress, and of the link coming up (`DeviceManager._run`
retries every few seconds).  `CenterMoves` is not fair and is bounded by nothing;
`PrecisionEnds` is, `run_center` being a bounded loop.  Nothing is assumed of the
operator, of the weather, or of the link staying up; a pause, manual control, an
open prompt, a missing link or an unsafe level is allowed to hold the sequence up
as long as it lasts (`Held`).  In `Safety` the loop, its awaits and the passage of
time are fair, the inputs are not.  In `Console` each handler's next step and the
scheduler's are weakly fair, as awaits on the database return; requests and
crashes are not, and `DuePlansRun` leaves out behaviours that crash for ever.
In `DeviceLink` the loop's steps are weakly fair, and a successful connect is
strongly fair: the loop tries it over and over, and the property is about a
server that can be reached.  Captures (`ShotStep`) and precision
operations (`OpStep`) are weakly fair: every wait of theirs has a time-out.
Images, the wheel, the mount and the focuser are not fair at all.

## 4. Proofs

Assumptions are those of the modules, named in each (`SequencerConstants`,
`NowhereIsNoTarget`, `SafetyEnabledIsFlag`, `SafetyConstants`, `QueueConstants`,
`DeviceConstants`, `CameraConstants`, `PrecisionConstants`, `GuidingConstants`,
`NightConstants`, `RecipeConstants`, `FeedConstants`): kinds, modes and roles come from their enumerations, blocks
and captures are numbers, bounds and delays are naturals.  Nothing bounds the
number of blocks, steps, handlers, candidates, plans, devices, captures, callers,
samples, grid points or events.

`Sequencer_proofs`
* Writer lemmas say which actions touch a group of variables; the other
  actions leave it unchanged.  They keep each step proof to the actions that matter.
* `Typing`: `Spec => []TypeOK`, one lemma per group of `TypeOK`.
  It carries the fact that a current block exists exactly while one is worked
  on, which the others need.
* `AbortsAreMeant`: `AbortHitsItsBlock` is inductive relative to `TypeOK`.
  The reset at `Start` establishes it, the raisers set flag and history in one
  step and name the block progress shows, and a running block changes only
  through `WrapUp` (flag cleared), `LoopError` and `Crash` (no longer executing).
* `RunsGoOn`: an action property relative to `TypeOK`; `Stages` orders the
  awaits of one step.  It is the part of the liveness properties that can be proved:
  the pair of step and stage is the variant that makes a run end, given that
  each await returns.
* `RowsAgreed`: `BlockLife` is implemented.  `RowsOpen` is what makes it so: between
  the query for queued blocks and the write of RUNNING, the blocks on the list are
  queued or have been removed, and the row of a run is running, re-queued or removed.
* `RowsAreTrue`: `RowsFollowSequencer` is inductive relative to `TypeOK` and
  `RemovalsRead` (who is about to write ABORTED has read the row as queued): the
  two transactions move the row and `pc` together; a removal or a resume that
  commits over a run marks it `crossed`, and one that does not finds the row not
  running; a break-off moves the block out of the claim, the next run back into it.
* `WaitsFitSteps`: `Spec => []AwaitsItsKind`, the kind of the step at hand fits
  the await `pc` stands in.  The three results below rest on it and on
  `StepWriters`, which says that only the step `_run_block` is at becomes DONE,
  and in which way for each kind.
* `DoneIsFiled`: `DoneFramesArchived` is not inductive alone, since `FrameDone`
  writes DONE one await after `Ingest` filed the frame; `FrameFiled` (at
  "record" the frame of the step is on file) makes it so.  The archive only grows.
* `PromptsAreAnswered`: `PromptHeard` (at an open prompt, a raised flag means
  that this prompt was answered) is inductive because `_await_confirm` clears
  the flag as it opens.
* `NothingRetaken`: `SnapshotStaysTrue` carries the argument.  `_run_block`
  skips by the snapshot it loaded, not by the rows, and a resume or a cancel may
  edit the rows meanwhile, by what they were.  `SnapshotTrue` says that a step still ahead that is DONE
  in the rows is DONE in the snapshot, and that the step at hand is open there;
  `DoneKept` then gives that no write of a row and no exposure meets a DONE step.
* `DoneIsSettled`: the verdict is formed from what the run has counted, not from
  the rows, so the invariant follows the run: `SnapshotExact` (finished steps
  that are still ahead are so in snapshot and rows), `SaysRunning` (the run has its
  block's row to itself), `Walked` (what is behind the present step is final, and
  its frames are counted) and `WholeWalk` (a run that reaches its verdict unaborted has walked all steps).

`Safety_proofs`
* `IInv` strengthens `NeverBetterThanSeen` with what links the hysteresis
  clock to the history (`okFor`, when running, never exceeds `sinceStop`) and with what `_on_transition` was
  called with while its awaits run; `Invariance` proves it.
* `WellTyped` needs no more than the flags, the readings and what was stopped.
* `NoRosierThanSeen`, `SafetyIsEarned`, `GateImplemented` follow from it.

`Console_proofs` (over `Console`, candidates and plans together)
* `WellTyped`, `RequestsAreOwn`: `TInv` adds to the types what a handler carries
  at each of its awaits (`Carried`) and whose blocks the ids on candidates and plans
  are (`RequestIsOwn`, `LastIsOwn`).  All others build on it.
* `RowsAgreed`: `BlockSteps` lists the steps that write a row; each is one of
  `BlockLife`, since the block a handler carries exists (`Carried`).
* `AuditAgreesAlways`: the trail and the decision change in the same commits;
  where a commit leaves the decision alone (`Left`: what a rejection or a reset
  makes of its candidate, column by column), it was what the handler wanted, or
  the handler was stale.  `ApprovedHasRequestAlways`: likewise; a request goes with
  the decision, or by a stale reset, and is missing while the build is under way.
* `AnnouncedOnceAlways`: `AInv`; only the pass that inserted a candidate holds it,
  until it has sent it.  The insertion fails as a whole when another was faster.
* `FirstComeFirstAlways`: `FInv`; what a handler found in the queue stays there, and
  the position it reads is beyond all of it.  Equal positions of two overlapping
  builds do not contradict it, since neither found the other.
* `OneWaitingAlways`, `DecisionsStandAlways`: `OInv`; the one handler that has an
  untangled candidate in hand knows its row as it is, so a block that waits for it
  is the one on record or the one about to be recorded.
* `ScheduleServedAlways`: `SInv`; a plan on the scheduler's list is due and not
  fired, and one that was fired is the one whose schedule is cleared next.

`Devices_proofs` (over `DeviceLink`, `Guiding`, and `MCDevices`, which composes them
with `Camera` and `Precision`)
* `LiveAdapters`: `DInv`; clients repointed away from are not up and those to come
  were never used, there is no adapter and no bind while the link is down, and
  adapters and binds made since a connect are of that client, unless a
  bind from the console was caught by the change.
* `LinkImplemented`: step by step, with `Cleared` the only action that takes
  several adapters away.
* `GuidingIsShown`: `GInv`; on an open link the last event under way was sent in the
  state PHD2 is in now, and each event tells its state or is a resumption.
* `DevicesTyped`: by `PartsAreTheirOwn`, a behaviour of the composition is one of
  each part, so the parts' type theorems carry over.

`Camera_proofs`
* `Typing`, `WellTyped`, `RowsAreFiled` (a capture that is about to commit has its
  file).
* `FramesAreOwn`: `OwnInv`; an adapter, the capture whose future it holds and the
  camera's exposure are of one device, and an exposure that runs for an unmixed
  capture is its own.  A late image of an earlier exposure can only
  reach a capture whose exposure overlapped that one.
* `FiltersAreRight`, and with `RowsAreFiled` `FramesAreFiled`: `WheelFits`; what the wheel was told last is the position of the
  one unshifted capture that minds it, and it is there once the exposure runs.

`Precision_proofs`
* `WorksAlone`: `PInv`; whoever is in an operation holds the lock, the frame being
  solved shows where the mount points, the focuser is where the next sample is
  listed, and the last moves come from below, each unless somebody else has moved
  the device.  The lock makes it inductive: a step of another caller cannot be
  a step of an operation.
* `CenteringHolds`, `SweepsReadTrue`, `FocuserLandsThere` follow, and `ReportsAreTrue`
  from the first and the last.
* `PrecisionTyped`: `PInv` is about places, not counts.  The counts need their own
  bounds, relative to where a caller is: a solve is begun only with an iteration
  left, so that the count reaches `MaxIter` only where the operation ends.

`Night_proofs`
* `AnswersAlwaysHold`: least and greatest elements exist (well-foundedness of the
  naturals), hence the deepest point, the run around it (`RunIs`), the windows
  (`WindowIs`) and the peak (`PeakIs`) are what the property says of them, on any
  grid; `NInv` then says that the cache, once labelled, holds the night of its
  label, whoever filled it.

`Algorithms_proofs` (over `Recipes` and `Feed`)
* The library's induction theorems take an operator parameter, which the provers
  cannot instantiate.  `SetInduction` and `IntervalInduction` are stated over
  the set of numbers for which something holds, which a proof can name; they
  follow from `WFMin` (a non-empty set of naturals has a least member).
  `FiniteRecursion` gives by them that a loop of n turns defines a function,
  and `Unrolled` that a function which follows the loop has its values where
  every turn leaves them.
* `StepsAsAsked`: `Laid(w, total, c)` is the loop invariant.  With the work `w`
  done, exposures are numbered 1 to `w.frame` in their order and say `total`,
  there are `c[t]` of each type, a prompt was appended exactly if
  `w.prompted`, and before all flats, and a dither stands directly after a light
  frame whose number is below the total.  `PromptLaid` and `ShotLaid` are the
  two steps a turn can make, `EntryLaid`, `RecipeLaid` and `RepeatsLaid` the
  loops.  That the total is reached in the end (`TypesShare`: the frames of the types
  add up to it), gives the rest: a dither has a frame after it, which the
  code only infers from the count.
* `FeedKeepsBest`: `MergedIsBest` is the loop over the classes, and `PassOK`
  the invariant of a pass: a class that was asked and gave nothing has left an error
  or lists nothing recent, as long as no other pass has cleared the
  error; the catalogue is asked without classes only when all gave nothing; and a
  result there is holds the best of each object given.

**Model-checked only.**  Liveness (`AbortEndsRun`, `LaunchedStarts`,
`RunningEnds`, `EStopLatches`, `SafeComesBack`, `DuePlansRun`, `LinkComesBack`,
`WorkEnds`): the proof system has no rule for fairness.  Every invariant and
every action property of the runs is proved.

## 5. Not modelled, and why

* Numerical astronomy (altitudes, the moon, almanac tables), photometry and the
  exposure planner: floating point, without state.
* The plate solver (an external process), FITS encoding, detector
  characterisation: formats and array statistics.  What `run_center` sees of the
  solver (no solution, off target, on target) is in `Precision`.
* HTTP, Slack and mail transport, token signatures, authentication: each call is
  one transaction with no other component's state.
* The alert table (overwritten by every pass, read by one list route) and the
  parsing of INDI property vectors.
* Sync, home, site and park-position set-up of the mount: property writes nothing
  else reads.
* The web console: a view over the API.

What drivers, PHD2, the broker and people do is nondeterministic.

**What the code does that no property claims.**  These came up while modelling;
no document says otherwise, but for the reset.

* The approve route reads `block_id` off the candidate, which has none
  (`transient_routes.py:114`): "execute now" queues, and does not launch.
* A reset that has read the candidate as open can take the request of one approved
  meanwhile, or leave it approved although its docstring says "back to NEW"
  (`candidates.py:236-237`) and the trail ends with the reset; a removal that has
  read its block as queued marks a running one ABORTED until the run ends; a resume
  that has read a step as FAILED reopens it even if it was finished since.
* A frame whose step was not recorded before a crash or an error is in the archive,
  and is taken again.
* A reset aborts blocks that wait, not one that runs; removing a running block
  does not reopen its candidate; rejecting leaves the block queued.
* The decision made between `get` and `commit` of a notification
  (`candidates.py:134-138`) can be written over; this is what `tangled` stands for.
* `clear_schedule` clears whatever schedule the row has by then, also one saved
  while the previous one was being fired (`spoiled`).  If it raises, the plan was
  run and stays due, and the next round runs it again.
* EXPIRED and PAUSED are set by nobody.
* A precision operation that raises leaves its progress at "running".
* The finally clause of `IndiCamera.capture` drops the future of whichever capture
  is in its place by then; that one times out.
* Autofocus samples asked for below zero are taken at zero and listed below it.
* Requests of approved candidates have no dither or prompt steps; the frame
  total of `transient_tonight` ignores a plan's repeat (`app.py:661`).
* Visibility windows run from the first to the last point that is high enough
  and may span a dip; `visibility.py:105-106` cannot be reached.
* PHD2's "Resumed" is not handled: Paused is shown until the next guide step.
* Overlapping passes share `last_error`, so one may report nothing fetched and no
  error; this is what `overlapped` stands for.
