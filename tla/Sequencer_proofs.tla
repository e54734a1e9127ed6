-------------------------- MODULE Sequencer_proofs --------------------------
(***************************************************************************)
(* Proofs about Sequencer for every queue, every number of steps and every *)
(* bound on events.                                                        *)
(***************************************************************************)
EXTENDS Sequencer, FiniteSetTheorems, TLAPS

(***************************************************************************)
(* Who may write what: the actions that touch each group of variables.     *)
(* Every other action leaves the group as it is.                           *)
(***************************************************************************)

(* Database rows. *)
LEMMA RowsWriters ==
    ASSUME Next
    PROVE \/ UNCHANGED rows
          \/ CommitRunning \/ MarkRunning \/ SlewEnds \/ SlewFails
          \/ ActWithoutLink \/ DitherNothing \/ PrecisionEnds \/ ClosePrompt
          \/ ExposureFails \/ Ingest \/ FrameDone \/ UnknownKind \/ Finish
          \/ (\E h \in Handlers : CancelCommit(h))
          \/ (\E h \in Handlers : ResumeCommit(h))
BY DEF Next, SequencerStep, StepAction, OperatorAction, SafetyAction, WorldAction,
       PollHeld, Poll, Scan, NothingRunnable, CheckWindow, Load, Start, SkipSettled,
       GateAborts, GatePasses, LastStepDone, SendSlew, SendDither, OpenPrompt, Expose,
       CaptureReturns, WrapUp, CenterMoves, Launch, Pause, Resume, Confirm, Abort,
       ManualMove, SetManual, SafetyTrips, SafetyShifts, SafetyParks, SafetySettles,
       SafetyOverride, MountMoves, LinkUp, LinkDown, LoopError, Crash, ClockMoves,
       UnchangedBesidesFlags, SequencerVars, HandlerAction, CallStep, CancelBlock,
       CancelExecution, ResumePlan, ResumeSteps, LaunchResumed, CallFails,
       UnchangedBesidesCall

(* The flags of the sequencer object. *)
LEMMA FlagsWriters ==
    ASSUME Next
    PROVE \/ UNCHANGED flags
          \/ PollHeld \/ NothingRunnable \/ Start \/ OpenPrompt \/ WrapUp
          \/ (\E h \in Handlers : CancelExecution(h)) \/ (\E b \in Blocks : Launch(b))
          \/ (\E h \in Handlers : LaunchResumed(h)) \/ Pause \/ Resume
          \/ Confirm \/ Abort \/ ManualMove
          \/ (\E on \in BOOLEAN : SetManual(on))
          \/ (\E level \in Level : SafetyTrips(level)) \/ Crash
BY DEF Next, SequencerStep, StepAction, OperatorAction, SafetyAction, WorldAction, Poll,
       Scan, CheckWindow, Load, CommitRunning, SkipSettled, GateAborts, GatePasses,
       LastStepDone, MarkRunning, SendSlew, SendDither, SlewEnds, SlewFails,
       ActWithoutLink, DitherNothing, PrecisionEnds, ClosePrompt, Expose,
       CaptureReturns, ExposureFails, Ingest, FrameDone, UnknownKind, Finish,
       CenterMoves, SafetyShifts, SafetyParks, SafetySettles, SafetyOverride,
       MountMoves, LinkUp, LinkDown, LoopError, ClockMoves, UnchangedBesidesFlags,
       SequencerVars, StepFrame, HandlerAction, CallStep, CancelBlock, CancelCommit,
       ResumePlan, ResumeSteps, ResumeCommit, CallFails, UnchangedBesidesCall

(* Where the coroutine is, and its locals. *)
LEMMA LocalsWriters ==
    ASSUME Next
    PROVE \/ UNCHANGED <<pc, locals>>
          \/ Poll \/ Scan \/ NothingRunnable \/ CheckWindow \/ Load
          \/ CommitRunning \/ Start \/ SkipSettled \/ GateAborts \/ GatePasses
          \/ LastStepDone \/ MarkRunning \/ SendSlew \/ SendDither \/ SlewEnds
          \/ SlewFails \/ ActWithoutLink \/ DitherNothing \/ PrecisionEnds
          \/ OpenPrompt \/ ClosePrompt \/ Expose \/ CaptureReturns
          \/ ExposureFails \/ Ingest \/ FrameDone \/ UnknownKind \/ Finish
          \/ WrapUp \/ LoopError \/ Crash
BY DEF Next, SequencerStep, StepAction, OperatorAction, SafetyAction, WorldAction,
       PollHeld, CenterMoves, Launch, Pause, Resume, Confirm, Abort, ManualMove,
       SetManual, SafetyTrips, SafetyShifts, SafetyParks, SafetySettles, SafetyOverride,
       MountMoves, LinkUp, LinkDown, ClockMoves, UnchangedBesidesFlags, SequencerVars,
       StepFrame, flags, HandlerAction, CallStep, CancelBlock, CancelCommit,
       CancelExecution, ResumePlan, ResumeSteps, ResumeCommit, LaunchResumed, CallFails,
       UnchangedBesidesCall

(* What a DELETE or a resume does, from its first read on. *)
CallAction(h) ==
    \/ CallStep(h) \/ CallFails(h)
    \/ \E b \in Blocks : CancelBlock(h, b)
    \/ \E b \in PlanBlocks : ResumePlan(h, b)

(* The link, the clock, the requests under way and the event count. *)
LEMMA WorldWriters ==
    ASSUME Next
    PROVE \/ UNCHANGED world
          \/ (\E h \in Handlers : CallAction(h)) \/ (\E b \in Blocks : Launch(b))
          \/ Pause \/ Abort
          \/ ManualMove \/ (\E on \in BOOLEAN : SetManual(on))
          \/ (\E level \in Level : SafetyTrips(level))
          \/ (\E level \in Level : SafetyShifts(level))
          \/ (\E on \in BOOLEAN : SafetyOverride(on)) \/ LinkUp \/ LinkDown
          \/ LoopError \/ Crash \/ (\E b \in Blocks : ClockMoves(b))
BY DEF Next, SequencerStep, StepAction, OperatorAction, SafetyAction, WorldAction,
       PollHeld, Poll, Scan, NothingRunnable, CheckWindow, Load, CommitRunning, Start,
       SkipSettled, GateAborts, GatePasses, LastStepDone, MarkRunning, SendSlew,
       SendDither, SlewEnds, SlewFails, ActWithoutLink, DitherNothing, PrecisionEnds,
       OpenPrompt, ClosePrompt, Expose, CaptureReturns, ExposureFails, Ingest,
       FrameDone, UnknownKind, Finish, WrapUp, CenterMoves, Resume, Confirm,
       SafetyParks, SafetySettles, MountMoves, UnchangedBesidesFlags, SequencerVars,
       StepFrame, world, HandlerAction, CallAction

(* The history variables. *)
LEMMA HistoryWriters ==
    ASSUME Next
    PROVE \/ UNCHANGED history
          \/ Load \/ CommitRunning \/ Start \/ OpenPrompt
          \/ (\E h \in Handlers : CancelCommit(h))
          \/ (\E h \in Handlers : CancelExecution(h))
          \/ (\E h \in Handlers : ResumeCommit(h)) \/ Confirm \/ Abort
          \/ (\E level \in Level : SafetyTrips(level)) \/ LoopError \/ Crash
BY DEF Next, SequencerStep, StepAction, OperatorAction, SafetyAction, WorldAction,
       PollHeld, Poll, Scan, NothingRunnable, CheckWindow, SkipSettled,
       GateAborts, GatePasses, LastStepDone, MarkRunning, SendSlew, SendDither,
       SlewEnds, SlewFails, ActWithoutLink, DitherNothing, PrecisionEnds, ClosePrompt,
       Expose, CaptureReturns, ExposureFails, Ingest, FrameDone, UnknownKind, Finish,
       WrapUp, CenterMoves, Launch, Pause, Resume, ManualMove, SetManual, SafetyShifts,
       SafetyParks, SafetySettles, SafetyOverride, MountMoves, LinkUp, LinkDown,
       ClockMoves, UnchangedBesidesFlags, SequencerVars, StepFrame, HandlerAction,
       CallStep, CancelBlock, ResumePlan, ResumeSteps, LaunchResumed, CallFails,
       UnchangedBesidesCall, history

(* The abort flag, and whom the last abort was meant for. *)
LEMMA AbortWriters ==
    ASSUME Next
    PROVE \/ UNCHANGED <<abort, abortFor>>
          \/ Start \/ WrapUp \/ (\E h \in Handlers : CancelExecution(h)) \/ Abort
          \/ (\E level \in Level : SafetyTrips(level)) \/ Crash
BY DEF Next, SequencerStep, StepAction, OperatorAction, SafetyAction, WorldAction,
       PollHeld, Poll, Scan, NothingRunnable, CheckWindow, Load, CommitRunning,
       SkipSettled, GateAborts, GatePasses, LastStepDone, MarkRunning, SendSlew,
       SendDither, SlewEnds, SlewFails, ActWithoutLink, DitherNothing, PrecisionEnds,
       OpenPrompt, ClosePrompt, Expose, CaptureReturns, ExposureFails, Ingest,
       FrameDone, UnknownKind, Finish, CenterMoves, Launch, Pause, Resume, Confirm,
       ManualMove, SetManual, SafetyShifts, SafetyParks, SafetySettles, SafetyOverride,
       MountMoves, LinkUp, LinkDown, LoopError, ClockMoves, UnchangedBesidesFlags,
       SequencerVars, StepFrame, flags, history, HandlerAction, CallStep, CancelBlock,
       CancelCommit, ResumePlan, ResumeSteps, ResumeCommit, LaunchResumed, CallFails,
       UnchangedBesidesCall

(* The mount. *)
LEMMA MountWriters ==
    ASSUME Next
    PROVE \/ UNCHANGED mountVars
          \/ SendSlew \/ SendDither \/ CenterMoves \/ (\E h \in Handlers : CancelExecution(h)) \/ Abort
          \/ ManualMove \/ (\E level \in Level : SafetyTrips(level))
          \/ SafetyParks \/ MountMoves
BY DEF Next, SequencerStep, StepAction, OperatorAction, SafetyAction, WorldAction,
       PollHeld, Poll, Scan, NothingRunnable, CheckWindow, Load, CommitRunning, Start,
       SkipSettled, GateAborts, GatePasses, LastStepDone, MarkRunning, SlewEnds,
       SlewFails, ActWithoutLink, DitherNothing, PrecisionEnds, OpenPrompt, ClosePrompt,
       Expose, CaptureReturns, ExposureFails, Ingest, FrameDone, UnknownKind, Finish,
       WrapUp, Launch, Pause, Resume, Confirm, SetManual, SafetyShifts, SafetySettles,
       SafetyOverride, LinkUp, LinkDown, LoopError, Crash, ClockMoves,
       UnchangedBesidesFlags, SequencerVars, StepFrame, HandlerAction, CallStep,
       CancelBlock, CancelCommit, ResumePlan, ResumeSteps, ResumeCommit, LaunchResumed,
       CallFails, UnchangedBesidesCall

(* The safety monitor. *)
LEMMA GateWriters ==
    ASSUME Next
    PROVE \/ UNCHANGED gateVars
          \/ (\E level \in Level : SafetyTrips(level))
          \/ (\E level \in Level : SafetyShifts(level)) \/ SafetyParks
          \/ SafetySettles \/ (\E on \in BOOLEAN : SafetyOverride(on))
          \/ Crash
BY DEF Next, SequencerStep, StepAction, OperatorAction, SafetyAction, WorldAction,
       PollHeld, Poll, Scan, NothingRunnable, CheckWindow, Load, CommitRunning, Start,
       SkipSettled, GateAborts, GatePasses, LastStepDone, MarkRunning, SendSlew,
       SendDither, SlewEnds, SlewFails, ActWithoutLink, DitherNothing, PrecisionEnds,
       OpenPrompt, ClosePrompt, Expose, CaptureReturns, ExposureFails, Ingest,
       FrameDone, UnknownKind, Finish, WrapUp, CenterMoves, Launch, Pause, Resume,
       Confirm, Abort, ManualMove, SetManual, MountMoves, LinkUp, LinkDown, LoopError,
       ClockMoves, UnchangedBesidesFlags, SequencerVars, StepFrame, HandlerAction,
       CallStep, CancelBlock, CancelCommit, CancelExecution, ResumePlan, ResumeSteps,
       ResumeCommit, LaunchResumed, CallFails, UnchangedBesidesCall

-----------------------------------------------------------------------------
(***************************************************************************)
(* Type correctness.                                                       *)
(***************************************************************************)

(* At a step, the locals name a block of the queue and a step of it. *)
LEMMA AtStepHasStep ==
    ASSUME LocalsTypeOK, pc \in AtStep
    PROVE  cur \in Blocks /\ idx \in Steps
BY DEF LocalsTypeOK, Working, Executing

(* Recording the outcome of a step keeps the rows well typed. *)
LEMMA RecordingTyped ==
    ASSUME RowsTypeOK, cur \in Blocks, idx \in Steps, NEW outcome \in StepStates,
           stepState' = [stepState EXCEPT ![cur][idx] = outcome],
           UNCHANGED <<blockState, nDone, reqState, archive>>
    PROVE  RowsTypeOK'
<1>1. stepState[cur] \in [Steps -> StepStates]
  BY DEF RowsTypeOK
<1>2. [stepState[cur] EXCEPT ![idx] = outcome] \in [Steps -> StepStates]
  BY <1>1
<1>3. stepState' \in [Blocks -> [Steps -> StepStates]]
  BY <1>2 DEF RowsTypeOK
<1> QED
  BY <1>3 DEF RowsTypeOK

(* The frames of a block are finitely many, so their number is a Nat. *)
LEMMA FramesCount ==
    ASSUME NEW b, NEW steps
    PROVE  Cardinality(FramesIn(b, steps)) \in Nat
<1>1. IsFiniteSet(Steps)
  BY SequencerConstants, FS_Interval DEF Steps
<1>2. FramesIn(b, steps) \subseteq Steps
  BY DEF FramesIn
<1> QED
  BY <1>1, <1>2, FS_Subset, FS_CardinalityType

(* A request under way is about a block. *)
LEMMA CallHasBlock ==
    ASSUME WorldTypeOK, NEW h \in Handlers, call[h].do # "none"
    PROVE  /\ call[h].block \in Blocks /\ call[h].was \in BlockStates
           /\ call[h].n \in Nat /\ call[h].steps \in [Steps -> StepStates]
BY DEF WorldTypeOK, Call

LEMMA RowsTyped ==
    ASSUME TypeOK, Next
    PROVE  RowsTypeOK'
<1> USE DEF TypeOK
<1>1. CASE UNCHANGED rows
  BY <1>1 DEF RowsTypeOK, rows
<1>2. ASSUME CommitRunning PROVE RowsTypeOK'
  BY <1>2 DEF CommitRunning, RowsTypeOK, BlockStates
<1>3. ASSUME MarkRunning PROVE RowsTypeOK'
  <2>1. cur \in Blocks /\ idx \in Steps
    BY <1>3, AtStepHasStep DEF MarkRunning, AtStep
  <2> DEFINE outcome == IF stepState[cur][idx] = "pending" THEN "running"
                        ELSE stepState[cur][idx]
  <2>2. outcome \in StepStates
    BY <2>1 DEF RowsTypeOK, StepStates
  <2>3. stepState' = [stepState EXCEPT ![cur][idx] = outcome]
    BY <1>3 DEF MarkRunning
  <2> HIDE DEF outcome
  <2> QED
    BY <1>3, <2>1, <2>2, <2>3, RecordingTyped DEF MarkRunning
<1>4. ASSUME SlewEnds \/ DitherNothing \/ PrecisionEnds \/ ClosePrompt \/ FrameDone \/ UnknownKind
             \/ SlewFails \/ ActWithoutLink \/ ExposureFails
      PROVE  RowsTypeOK'
  <2>1. cur \in Blocks /\ idx \in Steps
    BY <1>4, AtStepHasStep
       DEF SlewEnds, DitherNothing, PrecisionEnds, ClosePrompt, FrameDone, UnknownKind,
           SlewFails, ActWithoutLink, ExposureFails, AtStep
  <2>2. PICK outcome \in StepStates : stepState' = [stepState EXCEPT ![cur][idx] = outcome]
    BY <1>4
       DEF SlewEnds, DitherNothing, PrecisionEnds, ClosePrompt, FrameDone, UnknownKind,
           SlewFails, ActWithoutLink, ExposureFails, Record, Raise, StepStates
  <2>3. UNCHANGED <<blockState, nDone, reqState, archive>>
    BY <1>4
       DEF SlewEnds, DitherNothing, PrecisionEnds, ClosePrompt, FrameDone, UnknownKind,
           SlewFails, ActWithoutLink, ExposureFails, StepFrame
  <2> QED
    BY <2>1, <2>2, <2>3, RecordingTyped
<1>5. ASSUME Ingest PROVE RowsTypeOK'
  <2>1. cur \in Blocks /\ idx \in Steps
    BY <1>5, AtStepHasStep DEF Ingest, AtStep
  <2> QED
    BY <1>5, <2>1 DEF Ingest, RowsTypeOK, LocalsTypeOK, Frame
<1>6. ASSUME Finish PROVE RowsTypeOK'
  BY <1>6 DEF Finish, Verdict, RowsTypeOK, LocalsTypeOK, BlockStates
<1>7. ASSUME NEW h \in Handlers, CancelCommit(h) PROVE RowsTypeOK'
  <2>1. call[h].block \in Blocks
    BY <1>7, CallHasBlock DEF CancelCommit
  <2> QED
    BY <1>7, <2>1 DEF CancelCommit, Flushed, RowsTypeOK, BlockStates
<1>8. ASSUME NEW h \in Handlers, ResumeCommit(h) PROVE RowsTypeOK'
  <2> DEFINE b == call[h].block
             read == call[h].steps
             opened == [i \in Steps |-> IF read[i] = "failed" THEN "pending" ELSE stepState[b][i]]
             count == Cardinality(FramesIn(b, read))
  <2>1. b \in Blocks
    BY <1>8, CallHasBlock DEF ResumeCommit
  <2>2. opened \in [Steps -> StepStates]
    BY <2>1 DEF RowsTypeOK, StepStates
  <2>3. count \in Nat
    BY FramesCount
  <2>4. /\ stepState' = [stepState EXCEPT ![b] = opened]
        /\ nDone' = [nDone EXCEPT ![b] = Flushed(nDone[b], call[h].n, count)]
        /\ blockState' = [blockState EXCEPT ![b] = Flushed(blockState[b], call[h].was, "queued")]
        /\ UNCHANGED <<reqState, archive>>
    BY <1>8, <2>1 DEF ResumeCommit, RowsTypeOK
  <2> HIDE DEF b, read, opened, count
  <2> QED
    BY <2>1, <2>2, <2>3, <2>4 DEF Flushed, RowsTypeOK, BlockStates
<1> QED
  BY RowsWriters, <1>1, <1>2, <1>3, <1>4, <1>5, <1>6, <1>7, <1>8

LEMMA FlagsTyped ==
    ASSUME TypeOK, Next
    PROVE  FlagsTypeOK'
<1> USE DEF TypeOK, FlagsTypeOK
<1>0. ASSUME NEW h \in Handlers, LaunchResumed(h) PROVE launched' \subseteq Blocks
  BY <1>0, CallHasBlock DEF LaunchResumed
<1>1. launched' \subseteq Blocks
  BY <1>0, FlagsWriters
     DEF flags, PollHeld, NothingRunnable, Start, OpenPrompt, WrapUp, CancelExecution,
         Launch, Pause, Resume, Confirm, Abort, ManualMove, SetManual,
         SafetyTrips, Crash
<1>2. shown' \in Blocks \cup {NoBlock}
  BY FlagsWriters
     DEF flags, PollHeld, NothingRunnable, Start, OpenPrompt, WrapUp, CancelExecution,
         Launch, LaunchResumed, Pause, Resume, Confirm, Abort, ManualMove, SetManual,
         SafetyTrips, Crash, LocalsTypeOK, Working
<1>3. abort' \in BOOLEAN
  BY FlagsWriters, Zenon
     DEF flags, PollHeld, NothingRunnable, Start, OpenPrompt, WrapUp, CancelExecution,
         Launch, LaunchResumed, Pause, Resume, Confirm, Abort, ManualMove, SetManual,
         SafetyTrips, Crash, AbortSequence
<1>4. pause' \in BOOLEAN /\ manual' \in BOOLEAN /\ confirmed' \in BOOLEAN
  BY FlagsWriters, Zenon
     DEF flags, PollHeld, NothingRunnable, Start, OpenPrompt, WrapUp, CancelExecution,
         Launch, LaunchResumed, Pause, Resume, Confirm, Abort, ManualMove, SetManual,
         SafetyTrips, Crash
<1> QED
  BY <1>1, <1>2, <1>3, <1>4

(* What the locals of run and _run_block must be: the parts of LocalsTypeOK  *)
(* that go together.                                                        *)
LEMMA LocalsTyped ==
    ASSUME TypeOK, Next
    PROVE  LocalsTypeOK'
<1> USE DEF TypeOK
<1> DEFINE Position == /\ pc \in PC
                       /\ todo \subseteq Blocks
                       /\ cur \in Blocks \cup {NoBlock}
                       /\ cur \in Blocks <=> pc \in Working \cup {"window"}
                       /\ idx \in 1 .. (NSteps + 1)
                       /\ pc \in AtStep => idx \in Steps
<1> USE DEF LocalsTypeOK
<1>1. Position'
  <2> USE DEF PC, Working, Executing, AtStep, Steps
  <2>1. CASE UNCHANGED <<pc, locals>>
    BY <2>1 DEF locals
  <2>2. ASSUME Poll \/ NothingRunnable \/ CheckWindow \/ Load \/ CommitRunning PROVE Position'
    BY <2>2, SequencerConstants DEF Poll, NothingRunnable, CheckWindow, Load, CommitRunning, locals
  <2>3. ASSUME Scan PROVE Position'
    <3>1. PICK b \in Considered : cur' = b /\ pc' \in {"window", "load"}
      BY <2>3 DEF Scan
    <3>2. b \in Blocks
      BY <3>1 DEF Considered
    <3> QED
      BY <2>3, <3>1, <3>2 DEF Scan
  <2>4. ASSUME Start \/ SkipSettled \/ GateAborts \/ GatePasses \/ LastStepDone \/ MarkRunning
        PROVE  Position'
    BY <2>4, SequencerConstants
       DEF Start, SkipSettled, GateAborts, GatePasses, AtOpenStep, LastStepDone, MarkRunning,
           locals
  <2>5. ASSUME SendSlew \/ SendDither \/ OpenPrompt \/ Expose \/ CaptureReturns \/ Ingest
               \/ Finish
        PROVE  Position'
    BY <2>5, SequencerConstants
       DEF SendSlew, SendDither, OpenPrompt, Expose, CaptureReturns, Ingest, Finish, locals
  <2>7. ASSUME WrapUp \/ LoopError \/ Crash PROVE Position'
    BY <2>7, SequencerConstants DEF WrapUp, LoopError, Crash, ForgetLocals
  <2>6. ASSUME SlewEnds \/ DitherNothing \/ PrecisionEnds \/ ClosePrompt \/ FrameDone
               \/ UnknownKind \/ SlewFails \/ ActWithoutLink \/ ExposureFails
        PROVE  Position'
    BY <2>6, SequencerConstants
       DEF SlewEnds, DitherNothing, PrecisionEnds, ClosePrompt, FrameDone, UnknownKind,
           SlewFails, ActWithoutLink, ExposureFails, Record, Raise, StepFrame
  <2> QED
    BY LocalsWriters, <2>1, <2>2, <2>3, <2>4, <2>5, <2>6, <2>7
<1>2. plan' \in [Steps -> StepStates]
  <2>1. Load \/ plan' \in {plan, [i \in Steps |-> "pending"]}
    BY LocalsWriters
       DEF locals, Poll, Scan, NothingRunnable, CheckWindow, CommitRunning, Start,
           SkipSettled, GateAborts, GatePasses, LastStepDone, MarkRunning, SendSlew, SendDither,
           SlewEnds, SlewFails, ActWithoutLink, DitherNothing, PrecisionEnds, OpenPrompt,
           ClosePrompt, Expose, CaptureReturns, ExposureFails, Ingest, FrameDone, UnknownKind,
           Finish, WrapUp, LoopError, Crash, StepFrame, ForgetLocals
  <2>2. CASE Load
    BY <2>2 DEF Load, RowsTypeOK, Working
  <2> QED
    BY <2>1, <2>2 DEF StepStates
<1>4. frames' \in Nat /\ failures' \in Nat
  <2>1. frames' \in {frames, frames + 1, 0} /\ failures' \in {failures, failures + 1, 0}
    BY LocalsWriters
       DEF locals, Poll, Scan, NothingRunnable, CheckWindow, Load, CommitRunning, Start,
           SkipSettled, GateAborts, GatePasses, LastStepDone, MarkRunning, SendSlew, SendDither,
           SlewEnds, SlewFails, ActWithoutLink, DitherNothing, PrecisionEnds, OpenPrompt,
           ClosePrompt, Expose, CaptureReturns, ExposureFails, Ingest, FrameDone, UnknownKind,
           Finish, WrapUp, LoopError, Crash, StepFrame, ForgetLocals, Raise
  <2> QED
    BY <2>1
<1>5. shot' \in Targets \cup {Nowhere}
  BY LocalsWriters
     DEF locals, Poll, Scan, NothingRunnable, CheckWindow, Load, CommitRunning, Start,
         SkipSettled, GateAborts, GatePasses, LastStepDone, MarkRunning, SendSlew, SendDither,
         SlewEnds, SlewFails, ActWithoutLink, DitherNothing, PrecisionEnds, OpenPrompt,
         ClosePrompt, Expose, CaptureReturns, ExposureFails, Ingest, FrameDone, UnknownKind,
         Finish, WrapUp, LoopError, Crash, StepFrame, ForgetLocals,
         MountTypeOK
<1>3. aborted' \in BOOLEAN
  BY LocalsWriters, Zenon
     DEF locals, Poll, Scan, NothingRunnable, CheckWindow, Load, CommitRunning, Start,
         SkipSettled, GateAborts, GatePasses, LastStepDone, MarkRunning, SendSlew, SendDither,
         SlewEnds, SlewFails, ActWithoutLink, DitherNothing, PrecisionEnds, OpenPrompt,
         ClosePrompt, Expose, CaptureReturns, ExposureFails, Ingest, FrameDone, UnknownKind,
         Finish, WrapUp, LoopError, Crash, Raise, StepFrame, ForgetLocals
<1> QED
  BY <1>1, <1>2, <1>3, <1>4, <1>5

(* A request that has come further still fits the queue. *)
LEMMA CallTyped ==
    ASSUME TypeOK, Next
    PROVE  /\ call' \in [Handlers -> Call]
           /\ \A h \in Handlers : call'[h].block \in Blocks <=> call'[h].do # "none"
<1> USE DEF TypeOK
<1> DEFINE Fits(c) == c \in Call /\ (c.block \in Blocks <=> c.do # "none")
<1>1. [i \in Steps |-> "pending"] \in [Steps -> StepStates]
  BY DEF StepStates
<1>2. Fits(NoCall)
  BY <1>1, SequencerConstants DEF NoCall, Call, BlockStates
<1>3. \A b \in Blocks : /\ Fits(Then("stop", b)) /\ Fits(Then("launch", b))
                        /\ \A was \in BlockStates : Fits([Then("remove", b) EXCEPT !.was = was])
                        /\ \A was \in BlockStates : \A n \in Nat :
                              Fits([Then("check", b) EXCEPT !.was = was, !.n = n])
  BY <1>1, SequencerConstants DEF Then, NoCall, Call, BlockStates
<1>4. call \in [Handlers -> Call] /\ \A h \in Handlers : Fits(call[h])
  BY DEF WorldTypeOK
<1>5. ASSUME NEW h \in Handlers, NEW c, Fits(c), call' = [call EXCEPT ![h] = c]
      PROVE  /\ call' \in [Handlers -> Call]
             /\ \A k \in Handlers : call'[k].block \in Blocks <=> call'[k].do # "none"
  BY <1>4, <1>5
<1>6. ASSUME NEW h \in Handlers, CallAction(h)
      PROVE  \E c : Fits(c) /\ call' = [call EXCEPT ![h] = c]
  <2>1. CASE CancelExecution(h) \/ LaunchResumed(h) \/ CallFails(h)
    <3>1. call' = [call EXCEPT ![h] = NoCall]
      BY <2>1 DEF CancelExecution, LaunchResumed, CallFails
    <3> QED
      BY <1>2, <3>1
  <2>2. CASE CancelCommit(h)
    <3>1. call[h].block \in Blocks /\ call' = [call EXCEPT ![h] = Then("stop", call[h].block)]
      BY <2>2, CallHasBlock DEF CancelCommit
    <3> QED
      BY <1>3, <3>1
  <2>3. CASE ResumeCommit(h)
    <3>1. call[h].block \in Blocks /\ call' = [call EXCEPT ![h] = Then("launch", call[h].block)]
      BY <2>3, CallHasBlock DEF ResumeCommit
    <3> QED
      BY <1>3, <3>1
  <2>4. CASE ResumeSteps(h)
    <3> DEFINE c == [call[h] EXCEPT !.do = "resume", !.steps = stepState[call[h].block]]
    <3>1. call[h].block \in Blocks /\ call[h].do # "none"
      BY <2>4, CallHasBlock DEF ResumeSteps
    <3>2. stepState[call[h].block] \in [Steps -> StepStates]
      BY <3>1 DEF RowsTypeOK
    <3>3. Fits(c)
      BY <1>4, <3>1, <3>2 DEF Call
    <3>4. call' = [call EXCEPT ![h] = c] \/ call' = [call EXCEPT ![h] = NoCall]
      BY <2>4 DEF ResumeSteps, WorldTypeOK
    <3> HIDE DEF c
    <3> QED
      BY <1>2, <3>3, <3>4
  <2>5. ASSUME NEW b \in Blocks, CancelBlock(h, b)
        PROVE  \E c : Fits(c) /\ call' = [call EXCEPT ![h] = c]
    <3>1. blockState[b] \in BlockStates
      BY DEF RowsTypeOK
    <3>2. \/ call' = [call EXCEPT ![h] = Then("stop", b)]
          \/ call' = [call EXCEPT ![h] = [Then("remove", b) EXCEPT !.was = blockState[b]]]
      BY <2>5 DEF CancelBlock
    <3> QED
      BY <1>3, <3>1, <3>2
  <2>6. ASSUME NEW b \in PlanBlocks, ResumePlan(h, b)
        PROVE  \E c : Fits(c) /\ call' = [call EXCEPT ![h] = c]
    <3>1. b \in Blocks /\ blockState[b] \in BlockStates /\ nDone[b] \in Nat
      BY SequencerConstants DEF RowsTypeOK
    <3>2. call' = [call EXCEPT ![h] =
                     [Then("check", b) EXCEPT !.was = blockState[b], !.n = nDone[b]]]
      BY <2>6 DEF ResumePlan
    <3> QED
      BY <1>3, <3>1, <3>2
  <2> QED
    BY <1>6, <2>1, <2>2, <2>3, <2>4, <2>5, <2>6 DEF CallAction, CallStep
<1>7. CASE UNCHANGED call
  BY <1>4, <1>7
<1>8. CASE Crash
  BY <1>2, <1>8 DEF Crash
<1>9. ASSUME ~UNCHANGED call, ~Crash PROVE \E h \in Handlers : CallAction(h)
  BY <1>9, WorldWriters
     DEF world, Launch, Pause, SetManual, ManualMove, Abort, SafetyTrips, SafetyShifts,
         SafetyOverride, SequencerVars, LinkUp, LinkDown, LoopError, ClockMoves,
         UnchangedBesidesFlags, Event
<1> HIDE DEF Fits
<1> QED
  BY <1>5, <1>6, <1>7, <1>8, <1>9

LEMMA WorldTyped ==
    ASSUME TypeOK, Next
    PROVE  WorldTypeOK'
<1> USE DEF TypeOK, WorldTypeOK
<1>1. link' \in BOOLEAN
  BY WorldWriters, Zenon
     DEF world, Launch, Pause, SetManual, ManualMove, Abort, CallAction, CallStep, CallFails,
         CancelBlock, CancelCommit, CancelExecution, ResumePlan, ResumeSteps, ResumeCommit,
         LaunchResumed, SafetyTrips, SafetyShifts, SafetyOverride, SequencerVars, LinkUp,
         LinkDown, LoopError, Crash, ClockMoves, UnchangedBesidesFlags, UnchangedBesidesCall
<1>2. clock' \in [Blocks -> {"before", "in", "after"}]
  BY WorldWriters
     DEF world, Launch, Pause, SetManual, ManualMove, Abort, CallAction, CallStep, CallFails,
         CancelBlock, CancelCommit, CancelExecution, ResumePlan, ResumeSteps, ResumeCommit,
         LaunchResumed, SafetyTrips, SafetyShifts, SafetyOverride, SequencerVars, LinkUp,
         LinkDown, LoopError, Crash, ClockMoves, UnchangedBesidesFlags, UnchangedBesidesCall,
         Event
<1>3. /\ call' \in [Handlers -> Call]
      /\ \A h \in Handlers : call'[h].block \in Blocks <=> call'[h].do # "none"
  BY CallTyped
<1>4. events' \in 0 .. MaxEvents
  <2>1. events' = events \/ (events < MaxEvents /\ events' = events + 1)
    BY WorldWriters
       DEF world, Launch, Pause, SetManual, ManualMove, Abort, CallAction, CallStep, CallFails,
           CancelBlock, CancelCommit, CancelExecution, ResumePlan, ResumeSteps, ResumeCommit,
           LaunchResumed, SafetyTrips, SafetyShifts, SafetyOverride, SequencerVars, LinkUp,
           LinkDown, LoopError, Crash, ClockMoves, UnchangedBesidesFlags, UnchangedBesidesCall,
           Event
  <2> QED
    BY <2>1, SequencerConstants
<1> QED
  BY <1>1, <1>2, <1>3, <1>4

LEMMA HistoryTyped ==
    ASSUME TypeOK, Next
    PROVE  HistoryTypeOK'
<1> USE DEF TypeOK, HistoryTypeOK
<1>1. answered' \in BOOLEAN
  BY HistoryWriters, Zenon
     DEF history, Load, CommitRunning, Start, OpenPrompt, Confirm, Abort, CancelCommit,
         CancelExecution, ResumeCommit, UnchangedBesidesCall, SafetyTrips, LoopError, Crash
<1>2. abortFor' \in Blocks \cup {NoBlock}
  BY HistoryWriters, CallHasBlock
     DEF history, Load, CommitRunning, Start, OpenPrompt, Confirm, Abort, CancelCommit,
         CancelExecution, ResumeCommit, UnchangedBesidesCall, SafetyTrips, LoopError, Crash,
         AbortSequence, InHand, LocalsTypeOK
<1>3. crossed' \subseteq Blocks /\ interrupted' \subseteq Blocks
  BY HistoryWriters, CallHasBlock
     DEF history, Load, CommitRunning, Start, OpenPrompt, Confirm, Abort, CancelCommit,
         CancelExecution, ResumeCommit, UnchangedBesidesCall, SafetyTrips, LoopError, Crash,
         BreakOff
<1> QED
  BY <1>1, <1>2, <1>3

LEMMA MountTyped ==
    ASSUME TypeOK, Next
    PROVE  MountTypeOK'
<1> USE DEF TypeOK, MountTypeOK, Motion
<1>1. CASE UNCHANGED mountVars
  BY <1>1 DEF mountVars
<1>2. CASE SendSlew \/ SendDither \/ CenterMoves
  BY <1>2, SequencerConstants
     DEF SendSlew, SendDither, CenterMoves, SlewTo, LocalsTypeOK, Working, Executing, AtStep
<1>3. ASSUME \/ \E h \in Handlers : CancelExecution(h)
             \/ Abort \/ (\E level \in Level : SafetyTrips(level))
      PROVE  MountTypeOK'
  BY <1>3 DEF CancelExecution, Abort, SafetyTrips, AbortSequence, AbortMotion, mountVars
<1>4. ASSUME ManualMove \/ SafetyParks \/ MountMoves PROVE MountTypeOK'
  BY <1>4 DEF ManualMove, SafetyParks, MountMoves, SlewTo, AbortMotion, Park, Arrive,
                  ParkComplete, mountVars
<1> QED
  BY MountWriters, <1>1, <1>2, <1>3, <1>4

LEMMA GateTyped ==
    ASSUME TypeOK, Next
    PROVE  GateTypeOK'
<1> USE DEF TypeOK, GateTypeOK
<1>1. safety' \in Level /\ pending' \in Level /\ phase' \in {"watch", "abort", "notify"}
  BY GateWriters
     DEF gateVars, SafetyTrips, SafetyShifts, SafetyParks, SafetySettles, SafetyOverride, Crash,
         Trip, Shift, ParkOrdered, Settle, SetOverride, Level
<1>2. override' \in BOOLEAN
  BY GateWriters, Zenon
     DEF gateVars, SafetyTrips, SafetyShifts, SafetyParks, SafetySettles, SafetyOverride, Crash,
         Trip, Shift, ParkOrdered, Settle, SetOverride
<1> QED
  BY <1>1, <1>2

LEMMA InitTyped == Init => TypeOK
<1> SUFFICES ASSUME Init PROVE TypeOK
  OBVIOUS
<1> USE DEF Init
<1>1. MountTypeOK /\ GateTypeOK
  BY DEF MountInit, GateInit, MountTypeOK, GateTypeOK, Motion, Level
<1>2. RowsTypeOK
  BY DEF RowsTypeOK, BlockStates, StepStates
<1>3. FlagsTypeOK /\ HistoryTypeOK
  BY DEF FlagsTypeOK, HistoryTypeOK
<1>4. aborted \in BOOLEAN /\ link \in BOOLEAN
  OBVIOUS
<1>5. LocalsTypeOK
  <2>1. /\ pc \in PC
        /\ pc \notin Working \cup {"window"}
        /\ pc \notin AtStep
    BY DEF PC, Working, Executing, AtStep
  <2>2. idx \in 1 .. (NSteps + 1)
    BY SequencerConstants
  <2>3. plan \in [Steps -> StepStates]
    BY DEF StepStates
  <2> QED
    BY <1>4, <2>1, <2>2, <2>3, SequencerConstants DEF LocalsTypeOK
<1>6. WorldTypeOK
  <2>1. [i \in Steps |-> "pending"] \in [Steps -> StepStates]
    BY DEF StepStates
  <2>2. NoCall \in Call /\ ~(NoCall.block \in Blocks) /\ NoCall.do = "none"
    BY <2>1, SequencerConstants DEF NoCall, Call, BlockStates
  <2> QED
    BY <1>4, <2>2, SequencerConstants DEF WorldTypeOK
<1> QED
  BY <1>1, <1>2, <1>3, <1>5, <1>6 DEF TypeOK

(* Every state variable keeps its type: the program never mixes up the      *)
(* enumerations of its rows and never leaves the steps of a block.          *)
THEOREM Typing == Spec => []TypeOK
<1>1. Init => TypeOK
  BY InitTyped
<1>2. TypeOK /\ [Next]_vars => TypeOK'
  <2> SUFFICES ASSUME TypeOK, [Next]_vars PROVE TypeOK'
    OBVIOUS
  <2>1. CASE Next
    BY <2>1, RowsTyped, FlagsTyped, LocalsTyped, WorldTyped, HistoryTyped, MountTyped,
       GateTyped DEF TypeOK
  <2>2. CASE UNCHANGED vars
    BY <2>2
       DEF vars, rows, flags, locals, world, history, mountVars, gateVars, TypeOK,
           MountTypeOK, GateTypeOK, RowsTypeOK, FlagsTypeOK, LocalsTypeOK, WorldTypeOK,
           HistoryTypeOK
  <2> QED
    BY <2>1, <2>2
<1> QED
  BY <1>1, <1>2, PTL DEF Spec

-----------------------------------------------------------------------------
(***************************************************************************)
(* Aborts reach the block they were meant for.                             *)
(***************************************************************************)

(* A block's run is entered only by Start, and stays with its block. *)
LEMMA StaysWithBlock ==
    ASSUME Next, pc' \in Executing, ~Start
    PROVE  pc \in Executing /\ cur' = cur
BY LocalsWriters
   DEF Executing, AtStep, locals, Poll, Scan, NothingRunnable, CheckWindow, Load,
       CommitRunning, SkipSettled, GateAborts, GatePasses, AtOpenStep, LastStepDone,
       MarkRunning, SendSlew, SendDither, SlewEnds, SlewFails, ActWithoutLink, DitherNothing,
       PrecisionEnds, OpenPrompt, ClosePrompt, Expose, CaptureReturns, ExposureFails, Ingest,
       FrameDone, UnknownKind, Finish, WrapUp, LoopError, Crash, Record, Raise, StepFrame

(* The block shown is the one that is being executed. *)
ShownIsRun == pc \in Executing => shown = cur

(* An abort that a running block sees was meant for it: executor.py clears  *)
(* the flag when it opens a block, every later abort() of the operator or   *)
(* the safety monitor finds the block in the same run, and that of a        *)
(* removal is raised only for the block it removes.  None of the other      *)
(* verbs takes it back.                                                     *)
THEOREM AbortsAreMeant == Spec => []AbortHitsItsBlock
<1>1. Init => AbortHitsItsBlock /\ ShownIsRun
  BY DEF Init, AbortHitsItsBlock, ShownIsRun, Executing, AtStep
<1>3. ShownIsRun /\ [Next]_vars => ShownIsRun'
  <2> SUFFICES ASSUME ShownIsRun, [Next]_vars, pc' \in Executing PROVE shown' = cur'
    BY DEF ShownIsRun
  <2>1. CASE UNCHANGED vars
    BY <2>1 DEF ShownIsRun, vars, flags, locals
  <2>2. CASE Start
    BY <2>2 DEF Start
  <2>3. CASE Next /\ ~Start
    <3>1. pc \in Executing /\ cur' = cur
      BY <2>3, StaysWithBlock
    <3>2. ~PollHeld /\ ~NothingRunnable /\ ~WrapUp /\ ~Crash
      BY <3>1 DEF PollHeld, NothingRunnable, WrapUp, Crash, Executing, AtStep
    <3>3. UNCHANGED shown
      BY <2>3, <3>2, FlagsWriters
         DEF flags, OpenPrompt, CancelExecution, Launch, LaunchResumed, Pause, Resume, Confirm,
             Abort, ManualMove, SetManual, SafetyTrips
    <3> QED
      BY <3>1, <3>3 DEF ShownIsRun
  <2> QED
    BY <2>1, <2>2, <2>3
<1>2. TypeOK /\ ShownIsRun /\ AbortHitsItsBlock /\ [Next]_vars => AbortHitsItsBlock'
  <2> SUFFICES ASSUME TypeOK, ShownIsRun, AbortHitsItsBlock, [Next]_vars, pc' \in Executing
               PROVE  abort' <=> abortFor' = cur'
    BY DEF AbortHitsItsBlock
  <2>1. CASE UNCHANGED vars
    BY <2>1 DEF AbortHitsItsBlock, vars, flags, locals, history
  <2>2. CASE Start
    <3>1. cur' \in Blocks
      BY <2>2 DEF Start, TypeOK, LocalsTypeOK, Working
    <3> QED
      BY <2>2, <3>1, SequencerConstants DEF Start
  <2>3. CASE Next /\ ~Start
    <3>1. pc \in Executing /\ cur' = cur
      BY <2>3, StaysWithBlock
    <3>2. CASE UNCHANGED <<abort, abortFor>>
      BY <3>1, <3>2 DEF AbortHitsItsBlock
    <3>3. ASSUME Abort \/ (\E level \in Level : SafetyTrips(level))
          PROVE  abort' /\ abortFor' = cur'
      BY <3>1, <3>3 DEF Abort, SafetyTrips, AbortSequence, InHand
    <3>4. ASSUME NEW h \in Handlers, CancelExecution(h) PROVE abort' <=> abortFor' = cur'
      <4>1. CASE shown = call[h].block
        BY <3>1, <3>4, <4>1 DEF CancelExecution, AbortSequence, ShownIsRun
      <4>2. CASE shown # call[h].block
        BY <3>1, <3>4, <4>2 DEF CancelExecution, AbortHitsItsBlock
      <4> QED
        BY <4>1, <4>2
    <3>5. ~WrapUp /\ ~Crash
      BY DEF WrapUp, Crash, Executing, AtStep
    <3> QED
      BY <2>3, <3>2, <3>3, <3>4, <3>5, AbortWriters
  <2> QED
    BY <2>1, <2>2, <2>3
<1> QED
  BY <1>1, <1>2, <1>3, Typing, PTL DEF Spec

-----------------------------------------------------------------------------
(***************************************************************************)
(* The blocks the sequencer has chosen from are not finished.              *)
(***************************************************************************)

(* What the sequencer has found queued, and what it runs, is not finished.  *)
Choosing == pc \in {"scan", "window", "load", "commit"}
RowsOpen ==
    /\ Choosing => \A b \in todo : blockState[b] \in L!Takable
    /\ Choosing /\ cur \in Blocks => cur \in todo
    /\ pc \in Executing \cup {"start"} => blockState[cur] \in L!Closable

(* Which row may change, and to what. *)
LEMMA StateWriters ==
    ASSUME TypeOK, Next
    PROVE  \/ UNCHANGED blockState
           \/ CommitRunning \/ Finish
           \/ /\ UNCHANGED <<pc, locals>>
              /\ \E b \in Blocks : \E s \in L!Ordered :
                    blockState' = [blockState EXCEPT ![b] = s] /\ blockState[b] # "none"
<1>1. ASSUME NEW h \in Handlers, CancelCommit(h) \/ ResumeCommit(h), ~UNCHANGED blockState
      PROVE  /\ UNCHANGED <<pc, locals>>
             /\ \E b \in Blocks : \E s \in L!Ordered :
                   blockState' = [blockState EXCEPT ![b] = s] /\ blockState[b] # "none"
  <2> DEFINE b == call[h].block
  <2>1. b \in Blocks
    BY <1>1, CallHasBlock DEF CancelCommit, ResumeCommit, TypeOK
  <2>2. blockState \in [Blocks -> BlockStates] /\ blockState[b] # "none"
    BY <2>1 DEF TypeOK, RowsTypeOK, BlockStates
  <2>3. \E s \in L!Ordered : blockState' = [blockState EXCEPT ![b] = s]
    BY <1>1, <2>1, <2>2 DEF CancelCommit, ResumeCommit, Flushed, L!Ordered
  <2>4. UNCHANGED <<pc, locals>>
    BY <1>1 DEF CancelCommit, ResumeCommit, UnchangedBesidesCall
  <2> QED
    BY <2>1, <2>2, <2>3, <2>4
<1>3. \/ UNCHANGED blockState
      \/ CommitRunning \/ Finish
      \/ \E h \in Handlers : CancelCommit(h) \/ ResumeCommit(h)
  BY RowsWriters
     DEF rows, MarkRunning, SlewEnds, SlewFails, ActWithoutLink, DitherNothing,
         PrecisionEnds, ClosePrompt, ExposureFails, Ingest, FrameDone, UnknownKind, StepFrame
<1> QED
  BY <1>1, <1>3

LEMMA RowsOpenKept ==
    ASSUME TypeOK, RowsOpen, [Next]_vars
    PROVE  RowsOpen'
<1> USE DEF L!Takable, L!Closable
<1>0. /\ blockState \in [Blocks -> BlockStates] /\ todo \subseteq Blocks
      /\ cur \in Blocks <=> pc \in Working \cup {"window"}
  BY DEF TypeOK, RowsTypeOK, LocalsTypeOK
<1>1. CASE UNCHANGED <<pc, locals, blockState>>
  BY <1>1 DEF RowsOpen, Choosing, locals
<1>2. ASSUME UNCHANGED <<pc, locals>>,
             NEW b \in Blocks, NEW s \in L!Ordered, blockState' = [blockState EXCEPT ![b] = s]
      PROVE  RowsOpen'
  <2>1. \A x \in Blocks : blockState'[x] = blockState[x] \/ blockState'[x] \in L!Takable
    BY <1>0, <1>2 DEF L!Ordered
  <2>2. pc \in Executing \cup {"start"} => cur \in Blocks
    BY <1>0 DEF Working
  <2> QED
    BY <1>0, <1>2, <2>1, <2>2 DEF RowsOpen, Choosing, locals
<1>3. CASE CommitRunning
  <2>1. cur \in Blocks
    BY <1>0, <1>3 DEF CommitRunning, Working
  <2> QED
    BY <1>0, <1>3, <2>1 DEF CommitRunning, RowsOpen, Choosing, Executing, AtStep, locals
<1>4. CASE Finish
  BY <1>4 DEF Finish, RowsOpen, Choosing, Executing, AtStep
<1>5. CASE Poll
  BY <1>0, <1>5 DEF Poll, RowsOpen, Choosing, Executing, AtStep, Working, rows
<1>6. CASE Scan
  <2>1. PICK b \in Considered : cur' = b /\ pc' \in {"window", "load"}
    BY <1>6 DEF Scan
  <2> QED
    BY <1>0, <1>6, <2>1 DEF Scan, Considered, RowsOpen, Choosing, Executing, AtStep, rows
<1>7. CASE CheckWindow
  <2>1. /\ todo' \subseteq todo
        /\ (cur' = cur /\ todo' = todo) \/ cur' = NoBlock
        /\ pc' \in {"load", "scan"} /\ pc = "window" /\ UNCHANGED blockState
    BY <1>7 DEF CheckWindow, rows
  <2> QED
    BY <1>0, <2>1, SequencerConstants DEF RowsOpen, Choosing, Executing, AtStep
<1>8. CASE Load
  BY <1>0, <1>8 DEF Load, RowsOpen, Choosing, Executing, AtStep, rows
<1>9. CASE NothingRunnable \/ WrapUp \/ LoopError \/ Crash
  BY <1>9 DEF NothingRunnable, WrapUp, LoopError, Crash, RowsOpen, Choosing, Executing, AtStep
<1>10. ASSUME Next, UNCHANGED blockState, pc \in Executing \cup {"start"},
              pc' \in Executing \cup {"finish"}, cur' = cur
       PROVE  RowsOpen'
  BY <1>10 DEF RowsOpen, Choosing, Executing, AtStep
<1>11. ASSUME Next, UNCHANGED blockState,
              ~UNCHANGED <<pc, locals>>, ~Poll, ~Scan, ~CheckWindow, ~Load, ~CommitRunning,
              ~NothingRunnable, ~WrapUp, ~LoopError, ~Crash, ~Finish
       PROVE  RowsOpen'
  <2>1. CASE Start
    BY <1>10, <1>11, <2>1 DEF Start, Executing
  <2>2. CASE ~Start
    <3>1. pc' \in Executing
      BY <1>11, <2>2, LocalsWriters
         DEF SkipSettled, GateAborts, GatePasses, AtOpenStep, LastStepDone, MarkRunning,
             SendSlew, SendDither, SlewEnds, SlewFails, ActWithoutLink, DitherNothing,
             PrecisionEnds, OpenPrompt, ClosePrompt, Expose, CaptureReturns, ExposureFails,
             Ingest, FrameDone, UnknownKind, Record, Raise, Executing, AtStep
    <3>2. pc \in Executing /\ cur' = cur
      BY <1>11, <2>2, <3>1, StaysWithBlock
    <3> QED
      BY <1>10, <1>11, <3>1, <3>2
  <2> QED
    BY <2>1, <2>2
<1>12. CASE UNCHANGED vars
  BY <1>1, <1>12 DEF vars, rows
<1> QED
  BY <1>1, <1>2, <1>3, <1>4, <1>5, <1>6, <1>7, <1>8, <1>9, <1>11, <1>12, StateWriters

(* A block that _next_runnable has found is not taken to its end by anybody *)
(* else before it is run.                                                   *)
THEOREM RowsStayOpen == Spec => []RowsOpen
<1>1. Init => RowsOpen
  BY DEF Init, RowsOpen, Choosing, Executing, AtStep
<1> QED
  BY <1>1, RowsOpenKept, Typing, PTL DEF Spec

-----------------------------------------------------------------------------
(***************************************************************************)
(* The rows say RUNNING for the block that is being run.                   *)
(***************************************************************************)

(* What is going to be removed was queued when it was read. *)
RemovalsRead == \A h \in Handlers : call[h].do = "remove" => call[h].was = "queued"

THEOREM RemovalsWereQueued == Spec => []RemovalsRead
<1>1. Init => RemovalsRead
  BY DEF Init, RemovalsRead, NoCall
<1>2. TypeOK /\ RemovalsRead /\ [Next]_vars => RemovalsRead'
  <2> SUFFICES ASSUME TypeOK, RemovalsRead, [Next]_vars, NEW k \in Handlers,
                      call'[k].do = "remove"
               PROVE  call'[k].was = "queued"
    BY DEF RemovalsRead
  <2>0. call \in [Handlers -> Call]
    BY DEF TypeOK, WorldTypeOK
  <2>1. CASE UNCHANGED call
    BY <2>1 DEF RemovalsRead
  <2>2. ASSUME NEW h \in Handlers, CallAction(h) PROVE call'[k].was = "queued"
    <3>1. CASE k # h
      <4>1. call'[k] = call[k]
        BY <2>0, <2>2, <3>1
           DEF CallAction, CallStep, CallFails, CancelBlock, CancelCommit, CancelExecution,
               ResumePlan, ResumeSteps, ResumeCommit, LaunchResumed
      <4> QED
        BY <4>1 DEF RemovalsRead
    <3>2. CASE k = h
      <4>1. call'[h].do = "remove"
        BY <3>2
      <4>2. ~CallFails(h) /\ ~CancelExecution(h) /\ ~LaunchResumed(h)
        BY <2>0, <4>1 DEF CallFails, CancelExecution, LaunchResumed, NoCall
      <4>3. ~CancelCommit(h) /\ ~ResumeCommit(h)
        BY <2>0, <4>1 DEF CancelCommit, ResumeCommit, Then, NoCall
      <4>4. ~ResumeSteps(h)
        <5> SUFFICES ASSUME ResumeSteps(h) PROVE FALSE
          OBVIOUS
        <5> DEFINE c == [call[h] EXCEPT !.do = "resume", !.steps = stepState[call[h].block]]
        <5>1. call[h] \in Call
          BY <2>0
        <5>2. c.do = "resume" /\ NoCall.do = "none"
          BY <5>1 DEF Call, NoCall
        <5>3. call' = [call EXCEPT ![h] = c] \/ call' = [call EXCEPT ![h] = NoCall]
          BY <2>0 DEF ResumeSteps
        <5> HIDE DEF c
        <5> QED
          BY <2>0, <4>1, <5>2, <5>3
      <4>5. ASSUME NEW b \in PlanBlocks PROVE ~ResumePlan(h, b)
        BY <2>0, <4>1 DEF ResumePlan, Then, NoCall
      <4>6. PICK b \in Blocks : CancelBlock(h, b)
        BY <2>2, <4>2, <4>3, <4>4, <4>5 DEF CallAction, CallStep
      <4> QED
        BY <2>0, <3>2, <4>1, <4>6 DEF CancelBlock, Then, NoCall
    <3> QED
      BY <3>1, <3>2
  <2>3. CASE Crash
    BY <2>3 DEF Crash, NoCall
  <2>4. CASE Next /\ ~UNCHANGED call /\ ~Crash
    BY <2>2, <2>4, WorldWriters
       DEF world, Launch, Pause, SetManual, ManualMove, Abort, SafetyTrips, SafetyShifts,
           SafetyOverride, SequencerVars, LinkUp, LinkDown, LoopError, ClockMoves,
           UnchangedBesidesFlags, Event
  <2> QED
    BY <2>1, <2>2, <2>3, <2>4 DEF vars, world
<1> QED
  BY <1>1, <1>2, Typing, PTL DEF Spec

(* Whoever writes over a run that has begun is on record. *)
LEMMA Uncrossed ==
    ASSUME TypeOK, RemovalsRead, NEW h \in Handlers, NEW b \in Blocks,
           b \notin crossed', call[h].block = b
    PROVE  /\ CancelCommit(h) => ~Running(b) /\ blockState'[b] = "aborted"
           /\ ResumeCommit(h) => /\ ~HasRead(b) /\ ~Running(b)
                                 /\ blockState'[b] # "done"
                                 /\ blockState'[b] \in {blockState[b], "queued"}
<1>1. blockState \in [Blocks -> BlockStates]
  BY DEF TypeOK, RowsTypeOK
<1>2. ASSUME CancelCommit(h) PROVE ~Running(b) /\ blockState'[b] = "aborted"
  <2>1. call[h].was = "queued"
    BY <1>2 DEF CancelCommit, RemovalsRead
  <2> QED
    BY <1>1, <1>2, <2>1 DEF CancelCommit, Flushed
<1>3. ASSUME ResumeCommit(h)
      PROVE  ~HasRead(b) /\ blockState'[b] # "done" /\ blockState'[b] \in {blockState[b], "queued"}
  BY <1>1, <1>3 DEF ResumeCommit, Flushed
<1>4. Running(b) => HasRead(b)
  BY DEF Running, HasRead
<1> QED
  BY <1>2, <1>3, <1>4

(* A record of it is dropped only when the block is read anew. *)
LEMMA CrossedKept ==
    ASSUME Next, ~Load
    PROVE  crossed \subseteq crossed'
BY HistoryWriters
   DEF history, CommitRunning, Start, OpenPrompt, CancelCommit, CancelExecution, ResumeCommit,
       Confirm, Abort, SafetyTrips, LoopError, Crash, UnchangedBesidesCall

(* A run lasts from the RUNNING commit to the closing one. *)
LEMMA RunningKept ==
    ASSUME Next, ~CommitRunning, ~Finish, ~LoopError, ~Crash, TypeOK, NEW b \in Blocks
    PROVE  Running(b)' <=> Running(b)
BY LocalsWriters, SequencerConstants
   DEF Running, Executing, AtStep, locals, Poll, Scan, NothingRunnable, CheckWindow, Load,
       Start, SkipSettled, GateAborts, GatePasses, AtOpenStep, LastStepDone,
       MarkRunning, SendSlew, SendDither, SlewEnds, SlewFails, ActWithoutLink, DitherNothing,
       PrecisionEnds, OpenPrompt, ClosePrompt, Expose, CaptureReturns, ExposureFails, Ingest,
       FrameDone, UnknownKind, WrapUp, ForgetLocals, Record, Raise, StepFrame

(* A block row says RUNNING exactly while _run_block is between its opening *)
(* and its closing transaction for it.  The only exceptions are a run that  *)
(* an error or a crash broke off, and a row that a removal or a resume      *)
(* wrote once the run had begun, having read it before.                     *)
THEOREM RowsAreTrue == Spec => []RowsFollowSequencer
<1>1. Init => RowsFollowSequencer
  BY DEF Init, RowsFollowSequencer, Running, Executing, AtStep
<1>2. TypeOK /\ RowsOpen /\ RemovalsRead /\ RowsFollowSequencer /\ [Next]_vars
        => RowsFollowSequencer'
  <2> SUFFICES ASSUME TypeOK, RowsOpen, RemovalsRead, RowsFollowSequencer, [Next]_vars,
                      NEW b \in Blocks, b \notin crossed', b \notin interrupted'
               PROVE  blockState'[b] = "running" <=> Running(b)'
    BY DEF RowsFollowSequencer
  <2> DEFINE Claim == blockState'[b] = "running" <=> Running(b)'
  <2>1. CASE UNCHANGED vars
    BY <2>1 DEF RowsFollowSequencer, Running, vars, rows, locals, history
  <2>2. CASE CommitRunning
    BY <2>2, SequencerConstants
       DEF CommitRunning, RowsFollowSequencer, Running, Executing, AtStep, locals,
           TypeOK, RowsTypeOK, LocalsTypeOK, Working
  <2>3. CASE Finish
    BY <2>3, SequencerConstants
       DEF Finish, Verdict, RowsFollowSequencer, Running, Executing, AtStep, locals, history,
           TypeOK, RowsTypeOK, LocalsTypeOK, Working
  <2>4. ASSUME LoopError \/ Crash PROVE Claim
    BY <2>4
       DEF LoopError, Crash, BreakOff, ForgetLocals, RowsFollowSequencer, Running, Executing,
           AtStep, rows
  <2>6. CASE Load
    <3>1. UNCHANGED <<blockState, interrupted, cur>> /\ pc = "load" /\ pc' = "commit"
      BY <2>6 DEF Load, rows
    <3>2. ~Running(b) /\ ~Running(b)'
      BY <3>1 DEF Running, Executing, AtStep
    <3>3. CASE b = cur
      BY <3>1, <3>2, <3>3 DEF RowsOpen, Choosing, L!Takable
    <3>4. CASE b # cur
      BY <2>6, <3>1, <3>2, <3>4 DEF Load, RowsFollowSequencer
    <3> QED
      BY <3>3, <3>4
  <2>5. CASE Next /\ ~CommitRunning /\ ~Finish /\ ~LoopError /\ ~Crash /\ ~Load
    <3>0. blockState \in [Blocks -> BlockStates]
      BY DEF TypeOK, RowsTypeOK
    <3>1. Running(b)' <=> Running(b)
      BY <2>5, RunningKept
    <3>2. b \notin crossed
      BY <2>5, CrossedKept
    <3>3. UNCHANGED interrupted
      BY <2>5, HistoryWriters
         DEF history, Start, OpenPrompt, CancelCommit, CancelExecution, ResumeCommit,
             UnchangedBesidesCall, Confirm, Abort, SafetyTrips
    <3>4. blockState[b] = "running" <=> Running(b)
      BY <3>2, <3>3 DEF RowsFollowSequencer
    <3>5. ASSUME NEW h \in Handlers, CancelCommit(h) \/ ResumeCommit(h) PROVE Claim
      <4>1. CASE call[h].block = b
        BY <3>1, <3>4, <3>5, <4>1, Uncrossed
      <4>2. CASE call[h].block # b
        <5>1. blockState'[b] = blockState[b]
          BY <3>0, <3>5, <4>2 DEF CancelCommit, ResumeCommit
        <5> QED
          BY <3>1, <3>4, <5>1
      <4> QED
        BY <4>1, <4>2
    <3>6. \/ UNCHANGED blockState
          \/ \E h \in Handlers : CancelCommit(h) \/ ResumeCommit(h)
      BY <2>5, RowsWriters
         DEF rows, MarkRunning, SlewEnds, SlewFails, ActWithoutLink, DitherNothing,
             PrecisionEnds, ClosePrompt, ExposureFails, Ingest, FrameDone, UnknownKind, StepFrame
    <3> QED
      BY <3>1, <3>4, <3>5, <3>6
  <2> QED
    BY <2>1, <2>2, <2>3, <2>4, <2>5, <2>6
<1> QED
  BY <1>1, <1>2, Typing, RowsStayOpen, RemovalsWereQueued, PTL DEF Spec

-----------------------------------------------------------------------------
(***************************************************************************)
(* What _run_block awaits fits the step it is at.                          *)
(***************************************************************************)

(* The waits for a slew, for the operator and for a frame belong to steps   *)
(* of those kinds.                                                          *)
AwaitsItsKind ==
    /\ pc = "slewing" => StepKind \in {"slew", "dither"}
    /\ pc = "prompt" => StepKind = "prompt"
    /\ pc \in {"exposing", "ingest", "record"} => StepKind \in ExposeKind

(* The awaits inside a step are entered from "act", or from one another,    *)
(* without leaving the step.                                                *)
LEMMA WithinStep ==
    ASSUME Next, pc' \in {"slewing", "prompt", "exposing", "ingest", "record"}
    PROVE  /\ UNCHANGED <<cur, idx>>
           /\ \/ UNCHANGED pc
              \/ SendSlew \/ SendDither \/ OpenPrompt \/ Expose \/ CaptureReturns \/ Ingest
BY LocalsWriters
   DEF locals, Poll, Scan, NothingRunnable, CheckWindow, Load,
       CommitRunning, Start, SkipSettled, GateAborts, GatePasses, AtOpenStep, LastStepDone,
       MarkRunning, SendSlew, SendDither, SlewEnds, SlewFails, ActWithoutLink, DitherNothing,
       PrecisionEnds, OpenPrompt, ClosePrompt, Expose, CaptureReturns, ExposureFails, Ingest,
       FrameDone, UnknownKind, Finish, WrapUp, LoopError, Crash, Record, Raise, StepFrame

(* _run_block never waits for something its present step does not do.       *)
THEOREM WaitsFitSteps == Spec => []AwaitsItsKind
<1>1. Init => AwaitsItsKind
  BY DEF Init, AwaitsItsKind
<1>2. AwaitsItsKind /\ [Next]_vars => AwaitsItsKind'
  <2> SUFFICES ASSUME AwaitsItsKind, [Next]_vars PROVE AwaitsItsKind'
    OBVIOUS
  <2>1. CASE UNCHANGED vars
    BY <2>1 DEF AwaitsItsKind, StepKind, vars, locals
  <2>2. CASE Next /\ pc' \in {"slewing", "prompt", "exposing", "ingest", "record"}
    <3>1. UNCHANGED StepKind
      BY <2>2, WithinStep DEF StepKind
    <3>2. CASE UNCHANGED pc
      BY <3>1, <3>2 DEF AwaitsItsKind
    <3>3. CASE SendSlew \/ SendDither \/ OpenPrompt \/ Expose \/ CaptureReturns \/ Ingest
      BY <3>1, <3>3
         DEF AwaitsItsKind, SendSlew, SendDither, OpenPrompt, Expose, CaptureReturns, Ingest
    <3> QED
      BY <2>2, <3>2, <3>3, WithinStep
  <2>3. CASE pc' \notin {"slewing", "prompt", "exposing", "ingest", "record"}
    BY <2>3 DEF AwaitsItsKind
  <2> QED
    BY <2>1, <2>2, <2>3
<1> QED
  BY <1>1, <1>2, PTL DEF Spec

-----------------------------------------------------------------------------
(***************************************************************************)
(* A DONE exposure has its frame in the archive.                           *)
(***************************************************************************)

(* Only the step _run_block is at becomes DONE, when it moves on to the     *)
(* next: an exposure from "record", a prompt once confirmed.                *)
LEMMA StepWriters ==
    ASSUME TypeOK, AwaitsItsKind, Next,
           NEW b \in Blocks, NEW i \in Steps,
           stepState'[b][i] = "done", stepState[b][i] # "done"
    PROVE  /\ b = cur /\ i = idx /\ idx' = idx + 1 /\ pc \in AtStep
           /\ \/ Kinds[b][i] \in ExposeKind /\ pc = "record"
              \/ Kinds[b][i] = "prompt" /\ pc = "prompt" /\ confirmed /\ ~abort
              \/ Kinds[b][i] \in {"slew", "dither", "center", "autofocus"}
<1>0. stepState \in [Blocks -> [Steps -> StepStates]]
  BY DEF TypeOK, RowsTypeOK
<1>1. ASSUME NEW outcome, stepState' = [stepState EXCEPT ![cur][idx] = outcome]
      PROVE  b = cur /\ i = idx /\ outcome = "done"
  BY <1>0, <1>1
<1>2. CASE SlewEnds \/ DitherNothing \/ FrameDone
  <2>1. b = cur /\ i = idx /\ idx' = idx + 1
    BY <1>1, <1>2 DEF SlewEnds, DitherNothing, FrameDone, Record
  <2> QED
    BY <1>2, <2>1 DEF SlewEnds, DitherNothing, FrameDone, AwaitsItsKind, StepKind, AtStep
<1>3. CASE PrecisionEnds
  <2>1. b = cur /\ i = idx /\ idx' = idx + 1
    BY <1>1, <1>3 DEF PrecisionEnds, Record, Raise
  <2> QED
    BY <1>3, <2>1 DEF PrecisionEnds, StepKind, AtStep
<1>4. CASE ClosePrompt
  <2>1. b = cur /\ i = idx /\ idx' = idx + 1 /\ ~abort
    BY <1>1, <1>4 DEF ClosePrompt, Record
  <2> QED
    BY <1>4, <2>1 DEF ClosePrompt, AwaitsItsKind, StepKind, AtStep
<1>5. ~SlewFails /\ ~ActWithoutLink /\ ~ExposureFails /\ ~UnknownKind
  <2>1. ~Raise
    BY <1>1 DEF Raise
  <2>2. ~Record("skipped")
    BY <1>1 DEF Record
  <2> QED
    BY <2>1, <2>2 DEF SlewFails, ActWithoutLink, ExposureFails, UnknownKind
<1>6. ~MarkRunning
  BY <1>0 DEF MarkRunning
<1>7. ASSUME NEW h \in Handlers, ResumeCommit(h) PROVE FALSE
  BY <1>0, <1>7 DEF ResumeCommit
<1>8. CASE UNCHANGED stepState
  BY <1>8
<1> QED
  BY RowsWriters, <1>2, <1>3, <1>4, <1>5, <1>6, <1>7, <1>8
     DEF rows, CommitRunning, Ingest, Finish, CancelCommit

(* The frame of the exposure at hand is on file once it is to be recorded.  *)
FrameFiled == pc = "record" => \E f \in archive : f.block = cur /\ f.step = idx

(* The archive only grows.                                                  *)
LEMMA ArchiveGrows ==
    ASSUME Next
    PROVE  archive \subseteq archive'
BY RowsWriters
   DEF rows, CommitRunning, MarkRunning, SlewEnds, SlewFails, ActWithoutLink, DitherNothing,
       PrecisionEnds, ClosePrompt, ExposureFails, Ingest, FrameDone, UnknownKind, Finish,
       CancelCommit, ResumeCommit, StepFrame

(* An exposure step says DONE only with its frame in the archive, through   *)
(* any number of runs, resumes, errors and crashes.                         *)
THEOREM DoneIsFiled == Spec => []DoneFramesArchived
<1>1. Init => DoneFramesArchived /\ FrameFiled
  BY DEF Init, DoneFramesArchived, FrameFiled, Frames, FramesIn
<1>2. TypeOK /\ AwaitsItsKind /\ DoneFramesArchived /\ FrameFiled /\ [Next]_vars
        => DoneFramesArchived' /\ FrameFiled'
  <2> SUFFICES ASSUME TypeOK, AwaitsItsKind, DoneFramesArchived, FrameFiled, [Next]_vars
               PROVE  DoneFramesArchived' /\ FrameFiled'
    OBVIOUS
  <2>1. CASE UNCHANGED vars
    BY <2>1 DEF vars, rows, locals, DoneFramesArchived, FrameFiled, Frames, FramesIn
  <2>2. CASE Next
    <3>1. archive \subseteq archive'
      BY <2>2, ArchiveGrows
    <3>2. ASSUME NEW b \in Blocks, NEW i \in Steps,
                 Kinds[b][i] \in ExposeKind, stepState'[b][i] = "done"
          PROVE  \E f \in archive' : f.block = b /\ f.step = i
      <4>1. CASE stepState[b][i] = "done"
        BY <3>1, <3>2, <4>1 DEF DoneFramesArchived, Frames, FramesIn
      <4>2. CASE stepState[b][i] # "done"
        BY <2>2, <3>1, <3>2, <4>2, StepWriters DEF FrameFiled, ExposeKind
      <4> QED
        BY <4>1, <4>2
    <3>3. FrameFiled'
      <4> SUFFICES ASSUME pc' = "record" PROVE \E f \in archive' : f.block = cur' /\ f.step = idx'
        BY DEF FrameFiled
      <4>1. CASE Ingest
        <5>1. [block |-> cur, step |-> idx, at |-> shot] \in archive'
          BY <4>1 DEF Ingest
        <5>2. UNCHANGED <<cur, idx>>
          BY <4>1 DEF Ingest, locals
        <5> QED
          BY <5>1, <5>2
      <4>2. CASE UNCHANGED pc
        BY <2>2, <3>1, <4>2, WithinStep DEF FrameFiled
      <4> QED
        BY <2>2, <4>1, <4>2, WithinStep DEF SendSlew, SendDither, OpenPrompt, Expose, CaptureReturns
    <3> QED
      BY <3>2, <3>3 DEF DoneFramesArchived, Frames, FramesIn
  <2> QED
    BY <2>1, <2>2
<1> QED
  BY <1>1, <1>2, Typing, WaitsFitSteps, PTL DEF Spec

-----------------------------------------------------------------------------
(***************************************************************************)
(* Prompts.                                                                *)
(***************************************************************************)

(* While a prompt is open, the confirmation flag is that of this prompt.    *)
PromptHeard == pc = "prompt" /\ confirmed => answered

(* confirm() raises flag and history together, and _await_confirm clears    *)
(* them together.                                                           *)
LEMMA HeardKept ==
    ASSUME PromptHeard, Next
    PROVE  PromptHeard'
<1> SUFFICES ASSUME pc' = "prompt", confirmed' PROVE answered'
  BY DEF PromptHeard
<1>1. CASE OpenPrompt
  BY <1>1 DEF OpenPrompt
<1>2. CASE Confirm
  BY <1>2 DEF Confirm, UnchangedBesidesFlags
<1>3. CASE ~OpenPrompt /\ ~Confirm
  <2>1. pc = "prompt"
    BY <1>3, WithinStep DEF SendSlew, SendDither, Expose, CaptureReturns, Ingest
  <2>2. ~Crash /\ ~WrapUp /\ ~Start /\ ~LoopError
    BY DEF Crash, WrapUp, Start, LoopError
  <2>3. UNCHANGED confirmed
    BY <1>3, <2>2, FlagsWriters
       DEF flags, PollHeld, NothingRunnable, CancelExecution, Launch, LaunchResumed, Pause, Resume,
           Abort, ManualMove, SetManual, SafetyTrips
  <2>4. UNCHANGED answered
    BY <1>3, <2>2, HistoryWriters
       DEF history, Load, CommitRunning, CancelCommit, CancelExecution, ResumeCommit,
           UnchangedBesidesCall, Abort, SafetyTrips
  <2> QED
    BY <2>1, <2>3, <2>4 DEF PromptHeard
<1> QED
  BY <1>1, <1>2, <1>3

(* A prompt step is DONE only by a confirmation given while it was shown.   *)
THEOREM PromptsAreAnswered == Spec => PromptAnswered
<1>1. Init => PromptHeard
  BY DEF Init, PromptHeard
<1>2. PromptHeard /\ [Next]_vars => PromptHeard'
  BY HeardKept DEF PromptHeard, vars, flags, history
<1>3. TypeOK /\ AwaitsItsKind /\ PromptHeard /\ [Next]_vars =>
        [\A b \in Blocks, i \in Steps :
            Kinds[b][i] = "prompt" /\ stepState[b][i] # "done" /\ stepState'[b][i] = "done"
                => answered]_vars
  BY StepWriters DEF PromptHeard, ExposeKind
<1> QED
  BY <1>1, <1>2, <1>3, Typing, WaitsFitSteps, PTL DEF Spec, PromptAnswered

-----------------------------------------------------------------------------
(***************************************************************************)
(* Nothing is taken twice.                                                 *)
(***************************************************************************)
InRun == {"gate"} \cup AtStep

(* The snapshot of step states that _run_block works on is true of what is  *)
(* still ahead: a step that is DONE in the rows is DONE in the snapshot,    *)
(* and the step at hand is open in the snapshot.                            *)
SnapshotTrue ==
    /\ pc \in {"commit", "start"} \cup InRun =>
          \A i \in Steps :
             stepState[cur][i] = "done" /\ (pc \in InRun => i >= idx) => plan[i] = "done"
    /\ pc \in AtStep => plan[idx] \notin Settled

(* How a run advances: by its opening, within a step, or to the next step.  *)
LEMMA RunMoves ==
    ASSUME Next, pc' \in {"commit", "start"} \cup InRun
    PROVE  \/ UNCHANGED <<pc, cur, plan, idx>>
           \/ Load \/ CommitRunning \/ Start \/ GatePasses
           \/ pc \in InRun /\ pc' = "gate" /\ idx' = idx + 1 /\ UNCHANGED <<cur, plan>>
           \/ pc \in AtStep /\ pc' \in AtStep /\ UNCHANGED <<cur, plan, idx>>
BY LocalsWriters
   DEF InRun, AtStep, locals, Poll, Scan, NothingRunnable, CheckWindow,
       SkipSettled, GateAborts, AtOpenStep, LastStepDone,
       MarkRunning, SendSlew, SendDither, SlewEnds, SlewFails, ActWithoutLink, DitherNothing,
       PrecisionEnds, OpenPrompt, ClosePrompt, Expose, CaptureReturns, ExposureFails, Ingest,
       FrameDone, UnknownKind, Finish, WrapUp, LoopError, Crash, Record, Raise, StepFrame

(* The rows may be edited while a block runs, by a cancel or a resume, but  *)
(* never so that the snapshot would redo a finished step.                   *)
THEOREM SnapshotStaysTrue == Spec => []SnapshotTrue
<1>1. Init => SnapshotTrue
  BY DEF Init, SnapshotTrue, InRun, AtStep
<1>2. TypeOK /\ AwaitsItsKind /\ SnapshotTrue /\ [Next]_vars => SnapshotTrue'
  <2> SUFFICES ASSUME TypeOK, AwaitsItsKind, SnapshotTrue, [Next]_vars PROVE SnapshotTrue'
    OBVIOUS
  <2>1. CASE UNCHANGED vars
    BY <2>1 DEF SnapshotTrue, vars, rows, locals
  <2>2. CASE Next /\ pc' \in {"commit", "start"} \cup InRun
    <3> USE DEF InRun, AtStep
    <3>1. idx \in Nat
      <4>1. idx \in 1 .. (NSteps + 1)
        BY DEF TypeOK, LocalsTypeOK
      <4> QED
        BY <4>1, SequencerConstants
    <3>2. cur' = cur
      BY <2>2, RunMoves DEF Load, CommitRunning, Start, GatePasses, locals
    <3>3. cur \in Blocks
      <4>1. pc \in Working
        BY <2>2, RunMoves
           DEF Load, CommitRunning, Start, GatePasses, AtOpenStep, Working, Executing
      <4> QED
        BY <4>1 DEF TypeOK, LocalsTypeOK
    <3>4. ASSUME NEW i \in Steps, stepState'[cur][i] = "done", pc' \in InRun => i >= idx'
          PROVE  plan'[i] = "done"
      <4>1. CASE stepState[cur][i] = "done"
        <5>1. CASE Load
          BY <4>1, <5>1 DEF Load
        <5>2. CASE CommitRunning \/ Start
          BY <4>1, <5>2 DEF CommitRunning, Start, SnapshotTrue, locals
        <5>3. CASE GatePasses
          BY <3>4, <4>1, <5>3 DEF GatePasses, AtOpenStep, SnapshotTrue, locals
        <5>4. CASE UNCHANGED <<pc, cur, plan, idx>>
          BY <3>4, <4>1, <5>4, <2>2 DEF SnapshotTrue
        <5>5. CASE pc \in InRun /\ pc' = "gate" /\ idx' = idx + 1 /\ UNCHANGED <<cur, plan>>
          BY <3>1, <3>4, <4>1, <5>5, SequencerConstants DEF SnapshotTrue, Steps
        <5>6. CASE pc \in AtStep /\ pc' \in AtStep /\ UNCHANGED <<cur, plan, idx>>
          BY <3>4, <4>1, <5>6 DEF SnapshotTrue
        <5> QED
          BY <2>2, <5>1, <5>2, <5>3, <5>4, <5>5, <5>6, RunMoves
      <4>2. CASE stepState[cur][i] # "done"
        <5>1. i = idx /\ idx' = idx + 1 /\ pc \in AtStep
          BY <2>2, <3>3, <3>4, <4>2, StepWriters
        <5>2. pc' \in InRun
          BY <2>2, <5>1, RunMoves DEF Load, CommitRunning, Start, GatePasses
        <5> QED
          BY <3>1, <3>4, <5>1, <5>2
      <4> QED
        BY <4>1, <4>2
    <3>5. ASSUME pc' \in AtStep PROVE plan'[idx'] \notin Settled
      BY <2>2, <3>5, RunMoves
         DEF Load, CommitRunning, Start, GatePasses, AtOpenStep, SnapshotTrue, locals
    <3> QED
      BY <3>2, <3>4, <3>5 DEF SnapshotTrue
  <2>3. CASE pc' \notin {"commit", "start"} \cup InRun
    BY <2>3 DEF SnapshotTrue, InRun
  <2> QED
    BY <2>1, <2>2, <2>3
<1> QED
  BY <1>1, <1>2, Typing, WaitsFitSteps, PTL DEF Spec

(* A step that is DONE stays DONE, unless by a resume that read it FAILED,  *)
(* and the step at hand is not DONE yet.                                    *)
LEMMA DoneKept ==
    ASSUME TypeOK, SnapshotTrue, Next, NEW b \in Blocks, NEW i \in Steps,
           stepState[b][i] = "done"
    PROVE  /\ \/ stepState'[b][i] = "done"
              \/ \E h \in Handlers : ResumeCommit(h) /\ call[h].block = b
                                                    /\ call[h].steps[i] = "failed"
           /\ ~(pc \in AtStep /\ b = cur /\ i = idx)
<1>1. stepState \in [Blocks -> [Steps -> StepStates]]
  BY DEF TypeOK, RowsTypeOK
<1>2. ~(pc \in AtStep /\ b = cur /\ i = idx)
  <2> SUFFICES ASSUME pc \in AtStep, b = cur, i = idx PROVE FALSE
    OBVIOUS
  <2>1. idx \in Nat
    <3>1. idx \in 1 .. (NSteps + 1)
      BY DEF TypeOK, LocalsTypeOK
    <3> QED
      BY <3>1, SequencerConstants
  <2> QED
    BY <2>1 DEF SnapshotTrue, InRun, Settled
<1>3. ASSUME NEW outcome, pc \in AtStep, stepState' = [stepState EXCEPT ![cur][idx] = outcome]
      PROVE  stepState'[b][i] = "done"
  BY <1>1, <1>2, <1>3
<1> DEFINE Kept == stepState'[b][i] = "done"
<1>4. ASSUME UNCHANGED stepState PROVE Kept
  BY <1>4
<1>5. ASSUME \/ SlewEnds \/ SlewFails \/ ActWithoutLink \/ DitherNothing \/ PrecisionEnds
             \/ ClosePrompt \/ ExposureFails \/ FrameDone \/ UnknownKind
      PROVE  Kept
  BY <1>3, <1>5
     DEF SlewEnds, SlewFails, ActWithoutLink, DitherNothing, PrecisionEnds, ClosePrompt,
         ExposureFails, FrameDone, UnknownKind, Record, Raise, AtStep
<1>6. ASSUME MarkRunning PROVE Kept
  BY <1>3, <1>6 DEF MarkRunning, AtStep
<1>7. ASSUME NEW h \in Handlers, ResumeCommit(h),
             ~(call[h].block = b /\ call[h].steps[i] = "failed")
      PROVE  Kept
  BY <1>1, <1>7 DEF ResumeCommit
<1> QED
  BY <1>2, <1>4, <1>5, <1>6, <1>7, RowsWriters
     DEF rows, CommitRunning, Ingest, Finish, CancelCommit

(* No finished step is reopened and no frame is exposed for it again, over  *)
(* any sequence of pauses, cancels, resumes, errors and crashes, but where  *)
(* a resume that had read the step as FAILED comes after the run that       *)
(* finished it.                                                             *)
THEOREM NothingRetaken == Spec => NeverRetaken
<1>1. TypeOK /\ SnapshotTrue /\ [Next]_vars =>
        [\A b \in Blocks, i \in Steps : stepState[b][i] = "done" =>
            /\ \/ stepState'[b][i] = "done"
               \/ \E h \in Handlers : ResumeCommit(h) /\ call[h].block = b
                                                     /\ call[h].steps[i] = "failed"
            /\ ~(cur = b /\ idx = i /\ pc = "act" /\ pc' = "exposing")]_vars
  BY DoneKept DEF AtStep
<1> QED
  BY <1>1, Typing, SnapshotStaysTrue, PTL DEF Spec, NeverRetaken

-----------------------------------------------------------------------------
(***************************************************************************)
(* A block closed as DONE is settled, and its count is right.              *)
(***************************************************************************)

(* The snapshot is exact about finished steps that are still ahead: nobody  *)
(* takes back a step that is DONE or SKIPPED while an uncrossed block runs. *)
SnapshotExact ==
    pc \in {"commit", "start"} \cup InRun /\ cur \notin crossed =>
        \A i \in Steps :
            plan[i] \in Settled /\ (pc \in InRun => i >= idx) => stepState[cur][i] = plan[i]

(* An uncrossed run has its block's row to itself. *)
SaysRunning ==
    pc \in Executing \cup {"start"} /\ cur \notin crossed => blockState[cur] = "running"

(* The exposures of block b that are DONE among its first k - 1 steps. *)
Taken(b, k) == {i \in Frames(b) : i < k}

(* What an uncrossed run has behind it: final steps, and frames counted. *)
Walked ==
    pc \in Executing /\ cur \notin crossed =>
        /\ \A i \in Steps : i < idx => stepState[cur][i] \in Final
        /\ frames = Cardinality(Taken(cur, idx))

(* Only a run that saw its last step ends unaborted. *)
WholeWalk == pc = "finish" /\ ~aborted => idx = NSteps + 1

(* Step rows are written by the run, at the step it is at, or by a resume.  *)
LEMMA StepRows ==
    ASSUME Next
    PROVE  \/ UNCHANGED stepState
           \/ \E h \in Handlers : ResumeCommit(h)
           \/ pc \in AtStep /\ \E outcome \in StepStates \cup {stepState[cur][idx]} :
                 stepState' = [stepState EXCEPT ![cur][idx] = outcome]
<1>1. CASE \/ SlewEnds \/ SlewFails \/ ActWithoutLink \/ DitherNothing \/ PrecisionEnds
           \/ ClosePrompt \/ ExposureFails \/ FrameDone \/ UnknownKind
  <2>1. pc \in AtStep
    BY <1>1
       DEF SlewEnds, SlewFails, ActWithoutLink, DitherNothing, PrecisionEnds, ClosePrompt,
           ExposureFails, FrameDone, UnknownKind, AtStep
  <2>2. \E outcome \in StepStates : stepState' = [stepState EXCEPT ![cur][idx] = outcome]
    BY <1>1
       DEF SlewEnds, SlewFails, ActWithoutLink, DitherNothing, PrecisionEnds, ClosePrompt,
           ExposureFails, FrameDone, UnknownKind, Record, Raise, StepStates
  <2> QED
    BY <2>1, <2>2
<1>2. CASE MarkRunning
  <2> DEFINE outcome == IF stepState[cur][idx] = "pending" THEN "running"
                        ELSE stepState[cur][idx]
  <2>1. pc \in AtStep /\ stepState' = [stepState EXCEPT ![cur][idx] = outcome]
    BY <1>2 DEF MarkRunning, AtStep
  <2>2. outcome \in StepStates \cup {stepState[cur][idx]}
    BY DEF StepStates
  <2> HIDE DEF outcome
  <2> QED
    BY <2>1, <2>2
<1> QED
  BY <1>1, <1>2, RowsWriters DEF rows, CommitRunning, Ingest, Finish, CancelCommit

(* Away from the step at hand, a run leaves step rows alone. *)
LEMMA OtherSteps ==
    ASSUME TypeOK, Next, NEW b \in Blocks, NEW i \in Steps,
           ~(pc \in AtStep /\ b = cur /\ i = idx),
           ~(\E h \in Handlers : ResumeCommit(h) /\ call[h].block = b)
    PROVE  stepState'[b][i] = stepState[b][i]
<1>1. stepState \in [Blocks -> [Steps -> StepStates]]
  BY DEF TypeOK, RowsTypeOK
<1>2. ASSUME NEW h \in Handlers, ResumeCommit(h) PROVE stepState'[b][i] = stepState[b][i]
  BY <1>1, <1>2 DEF ResumeCommit
<1>3. ASSUME pc \in AtStep, NEW outcome,
             stepState' = [stepState EXCEPT ![cur][idx] = outcome]
      PROVE  stepState'[b][i] = stepState[b][i]
  BY <1>1, <1>3
<1> QED
  BY <1>2, <1>3, StepRows

(* The place in the plan is a number. *)
LEMMA IdxIsNat == ASSUME TypeOK PROVE idx \in Nat
<1>1. idx \in 1 .. (NSteps + 1)
  BY DEF TypeOK, LocalsTypeOK
<1> QED
  BY <1>1, SequencerConstants

LEMMA SnapshotExactKept ==
    ASSUME TypeOK, RemovalsRead, SnapshotTrue, SnapshotExact, Next
    PROVE  SnapshotExact'
<1> USE DEF InRun, AtStep
<1> SUFFICES ASSUME pc' \in {"commit", "start"} \cup InRun, cur' \notin crossed',
                    NEW i \in Steps, plan'[i] \in Settled, pc' \in InRun => i >= idx'
             PROVE  stepState'[cur'][i] = plan'[i]
  BY DEF SnapshotExact
<1>1. cur' = cur
  BY RunMoves DEF Load, CommitRunning, Start, GatePasses, locals
<1>2. cur \in Blocks
  <2>1. pc \in Working
    BY RunMoves DEF Load, CommitRunning, Start, GatePasses, AtOpenStep, Working, Executing
  <2> QED
    BY <2>1 DEF TypeOK, LocalsTypeOK
<1>3. CASE Load
  BY <1>3 DEF Load, rows
<1>4. CASE ~Load
  <2>1. plan' = plan
    BY <1>4, RunMoves DEF CommitRunning, Start, GatePasses, locals
  <2>2. pc \in {"commit", "start"} \cup InRun
    BY <1>4, RunMoves DEF CommitRunning, Start, GatePasses, AtOpenStep
  <2>3. ASSUME pc \in InRun PROVE i >= idx
    <3>1. idx' = idx \/ idx' = idx + 1
      BY <1>4, <2>3, RunMoves DEF CommitRunning, Start, GatePasses, locals
    <3>2. pc' \in InRun
      BY <1>4, <2>3, RunMoves DEF CommitRunning, Start, GatePasses
    <3> QED
      BY <3>1, <3>2, IdxIsNat, SequencerConstants DEF Steps
  <2>4. stepState[cur][i] = plan[i]
    BY <1>1, <1>4, <2>1, <2>2, <2>3, CrossedKept DEF SnapshotExact
  <2>5. CASE pc \in AtStep /\ i = idx
    BY <2>1, <2>5 DEF SnapshotTrue
  <2>7. ASSUME NEW h \in Handlers, ResumeCommit(h), call[h].block = cur PROVE FALSE
    <3>1. HasRead(cur)
      BY <2>2 DEF HasRead, Executing
    <3> QED
      BY <1>1, <1>2, <2>7, <3>1, Uncrossed
  <2>6. CASE ~(pc \in AtStep /\ i = idx)
    BY <1>1, <1>2, <2>1, <2>4, <2>6, <2>7, OtherSteps
  <2> QED
    BY <1>1, <2>5, <2>6
<1> QED
  BY <1>3, <1>4

LEMMA SaysRunningKept ==
    ASSUME TypeOK, RemovalsRead, SaysRunning, Next
    PROVE  SaysRunning'
<1> SUFFICES ASSUME pc' \in Executing \cup {"start"}, cur' \notin crossed'
             PROVE  blockState'[cur'] = "running"
  BY DEF SaysRunning
<1>0. blockState \in [Blocks -> BlockStates]
  BY DEF TypeOK, RowsTypeOK
<1>1. CASE CommitRunning
  <2>1. cur \in Blocks /\ cur' = cur
    BY <1>1 DEF CommitRunning, locals, TypeOK, LocalsTypeOK, Working
  <2> QED
    BY <1>0, <1>1, <2>1 DEF CommitRunning
<1>2. CASE ~CommitRunning
  <2>1. ~Finish /\ ~LoopError /\ ~Crash
    BY DEF Finish, LoopError, Crash, Executing, AtStep
  <2>2. /\ cur' \in Blocks
        /\ pc \in Executing \cup {"start"} /\ cur' = cur
    <3>1. pc' \in Executing /\ ~Start => pc \in Executing /\ cur' = cur
      BY StaysWithBlock
    <3>2. pc' = "start" => pc = "start" /\ cur' = cur
      BY <1>2, RunMoves DEF InRun, AtStep, Load, Start, GatePasses
    <3>3. Start => pc = "start" /\ cur' = cur
      BY DEF Start
    <3>4. pc \in Executing \cup {"start"} /\ cur' = cur
      BY <3>1, <3>2, <3>3
    <3> QED
      BY <3>4 DEF TypeOK, LocalsTypeOK, Working
  <2>3. ~Load
    BY DEF Load, Executing, AtStep
  <2>4. cur \notin crossed
    BY <2>2, <2>3, CrossedKept
  <2>5. blockState[cur] = "running"
    BY <2>2, <2>4 DEF SaysRunning
  <2>6. \/ UNCHANGED blockState
        \/ \E h \in Handlers : CancelCommit(h) \/ ResumeCommit(h)
    BY <1>2, <2>1, RowsWriters
       DEF rows, MarkRunning, SlewEnds, SlewFails, ActWithoutLink, DitherNothing,
           PrecisionEnds, ClosePrompt, ExposureFails, Ingest, FrameDone, UnknownKind, StepFrame
  <2>7. ASSUME NEW h \in Handlers, CancelCommit(h) \/ ResumeCommit(h)
        PROVE  blockState'[cur] = "running"
    <3>1. Running(cur)
      BY <2>2 DEF Running
    <3>2. call[h].block # cur
      BY <2>2, <2>7, <3>1, Uncrossed
    <3> QED
      BY <1>0, <2>2, <2>5, <2>7, <3>2 DEF CancelCommit, ResumeCommit
  <2> QED
    BY <2>2, <2>5, <2>6, <2>7
<1> QED
  BY <1>1, <1>2

LEMMA WholeWalkKept ==
    ASSUME WholeWalk, Next
    PROVE  WholeWalk'
<1> SUFFICES ASSUME pc' = "finish", ~aborted' PROVE idx' = NSteps + 1
  BY DEF WholeWalk
<1>1. CASE UNCHANGED <<pc, locals>>
  BY <1>1 DEF WholeWalk, locals
<1>2. ~Record("done") /\ ~Record("skipped") /\ ~Record("failed")
  BY DEF Record
<1>3. ~Raise
  BY DEF Raise
<1> QED
  BY <1>1, <1>2, <1>3, LocalsWriters
     DEF Poll, Scan, NothingRunnable, CheckWindow, Load, CommitRunning, Start, SkipSettled,
         AtOpenStep, GateAborts, GatePasses, LastStepDone, locals, MarkRunning, SendSlew, SendDither,
         SlewEnds, SlewFails, ActWithoutLink, DitherNothing, PrecisionEnds, OpenPrompt,
         ClosePrompt, Expose, CaptureReturns, ExposureFails, Ingest, FrameDone, UnknownKind,
         Finish, WrapUp, LoopError, Crash

(* How a run goes on: it is opened, walks past a step (a finished one, one  *)
(* that took its frame, one that took none), or stays at its place.         *)
LEMMA WalkMoves ==
    ASSUME Next, AwaitsItsKind, pc' \in Executing
    PROVE  \/ Start \/ SkipSettled \/ FrameDone
           \/ /\ pc \in AtStep /\ cur' = cur /\ idx' = idx + 1 /\ frames' = frames
              /\ \E outcome \in Final :
                    /\ stepState' = [stepState EXCEPT ![cur][idx] = outcome]
                    /\ outcome = "done" => Kinds[cur][idx] \notin ExposeKind
           \/ pc \in Executing /\ UNCHANGED <<cur, idx, frames>>
<1>1. CASE SlewEnds \/ DitherNothing \/ ClosePrompt \/ UnknownKind
  <2>1. pc \in AtStep /\ cur' = cur /\ idx' = idx + 1 /\ frames' = frames
    BY <1>1 DEF SlewEnds, DitherNothing, ClosePrompt, UnknownKind, Record, StepFrame, AtStep
  <2>2. Kinds[cur][idx] \notin ExposeKind
    BY <1>1 DEF SlewEnds, DitherNothing, ClosePrompt, UnknownKind, AwaitsItsKind, StepKind, ExposeKind
  <2>3. \E outcome \in Final : stepState' = [stepState EXCEPT ![cur][idx] = outcome]
    BY <1>1 DEF SlewEnds, DitherNothing, ClosePrompt, UnknownKind, Record, Final, Settled
  <2> QED
    BY <2>1, <2>2, <2>3
<1>2. CASE Raise /\ UNCHANGED <<cur, frames>> /\ pc \in AtStep
  BY <1>2 DEF Raise, Final, Settled, Executing
<1>3. CASE PrecisionEnds /\ ~Raise
  <2>1. pc \in AtStep /\ cur' = cur /\ idx' = idx + 1 /\ frames' = frames
    BY <1>3 DEF PrecisionEnds, Record, StepFrame, AtStep
  <2>2. Kinds[cur][idx] \notin ExposeKind
    BY <1>3 DEF PrecisionEnds, StepKind, ExposeKind
  <2>3. \E outcome \in Final : stepState' = [stepState EXCEPT ![cur][idx] = outcome]
    BY <1>3 DEF PrecisionEnds, Record, Final, Settled
  <2> QED
    BY <2>1, <2>2, <2>3
<1>4. CASE (SlewFails \/ ActWithoutLink \/ ExposureFails \/ PrecisionEnds) /\ Raise
  BY <1>2, <1>4
     DEF SlewFails, ActWithoutLink, ExposureFails, PrecisionEnds, StepFrame, AtStep
<1>5. CASE UNCHANGED <<pc, locals>>
  BY <1>5 DEF locals
<1>6. CASE \/ GateAborts \/ GatePasses \/ LastStepDone \/ MarkRunning \/ SendSlew \/ SendDither
           \/ OpenPrompt \/ Expose \/ CaptureReturns \/ Ingest
  BY <1>6
     DEF GateAborts, AtOpenStep, GatePasses, LastStepDone, MarkRunning, SendSlew, SendDither,
         OpenPrompt, Expose, CaptureReturns, Ingest, locals, Executing, AtStep
<1>7. ~(Poll \/ Scan \/ NothingRunnable \/ CheckWindow \/ Load \/ CommitRunning \/ Finish)
  BY DEF Poll, Scan, NothingRunnable, CheckWindow, Load, CommitRunning, Finish, Executing, AtStep
<1>8. ~WrapUp /\ ~LoopError /\ ~Crash
  BY DEF WrapUp, LoopError, Crash, Executing, AtStep
<1>9. (SlewFails \/ ActWithoutLink \/ ExposureFails) => Raise
  BY DEF SlewFails, ActWithoutLink, ExposureFails
<1> QED
  BY <1>1, <1>3, <1>4, <1>5, <1>6, <1>7, <1>8, <1>9, LocalsWriters

(* Frames already taken are finitely many. *)
LEMMA TakenFinite ==
    ASSUME NEW b, NEW k
    PROVE  IsFiniteSet(Taken(b, k))
<1>1. IsFiniteSet(Steps)
  BY SequencerConstants, FS_Interval DEF Steps
<1>2. Taken(b, k) \subseteq Steps
  BY DEF Taken, Frames, FramesIn
<1> QED
  BY <1>1, <1>2, FS_Subset

LEMMA WalkedKept ==
    ASSUME TypeOK, RemovalsRead, AwaitsItsKind, SnapshotExact, Walked, Next
    PROVE  Walked'
<1> SUFFICES ASSUME pc' \in Executing, cur' \notin crossed'
             PROVE  /\ \A i \in Steps : i < idx' => stepState'[cur'][i] \in Final
                    /\ frames' = Cardinality(Taken(cur, idx)')
  BY DEF Walked
<1> USE IdxIsNat
<1>0. stepState \in [Blocks -> [Steps -> StepStates]] /\ frames \in Nat
  BY DEF TypeOK, RowsTypeOK, LocalsTypeOK
<1>1. CASE Start
  <2>1. Taken(cur, idx)' = {}
    BY <1>1, SequencerConstants DEF Start, Taken, Frames, FramesIn, Steps
  <2>2. \A i \in Steps : ~(i < 1)
    BY SequencerConstants DEF Steps
  <2>3. Cardinality(Taken(cur, idx)') = 0
    BY <2>1, FS_EmptySet
  <2> QED
    BY <1>1, <2>2, <2>3 DEF Start
<1>2. CASE ~Start
  <2>1. pc \in Executing /\ cur' = cur
    BY <1>2, StaysWithBlock
  <2>2. cur \in Blocks
    BY <2>1 DEF TypeOK, LocalsTypeOK, Working
  <2>3. ~Load
    BY <2>1 DEF Load, Executing, AtStep
  <2>4. cur \notin crossed /\ ~(\E h \in Handlers : ResumeCommit(h) /\ call[h].block = cur)
    <3>1. cur \notin crossed
      BY <2>1, <2>3, CrossedKept
    <3>2. HasRead(cur)
      BY <2>1 DEF HasRead
    <3> QED
      BY <2>1, <2>2, <3>1, <3>2, Uncrossed
  <2>5. /\ \A i \in Steps : i < idx => stepState[cur][i] \in Final
        /\ frames = Cardinality(Taken(cur, idx))
    BY <2>1, <2>4 DEF Walked
  <2>6. ASSUME NEW i \in Steps, i < idx PROVE stepState'[cur][i] = stepState[cur][i]
    BY <2>2, <2>4, <2>6, OtherSteps
  <2>7. CASE UNCHANGED <<cur, idx, frames>>
    <3>1. Taken(cur, idx)' = Taken(cur, idx)
      BY <2>6, <2>7 DEF Taken, Frames, FramesIn
    <3> QED
      BY <2>5, <2>6, <2>7, <3>1
  <2>8. ASSUME cur' = cur, idx' = idx + 1, idx \in Steps, stepState'[cur][idx] \in Final,
               frames' = (IF stepState'[cur][idx] = "done" /\ Kinds[cur][idx] \in ExposeKind
                          THEN frames + 1 ELSE frames)
        PROVE  /\ \A i \in Steps : i < idx' => stepState'[cur'][i] \in Final
               /\ frames' = Cardinality(Taken(cur, idx)')
    <3>1. \A i \in Steps : i < idx' <=> i < idx \/ i = idx
      BY <2>8, SequencerConstants DEF Steps
    <3>2. \A i \in Steps : i < idx' => stepState'[cur'][i] \in Final
      BY <2>5, <2>6, <2>8, <3>1
    <3>3. CASE stepState'[cur][idx] = "done" /\ Kinds[cur][idx] \in ExposeKind
      <4>1. Taken(cur, idx)' = Taken(cur, idx) \cup {idx}
        BY <2>6, <2>8, <3>1, <3>3 DEF Taken, Frames, FramesIn
      <4>2. idx \notin Taken(cur, idx)
        BY DEF Taken
      <4> QED
        BY <2>5, <2>8, <3>2, <3>3, <4>1, <4>2, TakenFinite, FS_AddElement
    <3>4. CASE ~(stepState'[cur][idx] = "done" /\ Kinds[cur][idx] \in ExposeKind)
      <4>1. Taken(cur, idx)' = Taken(cur, idx)
        BY <2>6, <2>8, <3>1, <3>4 DEF Taken, Frames, FramesIn
      <4> QED
        BY <2>5, <2>8, <3>2, <3>4, <4>1
    <3> QED
      BY <3>3, <3>4
  <2>9. CASE SkipSettled
    <3>1. idx \in Steps /\ plan[idx] \in Settled /\ stepState[cur][idx] = plan[idx]
      BY <2>4, <2>9 DEF SkipSettled, SnapshotExact, InRun
    <3>2. stepState' = stepState /\ cur' = cur /\ idx' = idx + 1
      BY <2>9 DEF SkipSettled, rows
    <3>3. frames' = (IF stepState'[cur][idx] = "done" /\ Kinds[cur][idx] \in ExposeKind
                     THEN frames + 1 ELSE frames)
      BY <2>9, <3>1, <3>2 DEF SkipSettled
    <3> QED
      BY <2>8, <3>1, <3>2, <3>3 DEF Final
  <2>10. CASE FrameDone
    <3>1. idx \in Steps /\ Kinds[cur][idx] \in ExposeKind
      BY <2>10, AtStepHasStep DEF FrameDone, AtStep, AwaitsItsKind, StepKind, TypeOK
    <3>2. cur' = cur /\ idx' = idx + 1 /\ frames' = frames + 1
      BY <2>10 DEF FrameDone, Record, StepFrame
    <3>3. stepState'[cur][idx] = "done"
      BY <1>0, <2>2, <2>10, <3>1 DEF FrameDone, Record
    <3> QED
      BY <2>8, <3>1, <3>2, <3>3 DEF Final, Settled
  <2>11. ASSUME pc \in AtStep, cur' = cur, idx' = idx + 1, frames' = frames,
                NEW outcome \in Final, stepState' = [stepState EXCEPT ![cur][idx] = outcome],
                outcome = "done" => Kinds[cur][idx] \notin ExposeKind
         PROVE  /\ \A i \in Steps : i < idx' => stepState'[cur'][i] \in Final
                /\ frames' = Cardinality(Taken(cur, idx)')
    <3>1. idx \in Steps
      BY <2>11, AtStepHasStep DEF TypeOK
    <3>2. stepState'[cur][idx] = outcome
      BY <1>0, <2>2, <2>11, <3>1
    <3> QED
      BY <2>8, <2>11, <3>1, <3>2
  <2> QED
    BY <1>2, <2>7, <2>9, <2>10, <2>11, WalkMoves
<1> QED
  BY <1>1, <1>2

LEMMA SettledKept ==
    ASSUME TypeOK, RowsOpen, RemovalsRead, SaysRunning, Walked, WholeWalk, DoneMeansSettled,
           Next
    PROVE  DoneMeansSettled'
<1> SUFFICES ASSUME NEW b \in Blocks, b \notin crossed', blockState'[b] = "done"
             PROVE  /\ \A i \in Steps : stepState'[b][i] \in Final
                    /\ nDone'[b] = Cardinality(Frames(b)')
  BY DEF DoneMeansSettled
<1>0. /\ blockState \in [Blocks -> BlockStates]
      /\ nDone \in [Blocks -> Nat]
  BY DEF TypeOK, RowsTypeOK
<1>1. ASSUME NEW h \in Handlers, CancelCommit(h) \/ ResumeCommit(h)
      PROVE  call[h].block # b
  BY <1>1, Uncrossed
<1>2. ~(CommitRunning /\ cur = b)
  BY <1>0 DEF CommitRunning
<1>3. b \notin crossed
  <2>1. CASE Load
    <3>1. blockState[cur] # "done" \/ cur \notin Blocks
      BY <2>1 DEF Load, RowsOpen, Choosing, L!Takable
    <3>2. cur # b
      BY <2>1, <3>1 DEF Load, rows
    <3> QED
      BY <2>1, <3>2 DEF Load
  <2>2. CASE ~Load
    BY <2>2, CrossedKept
  <2> QED
    BY <2>1, <2>2
<1>4. CASE Finish /\ cur = b
  <2>1. ~aborted /\ UNCHANGED <<stepState, idx, cur>>
    BY <1>0, <1>4 DEF Finish, Verdict, locals
  <2>2. idx = NSteps + 1 /\ pc \in Executing
    BY <1>4, <2>1 DEF Finish, WholeWalk, Executing
  <2>3. \A i \in Steps : i < idx
    BY <2>2, SequencerConstants DEF Steps
  <2>4. Taken(b, idx) = Frames(b) /\ Frames(b)' = Frames(b)
    BY <2>1, <2>3 DEF Taken, Frames, FramesIn
  <2>5. /\ \A i \in Steps : stepState[b][i] \in Final
        /\ frames = Cardinality(Frames(b))
    BY <1>3, <1>4, <2>2, <2>3, <2>4 DEF Walked
  <2>6. nDone'[b] = frames
    BY <1>0, <1>4 DEF Finish
  <2> QED
    BY <2>1, <2>4, <2>5, <2>6
<1>5. CASE ~(Finish /\ cur = b)
  <2>1. blockState[b] = "done" /\ nDone'[b] = nDone[b]
    BY <1>0, <1>1, <1>2, <1>5, RowsWriters
       DEF rows, CommitRunning, MarkRunning, SlewEnds, SlewFails, ActWithoutLink, DitherNothing,
           PrecisionEnds, ClosePrompt, ExposureFails, Ingest, FrameDone, UnknownKind, StepFrame,
           Finish, CancelCommit, ResumeCommit
  <2>2. ~(pc \in AtStep /\ b = cur)
    BY <1>3, <2>1 DEF SaysRunning, Executing
  <2>3. \A i \in Steps : stepState'[b][i] = stepState[b][i]
    BY <1>1, <2>2, OtherSteps
  <2>4. Frames(b)' = Frames(b)
    BY <2>3 DEF Frames, FramesIn
  <2> QED
    BY <1>3, <2>1, <2>3, <2>4 DEF DoneMeansSettled
<1> QED
  BY <1>4, <1>5

(* A block that is closed as DONE has no open step, and its n_done counts   *)
(* its DONE exposures, over any number of runs, aborts, resumes, errors and *)
(* crashes: what a run skips, it skips because the row says so.             *)
THEOREM DoneIsSettled == Spec => []DoneMeansSettled
<1> DEFINE Inv == SnapshotExact /\ SaysRunning /\ Walked /\ WholeWalk /\ DoneMeansSettled
<1>1. Init => Inv
  BY DEF Init, SnapshotExact, SaysRunning, Walked, WholeWalk, DoneMeansSettled, InRun,
         Executing, AtStep
<1>2. TypeOK /\ RowsOpen /\ RemovalsRead /\ AwaitsItsKind /\ SnapshotTrue /\ Inv /\ [Next]_vars
        => Inv'
  <2> SUFFICES ASSUME TypeOK, RowsOpen, RemovalsRead, AwaitsItsKind, SnapshotTrue, Inv,
                      [Next]_vars
               PROVE  Inv'
    OBVIOUS
  <2>1. CASE UNCHANGED vars
    BY <2>1
       DEF SnapshotExact, SaysRunning, Walked, WholeWalk, DoneMeansSettled, Taken, Frames, FramesIn,
           vars, rows, locals, history
  <2>2. CASE Next
    BY <2>2, SnapshotExactKept, SaysRunningKept, WalkedKept, WholeWalkKept, SettledKept
  <2> QED
    BY <2>1, <2>2
<1> QED
  BY <1>1, <1>2, Typing, RowsStayOpen, RemovalsWereQueued, WaitsFitSteps, SnapshotStaysTrue,
     PTL DEF Spec

-----------------------------------------------------------------------------
(***************************************************************************)
(* A run goes on, and ends.                                                *)
(***************************************************************************)

(* One step of the sequencer within a run, past the record of a step or     *)
(* within it.                                                               *)
Onward ==
    \/ pc' \in {"wrapup", "poll"}
    \/ pc' \in Executing /\ (idx' > idx \/ (idx' = idx /\ Stage[pc'] > Stage[pc]))

LEMMA Stages ==
    /\ Stage["gate"] = 1 /\ Stage["mark"] = 2 /\ Stage["act"] = 3
    /\ Stage["slewing"] = 4 /\ Stage["prompt"] = 4 /\ Stage["exposing"] = 4
    /\ Stage["ingest"] = 5 /\ Stage["record"] = 6 /\ Stage["finish"] = 7
BY DEF Stage, Executing, AtStep

(* No await of _run_block is come back to in the same run: not after a hold *)
(* or an error, nor by what the operator, the monitor or the services do.   *)
(* Since a block has NSteps steps, a run passes finitely many awaits.       *)
THEOREM RunsGoOn == Spec => RunGoesOn
<1>1. ASSUME TypeOK, [Next]_vars, <<pc, idx>>' # <<pc, idx>>, pc \in Executing
      PROVE  Onward
  <2>1. idx \in Nat
    BY <1>1, IdxIsNat
  <2>2. Next /\ ~UNCHANGED <<pc, locals>>
    BY <1>1 DEF vars, locals
  <2>3. CASE SlewEnds \/ DitherNothing \/ ClosePrompt \/ FrameDone \/ UnknownKind
    BY <2>1, <2>3
       DEF SlewEnds, DitherNothing, ClosePrompt, FrameDone, UnknownKind, Record, Onward,
           Executing
  <2>4. CASE SlewFails \/ ActWithoutLink \/ ExposureFails \/ PrecisionEnds
    <3>1. Stage[pc] < Stage["finish"]
      BY <2>4, Stages DEF SlewFails, ActWithoutLink, ExposureFails, PrecisionEnds
    <3> QED
      BY <2>1, <2>4, <3>1
         DEF SlewFails, ActWithoutLink, ExposureFails, PrecisionEnds, Raise, Record, Onward,
             Executing
  <2>5. CASE SkipSettled
    BY <2>1, <2>5 DEF SkipSettled, Onward, Executing
  <2>6. CASE GateAborts \/ GatePasses \/ LastStepDone \/ MarkRunning
    BY <2>6, Stages
       DEF GateAborts, GatePasses, AtOpenStep, LastStepDone, MarkRunning, locals, Onward,
           Executing, AtStep
  <2>7. CASE SendSlew \/ SendDither \/ OpenPrompt \/ Expose \/ CaptureReturns \/ Ingest
    BY <2>7, Stages
       DEF SendSlew, SendDither, OpenPrompt, Expose, CaptureReturns, Ingest, locals, Onward,
           Executing, AtStep
  <2>8. CASE Finish \/ LoopError \/ Crash
    BY <2>8 DEF Finish, LoopError, Crash, Onward
  <2>9. ~Poll /\ ~Scan /\ ~NothingRunnable /\ ~CheckWindow /\ ~Load /\ ~CommitRunning
        /\ ~Start /\ ~WrapUp
    BY <1>1
       DEF Poll, Scan, NothingRunnable, CheckWindow, Load, CommitRunning, Start, WrapUp,
           Executing, AtStep
  <2> QED
    BY <2>2, <2>3, <2>4, <2>5, <2>6, <2>7, <2>8, <2>9, LocalsWriters
<1>2. TypeOK /\ [Next]_vars => [<<pc, idx>>' # <<pc, idx>> /\ pc \in Executing => Onward]_vars
  BY <1>1
<1> QED
  BY <1>2, Typing, PTL DEF Spec, RunGoesOn, Onward

-----------------------------------------------------------------------------
(***************************************************************************)
(* The rows as the services beside the sequencer rely on them.             *)
(***************************************************************************)

(* The sequencer changes no row but by what BlockLife lets it do: it takes  *)
(* blocks that were queued when it looked, and closes the one it runs; and  *)
(* nobody else in this module writes anything but QUEUED and ABORTED.       *)
THEOREM RowsAgreed == Spec => RowsAsAgreed
<1>1. Init => L!LifeInit
  BY DEF Init, L!LifeInit
<1>2. ASSUME TypeOK, RowsOpen, [Next]_vars PROVE [L!LifeNext]_blockState
  <2>1. CASE CommitRunning
    <3>1. cur \in Blocks /\ blockState[cur] \in L!Takable
      BY <1>2, <2>1 DEF CommitRunning, TypeOK, LocalsTypeOK, Working, RowsOpen, Choosing
    <3> QED
      BY <2>1, <3>1 DEF CommitRunning, L!LifeNext, L!Take
  <2>2. CASE Finish
    <3>1. cur \in Blocks /\ blockState[cur] \in L!Closable
      BY <1>2, <2>2 DEF Finish, TypeOK, LocalsTypeOK, Working, Executing, RowsOpen
    <3>2. Verdict \in L!Finished /\ blockState' = [blockState EXCEPT ![cur] = Verdict]
      BY <2>2 DEF Finish, Verdict, L!Finished
    <3> QED
      BY <3>1, <3>2 DEF L!LifeNext, L!Close
  <2>3. ASSUME NEW b \in Blocks, NEW s \in L!Ordered, blockState[b] # "none",
               blockState' = [blockState EXCEPT ![b] = s]
        PROVE  L!LifeNext
    BY <2>3 DEF L!LifeNext, L!Order
  <2>4. CASE UNCHANGED vars
    BY <2>4 DEF vars, rows
  <2> QED
    BY <1>2, <2>1, <2>2, <2>3, <2>4, StateWriters
<1> QED
  BY <1>1, <1>2, RowsStayOpen, Typing, PTL DEF Spec, RowsAsAgreed, L!LifeSpec

==============================================================================
