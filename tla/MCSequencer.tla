---------------------------- MODULE MCSequencer ----------------------------
(***************************************************************************)
(* Small instances of Sequencer.  Block 1 is tried first (lower seq).      *)
(***************************************************************************)
EXTENDS Sequencer, TLC

(* The handlers differ in nothing but their names. *)
HandlersAlike == Permutations(Handlers)

(* A target, and a block with a prompt and a centring. *)
NightKinds == << <<"slew", "light">>, <<"prompt", "center">> >>

(* Both scheduled, so that neither waits for a launch. *)
TimedDispatch == <<"timed", "timed">>

(* The second attended. *)
NightDispatch == <<"timed", "attended">>

(* A block that dispatches itself in its window, and an attended one. *)
AutoKinds    == << <<"dither", "other">>, <<"prompt", "other">> >>
AutoDispatch == <<"auto", "attended">>

(* The shortest block whose frame depends on an earlier slew. *)
SlewKinds    == << <<"slew", "light">> >>
SlewDispatch == <<"attended">>

(* The shortest flat series: the frame follows its prompt. *)
FlatKinds    == << <<"prompt", "flat">> >>
FlatDispatch == <<"attended">>

=============================================================================
