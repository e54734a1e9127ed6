------------------------------- MODULE Camera -------------------------------
(***************************************************************************)
(* Captures (DeviceManager.capture, IndiCamera) and their way into the     *)
(* archive (ArchiveService.ingest), on the link that module Link promises. *)
(* Each camera adapter has room for one future.  The driver knows nothing  *)
(* of futures: what it sends goes to every adapter that is registered for  *)
(* the device, whoever waits there.                                        *)
(***************************************************************************)
EXTENDS Link, Naturals, Sequences

CONSTANTS
    Mount, Wheel,   \* roles a capture uses
    Cams,           \* the camera roles
    Shots,          \* captures asked for; each is made once
    Slots,          \* filter positions
    MaxObjects      \* bound: camera adapters made

ASSUME CameraConstants ==
    /\ {Mount, Wheel} \cup Cams \subseteq Roles
    /\ Mount # Wheel /\ {Mount, Wheel} \cap Cams = {}
    /\ Shots \subseteq Nat \ {0}
    /\ Slots \subseteq Nat \ {0}
    /\ MaxObjects \in Nat

VARIABLES
    object,     \* by camera role: the number of its adapter, 0 for none
    made,       \* the adapters made so far: the device each is for
    hears,      \* those whose handler is registered with the client
    pending,    \* by adapter: the capture whose future it holds, 0 for none
    shot,       \* the captures
    exposing,   \* by camera: is the driver busy, and with whose exposure (0: nobody's)
    wheel,      \* the driver's filter wheel: where it is, is told to go, is it moving
    files, rows,    \* the archive's two stores
    mixed,      \* history: captures whose exposure overlapped another of that camera
    shifted     \* history: captures that did not have the wheel for themselves in time

objVars == <<object, made, hears, pending>>
driVars == <<exposing, wheel>>
arcVars == <<files, rows>>
hisVars == <<mixed, shifted>>
camVars == <<linkVars, objVars, shot, driVars, arcVars, hisVars>>

Objects == 1 .. MaxObjects
Quiet   == [busy |-> FALSE, of |-> 0]
Fresh   == [pc |-> "idle", dev |-> Mount, obj |-> 0, slot |-> 0, image |-> 0, pass |-> 0]

CameraInit ==
    /\ LinkInit
    /\ object = [d \in Cams |-> 0]
    /\ made = <<>>
    /\ hears = {}
    /\ pending = [o \in Objects |-> 0]
    /\ shot = [s \in Shots |-> Fresh]
    /\ exposing = [d \in Cams |-> Quiet]
    /\ \E f \in Slots : wheel = [at |-> f, to |-> 0, moving |-> FALSE]
    /\ files = {}
    /\ rows = {}
    /\ mixed = {}
    /\ shifted = {}

-----------------------------------------------------------------------------
(***************************************************************************)
(* The link, with what it does to the camera adapters.                     *)
(***************************************************************************)
LinkConnects ==
    /\ Connect
    /\ hears' = {}
    /\ UNCHANGED <<object, made, pending, shot, driVars, arcVars, hisVars>>

LinkLost ==
    /\ up
    /\ Lose
    /\ object' = [d \in Cams |-> 0]
    /\ UNCHANGED <<made, hears, pending, shot, driVars, arcVars, hisVars>>

(* A camera that is bound again gets a second adapter; the first stays     *)
(* registered.                                                             *)
AdapterMade(r) ==
    /\ up
    /\ Gain(r)
    /\ IF r \in Cams
       THEN /\ Len(made) < MaxObjects
            /\ made' = Append(made, r)
            /\ hears' = hears \cup {Len(made')}
            /\ object' = [object EXCEPT ![r] = Len(made')]
       ELSE r \notin have /\ UNCHANGED <<object, made, hears>>
    /\ UNCHANGED <<pending, shot, driVars, arcVars, hisVars>>

AdapterUnbound(r) ==
    /\ r \in have
    /\ Unbind(r)
    /\ object' = IF r \in Cams THEN [object EXCEPT ![r] = 0] ELSE object
    /\ UNCHANGED <<made, hears, pending, shot, driVars, arcVars, hisVars>>

-----------------------------------------------------------------------------
(***************************************************************************)
(* DeviceManager.capture.                                                  *)
(***************************************************************************)
Is(s, pc) == shot[s].pc = pc

(* An exposure of d begins: for a busy driver it replaces the running one   *)
(* or is ignored.                                                          *)
Trigger(d, s) ==
    /\ exposing' \in {[exposing EXCEPT ![d] = [busy |-> TRUE, of |-> s]]} \cup
                     (IF exposing[d].busy THEN {exposing} ELSE {})
    /\ mixed' = mixed \cup (IF exposing[d].busy THEN {s} \cap Shots ELSE {})
                      \cup {x \in Shots : Is(x, "exposing") /\ shot[x].dev = d}

(* IndiCamera.capture: the future first, whoever had one there before.      *)
Fire(s, d, o, slot) ==
    /\ pending' = [pending EXCEPT ![o] = s]
    /\ shot' = [shot EXCEPT ![s] = [Fresh EXCEPT !.pc = "exposing", !.dev = d, !.obj = o,
                                        !.slot = slot, !.pass = wheel.at]]
    /\ Trigger(d, s)

Fails(s) == shot' = [shot EXCEPT ![s].pc = "failed"]

(* No filter asked for, or there is no wheel. *)
Begin(s, d) ==
    /\ Is(s, "idle")
    /\ up /\ Mount \in have /\ d \in have
    /\ Fire(s, d, object[d], 0)
    /\ UNCHANGED <<linkVars, object, made, hears, wheel, arcVars, shifted>>

(* The wheel is told, and its position polled. *)
Tell(f) == wheel' = [wheel EXCEPT !.to = f]

Minding == {s \in Shots : shot[s].pc \in {"turning", "exposing"}}

BeginFiltered(s, d, f) ==
    /\ Is(s, "idle")
    /\ up /\ {Mount, Wheel, d} \subseteq have
    /\ shot' = [shot EXCEPT ![s] = [Fresh EXCEPT !.pc = "turning", !.dev = d, !.obj = object[d],
                                        !.slot = f]]
    /\ Tell(f)
    /\ shifted' = shifted \cup Minding \cup (IF wheel.to # 0 THEN {s} ELSE {})
    /\ UNCHANGED <<linkVars, objVars, exposing, arcVars, mixed>>

(* Mutant: not moving is taken for being there. *)
InPlaceIfStill(s) == ~wheel.moving

(* The predicate of the wait: in position, and not moving. *)
InPlace(s) == wheel.at = shot[s].slot /\ ~wheel.moving

(* The wait's result is not looked at: after 20 s the exposure starts with  *)
(* whatever is in front.  A wheel or a mount that is gone by now raises.   *)
Proceed(s) ==
    /\ Is(s, "turning")
    /\ {Mount, Wheel} \subseteq have
    /\ Fire(s, shot[s].dev, shot[s].obj, shot[s].slot)
    /\ shifted' = shifted \cup (IF InPlace(s) THEN {} ELSE {s})
    /\ UNCHANGED <<linkVars, object, made, hears, wheel, arcVars>>

Misses(s) ==
    /\ Is(s, "turning")
    /\ ~({Mount, Wheel} \subseteq have)
    /\ Fails(s)
    /\ UNCHANGED <<linkVars, objVars, driVars, arcVars, hisVars>>

(* Mutant: only the capture whose future the adapter holds times out. *)
TimesOutIfHeld(s) ==
    /\ Is(s, "exposing")
    /\ pending[shot[s].obj] = s
    /\ Fails(s)
    /\ pending' = [pending EXCEPT ![shot[s].obj] = 0]
    /\ UNCHANGED <<linkVars, object, made, hears, driVars, arcVars, hisVars>>

(* wait_for gives up; the finally clause empties the adapter's one place,   *)
(* whoever is in it by now.                                                *)
TimesOut(s) ==
    /\ Is(s, "exposing")
    /\ Fails(s)
    /\ pending' = [pending EXCEPT ![shot[s].obj] = 0]
    /\ UNCHANGED <<linkVars, object, made, hears, driVars, arcVars, hisVars>>

(* The capture goes on with its image; ingest writes the file at once. *)
File(s) ==
    /\ Is(s, "read")
    /\ pending' = [pending EXCEPT ![shot[s].obj] = 0]
    /\ files' = files \cup {s}
    /\ shot' = [shot EXCEPT ![s].pc = "filed"]
    /\ UNCHANGED <<linkVars, object, made, hears, driVars, rows, hisVars>>

(* ... and commits the row, or cannot. *)
Commit(s) ==
    /\ Is(s, "filed")
    /\ \/ rows' = rows \cup {s} /\ shot' = [shot EXCEPT ![s].pc = "done"]
       \/ UNCHANGED rows /\ Fails(s)
    /\ UNCHANGED <<linkVars, objVars, driVars, files, hisVars>>

-----------------------------------------------------------------------------
(***************************************************************************)
(* The driver, and the operator's own commands to it.                      *)
(***************************************************************************)

(* Mutant: an image is taken by every camera adapter, of whatever device. *)
ListenersAll(d) == hears

(* The adapters that take an image of camera d. *)
Listeners(d) == {o \in hears : made[o] = d}

(* A BLOB arrives, on a link that is up: _on_blob of every listener gives   *)
(* it to the future it holds, unless that one has its image already.       *)
Waiting(o) == pending[o] # 0 /\ Is(pending[o], "exposing")

Image(d) ==
    /\ exposing[d].busy
    /\ exposing' = [exposing EXCEPT ![d] = Quiet]
    /\ LET served == IF up THEN {pending[o] : o \in {x \in Listeners(d) : Waiting(x)}} ELSE {}
       IN shot' = [s \in Shots |-> IF s \in served
                                   THEN [shot[s] EXCEPT !.pc = "read", !.image = exposing[d].of]
                                   ELSE shot[s]]
    /\ UNCHANGED <<linkVars, objVars, wheel, arcVars, hisVars>>

(* It may also be aborted and send none. *)
NoImage(d) ==
    /\ exposing[d].busy
    /\ exposing' = [exposing EXCEPT ![d] = Quiet]
    /\ UNCHANGED <<linkVars, objVars, shot, wheel, arcVars, hisVars>>

WheelMoves ==
    /\ wheel.to # 0
    /\ \/ wheel' = [wheel EXCEPT !.moving = TRUE] /\ ~wheel.moving /\ UNCHANGED shot
       \/ /\ wheel.moving
          /\ wheel' = [at |-> wheel.to, to |-> 0, moving |-> FALSE]
          /\ shot' = [s \in Shots |-> IF Is(s, "exposing") /\ wheel.to # wheel.at
                                      THEN [shot[s] EXCEPT !.pass = 0] ELSE shot[s]]
    /\ UNCHANGED <<linkVars, objVars, exposing, arcVars, hisVars>>

(* /api/filter/set, /api/camera/expose and /api/guide/expose. *)
SetFilter(f) ==
    /\ Wheel \in have
    /\ Tell(f)
    /\ shifted' = shifted \cup Minding
    /\ UNCHANGED <<linkVars, objVars, shot, exposing, arcVars, mixed>>

Expose(d) ==
    /\ d \in have
    /\ Trigger(d, 0)
    /\ UNCHANGED <<linkVars, objVars, shot, wheel, arcVars, shifted>>

(* The process dies; the link, the adapters and the captures with it.      *)
CameraCrash ==
    /\ Lose
    /\ object' = [d \in Cams |-> 0]
    /\ hears' = {}
    /\ pending' = [o \in Objects |-> 0]
    /\ shot' = [s \in Shots |-> IF shot[s].pc \in {"idle", "done"} THEN shot[s]
                                ELSE [shot[s] EXCEPT !.pc = "failed"]]
    /\ UNCHANGED <<made, driVars, arcVars, hisVars>>

ShotStep(s) == Proceed(s) \/ Misses(s) \/ TimesOut(s) \/ File(s) \/ Commit(s)

CameraNext ==
    \/ \E s \in Shots :
          \/ ShotStep(s)
          \/ \E d \in Cams : Begin(s, d) \/ \E f \in Slots : BeginFiltered(s, d, f)
    \/ \E d \in Cams : Image(d) \/ NoImage(d) \/ Expose(d)
    \/ \E f \in Slots : SetFilter(f)
    \/ WheelMoves
    \/ LinkConnects \/ LinkLost
    \/ \E r \in Roles : AdapterMade(r) \/ AdapterUnbound(r)
    \/ CameraCrash

CameraSpec == CameraInit /\ [][CameraNext]_camVars

(* A capture's waits all have an end. *)
CameraFairSpec == CameraSpec /\ \A s \in Shots : WF_camVars(ShotStep(s))

-----------------------------------------------------------------------------
CameraTypeOK ==
    /\ up \in BOOLEAN
    /\ have \in SUBSET Roles
    /\ object \in [Cams -> 0 .. MaxObjects]
    /\ made \in Seq(Cams) /\ Len(made) <= MaxObjects
    /\ hears \in SUBSET Objects
    /\ pending \in [Objects -> Shots \cup {0}]
    /\ shot \in [Shots -> [pc : {"idle", "turning", "exposing", "read", "filed", "done", "failed"},
                           dev : Cams \cup {Mount}, obj : 0 .. MaxObjects, slot : Slots \cup {0},
                           image : Shots \cup {0}, pass : Slots \cup {0}]]
    /\ exposing \in [Cams -> [busy : BOOLEAN, of : Shots \cup {0}]]
    /\ wheel \in [at : Slots, to : Slots \cup {0}, moving : BOOLEAN]
    /\ files \in SUBSET Shots /\ rows \in SUBSET Shots
    /\ mixed \in SUBSET Shots /\ shifted \in SUBSET Shots

(* The image a capture gets is that of its own exposure, whatever adapters *)
(* were lost and made anew and whichever images came late or from another  *)
(* camera, unless exposures of that camera overlapped.                     *)
FrameIsOwn ==
    \A s \in Shots : shot[s].pc \in {"read", "filed", "done"} /\ s \notin mixed => shot[s].image = s

(* A frame that asked for a filter was taken through it, unless the wheel   *)
(* did not get there in time or was told otherwise meanwhile.  What is     *)
(* compared is the slot asked for: the row itself names the filter the     *)
(* wheel reports when the exposure begins, which is the same one unless    *)
(* the wait has run out.                                                   *)
RightFilter ==
    \A s \in Shots : shot[s].pc \in {"read", "filed", "done"} /\ shot[s].slot # 0 /\ s \notin shifted
                        => shot[s].pass = shot[s].slot

(* Every row of the archive has its file, whatever commit fails and        *)
(* whenever the process dies.                                              *)
RowsHaveFiles == rows \subseteq files

(* What is in the archive can be relied on: a row has its file, and a frame *)
(* that asked for a filter has it, under the proviso above.                *)
FramesAsFiled == RowsHaveFiles /\ RightFilter

(* A capture ends, though its image, the wheel or the link never comes.    *)
CapturesEnd == \A s \in Shots : ~Is(s, "idle") ~> shot[s].pc \in {"done", "failed"}

=============================================================================
