---------------------------- MODULE Camera_proofs ----------------------------
(***************************************************************************)
(* Proofs about Camera for any cameras, captures, filters and adapters.    *)
(***************************************************************************)
EXTENDS Camera, SequenceTheorems, TLAPS

ShotStates == {"idle", "turning", "exposing", "read", "filed", "done", "failed"}

ShotRec == [pc : ShotStates, dev : Cams \cup {Mount}, obj : 0 .. MaxObjects,
            slot : Slots \cup {0}, image : Shots \cup {0}, pass : Slots \cup {0}]

Exposures == [busy : BOOLEAN, of : Shots \cup {0}]
Wheels    == [at : Slots, to : Slots \cup {0}, moving : BOOLEAN]

-----------------------------------------------------------------------------
(***************************************************************************)
(* Who may write what.                                                     *)
(***************************************************************************)
LEMMA AdapterWriters ==
    ASSUME CameraNext
    PROVE  \/ UNCHANGED <<linkVars, object, made, hears>>
           \/ LinkConnects \/ LinkLost \/ CameraCrash
           \/ \E r \in Roles : AdapterMade(r) \/ AdapterUnbound(r)
BY DEF CameraNext, ShotStep, Proceed, Misses, TimesOut, File, Commit, Begin, BeginFiltered,
       Image, NoImage, Expose, SetFilter, WheelMoves, objVars

LEMMA PendingWriters ==
    ASSUME CameraNext
    PROVE  \/ UNCHANGED pending \/ CameraCrash
           \/ \E s \in Shots : \/ Proceed(s) \/ TimesOut(s) \/ File(s)
                               \/ \E d \in Cams : Begin(s, d)
BY DEF CameraNext, ShotStep, Misses, Commit, BeginFiltered, Image, NoImage, Expose, SetFilter,
       WheelMoves, LinkConnects, LinkLost, AdapterMade, AdapterUnbound, objVars

LEMMA ShotWriters ==
    ASSUME CameraNext
    PROVE  \/ UNCHANGED shot \/ CameraCrash \/ WheelMoves
           \/ \E d \in Cams : Image(d)
           \/ \E s \in Shots : \/ Proceed(s) \/ Misses(s) \/ TimesOut(s) \/ File(s) \/ Commit(s)
                               \/ \E d \in Cams : Begin(s, d) \/ \E f \in Slots : BeginFiltered(s, d, f)
BY DEF CameraNext, ShotStep, NoImage, Expose, SetFilter, LinkConnects, LinkLost, AdapterMade,
       AdapterUnbound

LEMMA ExposingWriters ==
    ASSUME CameraNext
    PROVE  \/ UNCHANGED <<exposing, mixed>>
           \/ \E d \in Cams : Image(d) \/ NoImage(d) \/ Expose(d)
           \/ \E s \in Shots : Proceed(s) \/ \E d \in Cams : Begin(s, d)
BY DEF CameraNext, ShotStep, Misses, TimesOut, File, Commit, BeginFiltered, SetFilter, WheelMoves,
       LinkConnects, LinkLost, AdapterMade, AdapterUnbound, CameraCrash, driVars, hisVars

LEMMA WheelWriters ==
    ASSUME CameraNext
    PROVE  \/ UNCHANGED <<wheel, shifted>>
           \/ WheelMoves \/ \E f \in Slots : SetFilter(f)
           \/ \E s \in Shots : Proceed(s) \/ \E d \in Cams, f \in Slots : BeginFiltered(s, d, f)
BY DEF CameraNext, ShotStep, Misses, TimesOut, File, Commit, Begin, Image, NoImage, Expose,
       LinkConnects, LinkLost, AdapterMade, AdapterUnbound, CameraCrash, driVars, hisVars

LEMMA ArchiveWriters ==
    ASSUME CameraNext
    PROVE  UNCHANGED <<files, rows>> \/ \E s \in Shots : File(s) \/ Commit(s)
BY DEF CameraNext, ShotStep, Proceed, Misses, TimesOut, Begin, BeginFiltered, Image, NoImage,
       Expose, SetFilter, WheelMoves, LinkConnects, LinkLost, AdapterMade, AdapterUnbound,
       CameraCrash, arcVars

-----------------------------------------------------------------------------
(***************************************************************************)
(* Type correctness.                                                       *)
(***************************************************************************)
AdaptersTyped ==
    /\ have \in SUBSET Roles
    /\ object \in [Cams -> 0 .. MaxObjects]
    /\ made \in Seq(Cams) /\ Len(made) <= MaxObjects
    /\ hears \in SUBSET Objects

PendingTyped  == pending \in [Objects -> Shots \cup {0}]
ShotsTyped    == shot \in [Shots -> ShotRec]
ExposingTyped == exposing \in [Cams -> Exposures]
WheelTyped    == wheel \in Wheels
ArchiveTyped  == files \in SUBSET Shots /\ rows \in SUBSET Shots
HistoryTyped  == mixed \in SUBSET Shots /\ shifted \in SUBSET Shots
UpTyped       == up \in BOOLEAN

TypesOK == /\ UpTyped /\ AdaptersTyped /\ PendingTyped /\ ShotsTyped /\ ExposingTyped
           /\ WheelTyped /\ ArchiveTyped /\ HistoryTyped

(* The camera, its role and the mount's are told apart. *)
LEMMA RolesDiffer ==
    /\ Cams \subseteq Roles /\ Mount \notin Cams /\ Wheel \notin Cams
    /\ Shots \subseteq Nat /\ 0 \notin Shots /\ Slots \subseteq Nat /\ 0 \notin Slots
    /\ MaxObjects \in Nat
BY CameraConstants

LEMMA AdaptersStep == ASSUME AdaptersTyped, [CameraNext]_camVars PROVE AdaptersTyped'
<1> USE RolesDiffer DEF AdaptersTyped
<1>1. CASE UNCHANGED <<linkVars, object, made, hears>>
  BY <1>1 DEF linkVars
<1>2. CASE LinkConnects
  BY <1>2 DEF LinkConnects, Connect
<1>3. CASE LinkLost \/ CameraCrash
  BY <1>3 DEF LinkLost, CameraCrash, Lose
<1>4. ASSUME NEW r \in Roles, AdapterMade(r) PROVE AdaptersTyped'
  <2>1. have' \in SUBSET Roles
    BY <1>4 DEF AdapterMade, Gain
  <2>2. CASE r \in Cams
    <3>1. made' = Append(made, r) /\ Len(made) < MaxObjects
      BY <1>4, <2>2 DEF AdapterMade
    <3>2. made' \in Seq(Cams) /\ Len(made') = Len(made) + 1 /\ Len(made') \in 1 .. MaxObjects
      BY <2>2, <3>1
    <3>3. hears' = hears \cup {Len(made')} /\ object' = [object EXCEPT ![r] = Len(made')]
      BY <1>4, <2>2 DEF AdapterMade
    <3>4. object' \in [Cams -> 0 .. MaxObjects]
      <4>1. Len(made') \in 0 .. MaxObjects
        BY <3>2
      <4> QED
        BY <3>3, <4>1
    <3>5. hears' \in SUBSET Objects
      BY <3>2, <3>3 DEF Objects
    <3> QED
      BY <2>1, <3>2, <3>4, <3>5
  <2>3. CASE r \notin Cams
    BY <1>4, <2>1, <2>3 DEF AdapterMade
  <2> QED
    BY <2>2, <2>3
<1>5. ASSUME NEW r \in Roles, AdapterUnbound(r) PROVE AdaptersTyped'
  BY <1>5 DEF AdapterUnbound, Unbind
<1> QED
  BY <1>1, <1>2, <1>3, <1>4, <1>5, AdapterWriters DEF camVars, objVars, linkVars

LEMMA UpStep == ASSUME UpTyped, [CameraNext]_camVars PROVE UpTyped'
<1> USE DEF UpTyped
<1>1. CASE UNCHANGED up
  BY <1>1, Zenon
<1>2. CASE up' = TRUE \/ up' = FALSE
  BY <1>2, Zenon
<1>3. UNCHANGED up \/ up' = TRUE \/ up' = FALSE
  BY AdapterWriters, Zenon
     DEF LinkConnects, Connect, LinkLost, CameraCrash, Lose, AdapterMade, Gain, AdapterUnbound,
         Unbind, camVars, linkVars
<1> QED
  BY <1>1, <1>2, <1>3

LEMMA PendingStep == ASSUME PendingTyped, [CameraNext]_camVars PROVE PendingTyped'
<1> USE DEF PendingTyped
<1>1. CASE UNCHANGED pending
  BY <1>1
<1>2. CASE CameraCrash
  BY <1>2 DEF CameraCrash
<1>3. ASSUME NEW s \in Shots, Proceed(s) \/ TimesOut(s) \/ File(s) \/ \E d \in Cams : Begin(s, d)
      PROVE  PendingTyped'
  <2>1. \E o, x : x \in Shots \cup {0} /\ pending' = [pending EXCEPT ![o] = x]
    BY <1>3 DEF Proceed, TimesOut, File, Begin, Fire
  <2> QED
    BY <2>1
<1> QED
  BY <1>1, <1>2, <1>3, PendingWriters DEF camVars, objVars

LEMMA WheelStep == ASSUME WheelTyped, [CameraNext]_camVars PROVE WheelTyped'
<1> USE DEF WheelTyped
<1>1. CASE UNCHANGED wheel
  BY <1>1
<1>2. ASSUME NEW f \in Slots, Tell(f) PROVE WheelTyped'
  BY <1>2, Zenon DEF Tell, Wheels
<1>3. CASE wheel.to # 0 /\ wheel' = [wheel EXCEPT !.moving = TRUE]
  BY <1>3, Zenon DEF Wheels
<1>4. CASE wheel.to # 0 /\ wheel' = [at |-> wheel.to, to |-> 0, moving |-> FALSE]
  <2>1. wheel.to \in Slots
    BY <1>4 DEF Wheels
  <2> QED
    BY <1>4, <2>1 DEF Wheels
<1> QED
  BY <1>1, <1>2, <1>3, <1>4, WheelWriters
     DEF WheelMoves, SetFilter, Proceed, BeginFiltered, camVars, driVars

(* A driver starts an exposure, or goes on with the one it is busy with. *)
LEMMA TriggerTyped ==
    ASSUME ExposingTyped, NEW d \in Cams, NEW s \in Shots \cup {0}, Trigger(d, s)
    PROVE  ExposingTyped'
<1> DEFINE e == [busy |-> TRUE, of |-> s]
<1>1. e \in Exposures
  BY DEF Exposures
<1>2. exposing' = [exposing EXCEPT ![d] = e] \/ exposing' = exposing
  BY DEF Trigger
<1> HIDE DEF e
<1> QED
  BY <1>1, <1>2 DEF ExposingTyped

LEMMA QuietIsExposure == Quiet \in Exposures
BY DEF Quiet, Exposures

LEMMA ExposingStep ==
    ASSUME ShotsTyped, ExposingTyped, [CameraNext]_camVars
    PROVE  ExposingTyped'
<1>1. CASE UNCHANGED exposing
  BY <1>1 DEF ExposingTyped
<1>2. ASSUME NEW d \in Cams, Image(d) \/ NoImage(d) PROVE ExposingTyped'
  <2>1. exposing' = [exposing EXCEPT ![d] = Quiet]
    BY <1>2 DEF Image, NoImage
  <2> QED
    BY <2>1, QuietIsExposure DEF ExposingTyped
<1>3. ASSUME NEW d \in Cams, Expose(d) PROVE ExposingTyped'
  BY <1>3, TriggerTyped DEF Expose
<1>4. ASSUME NEW s \in Shots, NEW d \in Cams, Begin(s, d) PROVE ExposingTyped'
  BY <1>4, TriggerTyped DEF Begin, Fire
<1>5. ASSUME NEW s \in Shots, Proceed(s), shot[s].dev \in Cams PROVE ExposingTyped'
  BY <1>5, TriggerTyped DEF Proceed, Fire
<1>6. ASSUME NEW s \in Shots, Proceed(s), shot[s].dev \notin Cams PROVE ExposingTyped'
  <2> DEFINE d == shot[s].dev
  <2>1. Trigger(d, s)
    BY <1>6 DEF Proceed, Fire
  <2>2. [exposing EXCEPT ![d] = [busy |-> TRUE, of |-> s]] = exposing
    BY <1>6 DEF ExposingTyped
  <2> QED
    BY <2>1, <2>2 DEF Trigger, ExposingTyped
<1> QED
  BY <1>1, <1>2, <1>3, <1>4, <1>5, <1>6, ExposingWriters DEF camVars, driVars

(* A capture starts out idle, and is written field by field from there. *)
LEMMA FreshIsShot == Fresh \in ShotRec
BY RolesDiffer DEF Fresh, ShotRec, ShotStates

LEMMA FiredShot ==
    ASSUME NEW d \in Cams \cup {Mount}, NEW o \in 0 .. MaxObjects, NEW f \in Slots \cup {0},
           NEW p \in Slots \cup {0}
    PROVE  [Fresh EXCEPT !.pc = "exposing", !.dev = d, !.obj = o, !.slot = f, !.pass = p] \in ShotRec
BY FreshIsShot, Zenon DEF ShotRec, ShotStates

LEMMA TurningShot ==
    ASSUME NEW d \in Cams \cup {Mount}, NEW o \in 0 .. MaxObjects, NEW f \in Slots \cup {0}
    PROVE  [Fresh EXCEPT !.pc = "turning", !.dev = d, !.obj = o, !.slot = f] \in ShotRec
BY FreshIsShot, Zenon DEF ShotRec, ShotStates

LEMMA ShotsStep ==
    ASSUME AdaptersTyped, ShotsTyped, ExposingTyped, WheelTyped, [CameraNext]_camVars
    PROVE  ShotsTyped'
<1> USE DEF ShotsTyped
<1>0. ASSUME NEW s \in Shots, NEW x \in ShotRec, shot' = [shot EXCEPT ![s] = x]
      PROVE  ShotsTyped'
  BY <1>0
<1>1. CASE UNCHANGED shot
  BY <1>1
<1>2. ASSUME NEW s \in Shots, NEW pc \in ShotStates, shot' = [shot EXCEPT ![s].pc = pc]
      PROVE  ShotsTyped'
  <2>1. [shot[s] EXCEPT !.pc = pc] \in ShotRec
    BY Zenon DEF ShotRec
  <2> QED
    BY <1>2, <2>1
<1>4. CASE CameraCrash
  <2>1. \A s \in Shots : [shot[s] EXCEPT !.pc = "failed"] \in ShotRec
    BY Zenon DEF ShotRec, ShotStates
  <2> QED
    BY <1>4, <2>1 DEF CameraCrash
<1>5. CASE WheelMoves
  <2>1. \A s \in Shots : [shot[s] EXCEPT !.pass = 0] \in ShotRec
    BY Zenon DEF ShotRec
  <2> QED
    BY <1>5, <2>1 DEF WheelMoves
<1>6. ASSUME NEW d \in Cams, Image(d) PROVE ShotsTyped'
  <2>1. exposing[d].of \in Shots \cup {0}
    BY DEF ExposingTyped, Exposures
  <2>2. \A s \in Shots : [shot[s] EXCEPT !.pc = "read", !.image = exposing[d].of] \in ShotRec
    BY <2>1, Zenon DEF ShotRec, ShotStates
  <2> DEFINE image == exposing[d].of
  <2>3. PICK served : shot' = [s \in Shots |-> IF s \in served
                                 THEN [shot[s] EXCEPT !.pc = "read", !.image = image]
                                 ELSE shot[s]]
    BY <1>6 DEF Image
  <2> QED
    BY <2>2, <2>3
<1>7. ASSUME NEW s \in Shots, NEW d \in Cams, Begin(s, d) PROVE ShotsTyped'
  <2>1. object[d] \in 0 .. MaxObjects /\ wheel.at \in Slots
    BY DEF AdaptersTyped, WheelTyped, Wheels
  <2> DEFINE x == [Fresh EXCEPT !.pc = "exposing", !.dev = d, !.obj = object[d], !.slot = 0,
                                !.pass = wheel.at]
  <2>2. x \in ShotRec
    BY <2>1, FiredShot
  <2>3. shot' = [shot EXCEPT ![s] = x]
    BY <1>7 DEF Begin, Fire
  <2> HIDE DEF x
  <2> QED
    BY <1>0, <2>2, <2>3
<1>8. ASSUME NEW s \in Shots, NEW d \in Cams, NEW f \in Slots, BeginFiltered(s, d, f)
      PROVE  ShotsTyped'
  <2>1. object[d] \in 0 .. MaxObjects
    BY DEF AdaptersTyped
  <2> DEFINE x == [Fresh EXCEPT !.pc = "turning", !.dev = d, !.obj = object[d], !.slot = f]
  <2>2. x \in ShotRec
    BY <2>1, TurningShot
  <2>3. shot' = [shot EXCEPT ![s] = x]
    BY <1>8 DEF BeginFiltered
  <2> HIDE DEF x
  <2> QED
    BY <1>0, <2>2, <2>3
<1>9. ASSUME NEW s \in Shots, Proceed(s) PROVE ShotsTyped'
  <2>1. /\ shot[s].dev \in Cams \cup {Mount} /\ shot[s].obj \in 0 .. MaxObjects
        /\ shot[s].slot \in Slots \cup {0}
    BY DEF ShotRec
  <2>2. wheel.at \in Slots
    BY DEF WheelTyped, Wheels
  <2> DEFINE x == [Fresh EXCEPT !.pc = "exposing", !.dev = shot[s].dev, !.obj = shot[s].obj,
                                !.slot = shot[s].slot, !.pass = wheel.at]
  <2>3. x \in ShotRec
    BY <2>1, <2>2, FiredShot
  <2>4. shot' = [shot EXCEPT ![s] = x]
    BY <1>9 DEF Proceed, Fire
  <2> HIDE DEF x
  <2> QED
    BY <1>0, <2>3, <2>4
<1>10. ASSUME NEW s \in Shots, Misses(s) \/ TimesOut(s) \/ File(s) \/ Commit(s) PROVE ShotsTyped'
  BY <1>2, <1>10 DEF Misses, TimesOut, File, Commit, Fails, ShotStates
<1> QED
  BY <1>1, <1>4, <1>5, <1>6, <1>7, <1>8, <1>9, <1>10, ShotWriters DEF camVars

LEMMA StoresStep ==
    ASSUME ArchiveTyped, HistoryTyped, [CameraNext]_camVars
    PROVE  ArchiveTyped' /\ HistoryTyped'
<1>1. ArchiveTyped'
  BY ArchiveWriters DEF ArchiveTyped, File, Commit, camVars, arcVars
<1>2. mixed' \in SUBSET Shots
  BY ExposingWriters
     DEF HistoryTyped, Image, NoImage, Expose, Proceed, Begin, Fire, Trigger, camVars, hisVars
<1>3. shifted' \in SUBSET Shots
  BY WheelWriters
     DEF HistoryTyped, WheelMoves, SetFilter, Proceed, BeginFiltered, Minding, camVars, hisVars
<1> QED
  BY <1>1, <1>2, <1>3 DEF HistoryTyped

THEOREM Typing == CameraSpec => []TypesOK
<1>1. CameraInit => TypesOK
  <2> SUFFICES ASSUME CameraInit PROVE TypesOK
    OBVIOUS
  <2>1. UpTyped
    BY Zenon DEF CameraInit, LinkInit, UpTyped
  <2>2. AdaptersTyped /\ PendingTyped
    BY RolesDiffer DEF CameraInit, LinkInit, AdaptersTyped, PendingTyped
  <2>3. ShotsTyped /\ ExposingTyped
    BY FreshIsShot, QuietIsExposure DEF CameraInit, ShotsTyped, ExposingTyped
  <2>4. WheelTyped
    <3>1. PICK f \in Slots : wheel = [at |-> f, to |-> 0, moving |-> FALSE]
      BY DEF CameraInit
    <3> QED
      BY <3>1, Zenon DEF WheelTyped, Wheels
  <2>5. ArchiveTyped /\ HistoryTyped
    BY DEF CameraInit, ArchiveTyped, HistoryTyped
  <2> QED
    BY <2>1, <2>2, <2>3, <2>4, <2>5 DEF TypesOK
<1>2. TypesOK /\ [CameraNext]_camVars => TypesOK'
  BY UpStep, AdaptersStep, PendingStep, ShotsStep, ExposingStep, WheelStep, StoresStep DEF TypesOK
<1> QED
  BY <1>1, <1>2, PTL DEF CameraSpec

(* Every variable of the camera service keeps its type. *)
THEOREM WellTyped == CameraSpec => []CameraTypeOK
<1>1. TypesOK => CameraTypeOK
  BY DEF TypesOK, CameraTypeOK, UpTyped, AdaptersTyped, PendingTyped, ShotsTyped, ExposingTyped,
         WheelTyped, ArchiveTyped, HistoryTyped, ShotRec, ShotStates, Exposures, Wheels
<1> QED
  BY <1>1, Typing, PTL

-----------------------------------------------------------------------------
(***************************************************************************)
(* How one capture moves.                                                  *)
(***************************************************************************)

(* An image is given to captures that wait at an adapter of its camera. *)
Served(s, d) ==
    \E o \in Objects : made[o] = d /\ pending[o] = s /\ shot[s].pc = "exposing"

SameBut(s) ==
    /\ shot'[s].dev = shot[s].dev /\ shot'[s].obj = shot[s].obj /\ shot'[s].slot = shot[s].slot

(* The states of one capture, in the order they come. *)
LEMMA FireGives ==
    ASSUME ShotsTyped, NEW s \in Shots, NEW d, NEW o, NEW f, Fire(s, d, o, f)
    PROVE  /\ shot'[s].pc = "exposing" /\ shot'[s].dev = d /\ shot'[s].obj = o
           /\ shot'[s].slot = f /\ shot'[s].pass = wheel.at
           /\ \A x \in Shots \ {s} : shot'[x] = shot[x]
<1> DEFINE r == [Fresh EXCEPT !.pc = "exposing", !.dev = d, !.obj = o, !.slot = f,
                             !.pass = wheel.at]
<1>1. /\ r.pc = "exposing" /\ r.dev = d /\ r.obj = o /\ r.slot = f /\ r.pass = wheel.at
  BY DEF Fresh
<1>2. shot' = [shot EXCEPT ![s] = r]
  BY DEF Fire
<1> HIDE DEF r
<1> QED
  BY <1>1, <1>2 DEF ShotsTyped

LEMMA TurnGives ==
    ASSUME ShotsTyped, NEW s \in Shots, NEW d \in Cams, NEW f \in Slots, BeginFiltered(s, d, f)
    PROVE  /\ shot'[s].pc = "turning" /\ shot'[s].dev = d /\ shot'[s].obj = object[d]
           /\ shot'[s].slot = f
           /\ \A x \in Shots \ {s} : shot'[x] = shot[x]
<1> DEFINE r == [Fresh EXCEPT !.pc = "turning", !.dev = d, !.obj = object[d], !.slot = f]
<1>1. /\ r.pc = "turning" /\ r.dev = d /\ r.obj = object[d] /\ r.slot = f
  BY DEF Fresh
<1>2. shot' = [shot EXCEPT ![s] = r]
  BY DEF BeginFiltered
<1> HIDE DEF r
<1> QED
  BY <1>1, <1>2 DEF ShotsTyped

(* Only the capture's state changes. *)
LEMMA PcGives ==
    ASSUME ShotsTyped, NEW s \in Shots, NEW pc, shot' = [shot EXCEPT ![s].pc = pc]
    PROVE  /\ shot'[s].pc = pc /\ SameBut(s)
           /\ shot'[s].image = shot[s].image /\ shot'[s].pass = shot[s].pass
           /\ \A x \in Shots \ {s} : shot'[x] = shot[x]
BY DEF ShotsTyped, ShotRec, SameBut

LEMMA ShotMoves ==
    ASSUME AdaptersTyped, ShotsTyped, CameraNext, NEW s \in Shots
    PROVE  \/ shot'[s] = shot[s]
           \/ \E d \in Cams : Begin(s, d)
           \/ \E d \in Cams, f \in Slots : BeginFiltered(s, d, f)
           \/ Proceed(s)
           \/ /\ shot'[s].pc = "failed"
              /\ SameBut(s)
           \/ /\ \/ File(s) /\ shot'[s].pc = "filed" /\ shot[s].pc = "read"
                 \/ Commit(s) /\ shot'[s].pc = "done" /\ shot[s].pc = "filed"
              /\ SameBut(s) /\ shot'[s].image = shot[s].image /\ shot'[s].pass = shot[s].pass
           \/ /\ shot'[s].pc = "read" /\ shot[s].pc = "exposing"
              /\ SameBut(s) /\ shot'[s].pass = shot[s].pass
              /\ \E d \in Cams : Image(d) /\ Served(s, d) /\ shot'[s].image = exposing[d].of
           \/ /\ WheelMoves /\ wheel.moving /\ wheel.to # wheel.at
              /\ shot'[s].pc = "exposing" /\ shot[s].pc = "exposing" /\ SameBut(s)
<1> DEFINE Claim ==
           \/ shot'[s] = shot[s]
           \/ /\ shot'[s].pc = "failed"
              /\ SameBut(s)
           \/ /\ \/ File(s) /\ shot'[s].pc = "filed" /\ shot[s].pc = "read"
                 \/ Commit(s) /\ shot'[s].pc = "done" /\ shot[s].pc = "filed"
              /\ SameBut(s) /\ shot'[s].image = shot[s].image /\ shot'[s].pass = shot[s].pass
           \/ /\ shot'[s].pc = "read" /\ shot[s].pc = "exposing"
              /\ SameBut(s) /\ shot'[s].pass = shot[s].pass
              /\ \E d \in Cams : Image(d) /\ Served(s, d) /\ shot'[s].image = exposing[d].of
           \/ /\ WheelMoves /\ wheel.moving /\ wheel.to # wheel.at
              /\ shot'[s].pc = "exposing" /\ shot[s].pc = "exposing" /\ SameBut(s)
<1>1. ASSUME CameraCrash PROVE Claim
  <2>1. shot'[s] = shot[s] \/ shot'[s] = [shot[s] EXCEPT !.pc = "failed"]
    BY <1>1 DEF CameraCrash
  <2>2. shot'[s] = [shot[s] EXCEPT !.pc = "failed"] => shot'[s].pc = "failed" /\ SameBut(s)
    BY DEF ShotsTyped, ShotRec, SameBut
  <2> QED
    BY <2>1, <2>2
<1>2. ASSUME WheelMoves PROVE Claim
  <2>1. \/ shot'[s] = shot[s]
        \/ /\ wheel.moving /\ wheel.to # wheel.at /\ shot[s].pc = "exposing"
           /\ shot'[s] = [shot[s] EXCEPT !.pass = 0]
    BY <1>2 DEF WheelMoves, Is
  <2>2. shot'[s] = [shot[s] EXCEPT !.pass = 0] => shot'[s].pc = shot[s].pc /\ SameBut(s)
    BY DEF ShotsTyped, ShotRec, SameBut
  <2> QED
    BY <1>2, <2>1, <2>2
<1>3. ASSUME NEW d \in Cams, Image(d) PROVE Claim
  <2> DEFINE image == exposing[d].of
  <2>1. \/ shot'[s] = shot[s]
        \/ Served(s, d) /\ shot'[s] = [shot[s] EXCEPT !.pc = "read", !.image = image]
    BY <1>3 DEF Image, Served, Listeners, Waiting, Is, AdaptersTyped
  <2>2. shot'[s] = [shot[s] EXCEPT !.pc = "read", !.image = image]
          => /\ shot'[s].pc = "read" /\ shot'[s].image = image /\ SameBut(s)
             /\ shot'[s].pass = shot[s].pass
    BY DEF ShotsTyped, ShotRec, SameBut
  <2> QED
    BY <1>3, <2>1, <2>2 DEF Served
<1>4. ASSUME NEW x \in Shots, Misses(x) \/ TimesOut(x) \/ File(x) \/ Commit(x) PROVE Claim
  <2>1. PICK pc : shot' = [shot EXCEPT ![x].pc = pc]
                  /\ \/ pc = "failed"
                     \/ File(x) /\ pc = "filed" /\ shot[x].pc = "read"
                     \/ Commit(x) /\ pc = "done" /\ shot[x].pc = "filed"
    BY <1>4 DEF Misses, TimesOut, File, Commit, Fails, Is
  <2> QED
    BY <2>1, PcGives
<1>5. ASSUME NEW x \in Shots, Proceed(x), x # s PROVE shot'[s] = shot[s]
  BY <1>5, FireGives DEF Proceed
<1>6. ASSUME NEW x \in Shots, NEW d \in Cams, Begin(x, d), x # s PROVE shot'[s] = shot[s]
  BY <1>6, FireGives DEF Begin
<1>7. ASSUME NEW x \in Shots, NEW d \in Cams, NEW f \in Slots, BeginFiltered(x, d, f), x # s
      PROVE  shot'[s] = shot[s]
  BY <1>7, TurnGives
<1> DEFINE Enters(x) == \/ Proceed(x) \/ (\E d \in Cams : Begin(x, d))
                        \/ \E d \in Cams, f \in Slots : BeginFiltered(x, d, f)
<1> HIDE DEF Claim
<1>8. Claim \/ Enters(s)
  <2>1. shot'[s] = shot[s] => Claim
    BY DEF Claim
  <2>2. ASSUME NEW x \in Shots, Enters(x), x # s PROVE Claim
    BY <2>1, <2>2, <1>5, <1>6, <1>7
  <2>3. UNCHANGED shot => Claim
    BY <2>1
  <2>4. \/ UNCHANGED shot \/ CameraCrash \/ WheelMoves
        \/ \E d \in Cams : Image(d)
        \/ \E x \in Shots : Misses(x) \/ TimesOut(x) \/ File(x) \/ Commit(x)
        \/ \E x \in Shots : Enters(x)
    BY ShotWriters
  <2> HIDE DEF Enters
  <2> QED
    BY <2>2, <2>3, <2>4, <1>1, <1>2, <1>3, <1>4
<1> QED
  BY <1>8 DEF Claim

-----------------------------------------------------------------------------
(***************************************************************************)
(* The archive.                                                            *)
(***************************************************************************)
FiledHasFile == \A s \in Shots : shot[s].pc = "filed" => s \in files

(* Every row of the archive has its file: ingest commits a row only after   *)
(* the file was written, and nothing takes a file away again.              *)
THEOREM RowsAreFiled == CameraSpec => []RowsHaveFiles
<1>1. CameraInit => RowsHaveFiles /\ FiledHasFile
  BY DEF CameraInit, Fresh, RowsHaveFiles, FiledHasFile
<1>2. TypesOK /\ RowsHaveFiles /\ FiledHasFile /\ [CameraNext]_camVars
        => RowsHaveFiles' /\ FiledHasFile'
  <2> SUFFICES ASSUME TypesOK, RowsHaveFiles, FiledHasFile, [CameraNext]_camVars
               PROVE  RowsHaveFiles' /\ FiledHasFile'
    OBVIOUS
  <2>1. CASE UNCHANGED camVars
    BY <2>1 DEF camVars, arcVars, RowsHaveFiles, FiledHasFile
  <2>2. CASE CameraNext
    <3>1. files \subseteq files'
      BY <2>2, ArchiveWriters DEF arcVars, File, Commit
    <3>2. RowsHaveFiles'
      BY <2>2, <3>1, ArchiveWriters DEF RowsHaveFiles, FiledHasFile, File, Commit, Is
    <3>3. ASSUME NEW s \in Shots, shot'[s].pc = "filed" PROVE s \in files'
      <4>1. CASE shot[s].pc = "filed"
        BY <3>1, <4>1 DEF FiledHasFile
      <4>2. CASE shot[s].pc # "filed"
        <5>1. ~(\E d \in Cams : Begin(s, d)) /\ ~Proceed(s)
          BY <3>3, FireGives DEF Begin, Proceed, TypesOK
        <5>2. ~(\E d \in Cams, f \in Slots : BeginFiltered(s, d, f))
          BY <3>3, TurnGives DEF TypesOK
        <5>3. File(s)
          BY <2>2, <3>3, <4>2, <5>1, <5>2, ShotMoves DEF TypesOK
        <5> QED
          BY <5>3 DEF File
      <4> QED
        BY <4>1, <4>2
    <3> QED
      BY <3>2, <3>3 DEF FiledHasFile
  <2> QED
    BY <2>1, <2>2
<1> QED
  BY <1>1, <1>2, Typing, PTL DEF CameraSpec

-----------------------------------------------------------------------------
(***************************************************************************)
(* Images.                                                                 *)
(***************************************************************************)

(* The adapter a camera role has was made for that camera. *)
AdapterFits == \A d \in Cams : d \in have => object[d] \in DOMAIN made /\ made[object[d]] = d

(* A capture holds an adapter of the camera it names, though the role may   *)
(* have another adapter by now, or none.                                   *)
ShotFits ==
    \A s \in Shots : shot[s].pc \in {"turning", "exposing"} =>
        shot[s].dev \in Cams /\ shot[s].obj \in DOMAIN made /\ made[shot[s].obj] = shot[s].dev

(* A future is kept at the adapter its capture holds. *)
PendingFits ==
    \A s \in Shots, o \in Objects :
        pending[o] = s => shot[s].obj = o /\ shot[s].pc \notin {"idle", "turning"}

(* What a camera is busy with is the exposure of the capture that waits,    *)
(* unless another has been started meanwhile.                              *)
ExposureFits ==
    \A s \in Shots : shot[s].pc = "exposing" /\ s \notin mixed /\ exposing[shot[s].dev].busy
                        => exposing[shot[s].dev].of = s

OwnInv == AdapterFits /\ ShotFits /\ PendingFits /\ ExposureFits /\ FrameIsOwn

(* Adapters are made and never changed. *)
LEMMA MadeGrows ==
    ASSUME AdaptersTyped, CameraNext, NEW o \in DOMAIN made
    PROVE  o \in DOMAIN made' /\ made'[o] = made[o]
<1>1. CASE UNCHANGED made
  BY <1>1
<1>2. ASSUME NEW r \in Cams, made' = Append(made, r)
      PROVE  o \in DOMAIN made' /\ made'[o] = made[o]
  BY <1>2 DEF AdaptersTyped
<1> QED
  BY <1>1, <1>2, AdapterWriters
     DEF LinkConnects, LinkLost, CameraCrash, AdapterMade, AdapterUnbound

LEMMA AdapterFitsKept ==
    ASSUME AdaptersTyped, AdapterFits, CameraNext
    PROVE  AdapterFits'
<1> SUFFICES ASSUME NEW d \in Cams, d \in have'
             PROVE  object'[d] \in DOMAIN made' /\ made'[object'[d]] = d
  BY DEF AdapterFits
<1>1. CASE d \in have /\ object'[d] = object[d]
  BY <1>1, MadeGrows DEF AdapterFits
<1>2. CASE UNCHANGED <<linkVars, object, made, hears>> \/ LinkConnects
  BY <1>1, <1>2 DEF LinkConnects, Connect, linkVars
<1>3. ~LinkLost /\ ~CameraCrash
  BY DEF LinkLost, CameraCrash, Lose
<1>4. ASSUME NEW r \in Roles, AdapterUnbound(r) PROVE d \in have /\ object'[d] = object[d]
  BY <1>4 DEF AdapterUnbound, Unbind, AdaptersTyped
<1>5. ASSUME NEW r \in Roles, AdapterMade(r), r # d PROVE d \in have /\ object'[d] = object[d]
  BY <1>5 DEF AdapterMade, Gain, AdaptersTyped
<1>6. ASSUME AdapterMade(d) PROVE object'[d] \in DOMAIN made' /\ made'[object'[d]] = d
  <2>1. made' = Append(made, d) /\ object' = [object EXCEPT ![d] = Len(made')]
    BY <1>6 DEF AdapterMade
  <2>2. Len(made') = Len(made) + 1 /\ made'[Len(made')] = d /\ Len(made') \in DOMAIN made'
    BY <2>1 DEF AdaptersTyped
  <2> QED
    BY <2>1, <2>2 DEF AdaptersTyped
<1> QED
  BY <1>1, <1>2, <1>3, <1>4, <1>5, <1>6, AdapterWriters

LEMMA ShotFitsKept ==
    ASSUME AdaptersTyped, ShotsTyped, AdapterFits, ShotFits, CameraNext
    PROVE  ShotFits'
<1> SUFFICES ASSUME NEW s \in Shots, shot'[s].pc \in {"turning", "exposing"}
             PROVE  /\ shot'[s].dev \in Cams /\ shot'[s].obj \in DOMAIN made'
                    /\ made'[shot'[s].obj] = shot'[s].dev
  BY DEF ShotFits
<1>1. CASE shot[s].pc \in {"turning", "exposing"} /\ SameBut(s)
  BY <1>1, MadeGrows DEF ShotFits, SameBut
<1>2. ASSUME NEW d \in Cams, d \in have, shot'[s].dev = d, shot'[s].obj = object[d]
      PROVE  /\ shot'[s].dev \in Cams /\ shot'[s].obj \in DOMAIN made'
             /\ made'[shot'[s].obj] = shot'[s].dev
  BY <1>2, MadeGrows DEF AdapterFits
<1>3. ASSUME NEW d \in Cams, Begin(s, d)
      PROVE  d \in have /\ shot'[s].dev = d /\ shot'[s].obj = object[d]
  BY <1>3, FireGives DEF Begin
<1>4. ASSUME NEW d \in Cams, NEW f \in Slots, BeginFiltered(s, d, f)
      PROVE  d \in have /\ shot'[s].dev = d /\ shot'[s].obj = object[d]
  BY <1>4, TurnGives DEF BeginFiltered
<1>5. Proceed(s) => shot[s].pc \in {"turning", "exposing"} /\ SameBut(s)
  BY FireGives DEF Proceed, SameBut, Is
<1>6. shot'[s] = shot[s] => shot[s].pc \in {"turning", "exposing"} /\ SameBut(s)
  BY DEF SameBut
<1> QED
  BY <1>1, <1>2, <1>3, <1>4, <1>5, <1>6, ShotMoves

LEMMA PendingFitsKept ==
    ASSUME TypesOK, PendingFits, CameraNext
    PROVE  PendingFits'
<1> SUFFICES ASSUME NEW s \in Shots, NEW o \in Objects, pending'[o] = s
             PROVE  shot'[s].obj = o /\ shot'[s].pc \notin {"idle", "turning"}
  BY DEF PendingFits
<1> USE DEF TypesOK
<1>1. ASSUME NEW d, NEW x, NEW f, Fire(s, d, x, f), pending[o] # s
      PROVE  shot'[s].obj = o /\ shot'[s].pc \notin {"idle", "turning"}
  <2>1. shot'[s].obj = x /\ shot'[s].pc = "exposing"
    BY <1>1, FireGives
  <2>2. pending' = [pending EXCEPT ![x] = s]
    BY <1>1 DEF Fire
  <2>3. x = o
    BY <1>1, <2>2 DEF PendingTyped
  <2> QED
    BY <2>1, <2>3
<1>2. ASSUME pending[o] # s
      PROVE  Proceed(s) \/ \E d \in Cams : Begin(s, d)
  <2>1. ~CameraCrash
    BY RolesDiffer DEF CameraCrash
  <2>2. ASSUME NEW x \in Shots, TimesOut(x) \/ File(x) PROVE FALSE
    BY <1>2, <2>2, RolesDiffer DEF TimesOut, File, PendingTyped
  <2>3. ASSUME NEW x \in Shots, x # s, Proceed(x) \/ \E d \in Cams : Begin(x, d) PROVE FALSE
    BY <1>2, <2>3 DEF Proceed, Begin, Fire, PendingTyped
  <2> QED
    BY <1>2, <2>1, <2>2, <2>3, PendingWriters
<1>3. CASE pending[o] # s
  BY <1>1, <1>2, <1>3 DEF Proceed, Begin
<1>4. CASE pending[o] = s
  <2>1. shot[s].obj = o /\ shot[s].pc \notin {"idle", "turning"}
    BY <1>4 DEF PendingFits
  <2>2. /\ ~(\E d \in Cams : Begin(s, d)) /\ ~Proceed(s)
        /\ ~(\E d \in Cams, f \in Slots : BeginFiltered(s, d, f))
    BY <2>1 DEF Begin, BeginFiltered, Proceed, Is
  <2> QED
    BY <2>1, <2>2, ShotMoves DEF SameBut
<1> QED
  BY <1>3, <1>4

(* An exposure that begins is the one of its capture, and marks whoever     *)
(* waits for that camera already.                                          *)
LEMMA TriggerGives ==
    ASSUME ShotsTyped, ExposingTyped, HistoryTyped,
           NEW d \in Cams, NEW t \in Shots \cup {0}, Trigger(d, t)
    PROVE  /\ t \in Shots /\ t \notin mixed' => exposing'[d].of = t
           /\ \A c \in Cams \ {d} : exposing'[c] = exposing[c]
           /\ \A s \in Shots : shot[s].pc = "exposing" /\ s \notin mixed'
                              => s \notin mixed /\ shot[s].dev # d
<1>1. t \in Shots /\ t \notin mixed' => exposing' = [exposing EXCEPT ![d] = [busy |-> TRUE, of |-> t]]
  BY DEF Trigger
<1>2. t \in Shots /\ t \notin mixed' => exposing'[d].of = t
  <2> DEFINE e == [busy |-> TRUE, of |-> t]
  <2>1. e.of = t
    OBVIOUS
  <2>2. t \in Shots /\ t \notin mixed' => exposing'[d] = e
    BY <1>1 DEF ExposingTyped
  <2> HIDE DEF e
  <2> QED
    BY <2>1, <2>2
<1>3. \A c \in Cams \ {d} : exposing'[c] = exposing[c]
  BY DEF Trigger, ExposingTyped
<1>4. \A s \in Shots : shot[s].pc = "exposing" /\ s \notin mixed'
                     => s \notin mixed /\ shot[s].dev # d
  BY DEF Trigger, Is
<1> QED
  BY <1>2, <1>3, <1>4

LEMMA ExposureFitsKept ==
    ASSUME TypesOK, ShotFits, ExposureFits, CameraNext
    PROVE  ExposureFits'
<1> USE DEF TypesOK
<1> SUFFICES ASSUME NEW s \in Shots, shot'[s].pc = "exposing", s \notin mixed',
                    exposing'[shot'[s].dev].busy
             PROVE  exposing'[shot'[s].dev].of = s
  BY DEF ExposureFits
<1>1. ASSUME NEW d \in Cams, NEW o, NEW f, Fire(s, d, o, f)
      PROVE  exposing'[shot'[s].dev].of = s
  <2>1. shot'[s].dev = d
    BY <1>1, FireGives
  <2>2. Trigger(d, s)
    BY <1>1 DEF Fire
  <2> QED
    BY <2>1, <2>2, TriggerGives
<1>2. CASE (\E d \in Cams : Begin(s, d)) \/ Proceed(s)
  <2>1. ASSUME NEW d \in Cams, Begin(s, d) PROVE exposing'[shot'[s].dev].of = s
    BY <1>1, <2>1 DEF Begin
  <2>2. ASSUME Proceed(s) PROVE exposing'[shot'[s].dev].of = s
    <3>1. shot[s].dev \in Cams /\ Fire(s, shot[s].dev, shot[s].obj, shot[s].slot)
      BY <2>2 DEF Proceed, ShotFits, Is
    <3> QED
      BY <1>1, <3>1
  <2> QED
    BY <1>2, <2>1, <2>2
<1>3. CASE ~((\E d \in Cams : Begin(s, d)) \/ Proceed(s))
  <2>1. shot[s].pc = "exposing" /\ SameBut(s)
    <3>1. ~(\E d \in Cams, f \in Slots : BeginFiltered(s, d, f))
      BY TurnGives
    <3> QED
      BY <1>3, <3>1, ShotMoves DEF SameBut
  <2> DEFINE d == shot[s].dev
  <2>2. d \in Cams /\ shot'[s].dev = d
    BY <2>1 DEF ShotFits, SameBut
  <2>3. CASE UNCHANGED <<exposing, mixed>>
    BY <2>1, <2>2, <2>3 DEF ExposureFits
  <2>4. ASSUME NEW c \in Cams, NEW t \in Shots \cup {0}, Trigger(c, t)
        PROVE  exposing'[d].of = s
    <3>1. s \notin mixed /\ d # c
      BY <2>1, <2>4, TriggerGives
    <3>2. exposing'[d] = exposing[d]
      BY <2>2, <2>4, <3>1, TriggerGives
    <3> QED
      BY <2>1, <2>2, <3>1, <3>2 DEF ExposureFits
  <2>5. ASSUME NEW c \in Cams, Image(c) \/ NoImage(c) PROVE exposing'[d].of = s
    <3>1. exposing' = [exposing EXCEPT ![c] = Quiet] /\ mixed' = mixed
      BY <2>5 DEF Image, NoImage, hisVars
    <3>2. ~Quiet.busy
      BY DEF Quiet
    <3>3. c # d /\ exposing'[d] = exposing[d]
      BY <2>2, <3>1, <3>2 DEF ExposingTyped
    <3> QED
      BY <2>1, <2>2, <3>1, <3>3 DEF ExposureFits
  <2>6. ASSUME NEW x \in Shots, Proceed(x) PROVE exposing'[d].of = s
    <3>1. shot[x].dev \in Cams /\ Trigger(shot[x].dev, x)
      BY <2>6 DEF Proceed, Fire, ShotFits, Is
    <3> QED
      BY <2>4, <3>1
  <2>7. ASSUME NEW x \in Shots, NEW c \in Cams, Begin(x, c) PROVE exposing'[d].of = s
    BY <2>4, <2>7 DEF Begin, Fire
  <2>8. ASSUME NEW c \in Cams, Expose(c) PROVE exposing'[d].of = s
    BY <2>4, <2>8 DEF Expose
  <2> QED
    BY <2>2, <2>3, <2>5, <2>6, <2>7, <2>8, ExposingWriters
<1> QED
  BY <1>2, <1>3

LEMMA FrameIsOwnKept ==
    ASSUME TypesOK, ShotFits, PendingFits, ExposureFits, FrameIsOwn, CameraNext
    PROVE  FrameIsOwn'
<1> USE DEF TypesOK
<1> SUFFICES ASSUME NEW s \in Shots, shot'[s].pc \in {"read", "filed", "done"}, s \notin mixed'
             PROVE  shot'[s].image = s
  BY DEF FrameIsOwn
<1>1. s \notin mixed
  BY ExposingWriters DEF Image, NoImage, Expose, Proceed, Begin, Fire, Trigger, hisVars
<1>2. /\ ~(\E d \in Cams : Begin(s, d)) /\ ~Proceed(s)
  BY FireGives DEF Begin, Proceed
<1>3. ~(\E d \in Cams, f \in Slots : BeginFiltered(s, d, f))
  BY TurnGives
<1>4. CASE shot[s].pc \in {"read", "filed", "done"} /\ shot'[s].image = shot[s].image
  BY <1>1, <1>4 DEF FrameIsOwn
<1>5. ASSUME NEW d \in Cams, Image(d), Served(s, d), shot[s].pc = "exposing"
      PROVE  exposing[d].of = s
  <2>1. PICK o \in Objects : made[o] = d /\ pending[o] = s
    BY <1>5 DEF Served
  <2>2. shot[s].dev = d
    BY <1>5, <2>1 DEF PendingFits, ShotFits
  <2> QED
    BY <1>1, <1>5, <2>2 DEF Image, ExposureFits
<1> QED
  BY <1>2, <1>3, <1>4, <1>5, ShotMoves

(* Every frame shows its own exposure, however adapters come and go, images *)
(* are late, other cameras deliver and captures time out, unless exposures  *)
(* of that camera overlapped.                                              *)
THEOREM FramesAreOwn == CameraSpec => []FrameIsOwn
<1>1. CameraInit => OwnInv
  <2> SUFFICES ASSUME CameraInit PROVE OwnInv
    OBVIOUS
  <2>1. \A s \in Shots : shot[s].pc = "idle"
    BY DEF CameraInit, Fresh
  <2>2. have = {} /\ \A o \in Objects : pending[o] = 0
    BY DEF CameraInit, LinkInit
  <2> QED
    BY <2>1, <2>2, RolesDiffer
       DEF OwnInv, AdapterFits, ShotFits, PendingFits, ExposureFits, FrameIsOwn
<1>2. TypesOK /\ OwnInv /\ [CameraNext]_camVars => OwnInv'
  <2> SUFFICES ASSUME TypesOK, OwnInv, [CameraNext]_camVars PROVE OwnInv'
    OBVIOUS
  <2>1. CASE UNCHANGED camVars
    BY <2>1
       DEF OwnInv, AdapterFits, ShotFits, PendingFits, ExposureFits, FrameIsOwn, camVars, linkVars,
           objVars, driVars, hisVars
  <2>2. CASE CameraNext
    BY <2>2, AdapterFitsKept, ShotFitsKept, PendingFitsKept, ExposureFitsKept, FrameIsOwnKept
       DEF OwnInv, TypesOK
  <2> QED
    BY <2>1, <2>2
<1> QED
  BY <1>1, <1>2, Typing, PTL DEF CameraSpec, OwnInv

-----------------------------------------------------------------------------
(***************************************************************************)
(* Filters.                                                                *)
(***************************************************************************)

(* A capture that nobody interfered with has the wheel: what it was told    *)
(* last is the capture's own position, and once the frame is being taken it *)
(* is there.                                                               *)
WheelFits ==
    \A s \in Shots \ shifted :
        /\ shot[s].pc \in {"turning", "exposing"} /\ shot[s].slot # 0 => wheel.to \in {0, shot[s].slot}
        /\ shot[s].pc = "exposing" /\ shot[s].slot # 0
              => wheel.at = shot[s].slot /\ shot[s].pass = shot[s].slot

(* Nothing gives a capture back the wheel once it was taken from it. *)
LEMMA ShiftedGrows == ASSUME CameraNext PROVE shifted \subseteq shifted'
BY WheelWriters DEF WheelMoves, SetFilter, Proceed, BeginFiltered, hisVars

(* Whoever tells the wheel takes it from every capture that minds. *)
LEMMA WheelKept ==
    ASSUME TypesOK, CameraNext, NEW s \in Shots, s \notin shifted',
           shot[s].pc \in {"turning", "exposing"},
           wheel.to \in {0, shot[s].slot}
    PROVE  /\ wheel'.to \in {0, shot[s].slot}
           /\ wheel.at = shot[s].slot => wheel'.at = shot[s].slot
<1>1. CASE wheel' = wheel
  BY <1>1
<1>2. CASE WheelMoves
  <2>1. CASE wheel' = [wheel EXCEPT !.moving = TRUE]
    <3>1. wheel'.to = wheel.to /\ wheel'.at = wheel.at
      BY <2>1 DEF TypesOK, WheelTyped, Wheels
    <3> QED
      BY <3>1
  <2>2. CASE wheel' = [at |-> wheel.to, to |-> 0, moving |-> FALSE]
    BY <1>2, <2>2 DEF WheelMoves
  <2> QED
    BY <1>2, <2>1, <2>2 DEF WheelMoves
<1>3. ASSUME NEW f \in Slots, SetFilter(f) PROVE FALSE
  BY <1>3 DEF SetFilter, Minding
<1>4. ASSUME NEW x \in Shots, NEW d \in Cams, NEW f \in Slots, BeginFiltered(x, d, f) PROVE FALSE
  BY <1>4 DEF BeginFiltered, Minding
<1>5. ASSUME NEW x \in Shots, Proceed(x) PROVE wheel' = wheel
  BY <1>5 DEF Proceed
<1> QED
  BY <1>1, <1>2, <1>3, <1>4, <1>5, WheelWriters

(* A filtered capture that begins has told the wheel its own position. *)
LEMMA BeginsOwn ==
    ASSUME TypesOK, NEW s \in Shots, NEW d \in Cams, NEW f \in Slots, BeginFiltered(s, d, f)
    PROVE  shot'[s].pc = "turning" /\ wheel'.to = shot'[s].slot
<1>1. shot'[s].pc = "turning" /\ shot'[s].slot = f
  BY TurnGives DEF TypesOK
<1>2. wheel' = [wheel EXCEPT !.to = f]
  BY DEF BeginFiltered, Tell
<1>3. wheel'.to = f
  BY <1>2 DEF TypesOK, WheelTyped, Wheels
<1> QED
  BY <1>1, <1>3

LEMMA WheelFitsKept ==
    ASSUME TypesOK, WheelFits, CameraNext
    PROVE  WheelFits'
<1> SUFFICES ASSUME NEW s \in Shots, s \notin shifted',
                    shot'[s].pc \in {"turning", "exposing"}, shot'[s].slot # 0
             PROVE  /\ wheel'.to \in {0, shot'[s].slot}
                    /\ shot'[s].pc = "exposing"
                          => wheel'.at = shot'[s].slot /\ shot'[s].pass = shot'[s].slot
  BY DEF WheelFits
<1>1. s \notin shifted
  BY ShiftedGrows
<1>2. ~(\E d \in Cams : Begin(s, d))
  BY FireGives DEF Begin, TypesOK
<1>3. CASE \E d \in Cams, f \in Slots : BeginFiltered(s, d, f)
  BY <1>3, BeginsOwn
<1>4. CASE Proceed(s)
  <2>1. /\ shot[s].pc = "turning" /\ SameBut(s) /\ shot'[s].pass = wheel.at
    BY <1>4, FireGives DEF Proceed, Is, SameBut, TypesOK
  <2>2. wheel' = wheel /\ wheel.at = shot[s].slot
    BY <1>4 DEF Proceed, InPlace
  <2> QED
    BY <1>1, <2>1, <2>2 DEF WheelFits, SameBut
<1>5. CASE shot[s].pc = shot'[s].pc /\ SameBut(s)
           /\ (shot'[s].pass = shot[s].pass \/ (WheelMoves /\ wheel.moving /\ wheel.to # wheel.at))
  <2>1. wheel.to \in {0, shot[s].slot} /\ shot[s].slot = shot'[s].slot
    BY <1>1, <1>5 DEF WheelFits, SameBut
  <2>2. wheel'.to \in {0, shot[s].slot} /\ (wheel.at = shot[s].slot => wheel'.at = shot[s].slot)
    BY <1>5, <2>1, WheelKept
  <2>3. CASE shot[s].pc = "exposing"
    <3>1. wheel.at = shot[s].slot /\ shot[s].pass = shot[s].slot
      BY <1>1, <2>1, <2>3 DEF WheelFits
    <3>2. ~(WheelMoves /\ wheel.moving /\ wheel.to # wheel.at)
      BY <2>1, <3>1 DEF WheelMoves
    <3> QED
      BY <1>5, <2>1, <2>2, <3>1, <3>2
  <2> QED
    BY <1>5, <2>1, <2>2, <2>3
<1>6. \/ \E d \in Cams : Begin(s, d)
      \/ \E d \in Cams, f \in Slots : BeginFiltered(s, d, f)
      \/ Proceed(s)
      \/ shot'[s] = shot[s]
      \/ /\ shot[s].pc = shot'[s].pc /\ SameBut(s)
         /\ WheelMoves /\ wheel.moving /\ wheel.to # wheel.at
  BY ShotMoves DEF TypesOK
<1>7. CASE shot'[s] = shot[s]
  <2>1. shot[s].pc = shot'[s].pc /\ SameBut(s) /\ shot'[s].pass = shot[s].pass
    BY <1>7 DEF SameBut
  <2> QED
    BY <1>5, <2>1
<1> QED
  BY <1>2, <1>3, <1>4, <1>5, <1>6, <1>7

LEMMA RightFilterKept ==
    ASSUME TypesOK, WheelFits, RightFilter, CameraNext
    PROVE  RightFilter'
<1> SUFFICES ASSUME NEW s \in Shots, shot'[s].pc \in {"read", "filed", "done"}, shot'[s].slot # 0,
                    s \notin shifted'
             PROVE  shot'[s].pass = shot'[s].slot
  BY DEF RightFilter
<1>1. s \notin shifted
  BY ShiftedGrows
<1>2. /\ ~(\E d \in Cams : Begin(s, d)) /\ ~Proceed(s)
  BY FireGives DEF Begin, Proceed, TypesOK
<1>3. ~(\E d \in Cams, f \in Slots : BeginFiltered(s, d, f))
  BY TurnGives DEF TypesOK
<1>4. /\ shot[s].pc \in {"exposing", "read", "filed", "done"}
      /\ SameBut(s) /\ shot'[s].pass = shot[s].pass
  BY <1>2, <1>3, ShotMoves DEF TypesOK, SameBut
<1> QED
  BY <1>1, <1>4 DEF WheelFits, RightFilter, SameBut

(* A frame is taken through the filter it was asked with, although the wait *)
(* for the wheel is not checked, unless the wheel was late or was told      *)
(* otherwise while the capture needed it.                                  *)
THEOREM FiltersAreRight == CameraSpec => []RightFilter
<1>1. CameraInit => WheelFits /\ RightFilter
  BY DEF CameraInit, Fresh, WheelFits, RightFilter
<1>2. TypesOK /\ WheelFits /\ RightFilter /\ [CameraNext]_camVars => WheelFits' /\ RightFilter'
  <2> SUFFICES ASSUME TypesOK, WheelFits, RightFilter, [CameraNext]_camVars
               PROVE  WheelFits' /\ RightFilter'
    OBVIOUS
  <2>1. CASE UNCHANGED camVars
    BY <2>1 DEF WheelFits, RightFilter, camVars, driVars, hisVars
  <2>2. CASE CameraNext
    BY <2>2, WheelFitsKept, RightFilterKept
  <2> QED
    BY <2>1, <2>2
<1> QED
  BY <1>1, <1>2, Typing, PTL DEF CameraSpec

(* After any failed commits, late images and restarts a row of the archive *)
(* has its file, and a frame that asked for a filter was taken through it  *)
(* unless the wheel was late or was told otherwise (shifted).              *)
THEOREM FramesAreFiled == CameraSpec => []FramesAsFiled
BY RowsAreFiled, FiltersAreRight, PTL DEF FramesAsFiled

=============================================================================
