----------------------------- MODULE MCDevices -----------------------------
(***************************************************************************)
(* Small instances of DeviceLink, Camera, Precision and Guiding, which     *)
(* share no state: what Camera takes from DeviceLink is module Link, which *)
(* the run checks DeviceLink to implement. The constants are given in the  *)
(* cfg files. The bound "part" has one of them move in a behaviour.        *)
(* Captures are looked at twice: two of them on one camera with its        *)
(* adapters made anew and a second camera beside it ("shutter": the mount  *)
(* is bound first, and rows are committed), and one with the filter wheel  *)
(* and commits that fail ("wheel"); precision operations two at a time, of *)
(* one kind.                                                               *)
(***************************************************************************)
EXTENDS DeviceLink, Camera, Precision, Guiding

CONSTANT Guide      \* the second camera

VARIABLE part

MCvars == <<deviceVars, camVars, preVars, guideVars, part>>

MCInit ==
    /\ part \in {"link", "shutter", "wheel", "center", "focus", "guiding"}
    /\ DeviceInit /\ CameraInit /\ PrecisionInit /\ GuidingInit
    /\ part # "link" => bound = {}
    /\ part \notin {"shutter", "wheel"} => wheel.at = 1
    /\ part # "focus" => focus.at = 0
    /\ part # "guiding" => guider = "Stopped"

(* Only the cameras' roles are bound and unbound from the console; the     *)
(* other devices stay once they are announced.                             *)
OnLink ==
    /\ \A r \in Devices \ Cameras :
          hand'["console"].role # r /\ (r \in bound => r \in bound')
    /\ \A c \in Clients : wire'[c] = wire[c] => cache[c] \ Cameras \subseteq cache'[c]
    /\ UNCHANGED <<camVars, preVars, guideVars, part>>

OnCamera ==
    /\ UNCHANGED <<deviceVars, preVars, guideVars, part>>
    /\ \/ /\ part = "shutter"
          /\ UNCHANGED wheel
          /\ have' = {} \/ Mount \in have'
          /\ rows' = files' \ {s \in Shots : Is(s, "filed")'}
          /\ Wheel \notin have'
          /\ \A s \in Shots : shot'[s].dev # Guide
       \/ /\ part = "wheel"
          /\ Guide \notin have'
          /\ Len(made') <= 1
          /\ \A s \in Shots \ {1} : shot'[s] = Fresh

OnPrecision ==
    /\ \A c \in Callers : op'[c].pc # "idle" => op'[c].what = part
    /\ UNCHANGED <<deviceVars, camVars, guideVars, part>>

AtLink      == part = "link"
AtCamera    == part \in {"shutter", "wheel"}
AtPrecision == part \in {"center", "focus"}

MCNext ==
    \/ AtLink /\ DeviceNext /\ OnLink
    \/ AtCamera /\ CameraNext /\ OnCamera
    \/ AtPrecision /\ PrecisionNext /\ OnPrecision
    \/ part = "guiding" /\ GuidingNext /\ UNCHANGED <<deviceVars, camVars, preVars, part>>

MCSpec == MCInit /\ [][MCNext]_MCvars

MCFairSpec ==
    /\ MCSpec
    /\ WF_MCvars(AtLink /\ LoopStep /\ OnLink) /\ SF_MCvars(AtLink /\ ConnectOk /\ OnLink)
    /\ \A s \in Shots : WF_MCvars(AtCamera /\ ShotStep(s) /\ OnCamera)
    /\ \A c \in Callers : WF_MCvars(AtPrecision /\ OpStep(c) /\ OnPrecision)

TypeOK == DeviceTypeOK /\ CameraTypeOK /\ PrecisionTypeOK /\ GuidingTypeOK

(* A link that is down comes back, also to a server it was repointed to,   *)
(* as long as the loop has not ended; asked of the part in which it runs.  *)
LinkComesBack == part = "link" => LinkReturns

(* Whatever is asked of the devices ends: a capture, though its image, the *)
(* wheel or the link never comes, and a centring or autofocus, which also  *)
(* gets the lock it waits for.                                             *)
WorkEnds == CapturesEnd /\ OpsEnd
=============================================================================
