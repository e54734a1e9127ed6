------------------------------- MODULE Guiding -------------------------------
(***************************************************************************)
(* The autoguiding client (crito/agent/phd2.py).  PHD2 pushes events over  *)
(* one socket, and its state is known only from them; commands go the      *)
(* other way and are not answered.  The link is lost at any moment, with   *)
(* what is under way in both directions.  PHD2 itself is not part of the   *)
(* repository: it guides, pauses and stops by itself and by command, says  *)
(* so, and tells its state (AppState) to whoever connects.                 *)
(***************************************************************************)
EXTENDS Naturals, Sequences

CONSTANTS
    MaxEvents,      \* bound: events and commands under way
    MaxSamples      \* the length of the deque of samples

ASSUME GuidingConstants == MaxEvents \in Nat \ {0} /\ MaxSamples \in Nat

VARIABLES
    guider,     \* PHD2's own state
    socket,     \* _run: connecting, open, gone (not noticed yet) or sleeping
    events,     \* lines PHD2 has sent
    orders,     \* commands it has been sent
    shown,      \* PHD2Client.state
    samples     \* how many samples there are

guideVars == <<guider, socket, events, orders, shown, samples>>

(* PHD2 also loops, calibrates, selects a star and loses it: of these the  *)
(* client hears only from AppState, which it shows as it is, and from      *)
(* LoopingExposuresStopped, which is to it what GuidingStopped is.  They   *)
(* are left out, and "Stopped" stands for not guiding.                     *)
GuideStates == {"Stopped", "Guiding", "Paused"}

Signals == {"AppState", "GuideStep", "GuidingStopped", "StartGuiding", "Paused", "Resumed"}

(* An event, with the state PHD2 is in when it is sent. *)
Event(name, state) == [name |-> name, state |-> state]

GuidingInit ==
    /\ guider \in GuideStates
    /\ socket = "connecting"
    /\ events = <<>>
    /\ orders = <<>>
    /\ shown = "Stopped"
    /\ samples = 0

(* PHD2Client.connected, and that there is a writer. *)
Connected == socket \in {"open", "gone"}

-----------------------------------------------------------------------------
SocketOpens ==
    /\ socket = "connecting"
    /\ socket' = "open"
    /\ events' = <<Event("AppState", guider)>>
    /\ UNCHANGED <<guider, orders, shown, samples>>

SocketFails ==
    /\ socket = "connecting"
    /\ socket' = "sleeping"
    /\ UNCHANGED <<guider, events, orders, shown, samples>>

(* Mutant: the state PHD2 tells when asked is not looked at. *)
StateAfterEvents(e) ==
    CASE e.name \in {"GuideStep", "StartGuiding"} -> "Guiding"
      [] e.name = "GuidingStopped"                -> "Stopped"
      [] e.name = "Paused"                        -> "Paused"
      [] OTHER                                    -> shown

(* What _handle makes of an event; others leave the state as it is. *)
StateAfter(e) ==
    CASE e.name \in {"GuideStep", "StartGuiding"} -> "Guiding"
      [] e.name = "GuidingStopped"                -> "Stopped"
      [] e.name = "Paused"                        -> "Paused"
      [] e.name = "AppState"                      -> e.state
      [] OTHER                                    -> shown

Handle ==
    /\ Connected
    /\ events # <<>>
    /\ shown' = StateAfter(Head(events))
    /\ samples' = IF Head(events).name = "GuideStep" /\ samples < MaxSamples
                THEN samples + 1 ELSE samples
    /\ events' = Tail(events)
    /\ UNCHANGED <<guider, socket, orders>>

(* An empty line, or an error: what is shown stays. *)
SocketEnds ==
    /\ socket = "gone"
    /\ events = <<>>
    /\ socket' = "sleeping"
    /\ UNCHANGED <<guider, events, orders, shown, samples>>

SocketRetries ==
    /\ socket = "sleeping"
    /\ socket' = "connecting"
    /\ UNCHANGED <<guider, events, orders, shown, samples>>

(* guide() and stop_guiding(); without a writer they raise.  Into a socket *)
(* that is gone they are written all the same.                             *)
Order(o) ==
    /\ Connected
    /\ Len(orders) < MaxEvents
    /\ orders' = IF socket = "open" THEN Append(orders, o) ELSE orders
    /\ UNCHANGED <<guider, socket, events, shown, samples>>

-----------------------------------------------------------------------------
(* PHD2. *)
Says(s, e) ==
    /\ guider' = s
    /\ Len(events) < MaxEvents \/ socket # "open"
    /\ events' = IF socket = "open" THEN Append(events, Event(e, s)) ELSE events

GuiderActs ==
    /\ \/ guider = "Guiding" /\ Says("Guiding", "GuideStep")
       \/ guider = "Guiding" /\ Says("Paused", "Paused")
       \/ guider = "Paused"  /\ Says("Guiding", "Resumed")
       \/ guider # "Stopped" /\ Says("Stopped", "GuidingStopped")
       \/ guider = "Stopped" /\ Says("Guiding", "StartGuiding")
    /\ UNCHANGED <<socket, orders, shown, samples>>

GuiderObeys ==
    /\ orders # <<>>
    /\ \/ Head(orders) = "guide" /\ Says("Guiding", "StartGuiding")
       \/ Head(orders) = "stop_capture" /\ Says("Stopped", "GuidingStopped")
    /\ orders' = Tail(orders)
    /\ UNCHANGED <<socket, shown, samples>>

(* The link goes, and some of the lines it carried with it. *)
SocketLost ==
    /\ socket = "open"
    /\ socket' = "gone"
    /\ \E n \in 0 .. Len(events) : events' = SubSeq(events, 1, n)
    /\ orders' = <<>>
    /\ UNCHANGED <<guider, shown, samples>>

ClientStep == SocketOpens \/ SocketFails \/ Handle \/ SocketEnds \/ SocketRetries

GuidingNext ==
    \/ ClientStep
    \/ \E o \in {"guide", "stop_capture"} : Order(o)
    \/ GuiderActs \/ GuiderObeys \/ SocketLost

GuidingSpec == GuidingInit /\ [][GuidingNext]_guideVars

-----------------------------------------------------------------------------
GuidingTypeOK ==
    /\ guider \in GuideStates /\ shown \in GuideStates
    /\ socket \in {"connecting", "open", "gone", "sleeping"}
    /\ events \in Seq([name : Signals, state : GuideStates]) /\ Len(events) <= MaxEvents
    /\ orders \in Seq({"guide", "stop_capture"}) /\ Len(orders) <= MaxEvents
    /\ samples \in 0 .. MaxSamples

(* On a link that is up and whose events have all been read, the state     *)
(* shown is PHD2's own, whatever it did while the link was down; only that *)
(* it has been resumed is not seen before its next guide step.             *)
GuidingShown ==
    socket = "open" /\ events = <<>> => shown = guider \/ (shown = "Paused" /\ guider = "Guiding")

=============================================================================
