-------------------------------- MODULE Link --------------------------------
(***************************************************************************)
(* What the device manager promises the services that use its devices:     *)
(* the link to the INDI server is up or down, a role has an adapter or     *)
(* none, and the loss of the link takes every adapter away at once.  That  *)
(* can happen at any await of a service; an adapter does not go alone      *)
(* unless somebody unbinds it.  DeviceLink implements this module; Camera  *)
(* is built on it.                                                         *)
(***************************************************************************)
CONSTANT Roles      \* mount, camera, guide, focuser, filter

VARIABLES
    up,         \* DeviceManager.connected
    have        \* the roles that have an adapter

linkVars == <<up, have>>

LinkInit == up = FALSE /\ have = {}

Connect == ~up /\ up' = TRUE /\ UNCHANGED have

Lose == up' = FALSE /\ have' = {}

(* A bind that was under way when the link was lost may still end. *)
Gain(r) == have' = have \cup {r} /\ UNCHANGED up

Unbind(r) == have' = have \ {r} /\ UNCHANGED up

LinkNext == Connect \/ Lose \/ \E r \in Roles : Gain(r) \/ Unbind(r)

LinkSpec == LinkInit /\ [][LinkNext]_linkVars

=============================================================================
