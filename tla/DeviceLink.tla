----------------------------- MODULE DeviceLink -----------------------------
(***************************************************************************)
(* The device manager (crito/agent/device_manager.py) and its INDI client  *)
(* (crito/dal/indi/protocol.py): _run connects, restores the bindings and  *)
(* waits for the end of the read task; a bind from the console, unbind and *)
(* set_server run beside it at its awaits.  Both kinds of bind look up     *)
(* self.client at every poll, so the client may change under them.         *)
(***************************************************************************)
EXTENDS Naturals

CONSTANTS
    Devices,        \* the devices, each known by the role it is bound to
    Cameras,        \* those whose adapter registers a BLOB handler
    MaxClients,     \* bound: INDIClient objects made (one more than repoints)
    None

ASSUME DeviceConstants ==
    /\ Cameras \subseteq Devices
    /\ MaxClients \in Nat \ {0}
    /\ None \notin Devices

VARIABLES
    client,     \* the number of self.client
    wire,       \* each client's read task: none, up, down (ended) or cancelled
    cache,      \* the devices each client knows
    connected,
    loop,       \* _run: where it is, the client it awaits, bindings to restore
    hand,       \* the bind the loop, or the console, is in the middle of
    adapter,    \* by role: the client it holds (0: no adapter), is its handler gone
    bound,      \* bindings.json
    straddled   \* history: the console's bind was under way while the link went or came,
                \* since the adapters were last cleared

deviceVars == <<client, wire, cache, connected, loop, hand, adapter, bound, straddled>>

Clients == 1 .. MaxClients
Actors  == {"loop", "console"}
NoHand  == [pc |-> "none", role |-> None, client |-> 0, deaf |-> FALSE]
Free(a) == hand[a].pc = "none"

NoAdapter == [client |-> 0, deaf |-> FALSE]
Adapters  == {r \in Devices : adapter[r] # NoAdapter}

(* bindings.json may hold anything when the process starts. *)
DeviceInit ==
    /\ client = 1
    /\ wire = [c \in Clients |-> "none"]
    /\ cache = [c \in Clients |-> {}]
    /\ connected = FALSE
    /\ loop = [pc |-> "connecting", held |-> 1, todo |-> {}]
    /\ hand = [a \in Actors |-> NoHand]
    /\ adapter = [r \in Devices |-> NoAdapter]
    /\ bound \in SUBSET Devices
    /\ straddled = FALSE

-----------------------------------------------------------------------------
(***************************************************************************)
(* _run.                                                                   *)
(***************************************************************************)

(* connect() forgets the devices and the BLOB handlers of that client. *)
Deafened(x, c, r) ==
    IF r \in Cameras /\ x.client = c THEN [x EXCEPT !.deaf = TRUE] ELSE x

ConnectOk ==
    /\ loop.pc = "connecting"
    /\ LET c == loop.held IN
          /\ wire' = [wire EXCEPT ![c] = "up"]
          /\ cache' = [cache EXCEPT ![c] = {}]
          /\ adapter' = [r \in Devices |-> Deafened(adapter[r], c, r)]
          /\ hand' = [a \in Actors |-> Deafened(hand[a], c, hand[a].role)]
    /\ connected' = TRUE
    /\ loop' = [loop EXCEPT !.pc = "restoring", !.todo = bound]
    /\ straddled' = (straddled \/ ~Free("console"))
    /\ UNCHANGED <<client, bound>>

(* Mutant: the cameras' adapters survive the link. *)
ClearButCameras ==
    /\ connected' = FALSE
    /\ adapter' = [r \in Devices |-> IF r \in Cameras THEN adapter[r] ELSE NoAdapter]
    /\ straddled' = ~Free("console")

(* Mutant: the flag only. *)
ClearNoAdapter ==
    /\ connected' = FALSE
    /\ straddled' = ~Free("console")
    /\ UNCHANGED adapter

(* The finally clause of every turn. *)
Cleared ==
    /\ connected' = FALSE
    /\ adapter' = [r \in Devices |-> NoAdapter]
    /\ straddled' = ~Free("console")

ConnectFails ==
    /\ loop.pc = "connecting"
    /\ Cleared
    /\ loop' = [loop EXCEPT !.pc = "sleeping"]
    /\ UNCHANGED <<client, wire, cache, hand, bound>>

(* _rebind_all, one binding after the other. *)
Restore ==
    /\ loop.pc = "restoring"
    /\ Free("loop")
    /\ \E r \in loop.todo :
          /\ loop' = [loop EXCEPT !.todo = @ \ {r}]
          /\ hand' = [hand EXCEPT !["loop"] = [NoHand EXCEPT !.pc = "waiting", !.role = r]]
    /\ UNCHANGED <<client, wire, cache, connected, adapter, bound, straddled>>

(* wait_closed(), of whichever client is current by now. *)
Watch ==
    /\ loop.pc = "restoring"
    /\ Free("loop")
    /\ loop.todo = {}
    /\ loop' = [loop EXCEPT !.pc = "watching", !.held = client]
    /\ UNCHANGED <<client, wire, cache, connected, hand, adapter, bound, straddled>>

(* Mutant: a client that was never connected is waited for, too. *)
DropsIfDown ==
    /\ loop.pc = "watching"
    /\ wire[loop.held] = "down"
    /\ Cleared
    /\ loop' = [loop EXCEPT !.pc = "sleeping"]
    /\ UNCHANGED <<client, wire, cache, hand, bound>>

(* The read task has ended, or there is none. *)
Drops ==
    /\ loop.pc = "watching"
    /\ wire[loop.held] \in {"none", "down"}
    /\ Cleared
    /\ loop' = [loop EXCEPT !.pc = "sleeping"]
    /\ UNCHANGED <<client, wire, cache, hand, bound>>

(* The read task was cancelled: its CancelledError is taken for one of     *)
(* _run's own, and raised.                                                 *)
Ends ==
    /\ loop.pc = "watching"
    /\ wire[loop.held] = "cancelled"
    /\ Cleared
    /\ loop' = [loop EXCEPT !.pc = "ended"]
    /\ UNCHANGED <<client, wire, cache, hand, bound>>

Wake ==
    /\ loop.pc = "sleeping"
    /\ loop' = [loop EXCEPT !.pc = "connecting", !.held = client]
    /\ UNCHANGED <<client, wire, cache, connected, hand, adapter, bound, straddled>>

-----------------------------------------------------------------------------
(***************************************************************************)
(* _bind_internal, in the loop or in a handler.                            *)
(***************************************************************************)

(* The device is there: the adapter is made with the current client, and   *)
(* registers its handler.                                                  *)
Make(a) ==
    /\ hand[a].pc = "waiting"
    /\ hand[a].role \in cache[client]
    /\ hand' = [hand EXCEPT ![a].pc = "attaching", ![a].client = client]
    /\ UNCHANGED <<client, wire, cache, connected, loop, adapter, bound, straddled>>

(* adapter.connect() returns; what it looks at is its client's cache,      *)
(* which outlives the link.  Only the console's bind is saved.             *)
Attach(a) ==
    /\ hand[a].pc = "attaching"
    /\ hand[a].role \in cache[hand[a].client]
    /\ adapter' = [adapter EXCEPT ![hand[a].role] = [client |-> hand[a].client,
                                                    deaf |-> hand[a].deaf]]
    /\ bound' = IF a = "console" THEN bound \cup {hand[a].role} ELSE bound
    /\ hand' = [hand EXCEPT ![a] = NoHand]
    /\ UNCHANGED <<client, wire, cache, connected, loop, straddled>>

(* No such device within the time, or it does not connect. *)
GiveUp(a) ==
    /\ \/ hand[a].pc = "waiting" /\ hand[a].role \notin cache[client]
       \/ hand[a].pc = "attaching"
    /\ hand' = [hand EXCEPT ![a] = NoHand]
    /\ UNCHANGED <<client, wire, cache, connected, loop, adapter, bound, straddled>>

(* From the console, one by one; autodetect is a series of them. *)
Bind(r) ==
    /\ Free("console")
    /\ connected
    /\ hand' = [hand EXCEPT !["console"] = [NoHand EXCEPT !.pc = "waiting", !.role = r]]
    /\ UNCHANGED <<client, wire, cache, connected, loop, adapter, bound, straddled>>

(* Whether or not the device can be told. *)
Unbinds(r) ==
    /\ adapter' = [adapter EXCEPT ![r] = NoAdapter]
    /\ bound' = bound \ {r}
    /\ UNCHANGED <<client, wire, cache, connected, loop, hand, straddled>>

(* To another endpoint, or while the link is down: a new client, and the   *)
(* old one closed.                                                         *)
SetServer ==
    /\ client < MaxClients
    /\ client' = client + 1
    /\ wire' = [wire EXCEPT ![client] = IF @ = "up" THEN "cancelled" ELSE @]
    /\ straddled' = (straddled \/ ~Free("console"))
    /\ UNCHANGED <<cache, connected, loop, hand, adapter, bound>>

-----------------------------------------------------------------------------
(* The INDI server. *)
ServerGone(c) ==
    /\ wire[c] = "up"
    /\ wire' = [wire EXCEPT ![c] = "down"]
    /\ UNCHANGED <<client, cache, connected, loop, hand, adapter, bound, straddled>>

(* def...Vector and delProperty. *)
Announces(c, r) ==
    /\ wire[c] = "up"
    /\ cache' = [cache EXCEPT ![c] = IF r \in @ THEN @ \ {r} ELSE @ \cup {r}]
    /\ UNCHANGED <<client, wire, connected, loop, hand, adapter, bound, straddled>>

LoopStep ==
    \/ ConnectFails \/ Restore \/ Watch \/ Drops \/ Ends \/ Wake
    \/ Make("loop") \/ Attach("loop") \/ GiveUp("loop")

DeviceNext ==
    \/ ConnectOk \/ LoopStep
    \/ Make("console") \/ Attach("console") \/ GiveUp("console")
    \/ \E r \in Devices : Bind(r) \/ Unbinds(r) \/ \E c \in Clients : Announces(c, r)
    \/ SetServer
    \/ \E c \in Clients : ServerGone(c)

DeviceSpec == DeviceInit /\ [][DeviceNext]_deviceVars

(* The event loop takes _run on, and a server that keeps being tried       *)
(* answers in the end.                                                     *)
DeviceFairSpec == DeviceSpec /\ WF_deviceVars(LoopStep) /\ SF_deviceVars(ConnectOk)

-----------------------------------------------------------------------------
Hands == [pc : {"none", "waiting", "attaching"}, role : Devices \cup {None},
          client : 0 .. MaxClients, deaf : BOOLEAN]

DeviceTypeOK ==
    /\ client \in Clients
    /\ wire \in [Clients -> {"none", "up", "down", "cancelled"}]
    /\ cache \in [Clients -> SUBSET Devices]
    /\ connected \in BOOLEAN
    /\ loop \in [pc : {"connecting", "restoring", "watching", "sleeping", "ended"},
                 held : Clients, todo : SUBSET Devices]
    /\ hand \in [Actors -> Hands]
    /\ adapter \in [Devices -> [client : 0 .. MaxClients, deaf : BOOLEAN]]
    /\ bound \in SUBSET Devices
    /\ straddled \in BOOLEAN

(* While the loop watches a link that is up, every adapter talks over that *)
(* link and hears its images, whatever was lost, repointed and rebound     *)
(* before, unless a bind from the console was caught by it.                *)
AdaptersAreLive ==
    loop.pc = "watching" /\ wire[loop.held] = "up" /\ ~straddled
        => \A r \in Adapters : adapter[r] = [client |-> client, deaf |-> FALSE]

(* A link that is down comes back, also to a server it was repointed to,   *)
(* as long as the loop has not ended.                                      *)
LinkReturns == wire[client] # "up" ~> wire[client] = "up" \/ loop.pc = "ended"

(* What the comment in set_server says: the loop reconnects with the new   *)
(* client.                                                                 *)
RepointReconnects == wire[client] # "up" ~> wire[client] = "up"

L == INSTANCE Link WITH Roles <- Devices, up <- connected, have <- Adapters

(* The manager implements Link. *)
ImplementsLink == L!LinkSpec

=============================================================================
