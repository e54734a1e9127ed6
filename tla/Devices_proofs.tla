--------------------------- MODULE Devices_proofs ---------------------------
(***************************************************************************)
(* Proofs about DeviceLink for any devices and any number of clients,      *)
(* about Guiding for any bound on what is under way, and, with those about *)
(* Camera and Precision, the type invariant of the instance that runs them *)
(* side by side.                                                           *)
(***************************************************************************)
EXTENDS MCDevices, Camera_proofs, Precision_proofs

-----------------------------------------------------------------------------
(***************************************************************************)
(* DeviceLink.                                                             *)
(***************************************************************************)
(* The steps that are taken on behalf of a bind, by the loop or by a       *)
(* handler, and the others.                                                *)
HandStep(a) == Make(a) \/ Attach(a) \/ GiveUp(a)

LoopMove == ConnectOk \/ ConnectFails \/ Restore \/ Watch \/ Drops \/ Ends \/ Wake

Handler == \E r \in Devices : Bind(r) \/ Unbinds(r)

Outside ==
    \/ SetServer
    \/ \E c \in Clients : ServerGone(c) \/ \E r \in Devices : Announces(c, r)

LEMMA StepsSorted ==
    DeviceNext => LoopMove \/ (\E a \in Actors : HandStep(a)) \/ Handler \/ Outside
BY DEF DeviceNext, LoopStep, LoopMove, HandStep, Handler, Outside, Actors

Holders == [client : 0 .. MaxClients, deaf : BOOLEAN]

Loops ==
    [pc : {"connecting", "restoring", "watching", "sleeping", "ended"},
     held : Clients, todo : SUBSET Devices]

(* What the steps make of hands and adapters is of their kind. *)
LEMMA Kinds ==
    ASSUME bound \subseteq Devices
    PROVE
    /\ NoHand \in Hands
    /\ NoAdapter \in Holders
    /\ \A x \in Hands, r \in Devices : [x EXCEPT !.pc = "waiting", !.role = r] \in Hands
    /\ \A x \in Hands, c \in Clients : [x EXCEPT !.pc = "attaching", !.client = c] \in Hands
    /\ \A x \in Hands : [client |-> x.client, deaf |-> x.deaf] \in Holders
    /\ \A x \in Loops, c \in Clients : [x EXCEPT !.pc = "connecting", !.held = c] \in Loops
    /\ \A x \in Loops, c \in Clients : [x EXCEPT !.pc = "watching", !.held = c] \in Loops
    /\ \A x \in Loops : [x EXCEPT !.pc = "restoring", !.todo = bound] \in Loops
    /\ \A x \in Holders : \A c, r : Deafened(x, c, r) \in Holders
    /\ \A x \in Hands : \A c, r : Deafened(x, c, r) \in Hands
<1> USE DeviceConstants DEF Hands, Holders, Clients
<1>1. NoHand \in Hands
  BY DEF NoHand
<1>2. NoAdapter \in Holders
  BY DEF NoAdapter
<1>3. \A x \in Hands, r \in Devices : [x EXCEPT !.pc = "waiting", !.role = r] \in Hands
  BY Zenon
<1>4. \A x \in Hands, c \in Clients : [x EXCEPT !.pc = "attaching", !.client = c] \in Hands
  <2>1. Clients \subseteq 0 .. MaxClients
    OBVIOUS
  <2> QED
    BY Zenon, <2>1
<1>5. \A x \in Hands : [client |-> x.client, deaf |-> x.deaf] \in Holders
  OBVIOUS
<1>6. \A x \in Holders : \A c, r : Deafened(x, c, r) \in Holders
  BY DEF Deafened
<1>7. \A x \in Hands : \A c, r : Deafened(x, c, r) \in Hands
  BY DEF Deafened
<1>8. /\ \A x \in Loops, c \in Clients : [x EXCEPT !.pc = "connecting", !.held = c] \in Loops
      /\ \A x \in Loops, c \in Clients : [x EXCEPT !.pc = "watching", !.held = c] \in Loops
      /\ \A x \in Loops : [x EXCEPT !.pc = "restoring", !.todo = bound] \in Loops
  BY Zenon DEF Loops
<1> QED
  BY <1>1, <1>2, <1>3, <1>4, <1>5, <1>6, <1>7, <1>8

LEMMA TypingInit == DeviceInit => DeviceTypeOK
<1> SUFFICES ASSUME DeviceInit PROVE DeviceTypeOK
  OBVIOUS
<1>1. 1 \in Clients
  BY DeviceConstants DEF Clients
<1>2. loop \in Loops
  BY <1>1 DEF DeviceInit, Loops
<1>3. hand \in [Actors -> Hands] /\ adapter \in [Devices -> Holders]
  <2>1. bound \subseteq Devices
    BY DEF DeviceInit
  <2> QED
    BY <2>1, Kinds DEF DeviceInit
<1> QED
  BY <1>1, <1>2, <1>3 DEF DeviceInit, DeviceTypeOK, Loops, Holders

(* A bind under way is of a device, and its adapter has a client. *)
BusyHands ==
    \A a \in Actors :
        /\ hand[a].pc # "none" => hand[a].role \in Devices
        /\ hand[a].pc = "attaching" => hand[a].client \in Clients

LEMMA BusyStep ==
    ASSUME DeviceTypeOK, BusyHands, [DeviceNext]_deviceVars
    PROVE  BusyHands'
<1>0. hand \in [Actors -> Hands] /\ loop.todo \subseteq Devices
  BY DEF DeviceTypeOK
<1>1. ASSUME UNCHANGED hand PROVE BusyHands'
  BY <1>1 DEF BusyHands
<1>2. CASE ConnectOk
  BY <1>0, <1>2 DEF ConnectOk, Deafened, BusyHands, Hands
<1>3. CASE Restore
  BY <1>0, <1>3 DEF Restore, NoHand, BusyHands, Hands
<1>4. ASSUME NEW a \in Actors, HandStep(a) PROVE BusyHands'
  <2>1. CASE Make(a)
    <3>1. hand' = [hand EXCEPT ![a] = [hand[a] EXCEPT !.pc = "attaching", !.client = client]]
      BY <2>1 DEF Make
    <3>2. hand'[a] = [hand[a] EXCEPT !.pc = "attaching", !.client = client]
      BY <1>0, <3>1
    <3>3. hand'[a].role = hand[a].role /\ hand'[a].client = client
      BY <1>0, <3>2 DEF Hands
    <3>4. client \in Clients /\ hand[a].pc # "none"
      BY <2>1 DEF DeviceTypeOK, Make
    <3> QED
      BY <1>0, <3>1, <3>3, <3>4 DEF BusyHands
  <2>2. CASE Attach(a) \/ GiveUp(a)
    BY <1>0, <2>2 DEF Attach, GiveUp, NoHand, BusyHands, Hands
  <2> QED
    BY <1>4, <2>1, <2>2 DEF HandStep
<1>5. ASSUME NEW r \in Devices, Bind(r) PROVE BusyHands'
  BY <1>0, <1>5 DEF Bind, NoHand, BusyHands, Hands
<1> QED
  BY <1>1, <1>2, <1>3, <1>4, <1>5, StepsSorted
     DEF LoopMove, ConnectFails, Watch, Drops, Ends, Wake, Handler, Unbinds, Outside, SetServer,
         ServerGone, Announces, deviceVars

LEMMA TypingStep ==
    ASSUME DeviceTypeOK, BusyHands, [DeviceNext]_deviceVars
    PROVE  DeviceTypeOK'
<1> USE DEF DeviceTypeOK
<1>0. /\ loop \in Loops /\ hand \in [Actors -> Hands] /\ adapter \in [Devices -> Holders]
      /\ wire \in [Clients -> {"none", "up", "down", "cancelled"}]
      /\ loop.held \in Clients /\ loop.todo \subseteq Devices
  BY DEF Loops, Holders
<1>1. CASE LoopMove
  <2>1. loop' \in Loops
    <3>1. /\ [loop EXCEPT !.pc = "restoring", !.todo = bound] \in Loops
          /\ [loop EXCEPT !.pc = "connecting", !.held = client] \in Loops
          /\ [loop EXCEPT !.pc = "watching", !.held = client] \in Loops
      BY <1>0, Zenon, Kinds
    <3>4. CASE ConnectOk \/ Wake \/ Watch
      BY <3>1, <3>4 DEF ConnectOk, Wake, Watch
    <3>2. CASE ConnectFails \/ Drops \/ Ends
      BY <1>0, <3>2 DEF ConnectFails, Drops, Ends, Loops
    <3>3. CASE Restore
      BY <1>0, <3>3 DEF Restore, Loops
    <3> QED
      BY <1>1, <3>2, <3>3, <3>4 DEF LoopMove
  <2>2. hand' \in [Actors -> Hands]
    <3>1. CASE ConnectOk
      BY <1>0, <3>1, Kinds DEF ConnectOk
    <3>2. CASE Restore
      <4>1. PICK r \in loop.todo :
                hand' = [hand EXCEPT !["loop"] = [NoHand EXCEPT !.pc = "waiting", !.role = r]]
        BY <3>2 DEF Restore
      <4> QED
        BY <1>0, <4>1, Kinds DEF Actors
    <3>3. CASE ConnectFails \/ Drops \/ Ends \/ Watch \/ Wake
      BY <3>3 DEF ConnectFails, Drops, Ends, Watch, Wake
    <3> QED
      BY <1>1, <3>1, <3>2, <3>3 DEF LoopMove
  <2>3. adapter' \in [Devices -> Holders]
    <3>1. CASE ConnectOk
      BY <1>0, <3>1, Kinds DEF ConnectOk
    <3>2. CASE ConnectFails \/ Drops \/ Ends
      BY <3>2, Kinds DEF ConnectFails, Drops, Ends, Cleared
    <3>3. CASE Restore \/ Watch \/ Wake
      BY <1>0, <3>3 DEF Restore, Watch, Wake
    <3> QED
      BY <1>1, <3>1, <3>2, <3>3 DEF LoopMove
  <2>4. client' \in Clients /\ wire' \in [Clients -> {"none", "up", "down", "cancelled"}]
    BY <1>0, <1>1
       DEF LoopMove, ConnectOk, ConnectFails, Restore, Watch, Drops, Ends, Wake
  <2>5. cache' \in [Clients -> SUBSET Devices] /\ bound' \in SUBSET Devices
    BY <1>0, <1>1
       DEF LoopMove, ConnectOk, ConnectFails, Restore, Watch, Drops, Ends, Wake
  <2>6. connected' \in BOOLEAN /\ straddled' \in BOOLEAN
    BY <1>1, Zenon
       DEF LoopMove, ConnectOk, ConnectFails, Restore, Watch, Drops, Ends, Wake, Cleared
  <2> QED
    BY <2>1, <2>2, <2>3, <2>4, <2>5, <2>6 DEF Loops, Holders
<1>2. ASSUME NEW a \in Actors, HandStep(a) PROVE DeviceTypeOK'
  <2>1. CASE Make(a)
    <3>1. hand' \in [Actors -> Hands]
      BY <1>0, <2>1, Kinds DEF Make
    <3> QED
      BY <2>1, <3>1 DEF Make
  <2>2. CASE Attach(a)
    <3>1. hand[a].pc = "attaching" /\ hand[a].role \in Devices
      BY <2>2 DEF Attach, BusyHands
    <3>2. hand' \in [Actors -> Hands]
      BY <1>0, <2>2, Kinds DEF Attach
    <3>3. adapter' \in [Devices -> Holders]
      BY <1>0, <2>2, <3>1, Kinds DEF Attach
    <3> QED
      BY <2>2, <3>1, <3>2, <3>3 DEF Attach, Holders
  <2>3. CASE GiveUp(a)
    <3>1. hand' \in [Actors -> Hands]
      BY <1>0, <2>3, Kinds DEF GiveUp
    <3> QED
      BY <2>3, <3>1 DEF GiveUp
  <2> QED
    BY <1>2, <2>1, <2>2, <2>3 DEF HandStep
<1>3. CASE Handler
  <2>1. hand' \in [Actors -> Hands]
    <3>1. ASSUME NEW r \in Devices, Bind(r) PROVE hand' \in [Actors -> Hands]
      BY <1>0, <3>1, Kinds DEF Bind
    <3> QED
      BY <1>3, <3>1 DEF Handler, Unbinds
  <2>2. adapter' \in [Devices -> Holders]
    BY <1>0, <1>3, Kinds DEF Handler, Bind, Unbinds
  <2>3. bound' \in SUBSET Devices
    BY <1>3 DEF Handler, Bind, Unbinds
  <2> QED
    BY <1>3, <2>1, <2>2, <2>3 DEF Handler, Bind, Unbinds, Holders
<1>4. CASE Outside
  <2>1. client' \in Clients /\ wire' \in [Clients -> {"none", "up", "down", "cancelled"}]
    BY <1>0, <1>4, DeviceConstants DEF Outside, SetServer, ServerGone, Announces, Clients
  <2>2. cache' \in [Clients -> SUBSET Devices]
    BY <1>4 DEF Outside, SetServer, ServerGone, Announces
  <2>3. straddled' \in BOOLEAN
    BY <1>4, Zenon DEF Outside, SetServer, ServerGone, Announces
  <2> QED
    BY <1>4, <2>1, <2>2, <2>3 DEF Outside, SetServer, ServerGone, Announces
<1>5. CASE UNCHANGED deviceVars
  BY <1>5 DEF deviceVars
<1> QED
  BY <1>1, <1>2, <1>3, <1>4, <1>5, StepsSorted

LEMMA Typed == DeviceSpec => [](DeviceTypeOK /\ BusyHands)
<1>1. DeviceInit => BusyHands
  BY DEF DeviceInit, NoHand, BusyHands
<1> QED
  BY <1>1, TypingInit, TypingStep, BusyStep, PTL DEF DeviceSpec

-----------------------------------------------------------------------------
(***************************************************************************)
(* Why adapters are live.  The clients that were repointed away from are   *)
(* not up and those to come were never used; while the link is down and    *)
(* no bind of the console was caught by it, there is no adapter and no     *)
(* bind; and from a connect on, adapters and binds are of that client.     *)
(***************************************************************************)
ClientsOrdered ==
    /\ loop.held <= client
    /\ \A c \in Clients : c > client => wire[c] = "none"
    /\ loop.pc = "watching" /\ wire[loop.held] = "up" => loop.held = client

LoopBusy == ~Free("loop") => loop.pc = "restoring"

NothingOffline ==
    loop.pc \in {"connecting", "sleeping", "ended"} =>
        /\ ~connected
        /\ ~straddled => Adapters = {} /\ Free("console")

LiveOnline ==
    loop.pc \in {"restoring", "watching"} /\ wire[client] = "up" /\ ~straddled =>
        /\ \A r \in Adapters : adapter[r] = [client |-> client, deaf |-> FALSE]
        /\ \A a \in Actors : ~Free(a) =>
              ~hand[a].deaf /\ (hand[a].pc = "attaching" => hand[a].client = client)

DInv == DeviceTypeOK /\ BusyHands /\ ClientsOrdered /\ LoopBusy /\ NothingOffline /\ LiveOnline

(* A bind's steps, field by field. *)
LEMMA HandMoves ==
    ASSUME hand \in [Actors -> Hands], NEW a \in Actors, HandStep(a)
    PROVE  /\ \A b \in Actors \ {a} : hand'[b] = hand[b]
           /\ Make(a) => /\ hand'[a].pc = "attaching" /\ hand'[a].client = client
                         /\ hand'[a].deaf = hand[a].deaf
           /\ ~Make(a) => hand'[a] = NoHand
           /\ ~Free(a)
           /\ UNCHANGED <<client, wire, cache, connected, loop, straddled>>
<1>1. CASE Make(a)
  <2>1. hand' = [hand EXCEPT ![a] = [hand[a] EXCEPT !.pc = "attaching", !.client = client]]
    BY <1>1 DEF Make
  <2>2. hand'[a] = [hand[a] EXCEPT !.pc = "attaching", !.client = client]
    BY <2>1
  <2>3. /\ hand'[a].pc = "attaching" /\ hand'[a].client = client
        /\ hand'[a].deaf = hand[a].deaf
    BY <2>2 DEF Hands
  <2> QED
    BY <1>1, <2>1, <2>3 DEF Make, Free
<1>2. CASE Attach(a) \/ GiveUp(a)
  BY <1>2 DEF Attach, GiveUp, Free, Make, NoHand, Hands
<1> QED
  BY <1>1, <1>2 DEF HandStep

LEMMA OrderStep == ASSUME DInv, [DeviceNext]_deviceVars PROVE ClientsOrdered'
<1> USE DeviceConstants DEF Clients
<1>0. /\ wire \in [Clients -> {"none", "up", "down", "cancelled"}]
      /\ loop.held \in Clients /\ client \in Clients /\ loop \in Loops
      /\ ClientsOrdered
  BY DEF DInv, DeviceTypeOK, Loops
<1>1. CASE ConnectOk
  BY <1>0, <1>1 DEF ConnectOk, ClientsOrdered, Loops
<1>5. CASE ConnectFails \/ Drops \/ Ends
  BY <1>0, <1>5 DEF ConnectFails, Drops, Ends, ClientsOrdered, Loops
<1>6. CASE Restore
  BY <1>0, <1>6 DEF Restore, ClientsOrdered, Loops
<1>7. CASE Watch \/ Wake
  <2>1. loop'.held = client /\ UNCHANGED <<client, wire>>
    BY <1>0, <1>7 DEF Watch, Wake, Loops
  <2> QED
    BY <1>0, <2>1 DEF ClientsOrdered
<1>2. CASE Outside
  BY <1>0, <1>2 DEF Outside, SetServer, ServerGone, Announces, ClientsOrdered
<1>3. ASSUME UNCHANGED <<client, wire, loop>> PROVE ClientsOrdered'
  BY <1>0, <1>3 DEF ClientsOrdered
<1>4. (\E a \in Actors : HandStep(a)) \/ Handler \/ UNCHANGED deviceVars
         => UNCHANGED <<client, wire, loop>>
  BY DEF HandStep, Make, Attach, GiveUp, Handler, Bind, Unbinds, deviceVars
<1> QED
  BY <1>1, <1>2, <1>3, <1>4, <1>5, <1>6, <1>7, StepsSorted DEF LoopMove

LEMMA BusyLoopStep == ASSUME DInv, [DeviceNext]_deviceVars PROVE LoopBusy'
<1>0. hand \in [Actors -> Hands] /\ loop \in Loops /\ LoopBusy
  BY DEF DInv, DeviceTypeOK, Loops
<1>1. CASE LoopMove
  BY <1>0, <1>1
     DEF LoopMove, ConnectOk, ConnectFails, Restore, Watch, Drops, Ends, Wake, LoopBusy, Free, Loops,
         Deafened, Hands, Actors, NoHand
<1>2. ASSUME NEW a \in Actors, HandStep(a) PROVE LoopBusy'
  BY <1>0, <1>2, HandMoves DEF LoopBusy, Free, NoHand, Actors
<1>3. CASE Handler
  BY <1>0, <1>3 DEF Handler, Bind, Unbinds, LoopBusy, Free, NoHand, Actors
<1>4. CASE Outside \/ UNCHANGED deviceVars
  BY <1>0, <1>4 DEF Outside, SetServer, ServerGone, Announces, deviceVars, LoopBusy, Free
<1> QED
  BY <1>1, <1>2, <1>3, <1>4, StepsSorted

LEMMA OfflineStep == ASSUME DInv, [DeviceNext]_deviceVars PROVE NothingOffline'
<1>0. /\ hand \in [Actors -> Hands] /\ loop \in Loops /\ adapter \in [Devices -> Holders]
      /\ LoopBusy /\ NothingOffline
  BY DEF DInv, DeviceTypeOK, Loops, Holders
<1>1. CASE ConnectOk \/ Restore \/ Watch
  BY <1>0, <1>1 DEF ConnectOk, Restore, Watch, NothingOffline, Loops
<1>2. CASE ConnectFails \/ Drops \/ Ends
  <2>1. ~connected' /\ (~straddled' => Free("console")')
    BY <1>2 DEF ConnectFails, Drops, Ends, Cleared, Free
  <2>2. Adapters' = {}
    BY <1>2 DEF ConnectFails, Drops, Ends, Cleared, Adapters
  <2> QED
    BY <2>1, <2>2 DEF NothingOffline
<1>3. CASE Wake
  <2>1. loop.pc = "sleeping" /\ UNCHANGED <<connected, straddled, adapter, hand>>
    BY <1>3 DEF Wake
  <2> QED
    BY <1>0, <2>1 DEF NothingOffline, Adapters, Free
<1>4. ASSUME NEW a \in Actors, HandStep(a) PROVE NothingOffline'
  <2>1. ~Free(a) /\ loop' = loop /\ straddled' = straddled /\ connected' = connected
    BY <1>0, <1>4, HandMoves
  <2>2. a = "loop" \/ a = "console"
    BY DEF Actors
  <2> QED
    BY <1>0, <2>1, <2>2 DEF NothingOffline, LoopBusy
<1>5. ASSUME NEW r \in Devices, Bind(r) PROVE NothingOffline'
  BY <1>0, <1>5 DEF Bind, NothingOffline
<1>6. ASSUME NEW r \in Devices, Unbinds(r) PROVE NothingOffline'
  <2>1. Adapters' \subseteq Adapters
    BY <1>0, <1>6 DEF Unbinds, Adapters
  <2>2. UNCHANGED <<loop, connected, straddled, hand>>
    BY <1>6 DEF Unbinds
  <2> QED
    BY <1>0, <2>1, <2>2 DEF NothingOffline, Free
<1>7. CASE Outside \/ UNCHANGED deviceVars
  <2>1. UNCHANGED <<loop, connected, adapter, hand>>
    BY <1>7 DEF Outside, SetServer, ServerGone, Announces, deviceVars
  <2>2. CASE SetServer
    <3>1. straddled => straddled'
      BY <2>2 DEF SetServer
    <3> QED
      BY <1>0, <2>1, <3>1 DEF NothingOffline, Adapters, Free
  <2>3. CASE UNCHANGED straddled
    BY <1>0, <2>1, <2>3 DEF NothingOffline, Adapters, Free
  <2> QED
    BY <1>7, <2>2, <2>3 DEF Outside, ServerGone, Announces, deviceVars
<1> QED
  BY <1>1, <1>2, <1>3, <1>4, <1>5, <1>6, <1>7, StepsSorted DEF LoopMove, Handler

LEMMA LiveStep == ASSUME DInv, [DeviceNext]_deviceVars PROVE LiveOnline'
<1>0. /\ hand \in [Actors -> Hands] /\ loop \in Loops /\ adapter \in [Devices -> Holders]
      /\ client \in Clients /\ loop.held \in Clients
      /\ wire \in [Clients -> {"none", "up", "down", "cancelled"}]
      /\ LoopBusy /\ NothingOffline /\ ClientsOrdered /\ LiveOnline
  BY DEF DInv, DeviceTypeOK, Loops, Holders
<1>1. CASE ConnectOk
  <2>1. SUFFICES ASSUME ~straddled' PROVE Adapters' = {} /\ \A a \in Actors : Free(a)'
    BY DEF LiveOnline
  <2>2. Adapters = {} /\ \A a \in Actors : Free(a)
    BY <1>0, <1>1, <2>1 DEF ConnectOk, NothingOffline, LoopBusy, Actors
  <2>3. \A r \in Devices : adapter'[r] = NoAdapter
    <3> TAKE r \in Devices
    <3>1. adapter[r] = NoAdapter
      BY <2>2 DEF Adapters
    <3>2. NoAdapter.client # loop.held
      BY <1>0, DeviceConstants DEF NoAdapter, Clients
    <3> QED
      BY <1>0, <1>1, <3>1, <3>2 DEF ConnectOk, Deafened
  <2>4. \A a \in Actors : Free(a)'
    BY <1>0, <1>1, <2>2 DEF ConnectOk, Deafened, Free, Hands
  <2> QED
    BY <2>3, <2>4 DEF Adapters
<1>2. CASE ConnectFails \/ Drops \/ Ends \/ Wake
  BY <1>0, <1>2 DEF ConnectFails, Drops, Ends, Wake, LiveOnline, Loops
<1>3. CASE Restore
  <2>1. /\ UNCHANGED <<client, wire, adapter, straddled>> /\ loop'.pc = loop.pc
        /\ loop.pc = "restoring"
    BY <1>0, <1>3 DEF Restore, Loops
  <2>2. \A a \in Actors : hand'[a] = hand[a] \/ (~hand'[a].deaf /\ hand'[a].pc = "waiting")
    BY <1>0, <1>3 DEF Restore, NoHand, Actors
  <2> QED
    BY <1>0, <2>1, <2>2 DEF LiveOnline, Adapters, Free
<1>4. CASE Watch
  <2>1. UNCHANGED <<client, wire, adapter, straddled, hand>> /\ loop.pc = "restoring"
    BY <1>4 DEF Watch
  <2> QED
    BY <1>0, <2>1 DEF LiveOnline, Adapters, Free
<1>5. ASSUME NEW a \in Actors, HandStep(a) PROVE LiveOnline'
  <2> SUFFICES ASSUME loop.pc \in {"restoring", "watching"}, wire[client] = "up", ~straddled
               PROVE  LiveOnline'
    BY <1>0, <1>5, HandMoves DEF LiveOnline
  <2>1. /\ \A b \in Actors \ {a} : hand'[b] = hand[b]
        /\ Make(a) => /\ hand'[a].pc = "attaching" /\ hand'[a].client = client
                      /\ hand'[a].deaf = hand[a].deaf
        /\ ~Make(a) => hand'[a] = NoHand
        /\ ~Free(a) /\ ~hand[a].deaf /\ client' = client
    BY <1>0, <1>5, HandMoves DEF LiveOnline
  <2>2. \A b \in Actors : ~Free(b)' =>
            ~hand'[b].deaf /\ (hand'[b].pc = "attaching" => hand'[b].client = client')
    BY <1>0, <2>1 DEF LiveOnline, Free, NoHand
  <2>3. \A r \in Adapters' : adapter'[r] = [client |-> client, deaf |-> FALSE]
    <3>1. CASE Attach(a)
      <4>1. hand[a].client = client /\ hand[a].deaf = FALSE
        BY <1>0, <2>1, <3>1 DEF LiveOnline, Attach, Hands
      <4>2. adapter' = [adapter EXCEPT ![hand[a].role] = [client |-> client, deaf |-> FALSE]]
        BY <3>1, <4>1 DEF Attach
      <4> QED
        BY <1>0, <4>2 DEF LiveOnline, Adapters
    <3>2. CASE Make(a) \/ GiveUp(a)
      BY <1>0, <3>2 DEF Make, GiveUp, LiveOnline, Adapters
    <3> QED
      BY <1>5, <3>1, <3>2 DEF HandStep
  <2> QED
    BY <2>1, <2>2, <2>3 DEF LiveOnline
<1>6. ASSUME NEW r \in Devices, Bind(r) PROVE LiveOnline'
  <2>1. UNCHANGED <<client, wire, loop, adapter, straddled>>
    BY <1>6 DEF Bind
  <2>2. \A a \in Actors : hand'[a] = hand[a] \/ (~hand'[a].deaf /\ hand'[a].pc = "waiting")
    BY <1>0, <1>6 DEF Bind, NoHand, Actors
  <2> QED
    BY <1>0, <2>1, <2>2 DEF LiveOnline, Adapters, Free
<1>7. ASSUME NEW r \in Devices, Unbinds(r) PROVE LiveOnline'
  <2>1. UNCHANGED <<client, wire, loop, hand, straddled>>
    BY <1>7 DEF Unbinds
  <2>2. \A x \in Adapters' : x \in Adapters /\ adapter'[x] = adapter[x]
    BY <1>0, <1>7 DEF Unbinds, Adapters
  <2> QED
    BY <1>0, <2>1, <2>2 DEF LiveOnline, Free
<1>8. CASE SetServer
  <2>1. wire'[client'] = "none"
    BY <1>0, <1>8, DeviceConstants DEF SetServer, ClientsOrdered, Clients
  <2> QED
    BY <2>1 DEF LiveOnline
<1>9. ASSUME UNCHANGED <<client, loop, hand, adapter, straddled>>,
             wire'[client] = "up" => wire[client] = "up"
      PROVE  LiveOnline'
  BY <1>0, <1>9 DEF LiveOnline, Adapters, Free
<1>10. (\E c \in Clients : ServerGone(c) \/ \E r \in Devices : Announces(c, r)) \/ UNCHANGED deviceVars
          => /\ UNCHANGED <<client, loop, hand, adapter, straddled>>
             /\ wire'[client] = "up" => wire[client] = "up"
  BY <1>0 DEF ServerGone, Announces, deviceVars
<1> QED
  BY <1>1, <1>2, <1>3, <1>4, <1>5, <1>6, <1>7, <1>8, <1>9, <1>10, StepsSorted
     DEF LoopMove, Handler, Outside

THEOREM LiveInvariant == DeviceSpec => []DInv
<1>1. DeviceInit => DInv
  <2> SUFFICES ASSUME DeviceInit PROVE DInv
    OBVIOUS
  <2>1. BusyHands /\ LoopBusy
    BY DEF DeviceInit, BusyHands, LoopBusy, Free, NoHand, Actors
  <2>2. ClientsOrdered
    BY DeviceConstants DEF DeviceInit, ClientsOrdered, Clients
  <2>3. NothingOffline /\ LiveOnline
    BY DEF DeviceInit, NothingOffline, LiveOnline, Adapters, Free, NoHand, Actors
  <2> QED
    BY <2>1, <2>2, <2>3, TypingInit DEF DInv
<1>2. DInv /\ [DeviceNext]_deviceVars => DInv'
  BY TypingStep, BusyStep, OrderStep, BusyLoopStep, OfflineStep, LiveStep DEF DInv
<1> QED
  BY <1>1, <1>2, PTL DEF DeviceSpec

(* While the loop watches a link that is up, every adapter talks over that *)
(* link and hears its images: for any devices and any repoints.            *)
THEOREM LiveAdapters == DeviceSpec => []AdaptersAreLive
<1>1. DInv => AdaptersAreLive
  BY DEF DInv, ClientsOrdered, LiveOnline, AdaptersAreLive
<1> QED
  BY <1>1, LiveInvariant, PTL

-----------------------------------------------------------------------------
(* The manager implements Link: the loss of the link takes every adapter   *)
(* at once, and no other step but an unbind takes one.                     *)
THEOREM LinkImplemented == DeviceSpec => ImplementsLink
<1>1. DeviceInit => L!LinkInit
  BY DEF DeviceInit, L!LinkInit, Adapters
<1>2. DInv /\ [DeviceNext]_deviceVars => [L!LinkNext]_(L!linkVars)
  <2> SUFFICES ASSUME DInv, [DeviceNext]_deviceVars
               PROVE  L!LinkNext \/ UNCHANGED <<connected, Adapters>>
    BY DEF L!linkVars
  <2>0. /\ hand \in [Actors -> Hands] /\ adapter \in [Devices -> Holders] /\ loop.held \in Clients
        /\ client \in Clients
    BY DEF DInv, DeviceTypeOK, Holders
  <2>1. CASE ConnectOk
    <3>1. ~connected /\ connected'
      BY <2>1 DEF ConnectOk, DInv, NothingOffline
    <3>2. \A r \in Devices : adapter'[r] = NoAdapter <=> adapter[r] = NoAdapter
      <4> TAKE r \in Devices
      <4>1. adapter'[r] = IF r \in Cameras /\ adapter[r].client = loop.held
                          THEN [adapter[r] EXCEPT !.deaf = TRUE] ELSE adapter[r]
        BY <2>1 DEF ConnectOk, Deafened
      <4>2. adapter[r].client = loop.held =>
               /\ adapter[r] # NoAdapter
               /\ [adapter[r] EXCEPT !.deaf = TRUE].client # NoAdapter.client
        BY <2>0, DeviceConstants DEF NoAdapter, Holders, Clients
      <4> QED
        BY <4>1, <4>2
    <3>3. Adapters' = Adapters
      BY <3>2 DEF Adapters
    <3> QED
      BY <2>1, <3>1, <3>3 DEF ConnectOk, L!LinkNext, L!Connect
  <2>2. CASE ConnectFails \/ Drops \/ Ends
    <3>1. connected' = FALSE /\ Adapters' = {}
      BY <2>2 DEF ConnectFails, Drops, Ends, Cleared, Adapters
    <3> QED
      BY <3>1 DEF L!LinkNext, L!Lose
  <2>3. CASE Restore \/ Watch \/ Wake
    BY <2>3 DEF Restore, Watch, Wake, Adapters
  <2>4. ASSUME NEW a \in Actors, HandStep(a) PROVE L!LinkNext \/ UNCHANGED <<connected, Adapters>>
    <3>1. CASE Attach(a)
      <4>1. hand[a].role \in Devices
        BY <3>1 DEF Attach, DInv, BusyHands
      <4>2. adapter'[hand[a].role] # NoAdapter
        <5>1. hand[a].client # 0
          BY <3>1, DeviceConstants DEF Attach, DInv, BusyHands, Clients
        <5>2. adapter'[hand[a].role].client = hand[a].client
          BY <2>0, <3>1, <4>1 DEF Attach, Holders
        <5> QED
          BY <5>1, <5>2 DEF NoAdapter
      <4>3. Adapters' = Adapters \cup {hand[a].role}
        BY <2>0, <3>1, <4>1, <4>2 DEF Attach, Adapters
      <4> QED
        BY <3>1, <4>1, <4>3 DEF Attach, L!LinkNext, L!Gain
    <3>2. CASE Make(a) \/ GiveUp(a)
      BY <3>2 DEF Make, GiveUp, Adapters
    <3> QED
      BY <2>4, <3>1, <3>2 DEF HandStep
  <2>5. ASSUME NEW r \in Devices, Bind(r) PROVE UNCHANGED <<connected, Adapters>>
    BY <2>5 DEF Bind, Adapters
  <2>6. ASSUME NEW r \in Devices, Unbinds(r) PROVE L!LinkNext
    <3>1. Adapters' = Adapters \ {r} /\ connected' = connected
      BY <2>0, <2>6 DEF Unbinds, Adapters
    <3> QED
      BY <3>1 DEF L!LinkNext, L!Unbind
  <2>7. CASE Outside \/ UNCHANGED deviceVars
    BY <2>7 DEF Outside, SetServer, ServerGone, Announces, deviceVars, Adapters
  <2> QED
    BY <2>1, <2>2, <2>3, <2>4, <2>5, <2>6, <2>7, StepsSorted DEF LoopMove, Handler
<1> QED
  BY <1>1, <1>2, LiveInvariant, PTL DEF DeviceSpec, ImplementsLink, L!LinkSpec

-----------------------------------------------------------------------------
(***************************************************************************)
(* Guiding.                                                                *)
(***************************************************************************)
Events == [name : Signals, state : GuideStates]

(* The state that has been told before event i of those under way. *)
ToldBefore(i) == IF i = 1 THEN shown ELSE events[i - 1].state

(* What the client takes an event for is the state it was sent in, except  *)
(* for Resumed, which it does not know and which ends a pause.             *)
EventFits(i) ==
    /\ events[i].name \in {"GuideStep", "StartGuiding"} => events[i].state = "Guiding"
    /\ events[i].name = "GuidingStopped" => events[i].state = "Stopped"
    /\ events[i].name = "Paused" => events[i].state = "Paused"
    /\ events[i].name = "Resumed" => events[i].state = "Guiding" /\ ToldBefore(i) = "Paused"

(* While the link is up nothing PHD2 has said is missing: the last event   *)
(* under way tells its state, and if there is none, the state shown does.  *)
NothingMissed ==
    socket = "open" =>
        /\ \A i \in 1 .. Len(events) : EventFits(i)
        /\ events # <<>> => events[Len(events)].state = guider
        /\ events = <<>> => shown = guider \/ (shown = "Paused" /\ guider = "Guiding")

GInv == GuidingTypeOK /\ NothingMissed

LEMMA GuideTyping == ASSUME GuidingTypeOK, [GuidingNext]_guideVars PROVE GuidingTypeOK'
<1> USE GuidingConstants DEF GuidingTypeOK
<1>1. CASE SocketOpens
  <2>1. events' = <<Event("AppState", guider)>> /\ Event("AppState", guider) \in Events
    BY <1>1 DEF SocketOpens, Event, Events, Signals
  <2>2. events' \in Seq(Events) /\ Len(events') = 1
    BY <2>1
  <2> QED
    BY <1>1, <2>2 DEF SocketOpens, Events
<1>2. CASE SocketFails \/ SocketEnds \/ SocketRetries
  BY <1>2 DEF SocketFails, SocketEnds, SocketRetries
<1>3. CASE Handle
  <2>0. events \in Seq(Events) /\ events # <<>>
    BY <1>3 DEF Handle, Events
  <2>1. Head(events) \in Events /\ Tail(events) \in Seq(Events) /\ Len(Tail(events)) <= MaxEvents
    BY <2>0
  <2>2. shown' \in GuideStates
    BY <1>3, <2>1 DEF Handle, StateAfter, Events, GuideStates
  <2>3. samples' \in 0 .. MaxSamples
    BY <1>3 DEF Handle
  <2> QED
    BY <1>3, <2>1, <2>2, <2>3 DEF Handle, Events
<1>4. ASSUME NEW o \in {"guide", "stop_capture"}, Order(o) PROVE GuidingTypeOK'
  BY <1>4 DEF Order
<1>5. ASSUME NEW s \in GuideStates, NEW e \in Signals, Says(s, e)
      PROVE  /\ guider' \in GuideStates
             /\ socket = "open" => events' \in Seq(Events) /\ Len(events') <= MaxEvents
             /\ socket # "open" => events' = events
  <2>1. Event(e, s) \in Events
    BY DEF Event, Events
  <2>2. events \in Seq(Events)
    BY DEF Events
  <2>3. socket = "open" => Len(events) < MaxEvents /\ events' = Append(events, Event(e, s))
    BY <1>5 DEF Says
  <2>4. socket = "open" => events' \in Seq(Events) /\ Len(events') <= MaxEvents
    BY <2>1, <2>2, <2>3
  <2> QED
    BY <1>5, <2>4 DEF Says
<1>6. CASE GuiderActs
  BY <1>5, <1>6 DEF GuiderActs, GuideStates, Signals, Events
<1>7. CASE GuiderObeys
  <2>1. orders' \in Seq({"guide", "stop_capture"}) /\ Len(orders') <= MaxEvents
    BY <1>7 DEF GuiderObeys
  <2> QED
    BY <1>5, <1>7, <2>1 DEF GuiderObeys, GuideStates, Signals, Events
<1>8. CASE SocketLost
  <2>1. PICK n \in 0 .. Len(events) : events' = SubSeq(events, 1, n)
    BY <1>8 DEF SocketLost
  <2>2. events \in Seq(Events) /\ Len(events) \in Nat
    BY DEF Events
  <2>3. \A i \in 1 .. n : i \in 1 .. Len(events)
    BY <2>2
  <2>4. events' \in Seq(Events) /\ Len(events') <= Len(events)
    BY <2>1, <2>2, <2>3, SubSeqProperties
  <2> QED
    BY <1>8, <2>4 DEF SocketLost, Events
<1>9. CASE UNCHANGED guideVars
  BY <1>9 DEF guideVars
<1> QED
  BY <1>1, <1>2, <1>3, <1>4, <1>6, <1>7, <1>8, <1>9 DEF GuidingNext, ClientStep

(* PHD2 says something on a link that is up. *)
LEMMA SaidFits ==
    ASSUME GInv, socket = "open", NEW s \in GuideStates, NEW e \in Signals, Says(s, e),
           e \in {"GuideStep", "StartGuiding", "Resumed"} => s = "Guiding",
           e = "GuidingStopped" => s = "Stopped",
           e = "Paused" => s = "Paused",
           e = "Resumed" => guider = "Paused",
           UNCHANGED <<socket, shown>>
    PROVE  NothingMissed'
<1>0. events \in Seq(Events) /\ Len(events) \in Nat
  BY DEF GInv, GuidingTypeOK, Events
<1>1. /\ events' = Append(events, Event(e, s))
      /\ Len(events') = Len(events) + 1
      /\ \A i \in 1 .. Len(events) : events'[i] = events[i]
      /\ events'[Len(events) + 1] = Event(e, s)
  BY <1>0 DEF Says
<1>2. guider' = s
  BY DEF Says
<1>3. \A i \in 1 .. Len(events) : ToldBefore(i)' = ToldBefore(i)
  BY <1>0, <1>1 DEF ToldBefore
<1>4. \A i \in 1 .. Len(events) : EventFits(i)'
  BY <1>1, <1>3 DEF EventFits, GInv, NothingMissed
<1>5. ASSUME NEW n \in Nat, n = Len(events) + 1 PROVE EventFits(n)'
  <2>1. guider = "Paused" => ToldBefore(n)' = "Paused"
    BY <1>0, <1>1, <1>5 DEF ToldBefore, GInv, NothingMissed
  <2>2. events'[n] = Event(e, s)
    BY <1>1, <1>5
  <2>3. events'[n].name = e /\ events'[n].state = s
    BY <2>2 DEF Event
  <2> QED
    BY <2>1, <2>3 DEF EventFits
<1>7. \A i \in 1 .. Len(events') : EventFits(i)'
  BY <1>0, <1>1, <1>4, <1>5
<1>8. events' # <<>> /\ events'[Len(events')].state = guider'
  BY <1>0, <1>1, <1>2 DEF Event
<1> QED
  BY <1>7, <1>8 DEF NothingMissed

LEMMA MissedStep == ASSUME GInv, [GuidingNext]_guideVars PROVE NothingMissed'
<1>0. events \in Seq(Events) /\ Len(events) \in Nat /\ guider \in GuideStates /\ NothingMissed
  BY DEF GInv, GuidingTypeOK, Events
<1>1. CASE SocketOpens
  BY <1>0, <1>1 DEF SocketOpens, NothingMissed, EventFits, Event
<1>2. CASE SocketFails \/ SocketEnds \/ SocketRetries \/ SocketLost
  BY <1>2 DEF SocketFails, SocketEnds, SocketRetries, SocketLost, NothingMissed
<1>3. CASE Handle
  <2> SUFFICES ASSUME socket = "open" PROVE NothingMissed'
    BY <1>3 DEF Handle, NothingMissed
  <2>1. /\ events # <<>> /\ Head(events) = events[1] /\ events[1] \in Events
        /\ events' = Tail(events) /\ Len(events') = Len(events) - 1
        /\ \A i \in 1 .. Len(events') : events'[i] = events[i + 1]
        /\ UNCHANGED <<guider, socket>>
    BY <1>0, <1>3 DEF Handle
  <2>2. EventFits(1)
    BY <1>0, <2>1 DEF NothingMissed
  <2>3. shown' = events[1].state \/ (events[1].name = "Resumed" /\ shown' = "Paused" /\ events[1].state = "Guiding")
    BY <1>3, <2>1, <2>2 DEF Handle, StateAfter, EventFits, ToldBefore, Events, Signals
  <2>4. \A i \in 1 .. Len(events') : EventFits(i)'
    <3> TAKE i \in 1 .. Len(events')
    <3>1. EventFits(i + 1) /\ events'[i] = events[i + 1]
      BY <1>0, <2>1 DEF NothingMissed
    <3>2. ToldBefore(i + 1) = "Paused" => ToldBefore(i)' = "Paused"
      BY <1>0, <2>1, <2>3 DEF ToldBefore
    <3> QED
      BY <3>1, <3>2 DEF EventFits
  <2>5. events' # <<>> => events'[Len(events')].state = guider'
    BY <1>0, <2>1 DEF NothingMissed
  <2>6. events' = <<>> => shown' = guider' \/ (shown' = "Paused" /\ guider' = "Guiding")
    <3> SUFFICES ASSUME events' = <<>> PROVE shown' = guider \/ (shown' = "Paused" /\ guider = "Guiding")
      BY <2>1
    <3>1. Len(events) = 1
      BY <1>0, <2>1
    <3>2. events[1].state = guider
      BY <1>0, <2>1, <3>1 DEF NothingMissed
    <3> QED
      BY <2>3, <3>2
  <2> QED
    BY <2>4, <2>5, <2>6 DEF NothingMissed
<1>4. CASE GuiderActs
  <2>1. CASE socket = "open"
    BY <1>4, <2>1, SaidFits DEF GuiderActs, GuideStates, Signals
  <2>2. CASE socket # "open"
    BY <1>4, <2>2 DEF GuiderActs, NothingMissed
  <2> QED
    BY <2>1, <2>2
<1>5. CASE GuiderObeys
  <2>1. CASE socket = "open"
    BY <1>5, <2>1, SaidFits DEF GuiderObeys, GuideStates, Signals
  <2>2. CASE socket # "open"
    BY <1>5, <2>2 DEF GuiderObeys, NothingMissed
  <2> QED
    BY <2>1, <2>2
<1>6. CASE (\E o \in {"guide", "stop_capture"} : Order(o)) \/ UNCHANGED guideVars
  <2>1. UNCHANGED <<socket, events, shown, guider>>
    BY <1>6 DEF Order, guideVars
  <2> QED
    BY <1>0, <2>1 DEF NothingMissed, EventFits, ToldBefore
<1> QED
  BY <1>1, <1>2, <1>3, <1>4, <1>5, <1>6 DEF GuidingNext, ClientStep

(* On a link that is up and whose events have been read, the state shown   *)
(* is PHD2's own (or a pause that has just ended), for any number of       *)
(* events and commands under way.                                          *)
THEOREM GuidingIsShown == GuidingSpec => []GuidingShown
<1>1. GuidingInit => GInv
  BY GuidingConstants
     DEF GuidingInit, GInv, GuidingTypeOK, NothingMissed, GuideStates
<1>2. GInv /\ [GuidingNext]_guideVars => GInv'
  BY GuideTyping, MissedStep DEF GInv
<1>3. GInv => GuidingShown
  BY DEF GInv, NothingMissed, GuidingShown
<1> QED
  BY <1>1, <1>2, <1>3, PTL DEF GuidingSpec

-----------------------------------------------------------------------------
(***************************************************************************)
(* The parts side by side.                                                 *)
(***************************************************************************)
LEMMA GuidingTyped == GuidingSpec => []GuidingTypeOK
<1>1. GuidingInit => GuidingTypeOK
  BY GuidingConstants DEF GuidingInit, GuidingTypeOK, GuideStates
<1>2. GuidingTypeOK /\ [GuidingNext]_guideVars => GuidingTypeOK'
  BY GuideTyping
<1> QED
  BY <1>1, <1>2, PTL DEF GuidingSpec

(* What one part does is a step of its own, and a stutter of the others:   *)
(* what is proved of each of them holds of the instance.                   *)
THEOREM PartsAreTheirOwn == MCSpec => DeviceSpec /\ CameraSpec /\ PrecisionSpec /\ GuidingSpec
<1>1. MCInit => DeviceInit /\ CameraInit /\ PrecisionInit /\ GuidingInit
  BY DEF MCInit
<1>2. ASSUME [MCNext]_MCvars
      PROVE  /\ [DeviceNext]_deviceVars /\ [CameraNext]_camVars
             /\ [PrecisionNext]_preVars /\ [GuidingNext]_guideVars
  BY <1>2 DEF MCNext, MCvars, OnLink, OnCamera, OnPrecision
<1> QED
  BY <1>1, <1>2, PTL DEF MCSpec, DeviceSpec, CameraSpec, PrecisionSpec, GuidingSpec

(* Whatever the link, the captures, the operations and the guider do,      *)
(* every variable of the device side keeps its kind.                       *)
THEOREM DevicesTyped == MCSpec => []TypeOK
<1>1. DeviceTypeOK /\ CameraTypeOK /\ PrecisionTypeOK /\ GuidingTypeOK => TypeOK
  BY DEF TypeOK
<1> QED
  BY <1>1, PartsAreTheirOwn, Typed, WellTyped, PrecisionTyped, GuidingTyped, PTL

=============================================================================
