-------------------------------- MODULE Relay --------------------------------
(***************************************************************************)
(* How a node stays reachable through its bootstraps, which are also its   *)
(* relays, and how it stops being so.  The user saves a dial mode and a     *)
(* list of extra bootstraps; update_settings writes the row and then sends *)
(* the swarm task one command per change.  The swarm task connects to the  *)
(* bootstraps and keeps one circuit listener (a reservation) at each.       *)
(* Discovery of one contact runs meanwhile, with the mode it read when it  *)
(* began.  What the address book and peer_state hold of the contact, and   *)
(* so where discovery finds an address, is left open at every step.        *)
(***************************************************************************)
EXTENDS Naturals, FiniteSets, Sequences

CONSTANTS
    Relay,         \* relays that can be bootstraps
    Default,       \* the built-in one, which no setting removes
    Link,          \* <<relay, slot>>: the connections to each that may be up at once
    COMMAND_CHANNEL_CAPACITY   \* 64 in the code

Slot == {l[2] : l \in Link}
LinksOf(r) == {l \in Link : l[1] = r}

ASSUME RelayAssumption ==
    /\ IsFiniteSet(Relay)
    /\ Default \in Relay
    /\ Link \subseteq Relay \X (Nat \ {0})
    /\ \A r \in Relay : LinksOf(r) # {}
    /\ COMMAND_CHANNEL_CAPACITY \in Nat \ {0}

Mode == {"LanOnly", "Internet"}
Origin == {"discovery", "request"}   \* dial_with_discovery; a behaviour by itself

VARIABLES
    dbMode, dbExtra,     \* the settings row: dial_mode, extra_bootstraps
    saver,               \* what update_settings has left to do
    cmds,                \* NetCommands on their way to the swarm task
    mode, boot,          \* swarm task: dial_mode, keys of bootstrap_peers
    reserved,            \* swarm task: relay_reserved
    circuit,             \* swarm task: circuit_listeners: slot of the connection listened
                         \* over, 0: no entry
    listeners,           \* links that carry a live circuit listener
    conn,                \* direct connections to relays: "down", "up" or "closing"
    dialing,             \* relays being dialled
    calling,             \* who has the contact being dialled over a circuit
    walk                 \* dial_with_discovery of the contact

dbVars == <<dbMode, dbExtra>>
swarmVars == <<mode, boot, reserved, circuit>>
netVars == <<listeners, conn, dialing>>
vars == <<dbVars, saver, cmds, swarmVars, netVars, calling, walk>>

Quiet == [step |-> "idle", changed |-> FALSE]
Idle == [step |-> "idle", mode |-> "Internet", left |-> 0]

Simple(type) == [type |-> type, mode |-> "Internet", boot |-> {}]
UpdateBootstraps(b) == [Simple("update_bootstraps") EXCEPT !.boot = b]
ApplyDialMode(m) == [Simple("apply_dial_mode") EXCEPT !.mode = m]

\* A sender waits while the channel is full.
Send(cmd) ==
    /\ Len(cmds) < COMMAND_CHANNEL_CAPACITY
    /\ cmds' = Append(cmds, cmd)

\* Mutant: the user's list takes the place of the built-in bootstrap.
LoadUserSourcesOnly == IF dbExtra = {} THEN {Default} ELSE dbExtra

\* load_bootstraps: the built-in one, then the settings' extras.
LoadBootstraps == {Default} \cup dbExtra

IsConnected(r) == \E l \in LinksOf(r) : conn[l] # "down"

\* PeerCondition::DisconnectedAndNotDialing
Dialable(R) == {r \in R : ~IsConnected(r) /\ r \notin dialing}

------------------------------------------------------------------------------
(* update_settings: the row, then the bootstraps, then the mode if it changed. *)
(* The Settings page has one save under way at a time.                        *)

Saves(m, extra, changed) ==
    /\ saver.step = "idle"
    /\ dbMode' = m
    /\ dbExtra' = extra
    /\ saver' = [step |-> "bootstraps", changed |-> changed]
    /\ UNCHANGED <<cmds, swarmVars, netVars, calling, walk>>

\* Mutant: the previous row is read after the update.
SaveSettingsReadsLate(m, extra) == Saves(m, extra, FALSE)

SaveSettings(m, extra) == Saves(m, extra, m # dbMode)

SendBootstraps ==
    /\ saver.step = "bootstraps"
    /\ Send(UpdateBootstraps(LoadBootstraps))
    /\ saver' = IF saver.changed THEN [saver EXCEPT !.step = "mode"] ELSE Quiet
    /\ UNCHANGED <<dbVars, swarmVars, netVars, calling, walk>>

\* The circuits swept from peer_state afterwards are data of TryCached.
SendMode ==
    /\ saver.step = "mode"
    /\ Send(ApplyDialMode(dbMode))
    /\ saver' = Quiet
    /\ UNCHANGED <<dbVars, swarmVars, netVars, calling, walk>>

------------------------------------------------------------------------------
(* dial_with_discovery of the contact: its mode is read once, at the start *)

\* LanOnly asks the swarm only if a LAN address is cached.
Discover ==
    /\ walk.step = "idle"
    /\ \E step \in IF dbMode = "LanOnly" THEN {"ask", "cached"} ELSE {"ask"} :
           walk' = [step |-> step, mode |-> dbMode, left |-> 0]
    /\ UNCHANGED <<dbVars, saver, cmds, swarmVars, netVars, calling>>

WalkTo(step) == walk' = IF step = "idle" THEN Idle ELSE [walk EXCEPT !.step = step]

\* Steps 1 and 4 wait for Dial's answer, step 3 for FindPeer's.
AskSwarm ==
    /\ \/ walk.step = "ask" /\ Send(Simple("dial")) /\ WalkTo("ask_wait")
       \/ walk.step = "lookup" /\ Send(Simple("find_peer")) /\ WalkTo("lookup_wait")
       \/ walk.step = "recheck" /\ Send(Simple("dial")) /\ WalkTo("recheck_wait")
    /\ UNCHANGED <<dbVars, saver, swarmVars, netVars, calling>>

\* Step 2: a cached direct address, a cached circuit unless LanOnly filters it, or
\* nothing, where LanOnly gives up.
TryCached ==
    /\ walk.step = "cached"
    /\ \/ /\ \/ WalkTo("idle")
             \/ walk.mode = "Internet" /\ WalkTo("lookup")
          /\ UNCHANGED cmds
       \/ /\ walk.mode = "Internet"
          /\ Send(Simple("dial_address"))
          /\ WalkTo("idle")
    /\ UNCHANGED <<dbVars, saver, swarmVars, netVars, calling>>

\* FindPeer's answer: what is known of the contact decides where discovery goes on.
Found(step) ==
    /\ walk.step = "lookup_wait"
    /\ IF step = "dial_circuits" THEN walk' = [walk EXCEPT !.step = step, !.left = 1]
       ELSE WalkTo(step)

\* A Kad query ends, or find_peer's ten seconds are over.
LookupEnds ==
    /\ \E step \in {"idle", "dial_circuits", "recheck"} : Found(step)
    /\ UNCHANGED <<dbVars, saver, cmds, swarmVars, netVars, calling>>

\* Step 5: load_bootstraps, for a circuit through every one of them.
Fallback ==
    /\ walk.step = "fallback"
    /\ walk' = [walk EXCEPT !.step = "dial_circuits", !.left = Cardinality(LoadBootstraps)]
    /\ UNCHANGED <<dbVars, saver, cmds, swarmVars, netVars, calling>>

\* The next of the circuits found, or made up in step 5.
DialCircuit ==
    /\ walk.step = "dial_circuits"
    /\ Send(Simple("dial_address"))
    /\ walk' = IF walk.left = 1 THEN Idle ELSE [walk EXCEPT !.left = @ - 1]
    /\ UNCHANGED <<dbVars, saver, swarmVars, netVars, calling>>

------------------------------------------------------------------------------
(* handle_command *)

Takes(type) ==
    /\ cmds # <<>>
    /\ Head(cmds).type = type
    /\ cmds' = Tail(cmds)

DialsKnown(circuits) ==
    /\ Takes("dial")
    /\ \E direct \in BOOLEAN, viaRelay \in circuits :
        /\ walk' = CASE direct \/ viaRelay -> Idle
                     [] walk.step = "ask_wait" -> [walk EXCEPT !.step = "cached"]
                     [] OTHER -> [walk EXCEPT !.step = "fallback"]
        \* no dial while the contact is connected or being dialled
        /\ calling' \in {calling, calling \cup {o \in {"discovery"} : viaRelay}}
    /\ UNCHANGED <<dbVars, saver, swarmVars, netVars>>

\* Mutant: the address book is dialled as it is.
HandleDialUnfiltered == DialsKnown(BOOLEAN)

\* Direct addresses of the contact, and circuits unless LanOnly filters them.
HandleDial == DialsKnown(IF mode = "LanOnly" THEN {FALSE} ELSE BOOLEAN)

\* Answered at once from the address book or by the end of the Kad query, if at all: the
\* asker may have timed out.
HandleFindPeer ==
    /\ Takes("find_peer")
    /\ \/ Found("idle") \/ Found("dial_circuits")
       \/ UNCHANGED walk
    /\ UNCHANGED <<dbVars, saver, swarmVars, netVars, calling>>

\* A circuit address, dialled as it comes.
HandleDialAddress ==
    /\ Takes("dial_address")
    /\ calling' = calling \cup {"discovery"}
    /\ UNCHANGED <<dbVars, saver, swarmVars, netVars, walk>>

\* SendHandshake, SendMsg and SendSync: send_request has the contact dialled, if it is
\* not connected, with all the addresses the behaviours know of it, circuits among them
\* and whatever the mode.  Kad dials in its own queries likewise.  When requests come is
\* left open, and so is their place in the channel.
HandleSendRequest ==
    /\ calling' = calling \cup {"request"}
    /\ UNCHANGED <<dbVars, saver, cmds, swarmVars, netVars, walk>>

HandleUpdateBootstraps ==
    /\ Takes("update_bootstraps")
    /\ boot' = Head(cmds).boot
    /\ dialing' = IF mode = "LanOnly" THEN dialing
                  ELSE dialing \cup Dialable(boot' \ boot)
    /\ UNCHANGED <<dbVars, saver, mode, reserved, circuit, listeners, conn, calling, walk>>

TakesMode(m) == Takes("apply_dial_mode") /\ Head(cmds).mode = m /\ mode' = m

HandleLanOnly ==
    /\ TakesMode("LanOnly")
    /\ listeners' = {l \in listeners : circuit[l[1]] # l[2]}
    /\ circuit' = [r \in Relay |-> 0]
    /\ reserved' = {}
    /\ conn' = [l \in Link |-> IF l[1] \in boot /\ conn[l] = "up" THEN "closing" ELSE conn[l]]
    /\ UNCHANGED <<dbVars, saver, boot, dialing, calling, walk>>

\* reconnect_lost_bootstraps at once
HandleInternet ==
    /\ TakesMode("Internet")
    /\ dialing' = dialing \cup Dialable(boot)
    /\ UNCHANGED <<dbVars, saver, boot, reserved, circuit, listeners, conn, calling, walk>>

------------------------------------------------------------------------------
(* The reconnect tick and the swarm's events *)

\* Mutant: the round ends at the first bootstrap that is connected.
ReconnectTickStops ==
    /\ mode # "LanOnly"
    /\ Dialable(boot) # {}
    /\ dialing' = IF \E r \in boot : IsConnected(r) THEN dialing ELSE dialing \cup boot
    /\ UNCHANGED <<dbVars, saver, cmds, swarmVars, listeners, conn, calling, walk>>

ReconnectTick ==
    /\ mode # "LanOnly"
    /\ Dialable(boot) # {}
    /\ dialing' = dialing \cup Dialable(boot)
    /\ UNCHANGED <<dbVars, saver, cmds, swarmVars, listeners, conn, calling, walk>>

\* ConnectionEstablished: the first connection that finds the guard free has listen_on
\* ask for a reservation.  If listen_on fails, the guard is free again.
Reserves(l, allowed) ==
    /\ conn[l] = "down"
    /\ conn' = [conn EXCEPT ![l] = "up"]
    /\ IF allowed /\ l[1] \in boot \ reserved
       THEN \/ /\ reserved' = reserved \cup {l[1]}
               /\ circuit' = [circuit EXCEPT ![l[1]] = l[2]]
               /\ listeners' = listeners \cup {l}
            \/ UNCHANGED <<reserved, circuit, listeners>>
       ELSE UNCHANGED <<reserved, circuit, listeners>>
    /\ UNCHANGED <<dbVars, saver, cmds, mode, boot, calling, walk>>

\* Mutant: the mode is not asked for.
HandleEstablishedAnyMode(l) == Reserves(l, TRUE)

HandleEstablished(l) == Reserves(l, mode # "LanOnly")

\* A dial succeeds or fails.
Connects(r) ==
    /\ r \in dialing
    /\ dialing' = dialing \ {r}
    /\ \E l \in LinksOf(r) : HandleEstablished(l)

DialFails(r) ==
    /\ r \in dialing
    /\ dialing' = dialing \ {r}
    /\ UNCHANGED <<dbVars, saver, cmds, swarmVars, listeners, conn, calling, walk>>

\* A connection nobody here asked for, in any mode: the relay's own dial, Kad's periodic
\* queries, the relay client on behalf of a circuit.
Accepts(l) ==
    /\ HandleEstablished(l)
    /\ UNCHANGED dialing

\* ConnectionClosed at a bootstrap clears the guard and takes down the listener; at
\* any other relay it leaves both alone, and only what the connection carried dies.
Closed(l, released, ended) ==
    /\ conn[l] # "down"
    /\ conn' = [conn EXCEPT ![l] = "down"]
    /\ IF l[1] \in boot
       THEN /\ reserved' = reserved \ released
            /\ circuit' = [r \in Relay |-> IF r \in ended THEN 0 ELSE circuit[r]]
            /\ listeners' = {k \in listeners \ {l} : k[1] \notin ended \/ circuit[k[1]] # k[2]}
       ELSE /\ listeners' = listeners \ {l}
            /\ UNCHANGED <<reserved, circuit>>
    /\ UNCHANGED <<dbVars, saver, cmds, mode, boot, dialing, calling, walk>>

\* Mutant: the guard stays.
HandleClosedKeeps(l) == Closed(l, {}, {l[1]})

\* Mutant: the listener is left to end by itself.
HandleClosedTrusts(l) == Closed(l, {l[1]}, {})

HandleClosed(l) == Closed(l, {l[1]}, {l[1]})

\* The relay refuses, or does not renew, the reservation.
ReservationEnds(l) ==
    /\ l \in listeners
    /\ listeners' = listeners \ {l}
    /\ UNCHANGED <<dbVars, saver, cmds, swarmVars, conn, dialing, calling, walk>>

CallEnds(o) ==
    /\ o \in calling
    /\ calling' = calling \ {o}
    /\ UNCHANGED <<dbVars, saver, cmds, swarmVars, netVars, walk>>

------------------------------------------------------------------------------
(* Closing the application and boot: the swarm starts in the persisted mode *)

Restart ==
    /\ saver' = Quiet
    /\ cmds' = <<>>
    /\ mode' = dbMode
    /\ boot' = LoadBootstraps
    /\ reserved' = {}
    /\ circuit' = [r \in Relay |-> 0]
    /\ listeners' = {}
    /\ conn' = [l \in Link |-> "down"]
    /\ dialing' = IF mode' = "LanOnly" THEN {} ELSE boot'
    /\ calling' = {}
    /\ walk' = Idle
    /\ UNCHANGED dbVars

Init ==
    /\ dbMode \in Mode
    /\ dbExtra \in SUBSET (Relay \ {Default})
    /\ saver = Quiet
    /\ cmds = <<>>
    /\ mode = dbMode
    /\ boot = LoadBootstraps
    /\ reserved = {}
    /\ circuit = [r \in Relay |-> 0]
    /\ listeners = {}
    /\ conn = [l \in Link |-> "down"]
    /\ dialing = IF mode = "LanOnly" THEN {} ELSE boot
    /\ calling = {}
    /\ walk = Idle

Save == \E m \in Mode : \E extra \in SUBSET (Relay \ {Default}) : SaveSettings(m, extra)

Saver == SendBootstraps \/ SendMode

Walk == AskSwarm \/ TryCached \/ LookupEnds \/ Fallback \/ DialCircuit

Command ==
    \/ HandleDial \/ HandleFindPeer \/ HandleDialAddress
    \/ HandleUpdateBootstraps
    \/ HandleLanOnly \/ HandleInternet

Network ==
    \/ \E r \in Relay : Connects(r) \/ DialFails(r)
    \/ \E l \in Link :
           \/ Accepts(l)
           \/ HandleClosed(l)
           \/ ReservationEnds(l)
    \/ HandleSendRequest
    \/ \E o \in Origin : CallEnds(o)

Next == Save \/ Saver \/ Discover \/ Walk \/ Command \/ ReconnectTick \/ Network \/ Restart

Spec == Init /\ [][Next]_vars

\* Every task runs on, the interval ticks, a dial of the contact ends and a connection that
\* is being closed closes.  Senders get into a full channel in turn (tokio's mpsc is fair),
\* and of the dials of a relay that are tried for ever one succeeds.
Fairness ==
    /\ SF_vars(Saver)
    /\ WF_vars(Walk)
    /\ WF_vars(Command)
    /\ WF_vars(ReconnectTick)
    /\ \A o \in Origin : WF_vars(CallEnds(o))
    /\ \A l \in Link : WF_vars(conn[l] = "closing" /\ HandleClosed(l))
    /\ \A r \in Relay : SF_vars(Connects(r))

FairSpec == Spec /\ Fairness

------------------------------------------------------------------------------
(* Properties *)

NetCommand ==
    {c \in [type : {"dial", "find_peer", "dial_address", "update_bootstraps",
                    "apply_dial_mode"}, mode : Mode, boot : SUBSET Relay] :
        c.type = "update_bootstraps" => Default \in c.boot}

DiscoveryState ==
    [step : {"idle", "ask", "ask_wait", "cached", "lookup", "lookup_wait", "recheck",
             "recheck_wait", "dial_circuits", "fallback"}, mode : Mode, left : Nat]

\* Every variable keeps its type, and the built-in bootstrap is always among the swarm's.
TypeOK ==
    /\ dbMode \in Mode
    /\ dbExtra \subseteq Relay \ {Default}
    /\ saver \in [step : {"idle", "bootstraps", "mode"}, changed : BOOLEAN]
    /\ cmds \in Seq(NetCommand)
    /\ mode \in Mode
    /\ boot \subseteq Relay /\ Default \in boot
    /\ reserved \subseteq Relay
    /\ circuit \in [Relay -> Slot \cup {0}]
    /\ listeners \subseteq Link
    /\ conn \in [Link -> {"down", "up", "closing"}]
    /\ dialing \subseteq Relay
    /\ calling \subseteq Origin
    /\ walk \in DiscoveryState
    /\ walk.step = "dial_circuits" => walk.left # 0

SettingsUnderWay ==
    \/ saver.step # "idle"
    \/ \E i \in DOMAIN cmds : cmds[i].type \in {"update_bootstraps", "apply_dial_mode"}

\* Once a save is through, the swarm has the mode and the bootstraps of the row, whatever
\* was saved before and wherever the application was closed in between.
SettingsApplied == SettingsUnderWay \/ (mode = dbMode /\ boot = LoadBootstraps)

\* In LanOnly no circuit listener is up and none is on record, though connections to
\* relays may be left or still come up.
LanOnlyIsQuiet == mode = "LanOnly" => listeners = {} /\ reserved = {}

\* The guard is set just when a listener is on record, and no listener is up that is not
\* the one on record: HandleLanOnly can take down every one of them.  At the built-in
\* bootstrap the guard never outlives the connections.
GuardedListeners ==
    /\ \A r \in Relay : r \in reserved <=> circuit[r] # 0
    /\ \A l \in listeners : circuit[l[1]] = l[2]
    /\ Default \in reserved => IsConnected(Default)

\* Once the user stays in LanOnly, discovery's circuit dials of the contact come to an end:
\* those that a discovery which had read Internet still sends are the last, whatever
\* identify and Kad put into the address book.  The dials that requests set off are not
\* filtered and go on.
DiscoverySettles == <>[](dbMode = "LanOnly") => <>[]("discovery" \notin calling)

\* The connection that ends a relay's absence in Internet mode makes a reservation; if
\* listen_on fails, it leaves the guard free for the next one.
ReservesAt(r) ==
    mode = "Internet" /\ r \in boot /\ ~IsConnected(r) /\ IsConnected(r)'
        => r \notin reserved' \/ \E l \in listeners' : l[1] = r

\* A reservation of the built-in bootstrap is asked for every time the node reconnects to
\* it: no guard of an earlier connection, mode or failed attempt is in the way.  (The
\* comment on relay_reserved has the guard outlive the connection; the code clears it.)
DefaultReserves == [][ReservesAt(Default)]_vars

\* A bootstrap that stays configured in Internet mode is connected again and again, however
\* often its connections drop and whatever guards and dials earlier settings left behind.
BootstrapReturns ==
    \A r \in Relay :
        <>[](mode = "Internet" /\ r \in boot)
            => []<>(\E l \in LinksOf(r) : conn[l] = "up")
=============================================================================
