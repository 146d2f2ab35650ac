---------------------------- MODULE RelayProofs ----------------------------
(***************************************************************************)
(* Proofs about Relay for any set of relays, any number of connections to  *)
(* each, and any number of saves and restarts.                             *)
(***************************************************************************)
EXTENDS Relay, FiniteSetTheorems, TLAPS

------------------------------------------------------------------------------
(* Lemmas *)

\* load_bootstraps always has the built-in bootstrap, and a finite number of them.
LEMMA Bootstraps ==
    ASSUME TypeOK
    PROVE  /\ LoadBootstraps \subseteq Relay
           /\ Default \in LoadBootstraps
           /\ Cardinality(LoadBootstraps) \in Nat \ {0}
<1>1. LoadBootstraps \subseteq Relay /\ Default \in LoadBootstraps
  BY RelayAssumption DEF LoadBootstraps, TypeOK
<1>2. IsFiniteSet(LoadBootstraps) /\ Cardinality(LoadBootstraps) \in Nat
  BY <1>1, RelayAssumption, FS_Subset, FS_CardinalityType
<1>3. Cardinality(LoadBootstraps) # 0
  BY <1>1, <1>2, FS_EmptySet
<1> QED BY <1>1, <1>2, <1>3

\* A link names its relay and a slot, which is never the 0 of an absent listener.
LEMMA LinkParts ==
    ASSUME NEW l \in Link
    PROVE  l[1] \in Relay /\ l[2] \in Slot /\ l[2] # 0 /\ l = <<l[1], l[2]>>
BY RelayAssumption DEF Slot

\* The commands that only discovery sends.
LEMMA SimpleCommands ==
    \A type \in {"dial", "find_peer", "dial_address"} : Simple(type) \in NetCommand
BY DEF Simple, NetCommand, Mode

\* Where discovery is when it has ended, and where else it can go.
LEMMA IdleState == Idle \in DiscoveryState /\ Idle.step # "dial_circuits"
BY DEF Idle, DiscoveryState, Mode

LEMMA StepState ==
    ASSUME walk \in DiscoveryState,
           NEW step \in {"ask", "ask_wait", "cached", "lookup", "lookup_wait", "recheck",
                         "recheck_wait", "dial_circuits", "fallback"}
    PROVE  LET next == [walk EXCEPT !.step = step]
           IN  next \in DiscoveryState /\ next.step = step /\ next.left = walk.left
BY DEF DiscoveryState

\* Sending keeps the channel's type.
LEMMA SendTyped ==
    ASSUME cmds \in Seq(NetCommand), NEW c \in NetCommand, Send(c)
    PROVE  cmds' \in Seq(NetCommand)
BY DEF Send

\* So does taking the next command, which is a NetCommand of that type.
LEMMA TakesTyped ==
    ASSUME cmds \in Seq(NetCommand), NEW type, Takes(type)
    PROVE  cmds' \in Seq(NetCommand) /\ Head(cmds) \in NetCommand /\ Head(cmds).type = type
BY DEF Takes

\* What a lookup's answer makes of discovery.
LEMMA FoundState ==
    ASSUME walk \in DiscoveryState,
           NEW step \in {"idle", "dial_circuits", "recheck"},
           Found(step)
    PROVE  walk' \in DiscoveryState /\ (walk'.step = "dial_circuits" => walk'.left # 0)
<1>1. CASE step = "dial_circuits"
  <2> DEFINE next == [walk EXCEPT !.step = "dial_circuits", !.left = 1]
  <2>1. walk' = next
    BY <1>1 DEF Found
  <2>2. next \in DiscoveryState /\ next.left = 1
    BY DEF DiscoveryState
  <2> QED BY <2>1, <2>2
<1>2. CASE step = "idle"
  BY <1>2, IdleState DEF Found, WalkTo
<1>3. CASE step = "recheck"
  BY <1>3, StepState DEF Found, WalkTo
<1> QED BY <1>1, <1>2, <1>3

------------------------------------------------------------------------------
(* Types *)

\* TypeOK holds in every reachable state; so the built-in bootstrap is never lost.
THEOREM TypeCorrect == Spec => []TypeOK
<1>1. Init => TypeOK
  <2> SUFFICES ASSUME Init PROVE TypeOK
    OBVIOUS
  <2>1. LoadBootstraps \subseteq Relay /\ Default \in LoadBootstraps
    BY RelayAssumption DEF Init, LoadBootstraps
  <2>2. saver \in [step : {"idle", "bootstraps", "mode"}, changed : BOOLEAN]
    BY DEF Init, Quiet
  <2>3. walk \in DiscoveryState /\ walk.step # "dial_circuits"
    BY IdleState DEF Init
  <2>4. cmds \in Seq(NetCommand)
    BY DEF Init
  <2> QED BY <2>1, <2>2, <2>3, <2>4 DEF Init, TypeOK
<1>2. TypeOK /\ [Next]_vars => TypeOK'
  <2> SUFFICES ASSUME TypeOK, [Next]_vars PROVE TypeOK'
    OBVIOUS
  <2>1. CASE Save
    BY <2>1 DEF Save, SaveSettings, Saves, TypeOK, swarmVars, netVars
  <2>2. CASE Saver
    <3>1. CASE SendBootstraps
      <4>1. UpdateBootstraps(LoadBootstraps) \in NetCommand
        BY Bootstraps DEF UpdateBootstraps, Simple, NetCommand, Mode
      <4>2. cmds' \in Seq(NetCommand)
        BY <3>1, <4>1, SendTyped DEF SendBootstraps, TypeOK
      <4> QED BY <3>1, <4>2 DEF SendBootstraps, TypeOK, Quiet, dbVars, swarmVars, netVars
    <3>2. CASE SendMode
      <4>1. ApplyDialMode(dbMode) \in NetCommand
        BY DEF ApplyDialMode, Simple, NetCommand, TypeOK
      <4>2. cmds' \in Seq(NetCommand)
        BY <3>2, <4>1, SendTyped DEF SendMode, TypeOK
      <4> QED BY <3>2, <4>2 DEF SendMode, TypeOK, Quiet, dbVars, swarmVars, netVars
    <3> QED BY <2>2, <3>1, <3>2 DEF Saver
  <2>3. CASE Discover
    BY <2>3 DEF Discover, DiscoveryState, TypeOK, dbVars, swarmVars, netVars
  <2>4. CASE Walk
    <3>1. CASE AskSwarm
      <4>1. cmds' \in Seq(NetCommand)
        BY <3>1, SendTyped, SimpleCommands DEF AskSwarm, TypeOK
      <4> QED
        BY <3>1, <4>1, StepState DEF AskSwarm, WalkTo, TypeOK, dbVars, swarmVars, netVars
    <3>2. CASE TryCached
      <4>1. cmds' \in Seq(NetCommand)
        BY <3>2, SendTyped, SimpleCommands DEF TryCached, TypeOK
      <4> QED
        BY <3>2, <4>1, IdleState, StepState DEF TryCached, WalkTo, TypeOK, dbVars, swarmVars,
           netVars
    <3>3. CASE LookupEnds
      BY <3>3, FoundState DEF LookupEnds, TypeOK, dbVars, swarmVars, netVars
    <3>4. CASE Fallback
      <4>1. walk' \in DiscoveryState /\ walk'.left # 0
        BY <3>4, Bootstraps DEF Fallback, DiscoveryState, TypeOK
      <4> QED BY <3>4, <4>1 DEF Fallback, TypeOK, dbVars, swarmVars, netVars
    <3>5. CASE DialCircuit
      <4>1. cmds' \in Seq(NetCommand)
        BY <3>5, SendTyped, SimpleCommands DEF DialCircuit, TypeOK
      <4>2. walk' \in DiscoveryState /\ (walk'.step = "dial_circuits" => walk'.left # 0)
        <5>1. CASE walk.left = 1
          BY <3>5, <5>1, IdleState DEF DialCircuit
        <5>2. CASE walk.left # 1
          BY <3>5, <5>2 DEF DialCircuit, DiscoveryState, TypeOK
        <5> QED BY <5>1, <5>2
      <4> QED BY <3>5, <4>1, <4>2 DEF DialCircuit, TypeOK, dbVars, swarmVars, netVars
    <3> QED BY <2>4, <3>1, <3>2, <3>3, <3>4, <3>5 DEF Walk
  <2>5. CASE Command
    <3>1. CASE HandleDial
      <4>1. cmds' \in Seq(NetCommand)
        BY <3>1, TakesTyped DEF HandleDial, DialsKnown, TypeOK
      <4>2. walk' \in {Idle, [walk EXCEPT !.step = "cached"], [walk EXCEPT !.step = "fallback"]}
        BY <3>1 DEF HandleDial, DialsKnown
      <4>3. walk' \in DiscoveryState /\ walk'.step # "dial_circuits"
        BY <4>2, IdleState, StepState DEF TypeOK
      <4>4. calling' \subseteq Origin
        BY <3>1 DEF HandleDial, DialsKnown, TypeOK, Origin
      <4> QED
        BY <3>1, <4>1, <4>3, <4>4 DEF HandleDial, DialsKnown, TypeOK, dbVars, swarmVars, netVars
    <3>2. CASE HandleFindPeer
      <4>1. cmds' \in Seq(NetCommand)
        BY <3>2, TakesTyped DEF HandleFindPeer, TypeOK
      <4> QED
        BY <3>2, <4>1, FoundState DEF HandleFindPeer, TypeOK, dbVars, swarmVars, netVars
    <3>3. CASE HandleDialAddress
      <4>1. cmds' \in Seq(NetCommand)
        BY <3>3, TakesTyped DEF HandleDialAddress, TypeOK
      <4> QED BY <3>3, <4>1 DEF HandleDialAddress, TypeOK, Origin, dbVars, swarmVars, netVars
    <3>4. CASE HandleUpdateBootstraps
      <4>1. cmds' \in Seq(NetCommand) /\ boot' \subseteq Relay /\ Default \in boot'
        BY <3>4, TakesTyped DEF HandleUpdateBootstraps, NetCommand, TypeOK
      <4> QED BY <3>4, <4>1 DEF HandleUpdateBootstraps, Dialable, TypeOK, dbVars
    <3>5. CASE HandleLanOnly
      <4>1. cmds' \in Seq(NetCommand)
        BY <3>5, TakesTyped DEF HandleLanOnly, TakesMode, TypeOK
      <4> QED BY <3>5, <4>1 DEF HandleLanOnly, TakesMode, Mode, TypeOK, dbVars
    <3>6. CASE HandleInternet
      <4>1. cmds' \in Seq(NetCommand)
        BY <3>6, TakesTyped DEF HandleInternet, TakesMode, TypeOK
      <4> QED BY <3>6, <4>1 DEF HandleInternet, TakesMode, Mode, Dialable, TypeOK, dbVars
    <3> QED BY <2>5, <3>1, <3>2, <3>3, <3>4, <3>5, <3>6 DEF Command
  <2>6. CASE ReconnectTick
    BY <2>6 DEF ReconnectTick, Dialable, TypeOK, dbVars, swarmVars
  <2>7. CASE Network
    <3>1. ASSUME NEW l \in Link, HandleEstablished(l), dialing' \subseteq Relay
          PROVE  TypeOK'
      BY <3>1, LinkParts DEF HandleEstablished, Reserves, TypeOK, dbVars
    <3>2. ASSUME NEW r \in Relay, Connects(r) PROVE TypeOK'
      BY <3>1, <3>2 DEF Connects, LinksOf, TypeOK
    <3>3. ASSUME NEW r \in Relay, DialFails(r) PROVE TypeOK'
      BY <3>3 DEF DialFails, TypeOK, dbVars, swarmVars
    <3>4. ASSUME NEW l \in Link, Accepts(l) PROVE TypeOK'
      BY <3>1, <3>4 DEF Accepts, TypeOK
    <3>5. ASSUME NEW l \in Link, HandleClosed(l) PROVE TypeOK'
      BY <3>5, LinkParts DEF HandleClosed, Closed, TypeOK, dbVars
    <3>6. ASSUME NEW l \in Link, ReservationEnds(l) PROVE TypeOK'
      BY <3>6 DEF ReservationEnds, TypeOK, dbVars, swarmVars
    <3>7. ASSUME NEW o \in Origin, CallEnds(o) PROVE TypeOK'
      BY <3>7 DEF CallEnds, TypeOK, dbVars, swarmVars, netVars
    <3>8. CASE HandleSendRequest
      BY <3>8 DEF HandleSendRequest, TypeOK, Origin, dbVars, swarmVars, netVars
    <3> QED BY <2>7, <3>2, <3>3, <3>4, <3>5, <3>6, <3>7, <3>8 DEF Network
  <2>8. CASE Restart
    <3>1. saver' \in [step : {"idle", "bootstraps", "mode"}, changed : BOOLEAN]
      BY <2>8 DEF Restart, Quiet
    <3>2. walk' \in DiscoveryState /\ walk'.step # "dial_circuits"
      BY <2>8, IdleState DEF Restart
    <3>3. cmds' \in Seq(NetCommand)
      BY <2>8 DEF Restart
    <3> QED BY <2>8, <3>1, <3>2, <3>3, Bootstraps DEF Restart, TypeOK, dbVars
  <2>9. CASE UNCHANGED vars
    BY <2>9 DEF vars, TypeOK, dbVars, swarmVars, netVars
  <2> QED BY <2>1, <2>2, <2>3, <2>4, <2>5, <2>6, <2>7, <2>8, <2>9 DEF Next
<1> QED BY <1>1, <1>2, PTL DEF Spec

------------------------------------------------------------------------------
(* Listeners and their guards *)

\* Nothing but the swarm's own events and a switch to LanOnly touches guards, listeners and
\* connections.
LEMMA QuietSteps ==
    ASSUME \/ Save \/ Saver \/ Discover \/ Walk
           \/ Command /\ ~HandleLanOnly
           \/ ReconnectTick \/ HandleSendRequest \/ UNCHANGED vars
           \/ \E r \in Relay : DialFails(r)
           \/ \E o \in Origin : CallEnds(o)
    PROVE  UNCHANGED <<reserved, circuit, listeners, conn>>
BY DEF Save, SaveSettings, Saves, Saver, SendBootstraps, SendMode, Discover, Walk, AskSwarm,
       TryCached, LookupEnds, Fallback, DialCircuit, Command, HandleDial, DialsKnown,
       HandleFindPeer, HandleDialAddress, HandleUpdateBootstraps, HandleInternet,
       ReconnectTick, HandleSendRequest, CallEnds, DialFails, vars, swarmVars, netVars

\* GuardedListeners holds in every reachable state, with any number of connections to each
\* relay: the guard of a bootstrap says that a listener is on record, no listener is off the
\* record, and the built-in bootstrap's guard falls with its connections.
THEOREM GuardedCorrect == Spec => []GuardedListeners
<1>1. Init => GuardedListeners
  BY DEF Init, GuardedListeners
<1>2. TypeOK /\ GuardedListeners /\ [Next]_vars => GuardedListeners'
  <2> SUFFICES ASSUME TypeOK, GuardedListeners, [Next]_vars PROVE GuardedListeners'
    OBVIOUS
  <2>1. ASSUME UNCHANGED <<reserved, circuit, conn>>, listeners' \subseteq listeners
        PROVE  GuardedListeners'
    BY <2>1 DEF GuardedListeners, IsConnected
  <2>2. CASE HandleLanOnly
    BY <2>2 DEF HandleLanOnly, GuardedListeners
  <2>3. ASSUME NEW l \in Link, HandleEstablished(l) PROVE GuardedListeners'
    <3>1. l[1] \in Relay /\ l[2] # 0
      BY LinkParts
    <3>2. l \in LinksOf(l[1]) /\ conn'[l] = "up"
      BY <2>3 DEF HandleEstablished, Reserves, LinksOf, TypeOK
    <3>3. \A r \in Relay : IsConnected(r) => IsConnected(r)'
      BY <2>3 DEF HandleEstablished, Reserves, IsConnected, LinksOf, TypeOK
    <3>4. IsConnected(l[1])'
      BY <3>2 DEF IsConnected
    <3>5. CASE UNCHANGED <<reserved, circuit, listeners>>
      BY <3>3, <3>5, RelayAssumption DEF GuardedListeners
    <3>6. CASE /\ l[1] \notin reserved
               /\ reserved' = reserved \cup {l[1]}
               /\ circuit' = [circuit EXCEPT ![l[1]] = l[2]]
               /\ listeners' = listeners \cup {l}
      <4>1. \A r \in Relay : r \in reserved' <=> circuit'[r] # 0
        BY <3>1, <3>6 DEF GuardedListeners, TypeOK
      <4>2. \A k \in listeners : k[1] \in Relay /\ k[2] # 0 /\ k[1] # l[1]
        BY <3>6, LinkParts DEF GuardedListeners, TypeOK
      <4>3. \A k \in listeners' : circuit'[k[1]] = k[2]
        BY <3>1, <3>6, <4>2 DEF GuardedListeners, TypeOK
      <4>4. Default \in reserved' => IsConnected(Default)'
        BY <3>3, <3>4, <3>6, RelayAssumption DEF GuardedListeners
      <4> QED BY <4>1, <4>3, <4>4 DEF GuardedListeners
    <3> QED BY <2>3, <3>5, <3>6 DEF HandleEstablished, Reserves
  <2>4. ASSUME NEW l \in Link, HandleClosed(l) PROVE GuardedListeners'
    <3>1. l[1] \in Relay
      BY LinkParts
    <3>2. \A r \in Relay \ {l[1]} : IsConnected(r) => IsConnected(r)'
      BY <2>4 DEF HandleClosed, Closed, IsConnected, LinksOf, TypeOK
    <3>3. CASE l[1] \in boot
      <4>1. /\ reserved' = reserved \ {l[1]}
            /\ circuit' = [r \in Relay |-> IF r = l[1] THEN 0 ELSE circuit[r]]
            /\ listeners' = {k \in listeners \ {l} : k[1] # l[1] \/ circuit[k[1]] # k[2]}
        BY <2>4, <3>3 DEF HandleClosed, Closed
      <4>2. \A r \in Relay : r \in reserved' <=> circuit'[r] # 0
        BY <4>1 DEF GuardedListeners
      <4>3. \A k \in listeners' : k[1] \in Relay /\ k[1] # l[1] /\ circuit[k[1]] = k[2]
        BY <4>1, LinkParts DEF GuardedListeners, TypeOK
      <4>4. \A k \in listeners' : circuit'[k[1]] = k[2]
        BY <4>1, <4>3
      <4>5. Default \in reserved' => IsConnected(Default)'
        BY <3>2, <4>1, RelayAssumption DEF GuardedListeners
      <4> QED BY <4>2, <4>4, <4>5 DEF GuardedListeners
    <3>4. CASE l[1] \notin boot
      <4>1. UNCHANGED <<reserved, circuit>> /\ listeners' \subseteq listeners
        BY <2>4, <3>4 DEF HandleClosed, Closed
      <4>2. l[1] # Default
        BY <3>4 DEF TypeOK
      <4> QED BY <3>2, <4>1, <4>2, RelayAssumption DEF GuardedListeners
    <3> QED BY <3>3, <3>4
  <2>5. ASSUME NEW l \in Link, ReservationEnds(l) PROVE GuardedListeners'
    BY <2>1, <2>5 DEF ReservationEnds, swarmVars
  <2>6. CASE Restart
    BY <2>6 DEF Restart, GuardedListeners
  <2>7. CASE UNCHANGED <<reserved, circuit, listeners, conn>>
    BY <2>1, <2>7
  <2> QED
    BY <2>2, <2>3, <2>4, <2>5, <2>6, <2>7, QuietSteps DEF Next, Network, Connects, Accepts,
       LinksOf
<1> QED BY <1>1, <1>2, TypeCorrect, PTL DEF Spec

\* LanOnlyIsQuiet holds in every reachable state: LanOnly takes down every listener there
\* is, because every one is on record, and lets none come up.
THEOREM QuietCorrect == Spec => []LanOnlyIsQuiet
<1>1. Init => LanOnlyIsQuiet
  BY DEF Init, LanOnlyIsQuiet
<1>2. TypeOK /\ GuardedListeners /\ LanOnlyIsQuiet /\ [Next]_vars => LanOnlyIsQuiet'
  <2> SUFFICES ASSUME TypeOK, GuardedListeners, LanOnlyIsQuiet, [Next]_vars
               PROVE  LanOnlyIsQuiet'
    OBVIOUS
  <2>1. CASE HandleLanOnly
    BY <2>1 DEF HandleLanOnly, GuardedListeners, LanOnlyIsQuiet
  <2>2. CASE HandleInternet
    BY <2>2 DEF HandleInternet, TakesMode, LanOnlyIsQuiet
  <2>3. ASSUME NEW l \in Link, HandleEstablished(l) PROVE LanOnlyIsQuiet'
    BY <2>3 DEF HandleEstablished, Reserves, LanOnlyIsQuiet
  <2>4. ASSUME NEW l \in Link, HandleClosed(l) PROVE LanOnlyIsQuiet'
    BY <2>4 DEF HandleClosed, Closed, LanOnlyIsQuiet
  <2>5. ASSUME NEW l \in Link, ReservationEnds(l) PROVE LanOnlyIsQuiet'
    BY <2>5 DEF ReservationEnds, swarmVars, LanOnlyIsQuiet
  <2>6. CASE Restart
    BY <2>6 DEF Restart, LanOnlyIsQuiet
  <2>7. CASE mode' = mode /\ UNCHANGED <<reserved, listeners>>
    BY <2>7 DEF LanOnlyIsQuiet
  <2>8. ASSUME \/ Save \/ Saver \/ Discover \/ Walk
               \/ Command /\ ~HandleLanOnly /\ ~HandleInternet
               \/ ReconnectTick \/ HandleSendRequest \/ UNCHANGED vars
               \/ \E r \in Relay : DialFails(r)
               \/ \E o \in Origin : CallEnds(o)
        PROVE  mode' = mode
    BY <2>8 DEF Save, SaveSettings, Saves, Saver, SendBootstraps, SendMode, Discover, Walk,
       AskSwarm, TryCached, LookupEnds, Fallback, DialCircuit, Command, HandleDial, DialsKnown,
       HandleFindPeer, HandleDialAddress, HandleUpdateBootstraps, ReconnectTick,
       HandleSendRequest, CallEnds, DialFails, vars, swarmVars
  <2> QED
    BY <2>1, <2>2, <2>3, <2>4, <2>5, <2>6, <2>7, <2>8, QuietSteps DEF Next, Network, Connects,
       Accepts, LinksOf
<1> QED BY <1>1, <1>2, TypeCorrect, GuardedCorrect, PTL DEF Spec

\* DefaultReserves: whenever the node comes back to the built-in bootstrap in Internet
\* mode it asks for a reservation, since no guard of an earlier connection is left, and a
\* listen_on that fails leaves none either.
THEOREM DefaultReservesCorrect == Spec => DefaultReserves
<1>1. TypeOK /\ GuardedListeners /\ [Next]_vars => [ReservesAt(Default)]_vars
  <2> SUFFICES ASSUME TypeOK, GuardedListeners, Next,
                      mode = "Internet", ~IsConnected(Default), IsConnected(Default)'
               PROVE  Default \notin reserved' \/ \E l \in listeners' : l[1] = Default
    BY DEF ReservesAt
  <2>1. Default \notin reserved /\ Default \in boot
    BY DEF GuardedListeners, TypeOK
  <2>2. PICK l \in Link : l[1] = Default /\ conn[l] = "down" /\ conn'[l] # "down"
    BY DEF IsConnected, LinksOf
  <2>3. ASSUME NEW k \in Link, HandleEstablished(k)
        PROVE  Default \notin reserved' \/ \E m \in listeners' : m[1] = Default
    <3>1. k = l
      BY <2>2, <2>3 DEF HandleEstablished, Reserves, TypeOK
    <3> QED BY <2>1, <2>2, <2>3, <3>1 DEF HandleEstablished, Reserves
  <2>4. ~HandleLanOnly /\ ~Restart
    BY <2>2 DEF HandleLanOnly, Restart, TypeOK
  <2>5. \A k \in Link : ~HandleClosed(k) /\ ~ReservationEnds(k)
    BY <2>2 DEF HandleClosed, Closed, ReservationEnds, TypeOK
  <2>6. conn' # conn
    BY <2>2
  <2> QED
    BY <2>3, <2>4, <2>5, <2>6, QuietSteps DEF Next, Network, Connects, Accepts, LinksOf
<1> QED BY <1>1, TypeCorrect, GuardedCorrect, PTL DEF Spec, DefaultReserves

------------------------------------------------------------------------------
(* What was saved reaches the swarm *)

\* The last command of a type in the channel q is one of those in good; if there is none
\* in it, the swarm has what good stands for (now).
Told(q, type, good, now) ==
    \/ \E i \in DOMAIN q :
           /\ q[i].type = type /\ q[i] \in good
           /\ \A j \in DOMAIN q : j > i => q[j].type # type
    \/ now /\ \A i \in DOMAIN q : q[i].type # type

ModesOfRow == {c \in NetCommand : c.mode = dbMode}
BootsOfRow == {c \in NetCommand : c.boot = LoadBootstraps}

\* A save that has told the swarm about the bootstraps of the row has its command as the
\* last of its type in the channel, or applied.
BootTold ==
    saver.step # "bootstraps"
        => Told(cmds, "update_bootstraps", BootsOfRow, boot = LoadBootstraps)

\* So has a save that has told it about the mode, or had no need to.
ModeTold ==
    saver.step = "idle" \/ ~saver.changed
        => Told(cmds, "apply_dial_mode", ModesOfRow, mode = dbMode)

\* A command of the type is the last of it when it is sent, and one of another type
\* changes nothing about it.
LEMMA Sending ==
    ASSUME NEW q \in Seq(NetCommand), NEW c \in NetCommand, NEW type, NEW good, NEW now,
           IF c.type = type THEN c \in good ELSE Told(q, type, good, now)
    PROVE  Told(Append(q, c), type, good, now)
<1> DEFINE p == Append(q, c)
           n == Len(q) + 1
<1>1. /\ \A i \in DOMAIN q : i \in DOMAIN p /\ p[i] = q[i] /\ i < n
      /\ n \in DOMAIN p /\ p[n] = c
      /\ \A i \in DOMAIN p : (i \in DOMAIN q \/ i = n) /\ ~(i > n)
  <2>1. DOMAIN q = 1..Len(q) /\ DOMAIN p = 1..n /\ Len(q) \in Nat
    OBVIOUS
  <2>2. p[n] = c
    OBVIOUS
  <2>3. \A i \in 1..Len(q) : p[i] = q[i]
    OBVIOUS
  <2> HIDE DEF p
  <2>4. \A i \in DOMAIN q : i \in DOMAIN p /\ i < n
    BY <2>1
  <2>5. \A i \in DOMAIN p : (i \in DOMAIN q \/ i = n) /\ ~(i > n)
    BY <2>1
  <2>6. n \in DOMAIN p
    BY <2>1
  <2> HIDE DEF n
  <2> QED BY <2>1, <2>2, <2>3, <2>4, <2>5, <2>6
<1> HIDE DEF p, n
<1>2. ASSUME c.type = type
      PROVE  Told(p, type, good, now)
  <2>1. c \in good
    BY <1>2
  <2>2. p[n].type = type /\ p[n] \in good /\ \A j \in DOMAIN p : j > n => p[j].type # type
    BY <1>1, <1>2, <2>1
  <2> QED BY <1>1, <2>2 DEF Told
<1>3. ASSUME c.type # type
      PROVE  Told(p, type, good, now)
  <2>1. CASE now /\ \A i \in DOMAIN q : q[i].type # type
    BY <1>1, <1>3, <2>1 DEF Told
  <2>2. ASSUME NEW i \in DOMAIN q, q[i].type = type, q[i] \in good,
               \A j \in DOMAIN q : j > i => q[j].type # type
        PROVE  Told(p, type, good, now)
    BY <1>1, <1>3, <2>2 DEF Told
  <2> QED BY <1>3, <2>1, <2>2 DEF Told
<1> QED BY <1>2, <1>3 DEF p

\* Taking a command keeps what was told if applying it, or leaving it, has its effect.
LEMMA Taking ==
    ASSUME NEW q \in Seq(NetCommand), q # <<>>, NEW type, NEW good, NEW now, NEW then,
           Told(q, type, good, now),
           Head(q).type = type /\ Head(q) \in good => then,
           Head(q).type # type /\ now => then
    PROVE  Told(Tail(q), type, good, then)
<1> DEFINE p == Tail(q)
<1>1. /\ 1 \in DOMAIN q /\ Head(q) = q[1]
      /\ \A i \in DOMAIN p : i + 1 \in DOMAIN q /\ p[i] = q[i + 1]
      /\ \A i \in DOMAIN q : i = 1 \/ (i - 1 \in DOMAIN p /\ p[i - 1] = q[i])
      /\ DOMAIN q \subseteq Nat /\ DOMAIN p \subseteq Nat \ {0}
  OBVIOUS
<1> HIDE DEF p
<1>2. CASE now /\ \A i \in DOMAIN q : q[i].type # type
  BY <1>1, <1>2 DEF Told
<1>3. ASSUME NEW i \in DOMAIN q, q[i].type = type, q[i] \in good,
             \A j \in DOMAIN q : j > i => q[j].type # type
      PROVE  Told(p, type, good, then)
  <2>1. CASE i = 1
    <3>1. then
      BY <1>1, <1>3, <2>1
    <3>2. \A j \in DOMAIN p : j + 1 > 1
      BY <1>1
    <3>3. \A j \in DOMAIN p : p[j].type # type
      BY <1>1, <1>3, <2>1, <3>2
    <3> QED BY <3>1, <3>3 DEF Told
  <2>2. CASE i # 1
    <3>1. i - 1 \in DOMAIN p /\ p[i - 1] = q[i]
      BY <1>1, <2>2
    <3>2. \A j \in DOMAIN p : j > i - 1 => j + 1 > i
      BY <1>1
    <3>3. \A j \in DOMAIN p : j > i - 1 => p[j].type # type
      BY <1>1, <1>3, <3>2
    <3> QED BY <1>3, <3>1, <3>3 DEF Told
  <2> QED BY <2>1, <2>2
<1> QED BY <1>2, <1>3 DEF Told, p

\* Discovery and the swarm task keep what was told: one sends commands of other types, the
\* other applies what it takes.
LEMMA ToldOn ==
    ASSUME TypeOK, BootTold, ModeTold, UNCHANGED <<dbVars, saver>>,
           \/ UNCHANGED <<cmds, mode, boot>>
           \/ /\ \E type \in {"dial", "find_peer", "dial_address"} : Send(Simple(type))
              /\ UNCHANGED <<mode, boot>>
           \/ /\ cmds # <<>> /\ cmds' = Tail(cmds)
              /\ mode' = IF Head(cmds).type = "apply_dial_mode" THEN Head(cmds).mode ELSE mode
              /\ boot' = IF Head(cmds).type = "update_bootstraps" THEN Head(cmds).boot ELSE boot
    PROVE  BootTold' /\ ModeTold'
<1>1. UNCHANGED <<ModesOfRow, BootsOfRow, LoadBootstraps>>
  BY DEF ModesOfRow, BootsOfRow, LoadBootstraps, dbVars
<1>2. cmds \in Seq(NetCommand)
  BY DEF TypeOK
<1>3. CASE UNCHANGED <<cmds, mode, boot>>
  BY <1>1, <1>3 DEF BootTold, ModeTold, dbVars
<1>4. ASSUME NEW type \in {"dial", "find_peer", "dial_address"}, Send(Simple(type)),
             UNCHANGED <<mode, boot>>
      PROVE  BootTold' /\ ModeTold'
  <2> DEFINE c == Simple(type)
  <2>1. /\ c \in NetCommand /\ cmds' = Append(cmds, c)
        /\ c.type # "update_bootstraps" /\ c.type # "apply_dial_mode"
    BY <1>4, SimpleCommands DEF Send, Simple
  <2> HIDE DEF c
  <2>2. BootTold'
    BY <1>1, <1>2, <1>4, <2>1, Sending DEF BootTold, dbVars
  <2>3. ModeTold'
    BY <1>1, <1>2, <1>4, <2>1, Sending DEF ModeTold, dbVars
  <2> QED BY <2>2, <2>3
<1>5. CASE /\ cmds # <<>> /\ cmds' = Tail(cmds)
           /\ mode' = IF Head(cmds).type = "apply_dial_mode" THEN Head(cmds).mode ELSE mode
           /\ boot' = IF Head(cmds).type = "update_bootstraps" THEN Head(cmds).boot ELSE boot
  <2>1. /\ Head(cmds) \in BootsOfRow => Head(cmds).boot = LoadBootstraps
        /\ Head(cmds) \in ModesOfRow => Head(cmds).mode = dbMode
    BY DEF BootsOfRow, ModesOfRow
  <2>2. ASSUME Told(cmds, "update_bootstraps", BootsOfRow, boot = LoadBootstraps)
        PROVE  Told(Tail(cmds), "update_bootstraps", BootsOfRow, boot' = LoadBootstraps)
    BY <1>2, <1>5, <2>1, <2>2, Taking
  <2>3. ASSUME Told(cmds, "apply_dial_mode", ModesOfRow, mode = dbMode)
        PROVE  Told(Tail(cmds), "apply_dial_mode", ModesOfRow, mode' = dbMode)
    BY <1>2, <1>5, <2>1, <2>3, Taking
  <2>4. BootTold'
    BY <1>1, <1>5, <2>2 DEF BootTold, dbVars
  <2>5. ModeTold'
    BY <1>1, <1>5, <2>3 DEF ModeTold, dbVars
  <2> QED BY <2>4, <2>5
<1> QED BY <1>3, <1>4, <1>5

\* Every step keeps what was told.
LEMMA ToldStep == TypeOK /\ BootTold /\ ModeTold /\ [Next]_vars => BootTold' /\ ModeTold'
<1> SUFFICES ASSUME TypeOK, BootTold, ModeTold, [Next]_vars PROVE BootTold' /\ ModeTold'
  OBVIOUS
<1> USE DEF dbVars, swarmVars, netVars
<1>1. ASSUME NEW m \in Mode, NEW extra, SaveSettings(m, extra) PROVE BootTold' /\ ModeTold'
  <2>1. saver.step = "idle" /\ saver'.step = "bootstraps" /\ saver'.changed = (m # dbMode)
        /\ dbMode' = m /\ UNCHANGED <<cmds, mode>>
    BY <1>1 DEF SaveSettings, Saves
  <2>2. ModeTold'
    BY <2>1 DEF ModeTold, ModesOfRow
  <2> QED BY <2>1, <2>2 DEF BootTold
<1>2. CASE SendBootstraps
  <2> DEFINE c == UpdateBootstraps(LoadBootstraps)
  <2>1. /\ c \in NetCommand /\ c.type = "update_bootstraps" /\ c.boot = LoadBootstraps
    BY Bootstraps DEF UpdateBootstraps, Simple, NetCommand, Mode
  <2>2. cmds' = Append(cmds, c) /\ c \in BootsOfRow /\ cmds \in Seq(NetCommand)
    BY <1>2, <2>1 DEF SendBootstraps, Send, BootsOfRow, TypeOK
  <2>3. UNCHANGED <<ModesOfRow, BootsOfRow, LoadBootstraps, dbMode, mode, boot>>
    BY <1>2 DEF SendBootstraps, ModesOfRow, BootsOfRow, LoadBootstraps
  <2>4. saver' = IF saver.changed THEN [saver EXCEPT !.step = "mode"] ELSE Quiet
    BY <1>2 DEF SendBootstraps
  <2>5. saver'.step = "idle" \/ ~saver'.changed => ~saver.changed
    BY <2>4 DEF TypeOK
  <2> HIDE DEF c
  <2>6. Told(cmds', "update_bootstraps", BootsOfRow, boot = LoadBootstraps)
    BY <2>1, <2>2, Sending
  <2>7. ASSUME ~saver.changed
        PROVE  Told(cmds', "apply_dial_mode", ModesOfRow, mode = dbMode)
    BY <2>1, <2>2, <2>7, Sending DEF ModeTold
  <2> QED BY <2>3, <2>5, <2>6, <2>7 DEF BootTold, ModeTold
<1>3. CASE SendMode
  <2> DEFINE c == ApplyDialMode(dbMode)
  <2>1. c \in NetCommand /\ c.type = "apply_dial_mode" /\ c.mode = dbMode
    BY DEF ApplyDialMode, Simple, NetCommand, TypeOK
  <2>2. cmds' = Append(cmds, c) /\ c \in ModesOfRow /\ cmds \in Seq(NetCommand)
    BY <1>3, <2>1 DEF SendMode, Send, ModesOfRow, TypeOK
  <2>3. UNCHANGED <<ModesOfRow, BootsOfRow, LoadBootstraps, dbMode, mode, boot>>
    BY <1>3 DEF SendMode, ModesOfRow, BootsOfRow, LoadBootstraps
  <2>4. saver.step # "bootstraps"
    BY <1>3 DEF SendMode
  <2> HIDE DEF c
  <2>5. Told(cmds', "apply_dial_mode", ModesOfRow, mode = dbMode)
    BY <2>1, <2>2, Sending
  <2>6. Told(cmds', "update_bootstraps", BootsOfRow, boot = LoadBootstraps)
    BY <2>1, <2>2, <2>4, Sending DEF BootTold
  <2> QED BY <2>3, <2>5, <2>6 DEF BootTold, ModeTold
<1>4. CASE Discover \/ Walk
  <2>1. /\ UNCHANGED <<dbVars, saver, mode, boot>>
        /\ \/ UNCHANGED cmds
           \/ \E type \in {"dial", "find_peer", "dial_address"} : Send(Simple(type))
    BY <1>4 DEF Discover, Walk, AskSwarm, TryCached, LookupEnds, Fallback, DialCircuit
  <2> QED BY <2>1, ToldOn
<1>5. CASE Command
  <2>1. UNCHANGED <<dbVars, saver>> /\ cmds # <<>> /\ cmds' = Tail(cmds)
    BY <1>5 DEF Command, HandleDial, DialsKnown, HandleFindPeer, HandleDialAddress,
       HandleUpdateBootstraps, HandleLanOnly, HandleInternet, TakesMode, Takes
  <2>2. mode' = IF Head(cmds).type = "apply_dial_mode" THEN Head(cmds).mode ELSE mode
    BY <1>5 DEF Command, HandleDial, DialsKnown, HandleFindPeer, HandleDialAddress,
       HandleUpdateBootstraps, HandleLanOnly, HandleInternet, TakesMode, Takes
  <2>3. boot' = IF Head(cmds).type = "update_bootstraps" THEN Head(cmds).boot ELSE boot
    BY <1>5 DEF Command, HandleDial, DialsKnown, HandleFindPeer, HandleDialAddress,
       HandleUpdateBootstraps, HandleLanOnly, HandleInternet, TakesMode, Takes
  <2> QED BY <2>1, <2>2, <2>3, ToldOn
<1>6. CASE ReconnectTick \/ Network \/ UNCHANGED vars
  <2>1. UNCHANGED <<dbVars, saver, cmds, mode, boot>>
    BY <1>6 DEF ReconnectTick, Network, Connects, DialFails, Accepts, HandleEstablished, Reserves,
       HandleClosed, Closed, ReservationEnds, HandleSendRequest, CallEnds, vars
  <2> QED BY <2>1, ToldOn
<1>7. CASE Restart
  <2>1. cmds' = <<>> /\ mode' = dbMode' /\ boot' = LoadBootstraps'
    BY <1>7 DEF Restart, LoadBootstraps
  <2> QED BY <2>1 DEF BootTold, ModeTold, Told
<1> QED BY <1>1, <1>2, <1>3, <1>4, <1>5, <1>6, <1>7 DEF Next, Save, Saver

\* SettingsApplied holds in every reachable state: what the last save told the swarm is
\* the last it hears (update_settings, handle_command), for any capacity of the channel.
THEOREM SettingsAppliedCorrect == Spec => []SettingsApplied
<1>1. Init => BootTold /\ ModeTold
  BY DEF Init, BootTold, ModeTold, Told
<1>2. TypeOK /\ BootTold /\ ModeTold => SettingsApplied
  <2> SUFFICES ASSUME TypeOK, BootTold, ModeTold, ~SettingsUnderWay
               PROVE  mode = dbMode /\ boot = LoadBootstraps
    BY DEF SettingsApplied
  <2> QED BY DEF SettingsUnderWay, BootTold, ModeTold, Told
<1> QED BY <1>1, <1>2, ToldStep, TypeCorrect, PTL DEF Spec
=============================================================================
