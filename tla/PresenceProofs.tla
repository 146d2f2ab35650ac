---------------------------- MODULE PresenceProofs ----------------------------
(***************************************************************************)
(* Proofs about Presence for any number of connections, skipped events and *)
(* wipes: a live connection is known, a dead one is on its way out.        *)
(***************************************************************************)
EXTENDS Presence, FiniteSetTheorems, TLAPS

------------------------------------------------------------------------------
(* Sequences of events *)

\* The closes that disconnect_peer announces are one for each connection it closes:
\* SetToSeq lists a finite set completely.
LEMMA Listed ==
    ASSUME NEW S, IsFiniteSet(S)
    PROVE  /\ SetToSeq(S) \in Seq(S)
           /\ \A i \in DOMAIN SetToSeq(S) : SetToSeq(S)[i] \in S
           /\ \A x \in S : \E i \in DOMAIN SetToSeq(S) : SetToSeq(S)[i] = x
<1> DEFINE n == Cardinality(S)
<1>1. n \in Nat /\ \E f : f \in Bijection(1..n, S)
    BY FS_CardinalityType DEF ExistsBijection
<1>2. \E f \in [1..n -> S] : IsInjective(f)
    BY <1>1 DEF Bijection, Injection
<1>3. SetToSeq(S) \in [1..n -> S] /\ IsInjective(SetToSeq(S))
    BY <1>2 DEF SetToSeq
<1>4. SetToSeq(S) \in Injection(1..n, S)
    BY <1>3 DEF Injection
<1>5. Cardinality(1..n) = n
    BY <1>1, FS_Interval
<1>6. SetToSeq(S) \in Surjection(1..n, S)
    BY <1>4, <1>5, FS_Injection
<1>7. \A x \in S : \E i \in 1..n : SetToSeq(S)[i] = x
    BY <1>6 DEF Surjection
<1>8. SetToSeq(S) \in Seq(S) /\ DOMAIN SetToSeq(S) = 1..n
    BY <1>1, <1>3
<1>9. \A i \in 1..n : SetToSeq(S)[i] \in S
    BY <1>3
<1>. QED
    BY <1>7, <1>8, <1>9

\* More events behind those there are (the broadcast of NetEvents).
LEMMA Joined ==
    ASSUME NEW S, NEW s \in Seq(S), NEW t \in Seq(S)
    PROVE  /\ s \o t \in Seq(S)
           /\ \A i \in DOMAIN s : i \in DOMAIN (s \o t) /\ (s \o t)[i] = s[i]
           /\ \A j \in DOMAIN t :
                  Len(s) + j \in DOMAIN (s \o t) /\ (s \o t)[Len(s) + j] = t[j]
           /\ \A k \in DOMAIN (s \o t) :
                  \/ k \in DOMAIN s
                  \/ k - Len(s) \in DOMAIN t /\ k > Len(s) /\ (s \o t)[k] = t[k - Len(s)]
    OBVIOUS

\* The oldest event is taken or skipped.
LEMMA Taken ==
    ASSUME NEW S, NEW s \in Seq(S), s # <<>>
    PROVE  /\ Head(s) \in S /\ Head(s) = s[1] /\ 1 \in DOMAIN s
           /\ Tail(s) \in Seq(S)
           /\ \A i \in DOMAIN Tail(s) : i + 1 \in DOMAIN s /\ Tail(s)[i] = s[i + 1]
           /\ \A i \in DOMAIN s : i = 1 \/ (i - 1 \in DOMAIN Tail(s) /\ Tail(s)[i - 1] = s[i])
    OBVIOUS

\* A sequence over a set is one over a larger set.
LEMMA Wider ==
    ASSUME NEW S, NEW T, S \subseteq T, NEW s \in Seq(S)
    PROVE  s \in Seq(T)
    OBVIOUS

\* The sets the variables range over.
AnEvent(ids) == [type : Kind \cup {"closed"}, id : ids]

------------------------------------------------------------------------------
(* Types *)

\* What refresh_presence writes is a kind or no entry.
LEMMA ShownType == \A k \in Kind \cup {"offline"} : Shown(k) \in KindOrNone
    BY DEF Shown, Kind, KindOrNone

\* best_conn is a kind that some entry has, or Offline.
LEMMA BestType ==
    ASSUME conns \in [Conn -> KindOrNone]
    PROVE  BestConn \in Kind \cup {"offline"}
<1>1. CASE Entries = {}
    BY <1>1 DEF BestConn
<1>2. CASE Entries # {}
    <2> DEFINE S == {conns[c] : c \in Entries}
               Best(k) == \A c \in Entries : Precedence(conns[c]) <= Precedence(k)
    <2>1. S \subseteq Kind /\ S # {}
        BY <1>2 DEF Entries, KindOrNone
    <2>2. Precedence("direct") = 5 /\ Precedence("internet") = 3 /\ Precedence("relayed") = 2
        BY DEF Precedence
    <2>3. \E k \in S : \A l \in S : Precedence(l) <= Precedence(k)
        <3>1. CASE "direct" \in S
            BY <2>1, <2>2, <3>1 DEF Kind
        <3>2. CASE "direct" \notin S /\ "internet" \in S
            BY <2>1, <2>2, <3>2 DEF Kind
        <3>3. CASE "direct" \notin S /\ "internet" \notin S
            BY <2>1, <2>2, <3>3 DEF Kind
        <3> QED
            BY <3>1, <3>2, <3>3
    <2>4. \E k \in S : Best(k)
        BY <2>3
    <2>5. BestConn = CHOOSE k \in S : Best(k)
        BY <1>2 DEF BestConn
    <2>6. BestConn \in S
        BY <2>4, <2>5
    <2> QED
        BY <2>1, <2>6
<1> QED
    BY <1>1, <1>2

\* What a connection event that the swarm announces does to the events on their way.
LEMMA Announced ==
    ASSUME TypeOK, NEW ids, opened \subseteq ids, NEW s \in Seq(AnEvent(ids))
    PROVE  events \o s \in Seq(AnEvent(ids))
<1>1. events \in Seq(AnEvent(ids))
    BY Wider, AnEvent(opened) \subseteq AnEvent(ids) DEF TypeOK, AnEvent
<1> QED
    BY <1>1

\* The closes that Disconnected announces.
LEMMA Closes ==
    ASSUME TypeOK
    PROVE  LET s == SetToSeq({Event("closed", c) : c \in socket}) IN
           /\ s \in Seq(AnEvent(opened))
           /\ \A i \in DOMAIN s : s[i].type = "closed" /\ s[i].id \in socket
           /\ \A c \in socket : \E i \in DOMAIN s : s[i] = Event("closed", c)
<1> DEFINE S == {Event("closed", c) : c \in socket}
           s == SetToSeq(S)
<1>1. IsFiniteSet(socket)
    BY PresenceAssumption, FS_Subset DEF TypeOK
<1>2. IsFiniteSet(S)
    <2> DEFINE f == [c \in socket |-> Event("closed", c)]
    <2>1. f \in Surjection(socket, S)
        BY DEF Surjection
    <2> QED
        BY <1>1, <2>1, FS_Surjection
<1>3. /\ s \in Seq(S) /\ \A i \in DOMAIN s : s[i] \in S
      /\ \A x \in S : \E i \in DOMAIN s : s[i] = x
    BY <1>2, Listed
<1>4. S \subseteq AnEvent(opened)
    BY DEF TypeOK, Event, AnEvent
<1>5. s \in Seq(AnEvent(opened))
    <2> HIDE DEF S, s
    <2> QED
        BY <1>3, <1>4, Wider
<1>6. \A x \in S : x.type = "closed" /\ x.id \in socket
    BY DEF Event
<1>7. \A c \in socket : Event("closed", c) \in S
    OBVIOUS
<1>8. /\ s \in Seq(AnEvent(opened))
      /\ \A i \in DOMAIN s : s[i].type = "closed" /\ s[i].id \in socket
      /\ \A c \in socket : \E i \in DOMAIN s : s[i] = Event("closed", c)
    <2> HIDE DEF S, s
    <2> QED
        BY <1>3, <1>5, <1>6, <1>7
<1> QED
    BY <1>8

\* The swarm's steps keep the types.
LEMMA SwarmType == TypeOK /\ Swarm => TypeOK'
<1>. SUFFICES ASSUME TypeOK, Swarm PROVE TypeOK'
    OBVIOUS
<1>. USE DEF mapVars, taskVars
<1>1. ASSUME NEW c \in Conn, NEW k \in {"relayed", "internet"}, Open(c, k) PROVE TypeOK'
    <2>1. <<Event(k, c)>> \in Seq(AnEvent(opened'))
        BY <1>1 DEF Open, Opened, Event, AnEvent, Kind
    <2>2. events' \in Seq(AnEvent(opened'))
        <3>1. opened \subseteq opened' /\ events' = events \o <<Event(k, c)>>
            BY <1>1 DEF Open, Opened, TypeOK
        <3>. QED
            BY <2>1, <3>1, Announced
    <2>. QED
        BY <1>1, <2>2 DEF Open, Opened, TypeOK, AnEvent
<1>2. ASSUME NEW c \in Conn, NEW order \in {<<"internet", "direct">>, <<"direct", "internet">>},
             OpenPunched(c, order)
      PROVE  TypeOK'
    <2> DEFINE s == [i \in 1..2 |-> Event(order[i], c)]
    <2>1. s \in Seq(AnEvent(opened'))
        BY <1>2 DEF OpenPunched, Opened, Event, AnEvent, Kind
    <2>2. events' \in Seq(AnEvent(opened'))
        <3>1. opened \subseteq opened' /\ events' = events \o s
            BY <1>2 DEF OpenPunched, Opened
        <3>. HIDE DEF s
        <3>. QED
            BY <2>1, <3>1, Announced
    <2>. QED
        BY <1>2, <2>2 DEF OpenPunched, Opened, TypeOK, AnEvent
<1>3. ASSUME NEW c \in Conn, Close(c) PROVE TypeOK'
    <2>1. <<Event("closed", c)>> \in Seq(AnEvent(opened))
        BY <1>3 DEF Close, Event, AnEvent, TypeOK
    <2>2. events' \in Seq(AnEvent(opened))
        <3>1. events' = events \o <<Event("closed", c)>>
            BY <1>3 DEF Close, TypeOK
        <3>. QED
            BY <2>1, <3>1, Announced
    <2>. QED
        BY <1>3, <2>2 DEF Close, TypeOK, AnEvent
<1>4. CASE Lag
    <2>1. Head(events) \in AnEvent(opened) /\ Tail(events) \in Seq(AnEvent(opened))
        BY <1>4, Taken DEF Lag, TypeOK, AnEvent
    <2>. QED
        BY <1>4, <2>1, PresenceAssumption DEF Lag, TypeOK, AnEvent
<1>. QED
    BY <1>1, <1>2, <1>3, <1>4 DEF Swarm

\* Every step keeps the types.
LEMMA TypeStep == TypeOK /\ [Next]_vars => TypeOK'
<1>. SUFFICES ASSUME TypeOK, [Next]_vars PROVE TypeOK'
    OBVIOUS
<1>. USE DEF mapVars, taskVars, Goes
<1>1. CASE Swarm
    BY <1>1, SwarmType
<1>2. CASE Loop
    <2>1. \E types : Takes(types)
        BY <1>2 DEF Loop, HandleEstablished, HandleUpgraded, HandleClosed
    <2>2. Head(events) \in AnEvent(opened) /\ Tail(events) \in Seq(AnEvent(opened))
        BY <2>1, Taken DEF Takes, TypeOK, AnEvent
    <2>3. conns' \in [Conn -> KindOrNone]
        BY <1>2, <2>2 DEF Loop, HandleEstablished, HandleUpgraded, HandleClosed, Takes, TypeOK,
            Kind, KindOrNone, AnEvent
    <2>. QED
        BY <2>1, <2>2, <2>3 DEF Takes, TypeOK, AnEvent, Task
<1>3. CASE Tick
    BY <1>3 DEF Tick, TypeOK, Task
<1>4. CASE Ticker
    <2>1. CASE DropSockets
        <3>1. events' \in Seq(AnEvent(opened))
            BY <2>1, Closes, Announced DEF DropSockets, Disconnected
        <3>. QED
            BY <2>1, <3>1 DEF DropSockets, Disconnected, TypeOK, AnEvent, Task
    <2>2. CASE ProbeOffline
        BY <2>2 DEF ProbeOffline, TypeOK, Task
    <2>3. CASE TakeSnapshot
        BY <2>3 DEF TakeSnapshot, TypeOK, Task, Entries
    <2>4. CASE CheckLive
        BY <2>4 DEF CheckLive, TypeOK, Task
    <2>5. CASE Demote
        BY <2>5 DEF Demote, TypeOK, Task, KindOrNone
    <2>. QED
        BY <1>4, <2>1, <2>2, <2>3, <2>4, <2>5 DEF Ticker
<1>5. ASSUME NEW t \in Task, Refresh(t) PROVE TypeOK'
    <2>1. CASE RefreshRead(t)
        BY <2>1, BestType DEF RefreshRead, TypeOK
    <2>2. CASE WritePresence(t)
        BY <2>2, ShownType DEF WritePresence, TypeOK
    <2>3. CASE WriteMeta(t)
        BY <2>3, ShownType DEF WriteMeta, TypeOK
    <2>. QED
        BY <1>5, <2>1, <2>2, <2>3 DEF Refresh
<1>6. ASSUME NEW t \in Task, Wipe(t) PROVE TypeOK'
    <2>1. wipes' \in 0..MaxWipes
        BY <1>6, PresenceAssumption DEF Wipe, TypeOK
    <2>2. pc' = [pc EXCEPT ![t] = "wipe_presence"] /\ accepted' = FALSE
        BY <1>6 DEF Wipe
    <2>3. UNCHANGED <<socket, opened, events, conns, presence, meta, best, snapshot, missed, lags>>
        BY <1>6 DEF Wipe
    <2>. QED
        BY <2>1, <2>2, <2>3 DEF TypeOK
<1>7. ASSUME NEW t \in Task, WipeOn(t) PROVE TypeOK'
    <2>1. CASE WipePresence(t)
        BY <2>1 DEF WipePresence, TypeOK, KindOrNone
    <2>2. CASE WipeConns(t)
        BY <2>2 DEF WipeConns, TypeOK, KindOrNone, Entries
    <2>3. CASE WipeMeta(t)
        BY <2>3 DEF WipeMeta, TypeOK, KindOrNone
    <2>. QED
        BY <1>7, <2>1, <2>2, <2>3 DEF WipeOn
<1>8. CASE DisconnectPeer
    <2>1. events' \in Seq(AnEvent(opened))
        BY <1>8, Closes, Announced DEF DisconnectPeer, Disconnected
    <2>. QED
        BY <1>8, <2>1 DEF DisconnectPeer, Disconnected, TypeOK, AnEvent, Task
<1>9. CASE AddAgain
    BY <1>9 DEF AddAgain, TypeOK
<1>10. CASE UNCHANGED vars
    BY <1>10 DEF vars, TypeOK
<1>. QED
    BY <1>1, <1>2, <1>3, <1>4, <1>5, <1>6, <1>7, <1>8, <1>9, <1>10 DEF Next

\* Every variable keeps its type; in particular no map of app.rs holds a row
\* that says Offline.
THEOREM TypeCorrect == Spec => []TypeOK
<1>1. Init => TypeOK
    BY PresenceAssumption DEF Init, TypeOK, KindOrNone, Kind
<1>. QED
    BY <1>1, TypeStep, PTL DEF Spec

------------------------------------------------------------------------------
(* The inductive invariant *)

\* The close of a connection is announced when it is gone, and connections do
\* not come back.
ClosedAreGone ==
    \A i \in DOMAIN events : events[i].type = "closed" => events[i].id \notin socket

\* Behind what announced a connection that is gone comes its close.
CloseFollows ==
    \A i \in DOMAIN events :
        events[i].type # "closed" /\ events[i].id \notin socket \cup missed
            => \E j \in DOMAIN events : j > i /\ events[j] = Event("closed", events[i].id)

\* What has an entry was opened once.
EntriesOpened == Entries \subseteq opened

\* The ticker asked about connections that existed; those it is about to demote
\* are gone.
SnapshotIsOld ==
    /\ snapshot \subseteq opened
    /\ pc["ticker"] = "demote" => snapshot \cap socket = {}

IInv ==
    /\ TypeOK
    /\ ClosedAreGone
    /\ CloseFollows
    /\ EntriesOpened
    /\ SnapshotIsOld
    /\ LiveIsKnown
    /\ NoGhost

\* Every event is about a connection that was opened once.
LEMMA EventIds ==
    ASSUME TypeOK
    PROVE  /\ events \in Seq(AnEvent(opened))
           /\ \A i \in DOMAIN events : events[i] \in AnEvent(opened) /\ events[i].id \in opened
<1>1. events \in Seq(AnEvent(opened))
    BY DEF TypeOK, AnEvent
<1>2. \A i \in DOMAIN events : events[i] \in AnEvent(opened)
    BY <1>1
<1>3. \A e \in AnEvent(opened) : e.id \in opened
    BY DEF AnEvent
<1>. QED
    BY <1>1, <1>2, <1>3

\* The events s are behind those there were.
Adds(s) ==
    /\ \A i \in DOMAIN events : i \in DOMAIN events' /\ events'[i] = events[i]
    /\ \A i \in DOMAIN events, j \in DOMAIN s :
           \E k \in DOMAIN events' : k > i /\ events'[k] = s[j]
    /\ \A k \in DOMAIN events' :
           k \in DOMAIN events \/ \E j \in DOMAIN s : events'[k] = s[j]
    /\ \A j \in DOMAIN s : \E k \in DOMAIN events' : events'[k] = s[j]

\* A broadcast adds its events.
LEMMA Broadcast ==
    ASSUME TypeOK, NEW s \in Seq(AnEvent(Conn)), events' = events \o s
    PROVE  Adds(s)
<1>1. events \in Seq(AnEvent(Conn))
    BY Wider, AnEvent(opened) \subseteq AnEvent(Conn) DEF TypeOK, AnEvent
<1>2. /\ \A i \in DOMAIN events : i \in DOMAIN events' /\ events'[i] = events[i]
      /\ \A j \in DOMAIN s : Len(events) + j \in DOMAIN events' /\ events'[Len(events) + j] = s[j]
      /\ \A k \in DOMAIN events' :
             \/ k \in DOMAIN events
             \/ /\ k - Len(events) \in DOMAIN s /\ k > Len(events)
                /\ events'[k] = s[k - Len(events)]
    BY <1>1, Joined
<1>3. \A i \in DOMAIN events, j \in DOMAIN s : Len(events) + j > i
    BY <1>1
<1>. QED
    BY <1>2, <1>3 DEF Adds

\* Connections that are opened keep the invariant.
LEMMA OpenedStep ==
    ASSUME IInv, TypeOK', NEW c \in Conn, Opened(c),
           NEW s, Adds(s),
           \A j \in DOMAIN s : s[j].type # "closed" /\ s[j].id = c,
           \E j \in DOMAIN s : s[j].type \in {"relayed", "internet"}
    PROVE  IInv'
<1>. USE DEF mapVars, taskVars
<1>1. /\ c \notin opened /\ socket' = socket \cup {c} /\ opened' = opened \cup {c}
      /\ UNCHANGED <<conns, pc, snapshot, missed>>
    BY DEF Opened
<1>2. \A i \in DOMAIN events : events[i].id \in opened
    BY EventIds DEF IInv
<1>3. ClosedAreGone'
    BY <1>1, <1>2 DEF Adds, IInv, ClosedAreGone
<1>4. CloseFollows'
    BY <1>1, <1>2 DEF Adds, IInv, CloseFollows
<1>5. EntriesOpened' /\ SnapshotIsOld'
    BY <1>1 DEF IInv, EntriesOpened, Entries, SnapshotIsOld, TypeOK
<1>6. LiveIsKnown'
    BY <1>1 DEF Adds, IInv, LiveIsKnown, Entries, Queued
<1>7. NoGhost'
    BY <1>1 DEF Adds, IInv, NoGhost, Entries, Queued
<1>. QED
    BY <1>3, <1>4, <1>5, <1>6, <1>7 DEF IInv

\* Connections that are closed, and announced as such, keep the invariant.
LEMMA ClosedStep ==
    ASSUME IInv, TypeOK', NEW gone, socket' = socket \ gone,
           NEW s, Adds(s),
           \A j \in DOMAIN s : s[j].type = "closed" /\ s[j].id \in gone,
           \A c \in gone \cap socket : \E j \in DOMAIN s : s[j] = Event("closed", c),
           gone \subseteq opened, pc'["ticker"] = "demote" => pc["ticker"] = "demote",
           UNCHANGED <<opened, conns, snapshot, missed>>
    PROVE  IInv'
<1>1. \A i \in DOMAIN events : events[i].id \in opened
    BY EventIds DEF IInv
<1>2. ClosedAreGone'
    BY <1>1 DEF Adds, IInv, ClosedAreGone
<1>3. CloseFollows'
    <2>1. SUFFICES ASSUME NEW i \in DOMAIN events', events'[i].type # "closed",
                          events'[i].id \notin socket' \cup missed'
                   PROVE  \E j \in DOMAIN events' :
                              j > i /\ events'[j] = Event("closed", events'[i].id)
        BY DEF CloseFollows
    <2>2. i \in DOMAIN events /\ events'[i] = events[i]
        BY <2>1 DEF Adds
    <2>3. CASE events[i].id \in socket
        <3>1. PICK j \in DOMAIN s : s[j] = Event("closed", events[i].id)
            BY <2>1, <2>2, <2>3
        <3>. QED
            BY <2>2, <3>1 DEF Adds
    <2>4. CASE events[i].id \notin socket
        BY <2>1, <2>2, <2>4 DEF Adds, IInv, CloseFollows
    <2>. QED
        BY <2>3, <2>4
<1>4. EntriesOpened' /\ SnapshotIsOld'
    BY DEF IInv, EntriesOpened, Entries, SnapshotIsOld
<1>5. LiveIsKnown'
    BY DEF Adds, IInv, LiveIsKnown, Entries, Queued
<1>6. NoGhost'
    <2>1. SUFFICES ASSUME NEW c \in Entries, c \notin socket', c \notin missed
                   PROVE  \E i \in DOMAIN events' : events'[i].id = c /\ events'[i].type = "closed"
        BY DEF NoGhost, Queued, Entries
    <2>2. CASE c \in socket
        <3>1. PICK j \in DOMAIN s : s[j] = Event("closed", c)
            BY <2>1, <2>2
        <3>. QED
            BY <3>1 DEF Adds, Event
    <2>3. CASE c \notin socket
        BY <2>1, <2>3 DEF Adds, IInv, NoGhost, Queued
    <2>. QED
        BY <2>2, <2>3
<1>. QED
    BY <1>2, <1>3, <1>4, <1>5, <1>6 DEF IInv

\* The event in hand is no longer on its way.
Drops ==
    /\ events # <<>> /\ 1 \in DOMAIN events /\ Head(events) = events[1]
    /\ \A i \in DOMAIN events' : i + 1 \in DOMAIN events /\ events'[i] = events[i + 1]
    /\ \A i \in DOMAIN events : i = 1 \/ (i - 1 \in DOMAIN events' /\ events'[i - 1] = events[i])
    /\ DOMAIN events \subseteq Nat /\ DOMAIN events' \subseteq Nat

\* Taking an event drops it.
LEMMA TakingDrops ==
    ASSUME TypeOK, events # <<>>, events' = Tail(events)
    PROVE  Drops
<1>1. events \in Seq(AnEvent(opened))
    BY EventIds
<1>2. DOMAIN events \subseteq Nat /\ DOMAIN events' \subseteq Nat
    BY <1>1, Taken
<1>. QED
    BY <1>1, <1>2, Taken DEF Drops

\* What the invariant says about the events that remain.
LEMMA Remaining ==
    ASSUME IInv, Drops, UNCHANGED <<socket, opened>>, missed \subseteq missed'
    PROVE  /\ ClosedAreGone' /\ CloseFollows'
           /\ \A c, T : Queued(c, T) /\ ~(Head(events).id = c /\ Head(events).type \in T)
                            => Queued(c, T)'
<1>1. ClosedAreGone'
    BY DEF Drops, IInv, ClosedAreGone
<1>2. CloseFollows'
    <2>1. SUFFICES ASSUME NEW i \in DOMAIN events', events'[i].type # "closed",
                          events'[i].id \notin socket \cup missed'
                   PROVE  \E j \in DOMAIN events' :
                              j > i /\ events'[j] = Event("closed", events'[i].id)
        BY DEF CloseFollows
    <2>2. i + 1 \in DOMAIN events /\ events'[i] = events[i + 1]
        BY DEF Drops
    <2>3. PICK j \in DOMAIN events : j > i + 1 /\ events[j] = Event("closed", events'[i].id)
        BY <2>1, <2>2 DEF IInv, CloseFollows
    <2>4. i \in Nat /\ j \in Nat
        BY DEF Drops
    <2>5. j # 1 /\ j - 1 > i
        BY <2>3, <2>4
    <2>. QED
        BY <2>3, <2>5 DEF Drops
<1>3. \A c, T : Queued(c, T) /\ ~(Head(events).id = c /\ Head(events).type \in T)
                    => Queued(c, T)'
    BY DEF Drops, Queued
<1>. QED
    BY <1>1, <1>2, <1>3

\* A step that leaves swarm, events, entries and the ticker's question alone keeps the
\* invariant.
LEMMA QuietStep ==
    ASSUME IInv, TypeOK', UNCHANGED <<socket, opened, events, conns, snapshot, missed>>,
           pc'["ticker"] = "demote" => pc["ticker"] = "demote"
    PROVE  IInv'
<1>1. ClosedAreGone' /\ CloseFollows'
    BY DEF IInv, ClosedAreGone, CloseFollows
<1>2. EntriesOpened' /\ SnapshotIsOld'
    BY DEF IInv, EntriesOpened, Entries, SnapshotIsOld
<1>3. LiveIsKnown' /\ NoGhost'
    BY DEF IInv, LiveIsKnown, NoGhost, Entries, Queued
<1>. QED
    BY <1>1, <1>2, <1>3 DEF IInv

\* The event loop takes an event: a connection that is gone gets an entry only if its
\* close is still to come.
LEMMA LoopStep == IInv /\ TypeOK' /\ Loop => IInv'
<1>. SUFFICES ASSUME IInv, TypeOK', Loop PROVE IInv'
    OBVIOUS
<1> DEFINE e == Head(events)
<1>1. /\ events # <<>> /\ events' = Tail(events) /\ pc' = [pc EXCEPT !["loop"] = "refresh"]
      /\ UNCHANGED <<socket, opened, snapshot, missed>>
    BY DEF Loop, HandleEstablished, HandleUpgraded, HandleClosed, Takes, Goes
<1>2. Drops
    BY <1>1, TakingDrops DEF IInv
<1>3. e \in AnEvent(opened) /\ e = events[1] /\ 1 \in DOMAIN events
    BY <1>2, EventIds DEF IInv, Drops
<1>4. conns \in [Conn -> KindOrNone] /\ e.id \in opened /\ e.id \in Conn
    BY <1>3 DEF IInv, TypeOK, AnEvent
<1>5. \/ e.type # "closed" /\ conns' = [conns EXCEPT ![e.id] = e.type]
      \/ e.type = "closed" /\ conns' = [conns EXCEPT ![e.id] = "none"]
    BY DEF Loop, HandleEstablished, HandleUpgraded, HandleClosed, Takes
<1>6. ClosedAreGone' /\ CloseFollows'
    BY <1>1, <1>2, Remaining
<1>7. \A c, T : Queued(c, T) /\ ~(e.id = c /\ e.type \in T) => Queued(c, T)'
    BY <1>1, <1>2, Remaining
<1>8. e.type \in Kind \cup {"closed"}
    BY <1>3 DEF AnEvent
<1> HIDE DEF e
<1>9. CASE e.type # "closed"
    <2>1. Entries' = Entries \cup {e.id}
        BY <1>4, <1>5, <1>8, <1>9 DEF Entries, Kind
    <2>2. EntriesOpened' /\ SnapshotIsOld'
        BY <1>1, <1>4, <2>1 DEF IInv, EntriesOpened, SnapshotIsOld
    <2>3. LiveIsKnown'
        BY <1>1, <1>7, <2>1 DEF IInv, LiveIsKnown
    <2>4. NoGhost'
        <3>1. e.id \in socket \/ e.id \in missed \/ Queued(e.id, {"closed"})
            BY <1>3, <1>9 DEF IInv, CloseFollows, Queued, Event
        <3>. QED
            BY <1>1, <1>7, <1>9, <2>1, <3>1 DEF IInv, NoGhost
    <2>. QED
        BY <1>6, <2>2, <2>3, <2>4 DEF IInv
<1>10. CASE e.type = "closed"
    <2>1. Entries' = Entries \ {e.id}
        BY <1>4, <1>5, <1>10 DEF Entries
    <2>2. EntriesOpened' /\ SnapshotIsOld'
        BY <1>1, <2>1 DEF IInv, EntriesOpened, SnapshotIsOld
    <2>3. LiveIsKnown'
        <3>1. e.id \notin socket
            BY <1>3, <1>10 DEF IInv, ClosedAreGone
        <3>. QED
            BY <1>1, <1>7, <1>10, <2>1, <3>1 DEF IInv, LiveIsKnown
    <2>4. NoGhost'
        BY <1>1, <1>7, <2>1 DEF IInv, NoGhost
    <2>. QED
        BY <1>6, <2>2, <2>3, <2>4 DEF IInv
<1>. QED
    BY <1>9, <1>10

\* A skipped event is remembered as missed.
LEMMA LagStep == IInv /\ TypeOK' /\ Lag => IInv'
<1>. SUFFICES ASSUME IInv, TypeOK', Lag PROVE IInv'
    OBVIOUS
<1>1. /\ events # <<>> /\ events' = Tail(events) /\ missed' = missed \cup {Head(events).id}
      /\ UNCHANGED <<socket, opened, conns, pc, snapshot>>
    BY DEF Lag, mapVars, taskVars
<1>2. Drops
    BY <1>1, TakingDrops DEF IInv
<1>3. /\ ClosedAreGone' /\ CloseFollows'
      /\ \A c, T : Queued(c, T) /\ Head(events).id # c => Queued(c, T)'
    BY <1>1, <1>2, Remaining
<1>4. Entries' = Entries
    BY <1>1 DEF Entries
<1>5. EntriesOpened' /\ SnapshotIsOld'
    BY <1>1, <1>4 DEF IInv, EntriesOpened, SnapshotIsOld
<1>6. LiveIsKnown' /\ NoGhost'
    BY <1>1, <1>3, <1>4 DEF IInv, LiveIsKnown, NoGhost
<1>. QED
    BY <1>3, <1>5, <1>6 DEF IInv

\* Every step keeps the invariant.
LEMMA InvStep == IInv /\ [Next]_vars => IInv'
<1>. SUFFICES ASSUME IInv, [Next]_vars PROVE IInv'
    OBVIOUS
<1>0. TypeOK /\ TypeOK'
    BY TypeStep DEF IInv
<1>. USE DEF mapVars, taskVars, Goes
<1>1. CASE Swarm
    <2>1. ASSUME NEW c \in Conn, NEW k \in {"relayed", "internet"}, Open(c, k) PROVE IInv'
        <3> DEFINE s == <<Event(k, c)>>
        <3>1. s \in Seq(AnEvent(Conn)) /\ Opened(c) /\ events' = events \o s
            BY <1>0, <2>1 DEF Open, Event, AnEvent, Kind, TypeOK
        <3>2. DOMAIN s = {1} /\ s[1].type = k /\ s[1].id = c
            BY DEF Event
        <3>. HIDE DEF s
        <3>3. Adds(s)
            BY <1>0, <3>1, Broadcast
        <3>. QED
            BY <1>0, <3>1, <3>2, <3>3, OpenedStep
    <2>2. ASSUME NEW c \in Conn,
                 NEW order \in {<<"internet", "direct">>, <<"direct", "internet">>},
                 OpenPunched(c, order)
          PROVE  IInv'
        <3> DEFINE s == [i \in 1..2 |-> Event(order[i], c)]
        <3>1. s \in Seq(AnEvent(Conn)) /\ Opened(c) /\ events' = events \o s
            BY <2>2 DEF OpenPunched, Event, AnEvent, Kind
        <3>2. /\ \A j \in DOMAIN s : s[j].type # "closed" /\ s[j].id = c
              /\ \E j \in DOMAIN s : s[j].type \in {"relayed", "internet"}
            BY DEF Event
        <3>. HIDE DEF s
        <3>3. Adds(s)
            BY <1>0, <3>1, Broadcast
        <3>. QED
            BY <1>0, <3>1, <3>2, <3>3, OpenedStep
    <2>3. ASSUME NEW c \in Conn, Close(c) PROVE IInv'
        <3> DEFINE s == <<Event("closed", c)>>
        <3>1. s \in Seq(AnEvent(Conn)) /\ events' = events \o s
            BY <1>0, <2>3 DEF Close, Event, AnEvent, TypeOK
        <3>2. DOMAIN s = {1} /\ s[1] = Event("closed", c) /\ s[1].type = "closed" /\ s[1].id = c
            BY DEF Event
        <3>3. {c} \subseteq opened /\ socket' = socket \ {c}
              /\ UNCHANGED <<opened, conns, snapshot, missed, pc>>
            BY <1>0, <2>3 DEF Close, TypeOK
        <3>. HIDE DEF s
        <3>4. Adds(s)
            BY <1>0, <3>1, Broadcast
        <3>. QED
            <4> DEFINE gone == {c}
            <4>1. /\ \A j \in DOMAIN s : s[j].type = "closed" /\ s[j].id \in gone
                  /\ \A d \in gone \cap socket : \E j \in DOMAIN s : s[j] = Event("closed", d)
                  /\ gone \subseteq opened /\ socket' = socket \ gone
                BY <3>2, <3>3
            <4>. HIDE DEF gone
            <4>. QED
                BY <1>0, <3>3, <3>4, <4>1, ClosedStep
    <2>. QED
        BY <1>0, <1>1, <2>1, <2>2, <2>3, LagStep DEF Swarm
<1>2. CASE Loop
    BY <1>0, <1>2, LoopStep
<1>3. ASSUME Disconnected, UNCHANGED <<opened, conns, snapshot, missed>>,
             pc'["ticker"] = "demote" => pc["ticker"] = "demote"
      PROVE  IInv'
    <2> DEFINE s == SetToSeq({Event("closed", c) : c \in socket})
    <2>1. socket' = socket \ socket /\ socket \subseteq opened /\ events' = events \o s
        BY <1>0, <1>3 DEF Disconnected, TypeOK
    <2>2. /\ s \in Seq(AnEvent(opened))
          /\ \A i \in DOMAIN s : s[i].type = "closed" /\ s[i].id \in socket
          /\ \A c \in socket : \E i \in DOMAIN s : s[i] = Event("closed", c)
        BY <1>0, Closes
    <2>. HIDE DEF s
    <2>3. s \in Seq(AnEvent(Conn))
        <3>1. AnEvent(opened) \subseteq AnEvent(Conn)
            BY <1>0 DEF TypeOK, AnEvent
        <3>. QED
            BY <2>2, <3>1, Wider
    <2>4. Adds(s)
        BY <1>0, <2>1, <2>3, Broadcast
    <2>. QED
        BY <1>0, <1>3, <2>1, <2>2, <2>4, ClosedStep
<1>4. CASE Ticker
    <2>1. CASE DropSockets
        BY <1>0, <1>3, <2>1 DEF DropSockets, TypeOK, Task
    <2>2. CASE ProbeOffline
        BY <1>0, <2>2, QuietStep DEF ProbeOffline, TypeOK, Task
    <2>3. CASE TakeSnapshot
        <3>1. snapshot' = Entries /\ pc'["ticker"] = "probe"
            BY <1>0, <2>3 DEF TakeSnapshot, TypeOK, Task
        <3>2. UNCHANGED <<socket, opened, events, conns, missed>>
            BY <2>3 DEF TakeSnapshot
        <3>3. ClosedAreGone' /\ CloseFollows' /\ LiveIsKnown' /\ NoGhost'
            BY <3>2 DEF IInv, ClosedAreGone, CloseFollows, LiveIsKnown, NoGhost, Entries, Queued
        <3>4. EntriesOpened' /\ SnapshotIsOld'
            BY <3>1, <3>2 DEF IInv, EntriesOpened, Entries, SnapshotIsOld
        <3>. QED
            BY <1>0, <3>3, <3>4 DEF IInv
    <2>4. CASE CheckLive
        <3>1. /\ snapshot' \subseteq snapshot
              /\ pc'["ticker"] = "demote" => socket = {}
            BY <1>0, <2>4 DEF CheckLive, TypeOK, Task
        <3>2. UNCHANGED <<socket, opened, events, conns, missed>>
            BY <2>4 DEF CheckLive
        <3>3. ClosedAreGone' /\ CloseFollows' /\ LiveIsKnown' /\ NoGhost'
            BY <3>2 DEF IInv, ClosedAreGone, CloseFollows, LiveIsKnown, NoGhost, Entries, Queued
        <3>4. EntriesOpened' /\ SnapshotIsOld'
            BY <3>1, <3>2 DEF IInv, EntriesOpened, Entries, SnapshotIsOld
        <3>. QED
            BY <1>0, <3>3, <3>4 DEF IInv
    <2>5. CASE Demote
        <3>1. snapshot \cap socket = {} /\ snapshot' = {} /\ pc'["ticker"] = "refresh"
            BY <1>0, <2>5 DEF Demote, IInv, SnapshotIsOld, TypeOK, Task
        <3>2. UNCHANGED <<socket, opened, events, missed>>
            BY <2>5 DEF Demote
        <3>3. Entries' = Entries \ snapshot
            BY <2>5 DEF Demote, Entries
        <3>4. ClosedAreGone' /\ CloseFollows'
            BY <3>2 DEF IInv, ClosedAreGone, CloseFollows
        <3>5. LiveIsKnown' /\ NoGhost'
            BY <3>1, <3>2, <3>3 DEF IInv, LiveIsKnown, NoGhost, Queued
        <3>6. EntriesOpened' /\ SnapshotIsOld'
            BY <3>1, <3>2, <3>3 DEF IInv, EntriesOpened, SnapshotIsOld
        <3>. QED
            BY <1>0, <3>4, <3>5, <3>6 DEF IInv
    <2>. QED
        BY <1>4, <2>1, <2>2, <2>3, <2>4, <2>5 DEF Ticker
<1>5. CASE Tick
    BY <1>0, <1>5, QuietStep DEF Tick, TypeOK, Task
<1>6. ASSUME NEW t \in Task, Refresh(t) PROVE IInv'
    BY <1>0, <1>6, QuietStep DEF Refresh, RefreshRead, WritePresence, WriteMeta, TypeOK, Task
<1>7. ASSUME NEW t \in Task, Wipe(t) PROVE IInv'
    BY <1>0, <1>7, QuietStep DEF Wipe, TypeOK, Task
<1>8. ASSUME NEW t \in Task, WipeOn(t) PROVE IInv'
    <2>1. CASE WipePresence(t) \/ WipeMeta(t)
        BY <1>0, <2>1, QuietStep DEF WipePresence, WipeMeta, TypeOK, Task
    <2>2. CASE WipeConns(t)
        <3>1. /\ Entries' = {} /\ missed' = missed \cup Entries
              /\ UNCHANGED <<socket, opened, events, snapshot>>
              /\ pc'["ticker"] = "demote" => pc["ticker"] = "demote"
            BY <1>0, <2>2 DEF WipeConns, Entries, TypeOK, Task
        <3>2. ClosedAreGone' /\ CloseFollows'
            BY <3>1 DEF IInv, ClosedAreGone, CloseFollows
        <3>3. LiveIsKnown' /\ NoGhost'
            BY <3>1 DEF IInv, LiveIsKnown, NoGhost, Queued
        <3>4. EntriesOpened' /\ SnapshotIsOld'
            BY <3>1 DEF IInv, EntriesOpened, SnapshotIsOld
        <3>. QED
            BY <1>0, <3>2, <3>3, <3>4 DEF IInv
    <2>. QED
        BY <1>8, <2>1, <2>2 DEF WipeOn
<1>9. CASE DisconnectPeer
    BY <1>0, <1>3, <1>9 DEF DisconnectPeer, TypeOK, Task
<1>10. CASE AddAgain
    BY <1>0, <1>10, QuietStep DEF AddAgain
<1>11. CASE UNCHANGED vars
    BY <1>0, <1>11, QuietStep DEF vars
<1>. QED
    BY <1>1, <1>2, <1>4, <1>5, <1>6, <1>7, <1>8, <1>9, <1>10, <1>11 DEF Next

\* The invariant holds in every reachable state.
THEOREM InvCorrect == Spec => []IInv
<1>1. Init => IInv
    <2>. SUFFICES ASSUME Init PROVE IInv
        OBVIOUS
    <2>1. TypeOK
        BY PresenceAssumption DEF Init, TypeOK, KindOrNone, Kind
    <2>2. Entries = {} /\ DOMAIN events = {}
        BY DEF Init, Entries
    <2>. QED
        BY <2>1, <2>2 DEF Init, IInv, ClosedAreGone, CloseFollows, EntriesOpened, SnapshotIsOld,
            LiveIsKnown, NoGhost, Task
<1>. QED
    BY <1>1, InvStep, PTL DEF Spec

\* A connection that is up is known or about to be: no demotion of the ticker and no
\* wipe loses one unnoticed (handle_disconnected, run_presence_ticker, wipe_conversation).
THEOREM LiveIsKnownCorrect == Spec => []LiveIsKnown
<1>1. IInv => LiveIsKnown
    BY DEF IInv
<1>. QED
    BY <1>1, InvCorrect, PTL

\* An entry whose connection is gone is about to be removed (the connections map of
\* app.rs holds no ghost but of a skipped event).
THEOREM NoGhostCorrect == Spec => []NoGhost
<1>1. IInv => NoGhost
    BY DEF IInv
<1>. QED
    BY <1>1, InvCorrect, PTL
=============================================================================
