------------------------------ MODULE Presence ------------------------------
(***************************************************************************)
(* What a node believes about its connections to one contact.  The swarm    *)
(* task opens and closes connections and announces that on a broadcast     *)
(* channel; the event loop, the presence ticker and the user's             *)
(* delete_contact keep three maps about it, each behind a lock of its own: *)
(* connections (authoritative), presence and connection_meta (derived).    *)
(***************************************************************************)
EXTENDS Naturals, FiniteSets, Sequences, SequencesExt

CONSTANTS
    Conn,          \* ConnectionIds, never reused
    MaxLags,       \* bound: events a lagging receiver skips
    MaxWipes       \* bound: times the contact is wiped and added again

ASSUME PresenceAssumption ==
    /\ IsFiniteSet(Conn)
    /\ MaxLags \in Nat
    /\ MaxWipes \in Nat

VARIABLES
    socket,     \* the swarm's live connections to the contact
    opened,     \* ids used so far
    events,     \* NetEvents on their way to the event loop
    conns,      \* connections: the kind of every entry, "none": no entry
    presence,   \* presence: kind, "none": no entry
    meta,       \* connection_meta: kind of the connection described, "none": no entry
    accepted,   \* is there an Accepted contact row
    pc,         \* where each task is
    best,       \* what a task's refresh_presence has read
    snapshot,   \* ids the ticker saw before it asked the swarm
    missed,     \* history: ids that lost an event to a lag or their entry to a wipe
    lags, wipes

mapVars == <<conns, presence, meta>>
taskVars == <<pc, best, snapshot>>
vars == <<socket, opened, events, conns, presence, meta, accepted, pc, best, snapshot,
          missed, lags, wipes>>

\* ConnectionKind without Lan, which ranks between Internet and Direct and is set and
\* cleared like Internet, and without Connecting, which no entry has.
Kind == {"relayed", "internet", "direct"}
KindOrNone == Kind \cup {"none"}
Task == {"loop", "ticker", "user"}

Event(type, c) == [type |-> type, id |-> c]

\* connection_kind_precedence
Precedence(k) ==
    CASE k = "direct" -> 5
      [] k = "internet" -> 3
      [] k = "relayed" -> 2
      [] OTHER -> 0

Entries == {c \in Conn : conns[c] # "none"}

\* best_conn
BestConn ==
    IF Entries = {} THEN "offline"
    ELSE CHOOSE k \in {conns[c] : c \in Entries} :
             \A c \in Entries : Precedence(conns[c]) <= Precedence(k)

------------------------------------------------------------------------------
(* The swarm *)

Opened(c) ==
    /\ c \notin opened
    /\ socket' = socket \cup {c}
    /\ opened' = opened \cup {c}
    /\ UNCHANGED <<mapVars, accepted, taskVars, missed, lags, wipes>>

Open(c, k) ==
    /\ Opened(c)
    /\ events' = Append(events, Event(k, c))

\* A hole punch next to a relayed connection: established as Internet, and its
\* ConnectionUpgraded before or after that.
OpenPunched(c, order) ==
    /\ Opened(c)
    /\ events' = events \o [i \in 1..2 |-> Event(order[i], c)]

Close(c) ==
    /\ c \in socket
    /\ socket' = socket \ {c}
    /\ events' = Append(events, Event("closed", c))
    /\ UNCHANGED <<opened, mapVars, accepted, taskVars, missed, lags, wipes>>

\* The receiver lags behind the broadcast channel and skips its oldest event.
Lag ==
    /\ lags < MaxLags
    /\ events # <<>>
    /\ lags' = lags + 1
    /\ missed' = missed \cup {Head(events).id}
    /\ events' = Tail(events)
    /\ UNCHANGED <<socket, opened, mapVars, accepted, taskVars, wipes>>

\* Disconnect: every connection to the peer is closed.
Disconnected ==
    /\ socket' = {}
    /\ events' = events \o SetToSeq({Event("closed", c) : c \in socket})

------------------------------------------------------------------------------
(* The event loop: one NetEvent changes connections, then refresh_presence *)

Goes(t, step) == pc' = [pc EXCEPT ![t] = step]

\* The loop takes the next event, if it is one of these.
Takes(types) ==
    /\ pc["loop"] = "idle"
    /\ events # <<>>
    /\ Head(events).type \in types
    /\ events' = Tail(events)
    /\ Goes("loop", "refresh")
    /\ UNCHANGED <<socket, opened, presence, meta, accepted, best, snapshot, missed, lags, wipes>>

HandleEstablished ==
    /\ Takes({"relayed", "internet"})
    /\ conns' = [conns EXCEPT ![Head(events).id] = Head(events).type]

\* The entry is made if ConnectionUpgraded comes first.
HandleUpgraded ==
    /\ Takes({"direct"})
    /\ conns' = [conns EXCEPT ![Head(events).id] = "direct"]

\* Mutant: a close is ignored while another connection survives.
HandleClosedLastOnly ==
    /\ Takes({"closed"})
    /\ conns' = IF Entries \subseteq {Head(events).id}
                THEN [conns EXCEPT ![Head(events).id] = "none"] ELSE conns

HandleClosed ==
    /\ Takes({"closed"})
    /\ conns' = [conns EXCEPT ![Head(events).id] = "none"]

------------------------------------------------------------------------------
(* refresh_presence, by the event loop and by the ticker: read connections, write *)
(* presence, write connection_meta, each under its own lock                       *)

RefreshRead(t) ==
    /\ pc[t] = "refresh"
    /\ best' = [best EXCEPT ![t] = BestConn]
    /\ Goes(t, "presence")
    /\ UNCHANGED <<socket, opened, events, mapVars, accepted, snapshot, missed, lags, wipes>>

Shown(kind) == IF kind = "offline" THEN "none" ELSE kind

\* Mutant: Offline is stored instead of the entry removed.
WritePresenceStores(t) ==
    /\ pc[t] = "presence"
    /\ presence' = best[t]
    /\ Goes(t, "meta")
    /\ UNCHANGED <<socket, opened, events, conns, meta, accepted, best, snapshot, missed, lags,
                   wipes>>

WritePresence(t) ==
    /\ pc[t] = "presence"
    /\ presence' = Shown(best[t])
    /\ Goes(t, "meta")
    /\ UNCHANGED <<socket, opened, events, conns, meta, accepted, best, snapshot, missed, lags,
                   wipes>>

WriteMeta(t) ==
    /\ pc[t] = "meta"
    /\ meta' = Shown(best[t])
    /\ best' = [best EXCEPT ![t] = "offline"]
    /\ Goes(t, "idle")
    /\ UNCHANGED <<socket, opened, events, conns, presence, accepted, snapshot, missed, lags,
                   wipes>>

------------------------------------------------------------------------------
(* The presence ticker, at an Accepted contact *)

\* The arms for Relayed and for the other kinds do the same about presence.
Tick ==
    /\ pc["ticker"] = "idle"
    /\ accepted
    /\ Goes("ticker", IF presence = "none" THEN "probe_offline" ELSE "snapshot")
    /\ UNCHANGED <<socket, opened, events, mapVars, accepted, best, snapshot, missed, lags, wipes>>

\* Mutant: an Offline contact is dialled only, which a live socket makes a no-op.
ProbeOfflineDials ==
    /\ pc["ticker"] = "probe_offline"
    /\ Goes("ticker", "idle")
    /\ UNCHANGED <<socket, opened, events, mapVars, accepted, best, snapshot, missed, lags, wipes>>

\* Offline, but the swarm has a connection: it is to be dropped and dialled afresh.
ProbeOffline ==
    /\ pc["ticker"] = "probe_offline"
    /\ Goes("ticker", IF socket = {} THEN "idle" ELSE "drop")
    /\ UNCHANGED <<socket, opened, events, mapVars, accepted, best, snapshot, missed, lags, wipes>>

DropSockets ==
    /\ pc["ticker"] = "drop"
    /\ Disconnected
    /\ Goes("ticker", "idle")
    /\ UNCHANGED <<opened, mapVars, accepted, best, snapshot, missed, lags, wipes>>

TakeSnapshot ==
    /\ pc["ticker"] = "snapshot"
    /\ snapshot' = Entries
    /\ Goes("ticker", "probe")
    /\ UNCHANGED <<socket, opened, events, mapVars, accepted, best, missed, lags, wipes>>

\* check_live, answered by the swarm.
CheckLive ==
    /\ pc["ticker"] = "probe"
    /\ Goes("ticker", IF socket = {} THEN "demote" ELSE "idle")
    /\ snapshot' = IF socket = {} THEN snapshot ELSE {}
    /\ UNCHANGED <<socket, opened, events, mapVars, accepted, best, missed, lags, wipes>>

\* Mutant: every entry goes, not only those seen before the check.
DemoteAll ==
    /\ pc["ticker"] = "demote"
    /\ conns' = [c \in Conn |-> "none"]
    /\ snapshot' = {}
    /\ Goes("ticker", "refresh")
    /\ UNCHANGED <<socket, opened, events, presence, meta, accepted, best, missed, lags, wipes>>

Demote ==
    /\ pc["ticker"] = "demote"
    /\ conns' = [c \in Conn |-> IF c \in snapshot THEN "none" ELSE conns[c]]
    /\ snapshot' = {}
    /\ Goes("ticker", "refresh")
    /\ UNCHANGED <<socket, opened, events, presence, meta, accepted, best, missed, lags, wipes>>

------------------------------------------------------------------------------
(* wipe_conversation, by delete_contact or by an inbound ChatDeleted *)

Wipe(t) ==
    /\ t \in {"user", "loop"}
    /\ pc[t] = "idle"
    /\ accepted
    /\ wipes < MaxWipes
    /\ wipes' = wipes + 1
    /\ accepted' = FALSE
    /\ Goes(t, "wipe_presence")
    /\ UNCHANGED <<socket, opened, events, mapVars, best, snapshot, missed, lags>>

WipePresence(t) ==
    /\ pc[t] = "wipe_presence"
    /\ presence' = "none"
    /\ Goes(t, "wipe_conns")
    /\ UNCHANGED <<socket, opened, events, conns, meta, accepted, best, snapshot, missed, lags,
                   wipes>>

WipeConns(t) ==
    /\ pc[t] = "wipe_conns"
    /\ conns' = [c \in Conn |-> "none"]
    /\ missed' = missed \cup Entries
    /\ Goes(t, "wipe_meta")
    /\ UNCHANGED <<socket, opened, events, presence, meta, accepted, best, snapshot, lags, wipes>>

\* delete_contact goes on to flush and to drop the connection.
WipeMeta(t) ==
    /\ pc[t] = "wipe_meta"
    /\ meta' = "none"
    /\ Goes(t, IF t = "user" THEN "disconnect" ELSE "idle")
    /\ UNCHANGED <<socket, opened, events, conns, presence, accepted, best, snapshot, missed,
                   lags, wipes>>

DisconnectPeer ==
    /\ pc["user"] = "disconnect"
    /\ Disconnected
    /\ Goes("user", "idle")
    /\ UNCHANGED <<opened, mapVars, accepted, best, snapshot, missed, lags, wipes>>

\* The contact is added again, over a connection that may have survived.
AddAgain ==
    /\ ~accepted
    /\ pc["user"] \in {"idle", "disconnect"}
    /\ accepted' = TRUE
    /\ UNCHANGED <<socket, opened, events, mapVars, taskVars, missed, lags, wipes>>

------------------------------------------------------------------------------

Init ==
    /\ socket = {}
    /\ opened = {}
    /\ events = <<>>
    /\ conns = [c \in Conn |-> "none"]
    /\ presence = "none"
    /\ meta = "none"
    /\ accepted = TRUE
    /\ pc = [t \in Task |-> "idle"]
    /\ best = [t \in Task |-> "offline"]
    /\ snapshot = {}
    /\ missed = {}
    /\ lags = 0
    /\ wipes = 0

Swarm ==
    \/ \E c \in Conn :
        \/ \E k \in {"relayed", "internet"} : Open(c, k)
        \/ \E order \in {<<"internet", "direct">>, <<"direct", "internet">>} :
               OpenPunched(c, order)
        \/ Close(c)
    \/ Lag

Loop == HandleEstablished \/ HandleUpgraded \/ HandleClosed

Refresh(t) == RefreshRead(t) \/ WritePresence(t) \/ WriteMeta(t)

Ticker == ProbeOffline \/ DropSockets \/ TakeSnapshot \/ CheckLive \/ Demote

WipeOn(t) == WipePresence(t) \/ WipeConns(t) \/ WipeMeta(t)

Next ==
    \/ Swarm
    \/ Loop
    \/ Tick \/ Ticker
    \/ \E t \in Task : Refresh(t) \/ Wipe(t) \/ WipeOn(t)
    \/ DisconnectPeer
    \/ AddAgain

Spec == Init /\ [][Next]_vars

\* Every task runs on, and the ticker comes round again: every 30 s, for an Offline
\* contact whenever its backoff, at most ten minutes, has passed.
Fairness ==
    /\ WF_vars(Loop)
    /\ WF_vars(Tick)
    /\ WF_vars(Ticker)
    /\ \A t \in Task : WF_vars(Refresh(t)) /\ WF_vars(WipeOn(t))
    /\ WF_vars(DisconnectPeer)

FairSpec == Spec /\ Fairness

------------------------------------------------------------------------------
(* Properties *)

\* Every variable keeps its type; no map ever holds a row that says Offline
\* (refresh_presence removes instead).
TypeOK ==
    /\ socket \subseteq opened
    /\ opened \subseteq Conn
    /\ events \in Seq([type : Kind \cup {"closed"}, id : opened])
    /\ conns \in [Conn -> KindOrNone]
    /\ presence \in KindOrNone
    /\ meta \in KindOrNone
    /\ accepted \in BOOLEAN
    /\ pc \in [Task -> {"idle", "refresh", "presence", "meta", "probe_offline", "drop",
                        "snapshot", "probe", "demote", "wipe_presence", "wipe_conns",
                        "wipe_meta", "disconnect"}]
    /\ best \in [Task -> Kind \cup {"offline"}]
    /\ snapshot \subseteq Conn
    /\ missed \subseteq Conn
    /\ lags \in 0..MaxLags
    /\ wipes \in 0..MaxWipes

Queued(c, types) == \E i \in DOMAIN events : events[i].id = c /\ events[i].type \in types

\* A connection that is up has its entry or its ConnectionEstablished is on its way: the
\* ticker's demotion, which acts on a check that is over, never removes a connection that
\* came up meanwhile.
LiveIsKnown ==
    \A c \in socket \ missed : c \in Entries \/ Queued(c, {"relayed", "internet"})

\* An entry whose connection is gone has its ConnectionClosed on its way, whatever was
\* wiped or upgraded in between; only a skipped event can leave a ghost.
NoGhost ==
    \A c \in Entries \ socket : Queued(c, {"closed"}) \/ c \in missed

\* Once connections stop changing, an accepted contact is shown online just when there is
\* a connection to it: no race, skipped event or wipe strands it.
PresenceSettles == <>[](accepted => (presence = "none" <=> socket = {}))
=============================================================================
