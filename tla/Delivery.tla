------------------------------ MODULE Delivery ------------------------------
(***************************************************************************)
(* One direction of one conversation: a sender's outbox (message rows,     *)
(* sync_queue, push_one, drain_queue_for_peer, the sender half of          *)
(* kick_sync_for_peer) and its recipient's inbox (handle_msg, the          *)
(* recipient half of kick_sync_for_peer), with calls that fail, arrive     *)
(* late or are answered too late, and crashes of either process.  The      *)
(* other direction is a second copy that shares no row with this one.      *)
(*                                                                         *)
(* Durable: status, queue (sender's database), inbox, contact              *)
(* (recipient's database).  Everything else dies with its process.         *)
(***************************************************************************)
EXTENDS Naturals, FiniteSets, FiniteSetsExt

CONSTANTS
    MaxMsg,        \* messages, numbered in the order of their UUIDv7 ids
    Loop,          \* the sender's event loop, draining on a peer's return
    Tickers,       \* tasks draining what is due: the presence ticker
    PullLimit,     \* SYNC_PULL_LIMIT
    MaxPages,      \* SYNC_MAX_PULL_PAGES
    MaxCrashes     \* bound on the crashes of a behaviour

ASSUME DeliveryAssumption ==
    /\ MaxMsg \in Nat
    /\ PullLimit \in Nat \ {0}
    /\ MaxPages \in Nat \ {0}
    /\ MaxCrashes \in Nat
    /\ Loop \notin Tickers
    /\ {"push", "gone"} \cap ({Loop} \cup Tickers) = {}

VARIABLES
    status,     \* sender's message rows
    queue,      \* sender's sync_queue rows
    inbox,      \* recipient's message rows
    contact,    \* recipient's contact status for the sender
    muted,      \* history: messages acknowledged and dropped while blocked
    push,       \* push_one tasks waiting for their send
    pc,         \* where each draining task is
    todo,       \* the rows a drain has read and not yet tried
    cur,        \* the row a drain is trying (0: none)
    wire,       \* send_msg requests and acks in flight
    skPc,       \* sender's kick_sync: where it is
    skBound,    \* ... the highest_inbound the recipient reported
    promoted,   \* ... rows promoted, still to be removed from the queue
    rkPc,       \* recipient's kick_sync: where it is
    base,       \* history: the highest inbound id its kick started from
    since,      \* ... the id its next Pull asks after
    theirs,     \* ... the highest_outbound the sender reported
    page,       \* ... the envelopes of the Pull answer
    pages,      \* ... Pulls made
    fresh,      \* ... ids newly stored, to be confirmed by Ack
    skipped,    \* history: ... ids it has stepped over, their envelopes not ingested
    confirm,    \* ids of sync Acks on their way to the sender
    crashes     \* bound: crashes so far

rowVars == <<status, queue>>
inboxVars == <<inbox, contact, muted>>
drainVars == <<pc, todo, cur>>
skVars == <<skPc, skBound, promoted>>
rkVars == <<rkPc, base, since, theirs, page, pages, fresh, skipped>>
vars == <<status, queue, inbox, contact, muted, push, pc, todo, cur, wire, skPc, skBound,
          promoted, rkPc, base, since, theirs, page, pages, fresh, skipped, confirm,
          crashes>>

MsgId == 1..MaxMsg
MsgIdOrZero == 0..MaxMsg       \* 0: Option::None
Status == {"none", "sending", "delivered", "synced"}
Drainer == {Loop} \cup Tickers

\* A call is named by the task that waits for it; "gone": nobody waits any more.
Call == [by : Drainer \cup {"push", "gone"}, id : MsgId, leg : {"request", "ack"}]

Sent == {m \in MsgId : status[m] # "none"}

\* highest_inbound, highest_outbound: the high-water mark, 0 when there is no row.
Highest(ids) == IF ids = {} THEN 0 ELSE Max(ids)

\* The event loop is one task and awaits every send of a drain, so nothing that
\* reaches the sender is handled meanwhile.
LoopFree == pc[Loop] = "idle"

------------------------------------------------------------------------------
(* Statements on the databases, each a transaction of its own *)

WithStatus(m, new) == [status EXCEPT ![m] = new]    \* update_status: unconditional
Enqueued(m) == queue \cup {m}                       \* enqueue: kept if already there
Dequeued(m) == queue \ {m}                          \* remove
Stored(ms) == inbox \cup ms                         \* insert: INSERT OR IGNORE

\* What `due` may return: every row when the event loop asks (before = i64::MAX), the
\* rows whose next_retry_at has come when a ticker does.
DueRows(d) == IF d = Loop THEN {queue} ELSE SUBSET queue \ {{}}

------------------------------------------------------------------------------
(* Calls *)

Request(by, m) == [by |-> by, id |-> m, leg |-> "request"]
Ack(by, m) == [by |-> by, id |-> m, leg |-> "ack"]

\* The task stops waiting (error, refusal or timeout).  Its request may still be on
\* its way or in the recipient's event queue; an answer finds no pending slot.
Abandoned(by, m) ==
    {c \in wire : ~(c.by = by /\ c.id = m)}
        \cup (IF Request(by, m) \in wire THEN {Request("gone", m)} ELSE {})

\* respond_msg: an answer for a call nobody waits for is dropped.
Answered(c) ==
    (wire \ {c}) \cup (IF c.by = "gone" THEN {} ELSE {Ack(c.by, c.id)})

------------------------------------------------------------------------------
(* The sender: send_message and push_one *)

\* send_message: the row is inserted as Sending and a task is spawned to push it.
SendMessage(m) ==
    /\ status[m] = "none"
    /\ \A k \in 1..(m - 1) : status[k] # "none"
    /\ status' = [status EXCEPT ![m] = "sending"]
    /\ push' = push \cup {m}
    /\ wire' = wire \cup {Request("push", m)}
    /\ UNCHANGED <<queue, inboxVars, drainVars, skVars, rkVars, confirm, crashes>>

PushAcked(m) ==
    /\ m \in push
    /\ Ack("push", m) \in wire
    /\ status' = WithStatus(m, "delivered")
    /\ push' = push \ {m}
    /\ wire' = wire \ {Ack("push", m)}
    /\ UNCHANGED <<queue, inboxVars, drainVars, skVars, rkVars, confirm, crashes>>

\* Mutant: the failed push gives up instead of queueing the row.
PushFailedUnqueued(m) ==
    /\ m \in push
    /\ push' = push \ {m}
    /\ wire' = Abandoned("push", m)
    /\ UNCHANGED <<rowVars, inboxVars, drainVars, skVars, rkVars, confirm, crashes>>

\* Refused, failed or timed out: queued for retry, whatever the row has become.
PushFailed(m) ==
    /\ m \in push
    /\ queue' = Enqueued(m)
    /\ push' = push \ {m}
    /\ wire' = Abandoned("push", m)
    /\ UNCHANGED <<status, inboxVars, drainVars, skVars, rkVars, confirm, crashes>>

------------------------------------------------------------------------------
(* The sender: drain_queue_for_peer *)

\* The event loop reads every row, the ticker those whose next_retry_at has come.
DrainStart(d, due) ==
    /\ pc[d] = "idle"
    /\ due \in DueRows(d)
    /\ pc' = [pc EXCEPT ![d] = "next"]
    /\ todo' = [todo EXCEPT ![d] = due]
    /\ UNCHANGED <<rowVars, inboxVars, push, cur, wire, skVars, rkVars, confirm, crashes>>

\* Mutant: the row is removed when it is sent and not put back when the send fails.
DrainSendClaims(d, m) ==
    /\ pc[d] = "next"
    /\ m \in todo[d]
    /\ pc' = [pc EXCEPT ![d] = "waiting"]
    /\ todo' = [todo EXCEPT ![d] = @ \ {m}]
    /\ cur' = [cur EXCEPT ![d] = m]
    /\ wire' = wire \cup {Request(d, m)}
    /\ queue' = Dequeued(m)
    /\ UNCHANGED <<status, inboxVars, push, skVars, rkVars, confirm, crashes>>

\* The row is read again and sent, whatever its status.
DrainSend(d, m) ==
    /\ pc[d] = "next"
    /\ m \in todo[d]
    /\ pc' = [pc EXCEPT ![d] = "waiting"]
    /\ todo' = [todo EXCEPT ![d] = @ \ {m}]
    /\ cur' = [cur EXCEPT ![d] = m]
    /\ wire' = wire \cup {Request(d, m)}
    /\ UNCHANGED <<rowVars, inboxVars, push, skVars, rkVars, confirm, crashes>>

\* Mutant: any answer or error counts as an ack.
DrainAckedAnyway(d) ==
    /\ pc[d] = "waiting"
    /\ status' = WithStatus(cur[d], "delivered")
    /\ pc' = [pc EXCEPT ![d] = "remove"]
    /\ wire' = Abandoned(d, cur[d])
    /\ UNCHANGED <<queue, inboxVars, push, todo, cur, skVars, rkVars, confirm, crashes>>

DrainAcked(d) ==
    /\ pc[d] = "waiting"
    /\ Ack(d, cur[d]) \in wire
    /\ status' = WithStatus(cur[d], "delivered")
    /\ pc' = [pc EXCEPT ![d] = "remove"]
    /\ wire' = wire \ {Ack(d, cur[d])}
    /\ UNCHANGED <<queue, inboxVars, push, todo, cur, skVars, rkVars, confirm, crashes>>

\* A statement of its own, after the status update.
DrainRemove(d) ==
    /\ pc[d] = "remove"
    /\ queue' = Dequeued(cur[d])
    /\ pc' = [pc EXCEPT ![d] = "next"]
    /\ cur' = [cur EXCEPT ![d] = 0]
    /\ UNCHANGED <<status, inboxVars, push, todo, wire, skVars, rkVars, confirm, crashes>>

\* Mutant: a failed retry drops the row from the queue.
DrainFailedDrops(d) ==
    /\ pc[d] = "waiting"
    /\ queue' = Dequeued(cur[d])
    /\ pc' = [pc EXCEPT ![d] = "next"]
    /\ cur' = [cur EXCEPT ![d] = 0]
    /\ wire' = Abandoned(d, cur[d])
    /\ UNCHANGED <<status, inboxVars, push, todo, skVars, rkVars, confirm, crashes>>

\* Refused or failed: bump changes the row's backoff only.
DrainFailed(d) ==
    /\ pc[d] = "waiting"
    /\ pc' = [pc EXCEPT ![d] = "next"]
    /\ cur' = [cur EXCEPT ![d] = 0]
    /\ wire' = Abandoned(d, cur[d])
    /\ UNCHANGED <<rowVars, inboxVars, push, todo, skVars, rkVars, confirm, crashes>>

\* Only PeerDiscovered and ConnectionEstablished go on to spawn_kick_sync, which
\* does nothing while a kick for this peer is in flight.
DrainDone(d, kick) ==
    /\ pc[d] = "next"
    /\ todo[d] = {}
    /\ pc' = [pc EXCEPT ![d] = "idle"]
    /\ kick => d = Loop /\ skPc = "idle"
    /\ skPc' = IF kick THEN "header" ELSE skPc
    /\ UNCHANGED <<rowVars, inboxVars, push, todo, cur, wire, skBound, promoted, rkVars,
                   confirm, crashes>>

------------------------------------------------------------------------------
(* The recipient: handle_msg *)

\* Mutant: only an accepted contact's message is stored, all are acknowledged.
HandleMsgGated(c) ==
    /\ c \in wire
    /\ c.leg = "request"
    /\ inbox' = IF contact = "accepted" THEN Stored({c.id}) ELSE inbox
    /\ muted' = IF contact = "blocked" THEN muted \cup {c.id} ELSE muted
    /\ wire' = Answered(c)
    /\ UNCHANGED <<rowVars, contact, push, drainVars, skVars, rkVars, confirm, crashes>>

\* Stored once, acknowledged every time.  A blocked contact's message is
\* acknowledged and dropped.
HandleMsg(c) ==
    /\ c \in wire
    /\ c.leg = "request"
    /\ IF contact = "blocked"
       THEN /\ muted' = muted \cup {c.id}
            /\ UNCHANGED inbox
       ELSE /\ inbox' = Stored({c.id})
            /\ UNCHANGED muted
    /\ wire' = Answered(c)
    /\ UNCHANGED <<rowVars, contact, push, drainVars, skVars, rkVars, confirm, crashes>>

\* The early returns of handle_msg that answer ack=false (rate limit, size, wrong
\* PeerId, no session), and a request lost on its way or skipped by a lagging event
\* receiver: the caller, if it still waits, can only fail.
RefuseMsg(c) ==
    /\ c \in wire
    /\ c.leg = "request"
    /\ wire' = wire \ {c}
    /\ UNCHANGED <<rowVars, inboxVars, push, drainVars, skVars, rkVars, confirm, crashes>>

\* accept_request and reject_request on the pending request.  A blocked contact that
\* shakes hands again leaves a new request, which can be accepted.
AcceptRequest ==
    /\ contact # "accepted"
    /\ contact' = "accepted"
    /\ UNCHANGED <<rowVars, inbox, muted, push, drainVars, wire, skVars, rkVars, confirm, crashes>>

RejectRequest ==
    /\ contact = "pending_in"
    /\ contact' = "blocked"
    /\ UNCHANGED <<rowVars, inbox, muted, push, drainVars, wire, skVars, rkVars, confirm, crashes>>

------------------------------------------------------------------------------
(* The sender's half of kick_sync_for_peer: Header, promote, clear the queue *)

\* The recipient's handle_sync(Header); nothing is reported to a blocked requester.
AnswerSenderHeader ==
    /\ skPc = "header"
    /\ contact # "blocked"
    /\ skBound' = Highest(inbox)
    /\ skPc' = "answered"
    /\ UNCHANGED <<rowVars, inboxVars, push, drainVars, wire, promoted, rkVars, confirm, crashes>>

\* The Header fails or its answer is empty.
SenderKickFails ==
    /\ skPc = "header"
    /\ skPc' = "idle"
    /\ UNCHANGED <<rowVars, inboxVars, push, drainVars, wire, skBound, promoted, rkVars,
                   confirm, crashes>>

\* Mutant: the bound is forgotten.
PromotableAll(bound) == {m \in Sent : status[m] # "synced"}

Promotable(bound) == {m \in Sent : m <= bound /\ status[m] # "synced"}

\* promote_outbound_synced: one UPDATE ... RETURNING.
PromoteOutboundSynced ==
    /\ skPc = "answered"
    /\ promoted' = Promotable(skBound)
    /\ status' = [m \in MsgId |-> IF m \in Promotable(skBound) THEN "synced" ELSE status[m]]
    /\ skPc' = "removing"
    /\ UNCHANGED <<queue, inboxVars, push, drainVars, wire, skBound, rkVars, confirm, crashes>>

RemovePromoted(m) ==
    /\ skPc = "removing"
    /\ m \in promoted
    /\ promoted' = promoted \ {m}
    /\ queue' = Dequeued(m)
    /\ UNCHANGED <<status, inboxVars, push, drainVars, wire, skPc, skBound, rkVars, confirm, crashes>>

SenderKickDone ==
    /\ skPc = "removing"
    /\ promoted = {}
    /\ skPc' = "idle"
    /\ skBound' = 0
    /\ UNCHANGED <<rowVars, inboxVars, push, drainVars, wire, promoted, rkVars, confirm, crashes>>

------------------------------------------------------------------------------
(* The recipient's half of kick_sync_for_peer: Header, Pull loop, Ack *)

\* Only for an accepted contact; the high-water mark is read before the Header.
RecipientKick ==
    /\ rkPc = "idle"
    /\ contact = "accepted"
    /\ base' = Highest(inbox)
    /\ since' = Highest(inbox)
    /\ rkPc' = "header"
    /\ UNCHANGED <<rowVars, inboxVars, push, drainVars, wire, skVars, theirs, page, pages,
                   fresh, skipped, confirm, crashes>>

\* The sender's handle_sync(Header).
AnswerRecipientHeader ==
    /\ rkPc = "header"
    /\ LoopFree
    /\ theirs' = Highest(Sent)
    /\ rkPc' = "answered"
    /\ UNCHANGED <<rowVars, inboxVars, push, drainVars, wire, skVars, base, since, page, pages,
                   fresh, skipped, confirm, crashes>>

RecipientIdle ==
    /\ rkPc' = "idle"
    /\ base' = 0
    /\ since' = 0
    /\ theirs' = 0
    /\ page' = {}
    /\ pages' = 0
    /\ fresh' = {}
    /\ skipped' = {}

\* need_pull
CheckHeader ==
    /\ rkPc = "answered"
    /\ IF theirs > since
       THEN /\ rkPc' = "pull"
            /\ pages' = 1
            /\ UNCHANGED <<base, since, theirs, page, fresh, skipped>>
       ELSE RecipientIdle
    /\ UNCHANGED <<rowVars, inboxVars, push, drainVars, wire, skVars, confirm, crashes>>

\* Mutant: the newest rows first.
NewestAfter(id) ==
    {m \in MsgId : /\ status[m] # "none" /\ m > id
                   /\ Cardinality({k \in Sent : k > m}) < PullLimit}

\* pull_outbound_after: the sender's rows after `id`, the lowest PullLimit of them.
After(id) == {m \in Sent : m > id}
OutboundAfter(id) == {m \in After(id) : Cardinality({k \in After(id) : k < m}) < PullLimit}

\* The sender's handle_sync(Pull).
AnswerPull ==
    /\ rkPc = "pull"
    /\ LoopFree
    /\ page' = OutboundAfter(since)
    /\ rkPc' = "page"
    /\ UNCHANGED <<rowVars, inboxVars, push, drainVars, wire, skVars, base, since, theirs,
                   pages, fresh, skipped, confirm, crashes>>

\* The ids newly stored, if any, are confirmed and the kick is over; the answer to
\* the Ack changes nothing.
FinishKick(new) ==
    /\ confirm' = confirm \cup new
    /\ RecipientIdle

\* Mutant: one Pull more than the page budget.
IngestPageOverBudget(ok) ==
    /\ rkPc = "page"
    /\ inbox' = Stored(ok)
    /\ LET new == fresh \cup (ok \ inbox)
       IN  IF Cardinality(page) = PullLimit /\ pages <= MaxPages
           THEN /\ rkPc' = "pull"
                /\ since' = Highest(page)
                /\ pages' = pages + 1
                /\ page' = {}
                /\ fresh' = new
                /\ skipped' = skipped \cup (page \ (inbox \cup ok))
                /\ UNCHANGED <<base, theirs, confirm>>
           ELSE FinishKick(new)
    /\ UNCHANGED <<rowVars, contact, muted, push, drainVars, wire, skVars, crashes>>

\* ingest_synced_envelope on every envelope of the page: those in `ok` are opened and
\* stored, the others (no session, a failed check or statement, a control payload) are
\* logged and stepped over.  Then the next Pull, after the last id of the page whatever
\* became of it, if the page was full and the page budget is not spent.
IngestPage(ok) ==
    /\ rkPc = "page"
    /\ inbox' = Stored(ok)
    /\ LET new == fresh \cup (ok \ inbox)
       IN  IF Cardinality(page) = PullLimit /\ pages < MaxPages
           THEN /\ rkPc' = "pull"
                /\ since' = Highest(page)
                /\ pages' = pages + 1
                /\ page' = {}
                /\ fresh' = new
                /\ skipped' = skipped \cup (page \ (inbox \cup ok))
                /\ UNCHANGED <<base, theirs, confirm>>
           ELSE FinishKick(new)
    /\ UNCHANGED <<rowVars, contact, muted, push, drainVars, wire, skVars, crashes>>

\* A failed Header ends the kick; a failed Pull ends the loop and confirms what the
\* earlier pages brought.
RecipientKickFails ==
    /\ rkPc \in {"header", "pull"}
    /\ FinishKick(fresh)
    /\ UNCHANGED <<rowVars, inboxVars, push, drainVars, wire, skVars, crashes>>

\* The sender's handle_sync(Ack), one id at a time.
HandleSyncAck(m) ==
    /\ m \in confirm
    /\ LoopFree
    /\ status' = WithStatus(m, "synced")
    /\ confirm' = confirm \ {m}
    /\ UNCHANGED <<queue, inboxVars, push, drainVars, wire, skVars, rkVars, crashes>>

LoseSyncAck(m) ==
    /\ m \in confirm
    /\ confirm' = confirm \ {m}
    /\ UNCHANGED <<rowVars, inboxVars, push, drainVars, wire, skVars, rkVars, crashes>>

------------------------------------------------------------------------------
(* Crash and restart: the tasks die, the databases stay *)

SenderCrash ==
    /\ crashes < MaxCrashes
    /\ crashes' = crashes + 1
    /\ push' = {}
    /\ pc' = [d \in Drainer |-> "idle"]
    /\ todo' = [d \in Drainer |-> {}]
    /\ cur' = [d \in Drainer |-> 0]
    /\ wire' = {Request("gone", c.id) : c \in {x \in wire : x.leg = "request"}}
    /\ skPc' = "idle"
    /\ skBound' = 0
    /\ promoted' = {}
    /\ confirm' = {}
    /\ UNCHANGED <<rowVars, inboxVars, rkVars>>

\* A crash in the middle of a page leaves the envelopes ingested so far.
RecipientCrash(ok) ==
    /\ crashes < MaxCrashes
    /\ crashes' = crashes + 1
    /\ inbox' = Stored(ok)
    /\ wire' = {c \in wire : c.leg = "ack"}
    /\ RecipientIdle
    /\ UNCHANGED <<rowVars, contact, muted, push, drainVars, skVars, confirm>>

------------------------------------------------------------------------------

Init ==
    /\ status = [m \in MsgId |-> "none"]
    /\ queue = {}
    /\ inbox = {}
    /\ contact \in {"pending_in", "accepted"}
    /\ muted = {}
    /\ push = {}
    /\ pc = [d \in Drainer |-> "idle"]
    /\ todo = [d \in Drainer |-> {}]
    /\ cur = [d \in Drainer |-> 0]
    /\ wire = {}
    /\ skPc = "idle"
    /\ skBound = 0
    /\ promoted = {}
    /\ rkPc = "idle"
    /\ base = 0
    /\ since = 0
    /\ theirs = 0
    /\ page = {}
    /\ pages = 0
    /\ fresh = {}
    /\ skipped = {}
    /\ confirm = {}
    /\ crashes = 0

Outbox ==
    \E m \in MsgId : SendMessage(m) \/ PushAcked(m) \/ PushFailed(m)

Drain ==
    \E d \in Drainer :
        \/ \E due \in SUBSET queue : DrainStart(d, due)
        \/ \E m \in MsgId : DrainSend(d, m)
        \/ DrainAcked(d)
        \/ DrainRemove(d)
        \/ DrainFailed(d)
        \/ \E kick \in BOOLEAN : DrainDone(d, kick)

SenderKick ==
    \/ AnswerSenderHeader
    \/ SenderKickFails
    \/ PromoteOutboundSynced
    \/ \E m \in MsgId : RemovePromoted(m)
    \/ SenderKickDone

Recipient ==
    \/ \E c \in wire : HandleMsg(c) \/ RefuseMsg(c)
    \/ AcceptRequest
    \/ RejectRequest

RecipientSync ==
    \/ RecipientKick
    \/ AnswerRecipientHeader
    \/ CheckHeader
    \/ AnswerPull
    \/ \E ok \in SUBSET page : IngestPage(ok)
    \/ RecipientKickFails
    \/ \E m \in MsgId : HandleSyncAck(m) \/ LoseSyncAck(m)

Crash == SenderCrash \/ \E ok \in SUBSET page : RecipientCrash(ok)

Next == Outbox \/ Drain \/ SenderKick \/ Recipient \/ RecipientSync \/ Crash

Spec == Init /\ [][Next]_vars

------------------------------------------------------------------------------
(* Fairness.  A push ends within SEND_TIMEOUT and every step of a drain ends in  *)
(* bounded time (WF).  The presence ticker comes round again and again and a     *)
(* backoff ends within an hour, so a queued row is due again and again (SF).  A  *)
(* peer that is tried for ever is not out of reach for ever: some of the tries   *)
(* are received, and some of the acks come back (SF).                            *)

Fairness ==
    /\ \A m \in MsgId : WF_vars(PushAcked(m) \/ PushFailed(m))
    /\ \A d \in Tickers :
        /\ \A m \in MsgId :
            /\ SF_vars(\E due \in SUBSET queue : m \in due /\ DrainStart(d, due))
            /\ SF_vars(HandleMsg(Request(d, m)))
        /\ WF_vars(\E m \in MsgId : DrainSend(d, m))
        /\ SF_vars(DrainAcked(d))
        /\ WF_vars(DrainRemove(d))
        /\ WF_vars(DrainFailed(d))
        /\ WF_vars(DrainDone(d, FALSE))

FairSpec == Spec /\ Fairness

------------------------------------------------------------------------------
(* Properties *)

\* Every variable keeps its type; no drain, kick or page counter leaves its range.
TypeOK ==
    /\ status \in [MsgId -> Status]
    /\ queue \subseteq MsgId
    /\ inbox \subseteq MsgId
    /\ contact \in {"pending_in", "accepted", "blocked"}
    /\ muted \subseteq MsgId
    /\ push \subseteq MsgId
    /\ pc \in [Drainer -> {"idle", "next", "waiting", "remove"}]
    /\ todo \in [Drainer -> SUBSET MsgId]
    /\ cur \in [Drainer -> MsgIdOrZero]
    /\ \A d \in Drainer : pc[d] \in {"waiting", "remove"} => cur[d] \in MsgId
    /\ wire \subseteq Call
    /\ skPc \in {"idle", "header", "answered", "removing"}
    /\ skBound \in MsgIdOrZero
    /\ promoted \subseteq MsgId
    /\ rkPc \in {"idle", "header", "answered", "pull", "page"}
    /\ base \in MsgIdOrZero
    /\ since \in MsgIdOrZero
    /\ theirs \in MsgIdOrZero
    /\ page \subseteq MsgId
    /\ pages \in 0..MaxPages
    /\ fresh \subseteq MsgId
    /\ skipped \subseteq MsgId
    /\ confirm \subseteq MsgId
    /\ crashes \in 0..MaxCrashes

\* What the recipient has taken: stored, or acknowledged and dropped while blocked.
Taken == inbox \cup muted

\* A message shown as Delivered was taken by the recipient: no late, lost or
\* abandoned call, no retry and no crash of either side makes push_one, a drain or
\* a demotion from Synced claim a delivery that did not happen.
DeliveredIsTaken ==
    \A m \in MsgId : status[m] = "delivered" => m \in Taken

\* What Synced really tells: the recipient stores this message or a later one,
\* through stale Header answers, late sync Acks and crashes.
SyncedIsCovered ==
    \A m \in MsgId : status[m] = "synced" => \E k \in inbox : m <= k

\* Until the sender crashes, a message shown as Sending has its push still running
\* or a sync_queue row: no interleaving of push_one, the drains and the promotion
\* loses the retry.
RetryCovered ==
    crashes = 0 => \A m \in MsgId : status[m] = "sending" => m \in push \cup queue

\* The Pull loop asks for everything: each message sent between the id the kick started
\* from and the id it asks after is stored, or its envelope came in this kick and could
\* not be ingested.  Live pushes and new messages in between make no page pass one by.
PullLeavesNoGap ==
    rkPc \in {"pull", "page"} =>
        \A m \in Sent : base < m /\ m <= since => m \in inbox \cup skipped

\* The steps a kick of the recipient has left, counted from the page budget alone.
StepsLeft ==
    CASE rkPc = "header"   -> 2 * MaxPages + 2
      [] rkPc = "answered" -> 2 * MaxPages + 1
      [] rkPc = "pull"     -> 2 * (MaxPages - pages) + 2
      [] rkPc = "page"     -> 2 * (MaxPages - pages) + 1
      [] OTHER             -> 0

\* The recipient's kick comes to an end, which nothing but SYNC_MAX_PULL_PAGES makes
\* sure of: the code does not check that a page lies above the id it asked after.  Each
\* step of a kick leaves fewer steps to go, and there are never fewer than none.
KickEnds ==
    [][rkPc # "idle" /\ rkVars' # rkVars => StepsLeft' \in 0..(StepsLeft - 1)]_vars

\* The inductive invariant behind DeliveredIsTaken, SyncedIsCovered and RetryCovered:
\* everything in flight, queued or about to be applied is backed by what the
\* recipient has taken, with event loop and ticker draining the same rows at once.
CallsBacked ==
    \A c \in wire : c.id \in Sent /\ (c.leg = "ack" => c.id \in Taken)
OnlySent ==
    /\ Taken \cup push \cup queue \cup page \subseteq Sent
    /\ \A d \in Drainer : todo[d] \subseteq Sent
KicksBacked ==
    /\ fresh \cup confirm \subseteq inbox
    /\ skPc = "answered" /\ skBound # 0 => skBound \in inbox
RemovalsSettled ==
    /\ \A d \in Drainer : pc[d] = "remove" => status[cur[d]] \in {"delivered", "synced"}
    /\ \A m \in promoted : status[m] \in {"delivered", "synced"}

Backed ==
    /\ CallsBacked
    /\ OnlySent
    /\ KicksBacked
    /\ RemovalsSettled
    /\ DeliveredIsTaken
    /\ SyncedIsCovered
    /\ RetryCovered

IInv == TypeOK /\ Backed

\* y7ke-core/src/status.rs: Synced means "both sides hold an identical copy", and
\* promote_outbound_synced says every row up to the reported id "reached the peer".
\* Even allowing for a push, a retry or a request that may still bring it there.
SyncedIsStored ==
    \A m \in MsgId :
        status[m] = "synced" => m \in Taken \cup push \cup queue \cup {c.id : c \in wire}

\* y7ke-core/src/status.rs: Sending means "persisted locally, queued for first
\* send": pushed by a live task or held in sync_queue.
SendingIsQueued ==
    \A m \in MsgId : status[m] = "sending" => m \in push \cup queue

\* One direction of the conversation keeps the Courier's promise.
Promise == INSTANCE Courier WITH view <- status, got <- Taken

\* Every step of the protocol is a step the abstract courier allows, or none: a
\* status changes only on the recipient's word, and only as far as that word goes.
ImplementsCourier == Promise!Spec

\* A message never stays on the sending clock for ever.
SendingSettles ==
    \A m \in MsgId : status[m] = "sending" ~> status[m] # "sending"

\* Every message sent is eventually taken by the recipient.
SentArrives ==
    \A m \in MsgId : m \in Sent ~> m \in Taken
==============================================================================
