------------------------------ MODULE Contacts ------------------------------
(***************************************************************************)
(* Two y7ke nodes becoming, staying and ceasing to be contacts: contact    *)
(* requests and their handshake, accept / reject / cancel, the control     *)
(* messages that carry those decisions, delete_contact with its durable    *)
(* ChatDeleted, and crashes.  On each node the event loop and the tasks of *)
(* the user's commands interleave between database statements.             *)
(*                                                                         *)
(* Durable: contact, session, pending, erasure.  The rest dies in a crash. *)
(***************************************************************************)
EXTENDS Naturals, FiniteSets, Functions

CONSTANTS
    Node,          \* the two parties
    Budgets,       \* bound: <<calls of send_contact_request, calls of delete_contact>> a
                   \* behaviour can make, of both users together, one of these pairs
    MaxCrashes,    \* bound: crashes of a behaviour
    MaxCalls       \* bound: calls on their way at a time

ASSUME ContactsAssumption ==
    /\ IsFiniteSet(Node)
    /\ Cardinality(Node) = 2
    /\ Budgets \subseteq Nat \X Nat
    /\ MaxCrashes \in Nat
    /\ MaxCalls \in Nat

VARIABLES
    contact,    \* status of the peer's contact row; "none": no row
    session,    \* is there a sessions row for the peer
    pending,    \* directions of the unresolved request rows
    erasure,    \* pending_deletes row: number of the deletion it was sealed for, 0: none
    asking,     \* next step of send_contact_request
    answering,  \* next step of accept/reject/cancel_request
    loop,       \* next step of the event loop's handler and the call it is for
    wiping,     \* next statement of wipe_peer, for the user's task and for the loop
    wire,       \* requests in flight
    reply,      \* answers in flight that their caller waits for
    asks,       \* handshakes started
    dels,       \* deletions made by the user
    since,      \* history: the peer's deletions when the session row was written
    sealed,     \* history: number of the last deletion that sealed a ChatDeleted
    spared,     \* history: a ChatDeleted for this session row was given up without a wipe
    consent,    \* history: the user has asked for or accepted the peer
    crashes

rowVars == <<contact, session, pending, erasure>>
taskVars == <<asking, answering, loop, wiping>>
netVars == <<wire, reply>>
historyVars == <<asks, dels, since, sealed, spared, consent, crashes>>
vars == <<contact, session, pending, erasure, asking, answering, loop, wiping, wire, reply,
          asks, dels, since, sealed, spared, consent, crashes>>

Peer(n) == CHOOSE m \in Node : m # n

ContactStatus == {"none", "accepted", "pending_out", "pending_in", "blocked", "removed"}
Direction == {"incoming", "outgoing"}
Wiper == {"user", "loop"}
Control == {"accepted", "rejected", "deleted"}
LoopStep == Control \cup {"idle", "surface", "insert", "request", "grant", "refuse", "text",
                          "promote", "clear"}

\* `no` tells attempts and deletions apart: asks for a handshake, dels for ChatDeleted.
Call(kind, n, no) == [kind |-> kind, from |-> n, no |-> no]
Answer(kind, n, no) == [kind |-> kind, to |-> n, no |-> no]

Sends(c) ==
    /\ wire' = wire \cup {c}
    /\ Cardinality(wire') <= MaxCalls

Idle == [kind |-> "idle", no |-> 0]

\* A session row where there was none begins a conversation (history only).
NewRow(n) ==
    /\ since' = [since EXCEPT ![n] = IF session[n] THEN @ ELSE dels[Peer(n)]]
    /\ spared' = [spared EXCEPT ![n] = @ /\ session[n]]

------------------------------------------------------------------------------
(* send_contact_request *)

Started(f) == FoldFunction(+, 0, f)
Affordable(attempts, deletions) == \E b \in Budgets : attempts <= b[1] /\ deletions <= b[2]

\* Without a session: the request row, the contact row, then the handshake.  With one:
\* the contact row only.  The contact is read first and upserted later.
AskContact(n) ==
    /\ asking[n] = "no"
    /\ Affordable(Started(asks) + 1, Started(dels))
    /\ asks' = [asks EXCEPT ![n] = @ + 1]
    /\ consent' = [consent EXCEPT ![n] = TRUE]
    /\ IF session[n]
       THEN /\ asking' = [asking EXCEPT ![n] = IF contact[n] = "none" THEN "row" ELSE "no"]
            /\ UNCHANGED pending
       ELSE /\ pending' = [pending EXCEPT ![n] = @ \cup {"outgoing"}]
            /\ asking' = [asking EXCEPT
                   ![n] = IF contact[n] = "none" THEN "row_then_call" ELSE "call"]
    /\ UNCHANGED <<contact, session, erasure, answering, loop, wiping, netVars, dels, since,
                   sealed, spared, crashes>>

\* contacts.insert is an upsert: it overwrites what another task has written by now.
AskInsert(n) ==
    /\ asking[n] \in {"row", "row_then_call"}
    /\ contact' = [contact EXCEPT ![n] = "pending_out"]
    /\ asking' = [asking EXCEPT ![n] = IF @ = "row" THEN "no" ELSE "call"]
    /\ UNCHANGED <<session, pending, erasure, answering, loop, wiping, netVars, historyVars>>

AskCall(n) ==
    /\ asking[n] = "call"
    /\ Sends(Call("handshake", n, asks[n]))
    /\ asking' = [asking EXCEPT ![n] = "wait"]
    /\ UNCHANGED <<rowVars, answering, loop, wiping, reply, historyVars>>

\* finalize_initiator, then the session row, whatever has become of the contact.
AskAccepted(n) ==
    /\ asking[n] = "wait"
    /\ Answer("accept", n, asks[n]) \in reply
    /\ session' = [session EXCEPT ![n] = TRUE]
    /\ NewRow(n)
    /\ asking' = [asking EXCEPT ![n] = "no"]
    /\ reply' = reply \ {Answer("accept", n, asks[n])}
    /\ UNCHANGED <<contact, pending, erasure, answering, loop, wiping, wire, asks, dels, sealed,
                   consent, crashes>>

\* "peer rejected handshake", or no answer in time: an error for the user, no more.
AskFails(n) ==
    /\ asking[n] = "wait"
    /\ asking' = [asking EXCEPT ![n] = "no"]
    /\ reply' = {a \in reply : ~(a.to = n /\ a.kind \in {"accept", "already"})}
    /\ UNCHANGED <<rowVars, answering, loop, wiping, wire, historyVars>>

------------------------------------------------------------------------------
(* handle_handshake *)

\* An answer nobody waits for any more is dropped.
Waits(n, no) == asking[n] = "wait" /\ asks[n] = no

\* Mutant: the answer goes out before the session row is written.
HandleHandshakeAnswersFirst(n, c) ==
    /\ loop[n] = Idle
    /\ c.kind = "handshake"
    /\ c.from = Peer(n)
    /\ wire' = wire \ {c}
    /\ reply' = reply \cup (IF Waits(c.from, c.no) THEN {Answer("accept", c.from, c.no)} ELSE {})
    /\ loop' = [loop EXCEPT ![n] = [kind |-> "surface", no |-> 0]]
    /\ UNCHANGED <<rowVars, asking, answering, wiping, historyVars>>

\* An existing session is kept and the handshake refused; else the session row is
\* written and then the answer sent.  The request is surfaced either way.
HandleHandshake(n, c) ==
    /\ loop[n] = Idle
    /\ c.kind = "handshake"
    /\ c.from = Peer(n)
    /\ wire' = wire \ {c}
    /\ session' = [session EXCEPT ![n] = TRUE]
    /\ NewRow(n)
    /\ LET kind == IF session[n] THEN "already" ELSE "accept"
       IN  reply' = reply \cup (IF Waits(c.from, c.no) THEN {Answer(kind, c.from, c.no)} ELSE {})
    /\ loop' = [loop EXCEPT ![n] = [kind |-> "surface", no |-> 0]]
    /\ UNCHANGED <<contact, pending, erasure, asking, answering, wiping, asks, dels, sealed,
                   consent, crashes>>

\* ensure_incoming_request: nothing for an accepted contact, else the contact row if
\* there was none, and the request row.
Surface(n) ==
    /\ loop[n].kind = "surface"
    /\ loop' = [loop EXCEPT ![n] =
           CASE contact[n] = "accepted" -> Idle
             [] contact[n] = "none" -> [kind |-> "insert", no |-> 0]
             [] OTHER -> [kind |-> "request", no |-> 0]]
    /\ UNCHANGED <<rowVars, asking, answering, wiping, netVars, historyVars>>

SurfaceContact(n) ==
    /\ loop[n].kind = "insert"
    /\ contact' = [contact EXCEPT ![n] = "pending_in"]
    /\ loop' = [loop EXCEPT ![n].kind = "request"]
    /\ UNCHANGED <<session, pending, erasure, asking, answering, wiping, netVars, historyVars>>

SurfaceRequest(n) ==
    /\ loop[n].kind = "request"
    /\ pending' = [pending EXCEPT ![n] = @ \cup {"incoming"}]
    /\ loop' = [loop EXCEPT ![n] = Idle]
    /\ UNCHANGED <<contact, session, erasure, asking, answering, wiping, netVars, historyVars>>

------------------------------------------------------------------------------
(* accept_request, reject_request, cancel_request: resolve the row, write the *)
(* contact's status, tell the peer                                            *)

\* Any unresolved row of the peer: find_request takes the id and does not look at the
\* direction.  Accepting stands for the user's own wish only.
AcceptRequest(n, row) ==
    /\ answering[n] = "no"
    /\ row \in pending[n]
    /\ pending' = [pending EXCEPT ![n] = @ \ {row}]
    /\ answering' = [answering EXCEPT ![n] = "accepted"]
    /\ consent' = [consent EXCEPT ![n] = TRUE]
    /\ UNCHANGED <<contact, session, erasure, asking, loop, wiping, netVars, asks, dels, since,
                   sealed, spared, crashes>>

RejectRequest(n, row) ==
    /\ answering[n] = "no"
    /\ row \in pending[n]
    /\ pending' = [pending EXCEPT ![n] = @ \ {row}]
    /\ answering' = [answering EXCEPT ![n] = "blocked"]
    /\ UNCHANGED <<contact, session, erasure, asking, loop, wiping, netVars, historyVars>>

\* The one of the three that looks: "only outgoing requests can be cancelled".
CancelRequest(n, row) ==
    /\ answering[n] = "no"
    /\ row \in pending[n]
    /\ row = "outgoing"
    /\ pending' = [pending EXCEPT ![n] = @ \ {row}]
    /\ answering' = [answering EXCEPT ![n] = "removed"]
    /\ UNCHANGED <<contact, session, erasure, asking, loop, wiping, netVars, historyVars>>

\* Mutant: the page offers Accept and Reject on every row.
AnswerButtonsAny == {"incoming", "outgoing"}

\* Requests.svelte, the only caller of accept_request and reject_request, offers the two
\* on the incoming rows.
AnswerButtons == {"incoming"}

\* update_status fails on a row that is gone, and then the peer is not told; the peer
\* of a cancelled request never is.
FinishAnswer(n) ==
    /\ answering[n] \in {"accepted", "blocked", "removed"}
    /\ contact' = [contact EXCEPT ![n] = IF @ = "none" THEN "none" ELSE answering[n]]
    /\ answering' = [answering EXCEPT ![n] =
           CASE contact[n] = "none" \/ @ = "removed" -> "no"
             [] @ = "accepted" -> "tell_accepted"
             [] OTHER -> "tell_rejected"]
    /\ UNCHANGED <<session, pending, erasure, asking, loop, wiping, netVars, historyVars>>

\* send_control: once, without retry, and only with a session.
TellPeer(n) ==
    /\ answering[n] \in {"tell_accepted", "tell_rejected"}
    /\ LET kind == IF answering[n] = "tell_accepted" THEN "accepted" ELSE "rejected"
       IN  IF session[n] THEN Sends(Call(kind, n, 0)) ELSE UNCHANGED wire
    /\ answering' = [answering EXCEPT ![n] = "no"]
    /\ UNCHANGED <<rowVars, asking, loop, wiping, reply, historyVars>>

------------------------------------------------------------------------------
(* handle_msg: the gate, then what came through it *)

\* send_message or a retry of it, from a chat the sidebar shows.
SendText(n) ==
    /\ session[n]
    /\ contact[n] \in {"accepted", "pending_out"}
    /\ Sends(Call("text", n, 0))
    /\ UNCHANGED <<rowVars, taskVars, reply, historyVars>>

\* flush_pending_delete waits for the ack of a ChatDeleted only.
Acked(c) == IF c.kind = "deleted" THEN {Answer("acked", c.from, c.no)} ELSE {}

\* Without a session refused; from a blocked contact acknowledged and dropped.
HandleMsg(n, c) ==
    /\ loop[n] = Idle
    /\ c.kind \in Control \cup {"text"}
    /\ c.from = Peer(n)
    /\ wire' = wire \ {c}
    /\ CASE ~session[n] -> UNCHANGED <<reply, loop, spared>>
         [] session[n] /\ contact[n] = "blocked" ->
                /\ reply' = reply \cup Acked(c)
                /\ spared' = [spared EXCEPT ![n] = @ \/ c.kind = "deleted"]
                /\ UNCHANGED loop
         [] OTHER ->
                /\ loop' = [loop EXCEPT ![n] = [kind |-> c.kind, no |-> c.no]]
                /\ UNCHANGED <<reply, spared>>
    /\ UNCHANGED <<rowVars, asking, answering, wiping, asks, dels, since, sealed, consent, crashes>>

\* Every pending row of the peer is resolved.
ClearRequests(n) ==
    /\ loop[n].kind \in {"accepted", "rejected", "clear"}
    /\ pending' = [pending EXCEPT ![n] = {}]
    /\ loop' = [loop EXCEPT ![n] =
           CASE loop[n].kind = "accepted" -> [kind |-> "grant", no |-> 0]
             [] loop[n].kind = "rejected" -> [kind |-> "refuse", no |-> 0]
             [] OTHER -> Idle]
    /\ UNCHANGED <<contact, session, erasure, asking, answering, wiping, netVars, historyVars>>

\* Mutant: the pending rows are resolved, the contact is left as it is.
ApplyControlRowsOnly(n) ==
    /\ loop[n].kind \in {"grant", "refuse"}
    /\ loop' = [loop EXCEPT ![n] = Idle]
    /\ UNCHANGED <<rowVars, asking, answering, wiping, netVars, historyVars>>

\* Mutant: a contact row that is gone is written anew.
ApplyControlUpserts(n) ==
    /\ loop[n].kind \in {"grant", "refuse"}
    /\ contact' = [contact EXCEPT ![n] = IF loop[n].kind = "grant" THEN "accepted" ELSE "blocked"]
    /\ loop' = [loop EXCEPT ![n] = Idle]
    /\ UNCHANGED <<session, pending, erasure, asking, answering, wiping, netVars, historyVars>>

\* handle_control(AcceptedRequest), handle_control(RejectedRequest), after the rows: the
\* contact row, if any, whatever its status is by now.
ApplyControl(n) ==
    /\ loop[n].kind \in {"grant", "refuse"}
    /\ LET status == IF loop[n].kind = "grant" THEN "accepted" ELSE "blocked"
       IN  contact' = [contact EXCEPT ![n] = IF @ = "none" THEN "none" ELSE status]
    /\ loop' = [loop EXCEPT ![n] = Idle]
    /\ UNCHANGED <<session, pending, erasure, asking, answering, wiping, netVars, historyVars>>

\* Mutant: a message promotes an incoming request, too.
ApplyTextPromotesAll(n) ==
    /\ loop[n].kind = "text"
    /\ loop' = [loop EXCEPT ![n] =
           IF contact[n] \in {"pending_out", "pending_in"}
           THEN [kind |-> "promote", no |-> 0] ELSE Idle]
    /\ UNCHANGED <<rowVars, asking, answering, wiping, netVars, historyVars>>

\* A message from someone we asked is taken for an acceptance.
ApplyText(n) ==
    /\ loop[n].kind = "text"
    /\ loop' = [loop EXCEPT ![n] =
           IF contact[n] = "pending_out" THEN [kind |-> "promote", no |-> 0] ELSE Idle]
    /\ UNCHANGED <<rowVars, asking, answering, wiping, netVars, historyVars>>

\* The contact row, which may be gone by now, and then the request rows.
Promote(n) ==
    /\ loop[n].kind = "promote"
    /\ contact' = [contact EXCEPT ![n] = IF @ = "none" THEN "none" ELSE "accepted"]
    /\ loop' = [loop EXCEPT ![n] =
           IF contact[n] = "none" THEN Idle ELSE [kind |-> "clear", no |-> 0]]
    /\ UNCHANGED <<session, pending, erasure, asking, answering, wiping, netVars, historyVars>>

\* Mutant: the wipe is left to a task of its own and the answer does not wait for it.
ApplyDeletedSpawned(n) ==
    /\ loop[n].kind = "deleted"
    /\ wiping[n]["loop"] = "idle"
    /\ wiping' = [wiping EXCEPT ![n]["loop"] = "session"]
    /\ loop' = [loop EXCEPT ![n] = Idle]
    /\ reply' = reply \cup {Answer("acked", Peer(n), loop[n].no)}
    /\ UNCHANGED <<rowVars, asking, answering, wire, historyVars>>

\* handle_control(ChatDeleted): the loop wipes, then acknowledges.
ApplyDeleted(n) ==
    /\ loop[n].kind = "deleted"
    /\ wiping[n]["loop"] = "idle"
    /\ wiping' = [wiping EXCEPT ![n]["loop"] = "session"]
    /\ UNCHANGED <<rowVars, asking, answering, loop, netVars, historyVars>>

------------------------------------------------------------------------------
(* delete_contact and wipe_peer *)

\* enqueue_chat_deleted, which needs a session, then the wipe.
DeleteContact(n) ==
    /\ contact[n] \in {"accepted", "pending_out"}
    /\ wiping[n]["user"] = "idle"
    /\ Affordable(Started(asks), Started(dels) + 1)
    /\ dels' = [dels EXCEPT ![n] = @ + 1]
    /\ IF session[n]
       THEN /\ erasure' = [erasure EXCEPT ![n] = dels'[n]]
            /\ sealed' = [sealed EXCEPT ![n] = dels'[n]]
       ELSE UNCHANGED <<erasure, sealed>>
    /\ wiping' = [wiping EXCEPT ![n]["user"] = "session"]
    /\ UNCHANGED <<contact, session, pending, asking, answering, loop, netVars, asks, since,
                   spared, consent, crashes>>

\* wipe_peer is no transaction: sessions, requests and contacts go one by one.
WipeSession(n, w) ==
    /\ wiping[n][w] = "session"
    /\ session' = [session EXCEPT ![n] = FALSE]
    /\ wiping' = [wiping EXCEPT ![n][w] = "requests"]
    /\ UNCHANGED <<contact, pending, erasure, asking, answering, loop, netVars, historyVars>>

WipeRequests(n, w) ==
    /\ wiping[n][w] = "requests"
    /\ pending' = [pending EXCEPT ![n] = {}]
    /\ wiping' = [wiping EXCEPT ![n][w] = "contact"]
    /\ UNCHANGED <<contact, session, erasure, asking, answering, loop, netVars, historyVars>>

WipeContact(n, w) ==
    /\ wiping[n][w] = "contact"
    /\ contact' = [contact EXCEPT ![n] = "none"]
    /\ wiping' = [wiping EXCEPT ![n][w] = "idle"]
    /\ IF w = "loop"
       THEN /\ loop' = [loop EXCEPT ![n] = Idle]
            /\ reply' = reply \cup {Answer("acked", Peer(n), loop[n].no)}
       ELSE UNCHANGED <<loop, reply>>
    /\ UNCHANGED <<session, pending, erasure, asking, answering, wire, historyVars>>

\* flush_pending_delete: after a deletion and whenever the peer is back.
FlushDelete(n) ==
    /\ erasure[n] # 0
    /\ Sends(Call("deleted", n, erasure[n]))
    /\ UNCHANGED <<rowVars, taskVars, reply, historyVars>>

\* The row is removed, the one that is there by now: sealed for a later deletion, if one
\* was made since the envelope that is acknowledged was sent.
DeleteAcked(n, a) ==
    /\ a \in reply
    /\ a.to = n
    /\ a.kind = "acked"
    /\ erasure' = [erasure EXCEPT ![n] = 0]
    /\ spared' = [spared EXCEPT ![Peer(n)] = @ \/ erasure[n] \notin {0, a.no}]
    /\ reply' = reply \ {a}
    /\ UNCHANGED <<contact, session, pending, taskVars, wire, asks, dels, since, sealed, consent,
                   crashes>>

------------------------------------------------------------------------------
(* The network and crashes.  An answer that is lost is one that is never taken. *)

LoseCall(c) ==
    /\ wire' = wire \ {c}
    /\ UNCHANGED <<rowVars, taskVars, reply, historyVars>>

NoWipe == [w \in Wiper |-> "idle"]

Crash(n) ==
    /\ crashes < MaxCrashes
    /\ crashes' = crashes + 1
    /\ asking' = [asking EXCEPT ![n] = "no"]
    /\ answering' = [answering EXCEPT ![n] = "no"]
    /\ loop' = [loop EXCEPT ![n] = Idle]
    /\ wiping' = [wiping EXCEPT ![n] = NoWipe]
    /\ reply' = {a \in reply : a.to # n}
    /\ UNCHANGED <<rowVars, wire, asks, dels, since, sealed, spared, consent>>

------------------------------------------------------------------------------

Init ==
    /\ contact = [n \in Node |-> "none"]
    /\ session = [n \in Node |-> FALSE]
    /\ pending = [n \in Node |-> {}]
    /\ erasure = [n \in Node |-> 0]
    /\ asking = [n \in Node |-> "no"]
    /\ answering = [n \in Node |-> "no"]
    /\ loop = [n \in Node |-> Idle]
    /\ wiping = [n \in Node |-> NoWipe]
    /\ wire = {}
    /\ reply = {}
    /\ asks = [n \in Node |-> 0]
    /\ dels = [n \in Node |-> 0]
    /\ sealed = [n \in Node |-> 0]
    /\ since = [n \in Node |-> 0]
    /\ spared = [n \in Node |-> FALSE]
    /\ consent = [n \in Node |-> FALSE]
    /\ crashes = 0

User(n) ==
    \/ AskContact(n)
    \/ AskInsert(n)
    \/ AskCall(n)
    \/ AskAccepted(n)
    \/ AskFails(n)
    \/ \E row \in AnswerButtons : AcceptRequest(n, row) \/ RejectRequest(n, row)
    \/ \E row \in Direction : CancelRequest(n, row)
    \/ FinishAnswer(n)
    \/ TellPeer(n)
    \/ SendText(n)
    \/ DeleteContact(n)

EventLoop(n) ==
    \/ \E c \in wire : HandleHandshake(n, c) \/ HandleMsg(n, c)
    \/ Surface(n)
    \/ SurfaceContact(n)
    \/ SurfaceRequest(n)
    \/ ClearRequests(n)
    \/ ApplyControl(n)
    \/ ApplyText(n)
    \/ Promote(n)
    \/ ApplyDeleted(n)

Erase(n) ==
    \/ \E w \in Wiper : WipeSession(n, w) \/ WipeRequests(n, w) \/ WipeContact(n, w)
    \/ FlushDelete(n)
    \/ \E a \in reply : DeleteAcked(n, a)

Next ==
    \/ \E n \in Node : User(n) \/ EventLoop(n) \/ Erase(n) \/ Crash(n)
    \/ \E c \in wire : LoseCall(c)

Spec == Init /\ [][Next]_vars

------------------------------------------------------------------------------
(* Properties *)

\* Every variable keeps its type, and the loop wipes only while it handles a ChatDeleted,
\* which it answers afterwards (handle_msg, handle_control).
TypeOK ==
    /\ contact \in [Node -> ContactStatus]
    /\ session \in [Node -> BOOLEAN]
    /\ pending \in [Node -> SUBSET Direction]
    /\ erasure \in [Node -> Nat]
    /\ asking \in [Node -> {"no", "row", "row_then_call", "call", "wait"}]
    /\ answering \in [Node -> {"no", "accepted", "blocked", "removed", "tell_accepted",
                              "tell_rejected"}]
    /\ loop \in [Node -> [kind : LoopStep, no : Nat]]
    /\ wiping \in [Node -> [Wiper -> {"idle", "session", "requests", "contact"}]]
    /\ wire \subseteq [kind : {"handshake", "text"} \cup Control, from : Node, no : Nat]
    /\ reply \subseteq [kind : {"accept", "already", "acked"}, to : Node, no : Nat]
    /\ asks \in [Node -> Nat]
    /\ dels \in [Node -> Nat]
    /\ since \in [Node -> Nat]
    /\ sealed \in [Node -> Nat]
    /\ spared \in [Node -> BOOLEAN]
    /\ consent \in [Node -> BOOLEAN]
    /\ crashes \in Nat
    /\ \A n \in Node : wiping[n]["loop"] # "idle" => loop[n].kind = "deleted"

\* A contact is accepted on a node only when both users have wanted it, each by asking
\* or by accepting: no control message, message or race opens the gate for a user who
\* never did, through deletions, re-adds and late calls.  It holds because the page
\* offers Accept on incoming rows only (AnswerButtons); accept_request does not check.
MutualConsent ==
    \A n \in Node : contact[n] = "accepted" => consent[n] /\ consent[Peer(n)]

\* The inductive invariant behind MutualConsent: whatever is stored, in flight or about to
\* be applied stands for a decision of the user it is taken for - a task of
\* send_contact_request for the user's own, an incoming request or a message for the
\* peer's, everything on the way to Accepted for both.  What the user accepts is an
\* incoming row by the page's doing, not by accept_request's.
OwnSteps ==
    \A n \in Node : contact[n] = "pending_out" \/ asking[n] # "no" => consent[n]
PeerSteps ==
    \A n \in Node :
        "incoming" \in pending[n] \/ loop[n].kind \in {"surface", "insert", "request", "text"}
            => consent[Peer(n)]
AgreedSteps ==
    \A n \in Node :
        (\/ contact[n] = "accepted"
         \/ answering[n] \in {"accepted", "tell_accepted"}
         \/ loop[n].kind \in {"accepted", "grant", "promote"})
            => consent[n] /\ consent[Peer(n)]
CallSteps ==
    \A c \in wire :
        /\ c.kind \in {"handshake", "text", "accepted"} => consent[c.from]
        /\ c.kind = "accepted" => consent[Peer(c.from)]

ConsentInv == OwnSteps /\ PeerSteps /\ AgreedSteps /\ CallSteps

\* The statuses the two nodes show come about as Consent allows.
Bond == INSTANCE Consent WITH wants <- consent, status <- contact

\* Every step of the two nodes is a step Consent allows, or none of its business: a
\* request is shown only after its user's wish, an agreement only after both, and a
\* contact that was deleted is never written back but as a request - by no task that
\* read the contact before the deletion and no control message that comes after it.  Like
\* MutualConsent it rests on the page for the direction of an accepted row.
ImplementsConsent == Bond!Spec

\* A contact that waits for this user's answer has a request row to answer, unless the
\* answer or a deletion is under way or a crash cut one short.
PendingIsAnswerable ==
    crashes = 0 =>
        \A n \in Node : contact[n] = "pending_in" =>
            \/ "incoming" \in pending[n]
            \/ answering[n] # "no"
            \/ loop[n].kind \in {"request", "grant", "refuse"}
            \/ "contact" \in {wiping[n][w] : w \in Wiper}

\* While nobody has deleted anything, a node whose peer never shook hands with it has a
\* session only if the peer has one: the responder's row is there before its answer,
\* through lost answers and crashes.
SessionIsShared ==
    dels = [n \in Node |-> 0] =>
        \A n \in Node : session[n] /\ asks[Peer(n)] = 0 => session[Peer(n)]

\* delete_contact: a session on the peer that is older than the deletion has a durable
\* ChatDeleted coming for it, through crashes, lost acks and repeated calls - unless the
\* peer acknowledged one without a wipe, as it does for a contact it has blocked, or an
\* older ack took the row away (spared).
CopyIsChased ==
    \A n \in Node :
        LET p == Peer(n)
        IN  session[p] /\ ~spared[p] /\ sealed[n] > since[p] => erasure[n] # 0

\* handle_handshake: an existing session is preserved and "the initiator keeps its own
\* session".
SessionKept ==
    \A a \in reply : a.kind = "already" => session[a.to]

\* handle_control(ChatDeleted): "Peer wiped the conversation; mirror locally".  A peer that
\* has a session and no wipe to finish has not wiped the conversation the two are in.
MirrorsPeer ==
    \A n \in Node :
        LET p == Peer(n)
        IN  loop[n].kind = "deleted" /\ session[n] /\ session[p] /\ wiping[p] = NoWipe
                => loop[n].no > since[n]
==============================================================================
