------------------------------- MODULE Calls -------------------------------
(***************************************************************************)
(* How a node calls its peers: NetHandle's calls (net/handle.rs), the      *)
(* command channel, the swarm task with its pending slots (net/swarm.rs),  *)
(* libp2p's request_response between two swarm tasks, the broadcast        *)
(* channel of NetEvents and the event loop that answers (app/event_loop.rs)*)
(* - and that makes calls itself, for while it drains the outbox it        *)
(* answers nobody.                                                         *)
(*                                                                         *)
(* A Call is made once, as request ids are fresh; Call is the set of calls *)
(* that can be made at all. A "drain" call is the event loop's own, one    *)
(* for every row it sends (drain_queue_for_peer, flush_pending_delete);    *)
(* "push" is push_one's with its SEND_TIMEOUT, "sync" a reconcile's, which *)
(* waits as long as the swarm lets it; "find" is the Kad lookup of         *)
(* dial_with_discovery, "live" a question the swarm task answers at once   *)
(* (check_live, dial).                                                     *)
(***************************************************************************)
EXTENDS Naturals, Sequences, FiniteSets

CONSTANTS
    Node,
    Call,
    NoCall,                     \* in place of a call where there is none
    From, To,                   \* From[c] calls To[c]
    Kind,                       \* Kind[c]: which task makes the call
    COMMAND_CHANNEL_CAPACITY,   \* 64
    EVENT_CHANNEL_CAPACITY,     \* 256
    KAD_LOOKUP_CONCURRENCY      \* 4

Remote == {"drain", "push", "sync"}

ASSUME CallsAssumption ==
    /\ NoCall \notin Call
    /\ From \in [Call -> Node]
    /\ To \in [Call -> Node]
    /\ \A c \in Call : From[c] # To[c]
    /\ Kind \in [Call -> Remote \cup {"find", "live"}]
    /\ COMMAND_CHANNEL_CAPACITY \in Nat \ {0}
    /\ EVENT_CHANNEL_CAPACITY \in Nat \ {0}
    /\ KAD_LOOKUP_CONCURRENCY \in Nat \ {0}

VARIABLES
    \* The application.
    asked,       \* calls made so far
    waiting,     \* calls whose callers await the answer
    succeeded,   \* calls that ended with an answer
    rows,        \* rows[n]: the calls the event loop's drain has still to make
    answering,   \* answering[n]: the call whose answer the event loop hands over
    \* The channels.
    cmds,        \* cmds[n]: commands from the application to the swarm task
    events,      \* events[n]: NetEvents to the event loop; NoCall is a peer's return
    \* The swarm tasks and libp2p between them.
    up,          \* nodes whose swarm task runs
    pending,     \* pending[n]: calls with a slot in one of the pending_* maps
    wire,        \* wire[c]: where the request is; "stray" if it may still arrive
                 \* though its slot is closed, "none" when it is over
    \* History.
    executed     \* calls whose request the peer's event loop executed

app == <<asked, rows, answering>>
vars == <<asked, waiting, succeeded, rows, answering, cmds, events, up, pending, wire, executed>>

Command == [op : {"call", "respond"}, call : Call] \cup [op : {"shutdown"}, call : {NoCall}]
Ask(c) == [op |-> "call", call |-> c]
Response(c) == [op |-> "respond", call |-> c]
ShutdownCmd == [op |-> "shutdown", call |-> NoCall]

In(s, x) == \E i \in 1..Len(s) : s[i] = x
Room(n) == Len(cmds[n]) < COMMAND_CHANNEL_CAPACITY

TypeOK ==
    /\ asked \subseteq Call
    /\ waiting \subseteq Call
    /\ succeeded \subseteq Call
    /\ rows \in [Node -> SUBSET Call]
    /\ answering \in [Node -> Call \cup {NoCall}]
    /\ cmds \in [Node -> Seq(Command)]
    /\ \A n \in Node : Len(cmds[n]) <= COMMAND_CHANNEL_CAPACITY
    /\ events \in [Node -> Seq(Call \cup {NoCall})]
    /\ \A n \in Node : Len(events[n]) <= EVENT_CHANNEL_CAPACITY
    /\ up \subseteq Node
    /\ pending \in [Node -> SUBSET Call]
    /\ wire \in [Call -> {"none", "out", "in", "back", "stray"}]
    /\ executed \subseteq Call

\* The event loop's drain awaits a send_msg.
Draining(n) == \E c \in waiting : From[c] = n /\ Kind[c] = "drain"

\* The event loop waits for the next event.
LoopIdle(n) == rows[n] = {} /\ answering[n] = NoCall /\ ~Draining(n)

\* Lookups whose callers hold one of the kad_lookups permits.
Permits(n) == {c \in waiting : From[c] = n /\ Kind[c] = "find"}

\* The answer reaches the caller, if it is still there.
Ends(C, r) ==
    /\ waiting' = waiting \ C
    /\ succeeded' = IF r = "ok" THEN succeeded \cup (C \cap waiting) ELSE succeeded

Init ==
    /\ asked = {}
    /\ waiting = {}
    /\ succeeded = {}
    /\ rows = [n \in Node |-> {}]
    /\ answering = [n \in Node |-> NoCall]
    /\ cmds = [n \in Node |-> <<>>]
    /\ events = [n \in Node |-> <<>>]
    /\ up = Node
    /\ pending = [n \in Node |-> {}]
    /\ wire = [c \in Call |-> "none"]
    /\ executed = {}

-----------------------------------------------------------------------------
(* The callers.                                                            *)

\* What lets a call begin: the loop sends the rows one after the other, a
\* lookup needs a permit.
MayAsk(c) ==
    /\ c \notin asked
    /\ Kind[c] = "drain" => c \in rows[From[c]] /\ ~Draining(From[c])
    /\ Kind[c] = "find" => Cardinality(Permits(From[c])) < KAD_LOOKUP_CONCURRENCY

Begins(c) ==
    /\ MayAsk(c)
    /\ asked' = asked \cup {c}
    /\ rows' = [rows EXCEPT ![From[c]] = @ \ {c}]

\* The command goes into the channel and its sender waits on the oneshot. One
\* that finds the channel full waits for room: it has not asked yet.
Asks(c) ==
    /\ Begins(c)
    /\ From[c] \in up /\ Room(From[c])
    /\ cmds' = [cmds EXCEPT ![From[c]] = Append(@, Ask(c))]
    /\ waiting' = waiting \cup {c}
    /\ UNCHANGED <<succeeded, answering, events, up, pending, wire, executed>>

\* "command channel closed": the swarm task is gone.
AskRefused(c) ==
    /\ Begins(c)
    /\ From[c] \notin up
    /\ UNCHANGED <<waiting, succeeded, answering, cmds, events, up, pending, wire, executed>>

\* SEND_TIMEOUT of push_one, 10 s of find_peer: the receiver is dropped, the
\* command, the slot and the request stay.
GivesUp(c) ==
    /\ c \in waiting /\ Kind[c] \in {"push", "find"}
    /\ Ends({c}, "err")
    /\ UNCHANGED <<app, cmds, events, up, pending, wire, executed>>

\* shutdown, called by the user's closing of the application.
Shutdown(n) ==
    /\ n \in up /\ Room(n) /\ ~In(cmds[n], ShutdownCmd)
    /\ cmds' = [cmds EXCEPT ![n] = Append(@, ShutdownCmd)]
    /\ UNCHANGED <<waiting, succeeded, app, events, up, pending, wire, executed>>

-----------------------------------------------------------------------------
(* The swarm task: one command at a time.                                  *)

Receives(n, cmd) ==
    /\ n \in up /\ cmds[n] # <<>> /\ Head(cmds[n]) = cmd
    /\ cmds' = [cmds EXCEPT ![n] = Tail(@)]

\* What is left of a request whose slot is closed: it may be on its way.
Cut(c) == IF wire[c] \in {"out", "stray"} /\ Kind[c] \in Remote THEN "stray" ELSE "none"

Opens(c) ==
    /\ pending' = [pending EXCEPT ![From[c]] = @ \cup {c}]
    /\ wire' = [wire EXCEPT ![c] = "out"]

\* SendHandshake, SendMsg, SendSync: the request is handed to libp2p whether
\* or not its caller still waits.
HandleSend(c) ==
    /\ Kind[c] \in Remote
    /\ Receives(From[c], Ask(c))
    /\ Opens(c)
    /\ UNCHANGED <<waiting, succeeded, app, events, up, executed>>

\* FindPeer: the address book knows the peer, or a Kad query is begun.
HandleFindPeer(c) ==
    /\ Kind[c] = "find"
    /\ Receives(From[c], Ask(c))
    /\ \/ Ends({c}, "ok") /\ UNCHANGED <<pending, wire>>
       \/ Opens(c) /\ UNCHANGED <<waiting, succeeded>>
    /\ UNCHANGED <<app, events, up, executed>>

\* CheckLive and Dial are answered at once.
HandleCheckLive(c) ==
    /\ Kind[c] = "live"
    /\ Receives(From[c], Ask(c))
    /\ Ends({c}, "ok")
    /\ UNCHANGED <<app, events, up, pending, wire, executed>>

\* RespondHandshake, RespondMsg, RespondSync: the channel may be closed by
\* now ("response channel closed before send").
HandleRespond(c) ==
    /\ Receives(To[c], Response(c))
    /\ \/ wire[c] = "in" /\ wire' = [wire EXCEPT ![c] = "back"]
       \/ UNCHANGED wire
    /\ UNCHANGED <<waiting, succeeded, app, events, up, pending, executed>>

\* Mutant: the loop is left, its commands and slots are kept.
HandleShutdownKeeps(n) ==
    /\ n \in up /\ cmds[n] # <<>> /\ Head(cmds[n]) = ShutdownCmd
    /\ cmds' = [cmds EXCEPT ![n] = Tail(@)]
    /\ up' = up \ {n}
    /\ UNCHANGED <<waiting, succeeded, app, events, pending, wire, executed>>

\* Shutdown: the task leaves its loop at once. Everything it owned is
\* dropped: the commands still queued, the slots, its connections.
HandleShutdown(n) ==
    LET own == {c \in Call : From[c] = n}
    IN /\ n \in up /\ cmds[n] # <<>> /\ Head(cmds[n]) = ShutdownCmd
       /\ cmds' = [cmds EXCEPT ![n] = <<>>]
       /\ Ends(own, "err")
       /\ up' = up \ {n}
       /\ pending' = [pending EXCEPT ![n] = {}]
       /\ wire' = [c \in Call |-> IF c \in own THEN Cut(c) ELSE wire[c]]
       /\ UNCHANGED <<app, events, executed>>

-----------------------------------------------------------------------------
(* libp2p and what the swarm task does with its events.                    *)

\* Mutant: a channel without a bound.
EmittedUnbounded(s, e) == Append(s, e)

\* emit: the broadcast channel never blocks, it drops the oldest event.
Emitted(s, e) ==
    Append(IF Len(s) < EVENT_CHANNEL_CAPACITY THEN s ELSE Tail(s), e)

\* Mutant: the request stays to be delivered again.
ArrivesTwice(c) ==
    /\ wire[c] \in {"out", "stray"} /\ Kind[c] \in Remote /\ To[c] \in up
    /\ wire' = [wire EXCEPT ![c] = IF @ = "out" THEN "in" ELSE "stray"]
    /\ events' = [events EXCEPT ![To[c]] = Emitted(@, c)]
    /\ UNCHANGED <<waiting, succeeded, app, cmds, up, pending, executed>>

\* An inbound request becomes a NetEvent with its response channel.
Arrives(c) ==
    /\ wire[c] \in {"out", "stray"} /\ Kind[c] \in Remote /\ To[c] \in up
    /\ wire' = [wire EXCEPT ![c] = IF @ = "out" THEN "in" ELSE "none"]
    /\ events' = [events EXCEPT ![To[c]] = Emitted(@, c)]
    /\ UNCHANGED <<waiting, succeeded, app, cmds, up, pending, executed>>

\* The request is lost on its way.
Vanishes(c) ==
    /\ wire[c] = "stray"
    /\ wire' = [wire EXCEPT ![c] = "none"]
    /\ UNCHANGED <<waiting, succeeded, app, cmds, events, up, pending, executed>>

\* PeerDiscovered, ConnectionEstablished, ConnectionUpgraded: what starts a
\* drain. One at a time is enough here.
PeerReturns(n) ==
    /\ n \in up /\ ~In(events[n], NoCall)
    /\ events' = [events EXCEPT ![n] = Emitted(@, NoCall)]
    /\ UNCHANGED <<waiting, succeeded, app, cmds, up, pending, wire, executed>>

\* Mutant: the slot is looked up and left where it is.
ClosesKeepsSlot(c, r) ==
    /\ c \in pending[From[c]]
    /\ wire' = [wire EXCEPT ![c] = Cut(c)]
    /\ Ends({c}, r)
    /\ UNCHANGED <<app, cmds, events, up, pending, executed>>

\* The slot is taken out and the caller answered.
Closes(c, r) ==
    /\ c \in pending[From[c]]
    /\ wire' = [wire EXCEPT ![c] = Cut(c)]
    /\ pending' = [pending EXCEPT ![From[c]] = @ \ {c}]
    /\ Ends({c}, r)
    /\ UNCHANGED <<app, cmds, events, up, executed>>

\* The response arrives.
Responded(c) == wire[c] = "back" /\ Closes(c, "ok")

\* Mutant: a failure to connect only, no timeout once the request has arrived.
FailsBeforeArrival(c) == Kind[c] \in Remote /\ wire[c] = "out" /\ Closes(c, "err")

\* OutboundFailure: no connection, connection closed, channel dropped, or
\* the request timeout of 15 s.
Fails(c) == Kind[c] \in Remote /\ Closes(c, "err")

\* The Kad query found the peer or came to its last step.
LookupEnds(c) ==
    /\ Kind[c] = "find"
    /\ \E r \in {"ok", "err"} : Closes(c, r)

-----------------------------------------------------------------------------
(* The event loop: one event at a time.                                    *)

Takes(n) == LoopIdle(n) /\ events[n] # <<>> /\ events' = [events EXCEPT ![n] = Tail(@)]

\* handle_handshake, handle_msg, handle_sync: the request is executed and its
\* answer is about to be handed to the swarm task.
HandleRequest(n) ==
    /\ Takes(n) /\ Head(events[n]) # NoCall
    /\ answering' = [answering EXCEPT ![n] = Head(events[n])]
    /\ executed' = executed \cup {Head(events[n])}
    /\ UNCHANGED <<asked, waiting, succeeded, rows, cmds, up, pending, wire>>

\* Mutant: an answer is sent all the same.
HandlerFailsAnswers(n) ==
    /\ Takes(n) /\ Head(events[n]) # NoCall
    /\ answering' = [answering EXCEPT ![n] = Head(events[n])]
    /\ UNCHANGED <<asked, waiting, succeeded, rows, cmds, up, pending, wire, executed>>

\* The handler ends in an error; the response channel is dropped.
HandlerFails(n) ==
    /\ Takes(n) /\ Head(events[n]) # NoCall
    /\ UNCHANGED <<waiting, succeeded, app, cmds, up, pending, wire, executed>>

\* respond_*_take: waits for room in the channel; an error if it is closed.
Responds(n) ==
    /\ answering[n] # NoCall
    /\ \/ /\ n \in up /\ Room(n)
          /\ cmds' = [cmds EXCEPT ![n] = Append(@, Response(answering[n]))]
       \/ n \notin up /\ UNCHANGED cmds
    /\ answering' = [answering EXCEPT ![n] = NoCall]
    /\ UNCHANGED <<asked, waiting, succeeded, rows, events, up, pending, wire, executed>>

\* A peer is back: the rows queued for it are sent one after the other,
\* whatever becomes of each.
StartDrain(n) ==
    /\ Takes(n) /\ Head(events[n]) = NoCall
    /\ \E C \in SUBSET {c \in Call \ asked : From[c] = n /\ Kind[c] = "drain"} :
          rows' = [rows EXCEPT ![n] = C]
    /\ UNCHANGED <<asked, waiting, succeeded, answering, cmds, up, pending, wire, executed>>

-----------------------------------------------------------------------------
HandleCommand(n) ==
    \/ HandleShutdown(n)
    \/ \E c \in Call :
          \/ From[c] = n /\ (HandleSend(c) \/ HandleFindPeer(c) \/ HandleCheckLive(c))
          \/ To[c] = n /\ HandleRespond(c)

SendsRow(n) == \E c \in Call : From[c] = n /\ Kind[c] = "drain" /\ (Asks(c) \/ AskRefused(c))

LoopTakes(n) == HandleRequest(n) \/ HandlerFails(n) \/ StartDrain(n)

Next ==
    \/ \E n \in Node :
          \/ HandleCommand(n)
          \/ LoopTakes(n)
          \/ Responds(n)
          \/ PeerReturns(n)
          \/ Shutdown(n)
    \/ \E c \in Call :
          \/ Asks(c)
          \/ AskRefused(c)
          \/ GivesUp(c)
          \/ Arrives(c)
          \/ Vanishes(c)
          \/ Responded(c)
          \/ Fails(c)
          \/ LookupEnds(c)

\* The swarm task goes on and libp2p ends every request and every query; the
\* loop goes on, and of the tasks that wait for room in the channel each gets
\* it in turn (tokio's mpsc serves waiting senders in order).
Fairness ==
    /\ \A n \in Node :
          /\ WF_vars(HandleCommand(n))
          /\ WF_vars(LoopTakes(n))
          /\ SF_vars(Responds(n))
    /\ \A c \in Call : WF_vars(Fails(c)) /\ WF_vars(LookupEnds(c)) /\ WF_vars(Vanishes(c))
    /\ \A n \in Node : SF_vars(SendsRow(n))

Spec == Init /\ [][Next]_vars
FairSpec == Spec /\ Fairness

-----------------------------------------------------------------------------
(* What must hold.                                                         *)

\* A caller that waits is known to someone who will answer it: its command is
\* in the channel or its oneshot in a slot of a swarm task that still runs
\* (handle.rs: rx.await, run_swarm).
NoCallHangs ==
    \A c \in waiting :
        /\ From[c] \in up
        /\ In(cmds[From[c]], Ask(c)) \/ c \in pending[From[c]]

\* The slots are those of the requests libp2p has still to report on: none is
\* left over by a response, a failure, a timeout or a caller that gave up, none
\* is missing when the response comes (pending_* of TaskState).
SlotsAreLive ==
    \A n \in Node :
        pending[n] = {c \in Call : From[c] = n /\ wire[c] \in {"out", "in", "back"}}

\* The request can still be executed.
Open(c) ==
    \/ In(cmds[From[c]], Ask(c))
    \/ wire[c] \in {"out", "stray"}
    \/ In(events[To[c]], c)

(* The inductive invariant of CallsProofs: a request is in one place at a   *)
(* time, before its execution, and its answer follows it.                  *)
Unique(s) == \A i, j \in 1..Len(s) : s[i] = s[j] => i = j

\* Made calls only, and rows of the node itself.
CallsMade ==
    /\ waiting \subseteq asked /\ executed \subseteq asked
    /\ \A c \in Call : wire[c] # "none" => c \in asked
    /\ \A c \in Call : c \in succeeded /\ Kind[c] \in Remote => c \in executed
    /\ \A n \in Node : \A c \in rows[n] : From[c] = n

\* In the command channel a request is nowhere else; an answer is of one that
\* was executed here.
CommandsPlaced ==
    \A n \in Node :
        /\ Unique(cmds[n])
        /\ \A c \in Call :
              /\ In(cmds[n], Ask(c)) =>
                    /\ From[c] = n /\ c \in asked \ executed /\ wire[c] = "none"
                    /\ ~In(events[To[c]], c)
              /\ In(cmds[n], Response(c)) => To[c] = n /\ c \in executed /\ answering[n] # c

\* A request among the events is the only copy of it.
EventsPlaced ==
    \A n \in Node :
        /\ Unique(events[n])
        /\ \A c \in Call : In(events[n], c) =>
              /\ To[c] = n /\ c \in asked \ executed
              /\ Kind[c] \in Remote /\ wire[c] \notin {"out", "stray"}

\* A request on its way is not executed yet, an answer on its way is of one
\* that was.
WirePlaced ==
    /\ \A c \in Call :
          /\ wire[c] \in {"out", "stray"} => c \notin executed
          /\ wire[c] \in {"in", "back", "stray"} => Kind[c] \in Remote
          /\ wire[c] = "back" => c \in executed
    /\ \A n \in Node : answering[n] # NoCall =>
          To[answering[n]] = n /\ answering[n] \in executed

IInv ==
    /\ CallsMade
    /\ CommandsPlaced
    /\ EventsPlaced
    /\ WirePlaced
    /\ SlotsAreLive
    /\ NoCallHangs

\* The application sees of a call to a peer what Rpc promises: at most one
\* execution, success only after it, whatever timeouts, late answers, skipped
\* events and shutdowns come in between.
RemoteCall == {c \in Call : Kind[c] \in Remote}
Promise == INSTANCE Rpc WITH
    Call <- RemoteCall,
    asked <- asked \cap RemoteCall,
    waiting <- waiting \cap RemoteCall,
    open <- {c \in RemoteCall : Open(c)},
    executed <- executed \cap RemoteCall,
    succeeded <- succeeded \cap RemoteCall
KeepsPromise == Promise!Spec

\* Every call ends, with an answer or an error - a reconcile, for instance,
\* has no timeout of its own, and a drain neither.
CallsReturn == \A c \in Call : c \in waiting ~> c \notin waiting

\* The event loop comes back to its events, also when two nodes drain towards
\* each other and each waits for an answer the other is too busy to give.
LoopComesBack == \A n \in Node : ~LoopIdle(n) ~> LoopIdle(n)
=============================================================================
