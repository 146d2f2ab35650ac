-------------------------------- MODULE Rpc --------------------------------
(***************************************************************************)
(* What the application layer is promised about a call to another node     *)
(* (send_handshake, send_msg and send_sync of net/handle.rs): the peer's   *)
(* event loop executes a request at most once, the call returns success    *)
(* only after that, and an error says nothing: a request whose caller has  *)
(* given up may still be executed.                                         *)
(*                                                                         *)
(* Delivery and Contacts are written against this promise (their wire);    *)
(* Calls shows how the command channel, the pending slots and libp2p's     *)
(* request_response keep it.                                               *)
(***************************************************************************)

CONSTANT Call     \* the calls that can be made

VARIABLES
    asked,        \* calls made so far
    waiting,      \* calls whose callers await the answer
    open,         \* calls whose request can still be executed
    executed,     \* calls whose request was executed
    succeeded     \* calls that ended with an answer

vars == <<asked, waiting, open, executed, succeeded>>

Init ==
    /\ asked = {}
    /\ waiting = {}
    /\ open = {}
    /\ executed = {}
    /\ succeeded = {}

\* A call is made once.
Ask(c) ==
    /\ c \notin asked
    /\ asked' = asked \cup {c}
    /\ waiting' = waiting \cup {c}
    /\ open' = open \cup {c}
    /\ UNCHANGED <<executed, succeeded>>

\* It may fail before anything is sent.
Refuse(c) ==
    /\ c \notin asked
    /\ asked' = asked \cup {c}
    /\ UNCHANGED <<waiting, open, executed, succeeded>>

\* The peer executes the request, which it will not do again.
Execute(c) ==
    /\ c \in open
    /\ open' = open \ {c}
    /\ executed' = executed \cup {c}
    /\ UNCHANGED <<asked, waiting, succeeded>>

\* Success is reported of an executed request only.
Succeed(c) ==
    /\ c \in waiting /\ c \in executed
    /\ waiting' = waiting \ {c}
    /\ succeeded' = succeeded \cup {c}
    /\ UNCHANGED <<asked, open, executed>>

\* Any calls may fail and any requests may be lost, together or not: a task
\* that ends fails all of its calls at once.
Break ==
    /\ waiting' \subseteq waiting
    /\ open' \subseteq open
    /\ UNCHANGED <<asked, executed, succeeded>>

Next == Break \/ \E c \in Call : Ask(c) \/ Refuse(c) \/ Execute(c) \/ Succeed(c)

Spec == Init /\ [][Next]_vars

\* What follows for a caller and for the peer's handlers. Nothing is executed twice; an
\* answer is an execution's; and only what was asked for happens at all, ...
Honest ==
    /\ executed \cap open = {}
    /\ succeeded \subseteq executed /\ succeeded \cap waiting = {}
    /\ waiting \cup open \cup executed \subseteq asked

\* ... and for good: a call that has ended does not go on, and a request that was
\* executed or lost is not executed later.
Ends ==
    \A c \in asked :
        /\ c \notin waiting => c \notin waiting'
        /\ c \notin open => c \notin open' /\ (c \in executed' => c \in executed)
Final == [][Ends]_vars
=============================================================================
