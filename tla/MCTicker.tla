------------------------------ MODULE MCTicker ------------------------------
(* Ticker for TLC: two messages for the contact, one for a peer who is away. *)
EXTENDS Ticker

CONSTANTS m, n, x

\* Schedules that are restarted, over both kinds of connection; and a queue.
Schedules == [rows |-> {}, kinds |-> Kind, restarts |-> TRUE]
Queue == [rows |-> {m, n, x}, kinds |-> {"direct"}, restarts |-> FALSE]
SchedulesOrQueue == {Schedules, Queue}
=============================================================================
