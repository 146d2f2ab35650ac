------------------------------- MODULE Courier -------------------------------
(***************************************************************************)
(* What one direction of a y7ke conversation promises its sender: the      *)
(* status shown for every message (view) against the messages the         *)
(* recipient has really taken (got).  Nothing here says how: no queue, no  *)
(* retry, no network, no reconcile.  Delivery implements this module.      *)
(*                                                                         *)
(* "delivered" vouches for the message itself.  "synced" says less than    *)
(* its name: only that the recipient had taken this message or a later one *)
(* (Reconcile), which is all a high-water mark can tell.                   *)
(***************************************************************************)
EXTENDS Naturals

CONSTANT MaxMsg        \* messages are numbered in the order of their UUIDv7 ids

VARIABLES view, got

vars == <<view, got>>

MsgId == 1..MaxMsg
View == {"none", "sending", "delivered", "synced"}

Sent == {m \in MsgId : view[m] # "none"}

Init ==
    /\ view = [m \in MsgId |-> "none"]
    /\ got = {}

\* The user sends a message: it is kept and shown with a clock.
Compose(m) ==
    /\ view[m] = "none"
    /\ view' = [view EXCEPT ![m] = "sending"]
    /\ UNCHANGED got

\* The recipient takes some of the messages sent, one or a page of them.
Arrive(ms) ==
    /\ ms \subseteq Sent
    /\ got' = got \cup ms
    /\ UNCHANGED view

\* The recipient vouched for this very message.
Vouch(m, how) ==
    /\ m \in got
    /\ view' = [view EXCEPT ![m] = how]
    /\ UNCHANGED got

\* The recipient reported the highest message it has taken.
Reconcile(bound) ==
    /\ bound \in got
    /\ view' = [m \in MsgId |-> IF m \in Sent /\ m <= bound THEN "synced" ELSE view[m]]
    /\ UNCHANGED got

Next ==
    \/ \E m \in MsgId : Compose(m)
    \/ \E ms \in SUBSET MsgId : Arrive(ms)
    \/ \E m \in MsgId, how \in {"delivered", "synced"} : Vouch(m, how)
    \/ \E bound \in MsgId : Reconcile(bound)

Spec == Init /\ [][Next]_vars

\* What follows for the sender: a tick is never taken back, a sent message stays listed
\* and what the recipient has taken stays taken.
Ticked == {m \in MsgId : view[m] \in {"delivered", "synced"}}
Lasts == Ticked \subseteq Ticked' /\ Sent \subseteq Sent' /\ got \subseteq got'
Lasting == [][Lasts]_vars
==============================================================================
