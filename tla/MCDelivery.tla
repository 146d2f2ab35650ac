----------------------------- MODULE MCDelivery -----------------------------
(***************************************************************************)
(* Scenarios of Delivery that TLC explores: each fixes a part of the       *)
(* environment so that event loop and ticker fit.                          *)
(***************************************************************************)
EXTENDS Delivery

\* A sender whose event loop and ticker drain the same rows, both halves of the sync,
\* and crashes: two of these four tasks overlap in any order, never three.  The event
\* loop answers no Header and no Pull while it drains, so its drains and the recipient's
\* kicks take turns.
Busy ==
    {d \in Drainer : pc[d] # "idle"}
        \cup (IF skPc # "idle" THEN {"sender kick"} ELSE {})
        \cup (IF rkPc # "idle" THEN {"recipient kick"} ELSE {})
TwoAtATime == Cardinality(Busy) <= 2 /\ ~({Loop, "recipient kick"} \subseteq Busy)
CrashSpec == Init /\ [][Next /\ TwoAtATime']_vars

\* Both users have accepted each other, and a peer that stays connected: no
\* PeerDiscovered or ConnectionEstablished, so only the presence ticker drains.
SteadyInit == Init /\ contact = "accepted"
SteadyNext == Next /\ pc'[Loop] = "idle"
SteadySpec == SteadyInit /\ [][SteadyNext]_vars /\ Fairness
==============================================================================
