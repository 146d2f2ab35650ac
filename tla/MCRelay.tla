------------------------------ MODULE MCRelay ------------------------------
(* Relay for TLC: the built-in relay and one the user may add. *)
EXTENDS Relay

CONSTANT Extra

\* One connection to each relay, and a second one to the built-in.
OneLinkEach == {<<Default, 1>>, <<Extra, 1>>}
TwoToDefault == OneLinkEach \cup {<<Default, 2>>}

\* The dials that requests set off touch nothing the listeners depend on.
ListenersSpec == Init /\ [][Next /\ "request" \notin calling']_vars
=============================================================================
