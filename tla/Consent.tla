------------------------------- MODULE Consent -------------------------------
(***************************************************************************)
(* What two users are promised about becoming contacts: the status each    *)
(* node shows for the other user, against what the two have wanted, by     *)
(* asking or by accepting.  No session, request row, message or answer is  *)
(* in here.  Contacts implements this module.                              *)
(*                                                                         *)
(* The promise is about how a status may come to be, not about the other   *)
(* node: nothing says that the two show the same.                          *)
(***************************************************************************)
CONSTANT Node        \* the two parties

VARIABLES
    wants,           \* has the user asked for or accepted the other
    status           \* of the contact on the user's node; "none": not listed

vars == <<wants, status>>

Peer(n) == CHOOSE m \in Node : m # n

Init ==
    /\ wants = [n \in Node |-> FALSE]
    /\ status = [n \in Node |-> "none"]

Shows(n, s) ==
    /\ status' = [status EXCEPT ![n] = s]
    /\ UNCHANGED wants

Want(n) ==
    /\ wants' = [wants EXCEPT ![n] = TRUE]
    /\ UNCHANGED status

\* The user's own request is shown because of the user's wish, ...
ShowAsked(n) == wants[n] /\ Shows(n, "pending_out")

\* ... the other's because of the other's wish, ...
ShowRequest(n) == wants[Peer(n)] /\ Shows(n, "pending_in")

\* ... and an agreement because of both, for somebody who is listed: a contact that was
\* deleted comes back as a request only.
Agree(n) == wants[n] /\ wants[Peer(n)] /\ status[n] # "none" /\ Shows(n, "accepted")

\* Either user can end it, and for that nobody has to agree.
Dismiss(n) == status[n] # "none" /\ \E s \in {"blocked", "removed"} : Shows(n, s)

Forget(n) == Shows(n, "none")

Next ==
    \E n \in Node :
        Want(n) \/ ShowAsked(n) \/ ShowRequest(n) \/ Agree(n) \/ Dismiss(n) \/ Forget(n)

Spec == Init /\ [][Next]_vars
=============================================================================
