--------------------------- MODULE ContactsProofs ---------------------------
(***************************************************************************)
(* Proofs about Contacts for any number of requests, deletions, crashes    *)
(* and calls on their way.                                                 *)
(***************************************************************************)
EXTENDS Contacts, FiniteSetTheorems, TLAPS

------------------------------------------------------------------------------
(* The two parties *)

\* Each party has the other one for its peer.
LEMMA PeerIsOther ==
    ASSUME NEW n \in Node
    PROVE  /\ Peer(n) \in Node
           /\ Peer(n) # n
           /\ Peer(Peer(n)) = n
           /\ \A m \in Node : m = n \/ m = Peer(n)
<1>1. IsFiniteSet(Node \ {n}) /\ Cardinality(Node \ {n}) = 1
  BY ContactsAssumption, FS_RemoveElement
<1>2. PICK x : Node \ {n} = {x}
  BY <1>1, FS_Singleton
<1>3. x \in Node /\ x # n /\ \A m \in Node : m # n <=> m = x
  BY <1>2
<1>4. Peer(n) = x
  BY <1>3 DEF Peer
<1>5. Peer(x) = n
  BY <1>3 DEF Peer
<1> QED BY <1>3, <1>4, <1>5
------------------------------------------------------------------------------
(* Types *)

\* TypeOK holds in every reachable state, however often the users ask and delete and
\* however many crashes and calls there are.
THEOREM TypeCorrect == Spec => []TypeOK
<1> USE DEF Call, Answer, Idle, Direction, Wiper, Control, LoopStep, ContactStatus
<1>1. Init => TypeOK
  <2> SUFFICES ASSUME Init PROVE TypeOK
    OBVIOUS
  <2>1. NoWipe \in [Wiper -> {"idle", "session", "requests", "contact"}]
    BY DEF NoWipe
  <2>2. \A n \in Node : wiping[n]["loop"] = "idle"
    BY DEF Init, NoWipe
  <2> QED BY <2>1, <2>2 DEF Init, TypeOK
<1>2. TypeOK /\ [Next]_vars => TypeOK'
  <2> SUFFICES ASSUME TypeOK, [Next]_vars
               PROVE  TypeOK'
    OBVIOUS
  <2> USE DEF TypeOK, rowVars, taskVars, netVars, historyVars, Sends
  <2>1. ASSUME NEW n \in Node, User(n)
        PROVE  TypeOK'
    <3>1. CASE AskContact(n)
      <4>1. asks' \in [Node -> Nat] /\ consent' \in [Node -> BOOLEAN]
        BY <3>1 DEF AskContact
      <4>2. pending' \in [Node -> SUBSET Direction]
        <5>1. CASE session[n]
          BY <3>1, <5>1 DEF AskContact
        <5>2. CASE ~session[n]
          <6>1. pending' = [pending EXCEPT ![n] = @ \cup {"outgoing"}]
            BY <3>1, <5>2 DEF AskContact
          <6> QED BY <6>1
        <5> QED BY <5>1, <5>2
      <4>3. asking' \in [Node -> {"no", "row", "row_then_call", "call", "wait"}]
        <5>1. PICK step \in {"no", "row", "row_then_call", "call", "wait"} :
                asking' = [asking EXCEPT ![n] = step]
          BY <3>1 DEF AskContact
        <5> QED BY <5>1
      <4> QED BY <3>1, <4>1, <4>2, <4>3 DEF AskContact
    <3>2. CASE AskInsert(n)
      BY <3>2 DEF AskInsert
    <3>3. CASE AskCall(n)
      BY <3>3 DEF AskCall
    <3>4. CASE AskAccepted(n)
      BY <3>4, PeerIsOther DEF AskAccepted, NewRow
    <3>5. CASE AskFails(n)
      BY <3>5 DEF AskFails
    <3>6. ASSUME NEW row \in AnswerButtons, AcceptRequest(n, row)
          PROVE  TypeOK'
      BY <3>6 DEF AcceptRequest
    <3>7. ASSUME NEW row \in AnswerButtons, RejectRequest(n, row)
          PROVE  TypeOK'
      BY <3>7 DEF RejectRequest
    <3>8. ASSUME NEW row \in Direction, CancelRequest(n, row)
          PROVE  TypeOK'
      BY <3>8 DEF CancelRequest
    <3>9. CASE FinishAnswer(n)
      BY <3>9 DEF FinishAnswer
    <3>10. CASE TellPeer(n)
      BY <3>10 DEF TellPeer
    <3>11. CASE SendText(n)
      BY <3>11 DEF SendText
    <3>12. CASE DeleteContact(n)
      <4>1. dels' \in [Node -> Nat]
        BY <3>12 DEF DeleteContact
      <4>2. erasure' \in [Node -> Nat] /\ sealed' \in [Node -> Nat]
        <5>1. CASE session[n]
          <6>1. dels'[n] \in Nat
            BY <4>1
          <6> QED BY <3>12, <5>1, <6>1 DEF DeleteContact
        <5>2. CASE ~session[n]
          BY <3>12, <5>2 DEF DeleteContact
        <5> QED BY <5>1, <5>2
      <4>3. /\ wiping' \in [Node -> [Wiper -> {"idle", "session", "requests", "contact"}]]
            /\ \A m \in Node : wiping'[m]["loop"] = wiping[m]["loop"]
        BY <3>12 DEF DeleteContact
      <4> QED BY <3>12, <4>1, <4>2, <4>3 DEF DeleteContact
    <3> QED BY <2>1, <3>1, <3>2, <3>3, <3>4, <3>5, <3>6, <3>7, <3>8, <3>9, <3>10, <3>11,
               <3>12 DEF User
  <2>2. ASSUME NEW n \in Node, EventLoop(n)
        PROVE  TypeOK'
    <3>0. \A m \in Node : Peer(m) \in Node
      BY PeerIsOther
    <3>1. ASSUME NEW c \in wire, HandleHandshake(n, c)
          PROVE  TypeOK'
      BY <3>1, <3>0 DEF HandleHandshake, NewRow, Waits
    <3>2. ASSUME NEW c \in wire, HandleMsg(n, c)
          PROVE  TypeOK'
      <4>1. /\ c.from \in Node /\ c.no \in Nat /\ c.kind \in Control \cup {"text"}
            /\ loop[n] = Idle
        BY <3>2 DEF HandleMsg
      <4>2. loop' \in [Node -> [kind : LoopStep, no : Nat]]
        <5>1. loop' = loop \/ loop' = [loop EXCEPT ![n] = [kind |-> c.kind, no |-> c.no]]
          BY <3>2 DEF HandleMsg
        <5>2. [kind |-> c.kind, no |-> c.no] \in [kind : LoopStep, no : Nat]
          BY <4>1
        <5>3. loop \in [Node -> [kind : LoopStep, no : Nat]]
          OBVIOUS
        <5> HIDE DEF TypeOK, LoopStep
        <5> QED BY <5>1, <5>2, <5>3
      <4>3. reply' \subseteq [kind : {"accept", "already", "acked"}, to : Node, no : Nat]
        BY <3>2, <4>1 DEF HandleMsg, Acked
      <4>4. \A m \in Node : wiping[m]["loop"] # "idle" => loop'[m].kind = "deleted"
        <5>1. wiping[n]["loop"] = "idle"
          BY <4>1
        <5>2. \A m \in Node : m # n => loop'[m] = loop[m]
          BY <3>2 DEF HandleMsg
        <5> SUFFICES ASSUME NEW m \in Node, wiping[m]["loop"] # "idle"
                     PROVE  loop'[m].kind = "deleted"
          OBVIOUS
        <5>3. m # n
          BY <5>1
        <5> QED BY <5>2, <5>3
      <4>5. /\ UNCHANGED <<rowVars, asking, answering, wiping, asks, dels, since, sealed,
                          consent, crashes>>
            /\ wire' \subseteq wire
            /\ spared' \in [Node -> BOOLEAN]
        BY <3>2 DEF HandleMsg
      <4> QED BY <4>2, <4>3, <4>4, <4>5
    <3>3. CASE Surface(n)
      BY <3>3 DEF Surface
    <3>4. CASE SurfaceContact(n)
      <4>1. contact' \in [Node -> ContactStatus]
        BY <3>4 DEF SurfaceContact
      <4>2. loop' \in [Node -> [kind : LoopStep, no : Nat]]
        <5>1. loop' = [loop EXCEPT ![n] = [loop[n] EXCEPT !.kind = "request"]]
          BY <3>4 DEF SurfaceContact
        <5>2. loop \in [Node -> [kind : LoopStep, no : Nat]]
          OBVIOUS
        <5> HIDE DEF TypeOK
        <5>3. [loop[n] EXCEPT !.kind = "request"] \in [kind : LoopStep, no : Nat]
          BY <5>2
        <5> HIDE DEF LoopStep
        <5> QED BY <5>1, <5>2, <5>3
      <4>3. \A m \in Node : wiping[m]["loop"] # "idle" => loop'[m].kind = "deleted"
        BY <3>4 DEF SurfaceContact
      <4> QED BY <3>4, <4>1, <4>2, <4>3 DEF SurfaceContact
    <3>5. CASE SurfaceRequest(n)
      BY <3>5 DEF SurfaceRequest
    <3>6. CASE ClearRequests(n)
      BY <3>6 DEF ClearRequests
    <3>7. CASE ApplyControl(n)
      BY <3>7 DEF ApplyControl
    <3>8. CASE ApplyText(n)
      BY <3>8 DEF ApplyText
    <3>9. CASE Promote(n)
      BY <3>9 DEF Promote
    <3>10. CASE ApplyDeleted(n)
      BY <3>10 DEF ApplyDeleted
    <3> QED BY <2>2, <3>1, <3>2, <3>3, <3>4, <3>5, <3>6, <3>7, <3>8, <3>9, <3>10
            DEF EventLoop
  <2>3. ASSUME NEW n \in Node, Erase(n)
        PROVE  TypeOK'
    <3>1. ASSUME NEW w \in Wiper, WipeSession(n, w)
          PROVE  TypeOK'
      BY <3>1 DEF WipeSession
    <3>2. ASSUME NEW w \in Wiper, WipeRequests(n, w)
          PROVE  TypeOK'
      BY <3>2 DEF WipeRequests
    <3>3. ASSUME NEW w \in Wiper, WipeContact(n, w)
          PROVE  TypeOK'
      <4>1. loop[n].no \in Nat /\ Peer(n) \in Node
        BY PeerIsOther
      <4>2. reply' \subseteq [kind : {"accept", "already", "acked"}, to : Node, no : Nat]
        BY <3>3, <4>1 DEF WipeContact
      <4>3. loop' \in [Node -> [kind : LoopStep, no : Nat]]
        <5>1. CASE loop' = loop
          BY <5>1
        <5>2. CASE loop' = [loop EXCEPT ![n] = Idle]
          <6>1. Idle \in [kind : LoopStep, no : Nat]
            OBVIOUS
          <6>2. loop \in [Node -> [kind : LoopStep, no : Nat]]
            OBVIOUS
          <6> HIDE DEF TypeOK, Idle, LoopStep
          <6> QED BY <5>2, <6>1, <6>2
        <5> QED BY <3>3, <5>1, <5>2 DEF WipeContact
      <4>4. wiping' \in [Node -> [Wiper -> {"idle", "session", "requests", "contact"}]]
        BY <3>3 DEF WipeContact
      <4>5. ASSUME NEW m \in Node, wiping'[m]["loop"] # "idle"
            PROVE  loop'[m].kind = "deleted"
        <5>1. wiping[m]["loop"] # "idle" /\ (w = "loop" => m # n)
          BY <3>3, <4>5 DEF WipeContact
        <5>2. loop'[m] = loop[m]
          BY <3>3, <5>1 DEF WipeContact
        <5> QED BY <5>1, <5>2
      <4>6. contact' \in [Node -> ContactStatus]
        BY <3>3 DEF WipeContact
      <4> QED BY <3>3, <4>2, <4>3, <4>4, <4>5, <4>6 DEF WipeContact
    <3>4. CASE FlushDelete(n)
      BY <3>4 DEF FlushDelete
    <3>5. ASSUME NEW a \in reply, DeleteAcked(n, a)
          PROVE  TypeOK'
      BY <3>5 DEF DeleteAcked
    <3> QED BY <2>3, <3>1, <3>2, <3>3, <3>4, <3>5 DEF Erase
  <2>4. ASSUME NEW n \in Node, Crash(n)
        PROVE  TypeOK'
    BY <2>4 DEF Crash, NoWipe
  <2>5. ASSUME NEW c \in wire, LoseCall(c)
        PROVE  TypeOK'
    BY <2>5 DEF LoseCall
  <2>6. CASE UNCHANGED vars
    BY <2>6 DEF vars
  <2> QED BY <2>1, <2>2, <2>3, <2>4, <2>5, <2>6 DEF Next
<1> QED BY <1>1, <1>2, PTL DEF Spec

------------------------------------------------------------------------------
(* Consent *)

\* ConsentInv holds in every reachable state: no task, request row or call is on its way
\* to Accepted without the will of the users it stands for.
THEOREM ConsentCorrect == Spec => []ConsentInv
<1> USE DEF Call, Idle
<1>1. Init => ConsentInv
  BY DEF Init, ConsentInv, OwnSteps, PeerSteps, AgreedSteps, CallSteps
<1>2. TypeOK /\ ConsentInv /\ [Next]_vars => ConsentInv'
  <2> SUFFICES ASSUME TypeOK, ConsentInv, [Next]_vars
               PROVE  ConsentInv'
    OBVIOUS
  <2> USE DEF ConsentInv, OwnSteps, PeerSteps, AgreedSteps, CallSteps,
              rowVars, taskVars, netVars, historyVars
  <2>1. \A n \in Node : Peer(n) \in Node /\ Peer(Peer(n)) = n
    BY PeerIsOther
  <2>2. /\ contact \in [Node -> ContactStatus]
        /\ pending \in [Node -> SUBSET Direction]
        /\ DOMAIN asking = Node /\ DOMAIN answering = Node
        /\ loop \in [Node -> [kind : LoopStep, no : Nat]]
        /\ \A c \in wire : c.from \in Node
        /\ consent \in [Node -> BOOLEAN]
    BY DEF TypeOK
  <2>3. ASSUME NEW n \in Node, User(n)
        PROVE  ConsentInv'
    <3>1. CASE AskContact(n)
      BY <3>1, <2>1, <2>2 DEF AskContact
    <3>2. CASE AskInsert(n)
      BY <3>2, <2>1, <2>2 DEF AskInsert
    <3>3. CASE AskCall(n)
      BY <3>3, <2>1, <2>2 DEF AskCall, Sends
    <3>4. CASE AskAccepted(n)
      BY <3>4, <2>1, <2>2 DEF AskAccepted
    <3>5. CASE AskFails(n)
      BY <3>5, <2>1, <2>2 DEF AskFails
    <3>6. ASSUME NEW row \in AnswerButtons, AcceptRequest(n, row)
          PROVE  ConsentInv'
      BY <3>6, <2>1, <2>2 DEF AcceptRequest, AnswerButtons
    <3>7. ASSUME NEW row \in AnswerButtons, RejectRequest(n, row)
          PROVE  ConsentInv'
      BY <3>7, <2>1, <2>2 DEF RejectRequest
    <3>8. ASSUME NEW row \in Direction, CancelRequest(n, row)
          PROVE  ConsentInv'
      BY <3>8, <2>1, <2>2 DEF CancelRequest
    <3>9. CASE FinishAnswer(n)
      BY <3>9, <2>1, <2>2 DEF FinishAnswer
    <3>10. CASE TellPeer(n)
      BY <3>10, <2>1, <2>2 DEF TellPeer, Sends
    <3>11. CASE SendText(n)
      BY <3>11, <2>1, <2>2 DEF SendText, Sends
    <3>12. CASE DeleteContact(n)
      BY <3>12, <2>1, <2>2 DEF DeleteContact
    <3> QED BY <2>3, <3>1, <3>2, <3>3, <3>4, <3>5, <3>6, <3>7,
               <3>8, <3>9, <3>10, <3>11, <3>12 DEF User
  <2>4. ASSUME NEW n \in Node, EventLoop(n)
        PROVE  ConsentInv'
    <3>1. ASSUME NEW c \in wire, HandleHandshake(n, c)
          PROVE  ConsentInv'
      BY <3>1, <2>1, <2>2 DEF HandleHandshake
    <3>2. ASSUME NEW c \in wire, HandleMsg(n, c)
          PROVE  ConsentInv'
      BY <3>2, <2>1, <2>2 DEF HandleMsg, Control
    <3>3. CASE Surface(n)
      BY <3>3, <2>1, <2>2 DEF Surface
    <3>4. CASE SurfaceContact(n)
      BY <3>4, <2>1, <2>2 DEF SurfaceContact
    <3>5. CASE SurfaceRequest(n)
      BY <3>5, <2>1, <2>2 DEF SurfaceRequest
    <3>6. CASE ClearRequests(n)
      BY <3>6, <2>1, <2>2 DEF ClearRequests
    <3>7. CASE ApplyControl(n)
      BY <3>7, <2>1, <2>2 DEF ApplyControl
    <3>8. CASE ApplyText(n)
      BY <3>8, <2>1, <2>2 DEF ApplyText
    <3>9. CASE Promote(n)
      BY <3>9, <2>1, <2>2 DEF Promote
    <3>10. CASE ApplyDeleted(n)
      BY <3>10, <2>1, <2>2 DEF ApplyDeleted
    <3> QED BY <2>4, <3>1, <3>2, <3>3, <3>4, <3>5, <3>6, <3>7, <3>8, <3>9, <3>10
            DEF EventLoop
  <2>5. ASSUME NEW n \in Node, Erase(n)
        PROVE  ConsentInv'
    <3>1. ASSUME NEW w \in Wiper, WipeSession(n, w)
          PROVE  ConsentInv'
      BY <3>1 DEF WipeSession
    <3>2. ASSUME NEW w \in Wiper, WipeRequests(n, w)
          PROVE  ConsentInv'
      BY <3>2, <2>2 DEF WipeRequests
    <3>3. ASSUME NEW w \in Wiper, WipeContact(n, w)
          PROVE  ConsentInv'
      BY <3>3, <2>2 DEF WipeContact
    <3>4. CASE FlushDelete(n)
      BY <3>4 DEF FlushDelete, Sends
    <3>5. ASSUME NEW a \in reply, DeleteAcked(n, a)
          PROVE  ConsentInv'
      BY <3>5 DEF DeleteAcked
    <3> QED BY <2>5, <3>1, <3>2, <3>3, <3>4, <3>5 DEF Erase
  <2>6. ASSUME NEW n \in Node, Crash(n)
        PROVE  ConsentInv'
    BY <2>6, <2>2 DEF Crash
  <2>7. ASSUME NEW c \in wire, LoseCall(c)
        PROVE  ConsentInv'
    BY <2>7 DEF LoseCall
  <2>8. CASE UNCHANGED vars
    BY <2>8 DEF vars
  <2> QED BY <2>3, <2>4, <2>5, <2>6, <2>7, <2>8 DEF Next
<1> QED BY <1>1, <1>2, TypeCorrect, PTL DEF Spec

\* Nobody is accepted whom the user of either side never asked for or accepted, through
\* crossing requests, repeated and late calls, deletions, re-adds and crashes.
THEOREM MutualConsentCorrect == Spec => []MutualConsent
<1>1. ConsentInv => MutualConsent
  BY DEF ConsentInv, AgreedSteps, MutualConsent
<1> QED BY <1>1, ConsentCorrect, PTL

------------------------------------------------------------------------------
(* Consent *)

\* Under the mapping wants <- consent, status <- contact, every step of the two nodes is
\* a Consent step or a stutter: tasks, control messages, wipes and crashes in any order
\* write no status that the wishes of the two users do not allow.
THEOREM Refinement == Spec => ImplementsConsent
<1>1. Init => Bond!Init
  BY DEF Init, Bond!Init
<1>2. TypeOK /\ ConsentInv /\ [Next]_vars => [Bond!Next]_<<consent, contact>>
  <2> SUFFICES ASSUME TypeOK, ConsentInv, [Next]_vars
               PROVE  [Bond!Next]_<<consent, contact>>
    OBVIOUS
  <2> USE DEF rowVars, taskVars, netVars, historyVars
  <2>1. \A n \in Node : Bond!Peer(n) = Peer(n)
    BY DEF Peer, Bond!Peer
  <2>2. contact \in [Node -> ContactStatus]
    BY DEF TypeOK
  <2>3. ASSUME NEW n \in Node,
               \/ Bond!Want(n) \/ Bond!ShowAsked(n) \/ Bond!ShowRequest(n) \/ Bond!Agree(n)
               \/ Bond!Dismiss(n) \/ Bond!Forget(n)
        PROVE  Bond!Next
    BY <2>3 DEF Bond!Next
  <2>4. ASSUME NEW n \in Node, consent' = [consent EXCEPT ![n] = TRUE], UNCHANGED contact
        PROVE  Bond!Next
    BY <2>3, <2>4 DEF Bond!Want
  <2>5. ASSUME NEW n \in Node, AskInsert(n)
        PROVE  Bond!Next
    <3>1. consent[n] /\ UNCHANGED consent /\ contact' = [contact EXCEPT ![n] = "pending_out"]
      BY <2>5 DEF AskInsert, ConsentInv, OwnSteps
    <3> QED BY <2>3, <3>1 DEF Bond!ShowAsked, Bond!Shows
  <2>6. ASSUME NEW n \in Node, SurfaceContact(n)
        PROVE  Bond!Next
    <3>1. /\ consent[Peer(n)] /\ UNCHANGED consent
          /\ contact' = [contact EXCEPT ![n] = "pending_in"]
      BY <2>6 DEF SurfaceContact, ConsentInv, PeerSteps
    <3> QED BY <2>1, <2>3, <3>1 DEF Bond!ShowRequest, Bond!Shows
  <2>7. ASSUME NEW n \in Node, NEW s,
               contact' = [contact EXCEPT ![n] = IF @ = "none" THEN "none" ELSE s],
               UNCHANGED consent,
               \/ s \in {"blocked", "removed"}
               \/ s = "accepted" /\ consent[n] /\ consent[Peer(n)]
        PROVE  Bond!Next \/ UNCHANGED <<consent, contact>>
    <3>1. CASE contact[n] = "none"
      BY <2>2, <2>7, <3>1
    <3>2. CASE contact[n] # "none"
      <4>1. contact' = [contact EXCEPT ![n] = s]
        BY <2>2, <2>7, <3>2
      <4>2. CASE s \in {"blocked", "removed"}
        BY <2>3, <2>7, <3>2, <4>1, <4>2 DEF Bond!Dismiss, Bond!Shows
      <4>3. CASE s = "accepted" /\ consent[n] /\ consent[Peer(n)]
        BY <2>1, <2>3, <2>7, <3>2, <4>1, <4>3 DEF Bond!Agree, Bond!Shows
      <4> QED BY <2>7, <4>2, <4>3
    <3> QED BY <3>1, <3>2
  <2>8. ASSUME NEW n \in Node, FinishAnswer(n)
        PROVE  Bond!Next \/ UNCHANGED <<consent, contact>>
    <3>1. answering[n] = "accepted" => consent[n] /\ consent[Peer(n)]
      BY DEF ConsentInv, AgreedSteps
    <3>2. /\ answering[n] \in {"accepted", "blocked", "removed"} /\ UNCHANGED consent
          /\ contact' = [contact EXCEPT ![n] = IF @ = "none" THEN "none" ELSE answering[n]]
      BY <2>8 DEF FinishAnswer
    <3> QED BY <2>7, <3>1, <3>2
  <2>9. ASSUME NEW n \in Node, ApplyControl(n)
        PROVE  Bond!Next \/ UNCHANGED <<consent, contact>>
    <3> DEFINE s == IF loop[n].kind = "grant" THEN "accepted" ELSE "blocked"
    <3>1. loop[n].kind = "grant" => consent[n] /\ consent[Peer(n)]
      BY DEF ConsentInv, AgreedSteps
    <3>2. contact' = [contact EXCEPT ![n] = IF @ = "none" THEN "none" ELSE s]
          /\ UNCHANGED consent
      BY <2>9 DEF ApplyControl
    <3>3. \/ s \in {"blocked", "removed"}
          \/ s = "accepted" /\ consent[n] /\ consent[Peer(n)]
      BY <3>1
    <3> HIDE DEF s
    <3> QED BY <2>7, <3>2, <3>3
  <2>10. ASSUME NEW n \in Node, Promote(n)
         PROVE  Bond!Next \/ UNCHANGED <<consent, contact>>
    <3>1. consent[n] /\ consent[Peer(n)]
      BY <2>10 DEF Promote, ConsentInv, AgreedSteps
    <3>2. contact' = [contact EXCEPT ![n] = IF @ = "none" THEN "none" ELSE "accepted"]
          /\ UNCHANGED consent
      BY <2>10 DEF Promote
    <3> QED BY <2>7, <3>1, <3>2
  <2>11. ASSUME NEW n \in Node, NEW w \in Wiper, WipeContact(n, w)
         PROVE  Bond!Next
    <3>1. contact' = [contact EXCEPT ![n] = "none"] /\ UNCHANGED consent
      BY <2>11 DEF WipeContact
    <3> QED BY <2>3, <3>1 DEF Bond!Forget, Bond!Shows
  <2>12. ASSUME NEW n \in Node, User(n)
         PROVE  Bond!Next \/ UNCHANGED <<consent, contact>>
    <3>1. CASE AskContact(n) \/ \E row \in AnswerButtons : AcceptRequest(n, row)
      <4>1. consent' = [consent EXCEPT ![n] = TRUE] /\ UNCHANGED contact
        BY <3>1 DEF AskContact, AcceptRequest
      <4> QED BY <2>4, <4>1
    <3>2. CASE \/ AskCall(n) \/ AskAccepted(n) \/ AskFails(n)
               \/ \E row \in AnswerButtons : RejectRequest(n, row)
               \/ \E row \in Direction : CancelRequest(n, row)
               \/ TellPeer(n) \/ SendText(n) \/ DeleteContact(n)
      BY <3>2 DEF AskCall, AskAccepted, AskFails, RejectRequest, CancelRequest, TellPeer,
         SendText, DeleteContact
    <3> QED BY <2>5, <2>8, <2>12, <3>1, <3>2 DEF User
  <2>13. ASSUME NEW n \in Node, EventLoop(n)
         PROVE  Bond!Next \/ UNCHANGED <<consent, contact>>
    <3>1. ASSUME NEW c \in wire, HandleHandshake(n, c) \/ HandleMsg(n, c)
          PROVE  UNCHANGED <<consent, contact>>
      BY <3>1 DEF HandleHandshake, HandleMsg
    <3>2. CASE \/ Surface(n) \/ SurfaceRequest(n) \/ ClearRequests(n) \/ ApplyText(n)
               \/ ApplyDeleted(n)
      BY <3>2 DEF Surface, SurfaceRequest, ClearRequests, ApplyText, ApplyDeleted
    <3> QED BY <2>6, <2>9, <2>10, <2>13, <3>1, <3>2 DEF EventLoop
  <2>14. ASSUME NEW n \in Node, Erase(n)
         PROVE  Bond!Next \/ UNCHANGED <<consent, contact>>
    <3>1. ASSUME NEW w \in Wiper, WipeSession(n, w) \/ WipeRequests(n, w)
          PROVE  UNCHANGED <<consent, contact>>
      BY <3>1 DEF WipeSession, WipeRequests
    <3>2. CASE FlushDelete(n) \/ \E a \in reply : DeleteAcked(n, a)
      BY <3>2 DEF FlushDelete, DeleteAcked
    <3> QED BY <2>11, <2>14, <3>1, <3>2 DEF Erase
  <2>15. CASE (\E n \in Node : Crash(n)) \/ (\E c \in wire : LoseCall(c)) \/ UNCHANGED vars
    BY <2>15 DEF Crash, LoseCall, vars
  <2> QED BY <2>12, <2>13, <2>14, <2>15 DEF Next
<1> QED BY <1>1, <1>2, TypeCorrect, ConsentCorrect, PTL
        DEF Spec, ImplementsConsent, Bond!Spec, Bond!vars

------------------------------------------------------------------------------
(* Requests that can be answered *)

\* PendingIsAnswerable with the answer still to be written, and no promotion in between:
\* what holds of every step while nobody has crashed.
AnswerInv ==
    crashes = 0 =>
        \A n \in Node :
            /\ loop[n].kind = "clear" => contact[n] # "pending_in"
            /\ contact[n] = "pending_in" =>
                \/ "incoming" \in pending[n]
                \/ answering[n] \in {"accepted", "blocked", "removed"}
                \/ loop[n].kind \in {"request", "grant", "refuse"}
                \/ \E w \in Wiper : wiping[n][w] = "contact"

\* Without a crash, a contact that waits for this user's answer can be answered, however
\* requests, answers, deletions and control messages of both sides interleave.
THEOREM PendingIsAnswerableCorrect == Spec => []PendingIsAnswerable
<1> USE DEF Idle
<1>1. Init => AnswerInv
  BY DEF Init, AnswerInv
<1>2. TypeOK /\ AnswerInv /\ [Next]_vars => AnswerInv'
  <2> SUFFICES ASSUME TypeOK, AnswerInv, [Next]_vars
               PROVE  AnswerInv'
    OBVIOUS
  <2> USE DEF AnswerInv, rowVars, taskVars, netVars, historyVars, Wiper
  <2>1. /\ contact \in [Node -> ContactStatus]
        /\ pending \in [Node -> SUBSET Direction]
        /\ answering \in [Node -> {"no", "accepted", "blocked", "removed", "tell_accepted",
                                   "tell_rejected"}]
        /\ loop \in [Node -> [kind : LoopStep, no : Nat]]
        /\ wiping \in [Node -> [{"user", "loop"} -> {"idle", "session", "requests", "contact"}]]
        /\ crashes \in Nat
    BY DEF TypeOK
  <2>3. ASSUME NEW n \in Node, User(n)
        PROVE  AnswerInv'
    <3>1. CASE AskContact(n)
      BY <3>1, <2>1 DEF AskContact
    <3>2. CASE AskInsert(n)
      BY <3>2, <2>1 DEF AskInsert
    <3>3. CASE AskCall(n)
      BY <3>3, <2>1 DEF AskCall, Sends
    <3>4. CASE AskAccepted(n)
      BY <3>4, <2>1 DEF AskAccepted
    <3>5. CASE AskFails(n)
      BY <3>5, <2>1 DEF AskFails
    <3>6. ASSUME NEW row \in AnswerButtons, AcceptRequest(n, row)
          PROVE  AnswerInv'
      BY <3>6, <2>1 DEF AcceptRequest
    <3>7. ASSUME NEW row \in AnswerButtons, RejectRequest(n, row)
          PROVE  AnswerInv'
      BY <3>7, <2>1 DEF RejectRequest
    <3>8. ASSUME NEW row \in Direction, CancelRequest(n, row)
          PROVE  AnswerInv'
      BY <3>8, <2>1 DEF CancelRequest
    <3>9. CASE FinishAnswer(n)
      BY <3>9, <2>1 DEF FinishAnswer
    <3>10. CASE TellPeer(n)
      BY <3>10, <2>1 DEF TellPeer, Sends
    <3>11. CASE SendText(n)
      BY <3>11, <2>1 DEF SendText, Sends
    <3>12. CASE DeleteContact(n)
      BY <3>12, <2>1 DEF DeleteContact
    <3> QED BY <2>3, <3>1, <3>2, <3>3, <3>4, <3>5, <3>6, <3>7,
               <3>8, <3>9, <3>10, <3>11, <3>12 DEF User
  <2>4. ASSUME NEW n \in Node, EventLoop(n)
        PROVE  AnswerInv'
    <3>1. ASSUME NEW c \in wire, HandleHandshake(n, c)
          PROVE  AnswerInv'
      BY <3>1, <2>1 DEF HandleHandshake
    <3>2. ASSUME NEW c \in wire, HandleMsg(n, c)
          PROVE  AnswerInv'
      <4>1. /\ UNCHANGED <<contact, pending, answering, wiping, crashes>>
            /\ loop[n] = Idle
            /\ \A m \in Node : m # n => loop'[m] = loop[m]
            /\ loop'[n] = Idle \/ loop'[n].kind \in Control \cup {"text"}
        BY <3>2, <2>1 DEF HandleMsg
      <4> QED BY <4>1, <2>1 DEF Control
    <3>3. CASE Surface(n)
      BY <3>3, <2>1 DEF Surface
    <3>4. CASE SurfaceContact(n)
      BY <3>4, <2>1 DEF SurfaceContact
    <3>5. CASE SurfaceRequest(n)
      BY <3>5, <2>1 DEF SurfaceRequest
    <3>6. CASE ClearRequests(n)
      BY <3>6, <2>1 DEF ClearRequests
    <3>7. CASE ApplyControl(n)
      BY <3>7, <2>1 DEF ApplyControl
    <3>8. CASE ApplyText(n)
      BY <3>8, <2>1 DEF ApplyText
    <3>9. CASE Promote(n)
      BY <3>9, <2>1 DEF Promote
    <3>10. CASE ApplyDeleted(n)
      BY <3>10, <2>1 DEF ApplyDeleted
    <3> QED BY <2>4, <3>1, <3>2, <3>3, <3>4, <3>5, <3>6, <3>7, <3>8, <3>9, <3>10
            DEF EventLoop
  <2>5. ASSUME NEW n \in Node, Erase(n)
        PROVE  AnswerInv'
    <3>1. ASSUME NEW w \in Wiper, WipeSession(n, w)
          PROVE  AnswerInv'
      BY <3>1, <2>1 DEF WipeSession
    <3>2. ASSUME NEW w \in Wiper, WipeRequests(n, w)
          PROVE  AnswerInv'
      BY <3>2, <2>1 DEF WipeRequests
    <3>3. ASSUME NEW w \in Wiper, WipeContact(n, w)
          PROVE  AnswerInv'
      BY <3>3, <2>1 DEF WipeContact
    <3>4. CASE FlushDelete(n)
      BY <3>4, <2>1 DEF FlushDelete, Sends
    <3>5. ASSUME NEW a \in reply, DeleteAcked(n, a)
          PROVE  AnswerInv'
      BY <3>5, <2>1 DEF DeleteAcked
    <3> QED BY <2>5, <3>1, <3>2, <3>3, <3>4, <3>5 DEF Erase
  <2>6. ASSUME NEW n \in Node, Crash(n)
        PROVE  AnswerInv'
    BY <2>6, <2>1 DEF Crash, NoWipe
  <2>7. ASSUME NEW c \in wire, LoseCall(c)
        PROVE  AnswerInv'
    BY <2>7, <2>1 DEF LoseCall
  <2>8. CASE UNCHANGED vars
    BY <2>8 DEF vars
  <2> QED BY <2>3, <2>4, <2>5, <2>6, <2>7, <2>8 DEF Next
<1>3. TypeOK /\ AnswerInv => PendingIsAnswerable
  BY DEF AnswerInv, PendingIsAnswerable
<1> QED BY <1>1, <1>2, <1>3, TypeCorrect, PTL DEF Spec

------------------------------------------------------------------------------
(* Sessions on both sides *)

\* SessionIsShared, that a handshake is under way only for a node that has asked, and what
\* no deletion means: no wipe, no ChatDeleted, and an acceptance only from a peer with a row.
ShareInv ==
    /\ \A n \in Node : asking[n] # "no" => asks[n] # 0
    /\ \A c \in wire : c.kind = "handshake" => asks[c.from] # 0
    /\ (\A n \in Node : dels[n] = 0) =>
        /\ \A n \in Node : /\ erasure[n] = 0
                           /\ loop[n].kind # "deleted"
                           /\ \A w \in Wiper : wiping[n][w] = "idle"
                           /\ session[n] /\ asks[Peer(n)] = 0 => session[Peer(n)]
        /\ \A c \in wire : c.kind # "deleted"
        /\ \A a \in reply : a.kind = "accept" => session[Peer(a.to)]

\* Before the first deletion a session is on the side of the node that asked only together
\* with the other side's, through lost calls, late answers and crashes.
THEOREM SessionIsSharedCorrect == Spec => []SessionIsShared
<1> USE DEF Call, Answer, Idle
<1>1. Init => ShareInv
  BY DEF Init, ShareInv, NoWipe
<1>2. TypeOK /\ ShareInv /\ [Next]_vars => ShareInv'
  <2> SUFFICES ASSUME TypeOK, ShareInv, [Next]_vars
               PROVE  ShareInv'
    OBVIOUS
  <2> USE DEF ShareInv, rowVars, taskVars, netVars, historyVars
  <2>1. \A n \in Node : Peer(n) \in Node /\ Peer(Peer(n)) = n
    BY PeerIsOther
  <2>2. /\ session \in [Node -> BOOLEAN]
        /\ erasure \in [Node -> Nat]
        /\ DOMAIN asking = Node /\ DOMAIN wiping = Node
        /\ loop \in [Node -> [kind : LoopStep, no : Nat]]
        /\ wiping \in [Node -> [Wiper -> {"idle", "session", "requests", "contact"}]]
        /\ \A c \in wire : c.from \in Node
        /\ \A a \in reply : a.to \in Node
        /\ asks \in [Node -> Nat]
        /\ dels \in [Node -> Nat]
    BY DEF TypeOK
  <2>3. ASSUME NEW n \in Node, User(n)
        PROVE  ShareInv'
    <3>1. CASE AskContact(n)
      BY <3>1, <2>1, <2>2 DEF AskContact
    <3>2. CASE AskInsert(n)
      BY <3>2, <2>1, <2>2 DEF AskInsert
    <3>3. CASE AskCall(n)
      BY <3>3, <2>1, <2>2 DEF AskCall, Sends
    <3>4. CASE AskAccepted(n)
      BY <3>4, <2>1, <2>2 DEF AskAccepted
    <3>5. CASE AskFails(n)
      BY <3>5, <2>1, <2>2 DEF AskFails
    <3>6. ASSUME NEW row \in AnswerButtons, AcceptRequest(n, row)
          PROVE  ShareInv'
      BY <3>6, <2>1, <2>2 DEF AcceptRequest
    <3>7. ASSUME NEW row \in AnswerButtons, RejectRequest(n, row)
          PROVE  ShareInv'
      BY <3>7, <2>1, <2>2 DEF RejectRequest
    <3>8. ASSUME NEW row \in Direction, CancelRequest(n, row)
          PROVE  ShareInv'
      BY <3>8, <2>1, <2>2 DEF CancelRequest
    <3>9. CASE FinishAnswer(n)
      BY <3>9, <2>1, <2>2 DEF FinishAnswer
    <3>10. CASE TellPeer(n)
      BY <3>10, <2>1, <2>2 DEF TellPeer, Sends
    <3>11. CASE SendText(n)
      BY <3>11, <2>1, <2>2 DEF SendText, Sends
    <3>12. CASE DeleteContact(n)
      BY <3>12, <2>1, <2>2 DEF DeleteContact
    <3> QED BY <2>3, <3>1, <3>2, <3>3, <3>4, <3>5, <3>6, <3>7,
               <3>8, <3>9, <3>10, <3>11, <3>12 DEF User
  <2>4. ASSUME NEW n \in Node, EventLoop(n)
        PROVE  ShareInv'
    <3>1. ASSUME NEW c \in wire, HandleHandshake(n, c)
          PROVE  ShareInv'
      BY <3>1, <2>1, <2>2 DEF HandleHandshake, Waits
    <3>2. ASSUME NEW c \in wire, HandleMsg(n, c)
          PROVE  ShareInv'
      <4>1. /\ UNCHANGED <<session, erasure, asking, wiping, asks, dels>>
            /\ wire' \subseteq wire
            /\ \A m \in Node : m # n => loop'[m] = loop[m]
            /\ loop'[n] = loop[n] \/ loop'[n].kind = c.kind
        BY <3>2, <2>2 DEF HandleMsg
      <4>2. \A a \in reply' : a \in reply \/ a.kind = "acked"
        BY <3>2 DEF HandleMsg, Acked
      <4> QED BY <4>1, <4>2, <2>1, <2>2
    <3>3. CASE Surface(n)
      BY <3>3, <2>1, <2>2 DEF Surface
    <3>4. CASE SurfaceContact(n)
      BY <3>4, <2>1, <2>2 DEF SurfaceContact
    <3>5. CASE SurfaceRequest(n)
      BY <3>5, <2>1, <2>2 DEF SurfaceRequest
    <3>6. CASE ClearRequests(n)
      BY <3>6, <2>1, <2>2 DEF ClearRequests
    <3>7. CASE ApplyControl(n)
      BY <3>7, <2>1, <2>2 DEF ApplyControl
    <3>8. CASE ApplyText(n)
      BY <3>8, <2>1, <2>2 DEF ApplyText
    <3>9. CASE Promote(n)
      BY <3>9, <2>1, <2>2 DEF Promote
    <3>10. CASE ApplyDeleted(n)
      BY <3>10, <2>1, <2>2 DEF ApplyDeleted
    <3> QED BY <2>4, <3>1, <3>2, <3>3, <3>4, <3>5, <3>6, <3>7, <3>8, <3>9, <3>10
            DEF EventLoop
  <2>5. ASSUME NEW n \in Node, Erase(n)
        PROVE  ShareInv'
    <3>1. ASSUME NEW w \in Wiper, WipeSession(n, w)
          PROVE  ShareInv'
      BY <3>1, <2>1, <2>2 DEF WipeSession
    <3>2. ASSUME NEW w \in Wiper, WipeRequests(n, w)
          PROVE  ShareInv'
      BY <3>2, <2>1, <2>2 DEF WipeRequests
    <3>3. ASSUME NEW w \in Wiper, WipeContact(n, w)
          PROVE  ShareInv'
      BY <3>3, <2>1, <2>2 DEF WipeContact
    <3>4. CASE FlushDelete(n)
      BY <3>4, <2>1, <2>2 DEF FlushDelete, Sends
    <3>5. ASSUME NEW a \in reply, DeleteAcked(n, a)
          PROVE  ShareInv'
      BY <3>5, <2>1, <2>2 DEF DeleteAcked
    <3> QED BY <2>5, <3>1, <3>2, <3>3, <3>4, <3>5 DEF Erase
  <2>6. ASSUME NEW n \in Node, Crash(n)
        PROVE  ShareInv'
    BY <2>6, <2>1, <2>2 DEF Crash, NoWipe
  <2>7. ASSUME NEW c \in wire, LoseCall(c)
        PROVE  ShareInv'
    BY <2>7, <2>1, <2>2 DEF LoseCall
  <2>8. CASE UNCHANGED vars
    BY <2>8 DEF vars
  <2> QED BY <2>3, <2>4, <2>5, <2>6, <2>7, <2>8 DEF Next
<1>3. TypeOK /\ ShareInv => SessionIsShared
  BY PeerIsOther DEF TypeOK, ShareInv, SessionIsShared
<1> QED BY <1>1, <1>2, <1>3, TypeCorrect, PTL DEF Spec

------------------------------------------------------------------------------
(* Deletions that are chased *)

\* CopyIsChased, and why an ack may end the chase: it is of no later deletion than the one
\* the row was sealed for, and the peer's session row, if there is one, is newer - from the
\* mirrored wipe that precedes the ack on - or was spared.
ChaseInv ==
    /\ \A n \in Node : erasure[n] \in {0, sealed[n]} /\ sealed[n] <= dels[n]
    /\ \A c \in wire : c.kind = "deleted" => c.no <= dels[c.from]
    /\ \A p \in Node :
        loop[p].kind = "deleted" =>
            /\ loop[p].no <= dels[Peer(p)]
            /\ wiping[p]["loop"] \in {"requests", "contact"} /\ session[p]
                   => loop[p].no <= since[p]
    /\ \A a \in reply :
        a.kind = "acked" =>
            /\ a.no <= dels[a.to]
            /\ session[Peer(a.to)] /\ ~spared[Peer(a.to)] => a.no <= since[Peer(a.to)]
    /\ CopyIsChased

\* A new session row is of a conversation newer than every deletion so far, and owes the
\* invariant nothing; one that is kept owes what it did.
LEMMA BeginsNew ==
    ASSUME TypeOK, ChaseInv, NEW n \in Node, NewRow(n),
           UNCHANGED <<erasure, wiping, dels, sealed>>,
           session' = [session EXCEPT ![n] = TRUE],
           wire' \subseteq wire,
           \A m \in Node : loop'[m] = loop[m] \/ loop'[m].kind = "surface",
           \A a \in reply' : a \in reply \/ a.kind # "acked"
    PROVE  ChaseInv'
<1> USE DEF ChaseInv, CopyIsChased
<1>1. \A m \in Node : Peer(m) \in Node /\ Peer(Peer(m)) = m
  BY PeerIsOther
<1>2. /\ session \in [Node -> BOOLEAN]
      /\ \A m \in Node : dels[m] \in Nat /\ since[m] \in Nat /\ sealed[m] \in Nat
      /\ since \in [Node -> Nat]
      /\ spared \in [Node -> BOOLEAN]
      /\ \A a \in reply : a.to \in Node /\ a.no \in Nat
      /\ \A m \in Node : loop[m].no \in Nat
  BY DEF TypeOK
<1>3. \A m \in Node : session'[m] =>
        \/ since'[m] = dels[Peer(m)]
        \/ session[m] /\ since'[m] = since[m] /\ (spared[m] => spared'[m])
  BY <1>2 DEF NewRow
<1>4. CopyIsChased'
  BY <1>1, <1>2, <1>3
<1>5. \A p \in Node :
        loop'[p].kind = "deleted" =>
            /\ loop'[p].no <= dels[Peer(p)]
            /\ wiping[p]["loop"] \in {"requests", "contact"} /\ session'[p]
                   => loop'[p].no <= since'[p]
  BY <1>1, <1>2, <1>3
<1>6. \A a \in reply' :
        a.kind = "acked" =>
            /\ a.no <= dels[a.to]
            /\ session'[Peer(a.to)] /\ ~spared'[Peer(a.to)] => a.no <= since'[Peer(a.to)]
  BY <1>1, <1>2, <1>3
<1> QED BY <1>4, <1>5, <1>6

\* A conversation the user deleted has a ChatDeleted coming for the peer's copy until the
\* peer has wiped it, for any number of deletions, re-adds, lost acks and crashes.
THEOREM CopyIsChasedCorrect == Spec => []CopyIsChased
<1> USE DEF Call, Answer, Idle
<1>1. Init => ChaseInv
  BY DEF Init, ChaseInv, CopyIsChased
<1>2. TypeOK /\ ChaseInv /\ [Next]_vars => ChaseInv'
  <2> SUFFICES ASSUME TypeOK, ChaseInv, [Next]_vars
               PROVE  ChaseInv'
    OBVIOUS
  <2> USE DEF ChaseInv, CopyIsChased, rowVars, taskVars, netVars, historyVars
  <2>1. \A n \in Node : Peer(n) \in Node /\ Peer(Peer(n)) = n /\ Peer(n) # n
    BY PeerIsOther
  <2>2. /\ session \in [Node -> BOOLEAN]
        /\ erasure \in [Node -> Nat]
        /\ loop \in [Node -> [kind : LoopStep, no : Nat]]
        /\ wiping \in [Node -> [Wiper -> {"idle", "session", "requests", "contact"}]]
        /\ \A c \in wire : c.from \in Node /\ c.no \in Nat
        /\ \A a \in reply : a.to \in Node /\ a.no \in Nat
        /\ dels \in [Node -> Nat]
        /\ since \in [Node -> Nat]
        /\ sealed \in [Node -> Nat]
        /\ spared \in [Node -> BOOLEAN]
        /\ \A n \in Node : wiping[n]["loop"] # "idle" => loop[n].kind = "deleted"
    BY DEF TypeOK
  <2>3. ASSUME NEW n \in Node, User(n)
        PROVE  ChaseInv'
    <3>1. CASE AskContact(n)
      BY <3>1, <2>1, <2>2 DEF AskContact
    <3>2. CASE AskInsert(n)
      BY <3>2, <2>1, <2>2 DEF AskInsert
    <3>3. CASE AskCall(n)
      BY <3>3, <2>1, <2>2 DEF AskCall, Sends
    <3>4. CASE AskAccepted(n)
      <4>1. NewRow(n)
        BY <3>4 DEF AskAccepted
      <4>2. /\ UNCHANGED <<erasure, loop, wiping, wire, dels, sealed>>
            /\ reply' \subseteq reply
            /\ session' = [session EXCEPT ![n] = TRUE]
        BY <3>4 DEF AskAccepted
      <4> QED BY <4>1, <4>2, <2>1, <2>2, BeginsNew
    <3>5. CASE AskFails(n)
      BY <3>5, <2>1, <2>2 DEF AskFails
    <3>6. ASSUME NEW row \in AnswerButtons, AcceptRequest(n, row)
          PROVE  ChaseInv'
      BY <3>6, <2>1, <2>2 DEF AcceptRequest
    <3>7. ASSUME NEW row \in AnswerButtons, RejectRequest(n, row)
          PROVE  ChaseInv'
      BY <3>7, <2>1, <2>2 DEF RejectRequest
    <3>8. ASSUME NEW row \in Direction, CancelRequest(n, row)
          PROVE  ChaseInv'
      BY <3>8, <2>1, <2>2 DEF CancelRequest
    <3>9. CASE FinishAnswer(n)
      BY <3>9, <2>1, <2>2 DEF FinishAnswer
    <3>10. CASE TellPeer(n)
      BY <3>10, <2>1, <2>2 DEF TellPeer, Sends
    <3>11. CASE SendText(n)
      BY <3>11, <2>1, <2>2 DEF SendText, Sends
    <3>12. CASE DeleteContact(n)
      <4>1. /\ UNCHANGED <<session, loop, wire, reply, since, spared>>
            /\ \A m \in Node : wiping'[m]["loop"] = wiping[m]["loop"]
            /\ dels' = [dels EXCEPT ![n] = @ + 1]
        BY <3>12, <2>2 DEF DeleteContact
      <4>2. /\ \A m \in Node : m # n => erasure'[m] = erasure[m] /\ sealed'[m] = sealed[m]
            /\ \/ erasure'[n] = erasure[n] /\ sealed'[n] = sealed[n]
               \/ erasure'[n] = dels'[n] /\ sealed'[n] = dels'[n] /\ dels'[n] # 0
        BY <3>12, <2>2 DEF DeleteContact
      <4>3. \A m \in Node : dels[m] <= dels'[m] /\ dels'[n] = dels[n] + 1
        BY <4>1, <2>2
      <4>4. ASSUME NEW m \in Node
            PROVE  erasure'[m] \in {0, sealed'[m]} /\ sealed'[m] <= dels'[m]
        <5>1. dels[m] \in Nat /\ dels'[m] \in Nat /\ dels[m] <= dels'[m]
          BY <4>1, <2>2
        <5>2. CASE erasure'[m] = erasure[m] /\ sealed'[m] = sealed[m]
          BY <5>1, <5>2, <2>2
        <5>3. CASE erasure'[m] = dels'[m] /\ sealed'[m] = dels'[m]
          BY <5>1, <5>3
        <5> QED BY <4>2, <5>2, <5>3
      <4>5. CopyIsChased'
        <5> SUFFICES ASSUME NEW m \in Node, session[Peer(m)], ~spared[Peer(m)],
                            sealed'[m] > since[Peer(m)]
                     PROVE  erasure'[m] # 0
          BY <4>1
        <5>1. CASE erasure'[m] = erasure[m] /\ sealed'[m] = sealed[m]
          BY <5>1
        <5>2. CASE erasure'[m] = dels'[m] /\ dels'[m] # 0
          BY <5>2
        <5> QED BY <4>2, <5>1, <5>2
      <4>6. \A b \in wire : b.kind = "deleted" => b.no <= dels'[b.from]
        BY <4>3, <4>1, <2>2
      <4>7. \A p \in Node : loop[p].kind = "deleted" => loop[p].no <= dels'[Peer(p)]
        BY <4>3, <4>1, <2>1, <2>2
      <4>8. \A a \in reply : a.kind = "acked" => a.no <= dels'[a.to]
        BY <4>3, <4>1, <2>2
      <4> QED BY <4>1, <4>4, <4>5, <4>6, <4>7, <4>8
    <3> QED BY <2>3, <3>1, <3>2, <3>3, <3>4, <3>5, <3>6, <3>7,
               <3>8, <3>9, <3>10, <3>11, <3>12 DEF User
  <2>4. ASSUME NEW n \in Node, EventLoop(n)
        PROVE  ChaseInv'
    <3>1. ASSUME NEW c \in wire, HandleHandshake(n, c)
          PROVE  ChaseInv'
      <4>1. NewRow(n)
        BY <3>1 DEF HandleHandshake
      <4>2. /\ UNCHANGED <<erasure, wiping, dels, sealed>>
            /\ session' = [session EXCEPT ![n] = TRUE]
            /\ wire' \subseteq wire
            /\ \A m \in Node : loop'[m] = loop[m] \/ loop'[m].kind = "surface"
        BY <3>1, <2>2 DEF HandleHandshake
      <4>3. \A a \in reply' : a \in reply \/ a.kind # "acked"
        BY <3>1 DEF HandleHandshake
      <4> QED BY <4>1, <4>2, <4>3, BeginsNew
    <3>2. ASSUME NEW c \in wire, HandleMsg(n, c)
          PROVE  ChaseInv'
      <4>1. /\ UNCHANGED <<session, erasure, wiping, dels, since, sealed>>
            /\ wire' \subseteq wire
            /\ loop[n] = Idle /\ c.from = Peer(n)
            /\ \A m \in Node : m # n => loop'[m] = loop[m]
            /\ loop'[n] = loop[n] \/ loop'[n] = [kind |-> c.kind, no |-> c.no]
        BY <3>2, <2>2 DEF HandleMsg
      <4>2. \A m \in Node : spared[m] => spared'[m]
        BY <3>2, <2>2 DEF HandleMsg
      <4>3. \A a \in reply' :
              a \in reply \/ (a.to = Peer(n) /\ a.no = c.no /\ c.kind = "deleted" /\ spared'[n])
        BY <3>2, <2>2 DEF HandleMsg, Acked
      <4>4. wiping[n]["loop"] = "idle"
        BY <4>1, <2>2
      <4>5. ASSUME NEW p \in Node, loop'[p].kind = "deleted"
            PROVE  /\ loop'[p].no <= dels[Peer(p)]
                   /\ wiping[p]["loop"] \in {"requests", "contact"} /\ session[p]
                          => loop'[p].no <= since[p]
        <5>1. CASE p # n
          BY <4>1, <4>5, <5>1
        <5>2. CASE p = n
          <6>1. loop'[n] = [kind |-> c.kind, no |-> c.no]
            BY <4>1, <4>5, <5>2
          <6>2. c.no <= dels[c.from]
            BY <4>5, <5>2, <6>1
          <6> QED BY <4>1, <4>4, <5>2, <6>1, <6>2
        <5> QED BY <5>1, <5>2
      <4>6. \A a \in reply' :
              a.kind = "acked" =>
                /\ a.no <= dels[a.to]
                /\ session[Peer(a.to)] /\ ~spared'[Peer(a.to)] => a.no <= since[Peer(a.to)]
        BY <4>1, <4>2, <4>3, <2>1, <2>2
      <4>7. CopyIsChased'
        BY <4>1, <4>2, <2>1, <2>2
      <4> QED BY <4>1, <4>5, <4>6, <4>7
    <3>3. CASE Surface(n)
      BY <3>3, <2>1, <2>2 DEF Surface
    <3>4. CASE SurfaceContact(n)
      BY <3>4, <2>1, <2>2 DEF SurfaceContact
    <3>5. CASE SurfaceRequest(n)
      BY <3>5, <2>1, <2>2 DEF SurfaceRequest
    <3>6. CASE ClearRequests(n)
      BY <3>6, <2>1, <2>2 DEF ClearRequests
    <3>7. CASE ApplyControl(n)
      BY <3>7, <2>1, <2>2 DEF ApplyControl
    <3>8. CASE ApplyText(n)
      BY <3>8, <2>1, <2>2 DEF ApplyText
    <3>9. CASE Promote(n)
      BY <3>9, <2>1, <2>2 DEF Promote
    <3>10. CASE ApplyDeleted(n)
      BY <3>10, <2>1, <2>2 DEF ApplyDeleted
    <3> QED BY <2>4, <3>1, <3>2, <3>3, <3>4, <3>5, <3>6, <3>7, <3>8, <3>9, <3>10
            DEF EventLoop
  <2>5. ASSUME NEW n \in Node, Erase(n)
        PROVE  ChaseInv'
    <3>1. ASSUME NEW w \in Wiper, WipeSession(n, w)
          PROVE  ChaseInv'
      BY <3>1, <2>1, <2>2 DEF WipeSession
    <3>2. ASSUME NEW w \in Wiper, WipeRequests(n, w)
          PROVE  ChaseInv'
      BY <3>2, <2>1, <2>2 DEF WipeRequests
    <3>3. ASSUME NEW w \in Wiper, WipeContact(n, w)
          PROVE  ChaseInv'
      BY <3>3, <2>1, <2>2 DEF WipeContact
    <3>4. CASE FlushDelete(n)
      BY <3>4, <2>1, <2>2 DEF FlushDelete, Sends
    <3>5. ASSUME NEW a \in reply, DeleteAcked(n, a)
          PROVE  ChaseInv'
      <4>1. /\ UNCHANGED <<session, loop, wiping, wire, dels, since, sealed>>
            /\ reply' \subseteq reply
            /\ a.to = n /\ a.kind = "acked"
            /\ erasure' = [erasure EXCEPT ![n] = 0]
        BY <3>5 DEF DeleteAcked
      <4>2. /\ \A m \in Node : spared[m] => spared'[m]
            /\ ~spared'[Peer(n)] => erasure[n] \in {0, a.no}
        BY <3>5, <2>1, <2>2 DEF DeleteAcked
      <4>3. ASSUME session[Peer(n)], ~spared'[Peer(n)]
            PROVE  sealed[n] <= since[Peer(n)]
        <5>1. CASE erasure[n] = 0
          BY <4>2, <4>3, <5>1, <2>1, <2>2
        <5>2. CASE erasure[n] = a.no /\ erasure[n] # 0
          BY <4>1, <4>2, <4>3, <5>2, <2>1, <2>2
        <5> QED BY <4>2, <4>3, <5>1, <5>2
      <4>4. CopyIsChased'
        <5> SUFFICES ASSUME NEW m \in Node, session[Peer(m)], ~spared'[Peer(m)],
                            sealed[m] > since[Peer(m)]
                     PROVE  erasure'[m] # 0
          BY <4>1
        <5>1. m # n
          BY <4>3, <2>1, <2>2
        <5> QED BY <4>1, <4>2, <5>1, <2>1, <2>2
      <4>5. \A m \in Node : erasure'[m] \in {0, sealed[m]}
        BY <4>1, <2>2
      <4> QED BY <4>1, <4>2, <4>4, <4>5, <2>1, <2>2
    <3> QED BY <2>5, <3>1, <3>2, <3>3, <3>4, <3>5 DEF Erase
  <2>6. ASSUME NEW n \in Node, Crash(n)
        PROVE  ChaseInv'
    BY <2>6, <2>1, <2>2 DEF Crash, NoWipe
  <2>7. ASSUME NEW c \in wire, LoseCall(c)
        PROVE  ChaseInv'
    BY <2>7, <2>1, <2>2 DEF LoseCall
  <2>8. CASE UNCHANGED vars
    BY <2>8 DEF vars
  <2> QED BY <2>3, <2>4, <2>5, <2>6, <2>7, <2>8 DEF Next
<1>3. ChaseInv => CopyIsChased
  BY DEF ChaseInv
<1> QED BY <1>1, <1>2, <1>3, TypeCorrect, PTL DEF Spec
==============================================================================
