--------------------------- MODULE DeliveryProofs ---------------------------
(***************************************************************************)
(* Proofs about Delivery for any number of messages, any set of tickers,   *)
(* any page size and budget, and any number of crashes.                    *)
(***************************************************************************)
EXTENDS Delivery, FiniteSetTheorems, WellFoundedInduction, TLAPS

------------------------------------------------------------------------------
(* High-water marks *)

\* A non-empty set of message ids has a greatest element, the one highest_inbound
\* and highest_outbound select: the sets of ids from some id of S on are ordered by
\* inclusion, and a smallest of them starts at the greatest id.
LEMMA HighestIsMax ==
    ASSUME NEW S, S \subseteq MsgId
    PROVE  /\ Highest(S) \in MsgIdOrZero
           /\ S # {} => Highest(S) \in S /\ \A k \in S : k <= Highest(S)
<1> DEFINE From(x) == {k \in S : x <= k}
           Tails == {From(x) : x \in S}
<1> HIDE DEF From, Tails
<1>1. MsgId \subseteq Nat /\ IsFiniteSet(S)
  <2>1. IsFiniteSet(1..MaxMsg)
    <3>1. 1 \in Int /\ MaxMsg \in Int
      BY DeliveryAssumption
    <3> QED BY <3>1, FS_Interval
  <2>2. MsgId \subseteq Nat
    BY DeliveryAssumption DEF MsgId
  <2>3. IsFiniteSet(S)
    BY <2>1, FS_Subset DEF MsgId
  <2> QED BY <2>2, <2>3
<1>2. CASE S = {}
  BY <1>2, DeliveryAssumption DEF Highest, MsgIdOrZero
<1>3. CASE S # {}
  <2>1. Tails \subseteq FiniteSubsetsOf(S) /\ Tails # {}
    <3>1. Tails \subseteq SUBSET S /\ Tails # {}
      BY <1>3 DEF From, Tails
    <3>2. QED
      BY <3>1, <1>1, FS_FiniteSubsetsOfFinite
  <2>2. \E U \in Tails : \A V \in Tails : ~(<<V, U>> \in StrictSubsetOrdering(S))
    <3> QED BY <2>1, FS_StrictSubsetOrderingWellFounded, WFMin
  <2>3. PICK x \in S : \A V \in Tails : ~(<<V, From(x)>> \in StrictSubsetOrdering(S))
    BY <2>2 DEF Tails
  <2>4. ASSUME NEW y \in S, ~(y <= x)
        PROVE  FALSE
    <3>0. S \subseteq Nat /\ x \in Nat /\ y \in Nat /\ x < y
      BY <2>4, <1>1
    <3>1. From(y) \subseteq From(x) /\ x \in From(x) /\ x \notin From(y)
      <4>1. \A k \in S : y <= k => x <= k
        BY <3>0
      <4>2. x <= x /\ ~(y <= x)
        BY <3>0
      <4> QED BY <4>1, <4>2 DEF From
    <3>2. <<From(y), From(x)>> \in StrictSubsetOrdering(S)
      BY <3>1 DEF StrictSubsetOrdering, From
    <3>3. From(y) \in Tails
      BY DEF Tails
    <3> QED BY <2>3, <3>2, <3>3
  <2>5. \A y \in S : x >= y
    <3>1. \A y \in S : y <= x
      BY <2>4
    <3> QED BY <3>1, <1>1
  <2>6. Max(S) \in S /\ \A y \in S : Max(S) >= y
    BY <2>5 DEF Max
  <2>7. Highest(S) = Max(S)
    BY <1>3 DEF Highest
  <2>8. Highest(S) \in MsgIdOrZero
    <3>1. Highest(S) \in MsgId
      BY <2>6, <2>7
    <3> QED BY <3>1, DeliveryAssumption DEF MsgId, MsgIdOrZero
  <2>9. ASSUME NEW k \in S
        PROVE  k <= Highest(S)
    BY <2>6, <2>7, <1>1
  <2> QED BY <2>6, <2>7, <2>8, <2>9
<1> QED BY <1>2, <1>3

------------------------------------------------------------------------------
(* Calls in flight *)

LEMMA CallForms ==
    ASSUME NEW by \in Drainer \cup {"push", "gone"}, NEW m \in MsgId
    PROVE  /\ Request(by, m) \in Call
           /\ Ack(by, m) \in Call
BY DEF Request, Ack, Call

\* Giving up a call invents no ack and no message.
LEMMA AbandonedCalls ==
    ASSUME NEW by, NEW m \in MsgId, wire \subseteq Call
    PROVE  /\ Abandoned(by, m) \subseteq Call
           /\ \A c \in Abandoned(by, m) :
                /\ \E x \in wire : x.id = c.id
                /\ c.leg = "ack" => c \in wire
<1>1. \A c \in Abandoned(by, m) : c \in wire \/ (c = Request("gone", m) /\ Request(by, m) \in wire)
  BY DEF Abandoned
<1>2. Request("gone", m) \in Call
  BY CallForms
<1>3. /\ Request("gone", m).id = m /\ Request(by, m).id = m
      /\ Request("gone", m).leg = "request"
  BY DEF Request
<1> QED BY <1>1, <1>2, <1>3

\* Answering a call adds at most its own ack.
LEMMA AnsweredCalls ==
    ASSUME NEW c \in wire, wire \subseteq Call
    PROVE  /\ Answered(c) \subseteq Call
           /\ \A x \in Answered(c) : x \in wire \/ x.id = c.id
<1>1. c.by \in Drainer \cup {"push", "gone"} /\ c.id \in MsgId
  BY DEF Call
<1>2. Ack(c.by, c.id) \in Call /\ Ack(c.by, c.id).id = c.id
  BY <1>1, CallForms DEF Ack
<1> QED BY <1>2 DEF Answered

------------------------------------------------------------------------------
(* Types *)

\* TypeOK holds in every reachable state, for any number of messages and tickers.
THEOREM TypeCorrect == Spec => []TypeOK
<1> USE DEF WithStatus, Enqueued, Dequeued, Stored
<1>1. Init => TypeOK
  BY DeliveryAssumption DEF Init, TypeOK, Status, MsgIdOrZero
<1>2. TypeOK /\ [Next]_vars => TypeOK'
  <2> SUFFICES ASSUME TypeOK, [Next]_vars
               PROVE  TypeOK'
    OBVIOUS
  <2>1. ASSUME NEW m \in MsgId, SendMessage(m)
        PROVE  TypeOK'
    <3>1. wire' \subseteq Call
      BY <2>1, CallForms DEF TypeOK, SendMessage
    <3>2. status' \in [MsgId -> Status] /\ push' \subseteq MsgId
      BY <2>1 DEF TypeOK, SendMessage, Status
    <3> QED BY <2>1, <3>1, <3>2 DEF TypeOK, SendMessage, inboxVars, drainVars, skVars, rkVars
  <2>2. ASSUME NEW m \in MsgId, PushAcked(m)
        PROVE  TypeOK'
    BY <2>2, DeliveryAssumption DEF TypeOK, PushAcked, inboxVars, drainVars, skVars, rkVars, Status
  <2>3. ASSUME NEW m \in MsgId, PushFailed(m)
        PROVE  TypeOK'
    BY <2>3, AbandonedCalls, DeliveryAssumption DEF TypeOK, PushFailed, inboxVars, drainVars, skVars, rkVars
  <2>4. ASSUME NEW d \in Drainer, NEW due \in SUBSET queue, DrainStart(d, due)
        PROVE  TypeOK'
    BY <2>4, DeliveryAssumption DEF TypeOK, DrainStart, rowVars, inboxVars, skVars, rkVars
  <2>5. ASSUME NEW d \in Drainer, NEW m \in MsgId, DrainSend(d, m)
        PROVE  TypeOK'
    BY <2>5, CallForms, DeliveryAssumption DEF TypeOK, DrainSend, rowVars, inboxVars, skVars, rkVars, MsgIdOrZero, MsgId
  <2>6. ASSUME NEW d \in Drainer, DrainAcked(d)
        PROVE  TypeOK'
    BY <2>6, DeliveryAssumption DEF TypeOK, DrainAcked, inboxVars, skVars, rkVars, Status
  <2>7. ASSUME NEW d \in Drainer, DrainRemove(d)
        PROVE  TypeOK'
    BY <2>7, DeliveryAssumption DEF TypeOK, DrainRemove, inboxVars, skVars, rkVars, MsgIdOrZero
  <2>8. ASSUME NEW d \in Drainer, DrainFailed(d)
        PROVE  TypeOK'
    BY <2>8, AbandonedCalls, DeliveryAssumption DEF TypeOK, DrainFailed, rowVars, inboxVars, skVars, rkVars, MsgIdOrZero
  <2>9. ASSUME NEW d \in Drainer, NEW kick \in BOOLEAN, DrainDone(d, kick)
        PROVE  TypeOK'
    BY <2>9, DeliveryAssumption DEF TypeOK, DrainDone, rowVars, inboxVars, rkVars
  <2>10. ASSUME AnswerSenderHeader
        PROVE  TypeOK'
    BY <2>10, HighestIsMax, DeliveryAssumption DEF TypeOK, AnswerSenderHeader, rowVars, inboxVars, drainVars, rkVars
  <2>11. ASSUME SenderKickFails
        PROVE  TypeOK'
    BY <2>11, DeliveryAssumption DEF TypeOK, SenderKickFails, rowVars, inboxVars, drainVars, rkVars
  <2>12. ASSUME PromoteOutboundSynced
        PROVE  TypeOK'
    <3>1. status' \in [MsgId -> Status]
      BY <2>12 DEF TypeOK, PromoteOutboundSynced, Status
    <3>2. promoted' \subseteq MsgId
      BY <2>12 DEF PromoteOutboundSynced, Promotable, Sent
    <3> QED BY <2>12, <3>1, <3>2 DEF TypeOK, PromoteOutboundSynced, inboxVars, drainVars, rkVars
  <2>13. ASSUME NEW m \in MsgId, RemovePromoted(m)
        PROVE  TypeOK'
    BY <2>13, DeliveryAssumption DEF TypeOK, RemovePromoted, inboxVars, drainVars, rkVars
  <2>14. ASSUME SenderKickDone
        PROVE  TypeOK'
    BY <2>14, DeliveryAssumption DEF TypeOK, SenderKickDone, rowVars, inboxVars, drainVars, rkVars, MsgIdOrZero
  <2>15. ASSUME NEW c \in wire, HandleMsg(c)
        PROVE  TypeOK'
    BY <2>15, AnsweredCalls, DeliveryAssumption DEF TypeOK, HandleMsg, rowVars, drainVars, skVars, rkVars, Call
  <2>16. ASSUME NEW c \in wire, RefuseMsg(c)
        PROVE  TypeOK'
    BY <2>16, DeliveryAssumption DEF TypeOK, RefuseMsg, rowVars, inboxVars, drainVars, skVars, rkVars
  <2>17. ASSUME AcceptRequest
        PROVE  TypeOK'
    BY <2>17, DeliveryAssumption DEF TypeOK, AcceptRequest, rowVars, drainVars, skVars, rkVars
  <2>18. ASSUME RejectRequest
        PROVE  TypeOK'
    BY <2>18, DeliveryAssumption DEF TypeOK, RejectRequest, rowVars, drainVars, skVars, rkVars
  <2>19. ASSUME RecipientKick
        PROVE  TypeOK'
    BY <2>19, HighestIsMax, DeliveryAssumption DEF TypeOK, RecipientKick, rowVars, inboxVars, drainVars, skVars
  <2>20. ASSUME AnswerRecipientHeader
        PROVE  TypeOK'
    BY <2>20, HighestIsMax, DeliveryAssumption DEF TypeOK, AnswerRecipientHeader, rowVars, inboxVars, drainVars, skVars, Sent
  <2>21. ASSUME CheckHeader
        PROVE  TypeOK'
    BY <2>21, DeliveryAssumption DEF TypeOK, CheckHeader, rowVars, inboxVars, drainVars, skVars, RecipientIdle, MsgIdOrZero
  <2>22. ASSUME AnswerPull
        PROVE  TypeOK'
    BY <2>22, DeliveryAssumption DEF TypeOK, AnswerPull, rowVars, inboxVars, drainVars, skVars, OutboundAfter, After, Sent
  <2>23. ASSUME NEW ok \in SUBSET page, IngestPage(ok)
        PROVE  TypeOK'
    BY <2>23, HighestIsMax, DeliveryAssumption DEF TypeOK, IngestPage, rowVars, drainVars, skVars, FinishKick, RecipientIdle, MsgIdOrZero
  <2>24. ASSUME RecipientKickFails
        PROVE  TypeOK'
    BY <2>24, DeliveryAssumption DEF TypeOK, RecipientKickFails, rowVars, inboxVars, drainVars, skVars, FinishKick, RecipientIdle, MsgIdOrZero
  <2>25. ASSUME NEW m \in MsgId, HandleSyncAck(m)
        PROVE  TypeOK'
    BY <2>25, DeliveryAssumption DEF TypeOK, HandleSyncAck, inboxVars, drainVars, skVars, rkVars, Status
  <2>26. ASSUME NEW m \in MsgId, LoseSyncAck(m)
        PROVE  TypeOK'
    BY <2>26, DeliveryAssumption DEF TypeOK, LoseSyncAck, rowVars, inboxVars, drainVars, skVars, rkVars
  <2>27. ASSUME SenderCrash
        PROVE  TypeOK'
    BY <2>27, CallForms, DeliveryAssumption DEF TypeOK, SenderCrash, rowVars, inboxVars, rkVars, Call, MsgIdOrZero
  <2>28. ASSUME NEW ok \in SUBSET page, RecipientCrash(ok)
        PROVE  TypeOK'
    BY <2>28, DeliveryAssumption DEF TypeOK, RecipientCrash, rowVars, drainVars, skVars, RecipientIdle, MsgIdOrZero
  <2>90. CASE UNCHANGED vars
    BY <2>90 DEF TypeOK, vars
  <2> QED
    BY <2>1, <2>2, <2>3, <2>4, <2>5, <2>6, <2>7, <2>8, <2>9, <2>10, <2>11, <2>12, <2>13, <2>14, <2>15, <2>16, <2>17, <2>18, <2>19, <2>20, <2>21, <2>22, <2>23, <2>24, <2>25, <2>26, <2>27, <2>28, <2>90
       DEF Next, Outbox, Drain, SenderKick, Recipient, RecipientSync, Crash
<1> QED BY <1>1, <1>2, PTL DEF Spec

------------------------------------------------------------------------------
(* The inductive invariant *)


\* IInv holds in every reachable state: what is in flight, queued or about to be
\* applied rests on what the recipient has taken.  TypeOK is proved apart and used
\* here for the domains of status, pc and todo.
THEOREM InvCorrect == Spec => []IInv
<1> USE DEF CallsBacked, OnlySent, KicksBacked, RemovalsSettled, DeliveredIsTaken,
            SyncedIsCovered, RetryCovered, Sent, Taken,
            WithStatus, Enqueued, Dequeued, Stored
<1>1. Init => Backed
  BY DEF Init, Backed
<1>2. TypeOK /\ Backed /\ [Next]_vars => Backed'
  <2> SUFFICES ASSUME TypeOK, Backed, [Next]_vars
               PROVE  Backed'
    OBVIOUS
  <2> USE DEF TypeOK
  <2>1. ASSUME NEW m \in MsgId, SendMessage(m)
        PROVE  Backed'
    BY <2>1, CallForms DEF Backed, SendMessage, inboxVars, drainVars, skVars, rkVars, Request
  <2>2. ASSUME NEW m \in MsgId, PushAcked(m)
        PROVE  Backed'
    BY <2>2 DEF Backed, PushAcked, inboxVars, drainVars, skVars, rkVars, Ack
  <2>3. ASSUME NEW m \in MsgId, PushFailed(m)
        PROVE  Backed'
    BY <2>3, AbandonedCalls DEF Backed, PushFailed, inboxVars, drainVars, skVars, rkVars
  <2>4. ASSUME NEW d \in Drainer, NEW due \in SUBSET queue, DrainStart(d, due)
        PROVE  Backed'
    BY <2>4 DEF Backed, DrainStart, rowVars, inboxVars, skVars, rkVars
  <2>5. ASSUME NEW d \in Drainer, NEW m \in MsgId, DrainSend(d, m)
        PROVE  Backed'
    BY <2>5, CallForms DEF Backed, DrainSend, rowVars, inboxVars, skVars, rkVars, Request
  <2>6. ASSUME NEW d \in Drainer, DrainAcked(d)
        PROVE  Backed'
    BY <2>6 DEF Backed, DrainAcked, inboxVars, skVars, rkVars, Ack
  <2>7. ASSUME NEW d \in Drainer, DrainRemove(d)
        PROVE  Backed'
    BY <2>7 DEF Backed, DrainRemove, inboxVars, skVars, rkVars
  <2>8. ASSUME NEW d \in Drainer, DrainFailed(d)
        PROVE  Backed'
    BY <2>8, AbandonedCalls DEF Backed, DrainFailed, rowVars, inboxVars, skVars, rkVars
  <2>9. ASSUME NEW d \in Drainer, NEW kick \in BOOLEAN, DrainDone(d, kick)
        PROVE  Backed'
    BY <2>9 DEF Backed, DrainDone, rowVars, inboxVars, rkVars
  <2>10. ASSUME AnswerSenderHeader
        PROVE  Backed'
    <3>1. skBound' # 0 => skBound' \in inbox
      BY <2>10, HighestIsMax DEF AnswerSenderHeader, Highest
    <3> QED BY <2>10, <3>1 DEF Backed, AnswerSenderHeader, rowVars, inboxVars, drainVars, rkVars
  <2>11. ASSUME SenderKickFails
        PROVE  Backed'
    BY <2>11 DEF Backed, SenderKickFails, rowVars, inboxVars, drainVars, rkVars
  <2>12. ASSUME PromoteOutboundSynced
        PROVE  Backed'
    <3>1. Sent' = Sent
      BY <2>12 DEF PromoteOutboundSynced, Promotable
    <3>2. UNCHANGED <<queue, inbox, muted, push, todo, wire, page, fresh, confirm, pc, cur, crashes>> /\ skPc' = "removing"
      BY <2>12 DEF PromoteOutboundSynced, inboxVars, drainVars, rkVars
    <3>3. CallsBacked' /\ OnlySent' /\ KicksBacked'
      BY <3>1, <3>2 DEF Backed
    <3>4. ASSUME NEW m \in MsgId
          PROVE  status'[m] = IF m \in Promotable(skBound) THEN "synced" ELSE status[m]
      BY <2>12 DEF PromoteOutboundSynced
    <3>5. DeliveredIsTaken' /\ RetryCovered'
      BY <3>2, <3>4 DEF Backed
    <3>6. SyncedIsCovered'
      <4> SUFFICES ASSUME NEW m \in MsgId, m \in Promotable(skBound)
                   PROVE  \E k \in inbox : m <= k
        BY <3>2, <3>4 DEF Backed
      <4>1. m <= skBound /\ m \in Nat /\ m # 0 /\ skBound # 0
        BY DeliveryAssumption DEF Promotable, MsgId, MsgIdOrZero
      <4>2. skBound \in inbox
        BY <4>1, <2>12 DEF Backed, PromoteOutboundSynced
      <4> QED BY <4>1, <4>2
    <3>7. RemovalsSettled'
      <4>1. \A d \in Drainer : pc[d] = "remove" => cur[d] \in MsgId
        OBVIOUS
      <4>2. promoted' = Promotable(skBound) /\ promoted' \subseteq MsgId
        BY <2>12 DEF PromoteOutboundSynced, Promotable
      <4> QED BY <3>2, <3>4, <4>1, <4>2 DEF Backed
    <3> QED BY <3>3, <3>5, <3>6, <3>7 DEF Backed
  <2>13. ASSUME NEW m \in MsgId, RemovePromoted(m)
        PROVE  Backed'
    BY <2>13 DEF Backed, RemovePromoted, inboxVars, drainVars, rkVars
  <2>14. ASSUME SenderKickDone
        PROVE  Backed'
    BY <2>14 DEF Backed, SenderKickDone, rowVars, inboxVars, drainVars, rkVars
  <2>15. ASSUME NEW c \in wire, HandleMsg(c)
        PROVE  Backed'
    BY <2>15, AnsweredCalls DEF Backed, HandleMsg, rowVars, drainVars, skVars, rkVars, Call
  <2>16. ASSUME NEW c \in wire, RefuseMsg(c)
        PROVE  Backed'
    BY <2>16 DEF Backed, RefuseMsg, rowVars, inboxVars, drainVars, skVars, rkVars
  <2>17. ASSUME AcceptRequest
        PROVE  Backed'
    BY <2>17 DEF Backed, AcceptRequest, rowVars, drainVars, skVars, rkVars
  <2>18. ASSUME RejectRequest
        PROVE  Backed'
    BY <2>18 DEF Backed, RejectRequest, rowVars, drainVars, skVars, rkVars
  <2>19. ASSUME RecipientKick
        PROVE  Backed'
    BY <2>19 DEF Backed, RecipientKick, rowVars, inboxVars, drainVars, skVars
  <2>20. ASSUME AnswerRecipientHeader
        PROVE  Backed'
    BY <2>20 DEF Backed, AnswerRecipientHeader, rowVars, inboxVars, drainVars, skVars
  <2>21. ASSUME CheckHeader
        PROVE  Backed'
    BY <2>21 DEF Backed, CheckHeader, rowVars, inboxVars, drainVars, skVars, RecipientIdle
  <2>22. ASSUME AnswerPull
        PROVE  Backed'
    BY <2>22 DEF Backed, AnswerPull, rowVars, inboxVars, drainVars, skVars, OutboundAfter, After
  <2>23. ASSUME NEW ok \in SUBSET page, IngestPage(ok)
        PROVE  Backed'
    BY <2>23 DEF Backed, IngestPage, rowVars, drainVars, skVars, FinishKick, RecipientIdle
  <2>24. ASSUME RecipientKickFails
        PROVE  Backed'
    BY <2>24 DEF Backed, RecipientKickFails, rowVars, inboxVars, drainVars, skVars, FinishKick, RecipientIdle
  <2>25. ASSUME NEW m \in MsgId, HandleSyncAck(m)
        PROVE  Backed'
    <3>1. m \in inbox /\ status[m] # "none"
      BY <2>25 DEF Backed, HandleSyncAck
    <3>2. \A k \in MsgId : status'[k] = IF k = m THEN "synced" ELSE status[k]
      BY <2>25 DEF HandleSyncAck
    <3>3. Sent' = Sent
      BY <3>1, <3>2
    <3>4. /\ UNCHANGED <<queue, inbox, muted, push, pc, cur, todo, wire, skPc, skBound, promoted, page, fresh, crashes>>
          /\ confirm' \subseteq confirm
      BY <2>25 DEF HandleSyncAck, inboxVars, drainVars, skVars, rkVars
    <3>5. CallsBacked' /\ OnlySent' /\ KicksBacked'
      BY <3>3, <3>4 DEF Backed
    <3>6. DeliveredIsTaken' /\ RetryCovered' /\ RemovalsSettled'
      BY <3>2, <3>4 DEF Backed
    <3>7. SyncedIsCovered'
      <4>1. m <= m
        BY DeliveryAssumption DEF MsgId
      <4> QED BY <3>1, <3>2, <3>4, <4>1 DEF Backed
    <3> QED BY <3>5, <3>6, <3>7 DEF Backed
  <2>26. ASSUME NEW m \in MsgId, LoseSyncAck(m)
        PROVE  Backed'
    BY <2>26 DEF Backed, LoseSyncAck, rowVars, inboxVars, drainVars, skVars, rkVars
  <2>27. ASSUME SenderCrash
        PROVE  Backed'
    BY <2>27 DEF Backed, SenderCrash, rowVars, inboxVars, rkVars, Request
  <2>28. ASSUME NEW ok \in SUBSET page, RecipientCrash(ok)
        PROVE  Backed'
    BY <2>28 DEF Backed, RecipientCrash, rowVars, drainVars, skVars, RecipientIdle
  <2>90. CASE UNCHANGED vars
    BY <2>90 DEF Backed, vars
  <2> QED
    BY <2>1, <2>2, <2>3, <2>4, <2>5, <2>6, <2>7, <2>8, <2>9, <2>10, <2>11, <2>12, <2>13, <2>14, <2>15, <2>16, <2>17, <2>18, <2>19, <2>20, <2>21, <2>22, <2>23, <2>24, <2>25, <2>26, <2>27, <2>28, <2>90
       DEF Next, Outbox, Drain, SenderKick, Recipient, RecipientSync, Crash
<1>3. TypeOK /\ Backed <=> IInv
  BY DEF IInv
<1> QED BY <1>1, <1>2, <1>3, TypeCorrect, PTL DEF Spec
\* A message shown as Delivered was stored, or dropped while blocked, by the recipient:
\* handle_msg's ack=true is the only source of the status.
THEOREM DeliveredCorrect == Spec => []DeliveredIsTaken
<1>1. IInv => DeliveredIsTaken
  BY DEF IInv, Backed
<1> QED BY <1>1, InvCorrect, PTL

\* A message shown as Synced is at or below one the recipient stores: all that
\* promote_outbound_synced and handle_sync(Ack) may claim.
THEOREM SyncedCorrect == Spec => []SyncedIsCovered
<1>1. IInv => SyncedIsCovered
  BY DEF IInv, Backed
<1> QED BY <1>1, InvCorrect, PTL

\* No retry is lost without a crash: push_one, the drains and RemovePromoted never
\* leave a Sending row with neither a push nor a queue row.
THEOREM RetryCorrect == Spec => []RetryCovered
<1>1. IInv => RetryCovered
  BY DEF IInv, Backed
<1> QED BY <1>1, InvCorrect, PTL

------------------------------------------------------------------------------
(* Paging *)

\* What PullLeavesNoGap rests on: ids are sent in order, the kick starts from and asks
\* after sent ids, and a page on its way holds later ids only and leaves out nothing
\* below what it holds.
PullInv ==
    /\ \A m \in Sent, k \in MsgId : k < m => k \in Sent
    /\ since \in Sent \cup {0}
    /\ rkPc \in {"header", "answered"} => base = since
    /\ rkPc = "page" => \A m \in page, k \in Sent : since < k /\ k < m => k \in page
    /\ rkPc = "page" => \A m \in page : since < m
    /\ PullLeavesNoGap

\* The lowest PullLimit rows after an id hold every row between it and any of them.
LEMMA PageIsLowest ==
    ASSUME NEW id \in MsgIdOrZero, NEW m \in OutboundAfter(id), NEW k \in After(id), k < m
    PROVE  k \in OutboundAfter(id)
<1> DEFINE Below(x) == {j \in After(id) : j < x}
<1>1. MsgId \subseteq Nat /\ After(id) \subseteq MsgId
  BY DeliveryAssumption DEF MsgId, After, Sent
<1>2. IsFiniteSet(Below(m))
  <2>1. IsFiniteSet(1..MaxMsg)
    <3>1. 1 \in Int /\ MaxMsg \in Int
      BY DeliveryAssumption
    <3> QED BY <3>1, FS_Interval
  <2>2. Below(m) \subseteq 1..MaxMsg
    BY <1>1 DEF MsgId
  <2> QED BY <2>1, <2>2, FS_Subset
<1>3. Below(k) \subseteq Below(m)
  <2>1. m \in Nat /\ k \in Nat
    BY <1>1 DEF OutboundAfter
  <2> SUFFICES ASSUME NEW j \in After(id), j < k
               PROVE  j < m
    OBVIOUS
  <2>2. j \in Nat
    BY <1>1
  <2> QED BY <2>1, <2>2
<1>4. /\ Cardinality(Below(k)) <= Cardinality(Below(m))
      /\ Cardinality(Below(k)) \in Nat /\ Cardinality(Below(m)) \in Nat
  BY <1>2, <1>3, FS_Subset, FS_CardinalityType
<1>5. Cardinality(Below(m)) < PullLimit
  BY DEF OutboundAfter
<1>6. Cardinality(Below(k)) < PullLimit
  BY <1>4, <1>5, DeliveryAssumption
<1> QED BY <1>6 DEF OutboundAfter

\* They hold of every step of the protocol, with pushes, drains and new messages in
\* between (kick_sync_for_peer, pull_outbound_after).
LEMMA PullInvCorrect == Spec => []PullInv
<1>1. Init => PullInv
  BY DEF Init, PullInv, PullLeavesNoGap, Sent
<1>2. IInv /\ PullInv /\ [Next]_vars => PullInv'
  <2> SUFFICES ASSUME IInv, PullInv, [Next]_vars
               PROVE  PullInv'
    OBVIOUS
  <2>1. /\ MsgId \subseteq Nat /\ MsgIdOrZero \subseteq Nat
        /\ Sent \subseteq MsgId /\ inbox \subseteq Sent /\ page \subseteq Sent
        /\ since \in MsgIdOrZero /\ base \in MsgIdOrZero
    BY DeliveryAssumption
       DEF IInv, TypeOK, Backed, OnlySent, Taken, Sent, MsgId, MsgIdOrZero
  <2>2. ASSUME UNCHANGED rkVars, Sent' = Sent, inbox \subseteq inbox'
        PROVE  PullInv'
    BY <2>2 DEF rkVars, PullInv, PullLeavesNoGap
  <2>4. ASSUME UNCHANGED <<rkVars, status>>, inbox \subseteq inbox'
        PROVE  PullInv'
    BY <2>2, <2>4 DEF Sent
  <2>5. ASSUME NEW m \in MsgId, SendMessage(m)
        PROVE  PullInv'
    <3>1. /\ Sent' = Sent \cup {m} /\ m \notin Sent
          /\ \A k \in MsgId : k < m => k \in Sent
          /\ UNCHANGED <<rkVars, inbox>>
      BY <2>5, DeliveryAssumption
         DEF SendMessage, Sent, IInv, TypeOK, inboxVars, MsgId
    <3>2. \A k \in Sent : k < m
      <4> SUFFICES ASSUME NEW k \in Sent, ~(k < m)
                   PROVE  FALSE
        OBVIOUS
      <4>1. m < k
        BY <2>1, <3>1
      <4> QED BY <4>1, <3>1, <2>1 DEF PullInv
    <3>3. ~(m <= since)
      <4>1. m \in Nat /\ m # 0 /\ since \in Nat
        BY <2>1, DeliveryAssumption DEF MsgId
      <4>2. CASE since = 0
        BY <4>1, <4>2
      <4>3. CASE since \in Sent
        BY <4>1, <4>3, <3>2
      <4> QED BY <4>2, <4>3 DEF PullInv
    <3>4. \A k \in page : ~(m < k)
      BY <2>1, <3>2
    <3>5. PullLeavesNoGap'
      BY <3>1, <3>3 DEF PullInv, PullLeavesNoGap, rkVars
    <3>6. \A j \in Sent', k \in MsgId : k < j => k \in Sent'
      BY <3>1 DEF PullInv
    <3>7. rkPc' = "page" => \A j \in page', k \in Sent' : since' < k /\ k < j => k \in page'
      BY <3>1, <3>4 DEF PullInv, rkVars
    <3> QED BY <3>1, <3>5, <3>6, <3>7 DEF PullInv, rkVars
  <2>6. ASSUME NEW m \in MsgId, PushAcked(m) \/ PushFailed(m)
        PROVE  PullInv'
    <3>1. Sent' = Sent
      BY <2>6 DEF PushAcked, PushFailed, WithStatus, Sent, IInv, TypeOK, Backed, OnlySent
    <3> QED BY <2>2, <2>6, <3>1 DEF PushAcked, PushFailed, inboxVars
  <2>7. ASSUME Drain
        PROVE  PullInv'
    <3>1. ASSUME NEW d \in Drainer, DrainAcked(d)
          PROVE  PullInv'
      <4>1. cur[d] \in Sent
        BY <3>1 DEF DrainAcked, Ack, IInv, Backed, CallsBacked
      <4>2. Sent' = Sent
        BY <3>1, <4>1 DEF DrainAcked, WithStatus, Sent, IInv, TypeOK
      <4> QED BY <2>2, <3>1, <4>2 DEF DrainAcked, inboxVars
    <3>2. ASSUME NEW d \in Drainer, NEW due, DrainStart(d, due)
          PROVE  PullInv'
      BY <2>4, <3>2 DEF DrainStart, rowVars, inboxVars
    <3>3. ASSUME NEW d \in Drainer, NEW m \in MsgId, DrainSend(d, m)
          PROVE  PullInv'
      BY <2>4, <3>3 DEF DrainSend, rowVars, inboxVars
    <3>4. ASSUME NEW d \in Drainer, DrainRemove(d)
          PROVE  PullInv'
      BY <2>4, <3>4 DEF DrainRemove, inboxVars
    <3>5. ASSUME NEW d \in Drainer, DrainFailed(d)
          PROVE  PullInv'
      BY <2>4, <3>5 DEF DrainFailed, rowVars, inboxVars
    <3>6. ASSUME NEW d \in Drainer, NEW kick \in BOOLEAN, DrainDone(d, kick)
          PROVE  PullInv'
      BY <2>4, <3>6 DEF DrainDone, rowVars, inboxVars
    <3> QED BY <2>7, <3>1, <3>2, <3>3, <3>4, <3>5, <3>6 DEF Drain
  <2>8. ASSUME SenderKick
        PROVE  PullInv'
    <3>1. CASE PromoteOutboundSynced
      <4>1. Sent' = Sent
        BY <3>1 DEF PromoteOutboundSynced, Promotable, Sent, IInv, TypeOK
      <4> QED BY <2>2, <3>1, <4>1 DEF PromoteOutboundSynced, inboxVars
    <3>2. ASSUME NEW m \in MsgId, RemovePromoted(m)
          PROVE  PullInv'
      BY <2>4, <3>2 DEF RemovePromoted, inboxVars
    <3>3. CASE AnswerSenderHeader \/ SenderKickFails \/ SenderKickDone
      BY <2>4, <3>3 DEF AnswerSenderHeader, SenderKickFails, SenderKickDone, rowVars, inboxVars
    <3> QED BY <2>8, <3>1, <3>2, <3>3 DEF SenderKick
  <2>9. ASSUME Recipient
        PROVE  PullInv'
    <3>1. ASSUME NEW c \in wire, HandleMsg(c) \/ RefuseMsg(c)
          PROVE  PullInv'
      BY <2>4, <3>1 DEF HandleMsg, RefuseMsg, Stored, rowVars, inboxVars
    <3>2. CASE AcceptRequest \/ RejectRequest
      BY <2>4, <3>2 DEF AcceptRequest, RejectRequest, rowVars
    <3> QED BY <2>9, <3>1, <3>2 DEF Recipient
  <2>10. ASSUME RecipientIdle, UNCHANGED status
         PROVE  PullInv'
    BY <2>10 DEF RecipientIdle, PullInv, PullLeavesNoGap, Sent
  <2>11. ASSUME RecipientSync
         PROVE  PullInv'
    <3>1. CASE RecipientKick
      <4>1. Highest(inbox) \in Sent \cup {0}
        BY <2>1, HighestIsMax DEF Highest
      <4> QED BY <3>1, <4>1 DEF RecipientKick, PullInv, PullLeavesNoGap, rowVars, Sent
    <3>2. CASE AnswerRecipientHeader
      BY <3>2 DEF AnswerRecipientHeader, PullInv, PullLeavesNoGap, rowVars, Sent
    <3>3. CASE CheckHeader
      <4>1. CASE RecipientIdle
        BY <2>10, <3>3, <4>1 DEF CheckHeader, rowVars
      <4>2. CASE UNCHANGED <<base, since>> /\ rkPc' = "pull"
        <5>1. base = since /\ Sent' = Sent
          BY <3>3 DEF CheckHeader, PullInv, rowVars, Sent
        <5>2. PullLeavesNoGap'
          BY <2>1, <4>2, <5>1 DEF PullLeavesNoGap
        <5> QED BY <4>2, <5>1, <5>2 DEF PullInv
      <4> QED BY <3>3, <4>1, <4>2 DEF CheckHeader
    <3>4. CASE AnswerPull
      <4>1. page' = OutboundAfter(since) /\ rkPc = "pull" /\ rkPc' = "page"
        BY <3>4 DEF AnswerPull
      <4>2. UNCHANGED <<base, since, inbox, skipped>> /\ Sent' = Sent
        BY <3>4 DEF AnswerPull, rowVars, inboxVars, Sent
      <4>3. \A m \in page', k \in Sent : since < k /\ k < m => k \in page'
        BY <2>1, <4>1, PageIsLowest DEF After
      <4>4. \A m \in page' : since < m
        BY <4>1 DEF OutboundAfter, After
      <4> QED BY <4>1, <4>2, <4>3, <4>4 DEF PullInv, PullLeavesNoGap
    <3>5. ASSUME NEW ok \in SUBSET page, IngestPage(ok)
          PROVE  PullInv'
      <4>1. UNCHANGED status /\ inbox' = inbox \cup ok /\ rkPc = "page"
        BY <3>5 DEF IngestPage, Stored, rowVars
      <4>2. CASE RecipientIdle
        BY <2>10, <4>1, <4>2
      <4>3. CASE /\ Cardinality(page) = PullLimit /\ since' = Highest(page)
                 /\ base' = base /\ rkPc' = "pull"
                 /\ skipped' = skipped \cup (page \ (inbox \cup ok))
        <5>1. page # {}
          BY <4>3, FS_EmptySet, DeliveryAssumption
        <5>2. since' \in page /\ \A k \in page : k <= since'
          BY <2>1, <4>3, <5>1, HighestIsMax
        <5>3. Sent' = Sent
          BY <4>1 DEF Sent
        <5>4. page \cup inbox \cup skipped \subseteq inbox' \cup skipped'
          BY <4>1, <4>3
        <5>5. ASSUME NEW m \in Sent, base < m, m <= since'
              PROVE  m \in inbox' \cup skipped'
          <6>1. CASE m <= since
            BY <4>1, <5>4, <5>5, <6>1 DEF PullInv, PullLeavesNoGap
          <6>2. CASE m = since'
            BY <5>2, <5>4, <6>2
          <6>3. CASE since < m /\ m < since'
            BY <4>1, <5>2, <5>4, <6>3 DEF PullInv
          <6>4. m \in Nat /\ since \in Nat /\ since' \in Nat
            BY <2>1, <5>2
          <6> QED BY <5>5, <6>1, <6>2, <6>3, <6>4
        <5>6. PullLeavesNoGap'
          BY <4>3, <5>3, <5>5 DEF PullLeavesNoGap
        <5> QED BY <2>1, <4>3, <5>2, <5>3, <5>6 DEF PullInv
      <4> QED BY <3>5, <4>2, <4>3 DEF IngestPage, FinishKick
    <3>6. CASE RecipientKickFails
      BY <2>10, <3>6 DEF RecipientKickFails, FinishKick, rowVars
    <3>7. ASSUME NEW m \in MsgId, HandleSyncAck(m)
          PROVE  PullInv'
      <4>1. m \in Sent
        BY <2>1, <3>7 DEF HandleSyncAck, IInv, Backed, KicksBacked
      <4>2. Sent' = Sent
        BY <3>7, <4>1 DEF HandleSyncAck, WithStatus, Sent, IInv, TypeOK
      <4> QED BY <2>2, <3>7, <4>2 DEF HandleSyncAck, inboxVars
    <3>8. ASSUME NEW m \in MsgId, LoseSyncAck(m)
          PROVE  PullInv'
      BY <2>4, <3>8 DEF LoseSyncAck, rowVars, inboxVars
    <3> QED BY <2>11, <3>1, <3>2, <3>3, <3>4, <3>5, <3>6, <3>7, <3>8 DEF RecipientSync
  <2>12. CASE SenderCrash
    BY <2>4, <2>12 DEF SenderCrash, rowVars, inboxVars
  <2>13. ASSUME NEW ok, RecipientCrash(ok)
         PROVE  PullInv'
    BY <2>10, <2>13 DEF RecipientCrash, rowVars
  <2>14. CASE UNCHANGED vars
    BY <2>4, <2>14 DEF vars, rkVars
  <2> QED BY <2>5, <2>6, <2>7, <2>8, <2>9, <2>11, <2>12, <2>13, <2>14 DEF Next, Outbox, Crash
<1> QED BY <1>1, <1>2, InvCorrect, PTL DEF Spec

\* The Pull loop asks for everything between where the kick started and the id it asks
\* after: each message sent there is stored or stepped over with its envelope in hand, for
\* any page size and budget, any failing envelopes, pushes, drains and new messages.
THEOREM PullCorrect == Spec => []PullLeavesNoGap
<1>1. PullInv => PullLeavesNoGap
  BY DEF PullInv
<1> QED BY <1>1, PullInvCorrect, PTL

\* The recipient's kick comes to an end by its page budget, whatever the pages bring: each
\* of its steps leaves fewer to go, and there are never fewer than none.  Only the types
\* are used (kick_sync_for_peer, SYNC_MAX_PULL_PAGES).
THEOREM KickEndsCorrect == Spec => KickEnds
<1> DEFINE Nearer == rkPc # "idle" /\ rkVars' # rkVars => StepsLeft' \in 0..(StepsLeft - 1)
<1>1. TypeOK /\ [Next]_vars => Nearer
  <2> SUFFICES ASSUME TypeOK, [Next]_vars, rkPc # "idle", rkVars' # rkVars
               PROVE  StepsLeft' \in 0..(StepsLeft - 1)
    OBVIOUS
  <2>1. MaxPages \in Nat \ {0} /\ pages \in 0..MaxPages
    BY DeliveryAssumption DEF TypeOK
  <2>2. StepsLeft \in Nat \ {0}
    BY <2>1 DEF TypeOK, StepsLeft
  <2>3. CASE RecipientIdle
    <3>1. StepsLeft' = 0
      BY <2>3 DEF RecipientIdle, StepsLeft
    <3> QED BY <2>2, <3>1
  <2>4. ~(Outbox \/ Drain \/ SenderKick)
    BY DEF Outbox, SendMessage, PushAcked, PushFailed, Drain, DrainStart, DrainSend,
       DrainAcked, DrainRemove, DrainFailed, DrainDone, SenderKick, AnswerSenderHeader,
       SenderKickFails, PromoteOutboundSynced, RemovePromoted, SenderKickDone
  <2>5. ~(Recipient \/ UNCHANGED vars \/ SenderCrash)
    BY DEF Recipient, HandleMsg, RefuseMsg, AcceptRequest, RejectRequest, SenderCrash,
       vars, rkVars
  <2>6. CASE AnswerRecipientHeader
    <3>1. rkPc = "header" /\ rkPc' = "answered"
      BY <2>6 DEF AnswerRecipientHeader
    <3> QED BY <2>1, <3>1 DEF StepsLeft
  <2>7. CASE CheckHeader
    <3>1. CASE rkPc = "answered" /\ rkPc' = "pull" /\ pages' = 1
      BY <2>1, <3>1 DEF StepsLeft
    <3> QED BY <2>3, <2>7, <3>1 DEF CheckHeader
  <2>8. CASE AnswerPull
    <3>1. rkPc = "pull" /\ rkPc' = "page" /\ pages' = pages
      BY <2>8 DEF AnswerPull
    <3> QED BY <2>1, <3>1 DEF StepsLeft
  <2>9. ASSUME NEW ok \in SUBSET page, IngestPage(ok)
        PROVE  StepsLeft' \in 0..(StepsLeft - 1)
    <3>1. CASE rkPc = "page" /\ rkPc' = "pull" /\ pages < MaxPages /\ pages' = pages + 1
      BY <2>1, <3>1 DEF StepsLeft
    <3> QED BY <2>3, <2>9, <3>1 DEF IngestPage, FinishKick
  <2>10. CASE RecipientKick \/ RecipientKickFails
    BY <2>3, <2>10 DEF RecipientKick, RecipientKickFails, FinishKick
  <2>11. ASSUME NEW m \in MsgId, HandleSyncAck(m) \/ LoseSyncAck(m)
         PROVE  FALSE
    BY <2>11 DEF HandleSyncAck, LoseSyncAck
  <2>12. ASSUME NEW ok, RecipientCrash(ok)
         PROVE  RecipientIdle
    BY <2>12 DEF RecipientCrash
  <2> QED BY <2>3, <2>4, <2>5, <2>6, <2>7, <2>8, <2>9, <2>10, <2>11, <2>12
          DEF Next, RecipientSync, Crash
<1>2. [][Next]_vars /\ []TypeOK => [][Nearer]_vars
  BY <1>1, PTL
<1> QED BY <1>2, TypeCorrect, PTL DEF Spec, KickEnds

------------------------------------------------------------------------------
(* Refinement *)

\* Under the mapping view <- status, got <- Taken, push, drain, sync and crash are
\* Courier steps: Compose, Arrive, Vouch, Reconcile, or a stutter.
THEOREM Refinement == Spec => ImplementsCourier
<1> USE DEF WithStatus, Stored
<1> DEFINE Kept == UNCHANGED <<status, Taken>>
<1>1. Init => Promise!Init
  BY DEF Init, Promise!Init, Taken, MsgId, Promise!MsgId
<1>2. IInv /\ IInv' /\ [Next]_vars => [Promise!Next]_Promise!vars
  <2> SUFFICES ASSUME IInv, IInv', [Next]_vars
               PROVE  Promise!Next \/ Kept
    BY DEF Promise!vars
  <2>0. MsgId = Promise!MsgId /\ Sent = Promise!Sent /\ status \in [MsgId -> Status]
    BY DEF MsgId, Promise!MsgId, Sent, Promise!Sent, IInv, TypeOK
  <2>1. ASSUME NEW m \in MsgId, SendMessage(m)
        PROVE  Promise!Next
    <3>1. Promise!Compose(m)
      BY <2>1 DEF SendMessage, Promise!Compose, inboxVars, Taken
    <3> QED BY <3>1, <2>0 DEF Promise!Next
  <2>2. ASSUME NEW m \in MsgId, status' = [status EXCEPT ![m] = "delivered"],
               m \in Taken, UNCHANGED inboxVars
        PROVE  Promise!Next
    <3>1. Promise!Vouch(m, "delivered")
      BY <2>2 DEF Promise!Vouch, inboxVars, Taken
    <3> QED BY <3>1, <2>0 DEF Promise!Next
  <2>3. ASSUME NEW m \in MsgId, PushAcked(m)
        PROVE  Promise!Next
    <3>1. m \in Taken
      BY <2>3 DEF PushAcked, IInv, Backed, CallsBacked, Ack
    <3> QED BY <2>2, <2>3, <3>1 DEF PushAcked
  <2>4. ASSUME NEW d \in Drainer, DrainAcked(d)
        PROVE  Promise!Next
    <3>1. cur[d] \in MsgId /\ cur[d] \in Taken
      BY <2>4 DEF DrainAcked, IInv, TypeOK, Backed, CallsBacked, Ack
    <3> QED BY <2>2, <2>4, <3>1 DEF DrainAcked
  <2>5. ASSUME PromoteOutboundSynced
        PROVE  Promise!Next \/ Kept
    <3>1. UNCHANGED Taken
      BY <2>5 DEF PromoteOutboundSynced, inboxVars, Taken
    <3>2. CASE skBound = 0
      <4>1. Promotable(skBound) = {}
        BY <3>2, DeliveryAssumption DEF Promotable, Sent, MsgId
      <4>2. status' = status
        BY <2>0, <2>5, <4>1 DEF PromoteOutboundSynced
      <4> QED BY <3>1, <4>2
    <3>3. CASE skBound # 0
      <4>1. skBound \in inbox /\ skBound \in MsgId
        BY <2>5, <3>3 DEF PromoteOutboundSynced, IInv, TypeOK, Backed, KicksBacked
      <4>2. \A m \in MsgId : (IF m \in Promotable(skBound) THEN "synced" ELSE status[m])
                             = (IF m \in Sent /\ m <= skBound THEN "synced" ELSE status[m])
        BY DEF Promotable
      <4>3. status' = [m \in MsgId |-> IF m \in Sent /\ m <= skBound THEN "synced" ELSE status[m]]
        BY <2>5, <4>2 DEF PromoteOutboundSynced
      <4>4. Promise!Reconcile(skBound)
        BY <2>0, <3>1, <4>1, <4>3 DEF Promise!Reconcile, Taken
      <4> QED BY <2>0, <4>1, <4>4 DEF Promise!Next
    <3> QED BY <3>2, <3>3
  <2>6. ASSUME NEW ms \in SUBSET MsgId, ms \subseteq Sent, Taken' = Taken \cup ms, UNCHANGED status
        PROVE  Promise!Next
    <3>1. Promise!Arrive(ms)
      BY <2>0, <2>6 DEF Promise!Arrive
    <3> QED BY <2>0, <3>1 DEF Promise!Next
  <2>7. ASSUME NEW c \in wire, HandleMsg(c)
        PROVE  Promise!Next
    <3>1. {c.id} \in SUBSET MsgId /\ {c.id} \subseteq Sent
      BY <2>7 DEF IInv, Backed, CallsBacked, Sent
    <3>2. Taken' = Taken \cup {c.id} /\ UNCHANGED status
      BY <2>7 DEF HandleMsg, Taken, rowVars
    <3> QED BY <2>6, <3>1, <3>2
  <2>8. ASSUME NEW ok \in SUBSET page, IngestPage(ok)
        PROVE  Promise!Next
    <3>1. ok \in SUBSET MsgId /\ ok \subseteq Sent
      BY DEF IInv, TypeOK, Backed, OnlySent
    <3>2. Taken' = Taken \cup ok /\ UNCHANGED status
      BY <2>8 DEF IngestPage, Taken, rowVars
    <3> QED BY <2>6, <3>1, <3>2
  <2>9. ASSUME NEW m \in MsgId, HandleSyncAck(m)
        PROVE  Promise!Next
    <3>1. m \in Taken
      BY <2>9 DEF HandleSyncAck, IInv, Backed, KicksBacked, Taken
    <3>2. Promise!Vouch(m, "synced")
      BY <2>9, <3>1 DEF HandleSyncAck, Promise!Vouch, inboxVars, Taken
    <3> QED BY <2>0, <3>2 DEF Promise!Next
  <2>10. ASSUME NEW m \in MsgId, PushFailed(m) \/ RemovePromoted(m) \/ LoseSyncAck(m)
         PROVE  Kept
    BY <2>10 DEF PushFailed, RemovePromoted, LoseSyncAck, rowVars, inboxVars, Taken
  <2>11. ASSUME NEW d \in Drainer,
                \/ \E due \in SUBSET queue : DrainStart(d, due)
                \/ \E m \in MsgId : DrainSend(d, m)
                \/ DrainRemove(d)
                \/ DrainFailed(d)
                \/ \E kick \in BOOLEAN : DrainDone(d, kick)
         PROVE  Kept
    BY <2>11 DEF DrainStart, DrainSend, DrainRemove, DrainFailed, DrainDone, rowVars, inboxVars, Taken
  <2>12. ASSUME AnswerSenderHeader \/ SenderKickFails \/ SenderKickDone
         PROVE  Kept
    BY <2>12 DEF AnswerSenderHeader, SenderKickFails, SenderKickDone, rowVars, inboxVars, Taken
  <2>13. ASSUME NEW c \in wire, RefuseMsg(c)
         PROVE  Kept
    BY <2>13 DEF RefuseMsg, rowVars, inboxVars, Taken
  <2>14. ASSUME AcceptRequest \/ RejectRequest
         PROVE  Kept
    BY <2>14 DEF AcceptRequest, RejectRequest, rowVars, Taken
  <2>15. ASSUME \/ RecipientKick \/ AnswerRecipientHeader \/ CheckHeader \/ AnswerPull
                \/ RecipientKickFails
         PROVE  Kept
    BY <2>15 DEF RecipientKick, AnswerRecipientHeader, CheckHeader, AnswerPull,
                 RecipientKickFails, rowVars, inboxVars, Taken
  <2>16. CASE SenderCrash
    BY <2>16 DEF SenderCrash, rowVars, inboxVars, Taken
  <2>18. ASSUME NEW ok \in SUBSET page, RecipientCrash(ok)
         PROVE  Promise!Next
    <3>1. ok \in SUBSET MsgId /\ ok \subseteq Sent
      BY DEF IInv, TypeOK, Backed, OnlySent
    <3>2. Taken' = Taken \cup ok /\ UNCHANGED status
      BY <2>18 DEF RecipientCrash, Taken, rowVars
    <3> QED BY <2>6, <3>1, <3>2
  <2>17. CASE UNCHANGED vars
    BY <2>17 DEF vars, Taken
  <2> QED
    BY <2>1, <2>3, <2>4, <2>5, <2>7, <2>8, <2>9, <2>10, <2>11, <2>12, <2>13, <2>14, <2>15, <2>16, <2>17, <2>18
       DEF Next, Outbox, Drain, SenderKick, Recipient, RecipientSync, Crash
<1>3. Promise!Init /\ [][Promise!Next]_Promise!vars => ImplementsCourier
  BY DEF ImplementsCourier, Promise!Spec
<1> QED BY <1>1, <1>2, <1>3, InvCorrect, PTL DEF Spec

\* What the chat shows follows from the refinement: no push, drain, reconcile, refusal or
\* crash turns a tick (delivered, synced) back into a clock, or loses a message sent.
THEOREM TicksLast == Spec => Promise!Lasting
<1> DEFINE Typed == status \in [Promise!MsgId -> Promise!View]
<1>1. Promise!Init => Typed
  BY DEF Promise!Init, Promise!View
<1>2. Typed /\ [Promise!Next]_(Promise!vars) => Typed'
  BY DEF Promise!View, Promise!Next, Promise!vars, Promise!Compose, Promise!Arrive,
     Promise!Vouch, Promise!Reconcile
<1>3. Typed /\ [Promise!Next]_(Promise!vars) => Promise!Lasts
  <2> SUFFICES ASSUME Typed, [Promise!Next]_(Promise!vars)
               PROVE  Promise!Lasts
    OBVIOUS
  <2> USE DEF Promise!Lasts, Promise!Ticked, Promise!Sent
  <2>1. ASSUME NEW m \in Promise!MsgId, Promise!Compose(m)
        PROVE  Promise!Lasts
    BY <2>1 DEF Promise!Compose
  <2>2. ASSUME NEW ms \in SUBSET Promise!MsgId, Promise!Arrive(ms)
        PROVE  Promise!Lasts
    BY <2>2 DEF Promise!Arrive
  <2>3. ASSUME NEW m \in Promise!MsgId, NEW how \in {"delivered", "synced"},
               Promise!Vouch(m, how)
        PROVE  Promise!Lasts
    BY <2>3 DEF Promise!Vouch
  <2>4. ASSUME NEW bound \in Promise!MsgId, Promise!Reconcile(bound)
        PROVE  Promise!Lasts
    BY <2>4 DEF Promise!Reconcile
  <2>5. CASE UNCHANGED Promise!vars
    BY <2>5 DEF Promise!vars
  <2> QED BY <2>1, <2>2, <2>3, <2>4, <2>5 DEF Promise!Next
<1>4. Promise!Init /\ [][Promise!Next]_(Promise!vars) => [][Promise!Lasts]_(Promise!vars)
  BY <1>1, <1>2, <1>3, PTL
<1> QED BY <1>4, Refinement, PTL DEF ImplementsCourier, Promise!Spec, Promise!Lasting
==============================================================================
