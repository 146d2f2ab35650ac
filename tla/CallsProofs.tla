----------------------------- MODULE CallsProofs -----------------------------
(***************************************************************************)
(* Proofs about Calls, for every set of nodes and calls and every capacity *)
(* of the channels: its inductive invariant, and that it keeps the promise *)
(* of Rpc. The lemmas on sequences come first: once they are known, In and *)
(* Unique need not be expanded any more.                                   *)
(***************************************************************************)
EXTENDS Calls, TLAPS

-----------------------------------------------------------------------------
(* Sequences.                                                              *)

\* What an append adds (mpsc's send, emit).
LEMMA InAppend ==
    ASSUME NEW S, NEW s \in Seq(S), NEW e \in S, NEW x
    PROVE  /\ Append(s, e) \in Seq(S)
           /\ In(Append(s, e), x) <=> In(s, x) \/ x = e
<1>1. Len(Append(s, e)) = Len(s) + 1 /\ Append(s, e) \in Seq(S) /\ Len(s) \in Nat
    OBVIOUS
<1>2. \A i \in 1..Len(s) : Append(s, e)[i] = s[i]
    OBVIOUS
<1>3. Append(s, e)[Len(s) + 1] = e
    OBVIOUS
<1>4. ASSUME In(Append(s, e), x) PROVE In(s, x) \/ x = e
    <2>1. PICK i \in 1..(Len(s) + 1) : Append(s, e)[i] = x
        BY <1>1, <1>4 DEF In
    <2>2. i \in 1..Len(s) \/ i = Len(s) + 1
        BY <1>1, <2>1
    <2>. QED
        BY <1>2, <1>3, <2>1, <2>2 DEF In
<1>5. ASSUME In(s, x) PROVE In(Append(s, e), x)
    <2>1. PICK i \in 1..Len(s) : s[i] = x
        BY <1>5 DEF In
    <2>2. i \in 1..Len(Append(s, e)) /\ Append(s, e)[i] = x
        BY <1>1, <1>2, <2>1
    <2>. QED
        BY <2>2 DEF In
<1>6. In(Append(s, e), e)
    <2>1. Len(s) + 1 \in 1..Len(Append(s, e))
        BY <1>1
    <2>. QED
        BY <1>3, <2>1 DEF In
<1>. QED
    BY <1>1, <1>4, <1>5, <1>6

\* A sequence stays without duplicates when what is appended is new.
LEMMA UniqueAppend ==
    ASSUME NEW S, NEW s \in Seq(S), NEW e \in S, Unique(s), ~In(s, e)
    PROVE  Unique(Append(s, e))
<1>1. Len(Append(s, e)) = Len(s) + 1 /\ Len(s) \in Nat
    OBVIOUS
<1>2. \A i \in 1..Len(s) : Append(s, e)[i] = s[i] /\ s[i] # e
    BY DEF In
<1>3. Append(s, e)[Len(s) + 1] = e
    OBVIOUS
<1>4. SUFFICES ASSUME NEW i \in 1..(Len(s) + 1), NEW j \in 1..(Len(s) + 1),
                      Append(s, e)[i] = Append(s, e)[j]
               PROVE  i = j
    BY <1>1 DEF Unique
<1>5. (i \in 1..Len(s) \/ i = Len(s) + 1) /\ (j \in 1..Len(s) \/ j = Len(s) + 1)
    BY <1>1
<1>6. CASE i \in 1..Len(s) /\ j \in 1..Len(s)
    BY <1>2, <1>4, <1>6 DEF Unique
<1>. QED
    BY <1>2, <1>3, <1>4, <1>5, <1>6

\* What taking the oldest element leaves (mpsc's recv, a lagging receiver).
LEMMA InTail ==
    ASSUME NEW S, NEW s \in Seq(S), s # <<>>
    PROVE  /\ Tail(s) \in Seq(S)
           /\ Head(s) \in S
           /\ In(s, Head(s))
           /\ \A x : In(Tail(s), x) => In(s, x)
           /\ \A x : In(s, x) => x = Head(s) \/ In(Tail(s), x)
           /\ Unique(s) => Unique(Tail(s)) /\ ~In(Tail(s), Head(s))
<1>1. /\ Tail(s) \in Seq(S) /\ Len(Tail(s)) = Len(s) - 1
      /\ Len(s) \in Nat /\ Len(s) # 0 /\ Head(s) = s[1] /\ Head(s) \in S
    OBVIOUS
<1>2. \A i \in 1..(Len(s) - 1) : Tail(s)[i] = s[i + 1]
    OBVIOUS
<1>3. In(s, Head(s))
    <2>1. 1 \in 1..Len(s)
        BY <1>1
    <2>. QED
        BY <1>1, <2>1 DEF In
<1>4. ASSUME NEW x, In(Tail(s), x) PROVE In(s, x)
    <2>1. PICK i \in 1..(Len(s) - 1) : s[i + 1] = x
        BY <1>1, <1>2, <1>4 DEF In
    <2>2. i + 1 \in 1..Len(s)
        BY <1>1
    <2>. QED
        BY <2>1, <2>2 DEF In
<1>5. ASSUME NEW x, In(s, x), x # Head(s) PROVE In(Tail(s), x)
    <2>1. PICK i \in 1..Len(s) : s[i] = x
        BY <1>5 DEF In
    <2>2. i - 1 \in 1..(Len(s) - 1) /\ (i - 1) + 1 = i
        BY <1>1, <1>5, <2>1
    <2>3. i - 1 \in 1..Len(Tail(s)) /\ Tail(s)[i - 1] = x
        BY <1>1, <1>2, <2>1, <2>2
    <2>. QED
        BY <2>3 DEF In
<1>6. ASSUME Unique(s) PROVE Unique(Tail(s))
    <2>1. SUFFICES ASSUME NEW i \in 1..(Len(s) - 1), NEW j \in 1..(Len(s) - 1),
                          Tail(s)[i] = Tail(s)[j]
                   PROVE  i = j
        BY <1>1 DEF Unique
    <2>2. s[i + 1] = s[j + 1] /\ i + 1 \in 1..Len(s) /\ j + 1 \in 1..Len(s)
        BY <1>1, <1>2, <2>1
    <2>3. i + 1 = j + 1
        BY <1>6, <2>2 DEF Unique
    <2>. QED
        BY <1>1, <2>3
<1>7. ASSUME Unique(s) PROVE ~In(Tail(s), Head(s))
    <2>1. SUFFICES ASSUME In(Tail(s), Head(s)) PROVE FALSE
        OBVIOUS
    <2>2. PICK i \in 1..(Len(s) - 1) : s[i + 1] = s[1]
        BY <1>1, <1>2, <2>1 DEF In
    <2>3. i + 1 \in 1..Len(s) /\ 1 \in 1..Len(s) /\ i + 1 # 1
        BY <1>1, <2>2
    <2>. QED
        BY <1>7, <2>2, <2>3 DEF Unique
<1>. QED
    BY <1>1, <1>3, <1>4, <1>5, <1>6, <1>7

\* An empty channel.
LEMMA InEmpty == ~(\E x : In(<<>>, x)) /\ Unique(<<>>)
BY DEF In, Unique

\* What a broadcast channel holds after emit: the new event, and of the others
\* at most the oldest is gone.
LEMMA InEmitted ==
    ASSUME NEW S, NEW s \in Seq(S), Len(s) <= EVENT_CHANNEL_CAPACITY, NEW e \in S
    PROVE  /\ Emitted(s, e) \in Seq(S)
           /\ Len(Emitted(s, e)) <= EVENT_CHANNEL_CAPACITY
           /\ \A x : In(Emitted(s, e), x) => In(s, x) \/ x = e
           /\ Unique(s) /\ ~In(s, e) => Unique(Emitted(s, e))
<1>. USE CallsAssumption
<1>1. CASE Len(s) < EVENT_CHANNEL_CAPACITY
    <2>1. Emitted(s, e) = Append(s, e)
        BY <1>1 DEF Emitted
    <2>2. Len(Append(s, e)) = Len(s) + 1 /\ Len(s) \in Nat
        OBVIOUS
    <2>3. \A x : In(Append(s, e), x) => In(s, x) \/ x = e
        BY InAppend
    <2>4. Append(s, e) \in Seq(S)
        OBVIOUS
    <2>. QED
        BY <1>1, <2>1, <2>2, <2>3, <2>4, UniqueAppend
<1>2. CASE ~(Len(s) < EVENT_CHANNEL_CAPACITY)
    <2>1. s # <<>> /\ Len(s) \in Nat /\ Len(s) = EVENT_CHANNEL_CAPACITY
        BY <1>2
    <2>2. /\ Tail(s) \in Seq(S)
          /\ \A x : In(Tail(s), x) => In(s, x)
          /\ Unique(s) => Unique(Tail(s))
        BY <2>1, InTail
    <2>3. Emitted(s, e) = Append(Tail(s), e)
        BY <1>2 DEF Emitted
    <2>4. Len(Append(Tail(s), e)) = Len(s)
        BY <2>1
    <2>5. \A x : In(Append(Tail(s), e), x) => In(Tail(s), x) \/ x = e
        BY <2>2, InAppend
    <2>6. Append(Tail(s), e) \in Seq(S)
        BY <2>2
    <2>7. Unique(s) /\ ~In(s, e) => Unique(Append(Tail(s), e))
        BY <2>2, UniqueAppend
    <2>. QED
        BY <2>1, <2>2, <2>3, <2>4, <2>5, <2>6, <2>7
<1>. QED
    BY <1>1, <1>2

-----------------------------------------------------------------------------
(* Calls are made from a node to a node.                                   *)
LEMMA OnNode == \A c \in Call : From[c] \in Node /\ To[c] \in Node
BY CallsAssumption

-----------------------------------------------------------------------------
(* Types.                                                                  *)

\* The three kinds of command are told apart by what they hold.
LEMMA Commands ==
    /\ \A c \in Call :
          /\ Ask(c) \in Command /\ Response(c) \in Command
          /\ \A d \in Call : /\ Ask(c) # Response(d)
                             /\ (Ask(c) = Ask(d) => c = d)
                             /\ (Response(c) = Response(d) => c = d)
          /\ Ask(c) # ShutdownCmd /\ Response(c) # ShutdownCmd
    /\ ShutdownCmd \in Command
BY CallsAssumption DEF Command, Ask, Response, ShutdownCmd

\* A command sent to a channel with room (net_tx.send).
LEMMA Sending ==
    ASSUME TypeOK, NEW n \in Node, NEW cmd \in Command, Room(n),
           cmds' = [cmds EXCEPT ![n] = Append(@, cmd)]
    PROVE  /\ cmds' \in [Node -> Seq(Command)]
           /\ \A m \in Node : Len(cmds'[m]) <= COMMAND_CHANNEL_CAPACITY
<1>. USE CallsAssumption
<1>1. cmds[n] \in Seq(Command) /\ Len(cmds[n]) \in Nat
    BY DEF TypeOK
<1>2. Append(cmds[n], cmd) \in Seq(Command) /\ Len(Append(cmds[n], cmd)) = Len(cmds[n]) + 1
    BY <1>1
<1>. QED
    BY <1>1, <1>2 DEF TypeOK, Room

\* The swarm task takes the next command (cmd_rx.recv).
LEMMA Receiving ==
    ASSUME TypeOK, NEW n \in Node, NEW cmd, Receives(n, cmd)
    PROVE  /\ cmds' \in [Node -> Seq(Command)]
           /\ \A m \in Node : Len(cmds'[m]) <= COMMAND_CHANNEL_CAPACITY
<1>. USE CallsAssumption
<1>1. cmds[n] \in Seq(Command) /\ cmds[n] # <<>>
    BY DEF TypeOK, Receives
<1>2. Tail(cmds[n]) \in Seq(Command) /\ Len(Tail(cmds[n])) = Len(cmds[n]) - 1 /\ Len(cmds[n]) \in Nat
    BY <1>1
<1>. QED
    BY <1>1, <1>2 DEF TypeOK, Receives

\* An event is broadcast (emit).
LEMMA Emitting ==
    ASSUME TypeOK, NEW n \in Node, NEW e \in Call \cup {NoCall},
           events' = [events EXCEPT ![n] = Emitted(@, e)]
    PROVE  /\ events' \in [Node -> Seq(Call \cup {NoCall})]
           /\ \A m \in Node : Len(events'[m]) <= EVENT_CHANNEL_CAPACITY
<1>1. events[n] \in Seq(Call \cup {NoCall}) /\ Len(events[n]) <= EVENT_CHANNEL_CAPACITY
    BY DEF TypeOK
<1>2. /\ Emitted(events[n], e) \in Seq(Call \cup {NoCall})
      /\ Len(Emitted(events[n], e)) <= EVENT_CHANNEL_CAPACITY
    BY <1>1, InEmitted
<1>. QED
    BY <1>2 DEF TypeOK

\* The event loop takes the next event (events.recv).
LEMMA Taking ==
    ASSUME TypeOK, NEW n \in Node, Takes(n)
    PROVE  /\ events' \in [Node -> Seq(Call \cup {NoCall})]
           /\ \A m \in Node : Len(events'[m]) <= EVENT_CHANNEL_CAPACITY
           /\ Head(events[n]) \in Call \cup {NoCall}
<1>. USE CallsAssumption
<1>1. events[n] \in Seq(Call \cup {NoCall}) /\ events[n] # <<>> /\ Len(events[n]) \in Nat
    BY DEF TypeOK, Takes
<1>2. /\ Tail(events[n]) \in Seq(Call \cup {NoCall})
      /\ Len(Tail(events[n])) = Len(events[n]) - 1
      /\ Head(events[n]) \in Call \cup {NoCall}
    BY <1>1
<1>. QED
    BY <1>1, <1>2 DEF TypeOK, Takes

\* A caller is answered.
LEMMA Ending ==
    ASSUME TypeOK, NEW C, NEW r, Ends(C, r)
    PROVE  waiting' \subseteq Call /\ succeeded' \subseteq Call
BY DEF TypeOK, Ends

\* A slot is closed.
LEMMA Closing ==
    ASSUME TypeOK, NEW c \in Call, NEW r, Closes(c, r)
    PROVE  TypeOK'
BY Ending, CallsAssumption DEF TypeOK, Closes, app, Cut, Ends

\* Type correctness: in particular neither channel ever holds more than its
\* capacity (mpsc::channel and broadcast::channel of swarm::spawn).
THEOREM TypeCorrect == Spec => []TypeOK
<1>. USE CallsAssumption
<1>1. Init => TypeOK
    BY DEF Init, TypeOK
<1>2. TypeOK /\ [Next]_vars => TypeOK'
    <2>. SUFFICES ASSUME TypeOK, [Next]_vars PROVE TypeOK'
        OBVIOUS
    <2>. USE DEF app
    <2>1. ASSUME NEW c \in Call, Asks(c) PROVE TypeOK'
        BY <2>1, Sending, Commands DEF Asks, Begins, TypeOK
    <2>2. ASSUME NEW c \in Call, AskRefused(c) PROVE TypeOK'
        BY <2>2 DEF AskRefused, Begins, TypeOK
    <2>3. ASSUME NEW c \in Call, GivesUp(c) PROVE TypeOK'
        BY <2>3, Ending DEF GivesUp, TypeOK
    <2>4. ASSUME NEW c \in Call, Arrives(c) PROVE TypeOK'
        <3>1. /\ events' \in [Node -> Seq(Call \cup {NoCall})]
              /\ \A m \in Node : Len(events'[m]) <= EVENT_CHANNEL_CAPACITY
            BY <2>4, Emitting DEF Arrives
        <3>. QED
            BY <2>4, <3>1 DEF Arrives, TypeOK
    <2>5. ASSUME NEW c \in Call, Vanishes(c) PROVE TypeOK'
        BY <2>5 DEF Vanishes, TypeOK
    <2>6. ASSUME NEW c \in Call, Responded(c) \/ Fails(c) \/ LookupEnds(c) PROVE TypeOK'
        BY <2>6, Closing DEF Responded, Fails, LookupEnds
    <2>7. ASSUME NEW c \in Call, HandleSend(c) PROVE TypeOK'
        BY <2>7, Receiving DEF HandleSend, Opens, TypeOK
    <2>8. ASSUME NEW c \in Call, HandleFindPeer(c) PROVE TypeOK'
        <3>1. /\ cmds' \in [Node -> Seq(Command)]
              /\ \A m \in Node : Len(cmds'[m]) <= COMMAND_CHANNEL_CAPACITY
            BY <2>8, Receiving DEF HandleFindPeer
        <3>2. CASE Ends({c}, "ok") /\ UNCHANGED <<pending, wire>>
            BY <2>8, <3>1, <3>2, Ending DEF HandleFindPeer, TypeOK
        <3>3. CASE Opens(c) /\ UNCHANGED <<waiting, succeeded>>
            BY <2>8, <3>1, <3>3 DEF HandleFindPeer, Opens, TypeOK
        <3>. QED
            BY <2>8, <3>2, <3>3 DEF HandleFindPeer
    <2>9. ASSUME NEW c \in Call, HandleCheckLive(c) PROVE TypeOK'
        BY <2>9, Receiving, Ending DEF HandleCheckLive, TypeOK
    <2>10. ASSUME NEW c \in Call, HandleRespond(c) PROVE TypeOK'
        BY <2>10, Receiving DEF HandleRespond, TypeOK
    <2>11. ASSUME NEW n \in Node, HandleShutdown(n) PROVE TypeOK'
        BY <2>11, Ending DEF HandleShutdown, TypeOK, Cut
    <2>12. ASSUME NEW n \in Node, Shutdown(n) PROVE TypeOK'
        BY <2>12, Sending, Commands DEF Shutdown, TypeOK
    <2>13. ASSUME NEW n \in Node, PeerReturns(n) PROVE TypeOK'
        <3>1. /\ events' \in [Node -> Seq(Call \cup {NoCall})]
              /\ \A m \in Node : Len(events'[m]) <= EVENT_CHANNEL_CAPACITY
            BY <2>13, Emitting DEF PeerReturns
        <3>. QED
            BY <2>13, <3>1 DEF PeerReturns, TypeOK
    <2>14. ASSUME NEW n \in Node, LoopTakes(n) PROVE TypeOK'
        <3>1. /\ events' \in [Node -> Seq(Call \cup {NoCall})]
              /\ \A m \in Node : Len(events'[m]) <= EVENT_CHANNEL_CAPACITY
              /\ Head(events[n]) \in Call \cup {NoCall}
            BY <2>14, Taking DEF LoopTakes, HandleRequest, HandlerFails, StartDrain
        <3>2. CASE HandleRequest(n)
            BY <3>1, <3>2 DEF HandleRequest, TypeOK
        <3>3. CASE HandlerFails(n)
            BY <3>1, <3>3 DEF HandlerFails, TypeOK
        <3>4. CASE StartDrain(n)
            BY <3>1, <3>4 DEF StartDrain, TypeOK
        <3>. QED
            BY <2>14, <3>2, <3>3, <3>4 DEF LoopTakes
    <2>15. ASSUME NEW n \in Node, Responds(n) PROVE TypeOK'
        BY <2>15, Sending, Commands DEF Responds, TypeOK
    <2>16. CASE UNCHANGED vars
        BY <2>16 DEF vars, TypeOK
    <2>. QED
        BY <2>1, <2>2, <2>3, <2>4, <2>5, <2>6, <2>7, <2>8, <2>9, <2>10, <2>11,
           <2>12, <2>13, <2>14, <2>15, <2>16 DEF Next, HandleCommand
<1>. QED
    BY <1>1, <1>2, PTL DEF Spec

-----------------------------------------------------------------------------
(* Where a request is.                                                     *)

\* What the channel of one node holds after a command was sent.
LEMMA SendingPlaces ==
    ASSUME TypeOK, NEW n \in Node, NEW cmd \in Command,
           cmds' = [cmds EXCEPT ![n] = Append(@, cmd)]
    PROVE  /\ \A m \in Node : \A x : In(cmds'[m], x) <=> In(cmds[m], x) \/ (m = n /\ x = cmd)
           /\ ~In(cmds[n], cmd) => \A m \in Node : Unique(cmds[m]) => Unique(cmds'[m])
<1>1. cmds[n] \in Seq(Command)
    BY DEF TypeOK
<1>2. \A m \in Node : cmds'[m] = IF m = n THEN Append(cmds[n], cmd) ELSE cmds[m]
    BY DEF TypeOK
<1>3. \A x : In(Append(cmds[n], cmd), x) <=> In(cmds[n], x) \/ x = cmd
    BY <1>1, InAppend
<1>4. Unique(cmds[n]) /\ ~In(cmds[n], cmd) => Unique(Append(cmds[n], cmd))
    BY <1>1, UniqueAppend
<1>. QED
    BY <1>2, <1>3, <1>4

\* What the channels hold after the swarm task has received a command.
LEMMA ReceivingPlaces ==
    ASSUME TypeOK, NEW n \in Node, NEW cmd, Receives(n, cmd)
    PROVE  /\ In(cmds[n], cmd)
           /\ \A m \in Node : \A x : In(cmds'[m], x) => In(cmds[m], x)
           /\ \A m \in Node : \A x : In(cmds[m], x) => In(cmds'[m], x) \/ (m = n /\ x = cmd)
           /\ \A m \in Node : Unique(cmds[m]) => Unique(cmds'[m])
           /\ Unique(cmds[n]) => ~In(cmds'[n], cmd)
<1>1. cmds[n] \in Seq(Command) /\ cmds[n] # <<>> /\ Head(cmds[n]) = cmd
    BY DEF TypeOK, Receives
<1>2. \A m \in Node : cmds'[m] = IF m = n THEN Tail(cmds[n]) ELSE cmds[m]
    BY DEF TypeOK, Receives
<1>3. /\ In(cmds[n], cmd)
      /\ \A x : In(Tail(cmds[n]), x) => In(cmds[n], x)
      /\ \A x : In(cmds[n], x) => x = cmd \/ In(Tail(cmds[n]), x)
      /\ Unique(cmds[n]) => Unique(Tail(cmds[n])) /\ ~In(Tail(cmds[n]), cmd)
    BY <1>1, InTail
<1>. QED
    BY <1>2, <1>3

\* A caller's command that is taken from the channel (the swarm task's recv) was in it
\* once.
LEMMA AskTaken ==
    ASSUME TypeOK, NEW c \in Call, Receives(From[c], Ask(c)), Unique(cmds[From[c]])
    PROVE  /\ \A m \in Node : \A x : In(cmds'[m], x) => In(cmds[m], x)
           /\ \A m \in Node : \A x :
                  In(cmds[m], x) => In(cmds'[m], x) \/ (m = From[c] /\ x = Ask(c))
           /\ \A m \in Node : Unique(cmds[m]) => Unique(cmds'[m])
           /\ In(cmds[From[c]], Ask(c)) /\ ~In(cmds'[From[c]], Ask(c))
<1>1. From[c] \in Node
    BY OnNode
<1> DEFINE n == From[c]
           cmd == Ask(c)
<1> HIDE DEF n, cmd
<1>2. n \in Node /\ Receives(n, cmd) /\ Unique(cmds[n])
    BY <1>1 DEF n, cmd
<1>3. /\ In(cmds[n], cmd)
      /\ \A m \in Node : \A x : In(cmds'[m], x) => In(cmds[m], x)
      /\ \A m \in Node : \A x : In(cmds[m], x) => In(cmds'[m], x) \/ (m = n /\ x = cmd)
      /\ \A m \in Node : Unique(cmds[m]) => Unique(cmds'[m])
      /\ ~In(cmds'[n], cmd)
    BY <1>2, ReceivingPlaces
<1>. QED
    BY <1>3 DEF n, cmd

\* What the event channels hold after an event was broadcast.
LEMMA EmittingPlaces ==
    ASSUME TypeOK, NEW n \in Node, NEW e \in Call \cup {NoCall},
           events' = [events EXCEPT ![n] = Emitted(@, e)]
    PROVE  /\ \A m \in Node : \A x : In(events'[m], x) => In(events[m], x) \/ (m = n /\ x = e)
           /\ ~In(events[n], e) => \A m \in Node : Unique(events[m]) => Unique(events'[m])
<1>1. events[n] \in Seq(Call \cup {NoCall}) /\ Len(events[n]) <= EVENT_CHANNEL_CAPACITY
    BY DEF TypeOK
<1>2. \A m \in Node : events'[m] = IF m = n THEN Emitted(events[n], e) ELSE events[m]
    BY DEF TypeOK
<1>3. /\ \A x : In(Emitted(events[n], e), x) => In(events[n], x) \/ x = e
      /\ Unique(events[n]) /\ ~In(events[n], e) => Unique(Emitted(events[n], e))
    BY <1>1, InEmitted
<1>. QED
    BY <1>2, <1>3

\* What they hold after a loop took the next event.
LEMMA TakingPlaces ==
    ASSUME TypeOK, NEW n \in Node, Takes(n)
    PROVE  /\ In(events[n], Head(events[n]))
           /\ \A m \in Node : \A x : In(events'[m], x) => In(events[m], x)
           /\ \A m \in Node : \A x : In(events[m], x) =>
                  In(events'[m], x) \/ (m = n /\ x = Head(events[n]))
           /\ \A m \in Node : Unique(events[m]) => Unique(events'[m])
           /\ Unique(events[n]) => ~In(events'[n], Head(events[n]))
<1>1. events[n] \in Seq(Call \cup {NoCall}) /\ events[n] # <<>>
    BY DEF TypeOK, Takes
<1>2. \A m \in Node : events'[m] = IF m = n THEN Tail(events[n]) ELSE events[m]
    BY DEF TypeOK, Takes
<1>3. /\ In(events[n], Head(events[n]))
      /\ \A x : In(Tail(events[n]), x) => In(events[n], x)
      /\ \A x : In(events[n], x) => x = Head(events[n]) \/ In(Tail(events[n]), x)
      /\ Unique(events[n]) => Unique(Tail(events[n])) /\ ~In(Tail(events[n]), Head(events[n]))
    BY <1>1, InTail
<1>. QED
    BY <1>2, <1>3

\* Closing a slot: the answer is one of an executed request, or no answer.
LEMMA ClosingPlaces ==
    ASSUME TypeOK, IInv, NEW c \in Call, NEW r, Closes(c, r),
           r = "ok" /\ Kind[c] \in Remote => c \in executed
    PROVE  IInv'
<1>. USE CallsAssumption DEF app
<1>1. /\ wire' = [wire EXCEPT ![c] = Cut(c)]
      /\ pending' = [pending EXCEPT ![From[c]] = @ \ {c}]
      /\ waiting' = waiting \ {c}
      /\ succeeded' \subseteq succeeded \cup (IF r = "ok" THEN {c} ELSE {})
      /\ c \in pending[From[c]]
      /\ UNCHANGED <<asked, rows, answering, cmds, events, up, executed>>
    BY DEF Closes, Ends
<1>2. /\ wire[c] \in {"out", "in", "back"}
      /\ Cut(c) \in {"none", "stray"}
      /\ Cut(c) = "stray" => wire[c] = "out" /\ Kind[c] \in Remote
    BY <1>1 DEF Cut, IInv, SlotsAreLive
<1>. HIDE DEF Closes, Cut
<1>3. CallsMade'
    BY <1>1, <1>2 DEF IInv, CallsMade, TypeOK
<1>4. CommandsPlaced'
    BY <1>1, <1>2 DEF IInv, CommandsPlaced, TypeOK
<1>5. EventsPlaced'
    BY <1>1, <1>2 DEF IInv, EventsPlaced, TypeOK
<1>6. WirePlaced'
    BY <1>1, <1>2 DEF IInv, WirePlaced, TypeOK
<1>7. SlotsAreLive'
    BY <1>1, <1>2 DEF IInv, SlotsAreLive, TypeOK
<1>8. NoCallHangs'
    BY <1>1 DEF IInv, NoCallHangs, TypeOK
<1>. QED
    BY <1>3, <1>4, <1>5, <1>6, <1>7, <1>8 DEF IInv

-----------------------------------------------------------------------------
(* The invariant.                                                          *)

\* Every step keeps a request in one place (one case for each action).
LEMMA InvStep == TypeOK /\ IInv /\ [Next]_vars => IInv'
<1>. USE CallsAssumption DEF app
<1>. SUFFICES ASSUME TypeOK, IInv, [Next]_vars PROVE IInv'
    OBVIOUS
<1>01. CallsMade /\ CommandsPlaced /\ EventsPlaced /\ WirePlaced /\ SlotsAreLive /\ NoCallHangs
    BY DEF IInv
<1>02. \A n \in Node : Unique(cmds[n]) /\ Unique(events[n])
    BY <1>01 DEF CommandsPlaced, EventsPlaced
<1>1. ASSUME NEW c \in Call, Asks(c) PROVE IInv'
    <2>1. /\ c \notin asked /\ From[c] \in up
          /\ asked' = asked \cup {c} /\ waiting' = waiting \cup {c}
          /\ rows' = [rows EXCEPT ![From[c]] = @ \ {c}]
          /\ cmds' = [cmds EXCEPT ![From[c]] = Append(@, Ask(c))]
          /\ UNCHANGED <<succeeded, answering, events, up, pending, wire, executed>>
        BY <1>1 DEF Asks, Begins, MayAsk
    <2>2. /\ wire[c] = "none" /\ c \notin executed /\ ~In(events[To[c]], c)
          /\ ~In(cmds[From[c]], Ask(c))
        BY <1>01, <2>1 DEF CallsMade, CommandsPlaced, EventsPlaced, TypeOK
    <2>3. /\ \A m \in Node : \A x : In(cmds'[m], x) <=> In(cmds[m], x) \/ (m = From[c] /\ x = Ask(c))
          /\ \A m \in Node : Unique(cmds[m]) => Unique(cmds'[m])
        BY <2>1, <2>2, SendingPlaces, Commands
    <2>4. \A d \in Call : /\ Ask(c) # Response(d)
                         /\ (Ask(c) = Ask(d) => c = d)
        BY Commands
    <2>10. CallsMade'
        BY <1>01, <2>1, <2>2, <2>3, <2>4 DEF TypeOK, CallsMade
    <2>11. CommandsPlaced'
        BY <1>01, <2>1, <2>2, <2>3, <2>4 DEF TypeOK, CommandsPlaced
    <2>12. EventsPlaced'
        BY <1>01, <2>1, <2>2, <2>3, <2>4 DEF TypeOK, EventsPlaced
    <2>13. WirePlaced'
        BY <1>01, <2>1, <2>2, <2>3, <2>4 DEF TypeOK, WirePlaced
    <2>14. SlotsAreLive'
        BY <1>01, <2>1, <2>2, <2>3, <2>4 DEF TypeOK, SlotsAreLive
    <2>15. NoCallHangs'
        BY <1>01, <2>1, <2>2, <2>3, <2>4 DEF TypeOK, NoCallHangs
    <2>. QED
        BY <2>10, <2>11, <2>12, <2>13, <2>14, <2>15 DEF IInv
<1>2. ASSUME NEW c \in Call, AskRefused(c) PROVE IInv'
    <2>1. /\ asked' = asked \cup {c} /\ rows' = [rows EXCEPT ![From[c]] = @ \ {c}]
          /\ UNCHANGED <<waiting, succeeded, answering, cmds, events, up, pending, wire, executed>>
        BY <1>2 DEF AskRefused, Begins
    <2>10. CallsMade'
        BY <1>01, <2>1 DEF TypeOK, CallsMade
    <2>11. CommandsPlaced'
        BY <1>01, <2>1 DEF TypeOK, CommandsPlaced
    <2>12. EventsPlaced'
        BY <1>01, <2>1 DEF TypeOK, EventsPlaced
    <2>13. WirePlaced'
        BY <1>01, <2>1 DEF TypeOK, WirePlaced
    <2>14. SlotsAreLive'
        BY <1>01, <2>1 DEF TypeOK, SlotsAreLive
    <2>15. NoCallHangs'
        BY <1>01, <2>1 DEF TypeOK, NoCallHangs
    <2>. QED
        BY <2>10, <2>11, <2>12, <2>13, <2>14, <2>15 DEF IInv
<1>3. ASSUME NEW c \in Call, GivesUp(c) PROVE IInv'
    <2>1. /\ waiting' = waiting \ {c} /\ succeeded' = succeeded
          /\ UNCHANGED <<app, cmds, events, up, pending, wire, executed>>
        BY <1>3 DEF GivesUp, Ends
    <2>10. CallsMade'
        BY <1>01, <2>1 DEF TypeOK, CallsMade
    <2>11. CommandsPlaced'
        BY <1>01, <2>1 DEF TypeOK, CommandsPlaced
    <2>12. EventsPlaced'
        BY <1>01, <2>1 DEF TypeOK, EventsPlaced
    <2>13. WirePlaced'
        BY <1>01, <2>1 DEF TypeOK, WirePlaced
    <2>14. SlotsAreLive'
        BY <1>01, <2>1 DEF TypeOK, SlotsAreLive
    <2>15. NoCallHangs'
        BY <1>01, <2>1 DEF TypeOK, NoCallHangs
    <2>. QED
        BY <2>10, <2>11, <2>12, <2>13, <2>14, <2>15 DEF IInv
<1>4. ASSUME NEW c \in Call, Arrives(c) PROVE IInv'
    <2>1. /\ wire[c] \in {"out", "stray"} /\ Kind[c] \in Remote
          /\ wire' = [wire EXCEPT ![c] = IF @ = "out" THEN "in" ELSE "none"]
          /\ events' = [events EXCEPT ![To[c]] = Emitted(@, c)]
          /\ UNCHANGED <<waiting, succeeded, app, cmds, up, pending, executed>>
        BY <1>4 DEF Arrives
    <2>2. /\ c \in asked \ executed /\ ~In(cmds[From[c]], Ask(c))
          /\ ~In(events[To[c]], c)
        BY <1>01, <2>1 DEF CallsMade, WirePlaced, CommandsPlaced, EventsPlaced, TypeOK
    <2>3. /\ \A m \in Node : \A x : In(events'[m], x) => In(events[m], x) \/ (m = To[c] /\ x = c)
          /\ \A m \in Node : Unique(events[m]) => Unique(events'[m])
        <3>1. To[c] \in Node /\ c \in Call \cup {NoCall}
            BY OnNode
        <3>2. events' = [events EXCEPT ![To[c]] = Emitted(@, c)]
            BY <2>1
        <3>. QED
            BY <2>2, <3>1, <3>2, EmittingPlaces
    <2>10. CallsMade'
        BY <1>01, <2>1, <2>2, <2>3 DEF TypeOK, CallsMade
    <2>11. CommandsPlaced'
        BY <1>01, <2>1, <2>2, <2>3 DEF TypeOK, CommandsPlaced
    <2>12. EventsPlaced'
        BY <1>01, <2>1, <2>2, <2>3 DEF TypeOK, EventsPlaced
    <2>13. WirePlaced'
        BY <1>01, <2>1, <2>2, <2>3 DEF TypeOK, WirePlaced
    <2>14. SlotsAreLive'
        BY <1>01, <2>1, <2>2, <2>3 DEF TypeOK, SlotsAreLive
    <2>15. NoCallHangs'
        BY <1>01, <2>1, <2>2, <2>3 DEF TypeOK, NoCallHangs
    <2>. QED
        BY <2>10, <2>11, <2>12, <2>13, <2>14, <2>15 DEF IInv
<1>5. ASSUME NEW c \in Call, Vanishes(c) PROVE IInv'
    <2>1. /\ wire[c] = "stray" /\ wire' = [wire EXCEPT ![c] = "none"]
          /\ UNCHANGED <<waiting, succeeded, app, cmds, events, up, pending, executed>>
        BY <1>5 DEF Vanishes
    <2>10. CallsMade'
        BY <1>01, <2>1 DEF TypeOK, CallsMade
    <2>11. CommandsPlaced'
        BY <1>01, <2>1 DEF TypeOK, CommandsPlaced
    <2>12. EventsPlaced'
        BY <1>01, <2>1 DEF TypeOK, EventsPlaced
    <2>13. WirePlaced'
        BY <1>01, <2>1 DEF TypeOK, WirePlaced
    <2>14. SlotsAreLive'
        BY <1>01, <2>1 DEF TypeOK, SlotsAreLive
    <2>15. NoCallHangs'
        BY <1>01, <2>1 DEF TypeOK, NoCallHangs
    <2>. QED
        BY <2>10, <2>11, <2>12, <2>13, <2>14, <2>15 DEF IInv
<1>6. ASSUME NEW c \in Call, Responded(c) \/ Fails(c) \/ LookupEnds(c) PROVE IInv'
    <2>1. CASE Responded(c)
        <3>1. Closes(c, "ok") /\ c \in executed
            BY <1>01, <2>1 DEF Responded, WirePlaced
        <3>. QED
            BY <3>1, ClosingPlaces
    <2>2. CASE Fails(c)
        BY <2>2, ClosingPlaces DEF Fails
    <2>3. CASE LookupEnds(c)
        <3>1. PICK r \in {"ok", "err"} : Closes(c, r) /\ Kind[c] \notin Remote
            BY <2>3 DEF LookupEnds, Remote
        <3>. QED
            BY <3>1, ClosingPlaces
    <2>. QED
        BY <1>6, <2>1, <2>2, <2>3
<1>7. ASSUME NEW c \in Call, HandleSend(c) PROVE IInv'
    <2>1. /\ Kind[c] \in Remote /\ Receives(From[c], Ask(c))
          /\ pending' = [pending EXCEPT ![From[c]] = @ \cup {c}] /\ wire' = [wire EXCEPT ![c] = "out"]
          /\ UNCHANGED <<waiting, succeeded, app, events, up, executed>>
        BY <1>7 DEF HandleSend, Opens
    <2>2. /\ \A m \in Node : \A x : In(cmds'[m], x) => In(cmds[m], x)
          /\ \A m \in Node : \A x : In(cmds[m], x) => In(cmds'[m], x) \/ (m = From[c] /\ x = Ask(c))
          /\ \A m \in Node : Unique(cmds[m]) => Unique(cmds'[m])
          /\ In(cmds[From[c]], Ask(c)) /\ ~In(cmds'[From[c]], Ask(c))
        <3>1. Unique(cmds[From[c]])
            BY <1>02, OnNode
        <3>2. Receives(From[c], Ask(c))
            BY <2>1
        <3>. QED
            BY <3>1, <3>2, AskTaken
    <2>3. c \in asked \ executed /\ wire[c] = "none" /\ ~In(events[To[c]], c)
        BY <1>01, <2>2 DEF CommandsPlaced
    <2>4. \A d \in Call : /\ Ask(c) # Response(d)
                         /\ (Ask(c) = Ask(d) => c = d)
        BY Commands
    <2>10. CallsMade'
        BY <1>01, <2>1, <2>2, <2>3, <2>4 DEF TypeOK, CallsMade
    <2>11. CommandsPlaced'
        BY <1>01, <2>1, <2>2, <2>3, <2>4 DEF TypeOK, CommandsPlaced
    <2>12. EventsPlaced'
        BY <1>01, <2>1, <2>2, <2>3, <2>4 DEF TypeOK, EventsPlaced
    <2>13. WirePlaced'
        BY <1>01, <2>1, <2>2, <2>3, <2>4 DEF TypeOK, WirePlaced
    <2>14. SlotsAreLive'
        BY <1>01, <2>1, <2>2, <2>3, <2>4 DEF TypeOK, SlotsAreLive
    <2>15. NoCallHangs'
        BY <1>01, <2>1, <2>2, <2>3, <2>4 DEF TypeOK, NoCallHangs
    <2>. QED
        BY <2>10, <2>11, <2>12, <2>13, <2>14, <2>15 DEF IInv
<1>8. ASSUME NEW c \in Call, HandleFindPeer(c) PROVE IInv'
    <2>1. /\ Kind[c] = "find" /\ Kind[c] \notin Remote /\ Receives(From[c], Ask(c))
          /\ waiting' \subseteq waiting /\ succeeded' \subseteq succeeded \cup {c}
          /\ \/ waiting' = waiting \ {c} /\ UNCHANGED <<pending, wire>>
             \/ /\ pending' = [pending EXCEPT ![From[c]] = @ \cup {c}]
                /\ wire' = [wire EXCEPT ![c] = "out"]
          /\ UNCHANGED <<app, events, up, executed>>
        BY <1>8 DEF HandleFindPeer, Opens, Ends, Remote
    <2>2. /\ \A m \in Node : \A x : In(cmds'[m], x) => In(cmds[m], x)
          /\ \A m \in Node : \A x : In(cmds[m], x) => In(cmds'[m], x) \/ (m = From[c] /\ x = Ask(c))
          /\ \A m \in Node : Unique(cmds[m]) => Unique(cmds'[m])
          /\ In(cmds[From[c]], Ask(c)) /\ ~In(cmds'[From[c]], Ask(c))
        <3>1. Unique(cmds[From[c]])
            BY <1>02, OnNode
        <3>2. Receives(From[c], Ask(c))
            BY <2>1
        <3>. QED
            BY <3>1, <3>2, AskTaken
    <2>3. c \in asked \ executed /\ wire[c] = "none" /\ ~In(events[To[c]], c)
        BY <1>01, <2>2 DEF CommandsPlaced
    <2>4. \A d \in Call : /\ Ask(c) # Response(d)
                         /\ (Ask(c) = Ask(d) => c = d)
        BY Commands
    <2>10. CallsMade'
        BY <1>01, <2>1, <2>2, <2>3, <2>4 DEF TypeOK, CallsMade
    <2>11. CommandsPlaced'
        BY <1>01, <2>1, <2>2, <2>3, <2>4 DEF TypeOK, CommandsPlaced
    <2>12. EventsPlaced'
        BY <1>01, <2>1, <2>2, <2>3, <2>4 DEF TypeOK, EventsPlaced
    <2>13. WirePlaced'
        BY <1>01, <2>1, <2>2, <2>3, <2>4 DEF TypeOK, WirePlaced
    <2>14. SlotsAreLive'
        <3>1. CASE UNCHANGED <<pending, wire>>
            BY <1>01, <2>1, <2>2, <2>3, <2>4, <3>1 DEF TypeOK, SlotsAreLive
        <3>2. CASE /\ pending' = [pending EXCEPT ![From[c]] = @ \cup {c}]
                   /\ wire' = [wire EXCEPT ![c] = "out"]
            BY <1>01, <2>1, <2>2, <2>3, <2>4, <3>2 DEF TypeOK, SlotsAreLive
        <3>. QED
            BY <2>1, <3>1, <3>2
    <2>15. NoCallHangs'
        BY <1>01, <2>1, <2>2, <2>3, <2>4 DEF TypeOK, NoCallHangs
    <2>. QED
        BY <2>10, <2>11, <2>12, <2>13, <2>14, <2>15 DEF IInv
<1>9. ASSUME NEW c \in Call, HandleCheckLive(c) PROVE IInv'
    <2>1. /\ Kind[c] = "live" /\ Kind[c] \notin Remote /\ Receives(From[c], Ask(c))
          /\ waiting' = waiting \ {c} /\ succeeded' \subseteq succeeded \cup {c}
          /\ UNCHANGED <<app, events, up, pending, wire, executed>>
        BY <1>9 DEF HandleCheckLive, Ends, Remote
    <2>2. /\ \A m \in Node : \A x : In(cmds'[m], x) => In(cmds[m], x)
          /\ \A m \in Node : \A x : In(cmds[m], x) => In(cmds'[m], x) \/ (m = From[c] /\ x = Ask(c))
          /\ \A m \in Node : Unique(cmds[m]) => Unique(cmds'[m])
          /\ In(cmds[From[c]], Ask(c)) /\ ~In(cmds'[From[c]], Ask(c))
        <3>1. Unique(cmds[From[c]])
            BY <1>02, OnNode
        <3>2. Receives(From[c], Ask(c))
            BY <2>1
        <3>. QED
            BY <3>1, <3>2, AskTaken
    <2>3. \A d \in Call : /\ Ask(c) # Response(d)
                         /\ (Ask(c) = Ask(d) => c = d)
        BY Commands
    <2>10. CallsMade'
        BY <1>01, <2>1, <2>2, <2>3 DEF TypeOK, CallsMade
    <2>11. CommandsPlaced'
        BY <1>01, <2>1, <2>2, <2>3 DEF TypeOK, CommandsPlaced
    <2>12. EventsPlaced'
        BY <1>01, <2>1, <2>2, <2>3 DEF TypeOK, EventsPlaced
    <2>13. WirePlaced'
        BY <1>01, <2>1, <2>2, <2>3 DEF TypeOK, WirePlaced
    <2>14. SlotsAreLive'
        BY <1>01, <2>1, <2>2, <2>3 DEF TypeOK, SlotsAreLive
    <2>15. NoCallHangs'
        BY <1>01, <2>1, <2>2, <2>3 DEF TypeOK, NoCallHangs
    <2>. QED
        BY <2>10, <2>11, <2>12, <2>13, <2>14, <2>15 DEF IInv
<1>10. ASSUME NEW c \in Call, HandleRespond(c) PROVE IInv'
    <2>1. /\ Receives(To[c], Response(c))
          /\ wire' = wire \/ (wire[c] = "in" /\ wire' = [wire EXCEPT ![c] = "back"])
          /\ UNCHANGED <<waiting, succeeded, app, events, up, pending, executed>>
        BY <1>10 DEF HandleRespond
    <2>2. /\ \A m \in Node : \A x : In(cmds'[m], x) => In(cmds[m], x)
          /\ \A m \in Node : \A x : In(cmds[m], x) => In(cmds'[m], x) \/ (m = To[c] /\ x = Response(c))
          /\ \A m \in Node : Unique(cmds[m]) => Unique(cmds'[m])
          /\ In(cmds[To[c]], Response(c)) /\ ~In(cmds'[To[c]], Response(c))
        <3> DEFINE n == To[c]
                   cmd == Response(c)
        <3> HIDE DEF n, cmd
        <3>1. n \in Node /\ Receives(n, cmd) /\ Unique(cmds[n])
            BY <1>02, <2>1, OnNode DEF n, cmd
        <3>2. /\ In(cmds[n], cmd)
              /\ \A m \in Node : \A x : In(cmds'[m], x) => In(cmds[m], x)
              /\ \A m \in Node : \A x : In(cmds[m], x) => In(cmds'[m], x) \/ (m = n /\ x = cmd)
              /\ \A m \in Node : Unique(cmds[m]) => Unique(cmds'[m])
              /\ ~In(cmds'[n], cmd)
            BY <3>1, ReceivingPlaces
        <3>. QED
            BY <3>2 DEF n, cmd
    <2>3. \A d \in Call : Ask(d) # Response(c)
        BY Commands
    <2>4. c \in executed
        BY <1>01, <2>2 DEF CommandsPlaced
    <2>10. CallsMade'
        BY <1>01, <2>1, <2>2, <2>3, <2>4 DEF TypeOK, CallsMade
    <2>11. CommandsPlaced'
        BY <1>01, <2>1, <2>2, <2>3, <2>4 DEF TypeOK, CommandsPlaced
    <2>12. EventsPlaced'
        BY <1>01, <2>1, <2>2, <2>3, <2>4 DEF TypeOK, EventsPlaced
    <2>13. WirePlaced'
        BY <1>01, <2>1, <2>2, <2>3, <2>4 DEF TypeOK, WirePlaced
    <2>14. SlotsAreLive'
        BY <1>01, <2>1, <2>2, <2>3, <2>4 DEF TypeOK, SlotsAreLive
    <2>15. NoCallHangs'
        BY <1>01, <2>1, <2>2, <2>3, <2>4 DEF TypeOK, NoCallHangs
    <2>. QED
        BY <2>10, <2>11, <2>12, <2>13, <2>14, <2>15 DEF IInv
<1>11. ASSUME NEW n \in Node, HandleShutdown(n) PROVE IInv'
    <2>1. /\ cmds' = [cmds EXCEPT ![n] = <<>>]
          /\ waiting' = waiting \ {c \in Call : From[c] = n} /\ succeeded' = succeeded
          /\ up' = up \ {n} /\ pending' = [pending EXCEPT ![n] = {}]
          /\ wire' = [c \in Call |-> IF From[c] = n THEN Cut(c) ELSE wire[c]]
          /\ UNCHANGED <<app, events, executed>>
        BY <1>11 DEF HandleShutdown, Ends
    <2>2. /\ \A m \in Node : \A x : In(cmds'[m], x) => m # n /\ In(cmds[m], x)
          /\ \A m \in Node : \A x : m # n /\ In(cmds[m], x) => In(cmds'[m], x)
          /\ \A m \in Node : Unique(cmds[m]) => Unique(cmds'[m])
        BY <2>1, InEmpty DEF TypeOK
    <2>3. \A c \in Call :
             \/ wire'[c] = "none" /\ From[c] = n
             \/ /\ wire'[c] = "stray" /\ From[c] = n
                /\ wire[c] \in {"out", "stray"} /\ Kind[c] \in Remote
             \/ wire'[c] = wire[c] /\ From[c] # n
        BY <2>1 DEF Cut
    <2>4. /\ \A m \in Node : pending'[m] = IF m = n THEN {} ELSE pending[m]
          /\ waiting' \subseteq waiting
          /\ UNCHANGED <<asked, rows, answering, succeeded, events, executed>>
        BY <2>1 DEF TypeOK
    <2>10. CallsMade'
        BY <1>01, <2>3, <2>4 DEF TypeOK, CallsMade
    <2>11. CommandsPlaced'
        BY <1>01, <2>2, <2>3, <2>4 DEF TypeOK, CommandsPlaced
    <2>12. EventsPlaced'
        BY <1>01, <2>3, <2>4 DEF TypeOK, EventsPlaced
    <2>13. WirePlaced'
        BY <1>01, <2>3, <2>4 DEF TypeOK, WirePlaced
    <2>14. SlotsAreLive'
        <3>. SUFFICES ASSUME NEW m \in Node
                      PROVE  pending'[m] = {c \in Call : From[c] = m /\ wire'[c] \in {"out", "in", "back"}}
            BY DEF SlotsAreLive
        <3>1. CASE m = n
            <4>1. \A c \in Call : From[c] = m => wire'[c] \notin {"out", "in", "back"}
                BY <2>3, <3>1
            <4>. QED
                BY <2>4, <3>1, <4>1
        <3>2. CASE m # n
            <4>1. pending'[m] = {c \in Call : From[c] = m /\ wire[c] \in {"out", "in", "back"}}
                BY <1>01, <2>4, <3>2 DEF SlotsAreLive
            <4>2. \A c \in Call : From[c] = m => wire'[c] = wire[c]
                BY <2>3, <3>2
            <4>. QED
                BY <4>1, <4>2
        <3>. QED
            BY <3>1, <3>2
    <2>15. NoCallHangs'
        BY <1>01, <2>1, <2>2, <2>4 DEF TypeOK, NoCallHangs
    <2>. QED
        BY <2>10, <2>11, <2>12, <2>13, <2>14, <2>15 DEF IInv
<1>12. ASSUME NEW n \in Node, Shutdown(n) PROVE IInv'
    <2>1. /\ n \in up /\ ~In(cmds[n], ShutdownCmd)
          /\ cmds' = [cmds EXCEPT ![n] = Append(@, ShutdownCmd)]
          /\ UNCHANGED <<waiting, succeeded, app, events, up, pending, wire, executed>>
        BY <1>12 DEF Shutdown
    <2>2. /\ \A m \in Node : \A x : In(cmds'[m], x) <=> In(cmds[m], x) \/ (m = n /\ x = ShutdownCmd)
          /\ \A m \in Node : Unique(cmds[m]) => Unique(cmds'[m])
        BY <2>1, SendingPlaces, Commands
    <2>3. \A c \in Call : Ask(c) # ShutdownCmd /\ Response(c) # ShutdownCmd
        BY Commands
    <2>10. CallsMade'
        BY <1>01, <2>1, <2>2, <2>3 DEF TypeOK, CallsMade
    <2>11. CommandsPlaced'
        BY <1>01, <2>1, <2>2, <2>3 DEF TypeOK, CommandsPlaced
    <2>12. EventsPlaced'
        BY <1>01, <2>1, <2>2, <2>3 DEF TypeOK, EventsPlaced
    <2>13. WirePlaced'
        BY <1>01, <2>1, <2>2, <2>3 DEF TypeOK, WirePlaced
    <2>14. SlotsAreLive'
        BY <1>01, <2>1, <2>2, <2>3 DEF TypeOK, SlotsAreLive
    <2>15. NoCallHangs'
        BY <1>01, <2>1, <2>2, <2>3 DEF TypeOK, NoCallHangs
    <2>. QED
        BY <2>10, <2>11, <2>12, <2>13, <2>14, <2>15 DEF IInv
<1>13. ASSUME NEW n \in Node, PeerReturns(n) PROVE IInv'
    <2>1. /\ ~In(events[n], NoCall) /\ events' = [events EXCEPT ![n] = Emitted(@, NoCall)]
          /\ UNCHANGED <<waiting, succeeded, app, cmds, up, pending, wire, executed>>
        BY <1>13 DEF PeerReturns
    <2>2. /\ \A m \in Node : \A x : In(events'[m], x) => In(events[m], x) \/ (m = n /\ x = NoCall)
          /\ \A m \in Node : Unique(events[m]) => Unique(events'[m])
        BY <2>1, EmittingPlaces
    <2>10. CallsMade'
        BY <1>01, <2>1, <2>2 DEF TypeOK, CallsMade
    <2>11. CommandsPlaced'
        BY <1>01, <2>1, <2>2 DEF TypeOK, CommandsPlaced
    <2>12. EventsPlaced'
        BY <1>01, <2>1, <2>2 DEF TypeOK, EventsPlaced
    <2>13. WirePlaced'
        BY <1>01, <2>1, <2>2 DEF TypeOK, WirePlaced
    <2>14. SlotsAreLive'
        BY <1>01, <2>1, <2>2 DEF TypeOK, SlotsAreLive
    <2>15. NoCallHangs'
        BY <1>01, <2>1, <2>2 DEF TypeOK, NoCallHangs
    <2>. QED
        BY <2>10, <2>11, <2>12, <2>13, <2>14, <2>15 DEF IInv
<1>14. ASSUME NEW n \in Node, HandleRequest(n) PROVE IInv'
    <2>1. /\ Takes(n) /\ Head(events[n]) # NoCall
          /\ answering' = [answering EXCEPT ![n] = Head(events[n])]
          /\ executed' = executed \cup {Head(events[n])}
          /\ UNCHANGED <<asked, waiting, succeeded, rows, cmds, up, pending, wire>>
        BY <1>14 DEF HandleRequest
    <2>2. /\ \A m \in Node : \A x : In(events'[m], x) => In(events[m], x)
          /\ \A m \in Node : Unique(events[m]) => Unique(events'[m])
          /\ In(events[n], Head(events[n])) /\ ~In(events'[n], Head(events[n]))
        BY <1>02, <2>1, TakingPlaces
    <2>3. Head(events[n]) \in Call
        BY <2>1, Taking
    <2>4. /\ To[Head(events[n])] = n /\ Head(events[n]) \in asked \ executed
          /\ wire[Head(events[n])] \notin {"out", "stray"}
          /\ \A m \in Node : ~In(cmds[m], Ask(Head(events[n]))) /\ ~In(cmds[m], Response(Head(events[n])))
        BY <1>01, <2>2, <2>3 DEF EventsPlaced, CommandsPlaced
    <2>10. CallsMade'
        BY <1>01, <2>1, <2>2, <2>3, <2>4 DEF TypeOK, CallsMade
    <2>11. CommandsPlaced'
        BY <1>01, <2>1, <2>2, <2>3, <2>4 DEF TypeOK, CommandsPlaced
    <2>12. EventsPlaced'
        BY <1>01, <2>1, <2>2, <2>3, <2>4 DEF TypeOK, EventsPlaced
    <2>13. WirePlaced'
        BY <1>01, <2>1, <2>2, <2>3, <2>4 DEF TypeOK, WirePlaced
    <2>14. SlotsAreLive'
        BY <1>01, <2>1, <2>2, <2>3, <2>4 DEF TypeOK, SlotsAreLive
    <2>15. NoCallHangs'
        BY <1>01, <2>1, <2>2, <2>3, <2>4 DEF TypeOK, NoCallHangs
    <2>. QED
        BY <2>10, <2>11, <2>12, <2>13, <2>14, <2>15 DEF IInv
<1>15. ASSUME NEW n \in Node, HandlerFails(n) \/ StartDrain(n) PROVE IInv'
    <2>1. /\ Takes(n)
          /\ \A m \in Node : rows'[m] = rows[m] \/ (m = n /\ rows'[m] \subseteq {c \in Call : From[c] = n})
          /\ UNCHANGED <<asked, waiting, succeeded, answering, cmds, up, pending, wire, executed>>
        BY <1>15 DEF HandlerFails, StartDrain, TypeOK
    <2>2. /\ \A m \in Node : \A x : In(events'[m], x) => In(events[m], x)
          /\ \A m \in Node : Unique(events[m]) => Unique(events'[m])
          /\ In(events[n], Head(events[n])) /\ ~In(events'[n], Head(events[n]))
        BY <1>02, <2>1, TakingPlaces
    <2>10. CallsMade'
        BY <1>01, <2>1, <2>2 DEF TypeOK, CallsMade
    <2>11. CommandsPlaced'
        BY <1>01, <2>1, <2>2 DEF TypeOK, CommandsPlaced
    <2>12. EventsPlaced'
        BY <1>01, <2>1, <2>2 DEF TypeOK, EventsPlaced
    <2>13. WirePlaced'
        BY <1>01, <2>1, <2>2 DEF TypeOK, WirePlaced
    <2>14. SlotsAreLive'
        BY <1>01, <2>1, <2>2 DEF TypeOK, SlotsAreLive
    <2>15. NoCallHangs'
        BY <1>01, <2>1, <2>2 DEF TypeOK, NoCallHangs
    <2>. QED
        BY <2>10, <2>11, <2>12, <2>13, <2>14, <2>15 DEF IInv
<1>16. ASSUME NEW n \in Node, Responds(n) PROVE IInv'
    <2>1. /\ answering[n] \in Call /\ answering' = [answering EXCEPT ![n] = NoCall]
          /\ cmds' = cmds \/ cmds' = [cmds EXCEPT ![n] = Append(@, Response(answering[n]))]
          /\ UNCHANGED <<asked, waiting, succeeded, rows, events, up, pending, wire, executed>>
        BY <1>16 DEF Responds, TypeOK
    <2>2. /\ To[answering[n]] = n /\ answering[n] \in executed
          /\ ~In(cmds[n], Response(answering[n]))
        BY <1>01, <2>1 DEF WirePlaced, CommandsPlaced
    <2>3. /\ \A m \in Node : \A x : In(cmds[m], x) => In(cmds'[m], x)
          /\ \A m \in Node : \A x : In(cmds'[m], x) =>
                 In(cmds[m], x) \/ (m = n /\ x = Response(answering[n]))
          /\ \A m \in Node : Unique(cmds[m]) => Unique(cmds'[m])
        BY <2>1, <2>2, SendingPlaces, Commands
    <2>4. \A d \in Call : /\ Ask(d) # Response(answering[n])
                         /\ (Response(d) = Response(answering[n]) => d = answering[n])
        BY <2>1, Commands
    <2>10. CallsMade'
        BY <1>01, <2>1, <2>2, <2>3, <2>4 DEF TypeOK, CallsMade
    <2>11. CommandsPlaced'
        BY <1>01, <2>1, <2>2, <2>3, <2>4 DEF TypeOK, CommandsPlaced
    <2>12. EventsPlaced'
        BY <1>01, <2>1, <2>2, <2>3, <2>4 DEF TypeOK, EventsPlaced
    <2>13. WirePlaced'
        BY <1>01, <2>1, <2>2, <2>3, <2>4 DEF TypeOK, WirePlaced
    <2>14. SlotsAreLive'
        BY <1>01, <2>1, <2>2, <2>3, <2>4 DEF TypeOK, SlotsAreLive
    <2>15. NoCallHangs'
        BY <1>01, <2>1, <2>2, <2>3, <2>4 DEF TypeOK, NoCallHangs
    <2>. QED
        BY <2>10, <2>11, <2>12, <2>13, <2>14, <2>15 DEF IInv
<1>17. CASE UNCHANGED vars
    BY <1>17 DEF vars, IInv, CallsMade, CommandsPlaced, EventsPlaced, WirePlaced, SlotsAreLive,
                 NoCallHangs
<1>. QED
    BY <1>1, <1>2, <1>3, <1>4, <1>5, <1>6, <1>7, <1>8, <1>9, <1>10, <1>11, <1>12, <1>13, <1>14,
       <1>15, <1>16, <1>17 DEF Next, HandleCommand, LoopTakes

\* A request is in one place at a time and its answer follows its execution
\* (the pending_* maps of TaskState, the two channels, request_response).
THEOREM InvCorrect == Spec => []IInv
<1>1. Init => IInv
    BY InEmpty, CallsAssumption DEF Init, IInv, CallsMade, CommandsPlaced, EventsPlaced,
       WirePlaced, SlotsAreLive, NoCallHangs
<1>. QED
    BY <1>1, InvStep, TypeCorrect, PTL DEF Spec

\* No caller waits for a swarm task that is gone or has forgotten it
\* (rx.await in NetHandle, the end of run_swarm).
THEOREM NoCallHangsCorrect == Spec => []NoCallHangs
BY InvCorrect, PTL DEF IInv

\* The slots are those of the requests libp2p has still to report on
\* (pending_* of TaskState).
THEOREM SlotsAreLiveCorrect == Spec => []SlotsAreLive
BY InvCorrect, PTL DEF IInv

-----------------------------------------------------------------------------
(* The promise of Rpc is kept.                                             *)

\* Most steps at most end calls and lose requests.
LEMMA Breaking ==
    ASSUME waiting' \subseteq waiting,
           \A c \in RemoteCall : Open(c)' => Open(c),
           asked' = asked, executed' = executed,
           succeeded' \cap RemoteCall = succeeded \cap RemoteCall
    PROVE  Promise!Break
BY DEF Promise!Break

\* A step that does not touch what Open looks at.
LEMMA OpenSame ==
    ASSUME NEW c, UNCHANGED <<cmds, events, wire>>
    PROVE  Open(c)' <=> Open(c)
BY DEF Open

\* Every step of Calls is one of Rpc, or none.
LEMMA PromiseStep ==
    TypeOK /\ IInv /\ [Next]_vars => [Promise!Next]_(Promise!vars)
<1>. USE CallsAssumption DEF app
<1>. SUFFICES ASSUME TypeOK, IInv, [Next]_vars PROVE Promise!Next \/ UNCHANGED Promise!vars
    OBVIOUS
<1>01. CallsMade /\ CommandsPlaced /\ EventsPlaced /\ WirePlaced
    BY DEF IInv
<1>02. \A n \in Node : Unique(cmds[n]) /\ Unique(events[n])
    BY <1>01 DEF CommandsPlaced, EventsPlaced
<1>03. \A c \in RemoteCall : c \in Call /\ Kind[c] \in Remote /\ From[c] \in Node /\ To[c] \in Node
    BY DEF RemoteCall
<1>1. ASSUME NEW c \in Call, Asks(c) PROVE Promise!Next \/ UNCHANGED Promise!vars
    <2>1. /\ c \notin asked /\ asked' = asked \cup {c} /\ waiting' = waiting \cup {c}
          /\ cmds' = [cmds EXCEPT ![From[c]] = Append(@, Ask(c))]
          /\ UNCHANGED <<succeeded, events, wire, executed>>
        BY <1>1 DEF Asks, Begins, MayAsk
    <2>2. \A m \in Node : \A x : In(cmds'[m], x) <=> In(cmds[m], x) \/ (m = From[c] /\ x = Ask(c))
        <3>1. From[c] \in Node /\ Ask(c) \in Command
            BY OnNode, Commands
        <3>. QED
            BY <2>1, <3>1, SendingPlaces
    <2>3. \A d \in RemoteCall : Open(d)' <=> Open(d) \/ d = c
        BY <1>03, <2>1, <2>2, Commands DEF Open
    <2>4. CASE c \in RemoteCall
        <3>1. Promise!Ask(c)
            BY <2>1, <2>3, <2>4 DEF Promise!Ask
        <3>. QED
            BY <2>4, <3>1 DEF Promise!Next
    <2>5. CASE c \notin RemoteCall
        BY <2>1, <2>3, <2>5 DEF Promise!vars
    <2>. QED
        BY <2>4, <2>5
<1>2. ASSUME NEW c \in Call, AskRefused(c) PROVE Promise!Next \/ UNCHANGED Promise!vars
    <2>1. /\ c \notin asked /\ asked' = asked \cup {c}
          /\ UNCHANGED <<waiting, succeeded, cmds, events, wire, executed>>
        BY <1>2 DEF AskRefused, Begins, MayAsk
    <2>2. \A d \in RemoteCall : Open(d)' <=> Open(d)
        BY <2>1, OpenSame
    <2>3. CASE c \in RemoteCall
        <3>1. Promise!Refuse(c)
            BY <2>1, <2>2, <2>3 DEF Promise!Refuse
        <3>. QED
            BY <2>3, <3>1 DEF Promise!Next
    <2>4. CASE c \notin RemoteCall
        BY <2>1, <2>2, <2>4 DEF Promise!vars
    <2>. QED
        BY <2>3, <2>4
<1>3. ASSUME NEW c \in Call, GivesUp(c) PROVE Promise!Next
    <2>1. /\ waiting' \subseteq waiting /\ succeeded' = succeeded
          /\ UNCHANGED <<asked, cmds, events, wire, executed>>
        BY <1>3 DEF GivesUp, Ends
    <2>. QED
        BY <2>1, OpenSame, Breaking DEF Promise!Next
<1>4. ASSUME NEW c \in Call, Arrives(c) PROVE Promise!Next
    <2>1. /\ wire[c] \in {"out", "stray"}
          /\ wire' = [wire EXCEPT ![c] = IF @ = "out" THEN "in" ELSE "none"]
          /\ events' = [events EXCEPT ![To[c]] = Emitted(@, c)]
          /\ UNCHANGED <<waiting, succeeded, asked, cmds, executed>>
        BY <1>4 DEF Arrives
    <2>2. To[c] \in Node /\ c \in Call \cup {NoCall} /\ events' = [events EXCEPT ![To[c]] = Emitted(@, c)]
        BY <2>1, OnNode
    <2>3. \A m \in Node : \A x : In(events'[m], x) => In(events[m], x) \/ (m = To[c] /\ x = c)
        BY <2>2, EmittingPlaces
    <2>4. \A d \in RemoteCall : Open(d)' => Open(d)
        BY <1>03, <2>1, <2>3 DEF Open, TypeOK
    <2>. QED
        BY <2>1, <2>4, Breaking DEF Promise!Next
<1>5. ASSUME NEW c \in Call, Vanishes(c) PROVE Promise!Next
    <2>1. /\ wire' = [wire EXCEPT ![c] = "none"]
          /\ UNCHANGED <<waiting, succeeded, asked, cmds, events, executed>>
        BY <1>5 DEF Vanishes
    <2>2. \A d \in RemoteCall : Open(d)' => Open(d)
        BY <1>03, <2>1 DEF Open, TypeOK
    <2>. QED
        BY <2>1, <2>2, Breaking DEF Promise!Next
<1>6. ASSUME NEW c \in Call, Responded(c) PROVE Promise!Next \/ UNCHANGED Promise!vars
    <2>1. /\ wire[c] = "back" /\ wire' = [wire EXCEPT ![c] = "none"]
          /\ waiting' = waiting \ {c} /\ succeeded' = succeeded \cup ({c} \cap waiting)
          /\ UNCHANGED <<asked, cmds, events, executed>>
        BY <1>6 DEF Responded, Closes, Cut, Ends
    <2>2. c \in executed /\ c \in RemoteCall
        BY <1>01, <2>1 DEF WirePlaced, RemoteCall
    <2>3. \A d \in RemoteCall : Open(d)' <=> Open(d)
        BY <1>03, <2>1 DEF Open, TypeOK
    <2>4. CASE c \in waiting
        <3>1. Promise!Succeed(c)
            BY <2>1, <2>2, <2>3, <2>4 DEF Promise!Succeed
        <3>. QED
            BY <2>2, <3>1 DEF Promise!Next
    <2>5. CASE c \notin waiting
        BY <2>1, <2>3, <2>5 DEF Promise!vars
    <2>. QED
        BY <2>4, <2>5
<1>7. ASSUME NEW c \in Call, Fails(c) \/ LookupEnds(c) PROVE Promise!Next
    <2>1. PICK r \in {"ok", "err"} : Closes(c, r) /\ (r = "ok" => c \notin RemoteCall)
        BY <1>7 DEF Fails, LookupEnds, RemoteCall, Remote
    <2>2. /\ wire' = [wire EXCEPT ![c] = Cut(c)]
          /\ waiting' \subseteq waiting
          /\ succeeded' \cap RemoteCall = succeeded \cap RemoteCall
          /\ UNCHANGED <<asked, cmds, events, executed>>
        BY <2>1 DEF Closes, Ends
    <2>3. \A d \in RemoteCall : Open(d)' => Open(d)
        BY <1>03, <2>2 DEF Open, TypeOK, Cut
    <2>. QED
        BY <2>2, <2>3, Breaking DEF Promise!Next
<1>8. ASSUME NEW c \in Call, HandleSend(c) PROVE Promise!Next
    <2>1. /\ Receives(From[c], Ask(c)) /\ wire' = [wire EXCEPT ![c] = "out"]
          /\ UNCHANGED <<waiting, succeeded, asked, events, executed>>
        BY <1>8 DEF HandleSend, Opens
    <2>2. /\ In(cmds[From[c]], Ask(c))
          /\ \A m \in Node : \A x : In(cmds'[m], x) => In(cmds[m], x)
        BY <2>1, ReceivingPlaces, OnNode
    <2>3. \A d \in RemoteCall : Open(d)' => Open(d)
        BY <1>03, <2>1, <2>2 DEF Open, TypeOK
    <2>. QED
        BY <2>1, <2>3, Breaking DEF Promise!Next
<1>9. ASSUME NEW c \in Call, HandleFindPeer(c) \/ HandleCheckLive(c) PROVE Promise!Next
    <2>1. /\ c \notin RemoteCall /\ Receives(From[c], Ask(c))
          /\ wire' = wire \/ wire' = [wire EXCEPT ![c] = "out"]
          /\ waiting' \subseteq waiting /\ succeeded' \subseteq succeeded \cup {c}
          /\ succeeded \subseteq succeeded'
          /\ UNCHANGED <<asked, events, executed>>
        BY <1>9 DEF HandleFindPeer, HandleCheckLive, Opens, Ends, RemoteCall, Remote
    <2>2. \A m \in Node : \A x : In(cmds'[m], x) => In(cmds[m], x)
        BY <2>1, ReceivingPlaces, OnNode
    <2>3. \A d \in RemoteCall : Open(d)' => Open(d)
        BY <1>03, <2>1, <2>2 DEF Open, TypeOK
    <2>. QED
        BY <2>1, <2>3, Breaking DEF Promise!Next
<1>10. ASSUME NEW c \in Call, HandleRespond(c) PROVE Promise!Next
    <2>1. /\ Receives(To[c], Response(c))
          /\ wire' = wire \/ wire' = [wire EXCEPT ![c] = "back"]
          /\ UNCHANGED <<waiting, succeeded, asked, events, executed>>
        BY <1>10 DEF HandleRespond
    <2>2. \A m \in Node : \A x : In(cmds'[m], x) => In(cmds[m], x)
        BY <2>1, ReceivingPlaces, OnNode
    <2>3. \A d \in RemoteCall : Open(d)' => Open(d)
        BY <1>03, <2>1, <2>2 DEF Open, TypeOK
    <2>. QED
        BY <2>1, <2>3, Breaking DEF Promise!Next
<1>11. ASSUME NEW n \in Node, HandleShutdown(n) PROVE Promise!Next
    <2>1. /\ cmds' = [cmds EXCEPT ![n] = <<>>]
          /\ waiting' \subseteq waiting /\ succeeded' = succeeded
          /\ wire' = [c \in Call |-> IF From[c] = n THEN Cut(c) ELSE wire[c]]
          /\ UNCHANGED <<asked, events, executed>>
        BY <1>11 DEF HandleShutdown, Ends
    <2>2. \A m \in Node : \A x : In(cmds'[m], x) => In(cmds[m], x)
        BY <2>1, InEmpty DEF TypeOK
    <2>3. \A d \in Call : wire'[d] \in {"out", "stray"} => wire[d] \in {"out", "stray"}
        BY <2>1 DEF Cut
    <2>4. \A d \in RemoteCall : Open(d)' => Open(d)
        BY <1>03, <2>1, <2>2, <2>3 DEF Open
    <2>. QED
        BY <2>1, <2>4, Breaking DEF Promise!Next
<1>12. ASSUME NEW n \in Node, Shutdown(n) \/ Responds(n) PROVE Promise!Next
    <2>1. /\ UNCHANGED <<waiting, succeeded, asked, events, wire, executed>>
          /\ \/ cmds' = cmds
             \/ cmds' = [cmds EXCEPT ![n] = Append(@, ShutdownCmd)]
             \/ /\ answering[n] \in Call
                /\ cmds' = [cmds EXCEPT ![n] = Append(@, Response(answering[n]))]
        BY <1>12 DEF Shutdown, Responds, TypeOK
    <2>2. \A d \in Call : \A m \in Node : In(cmds'[m], Ask(d)) => In(cmds[m], Ask(d))
        <3>1. CASE cmds' = [cmds EXCEPT ![n] = Append(@, ShutdownCmd)]
            <4>1. \A m \in Node : \A x :
                      In(cmds'[m], x) <=> In(cmds[m], x) \/ (m = n /\ x = ShutdownCmd)
                BY <3>1, SendingPlaces, Commands
            <4>. QED
                BY <4>1, Commands
        <3>2. CASE /\ answering[n] \in Call
                   /\ cmds' = [cmds EXCEPT ![n] = Append(@, Response(answering[n]))]
            <4>1. Response(answering[n]) \in Command
                BY <3>2, Commands
            <4>2. \A m \in Node : \A x :
                      In(cmds'[m], x) <=> In(cmds[m], x) \/ (m = n /\ x = Response(answering[n]))
                BY <3>2, <4>1, SendingPlaces
            <4>. QED
                BY <3>2, <4>2, Commands
        <3>. QED
            BY <2>1, <3>1, <3>2
    <2>3. \A d \in RemoteCall : Open(d)' => Open(d)
        BY <1>03, <2>1, <2>2 DEF Open
    <2>. QED
        BY <2>1, <2>3, Breaking DEF Promise!Next
<1>13. ASSUME NEW n \in Node, PeerReturns(n) PROVE Promise!Next
    <2>1. /\ events' = [events EXCEPT ![n] = Emitted(@, NoCall)]
          /\ UNCHANGED <<waiting, succeeded, asked, cmds, wire, executed>>
        BY <1>13 DEF PeerReturns
    <2>2. \A m \in Node : \A x : In(events'[m], x) => In(events[m], x) \/ (m = n /\ x = NoCall)
        BY <2>1, EmittingPlaces
    <2>3. \A d \in RemoteCall : Open(d)' => Open(d)
        BY <1>03, <2>1, <2>2 DEF Open
    <2>. QED
        BY <2>1, <2>3, Breaking DEF Promise!Next
<1>14. ASSUME NEW n \in Node, HandleRequest(n) PROVE Promise!Next
    <2>. DEFINE c == Head(events[n])
    <2>1. /\ Takes(n) /\ c # NoCall /\ executed' = executed \cup {c}
          /\ UNCHANGED <<asked, waiting, succeeded, cmds, wire>>
        BY <1>14 DEF HandleRequest
    <2>2. c \in Call /\ In(events[n], c) /\ ~In(events'[n], c)
        BY <1>02, <2>1, Taking, TakingPlaces
    <2>3. /\ \A m \in Node : \A x : In(events'[m], x) => In(events[m], x)
          /\ \A m \in Node : \A x : In(events[m], x) => In(events'[m], x) \/ (m = n /\ x = c)
        BY <2>1, TakingPlaces
    <2>. HIDE DEF c
    <2>4. /\ To[c] = n /\ c \in RemoteCall
          /\ ~In(cmds[From[c]], Ask(c)) /\ wire[c] \notin {"out", "stray"}
        BY <1>01, <2>2, OnNode DEF EventsPlaced, CommandsPlaced, RemoteCall
    <2>5. \A d \in RemoteCall : Open(d)' <=> Open(d) /\ d # c
        BY <1>03, <2>1, <2>2, <2>3, <2>4 DEF Open
    <2>6. Open(c)
        BY <2>2, <2>4 DEF Open
    <2>7. Promise!Execute(c)
        BY <2>1, <2>4, <2>5, <2>6 DEF Promise!Execute
    <2>. QED
        BY <2>4, <2>7 DEF Promise!Next
<1>15. ASSUME NEW n \in Node, HandlerFails(n) \/ StartDrain(n) PROVE Promise!Next
    <2>1. Takes(n) /\ UNCHANGED <<asked, waiting, succeeded, cmds, wire, executed>>
        BY <1>15 DEF HandlerFails, StartDrain
    <2>2. \A m \in Node : \A x : In(events'[m], x) => In(events[m], x)
        BY <2>1, TakingPlaces
    <2>3. \A d \in RemoteCall : Open(d)' => Open(d)
        BY <1>03, <2>1, <2>2 DEF Open
    <2>. QED
        BY <2>1, <2>3, Breaking DEF Promise!Next
<1>16. CASE UNCHANGED vars
    BY <1>16, OpenSame DEF vars, Promise!vars
<1>. QED
    BY <1>1, <1>2, <1>3, <1>4, <1>5, <1>6, <1>7, <1>8, <1>9, <1>10, <1>11, <1>12, <1>13, <1>14,
       <1>15, <1>16 DEF Next, HandleCommand, LoopTakes

\* A call to a peer is executed at most once and succeeds only after that,
\* whatever is lost, late or shut down (send_*, run_swarm, the event loop).
THEOREM PromiseKept == Spec => KeepsPromise
<1>1. Init => Promise!Init
    BY InEmpty, CallsAssumption DEF Init, Promise!Init, Open, RemoteCall
<1>. QED
    BY <1>1, PromiseStep, TypeCorrect, InvCorrect, PTL DEF Spec, KeepsPromise, Promise!Spec

\* What callers and handlers build on follows: no request of a call to a peer is executed
\* twice, or at all once it is gone, no success without execution, and no call that has
\* ended goes on (push_one's row, a late AcceptedRequest, the wipe of a ChatDeleted).
THEOREM CallsAreHonest == Spec => []Promise!Honest /\ Promise!Final
<1>1. Promise!Init => Promise!Honest
    BY DEF Promise!Init, Promise!Honest
<1>2. Promise!Honest /\ [Promise!Next]_(Promise!vars) => Promise!Honest'
    BY DEF Promise!Honest, Promise!Next, Promise!vars, Promise!Break, Promise!Ask,
       Promise!Refuse, Promise!Execute, Promise!Succeed
<1>3. Promise!Honest /\ [Promise!Next]_(Promise!vars) => Promise!Ends
    BY DEF Promise!Honest, Promise!Ends, Promise!Next, Promise!vars, Promise!Break, Promise!Ask,
       Promise!Refuse, Promise!Execute, Promise!Succeed
<1>4. Promise!Init /\ [][Promise!Next]_(Promise!vars) =>
          []Promise!Honest /\ [][Promise!Ends]_(Promise!vars)
    BY <1>1, <1>2, <1>3, PTL
<1>. QED
    BY <1>4, PromiseKept, PTL DEF KeepsPromise, Promise!Spec, Promise!Final
=============================================================================
