---------------------------- MODULE ServerProofs ----------------------------
(***************************************************************************)
(* Theorems about Server, for any connections, publishers, channel         *)
(* capacity and number of status changes.                                  *)
(***************************************************************************)
EXTENDS Server, SequenceTheorems, TLAPS

\* Type correctness, and what the accept loop holds.
TypeInv ==
    /\ TypeOK
    /\ serve = "insert" => held \in Conns

\* Nothing is connected, subscribed or published at the start.
LEMMA TypeInit == Init => TypeInv
<1> SUFFICES ASSUME Init PROVE TypeInv
  OBVIOUS
<1>1. stopping \in BOOLEAN /\ listening \in BOOLEAN
  BY Zenon DEF Init
<1>2. queue \in [Conns -> Seq(Versions)] /\ \A c \in Conns : Len(queue[c]) <= Buffer
  BY BufferAssumption DEF Init
<1> QED
  BY <1>1, <1>2, MaxVersionAssumption DEF Init, TypeInv, TypeOK, Versions

\* Every step keeps the types; no publisher overfills a channel.
LEMMA TypeStep == TypeInv /\ [Next]_vars => TypeInv'
<1> SUFFICES ASSUME TypeInv, [Next]_vars PROVE TypeInv'
  OBVIOUS
<1> USE MaxVersionAssumption, BufferAssumption, ConnsAssumption
<1> USE DEF TypeInv, TypeOK, Versions, Handle, Reachable, Done, serveVars, pumpVars,
            statusVars, channelVars, handleVars
<1>1. CASE Signal
  BY <1>1 DEF Signal
<1>2. CASE Insert
  BY <1>2 DEF Insert
<1>3. CASE AcceptClosed
  BY <1>3 DEF AcceptClosed
<1>4. CASE Return
  BY <1>4 DEF Return
<1>5. CASE AcceptBreaks
  BY <1>5 DEF AcceptBreaks
<1>6. CASE CloseListener
  BY <1>6 DEF CloseListener
<1>7. CASE CloseAllConns
  BY <1>7 DEF CloseAllConns
<1>8. ASSUME NEW c \in Conns, Accept(c) PROVE TypeInv'
  BY <1>8 DEF Accept
<1>9. ASSUME NEW c \in Conns, Subscribe(c) PROVE TypeInv'
  BY <1>9 DEF Subscribe
<1>10. ASSUME NEW c \in Conns, ReadStatus(c) PROVE TypeInv'
  BY <1>10 DEF ReadStatus
<1>11. ASSUME NEW c \in Conns, Greet(c) PROVE TypeInv'
  BY <1>11 DEF Greet
<1>12. ASSUME NEW c \in Conns, ReadRequest(c) PROVE TypeInv'
  BY <1>12 DEF ReadRequest
<1>13. ASSUME NEW c \in Conns, ScanEnds(c) PROVE TypeInv'
  BY <1>13 DEF ScanEnds, EndsScan
<1>14. ASSUME NEW c \in Conns, Unsubscribe(c) PROVE TypeInv'
  BY <1>14 DEF Unsubscribe
<1>15. ASSUME NEW c \in Conns, Close(c) PROVE TypeInv'
  BY <1>15 DEF Close
<1>16. ASSUME NEW c \in Conns, Delete(c) PROVE TypeInv'
  BY <1>16 DEF Delete
<1>17. ASSUME NEW c \in Conns, PumpTakes(c) PROVE TypeInv'
  <2>1. queue[c] \in Seq(Versions) /\ queue[c] # <<>>
    BY <1>17 DEF PumpTakes
  <2>2. /\ Head(queue[c]) \in Versions
        /\ Tail(queue[c]) \in Seq(Versions)
        /\ Len(Tail(queue[c])) <= Len(queue[c])
    BY <2>1
  <2>3. queue' \in [Conns -> Seq(Versions)] /\ \A d \in Conns : Len(queue'[d]) <= Buffer
    BY <1>17, <2>2 DEF PumpTakes
  <2> QED
    BY <1>17, <2>2, <2>3 DEF PumpTakes
<1>18. ASSUME NEW c \in Conns, PumpStops(c) PROVE TypeInv'
  BY <1>18 DEF PumpStops
<1>19. ASSUME NEW c \in Conns, PumpSends(c) PROVE TypeInv'
  BY <1>19 DEF PumpSends
<1>20. ASSUME NEW c \in Conns, PumpFails(c) PROVE TypeInv'
  BY <1>20 DEF PumpFails
<1>21. ASSUME NEW c \in Conns, Respond(c) PROVE TypeInv'
  BY <1>21 DEF Respond
<1>22. ASSUME NEW c \in Conns, RespondFails(c) PROVE TypeInv'
  BY <1>22 DEF RespondFails
<1>23. ASSUME NEW c \in Conns, Dial(c) PROVE TypeInv'
  BY <1>23 DEF Dial
<1>24. ASSUME NEW c \in Conns, Leave(c) PROVE TypeInv'
  BY <1>24 DEF Leave
<1>25. ASSUME NEW p \in Publishers, ChangeStatus(p) PROVE TypeInv'
  BY <1>25 DEF ChangeStatus
<1>26. ASSUME NEW p \in Publishers, Publish(p) PROVE TypeInv'
  <2>1. ASSUME NEW c \in Conns
        PROVE  queue'[c] \in Seq(Versions) /\ Len(queue'[c]) <= Buffer
    <3>1. carried[p] \in Versions /\ queue[c] \in Seq(Versions)
      BY <1>26
    <3>2. Append(queue[c], carried[p]) \in Seq(Versions)
      BY <3>1
    <3>3. Len(Append(queue[c], carried[p])) = Len(queue[c]) + 1
      BY <3>1
    <3>4. queue'[c] = IF c \in subs /\ Len(queue[c]) < Buffer
                     THEN Append(queue[c], carried[p]) ELSE queue[c]
      BY <1>26 DEF Publish, HasRoom
    <3>5. Len(queue[c]) \in Nat /\ Len(queue[c]) <= Buffer
      BY <3>1
    <3>6. CASE c \in subs /\ Len(queue[c]) < Buffer
      <4>1. queue'[c] = Append(queue[c], carried[p])
        BY <3>4, <3>6
      <4>2. Len(queue[c]) + 1 <= Buffer
        BY <3>5, <3>6
      <4> QED
        BY ONLY <4>1, <4>2, <3>2, <3>3
    <3>7. CASE ~(c \in subs /\ Len(queue[c]) < Buffer)
      <4>1. queue'[c] = queue[c]
        BY <3>4, <3>7
      <4> QED
        BY ONLY <4>1, <3>1, <3>5
    <3> QED
      BY <3>6, <3>7
  <2>2. queue' \in [Conns -> Seq(Versions)] /\ \A c \in Conns : Len(queue'[c]) <= Buffer
    BY <1>26, <2>1 DEF Publish
  <2> QED
    BY <1>26, <2>2 DEF Publish
<1>27. CASE UNCHANGED vars
  BY <1>27 DEF vars
<1> QED
  BY <1>1, <1>2, <1>3, <1>4, <1>5, <1>6, <1>7, <1>8, <1>9, <1>10, <1>11,
     <1>12, <1>13, <1>14, <1>15, <1>16, <1>17, <1>18, <1>19, <1>20,
     <1>21, <1>22, <1>23, <1>24, <1>25, <1>26, <1>27
     DEF Next, Serve, Closer, HandleConn, Pump

\* Every variable keeps its type, and no channel ever holds more than its
\* capacity (daemon.go:218, 236-242).
THEOREM TypeCorrect == Spec => []TypeOK
<1>1. TypeInv => TypeOK
  BY DEF TypeInv
<1> QED
  BY <1>1, TypeInit, TypeStep, PTL DEF Spec

(***************************************************************************)
(* Answers. A handler leaves its loop, or loses its connection, only for   *)
(* one of the three excuses, and a request has a handler.                  *)
(***************************************************************************)
Excused(c) == peer[c] = "gone" \/ c \in oversized \/ stopping

Connected(c) ==
    /\ handler[c] # "none" \/ held = c => peer[c] # "none"
    /\ req[c] # "none" => handler[c] # "none"

Served(c) ==
    /\ handler[c] \in {"unsubscribe", "close", "delete", "ended"} => Excused(c)
    /\ handler[c] # "none" /\ c \notin open => Excused(c)
    /\ req[c] = "dropped" => Excused(c)

AnswerInv ==
    /\ TypeInv
    /\ closer # "waiting" => stopping
    /\ serve = "insert" => handler[held] = "none" /\ (held \in open \/ stopping)
    /\ \A c \in Conns : Connected(c) /\ Served(c)

\* There is no connection at the start.
LEMMA AnswerInit == Init => AnswerInv
BY TypeInit, ConnsAssumption DEF Init, AnswerInv, Connected, Served

\* Every step keeps a live connection's requests answerable.
LEMMA AnswerStep == AnswerInv /\ [Next]_vars => AnswerInv'
<1> SUFFICES ASSUME AnswerInv, [Next]_vars PROVE AnswerInv'
  OBVIOUS
<1>0. TypeInv'
  BY TypeStep DEF AnswerInv
<1> USE <1>0, ConnsAssumption
<1> USE DEF AnswerInv, Connected, Served, Excused, TypeInv, TypeOK, Handle, Reachable,
            serveVars, pumpVars, statusVars, channelVars, handleVars
<1>1. CASE Signal
  BY <1>1 DEF Signal
<1>2. CASE Insert
  BY <1>2 DEF Insert
<1>3. CASE AcceptClosed
  BY <1>3 DEF AcceptClosed
<1>4. CASE Return
  BY <1>4 DEF Return
<1>5. CASE AcceptBreaks
  BY <1>5 DEF AcceptBreaks
<1>6. CASE CloseListener
  BY <1>6 DEF CloseListener
<1>7. CASE CloseAllConns
  BY <1>7 DEF CloseAllConns
<1>8. ASSUME NEW c \in Conns, Accept(c) PROVE AnswerInv'
  BY <1>8 DEF Accept
<1>9. ASSUME NEW c \in Conns, Subscribe(c) PROVE AnswerInv'
  BY <1>9 DEF Subscribe
<1>10. ASSUME NEW c \in Conns, ReadStatus(c) PROVE AnswerInv'
  BY <1>10 DEF ReadStatus
<1>11. ASSUME NEW c \in Conns, Greet(c) PROVE AnswerInv'
  BY <1>11 DEF Greet
<1>12. ASSUME NEW c \in Conns, ReadRequest(c) PROVE AnswerInv'
  BY <1>12 DEF ReadRequest
<1>13. ASSUME NEW c \in Conns, ScanEnds(c) PROVE AnswerInv'
  BY <1>13 DEF ScanEnds, EndsScan
<1>14. ASSUME NEW c \in Conns, Unsubscribe(c) PROVE AnswerInv'
  BY <1>14 DEF Unsubscribe
<1>15. ASSUME NEW c \in Conns, Close(c) PROVE AnswerInv'
  <2>1. Excused(c)
    BY <1>15 DEF Close
  <2>2. ASSUME NEW d \in Conns PROVE (Connected(d) /\ Served(d))'
    BY <1>15, <2>1 DEF Close
  <2>3. (serve = "insert" => handler[held] = "none" /\ (held \in open \/ stopping))'
    BY <1>15 DEF Close
  <2> QED
    BY <1>15, <2>2, <2>3 DEF Close
<1>16. ASSUME NEW c \in Conns, Delete(c) PROVE AnswerInv'
  BY <1>16 DEF Delete
<1>17. ASSUME NEW c \in Conns, PumpTakes(c) PROVE AnswerInv'
  BY <1>17 DEF PumpTakes
<1>18. ASSUME NEW c \in Conns, PumpStops(c) PROVE AnswerInv'
  BY <1>18 DEF PumpStops
<1>19. ASSUME NEW c \in Conns, PumpSends(c) PROVE AnswerInv'
  BY <1>19 DEF PumpSends
<1>20. ASSUME NEW c \in Conns, PumpFails(c) PROVE AnswerInv'
  BY <1>20 DEF PumpFails
<1>21. ASSUME NEW c \in Conns, Respond(c) PROVE AnswerInv'
  BY <1>21 DEF Respond
<1>22. ASSUME NEW c \in Conns, RespondFails(c) PROVE AnswerInv'
  BY <1>22 DEF RespondFails
<1>23. ASSUME NEW c \in Conns, Dial(c) PROVE AnswerInv'
  BY <1>23 DEF Dial
<1>24. ASSUME NEW c \in Conns, Leave(c) PROVE AnswerInv'
  BY <1>24 DEF Leave
<1>25. ASSUME NEW p \in Publishers, ChangeStatus(p) PROVE AnswerInv'
  BY <1>25 DEF ChangeStatus
<1>26. ASSUME NEW p \in Publishers, Publish(p) PROVE AnswerInv'
  BY <1>26 DEF Publish, HasRoom
<1>27. CASE UNCHANGED vars
  BY <1>27 DEF vars
<1> QED
  BY <1>1, <1>2, <1>3, <1>4, <1>5, <1>6, <1>7, <1>8, <1>9, <1>10, <1>11,
     <1>12, <1>13, <1>14, <1>15, <1>16, <1>17, <1>18, <1>19, <1>20,
     <1>21, <1>22, <1>23, <1>24, <1>25, <1>26, <1>27
     DEF Next, Serve, Closer, HandleConn, Pump

\* An answer is lost only to a client that left, sent an oversized line, or was
\* cut off by shutdown.
THEOREM AnswersAreNotLost == Spec => []AnswersReachClients
<1>1. AnswerInv => AnswersReachClients
  BY DEF AnswerInv, Served, Excused, AnswersReachClients
<1> QED
  BY <1>1, AnswerInit, AnswerStep, PTL DEF Spec

(***************************************************************************)
(* What a client shows. The last event on its way to a client is the last  *)
(* published; when there is none, what it was greeted with or sent is the  *)
(* status, or was published last, or a publisher is about to replace it.   *)
(***************************************************************************)
Pending == \E p \in Publishers : carried[p] # 0

Current(v) == v = version \/ v = published \/ Pending

Last(s) == s[Len(s)]

\* The last event survives the head being taken, and is the head of a channel
\* that is empty then.
LEMMA LastOfTail ==
    ASSUME NEW S, NEW s \in Seq(S), s # <<>>
    PROVE  Last(IF Tail(s) = <<>> THEN <<Head(s)>> ELSE Tail(s)) = Last(s)
<1>1. /\ Tail(s) \in Seq(S)
      /\ Len(Tail(s)) = Len(s) - 1
      /\ \A i \in 1..Len(Tail(s)) : Tail(s)[i] = s[i + 1]
  BY HeadTailProperties
<1>2. Len(s) \in Nat \ {0} /\ (Tail(s) # <<>> => Len(Tail(s)) # 0)
  BY <1>1, EmptySeq
<1>3. Len(<<>>) = 0
  OBVIOUS
<1>4. CASE Len(s) = 1
  <2>1. Len(Tail(s)) = 0
    BY <1>1, <1>4
  <2>2. Tail(s) = <<>>
    BY <1>2, <2>1
  <2>3. Len(<<Head(s)>>) = 1 /\ <<Head(s)>>[1] = Head(s)
    OBVIOUS
  <2> QED
    BY <1>4, <2>2, <2>3 DEF Last
<1>5. CASE Len(s) # 1
  <2>1. Len(Tail(s)) # 0 /\ Len(s) - 1 \in 1..Len(Tail(s))
    BY <1>1, <1>2, <1>5
  <2>2. Tail(s)[Len(s) - 1] = s[Len(s)]
    BY <1>1, <1>2, <2>1
  <2>3. Tail(s) # <<>>
    BY <1>3, <2>1, Zenon
  <2> QED
    BY <1>1, <2>2, <2>3 DEF Last
<1> QED
  BY <1>4, <1>5

\* A published event is the last of the channel it enters.
LEMMA LastOfAppend ==
    ASSUME NEW S, NEW s \in Seq(S), NEW e \in S
    PROVE  Append(s, e) # <<>> /\ Last(Append(s, e)) = e
BY DEF Last

Joining(c) ==
    /\ handler[c] \in {"greet", "greeting", "scan"} => c \in subs
    /\ handler[c] \in {"none", "subscribe", "greet", "greeting"} => pump[c] = "off"
    /\ handler[c] \in {"none", "subscribe"} => queue[c] = <<>> /\ c \notin subs

Fresh(c) ==
    c \notin lost =>
        /\ handler[c] \in {"greet", "greeting", "scan"} /\ queue[c] # <<>>
               => Last(queue[c]) = published
        /\ handler[c] = "greeting" /\ queue[c] = <<>> => Current(greeting[c])
        /\ handler[c] = "scan" /\ Reachable(c) /\ queue[c] = <<>> =>
               /\ pump[c] = "send" => Current(inHand[c])
               /\ pump[c] = "select" => Current(view[c])

FreshInv == AnswerInv /\ \A c \in Conns : Joining(c) /\ Fresh(c)

\* Nobody is subscribed at the start.
LEMMA FreshInit == Init => FreshInv
BY AnswerInit DEF Init, FreshInv, Joining, Fresh

\* No step loses an event on its way to a client without marking the client.
LEMMA FreshStep == FreshInv /\ [Next]_vars => FreshInv'
<1> SUFFICES ASSUME FreshInv, [Next]_vars PROVE FreshInv'
  OBVIOUS
<1>0. AnswerInv'
  BY AnswerStep DEF FreshInv
<1> USE <1>0, ConnsAssumption
<1> USE DEF FreshInv, Joining, Fresh, Pending, Current, Last, AnswerInv, TypeInv, TypeOK,
            Handle, Reachable, serveVars, pumpVars, statusVars, channelVars, handleVars
<1>1. CASE Signal
  BY <1>1 DEF Signal
<1>2. CASE Insert
  BY <1>2 DEF Insert
<1>3. CASE AcceptClosed
  BY <1>3 DEF AcceptClosed
<1>4. CASE Return
  BY <1>4 DEF Return
<1>5. CASE AcceptBreaks
  BY <1>5 DEF AcceptBreaks
<1>6. CASE CloseListener
  BY <1>6 DEF CloseListener
<1>7. CASE CloseAllConns
  BY <1>7 DEF CloseAllConns
<1>8. ASSUME NEW c \in Conns, Accept(c) PROVE FreshInv'
  BY <1>8 DEF Accept
<1>9. ASSUME NEW c \in Conns, Subscribe(c) PROVE FreshInv'
  <2>1. ASSUME NEW d \in Conns PROVE (Joining(d) /\ Fresh(d))'
    BY <1>9 DEF Subscribe
  <2> QED
    BY <2>1
<1>10. ASSUME NEW c \in Conns, ReadStatus(c) PROVE FreshInv'
  BY <1>10 DEF ReadStatus
<1>11. ASSUME NEW c \in Conns, Greet(c) PROVE FreshInv'
  BY <1>11 DEF Greet
<1>12. ASSUME NEW c \in Conns, ReadRequest(c) PROVE FreshInv'
  BY <1>12 DEF ReadRequest
<1>13. ASSUME NEW c \in Conns, ScanEnds(c) PROVE FreshInv'
  BY <1>13 DEF ScanEnds, EndsScan
<1>14. ASSUME NEW c \in Conns, Unsubscribe(c) PROVE FreshInv'
  BY <1>14 DEF Unsubscribe
<1>15. ASSUME NEW c \in Conns, Close(c) PROVE FreshInv'
  BY <1>15 DEF Close
<1>16. ASSUME NEW c \in Conns, Delete(c) PROVE FreshInv'
  BY <1>16 DEF Delete
<1>17. ASSUME NEW c \in Conns, PumpTakes(c) PROVE FreshInv'
  <2>1. queue[c] \in Seq(Versions) /\ queue[c] # <<>>
    BY <1>17 DEF PumpTakes
  <2>2. Tail(queue[c]) = <<>> => Head(queue[c]) = Last(queue[c])
    BY ONLY <2>1, LastOfTail DEF Last
  <2>3. Tail(queue[c]) # <<>> => Last(Tail(queue[c])) = Last(queue[c])
    BY ONLY <2>1, LastOfTail
  <2>4. ASSUME NEW d \in Conns PROVE (Joining(d) /\ Fresh(d))'
    <3>1. CASE d = c
      BY <1>17, <2>1, <2>2, <2>3, <3>1 DEF PumpTakes
    <3>2. CASE d # c
      BY <1>17, <3>2 DEF PumpTakes
    <3> QED
      BY <3>1, <3>2
  <2> QED
    BY <2>4
<1>18. ASSUME NEW c \in Conns, PumpStops(c) PROVE FreshInv'
  <2>1. ASSUME NEW d \in Conns PROVE (Joining(d) /\ Fresh(d))'
    BY <1>18 DEF PumpStops
  <2> QED
    BY <2>1
<1>19. ASSUME NEW c \in Conns, PumpSends(c) PROVE FreshInv'
  BY <1>19 DEF PumpSends
<1>20. ASSUME NEW c \in Conns, PumpFails(c) PROVE FreshInv'
  BY <1>20 DEF PumpFails
<1>21. ASSUME NEW c \in Conns, Respond(c) PROVE FreshInv'
  BY <1>21 DEF Respond
<1>22. ASSUME NEW c \in Conns, RespondFails(c) PROVE FreshInv'
  BY <1>22 DEF RespondFails
<1>23. ASSUME NEW c \in Conns, Dial(c) PROVE FreshInv'
  BY <1>23 DEF Dial, Connected
<1>24. ASSUME NEW c \in Conns, Leave(c) PROVE FreshInv'
  BY <1>24 DEF Leave
<1>25. ASSUME NEW p \in Publishers, ChangeStatus(p) PROVE FreshInv'
  <2>1. Pending'
    BY <1>25, MaxVersionAssumption DEF ChangeStatus, Versions
  <2>2. ASSUME NEW d \in Conns PROVE (Joining(d) /\ Fresh(d))'
    BY <1>25, <2>1 DEF ChangeStatus
  <2> QED
    BY <2>2
<1>26. ASSUME NEW p \in Publishers, Publish(p) PROVE FreshInv'
  <2>1. ASSUME NEW d \in Conns PROVE (Joining(d) /\ Fresh(d))'
    <3>1. queue[d] \in Seq(Versions) /\ carried[p] \in Versions
      BY <1>26
    <3>2. /\ Append(queue[d], carried[p]) # <<>>
          /\ Last(Append(queue[d], carried[p])) = carried[p]
      BY ONLY <3>1, LastOfAppend
    <3>3. CASE d \in subs /\ HasRoom(d)
      <4>1. queue'[d] = Append(queue[d], carried[p]) /\ published' = carried[p]
        BY <1>26, <3>3 DEF Publish
      <4> QED
        BY <1>26, <3>2, <3>3, <4>1 DEF Publish
    <3>4. CASE d \in subs /\ ~HasRoom(d)
      BY <1>26, <3>4 DEF Publish
    <3>5. CASE d \notin subs
      BY <1>26, <3>5 DEF Publish
    <3> QED
      BY <3>3, <3>4, <3>5
  <2> QED
    BY <2>1
<1>27. CASE UNCHANGED vars
  BY <1>27 DEF vars
<1> QED
  BY <1>1, <1>2, <1>3, <1>4, <1>5, <1>6, <1>7, <1>8, <1>9, <1>10, <1>11,
     <1>12, <1>13, <1>14, <1>15, <1>16, <1>17, <1>18, <1>19, <1>20,
     <1>21, <1>22, <1>23, <1>24, <1>25, <1>26, <1>27
     DEF Next, Serve, Closer, HandleConn, Pump

\* A client that has caught up, and that no event was dropped for, shows the
\* daemon's status or the status published last.
THEOREM ClientsAreCurrent == Spec => []ClientSeesLatest
<1>1. FreshInv => ClientSeesLatest
  BY DEF FreshInv, Joining, Fresh, Current, Pending, ClientSeesLatest, CaughtUp
<1> QED
  BY <1>1, FreshInit, FreshStep, PTL DEF Spec
=============================================================================
