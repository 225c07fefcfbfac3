------------------------------- MODULE Server -------------------------------
(***************************************************************************)
(* The socket server and the event fan-out: Serve's accept loop and its    *)
(* shutdown, one handler, one event pump and one request goroutine per     *)
(* connection, and the publishers of status changes.                       *)
(*                                                                         *)
(* A connection is used once. One request stands for all those of a        *)
(* connection, each of which has a goroutine of its own; status events     *)
(* stand for all events and are numbered by the change they carry.         *)
(***************************************************************************)
EXTENDS Naturals, Sequences

CONSTANTS
    Conns,        \* connections the panels ever open
    NoConn,       \* no connection
    Publishers,   \* goroutines that change the status and publish it
    Buffer,       \* capacity of a subscriber's channel, 64 in the code
    MaxVersion    \* bound: status changes ever made

ASSUME ConnsAssumption == NoConn \notin Conns
ASSUME BufferAssumption == Buffer \in Nat \ {0}
ASSUME MaxVersionAssumption == MaxVersion \in Nat

VARIABLES
    stopping,    \* the context of Serve is cancelled
    listening,   \* the listener is open
    serve,       \* the accept loop
    held,        \* the connection Accept returned, not yet in conns
    closer,      \* the goroutine that closes everything on shutdown
    conns,       \* Serve's map of live connections
    open,        \* connections the daemon has not closed
    peer,        \* external: the client's end
    handler,     \* where each handleConn is
    greeting,    \* the status a handler is about to greet with
    pump,        \* where each event pump is
    inHand,      \* the event a pump is sending
    cancelled,   \* connections whose own context is cancelled
    oversized,   \* history: connections that sent a line above maxFrame
    req,         \* a request of each connection
    subs,        \* d.subs
    queue,       \* the subscribers' channels
    lost,        \* history: subscribers that an event was dropped for
    version,     \* d.status, as the number of its changes
    carried,     \* the status copy each publisher has yet to publish, or 0
    published,   \* history: the status last published
    view         \* external: the status each client shows

serveVars   == <<stopping, listening, serve, held, closer>>
pumpVars    == <<pump, inHand>>
statusVars  == <<version, carried, published>>
channelVars == <<subs, queue, lost>>
handleVars  == <<handler, greeting>>
vars == <<serveVars, conns, open, peer, handleVars, pumpVars, cancelled,
          oversized, req, channelVars, statusVars, view>>

Versions == 0..MaxVersion

TypeOK ==
    /\ stopping \in BOOLEAN
    /\ listening \in BOOLEAN
    /\ serve \in {"accept", "insert", "wait", "returned"}
    /\ held \in Conns \cup {NoConn}
    /\ closer \in {"waiting", "closing", "done"}
    /\ conns \subseteq Conns
    /\ open \subseteq Conns
    /\ peer \in [Conns -> {"none", "connected", "gone"}]
    /\ handler \in [Conns -> {"none", "subscribe", "greet", "greeting", "scan",
                              "unsubscribe", "close", "delete", "ended"}]
    /\ greeting \in [Conns -> Versions]
    /\ pump \in [Conns -> {"off", "select", "send", "ended"}]
    /\ inHand \in [Conns -> Versions]
    /\ cancelled \subseteq Conns
    /\ oversized \subseteq Conns
    /\ req \in [Conns -> {"none", "dispatched", "answered", "dropped"}]
    /\ subs \subseteq Conns
    /\ queue \in [Conns -> Seq(Versions)]
    /\ \A c \in Conns : Len(queue[c]) <= Buffer
    /\ lost \subseteq Conns
    /\ version \in Versions
    /\ carried \in [Publishers -> Versions]
    /\ published \in Versions
    /\ view \in [Conns -> Versions]

Init ==
    /\ stopping = FALSE
    /\ listening = TRUE
    /\ serve = "accept"
    /\ held = NoConn
    /\ closer = "waiting"
    /\ conns = {}
    /\ open = {}
    /\ peer = [c \in Conns |-> "none"]
    /\ handler = [c \in Conns |-> "none"]
    /\ greeting = [c \in Conns |-> 0]
    /\ pump = [c \in Conns |-> "off"]
    /\ inHand = [c \in Conns |-> 0]
    /\ cancelled = {}
    /\ oversized = {}
    /\ req = [c \in Conns |-> "none"]
    /\ subs = {}
    /\ queue = [c \in Conns |-> <<>>]
    /\ lost = {}
    /\ version = 0
    /\ carried = [p \in Publishers |-> 0]
    /\ published = 0
    /\ view = [c \in Conns |-> 0]

Reachable(c) == c \in open /\ peer[c] = "connected"
Done(c) == stopping \/ c \in cancelled   \* <-ctx.Done() in handleConn's context
Handle(c, from, to) == handler[c] = from /\ handler' = [handler EXCEPT ![c] = to]

-----------------------------------------------------------------------------
(* The accept loop and its shutdown.                                       *)

\* A signal cancels the context.
Signal ==
    /\ ~stopping
    /\ stopping' = TRUE
    /\ UNCHANGED <<listening, serve, held, closer, conns, open, peer, handleVars,
                   pumpVars, cancelled, oversized, req, channelVars, statusVars, view>>

Accept(c) ==
    /\ serve = "accept" /\ listening
    /\ peer[c] = "connected" /\ handler[c] = "none"
    /\ serve' = "insert"
    /\ held' = c
    /\ open' = open \cup {c}
    /\ UNCHANGED <<stopping, listening, closer, conns, peer, handleVars, pumpVars,
                   cancelled, oversized, req, channelVars, statusVars, view>>

\* The connection enters the map, its handler is spawned.
Insert ==
    /\ serve = "insert"
    /\ conns' = conns \cup {held}
    /\ handler' = [handler EXCEPT ![held] = "subscribe"]
    /\ serve' = "accept"
    /\ held' = NoConn
    /\ UNCHANGED <<stopping, listening, closer, open, peer, greeting, pumpVars,
                   cancelled, oversized, req, channelVars, statusVars, view>>

\* Accept fails on the closed listener: wait for the handlers.
AcceptClosed ==
    /\ serve = "accept" /\ ~listening
    /\ serve' = "wait"
    /\ UNCHANGED <<stopping, listening, held, closer, conns, open, peer, handleVars,
                   pumpVars, cancelled, oversized, req, channelVars, statusVars, view>>

\* Accept fails for another reason: Serve returns the error at once.
AcceptBreaks ==
    /\ serve = "accept" /\ listening /\ ~stopping
    /\ serve' = "returned"
    /\ listening' = FALSE
    /\ UNCHANGED <<stopping, held, closer, conns, open, peer, handleVars, pumpVars,
                   cancelled, oversized, req, channelVars, statusVars, view>>

Return ==
    /\ serve = "wait"
    /\ \A c \in Conns : handler[c] \in {"none", "ended"}
    /\ serve' = "returned"
    /\ UNCHANGED <<stopping, listening, held, closer, conns, open, peer, handleVars,
                   pumpVars, cancelled, oversized, req, channelVars, statusVars, view>>

\* The listener is closed; clients it had not accepted are cut off.
CloseListener ==
    /\ closer = "waiting" /\ stopping
    /\ closer' = "closing"
    /\ listening' = FALSE
    /\ peer' = [c \in Conns |->
                   IF peer[c] = "connected" /\ handler[c] = "none" /\ c # held
                   THEN "gone" ELSE peer[c]]
    /\ UNCHANGED <<stopping, serve, held, conns, open, handleVars, pumpVars,
                   cancelled, oversized, req, channelVars, statusVars, view>>

\* Mutant: the map is emptied and the connections left open.
ForgetAllConns ==
    /\ closer = "closing"
    /\ closer' = "done"
    /\ conns' = {}
    /\ UNCHANGED <<stopping, listening, serve, held, open, peer, handleVars, pumpVars,
                   cancelled, oversized, req, channelVars, statusVars, view>>

CloseAllConns ==
    /\ closer = "closing"
    /\ closer' = "done"
    /\ open' = open \ conns
    /\ conns' = {}
    /\ UNCHANGED <<stopping, listening, serve, held, peer, handleVars, pumpVars,
                   cancelled, oversized, req, channelVars, statusVars, view>>

-----------------------------------------------------------------------------
(* handleConn.                                                             *)

\* Mutant: the pump runs before the client has been greeted.
SubscribeAndPump(c) ==
    /\ Handle(c, "subscribe", "greet")
    /\ subs' = subs \cup {c}
    /\ pump' = [pump EXCEPT ![c] = "select"]
    /\ UNCHANGED <<serveVars, conns, open, peer, greeting, inHand, cancelled,
                   oversized, req, queue, lost, statusVars, view>>

Subscribe(c) ==
    /\ Handle(c, "subscribe", "greet")
    /\ subs' = subs \cup {c}
    /\ UNCHANGED <<serveVars, conns, open, peer, greeting, pumpVars, cancelled,
                   oversized, req, queue, lost, statusVars, view>>

\* The current status is read ...
ReadStatus(c) ==
    /\ Handle(c, "greet", "greeting")
    /\ greeting' = [greeting EXCEPT ![c] = version]
    /\ UNCHANGED <<serveVars, conns, open, peer, pumpVars, cancelled, oversized,
                   req, channelVars, statusVars, view>>

\* ... and sent, an error of the send ignored; then the pump is spawned.
Greet(c) ==
    /\ Handle(c, "greeting", "scan")
    /\ view' = IF Reachable(c) THEN [view EXCEPT ![c] = greeting[c]] ELSE view
    /\ pump' = [pump EXCEPT ![c] = "select"]
    /\ UNCHANGED <<serveVars, conns, open, peer, greeting, inHand, cancelled,
                   oversized, req, channelVars, statusVars>>

\* A line is read, its request given a goroutine.
ReadRequest(c) ==
    /\ handler[c] = "scan" /\ Reachable(c)
    /\ req[c] = "none"
    /\ req' = [req EXCEPT ![c] = "dispatched"]
    /\ UNCHANGED <<serveVars, conns, open, peer, handleVars, pumpVars, cancelled,
                   oversized, channelVars, statusVars, view>>

\* Mutant: a line that is not a request ends the connection.
EndsOnAny(line) == line \in {"malformed", "oversized"}

\* A malformed line is answered and skipped; one above maxFrame ends the scan.
EndsScan(line) == line = "oversized"

\* Scan returns false: end of file, a closed connection, or such a line.
ScanEnds(c) ==
    /\ Handle(c, "scan", "unsubscribe")
    /\ \/ ~Reachable(c) /\ UNCHANGED oversized
       \/ \E line \in {"malformed", "oversized"} :
             /\ Reachable(c) /\ EndsScan(line)
             /\ oversized' = IF line = "oversized" THEN oversized \cup {c} ELSE oversized
    /\ UNCHANGED <<serveVars, conns, open, peer, greeting, pumpVars, cancelled, req,
                   channelVars, statusVars, view>>

\* Mutant: handleConn does not defer unsubscribe.
LeaveSubscribed(c) ==
    /\ Handle(c, "unsubscribe", "close")
    /\ UNCHANGED <<serveVars, conns, open, peer, greeting, pumpVars, cancelled,
                   oversized, req, channelVars, statusVars, view>>

\* The deferred calls, last first: unsubscribe closes the channel, ...
Unsubscribe(c) ==
    /\ Handle(c, "unsubscribe", "close")
    /\ subs' = subs \ {c}
    /\ UNCHANGED <<serveVars, conns, open, peer, greeting, pumpVars, cancelled,
                   oversized, req, queue, lost, statusVars, view>>

\* ... the context is cancelled and the connection closed, ...
Close(c) ==
    /\ Handle(c, "close", "delete")
    /\ cancelled' = cancelled \cup {c}
    /\ open' = open \ {c}
    /\ UNCHANGED <<serveVars, conns, peer, greeting, pumpVars, oversized, req,
                   channelVars, statusVars, view>>

\* ... and Serve forgets the connection and counts the handler done.
Delete(c) ==
    /\ Handle(c, "delete", "ended")
    /\ conns' = conns \ {c}
    /\ UNCHANGED <<serveVars, open, peer, greeting, pumpVars, cancelled, oversized,
                   req, channelVars, statusVars, view>>

\* dispatch returned, within its deadline: the response is sent ...
Respond(c) ==
    /\ req[c] = "dispatched"
    /\ Reachable(c)
    /\ req' = [req EXCEPT ![c] = "answered"]
    /\ UNCHANGED <<serveVars, conns, open, peer, handleVars, pumpVars, cancelled,
                   oversized, channelVars, statusVars, view>>

\* ... or cannot be, which cancels the connection's context.
RespondFails(c) ==
    /\ req[c] = "dispatched"
    /\ ~Reachable(c)
    /\ req' = [req EXCEPT ![c] = "dropped"]
    /\ cancelled' = cancelled \cup {c}
    /\ UNCHANGED <<serveVars, conns, open, peer, handleVars, pumpVars, oversized,
                   channelVars, statusVars, view>>

-----------------------------------------------------------------------------
(* The event pump.                                                         *)

PumpTakes(c) ==
    /\ pump[c] = "select" /\ queue[c] # <<>>
    /\ inHand' = [inHand EXCEPT ![c] = Head(queue[c])]
    /\ queue' = [queue EXCEPT ![c] = Tail(@)]
    /\ pump' = [pump EXCEPT ![c] = "send"]
    /\ UNCHANGED <<serveVars, conns, open, peer, handleVars, cancelled, oversized,
                   req, subs, lost, statusVars, view>>

\* The context is done, or the channel is closed and drained.
PumpStops(c) ==
    /\ pump[c] = "select"
    /\ Done(c) \/ (c \notin subs /\ queue[c] = <<>>)
    /\ pump' = [pump EXCEPT ![c] = "ended"]
    /\ UNCHANGED <<serveVars, conns, open, peer, handleVars, inHand, cancelled,
                   oversized, req, channelVars, statusVars, view>>

\* The client reads the event, which a wedged one never does.
PumpSends(c) ==
    /\ pump[c] = "send" /\ Reachable(c)
    /\ view' = [view EXCEPT ![c] = inHand[c]]
    /\ pump' = [pump EXCEPT ![c] = "select"]
    /\ UNCHANGED <<serveVars, conns, open, peer, handleVars, inHand, cancelled,
                   oversized, req, channelVars, statusVars>>

PumpFails(c) ==
    /\ pump[c] = "send" /\ ~Reachable(c)
    /\ cancelled' = cancelled \cup {c}
    /\ pump' = [pump EXCEPT ![c] = "ended"]
    /\ UNCHANGED <<serveVars, conns, open, peer, handleVars, inHand, oversized,
                   req, channelVars, statusVars, view>>

-----------------------------------------------------------------------------
(* Status changes: copied under d.mu, published after it is released.      *)

ChangeStatus(p) ==
    /\ carried[p] = 0
    /\ version < MaxVersion
    /\ version' = version + 1
    /\ carried' = [carried EXCEPT ![p] = version + 1]
    /\ UNCHANGED <<serveVars, conns, open, peer, handleVars, pumpVars, cancelled,
                   oversized, req, channelVars, published, view>>

\* Mutant: one event more than the channel holds.
HasRoomOver(c) == Len(queue[c]) <= Buffer

HasRoom(c) == Len(queue[c]) < Buffer

\* Mutant: a plain send, which waits for room in every channel.
PublishBlocking(p) ==
    /\ carried[p] # 0
    /\ \A c \in subs : HasRoom(c)
    /\ queue' = [c \in Conns |->
                    IF c \in subs THEN Append(queue[c], carried[p]) ELSE queue[c]]
    /\ published' = carried[p]
    /\ carried' = [carried EXCEPT ![p] = 0]
    /\ UNCHANGED <<serveVars, conns, open, peer, handleVars, pumpVars, cancelled,
                   oversized, req, subs, lost, version, view>>

\* An event goes to every subscriber with room for it and is dropped for others.
Publish(p) ==
    /\ carried[p] # 0
    /\ queue' = [c \in Conns |->
                    IF c \in subs /\ HasRoom(c) THEN Append(queue[c], carried[p])
                                                ELSE queue[c]]
    /\ lost' = lost \cup {c \in subs : ~HasRoom(c)}
    /\ published' = carried[p]
    /\ carried' = [carried EXCEPT ![p] = 0]
    /\ UNCHANGED <<serveVars, conns, open, peer, handleVars, pumpVars, cancelled,
                   oversized, req, subs, version, view>>

-----------------------------------------------------------------------------
(* The clients.                                                            *)

Dial(c) ==
    /\ peer[c] = "none" /\ listening
    /\ peer' = [peer EXCEPT ![c] = "connected"]
    /\ UNCHANGED <<serveVars, conns, open, handleVars, pumpVars, cancelled,
                   oversized, req, channelVars, statusVars, view>>

Leave(c) ==
    /\ peer[c] = "connected"
    /\ peer' = [peer EXCEPT ![c] = "gone"]
    /\ UNCHANGED <<serveVars, conns, open, handleVars, pumpVars, cancelled,
                   oversized, req, channelVars, statusVars, view>>

-----------------------------------------------------------------------------
Serve == Insert \/ AcceptClosed \/ Return \/ \E c \in Conns : Accept(c)

Closer == CloseListener \/ CloseAllConns

HandleConn(c) ==
    \/ Subscribe(c) \/ ReadStatus(c) \/ Greet(c) \/ ReadRequest(c) \/ ScanEnds(c)
    \/ Unsubscribe(c) \/ Close(c) \/ Delete(c)

Pump(c) == PumpTakes(c) \/ PumpStops(c) \/ PumpSends(c) \/ PumpFails(c)

Next ==
    \/ Signal \/ Serve \/ AcceptBreaks \/ Closer
    \/ \E c \in Conns :
          \/ HandleConn(c) \/ Pump(c) \/ Respond(c) \/ RespondFails(c)
          \/ Dial(c) \/ Leave(c)
    \/ \E p \in Publishers : ChangeStatus(p) \/ Publish(p)

Spec == Init /\ [][Next]_vars

\* The scheduler runs every goroutine that can run, and dispatch returns within
\* its deadline; a send waits for nothing on a connection that is closed. A scan
\* ends when there is nothing to read from any more. Nothing is promised of what
\* the clients send, read or keep open: one that never reads holds up the sends
\* to it for as long as it likes.
Fairness ==
    /\ WF_vars(Serve) /\ WF_vars(Closer)
    /\ \A c \in Conns :
          /\ WF_vars(Subscribe(c) \/ ReadStatus(c) \/ Greet(c) \/ Unsubscribe(c)
                        \/ Close(c) \/ Delete(c))
          /\ WF_vars(ScanEnds(c) /\ ~Reachable(c))
          /\ WF_vars(PumpTakes(c) \/ PumpStops(c) \/ PumpFails(c))
          /\ WF_vars(RespondFails(c))
    /\ \A p \in Publishers : WF_vars(Publish(p))

FairSpec == Spec /\ Fairness

-----------------------------------------------------------------------------
(* Properties                                                              *)

\* A client whose pump has caught up, and that no event was dropped for, shows
\* the daemon's status or, when two publishers overtook each other between the
\* unlock and publish, the status last published: no change falls between the
\* greeting and the subscription (server.go:127-149, daemon.go:217-261).
CaughtUp(c) ==
    /\ handler[c] = "scan" /\ Reachable(c)
    /\ pump[c] = "select" /\ queue[c] = <<>> /\ c \notin lost
    /\ \A p \in Publishers : carried[p] = 0

ClientSeesLatest == \A c \in Conns : CaughtUp(c) => view[c] \in {version, published}

\* The answer to a request is lost only to a client that left, that sent an
\* oversized line, or to shutdown: nothing another request, an event or a
\* malformed line does takes it away (server.go:151-174).
AnswersReachClients ==
    \A c \in Conns : req[c] = "dropped" =>
        peer[c] = "gone" \/ c \in oversized \/ stopping

\* A client that leaves takes everything it had with it: subscription, map
\* entry, handler and pump (server.go:79-88, 121-149).
GoneClientsLeaveNothing ==
    \A c \in Conns :
        peer[c] = "gone" /\ handler[c] # "none"
            ~> c \notin subs \cup conns \cup open /\ pump[c] = "ended"

\* A shutdown ends with Serve returning, unless a connection entered the map
\* after closeAllConns had emptied it.
OnlyLateConnsDelayShutdown ==
    stopping ~> serve = "returned" \/ (closer = "done" /\ conns # {})

\* "a wedged UI must not stall the client" (daemon.go:216).
PublishersNeverStall == \A p \in Publishers : carried[p] # 0 ~> carried[p] = 0

-----------------------------------------------------------------------------
(* What the code's comments say and the code does not do.                  *)

\* Live connections are closed on shutdown so that wg.Wait() returns
\* (server.go:42-45).
ShutdownCompletes == stopping ~> serve = "returned"
=============================================================================
