------------------------------ MODULE GmClient ------------------------------
(***************************************************************************)
(* The panel's client: one socket to the daemon, rebuilt until it connects *)
(* because a socket is single-use, the unit it may start, the callbacks of *)
(* the calls under way, and the thread that the panel loads through them.  *)
(*                                                                         *)
(* Quickshell's sockets and processes, systemd and the daemon behind the   *)
(* socket are external. The names are apart from those of Attachments, the *)
(* other part of the panel.                                                *)
(***************************************************************************)
EXTENDS Naturals

CONSTANTS
    Convs,    \* threads
    NoThread, \* no thread
    TopLevel, \* doublings of the interval up to 30 s, 5 in the code
    MaxStops, \* bound: times the daemon stops
    MaxFails, \* bound: times systemctl start does not bring it up
    MaxCalls  \* bound: calls

ASSUME NoThreadAssumption == NoThread \notin Convs
ASSUME ClientBoundsAssumption ==
    TopLevel \in Nat /\ MaxStops \in Nat /\ MaxFails \in Nat /\ MaxCalls \in Nat

VARIABLES
    daemon,    \* the daemon runs
    autostart, \* the setting
    sock,      \* the socket in the Loader
    peer,      \* the daemon's end of it is there
    timer,     \* reconnectTimer.running
    level,     \* how often its interval was doubled
    tried,     \* _triedAutostart
    starting,  \* startService.running
    status,    \* status is the daemon's, not the "disconnected" one
    nextId,    \* _nextId
    callbacks, \* _pending: ids with a callback
    target,    \* the thread each call loads
    inflight,  \* requests this daemon is going to answer on this connection
    waiting,   \* calls whose caller has not heard yet
    selected,  \* selectedConvID
    shown,     \* the thread whose messages are shown
    stops, fails

connVars    == <<sock, peer, timer, level, tried, starting, status>>
requestVars == <<nextId, callbacks, target, inflight, waiting>>
viewVars    == <<selected, shown>>
clientVars  == <<daemon, autostart, connVars, requestVars, viewVars, stops, fails>>

Ids == 1..MaxCalls

ClientTypeOK ==
    /\ daemon \in {"up", "down"} /\ autostart \in BOOLEAN
    /\ sock \in {"connecting", "open", "failed"} /\ peer \in BOOLEAN
    /\ timer \in BOOLEAN /\ level \in 0..TopLevel
    /\ tried \in BOOLEAN /\ starting \in BOOLEAN /\ status \in BOOLEAN
    /\ nextId \in 1..(MaxCalls + 1)
    /\ callbacks \subseteq Ids /\ inflight \subseteq Ids /\ waiting \subseteq Ids
    /\ target \in [Ids -> Convs \cup {NoThread}]
    /\ selected \in Convs \cup {NoThread} /\ shown \in Convs \cup {NoThread}
    /\ stops \in 0..MaxStops /\ fails \in 0..MaxFails

\* The component is complete: the first attempt is under way and the retry armed.
ClientInit ==
    /\ daemon \in {"up", "down"} /\ autostart \in BOOLEAN
    /\ sock = "connecting" /\ peer = FALSE
    /\ timer = TRUE /\ level = 0
    /\ tried = FALSE /\ starting = FALSE /\ status = FALSE
    /\ nextId = 1 /\ callbacks = {} /\ inflight = {} /\ waiting = {}
    /\ target = [i \in Ids |-> NoThread]
    /\ selected = NoThread /\ shown = NoThread
    /\ stops = 0 /\ fails = 0

-----------------------------------------------------------------------------
(* The daemon and systemd.                                                 *)

DaemonStops ==
    /\ daemon = "up" /\ stops < MaxStops
    /\ stops' = stops + 1
    /\ daemon' = "down"
    /\ peer' = FALSE
    /\ inflight' = {}
    /\ UNCHANGED <<autostart, sock, timer, level, tried, starting, status, nextId,
                   callbacks, target, waiting, viewVars, fails>>

\* Started by the user, or by systemd after a failure.
DaemonStarts ==
    /\ daemon = "down"
    /\ daemon' = "up"
    /\ UNCHANGED <<autostart, connVars, requestVars, viewVars, stops, fails>>

\* startService.onExited.
StartExits ==
    /\ starting
    /\ starting' = FALSE
    /\ timer' = TRUE
    /\ \/ daemon' = "up" /\ UNCHANGED fails
       \/ fails < MaxFails /\ fails' = fails + 1 /\ UNCHANGED daemon
    /\ UNCHANGED <<autostart, sock, peer, level, tried, status, requestVars, viewVars, stops>>

-----------------------------------------------------------------------------
(* The connection.                                                         *)

\* onError: the service is started, once.
OnError ==
    IF autostart /\ ~tried
    THEN tried' = TRUE /\ starting' = TRUE
    ELSE UNCHANGED <<tried, starting>>

SocketOpens ==
    /\ sock = "connecting" /\ daemon = "up"
    /\ sock' = "open" /\ peer' = TRUE
    /\ tried' = FALSE
    /\ timer' = FALSE /\ level' = 0
    /\ UNCHANGED <<daemon, autostart, starting, status, requestVars, viewVars, stops, fails>>

\* connectionState does not change, so only onError runs.
SocketFails ==
    /\ sock = "connecting" /\ daemon = "down"
    /\ sock' = "failed"
    /\ OnError
    /\ UNCHANGED <<daemon, autostart, peer, timer, level, status, requestVars,
                   viewVars, stops, fails>>

\* Mutant: callbacks outlive their connection.
KeepsPending(ids) == ids

\* "Drop callbacks that can never be answered now."
Surviving(ids) == {}

\* The daemon's end is gone. The library may report that as an error as well.
SocketCloses ==
    /\ sock = "open" /\ ~peer
    /\ sock' = "failed"
    /\ callbacks' = Surviving(callbacks)
    /\ status' = FALSE
    /\ timer' = TRUE
    /\ OnError \/ UNCHANGED <<tried, starting>>
    /\ UNCHANGED <<daemon, autostart, peer, level, nextId, target, inflight, waiting,
                   viewVars, stops, fails>>

\* Mutant: the timer fires once.
SingleShot == FALSE

Repeats == TRUE

\* Mutant: the service is not tried again until a connection was made.
TriedForGood == tried

TriedAtTop == FALSE

\* reconnectTimer.onTriggered, then _recreateSocket.
TimerFires ==
    /\ timer
    /\ IF sock = "open"
       THEN timer' = FALSE /\ level' = 0 /\ UNCHANGED <<tried, sock>>
       ELSE /\ timer' = Repeats
            /\ IF level < TopLevel THEN level' = level + 1 /\ UNCHANGED tried
                                   ELSE tried' = TriedAtTop /\ UNCHANGED level
            /\ sock' = "connecting"
    /\ UNCHANGED <<daemon, autostart, peer, starting, status, requestVars, viewVars, stops, fails>>

\* The panel's Retry, which it offers while there is no connection.
RetryNow ==
    /\ sock # "open"
    /\ sock' = "connecting"
    /\ UNCHANGED <<daemon, autostart, peer, timer, level, tried, starting, status,
                   requestVars, viewVars, stops, fails>>

\* The status the daemon pushes first, or its answer.
StatusArrives ==
    /\ sock = "open" /\ peer
    /\ status' = TRUE
    /\ UNCHANGED <<daemon, autostart, sock, peer, timer, level, tried, starting,
                   requestVars, viewVars, stops, fails>>

-----------------------------------------------------------------------------
(* Calls, and the thread they load.                                        *)

\* call, for `messages`. Without a connection the callback runs at once, with an error.
LoadMessages(c) ==
    IF sock = "open"
    THEN /\ nextId <= MaxCalls
         /\ nextId' = nextId + 1
         /\ target' = [target EXCEPT ![nextId] = c]
         /\ callbacks' = callbacks \cup {nextId}
         /\ waiting' = waiting \cup {nextId}
         /\ inflight' = IF peer THEN inflight \cup {nextId} ELSE inflight
    ELSE UNCHANGED requestVars

SelectThread(c) ==
    /\ c # selected
    /\ selected' = c
    /\ shown' = NoThread
    /\ LoadMessages(c)
    /\ UNCHANGED <<daemon, autostart, connVars, stops, fails>>

\* The panel's refresh.
Refresh ==
    /\ selected # NoThread /\ sock = "open"
    /\ LoadMessages(selected)
    /\ UNCHANGED <<daemon, autostart, connVars, viewVars, stops, fails>>

\* The `paired` event, or the end of an unpair.
Deselect ==
    /\ selected # NoThread
    /\ selected' = NoThread
    /\ UNCHANGED <<daemon, autostart, connVars, requestVars, shown, stops, fails>>

\* Mutant: whatever arrives is shown.
AnyThread(c) == TRUE

\* "The user may have switched threads while this was in flight."
IsWanted(c) == c = selected

\* The daemon answers, in any order, and the callback runs.
Answer(i) ==
    /\ i \in inflight
    /\ inflight' = inflight \ {i}
    /\ IF i \in callbacks
       THEN /\ callbacks' = callbacks \ {i}
            /\ waiting' = waiting \ {i}
            /\ \/ IsWanted(target[i]) /\ shown' = target[i]
               \/ UNCHANGED shown
       ELSE UNCHANGED <<callbacks, waiting, shown>>
    /\ UNCHANGED <<daemon, autostart, connVars, nextId, target, selected, stops, fails>>

-----------------------------------------------------------------------------
ClientNext ==
    \/ DaemonStops \/ DaemonStarts \/ StartExits
    \/ SocketOpens \/ SocketFails \/ SocketCloses \/ TimerFires \/ RetryNow \/ StatusArrives
    \/ Refresh \/ Deselect
    \/ \E c \in Convs : SelectThread(c)
    \/ \E i \in Ids : Answer(i)

ClientSpec == ClientInit /\ [][ClientNext]_clientVars

\* Sockets and processes report, a running timer fires, and the daemon answers every
\* request it has. Nothing makes anybody start the daemon.
ClientFairness ==
    /\ WF_clientVars(SocketOpens \/ SocketFails) /\ WF_clientVars(SocketCloses)
    /\ WF_clientVars(TimerFires) /\ WF_clientVars(StartExits)
    /\ \A i \in Ids : WF_clientVars(Answer(i))

ClientFairSpec == ClientSpec /\ ClientFairness

-----------------------------------------------------------------------------
(* Properties                                                              *)

\* "Keeps rebuilding the socket until one of them connects" (GmClient.qml:124-129): a
\* daemon that stays up is connected to in the end, whatever failed before.
KeepsTrying == <>[](daemon = "up") => <>[](sock = "open")

\* With autostart, a daemon that was stopped is started again and connected to, even
\* when the first attempt to start it fails (GmClient.qml:108-113, 147-151).
AutostartRecovers == autostart ~> (sock = "open")

\* While the daemon's end is there, every registered callback belongs to a request that
\* it is going to answer: none outlives its connection (GmClient.qml:98-101).
PendingIsAnswered == peer => callbacks \subseteq inflight

\* What is shown is the selected thread's, however the answers of earlier selections
\* come in (Panel.qml:213-228).
ShownIsSelected == selected # NoThread => shown \in {NoThread, selected}

\* "so the UI never shows a spinner that cannot resolve" (GmClient.qml:36-38): every
\* caller hears of its call in the end.
CallsResolve == \A i \in Ids : i \in waiting ~> i \notin waiting
=============================================================================
