--------------------------- MODULE Conversations ---------------------------
(***************************************************************************)
(* The conversation list: the map of conversations the daemon holds, the   *)
(* order it serves, and the pictures fetched for them. The map is changed  *)
(* by libgm's events, by snapshots (ClientReady, Refresh), by MarkRead, by *)
(* Unpair and by the goroutines that fetch pictures.                       *)
(*                                                                         *)
(* The phone is external: its conversations change, leave its inbox and    *)
(* come back, it sends a message event at once and a conversation event    *)
(* some time later, it sends a message again when the message is updated,  *)
(* and libgm hands the events of the long poll to handleEvent one at a     *)
(* time, in order.                                                         *)
(* Ids are numbers, which is all the comparator asks of them.              *)
(***************************************************************************)
EXTENDS Naturals, SequencesExt

CONSTANTS
    Convs,         \* conversation ids
    Procs,         \* request and background goroutines
    Absent,        \* not in a map
    ConvListLimit, \* convListLimit, 50 in the code
    Pictured,      \* the conversations avatarSourceFor finds a source for
    MaxChanges,    \* bound: changes of the phone's conversations
    Known,         \* the conversations the phone has at first
    MaxAge,        \* bound: how far an updated message is behind its conversation
    MaxStream,     \* bound: events under way
    MaxLinks,      \* bound: times the long poll comes up
    MaxCalls       \* bound: Refreshes, MarkReads and Unpairs

\* What a conversation event carries, and what the daemon holds.
News == [time : Nat, unread : BOOLEAN, pinned : BOOLEAN]
Conversation == [time : Nat, unread : BOOLEAN, pinned : BOOLEAN, picture : BOOLEAN]

ASSUME AbsentAssumption == Absent \notin News \cup Conversation
ASSUME ConvsAssumption == Convs \subseteq Nat /\ IsFiniteSet(Convs)
ASSUME PicturedAssumption == Pictured \subseteq Convs
ASSUME KnownAssumption == Known \subseteq Convs
ASSUME LimitAssumption == ConvListLimit \in Nat \ {0}
ASSUME ConvBoundsAssumption == MaxChanges \in Nat /\ MaxCalls \in Nat /\ MaxLinks \in Nat
                                    /\ MaxAge \in Nat

VARIABLES
    convs,     \* Daemon.convs
    order,     \* Daemon.order
    touched,   \* history: conversations that an update of a message set unread
    connected, \* status.State = StateConnected
    tried,     \* avatarStore.tried
    paths,     \* avatarStore.paths: the conversations whose picture is stored
    pc,        \* where each goroutine is
    snap,      \* the answer it has: a list, and the phone's clock at the time
    target,    \* the conversation its MarkRead names
    looks,     \* how many of the goroutines of fetchAvatars have yet to look at each
    fpc,       \* how far the one that claimed it is
    phone,     \* the phone's conversations
    archived,  \* those that are out of its inbox: archived or deleted
    owed,      \* those whose conversation event the phone has yet to send
    live,      \* the long poll is up
    stream,    \* events on their way to handleEvent
    clock,     \* the phone's changes so far, also the newest message's time
    newest,    \* history: the phone's clock at the newest news that came or was missed
    doubtful,  \* history: something older than that was written over it
    asks,      \* history: requests for each conversation's picture
    links,     \* count against MaxLinks
    calls      \* count against MaxCalls

listVars  == <<convs, order, touched>>
pictVars  == <<tried, paths, looks, fpc, asks>>
callVars  == <<pc, snap, target>>
phoneVars == <<phone, archived, owed, stream, clock>>
histVars  == <<newest, doubtful>>
boundVars == <<links, calls>>
vars == <<listVars, connected, pictVars, callVars, phoneVars, live, histVars, boundVars>>

Held(cs) == {c \in Convs : cs[c] # Absent}
SomeConv == CHOOSE c \in Convs : TRUE

TypeOK ==
    /\ convs \in [Convs -> Conversation \cup {Absent}]
    /\ order \in Seq(Convs)
    /\ connected \in BOOLEAN /\ live \in BOOLEAN /\ doubtful \in BOOLEAN
    /\ tried \subseteq Convs /\ paths \subseteq Convs
    /\ owed \subseteq Convs /\ archived \subseteq Convs /\ touched \subseteq Convs
    /\ pc \in [Procs -> {"idle", "sync", "ask", "ready", "replace", "readyReplace",
                         "readyState", "mark", "clearUnread", "unpair", "unpairState"}]
    /\ snap \in [Procs -> [list : [Convs -> News \cup {Absent}], at : Nat]]
    /\ target \in [Procs -> Convs \cup {SomeConv}]
    /\ looks \in [Convs -> Nat]
    /\ fpc \in [Convs -> {"idle", "fetch", "store", "show"}]
    /\ phone \in [Convs -> News \cup {Absent}]
    /\ stream \in Seq([conv : Convs, at : Nat, mine : BOOLEAN] \cup
                      [conv : Convs, at : Nat, time : Nat, mine : BOOLEAN] \cup
                      [conv : Convs, at : Nat, news : News])
    /\ clock \in 0..MaxChanges
    /\ newest \in 0..MaxChanges
    /\ asks \in [Convs -> Nat]
    /\ calls \in 0..MaxCalls
    /\ links \in 0..MaxLinks

Nothing == [c \in Convs |-> Absent]
Fresh == [time |-> 0, unread |-> FALSE, pinned |-> FALSE]
NoSnap == [list |-> Nothing, at |-> 0]

\* The phone already has some conversations, the daemon none.
Init ==
    /\ convs = Nothing
    /\ order = <<>> /\ touched = {}
    /\ connected = FALSE
    /\ tried = {} /\ paths = {}
    /\ pc = [p \in Procs |-> "idle"]
    /\ snap = [p \in Procs |-> NoSnap]
    /\ target = [p \in Procs |-> SomeConv]
    /\ looks = [c \in Convs |-> 0]
    /\ fpc = [c \in Convs |-> "idle"]
    /\ phone = [c \in Convs |-> IF c \in Known THEN Fresh ELSE Absent]
    /\ archived = {} /\ owed = {}
    /\ live = FALSE
    /\ stream = <<>>
    /\ clock = 0
    /\ newest = 0
    /\ doubtful = TRUE
    /\ asks = [c \in Convs |-> 0]
    /\ links = 0 /\ calls = 0

At(p, label) == pc[p] = label
Goto(p, label) == pc' = [pc EXCEPT ![p] = label]
Later(m, n) == IF m > n THEN m ELSE n

-----------------------------------------------------------------------------
(* The order that is served.                                               *)

\* Pinned first, then newest first, then by id.
Before(cs, a, b) ==
    \/ cs[a].pinned /\ ~cs[b].pinned
    \/ /\ cs[a].pinned = cs[b].pinned
       /\ \/ cs[a].time > cs[b].time
          \/ cs[a].time = cs[b].time /\ a < b

\* How many of the held conversations come before one of them.
Ahead(cs, c) == Cardinality({d \in Held(cs) : Before(cs, d, c)})

\* How many of them are served.
Served(cs) ==
    IF Cardinality(Held(cs)) > ConvListLimit THEN ConvListLimit ELSE Cardinality(Held(cs))

\* reorderLocked: the held conversations sorted, and cut to the limit. The comparator
\* leaves no two of them equal, so a place is as good as its sequence: the i-th is the
\* one that i - 1 come before.
Reordered(cs) == [i \in 1..Served(cs) |-> CHOOSE c \in Held(cs) : Ahead(cs, c) = i - 1]

-----------------------------------------------------------------------------
(* The phone.                                                              *)

\* News that the long poll is not there to bring is missed.
Sends(event) ==
    IF live
    THEN Len(stream) < MaxStream /\ stream' = Append(stream, event) /\ UNCHANGED histVars
    ELSE newest' = event.at /\ doubtful' = TRUE /\ UNCHANGED stream

\* The phone's inbox.
Mailbox == [c \in Convs |-> IF c \in archived THEN Absent ELSE phone[c]]

\* What ListConversations answers: the first convListLimit of it.
Inbox ==
    LET top == ToSet(Reordered(Mailbox))
    IN  [c \in Convs |-> IF c \in top THEN phone[c] ELSE Absent]

\* The phone owes the event of a change. Others that it did not list may rise into its
\* list, and no event says so.
Changes(c) ==
    /\ clock < MaxChanges
    /\ clock' = clock + 1
    /\ owed' = owed \cup {c}

Rises(c) ==
    IF ToSet(Reordered(Mailbox')) \subseteq ToSet(Reordered(Mailbox)) \cup {c}
    THEN UNCHANGED histVars
    ELSE newest' = clock' /\ doubtful' = TRUE

\* A message comes in or is sent from another device. Its conversation is back in the inbox.
PhoneMessage(c, mine) ==
    /\ Changes(c)
    /\ LET old == IF phone[c] = Absent THEN Fresh ELSE phone[c]
       IN  phone' = [phone EXCEPT ![c] =
                        [old EXCEPT !.time = clock', !.unread = @ \/ ~mine]]
    /\ archived' = archived \ {c}
    /\ Sends([conv |-> c, at |-> clock', mine |-> mine])
    /\ UNCHANGED <<listVars, connected, pictVars, callVars, live, boundVars>>

\* A message that was there is sent again: a reaction, a status or its deletion. It is
\* no newer than the conversation; that one stays as it is. Nobody misses such an event.
PhoneUpdates(c, time, mine) ==
    /\ live /\ phone[c] # Absent
    /\ time <= phone[c].time /\ phone[c].time <= time + MaxAge
    /\ Sends([conv |-> c, at |-> clock, time |-> time, mine |-> mine])
    /\ UNCHANGED <<listVars, connected, pictVars, callVars, phone, archived, owed, clock, live,
                   boundVars>>

\* A conversation is pinned or unpinned.
PhonePins(c) ==
    /\ Changes(c) /\ phone[c] # Absent
    /\ phone' = [phone EXCEPT ![c].pinned = ~@]
    /\ archived' = archived
    /\ Rises(c)
    /\ UNCHANGED <<listVars, connected, pictVars, callVars, stream, live, boundVars>>

\* A conversation is archived or deleted, or brought back.
PhoneArchives(c) ==
    /\ Changes(c) /\ phone[c] # Absent
    /\ archived' = IF c \in archived THEN archived \ {c} ELSE archived \cup {c}
    /\ phone' = phone
    /\ Rises(c)
    /\ UNCHANGED <<listVars, connected, pictVars, callVars, stream, live, boundVars>>

\* The conversation event of a change: the conversation as it is by now, in the inbox or not.
PhoneSendsConversation(c) ==
    /\ c \in owed
    /\ owed' = owed \ {c}
    /\ Sends([conv |-> c, at |-> clock, news |-> phone[c]])
    /\ UNCHANGED <<listVars, connected, pictVars, callVars, phone, archived, clock, live,
                   boundVars>>

-----------------------------------------------------------------------------
(* handleEvent, for the events of the long poll.                           *)

\* Mutant: a message leaves the order as it was.
OrderStays(cs) == order

\* touchConversation's last statement under the lock.
TouchOrder(cs) == Reordered(cs)

\* handleMessage, as far as the list is concerned: touchConversation. A message of
\* an unknown conversation, or older than what is held, changes nothing. It does not tell
\* an update of the newest message from a new one.
Touch(c, time, mine, update) ==
    IF convs[c] # Absent /\ time >= convs[c].time
    THEN /\ convs' = [convs EXCEPT ![c].time = time, ![c].unread = @ \/ ~mine]
         /\ order' = TouchOrder(convs')
         /\ touched' = touched \cup {d \in {c} : update /\ ~mine}
    ELSE UNCHANGED listVars

\* Mutant: an event that is no newer than what is held is skipped.
NewerOnly(c, w) == convs[c] = Absent \/ w.time > convs[c].time

Accepts(c, w) == TRUE

\* A conversation as it is held: its picture is the one in the store, if any.
Converted(w, c) ==
    [time |-> w.time, unread |-> w.unread, pinned |-> w.pinned, picture |-> c \in paths]

\* upsertConversation: whatever the event says of archived, deleted and the rest, the
\* conversation is held.
Upsert(c, w) ==
    IF Accepts(c, w)
    THEN /\ convs' = [convs EXCEPT ![c] = Converted(w, c)]
         /\ order' = Reordered(convs')
         /\ touched' = touched \ {c}
    ELSE UNCHANGED listVars

HandleEvent ==
    /\ stream # <<>>
    /\ LET e == Head(stream)
       IN  /\ \/ "news" \in DOMAIN e /\ Upsert(e.conv, e.news)
              \/ "time" \in DOMAIN e /\ Touch(e.conv, e.time, e.mine, TRUE)
              \/ {"news", "time"} \cap DOMAIN e = {} /\ Touch(e.conv, e.at, e.mine, FALSE)
           /\ newest' = Later(newest, e.at)
    /\ stream' = Tail(stream)
    /\ UNCHANGED <<connected, pictVars, callVars, phone, archived, owed, clock, live, doubtful,
                   boundVars>>

-----------------------------------------------------------------------------
(* Snapshots.                                                              *)

\* replaceConversations, and the fetcher it starts. What was held is forgotten.
Replace(p, label) ==
    /\ convs' = [c \in Convs |-> IF snap[p].list[c] = Absent THEN Absent
                                 ELSE Converted(snap[p].list[c], c)]
    /\ order' = Reordered(convs') /\ touched' = {}
    /\ doubtful' = (snap[p].at < newest)
    /\ newest' = Later(newest, snap[p].at)
    /\ looks' = [c \in Convs |-> looks[c] + (IF c \in Held(snap[p].list) \cap Pictured
                                             THEN 1 ELSE 0)]
    /\ snap' = [snap EXCEPT ![p] = NoSnap]
    /\ Goto(p, label)
    /\ UNCHANGED <<connected, tried, paths, fpc, asks, target, phoneVars, live, boundVars>>

Starts(p) ==
    /\ At(p, "idle")
    /\ calls < MaxCalls
    /\ calls' = calls + 1

Links(p) ==
    /\ At(p, "idle") /\ ~live
    /\ links < MaxLinks
    /\ links' = links + 1
    /\ live' = TRUE

\* After a pairing, whose PairSuccessful sets the state, libgm connects. It asks for the
\* list itself and hands it to handleEvent with ClientReady.
Connects(p) ==
    /\ Links(p)
    /\ connected' = TRUE
    /\ Goto(p, "ready")
    /\ UNCHANGED <<listVars, pictVars, snap, target, phoneVars, histVars, calls>>

\* Start with a stored session, for which no ClientReady comes: Connect, and initialSync in
\* the background.
Resumes(p) ==
    /\ Links(p) /\ links = 0
    /\ Goto(p, "sync")
    /\ UNCHANGED <<listVars, connected, pictVars, snap, target, phoneVars, histVars, calls>>

\* Three seconds later initialSync sets the state, and asks for the list.
InitialSync(p) ==
    /\ At(p, "sync")
    /\ connected' = TRUE
    /\ Goto(p, "ask")
    /\ UNCHANGED <<listVars, pictVars, snap, target, phoneVars, live, histVars, boundVars>>

\* The panel asks for a Refresh.
Refresh(p) ==
    /\ Starts(p)
    /\ Goto(p, "ask")
    /\ UNCHANGED <<listVars, connected, pictVars, snap, target, phoneVars, live, histVars, links>>

\* The phone answers.
ListConversations(p) ==
    /\ live
    /\ \/ At(p, "ask") /\ connected /\ Goto(p, "replace")
       \/ At(p, "ready") /\ Goto(p, "readyReplace")
    /\ snap' = [snap EXCEPT ![p] = [list |-> Inbox, at |-> clock]]
    /\ UNCHANGED <<listVars, connected, pictVars, target, phoneVars, live, histVars, boundVars>>

\* Not connected, or the phone does not answer in time: no list comes. An attempt of
\* initialSync after which another follows changes nothing.
ListFails(p) ==
    /\ At(p, "ask") \/ At(p, "ready")
    /\ Goto(p, "idle")
    /\ UNCHANGED <<listVars, connected, pictVars, snap, target, phoneVars, live, histVars, boundVars>>

RefreshReplace(p) == At(p, "replace") /\ Replace(p, "idle")

\* ClientReady replaces the list first and sets the state afterwards.
ReadyReplace(p) == At(p, "readyReplace") /\ Replace(p, "readyState")

ReadyState(p) ==
    /\ At(p, "readyState")
    /\ connected' = TRUE
    /\ Goto(p, "idle")
    /\ UNCHANGED <<listVars, pictVars, snap, target, phoneVars, live, histVars, boundVars>>

\* The long poll ends, and what it had yet to bring is lost.
Hangup ==
    /\ live' = FALSE
    /\ stream' = <<>>
    /\ IF stream = <<>> THEN UNCHANGED histVars
                        ELSE newest' = Later(newest, Last(stream).at) /\ doubtful' = TRUE

\* ListenTemporaryError ...
Drop ==
    /\ live
    /\ connected' = FALSE
    /\ Hangup
    /\ UNCHANGED <<listVars, pictVars, callVars, phone, archived, owed, clock, boundVars>>

\* ... and ListenRecovered, which asks for the list again in the background.
Recover(p) ==
    /\ Links(p) /\ links > 0
    /\ connected' = TRUE
    /\ Goto(p, "ask")
    /\ UNCHANGED <<listVars, pictVars, snap, target, phoneVars, histVars, calls>>

-----------------------------------------------------------------------------
(* MarkRead and Unpair.                                                    *)

\* The panel names the newest message it shows of the conversation.
MarkRead(p, c) ==
    /\ Starts(p)
    /\ connected /\ convs[c] # Absent
    /\ target' = [target EXCEPT ![p] = c]
    /\ snap' = [snap EXCEPT ![p].at = convs[c].time]
    /\ Goto(p, "mark")
    /\ UNCHANGED <<listVars, connected, pictVars, phoneVars, live, histVars, links>>

\* The phone marks the conversation read up to that message.
PhoneMarks(p) ==
    /\ At(p, "mark") /\ live
    /\ Changes(target[p])
    /\ LET c == target[p]
           rest == phone[c].time > snap[p].at
       IN  phone' = [phone EXCEPT ![c].unread = @ /\ rest]
    /\ snap' = [snap EXCEPT ![p] = NoSnap]
    /\ Goto(p, "clearUnread")
    /\ UNCHANGED <<listVars, connected, pictVars, target, archived, stream, live, histVars,
                   boundVars>>

MarkEnds(p) ==
    /\ Goto(p, "idle")
    /\ snap' = [snap EXCEPT ![p] = NoSnap]
    /\ target' = [target EXCEPT ![p] = SomeConv]

MarkFails(p) ==
    /\ At(p, "mark")
    /\ MarkEnds(p)
    /\ UNCHANGED <<listVars, connected, pictVars, phoneVars, live, histVars, boundVars>>

\* The local flag is cleared, whatever came in the meantime.
ClearUnread(p) ==
    /\ At(p, "clearUnread")
    /\ IF convs[target[p]] # Absent
       THEN convs' = [convs EXCEPT ![target[p]].unread = FALSE]
       ELSE UNCHANGED convs
    /\ touched' = touched \ {target[p]}
    /\ doubtful' = (doubtful \/ phone[target[p]].unread)
    /\ MarkEnds(p)
    /\ UNCHANGED <<order, connected, pictVars, phoneVars, live, newest, boundVars>>

\* Unpair disconnects, clears the list, then sets the state.
Unpair(p) ==
    /\ Starts(p)
    /\ Hangup
    /\ Goto(p, "unpair")
    /\ UNCHANGED <<listVars, connected, pictVars, snap, target, phone, archived, owed, clock,
                   links>>

UnpairClear(p) ==
    /\ At(p, "unpair")
    /\ convs' = Nothing
    /\ order' = <<>> /\ touched' = {}
    /\ doubtful' = TRUE
    /\ Goto(p, "unpairState")
    /\ UNCHANGED <<connected, pictVars, snap, target, phoneVars, live, newest, boundVars>>

\* The session file cannot be removed: the list stays.
UnpairFails(p) ==
    /\ At(p, "unpair")
    /\ Goto(p, "idle")
    /\ UNCHANGED <<listVars, connected, pictVars, snap, target, phoneVars, live, histVars, boundVars>>

UnpairState(p) ==
    /\ At(p, "unpairState")
    /\ connected' = FALSE
    /\ Goto(p, "idle")
    /\ UNCHANGED <<listVars, pictVars, snap, target, phoneVars, live, histVars, boundVars>>

-----------------------------------------------------------------------------
(* fetchAvatars: each snapshot's goroutine looks at its conversations one *)
(* after the other; here at each when it gets there.                       *)

FGoto(c, label) == fpc' = [fpc EXCEPT ![c] = label]

listAndCalls == <<connected, callVars, phoneVars, live, histVars, boundVars>>

\* Mutant: an attempt is recorded only when it brought a picture.
TriedLate(c) == tried \cup {d \in Convs : d = c /\ d \in paths}

Tried(c) == tried \cup {c}

\* A goroutine claims the conversation, or skips it if it was claimed before.
AvatarClaim(c) ==
    /\ looks[c] > 0 /\ fpc[c] = "idle"
    /\ looks' = [looks EXCEPT ![c] = @ - 1]
    /\ IF c \in tried
       THEN UNCHANGED <<tried, fpc>>
       ELSE tried' = Tried(c) /\ FGoto(c, "fetch")
    /\ UNCHANGED <<listVars, paths, asks, listAndCalls>>

\* requireClient, and the picture.
AvatarArrives(c) ==
    /\ fpc[c] = "fetch" /\ connected
    /\ asks' = [asks EXCEPT ![c] = @ + 1]
    /\ FGoto(c, "store")
    /\ UNCHANGED <<listVars, tried, paths, looks, listAndCalls>>

\* Not connected yet, no answer, or the file cannot be written.
AvatarFails(c) ==
    /\ fpc[c] = "fetch"
    /\ asks' = [asks EXCEPT ![c] = @ + (IF connected THEN 1 ELSE 0)]
    /\ FGoto(c, "idle")
    /\ UNCHANGED <<listVars, tried, paths, looks, listAndCalls>>

\* avatarStore.store, under its own lock ...
AvatarStore(c) ==
    /\ fpc[c] = "store"
    /\ paths' = paths \cup {c}
    /\ FGoto(c, "show")
    /\ UNCHANGED <<listVars, tried, looks, asks, listAndCalls>>

\* Mutant: a picture is left to the next event of its conversation.
PictureWaits(cs, c) == cs

\* The conversation with its picture, if it is held.
Pictures(cs, c) ==
    IF cs[c] # Absent THEN [cs EXCEPT ![c].picture = TRUE] ELSE cs

\* ... and then the conversation, if it is still held.
AvatarShow(c) ==
    /\ fpc[c] = "show"
    /\ convs' = Pictures(convs, c)
    /\ FGoto(c, "idle")
    /\ UNCHANGED <<order, touched, tried, paths, looks, asks, listAndCalls>>

-----------------------------------------------------------------------------
Step(p) ==
    \/ InitialSync(p) \/ ListConversations(p) \/ ListFails(p) \/ RefreshReplace(p)
    \/ ReadyReplace(p) \/ ReadyState(p)
    \/ PhoneMarks(p) \/ MarkFails(p) \/ ClearUnread(p)
    \/ UnpairClear(p) \/ UnpairFails(p) \/ UnpairState(p)

Fetch(c) ==
    AvatarClaim(c) \/ AvatarArrives(c) \/ AvatarFails(c) \/ AvatarStore(c) \/ AvatarShow(c)

Next ==
    \/ \E c \in Convs :
          \/ \E mine \in BOOLEAN :
                PhoneMessage(c, mine) \/ \E t \in 0..clock : PhoneUpdates(c, t, mine)
          \/ PhonePins(c) \/ PhoneArchives(c) \/ PhoneSendsConversation(c) \/ Fetch(c)
    \/ HandleEvent
    \/ \E p \in Procs :
          \/ Connects(p) \/ Resumes(p) \/ Refresh(p) \/ Recover(p) \/ Unpair(p)
          \/ \E c \in Convs : MarkRead(p, c)
          \/ Step(p)
    \/ Drop

Spec == Init /\ [][Next]_vars

-----------------------------------------------------------------------------
(* Properties                                                              *)

\* What is served is the top of what is held: sorted, without doubles, and nothing
\* that is left out comes before anything that is in (daemon.go:476-501). No
\* event, snapshot, MarkRead, Unpair or picture may leave the order behind.
ListIsTop ==
    /\ IsInjective(order)
    /\ ToSet(order) \subseteq Held(convs)
    /\ \A i, j \in 1..Len(order) : i < j => Before(convs, order[i], order[j])
    /\ \A c \in Held(convs) \ ToSet(order) :
          /\ Len(order) = ConvListLimit
          /\ \A i \in 1..Len(order) : Before(convs, order[i], c)

\* A picture that is stored is on its conversation, or a fetcher is about to put it
\* there: no snapshot or event in between loses it (daemon.go:437-442, 465-467,
\* avatars.go:122-134).
StoredPicturesShow ==
    \A c \in paths \cap Held(convs) :
        convs[c].picture \/ fpc[c] = "show"

\* No conversation's picture is asked for twice, however many snapshots come and
\* however their fetchers overlap: "so a resync does not refetch every picture"
\* (avatars.go:24-25).
PictureAskedOnce == \A c \in Convs : asks[c] <= 1

Quiet == stream = <<>> /\ owed = {} /\ \A p \in Procs : pc[p] = "idle"

\* Once everything under way has ended, the daemon holds the top of the phone's inbox, and
\* of whatever it holds the phone's time, pin and flag: unless something overlapped since the
\* last good snapshot (an outage missed news, a snapshot was written over later news,
\* MarkRead cleared a message it had not marked, or others rose into the phone's list, of
\* which no event tells), and but for the flag of a conversation that an update of its newest
\* message has set since it was last written (daemon.go:312-360, 424-426, methods.go:147-200).
AgreesUnlessOverlapped ==
    Quiet /\ live /\ ~doubtful =>
        /\ ToSet(Reordered(Mailbox)) \subseteq Held(convs)
        /\ \A c \in Held(convs) :
              /\ convs[c].time = phone[c].time
              /\ convs[c].pinned <=> phone[c].pinned
              /\ convs[c].unread <=> phone[c].unread \/ c \in touched

\* "Inbox only" (README.md:452): once everything under way has ended, nothing that is out of
\* the phone's inbox is served. The code takes any conversation event and never takes a
\* conversation away: one that is archived or deleted stays until the next snapshot
\* (daemon.go:309-310, 460-471).
InboxOnly == Quiet /\ live /\ ~doubtful => ToSet(order) \cap archived = {}

\* What MarkRead clears stays cleared until a message comes: once everything under way has
\* ended, a conversation is shown unread only if the phone says so. The code sets the flag
\* for an update of a message too (daemon.go:312-319, 414, 424-426).
UnreadIsThePhones ==
    Quiet /\ live /\ ~doubtful => \A c \in Held(convs) : convs[c].unread => phone[c].unread
=============================================================================
