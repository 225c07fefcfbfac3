----------------------------- MODULE Reactions ------------------------------
(***************************************************************************)
(* Reactions: the daemon remembers who reacted to each message it has seen *)
(* and, from that, derives whether a tap adds, removes or switches the     *)
(* user's own reaction.                                                    *)
(*                                                                         *)
(* A message's reactions are the user's own emoji, if any, and whether     *)
(* somebody else reacted. The phone is external: it applies what React     *)
(* sends, changes reactions for its own reasons, and echoes every change   *)
(* through the long poll, which an outage may interrupt.                   *)
(***************************************************************************)
EXTENDS Naturals, SequencesExt

CONSTANTS
    NumMsgs,            \* messages, numbered from the oldest
    Emojis,
    Procs,              \* goroutines of React and Messages calls
    None,               \* no emoji
    MaxReactionRecords, \* maxReactionRecords, 4096 in the code
    MaxChanges,         \* bound: changes the phone makes for its own reasons
    MaxCalls            \* bound: taps and pages

ASSUME MsgsAssumption == NumMsgs \in Nat \ {0}
ASSUME NoneAssumption == None \notin Emojis
ASSUME LimitAssumption == MaxReactionRecords \in Nat \ {0}
ASSUME ReactionBoundsAssumption == MaxChanges \in Nat /\ MaxCalls \in Nat

VARIABLES
    reactions,     \* Daemon.reactions: per message, what is remembered
    reactionOrder, \* Daemon.reactionOrder
    known,         \* the conversation is in Daemon.convs
    pc,            \* where each goroutine is
    tap,           \* what its React was asked, and derived
    page,          \* the page its Messages call has yet to record, newest last
    phone,         \* the reactions on the phone
    ver,           \* how often each message's reactions changed there
    stream,        \* message events on their way to handleEvent
    seen,          \* history: the newest version that was recorded or lost
    blurred,       \* history: messages whose newest version was lost, dropped,
                   \* or overwritten with an older one
    sure,          \* history: taps on a message that was not blurred, with no change since
    changes,       \* count against MaxChanges
    calls          \* count against MaxCalls

recordVars == <<reactions, reactionOrder>>
phoneVars  == <<phone, ver>>
histVars   == <<seen, blurred>>
vars == <<recordVars, known, pc, tap, page, phoneVars, stream, histVars, sure, changes, calls>>

Msgs  == 1..NumMsgs
Mine  == Emojis \cup {None}
Entry == [mine : Mine, theirs : BOOLEAN]
Bare  == [mine |-> None, theirs |-> FALSE]
Item  == [msg : Msgs, entry : Entry, at : Nat]

Actions == {"ADD", "REMOVE", "SWITCH"}
Tap     == [msg : Msgs, asked : Mine, emoji : Mine, action : Actions]
NoTap   == [msg |-> 1, asked |-> None, emoji |-> None, action |-> "ADD"]

\* A message without reactions has no record.
Recorded == {m \in Msgs : reactions[m] # Bare}

TypeOK ==
    /\ reactions \in [Msgs -> Entry]
    /\ reactionOrder \in Seq(Msgs)
    /\ known \in BOOLEAN
    /\ pc \in [Procs -> {"idle", "send", "page"}]
    /\ tap \in [Procs -> Tap]
    /\ page \in [Procs -> Seq(Item)]
    /\ phone \in [Msgs -> Entry]
    /\ ver \in [Msgs -> Nat]
    /\ stream \in Seq(Item)
    /\ seen \in [Msgs -> Nat]
    /\ blurred \subseteq Msgs
    /\ sure \subseteq Procs
    /\ changes \in 0..MaxChanges
    /\ calls \in 0..MaxCalls

\* The daemon starts with nothing recorded; the messages may have reactions already.
Init ==
    /\ reactions = [m \in Msgs |-> Bare]
    /\ reactionOrder = <<>>
    /\ known \in BOOLEAN
    /\ pc = [p \in Procs |-> "idle"]
    /\ tap = [p \in Procs |-> NoTap]
    /\ page = [p \in Procs |-> <<>>]
    /\ phone \in [Msgs -> Entry]
    /\ ver = [m \in Msgs |-> 0]
    /\ stream = <<>>
    /\ seen = [m \in Msgs |-> 0]
    /\ blurred = {m \in Msgs : phone[m] # Bare}
    /\ sure = {}
    /\ changes = 0
    /\ calls = 0

-----------------------------------------------------------------------------
(* recordReactions.                                                        *)

\* Mutant: a message that lost its last reaction keeps its record.
KeepsEmptied(m, e) ==
    IF e = Bare THEN reactions ELSE [reactions EXCEPT ![m] = e]

Written(m, e) == [reactions EXCEPT ![m] = e]

\* The message joins the order when it had no record, even if its id is in there
\* from an earlier time.
Queued(m, e) ==
    IF e = Bare \/ reactions[m] # Bare THEN reactionOrder ELSE Append(reactionOrder, m)

Excess(o) == IF Len(o) > MaxReactionRecords THEN Len(o) - MaxReactionRecords ELSE 0

\* Mutant: what leaves the order stays in the map.
OrderOnly(o) == {}

\* trimReactionsLocked: whose records go.
Trimmed(o) == {o[i] : i \in 1..Excess(o)}

\* A version of a message's reactions is recorded.
Record(item) ==
    LET o    == Queued(item.msg, item.entry)
        gone == Trimmed(o)
        r    == Written(item.msg, item.entry)
    IN  /\ reactionOrder' = SubSeq(o, 1 + Excess(o), Len(o))
        /\ reactions' = [m \in Msgs |-> IF m \in gone THEN Bare ELSE r[m]]
        /\ seen' = [seen EXCEPT ![item.msg] = IF item.at > @ THEN item.at ELSE @]
        /\ blurred' = gone \cup (IF item.at < seen[item.msg]
                                 THEN blurred \cup {item.msg} ELSE blurred \ {item.msg})

-----------------------------------------------------------------------------
(* The phone.                                                              *)

\* The reactions of a message become e, and the phone says so.
Changes(m, e) ==
    /\ phone' = [phone EXCEPT ![m] = e]
    /\ ver' = [ver EXCEPT ![m] = @ + 1]
    /\ stream' = Append(stream, [msg |-> m, entry |-> e, at |-> ver[m] + 1])
    /\ sure' = {p \in sure : tap[p].msg # m}

\* The user reacts on another device, or somebody else does.
PhoneChanges(m, e) ==
    /\ changes < MaxChanges
    /\ changes' = changes + 1
    /\ e # phone[m]
    /\ Changes(m, e)
    /\ UNCHANGED <<recordVars, known, pc, tap, page, histVars, calls>>

\* What may come of an action when the user has `mine` on the message.
Outcomes(mine, action, emoji) ==
    CASE action = "ADD"    -> IF mine = None THEN {emoji} ELSE {mine, emoji}
      [] action = "REMOVE" -> IF mine = emoji THEN {None} ELSE {mine}
      [] action = "SWITCH" -> IF mine = None THEN {None, emoji} ELSE {emoji}

-----------------------------------------------------------------------------
(* The daemon.                                                             *)

\* handleMessage: the event's reactions are recorded.
HandleMessage ==
    /\ stream # <<>>
    /\ Record(Head(stream))
    /\ stream' = Tail(stream)
    /\ UNCHANGED <<known, pc, tap, page, phoneVars, sure, changes, calls>>

\* The long poll is down when the event should come. ListenRecovered pulls the list
\* of conversations again, never a message.
EventLost ==
    /\ stream # <<>>
    /\ LET m == Head(stream).msg
       IN  /\ seen' = [seen EXCEPT ![m] = IF Head(stream).at > @ THEN Head(stream).at ELSE @]
           /\ blurred' = blurred \cup {m}
    /\ stream' = Tail(stream)
    /\ UNCHANGED <<recordVars, known, pc, tap, page, phoneVars, sure, changes, calls>>

\* The conversation enters the daemon's list, or a snapshot leaves it out.
ListChanges ==
    /\ known' = ~known
    /\ UNCHANGED <<recordVars, pc, tap, page, phoneVars, stream, histVars, sure, changes, calls>>

Starts(p, label) ==
    /\ pc[p] = "idle"
    /\ calls < MaxCalls
    /\ calls' = calls + 1
    /\ pc' = [pc EXCEPT ![p] = label]

\* Messages: the phone answers with a page.
Messages(p) ==
    /\ Starts(p, "page")
    /\ page' = [page EXCEPT ![p] =
                  [m \in Msgs |-> [msg |-> m, entry |-> phone[m], at |-> ver[m]]]]
    /\ UNCHANGED <<recordVars, known, tap, phoneVars, stream, histVars, sure, changes>>

\* Its messages are recorded one by one, oldest first.
RecordPage(p) ==
    /\ pc[p] = "page" /\ page[p] # <<>>
    /\ Record(Head(page[p]))
    /\ page' = [page EXCEPT ![p] = Tail(@)]
    /\ UNCHANGED <<known, pc, tap, phoneVars, stream, sure, changes, calls>>

MessagesReturns(p) ==
    /\ pc[p] = "page" /\ page[p] = <<>>
    /\ pc' = [pc EXCEPT ![p] = "idle"]
    /\ UNCHANGED <<recordVars, known, tap, page, phoneVars, stream, histVars, sure, changes, calls>>

\* myReactionOn: the participants that are the user are the conversation's.
MyReactionOn(m) == IF known THEN reactions[m].mine ELSE None

\* Mutant: a different emoji is added to what the user has.
NeverSwitch(existing, asked) ==
    IF asked = None \/ asked = existing THEN "REMOVE" ELSE "ADD"

ActionFor(existing, asked) ==
    CASE asked = None \/ asked = existing -> "REMOVE"
      [] asked # None /\ asked # existing /\ existing # None -> "SWITCH"
      [] OTHER -> "ADD"

\* React derives the action from what is remembered. With nothing to remove it is done.
React(p, m, asked) ==
    LET existing == MyReactionOn(m)
        action   == ActionFor(existing, asked)
    IN  /\ ~(existing = None /\ asked = None)
        /\ Starts(p, "send")
        /\ tap' = [tap EXCEPT ![p] =
                     [msg |-> m, asked |-> asked, action |-> action,
                      emoji |-> IF action = "REMOVE" THEN existing ELSE asked]]
        /\ sure' = IF known /\ m \notin blurred /\ seen[m] = ver[m]
                   THEN sure \cup {p} ELSE sure \ {p}
        /\ UNCHANGED <<recordVars, known, page, phoneVars, stream, histVars, changes>>

\* The phone applies it.
SendReaction(p) ==
    /\ pc[p] = "send"
    /\ LET t == tap[p]
           old == phone[t.msg]
       IN  \E mine \in Outcomes(old.mine, t.action, t.emoji) :
              IF mine = old.mine
              THEN UNCHANGED <<phoneVars, stream>> /\ sure' = sure \ {p}
              ELSE Changes(t.msg, [old EXCEPT !.mine = mine])
    /\ pc' = [pc EXCEPT ![p] = "idle"]
    /\ tap' = [tap EXCEPT ![p] = NoTap]
    /\ UNCHANGED <<recordVars, known, page, histVars, changes, calls>>

\* It does not reach the phone, or the phone rejects it.
ReactFails(p) ==
    /\ pc[p] = "send"
    /\ pc' = [pc EXCEPT ![p] = "idle"]
    /\ tap' = [tap EXCEPT ![p] = NoTap]
    /\ sure' = sure \ {p}
    /\ UNCHANGED <<recordVars, known, page, phoneVars, stream, histVars, changes, calls>>

-----------------------------------------------------------------------------
Next ==
    \/ \E m \in Msgs, e \in Entry : PhoneChanges(m, e)
    \/ HandleMessage \/ EventLost \/ ListChanges
    \/ \E p \in Procs :
          \/ Messages(p) \/ RecordPage(p) \/ MessagesReturns(p)
          \/ \E m \in Msgs, asked \in Mine : React(p, m, asked)
          \/ SendReaction(p) \/ ReactFails(p)

Spec == Init /\ [][Next]_vars

-----------------------------------------------------------------------------
(* Properties                                                              *)

\* The map is bounded through the order: what is remembered is in it, and it is never
\* longer than the limit, whatever is removed, reacted to again or trimmed
\* (reactions.go:44-65; README.md:393 "In-memory state is bounded").
ReactionsBounded ==
    /\ Recorded \subseteq ToSet(reactionOrder)
    /\ Len(reactionOrder) <= MaxReactionRecords

\* A message's record is what the phone has, unless news of it is still on its way or
\* was lost, a page fetched earlier was recorded over it, or it was trimmed
\* (reactions.go:22-48, methods.go:78-81). No other order of pages and events ends
\* with a stale reaction.
RecordsAgreeUnlessBlurred ==
    \A m \in Msgs \ blurred : seen[m] = ver[m] => reactions[m] = phone[m]

\* What the user has on the message once the tap is done: the same emoji again takes
\* it back, a different one switches.
Toggled(mine, asked) == IF asked = mine THEN None ELSE asked

\* A tap does to the phone what the user asked, whenever the record was good when the
\* tap read it and nothing changed the message until the phone applies it
\* (reactions.go:83-120: "Picking the wrong one fails silently or duplicates a
\* reaction").
TapsToggle ==
    \A p \in Procs :
        LET t    == tap[p]
            mine == phone[t.msg].mine
        IN  pc[p] = "send" /\ p \in sure =>
                Outcomes(mine, t.action, t.emoji) = {Toggled(mine, t.asked)}
=============================================================================
