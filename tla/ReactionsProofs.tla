-------------------------- MODULE ReactionsProofs --------------------------
(***************************************************************************)
(* Theorems about Reactions, for any messages, emoji, goroutines, limits   *)
(* and bounds.                                                             *)
(***************************************************************************)
EXTENDS Reactions, SequenceTheorems, TLAPS

(***************************************************************************)
(* Dropping the front of an order.                                         *)
(***************************************************************************)

\* What is not among the first n of an order is still in the rest of it.
LEMMA DropKeeps ==
    ASSUME NEW S, NEW o \in Seq(S), NEW n \in Nat, n <= Len(o)
    PROVE  LET rest == SubSeq(o, 1 + n, Len(o))
           IN  /\ rest \in Seq(S)
               /\ Len(rest) = Len(o) - n
               /\ ToSet(o) \subseteq {o[i] : i \in 1..n} \cup ToSet(rest)
<1> DEFINE rest == SubSeq(o, 1 + n, Len(o))
<1>1. Len(o) \in Nat /\ DOMAIN o = 1..Len(o) /\ \A i \in 1..Len(o) : o[i] \in S
  BY ElementOfSeq, LenProperties
<1>2. \A i \in (1 + n)..Len(o) : o[i] \in S
  BY <1>1
<1>3. /\ rest \in Seq(S)
      /\ Len(rest) = IF 1 + n <= Len(o) THEN Len(o) - (1 + n) + 1 ELSE 0
      /\ \A i \in 1..(Len(o) - (1 + n) + 1) : rest[i] = o[(1 + n) + i - 1]
  <2>1. 1 + n \in 1..(Len(o) + 1) /\ Len(o) \in (1 + n - 1)..Len(o)
    BY <1>1
  <2> QED
    BY <1>1, <2>1, SubSeqProperties
<1>4. Len(rest) = Len(o) - n
  <2>0. Len(o) \in Nat /\ n \in Nat /\ n <= Len(o)
    BY <1>1
  <2>1. \A k \in Nat : n <= k => 1 + n <= k \/ n = k
    OBVIOUS
  <2>2. Len(rest) = IF 1 + n <= Len(o) THEN Len(o) - (1 + n) + 1 ELSE 0
    BY <1>3
  <2> HIDE DEF rest
  <2> QED
    BY <2>0, <2>1, <2>2
<1>5. ASSUME NEW x \in ToSet(o), x \notin {o[i] : i \in 1..n} PROVE x \in ToSet(rest)
  <2> HIDE DEF rest
  <2>1. PICK i \in 1..Len(o) : x = o[i]
    BY <1>1 DEF ToSet
  <2>2. i \notin 1..n
    BY <1>5, <2>1
  <2>3. i - n \in 1..(Len(o) - (1 + n) + 1) /\ (1 + n) + (i - n) - 1 = i
    BY <1>1, <2>2
  <2>4. rest[i - n] = x
    BY <1>3, <2>1, <2>3
  <2>5. DOMAIN rest = 1..Len(rest)
    BY <1>3, LenProperties
  <2>6. i - n \in DOMAIN rest
    BY <1>1, <1>4, <2>3, <2>5
  <2> QED
    BY <2>4, <2>6 DEF ToSet
<1> QED
  BY <1>3, <1>4, <1>5

(***************************************************************************)
(* The bound. Only recordReactions touches the map and its order.          *)
(***************************************************************************)
RecordTypes ==
    /\ reactions \in [Msgs -> Entry]
    /\ reactionOrder \in Seq(Msgs)
    /\ stream \in Seq(Item)
    /\ page \in [Procs -> Seq(Item)]
    /\ phone \in [Msgs -> Entry]
    /\ ver \in [Msgs -> Nat]
    /\ tap \in [Procs -> Tap]

BoundInv == RecordTypes /\ ReactionsBounded

\* A goroutine without a tap has one that asks for nothing.
LEMMA NoTapIsATap == NoTap \in Tap
BY MsgsAssumption DEF NoTap, Tap, Msgs, Mine, Actions

\* What React derives is a tap.
LEMMA DerivedIsATap ==
    ASSUME NEW m \in Msgs, NEW asked \in Mine, NEW existing \in Mine
    PROVE  [msg |-> m, asked |-> asked, action |-> ActionFor(existing, asked),
            emoji |-> IF ActionFor(existing, asked) = "REMOVE" THEN existing ELSE asked] \in Tap
BY DEF ActionFor, Tap, Actions

\* What the user has on a message is an emoji or none.
LEMMA MyReactionIsMine ==
    ASSUME RecordTypes, NEW m \in Msgs
    PROVE  MyReactionOn(m) \in Mine
BY DEF RecordTypes, MyReactionOn, Entry, Mine

\* No record and an empty order, to begin with.
LEMMA BoundInit == Init => BoundInv
<1> SUFFICES ASSUME Init PROVE BoundInv
  OBVIOUS
<1>1. Bare \in Entry /\ Recorded = {}
  BY DEF Init, Bare, Entry, Mine, Recorded
<1>2. RecordTypes
  BY <1>1, NoTapIsATap DEF Init, RecordTypes
<1>3. Len(reactionOrder) <= MaxReactionRecords
  BY LimitAssumption DEF Init
<1> QED
  BY <1>1, <1>2, <1>3 DEF BoundInv, ReactionsBounded

\* However often an id is in the order, what leaves its front leaves the map, and what
\* stays in the map is in the rest.
LEMMA RecordKeepsBound ==
    ASSUME BoundInv, NEW item \in Item, Record(item)
    PROVE  /\ reactions' \in [Msgs -> Entry]
           /\ reactionOrder' \in Seq(Msgs)
           /\ ReactionsBounded'
<1> DEFINE o == Queued(item.msg, item.entry)
           gone == Trimmed(o)
           r == Written(item.msg, item.entry)
<1>1. /\ item.msg \in Msgs /\ item.entry \in Entry /\ Bare \in Entry
      /\ MaxReactionRecords \in Nat \ {0}
      /\ reactions \in [Msgs -> Entry] /\ reactionOrder \in Seq(Msgs)
      /\ Recorded \subseteq ToSet(reactionOrder)
      /\ Len(reactionOrder) <= MaxReactionRecords
  BY LimitAssumption DEF BoundInv, RecordTypes, ReactionsBounded, Item, Bare, Entry, Mine
<1>2. o \in Seq(Msgs) /\ ToSet(reactionOrder) \subseteq ToSet(o)
  <2>1. CASE o = reactionOrder
    BY <1>1, <2>1
  <2>2. CASE o = Append(reactionOrder, item.msg)
    BY <1>1, <2>2, AppendProperties DEF ToSet
  <2> QED
    BY <2>1, <2>2 DEF Queued
<1>3. item.entry # Bare => item.msg \in ToSet(o)
  <2>1. CASE o = Append(reactionOrder, item.msg)
    <3>1. /\ Len(o) = Len(reactionOrder) + 1 /\ o[Len(reactionOrder) + 1] = item.msg
          /\ DOMAIN o = 1..(Len(reactionOrder) + 1) /\ Len(reactionOrder) \in Nat
      BY <1>1, <2>1, AppendProperties, LenProperties
    <3> QED
      BY <3>1 DEF ToSet
  <2>2. CASE reactions[item.msg] # Bare
    BY <1>1, <1>2, <2>2 DEF Recorded
  <2> QED
    BY <2>1, <2>2 DEF Queued
<1>4. r \in [Msgs -> Entry] /\ {m \in Msgs : r[m] # Bare} \subseteq ToSet(o)
  BY <1>1, <1>2, <1>3 DEF Written, Recorded
<1>5. Len(o) \in Nat /\ Excess(o) \in Nat /\ Excess(o) <= Len(o)
  BY <1>1, <1>2, LenProperties DEF Excess
<1>6. /\ reactionOrder' = SubSeq(o, 1 + Excess(o), Len(o))
      /\ reactions' = [m \in Msgs |-> IF m \in gone THEN Bare ELSE r[m]]
  BY DEF Record
<1>7. /\ reactionOrder' \in Seq(Msgs)
      /\ Len(reactionOrder') = Len(o) - Excess(o)
      /\ ToSet(o) \subseteq gone \cup ToSet(reactionOrder')
  <2> HIDE DEF o
  <2> QED
    BY <1>2, <1>5, <1>6, DropKeeps DEF Trimmed
<1>8. reactions' \in [Msgs -> Entry] /\ Recorded' \subseteq ToSet(reactionOrder')
  <2> HIDE DEF o, r, gone
  <2>1. reactions' \in [Msgs -> Entry]
    BY <1>1, <1>4, <1>6
  <2>2. \A m \in Msgs : reactions'[m] # Bare => m \notin gone /\ r[m] # Bare
    BY <1>6
  <2> QED
    BY <1>4, <1>7, <2>1, <2>2 DEF Recorded
<1>9. Len(reactionOrder') <= MaxReactionRecords
  <2> HIDE DEF o
  <2> QED
    BY <1>1, <1>5, <1>7 DEF Excess
<1> QED
  BY <1>7, <1>8, <1>9 DEF ReactionsBounded

\* What is at the head of a stream or a page is an item, and so is the rest.
LEMMA HeadAndTail ==
    ASSUME NEW s \in Seq(Item), s # <<>>
    PROVE  /\ Head(s) \in Item /\ Tail(s) \in Seq(Item)
           /\ Len(s) \in Nat \ {0} /\ Head(s) = s[1]
           /\ Len(Tail(s)) = Len(s) - 1
           /\ \A i \in 1..Len(Tail(s)) : Tail(s)[i] = s[i + 1]
BY HeadTailProperties, EmptySeq, LenProperties

\* A phone's new entry is an item of the stream.
LEMMA ChangesTypes ==
    ASSUME RecordTypes, NEW m \in Msgs, NEW e \in Entry, Changes(m, e)
    PROVE  /\ phone' \in [Msgs -> Entry] /\ ver' \in [Msgs -> Nat]
           /\ stream' \in Seq(Item)
           /\ Len(stream) \in Nat /\ Len(stream') = Len(stream) + 1
           /\ \A i \in 1..Len(stream) : stream'[i] = stream[i]
           /\ stream'[Len(stream) + 1] = [msg |-> m, entry |-> e, at |-> ver[m] + 1]
<1>1. ver[m] + 1 \in Nat
  BY DEF RecordTypes
<1>2. [msg |-> m, entry |-> e, at |-> ver[m] + 1] \in Item
  BY <1>1 DEF Item
<1>3. phone' \in [Msgs -> Entry] /\ ver' \in [Msgs -> Nat]
  BY <1>1 DEF RecordTypes, Changes
<1> QED
  BY <1>2, <1>3, AppendProperties, LenProperties DEF RecordTypes, Changes

\* The page the phone answers with, and what is applied to it, are of their types.
LEMMA PageTypes ==
    ASSUME RecordTypes
    PROVE  [m \in Msgs |-> [msg |-> m, entry |-> phone[m], at |-> ver[m]]] \in Seq(Item)
<1>1. \A m \in Msgs : [msg |-> m, entry |-> phone[m], at |-> ver[m]] \in Item
  BY DEF RecordTypes, Item
<1>2. Msgs = 1..NumMsgs /\ NumMsgs \in Nat
  BY MsgsAssumption DEF Msgs
<1> QED
  BY <1>1, <1>2, SeqDef

\* A tap that reaches the phone changes nothing there, or the user's own reaction.
LEMMA SentReaction ==
    ASSUME RecordTypes, NEW p \in Procs, SendReaction(p)
    PROVE  \/ UNCHANGED <<phone, ver, stream>> /\ sure' = sure \ {p}
           \/ \E e \in Entry : Changes(tap[p].msg, e) /\ tap[p].msg \in Msgs
<1>1. PICK mine \in Outcomes(phone[tap[p].msg].mine, tap[p].action, tap[p].emoji) :
         IF mine = phone[tap[p].msg].mine
         THEN UNCHANGED <<phoneVars, stream>> /\ sure' = sure \ {p}
         ELSE Changes(tap[p].msg, [phone[tap[p].msg] EXCEPT !.mine = mine])
  BY DEF SendReaction
<1>2. /\ tap[p].msg \in Msgs /\ tap[p].emoji \in Mine /\ tap[p].action \in Actions
      /\ phone[tap[p].msg] \in Entry /\ None \in Mine
  BY DEF Tap, RecordTypes, Mine
<1>3. mine \in Mine
  <2>1. phone[tap[p].msg].mine \in Mine
    BY <1>2 DEF Entry
  <2> QED
    BY <1>1, <1>2, <2>1 DEF Outcomes, Actions
<1>4. [phone[tap[p].msg] EXCEPT !.mine = mine] \in Entry
  BY <1>2, <1>3 DEF Entry
<1> QED
  BY <1>1, <1>2, <1>4 DEF phoneVars

\* No step makes the map or the order outgrow the limit.
LEMMA BoundStep == BoundInv /\ [Next]_vars => BoundInv'
<1> SUFFICES ASSUME BoundInv, [Next]_vars PROVE BoundInv'
  OBVIOUS
<1> USE DEF recordVars, phoneVars, histVars, Starts
<1>1. RecordTypes /\ ReactionsBounded
  BY DEF BoundInv
<1>2. ASSUME UNCHANGED recordVars PROVE ReactionsBounded'
  BY <1>1, <1>2 DEF ReactionsBounded, Recorded
<1>3. ASSUME NEW m \in Msgs, NEW e \in Entry, PhoneChanges(m, e) PROVE BoundInv'
  BY <1>1, <1>2, <1>3, ChangesTypes DEF PhoneChanges, BoundInv, RecordTypes
<1>4. CASE HandleMessage
  <2>1. stream \in Seq(Item) /\ stream # <<>> /\ Record(Head(stream)) /\ stream' = Tail(stream)
        /\ UNCHANGED <<page, phone, ver, tap>>
    BY <1>1, <1>4 DEF HandleMessage, RecordTypes
  <2>2. Head(stream) \in Item /\ stream' \in Seq(Item)
    BY <2>1, HeadAndTail
  <2> QED
    BY <1>1, <2>1, <2>2, RecordKeepsBound DEF BoundInv, RecordTypes
<1>5. CASE EventLost
  <2>1. stream \in Seq(Item) /\ stream # <<>> /\ stream' = Tail(stream)
        /\ UNCHANGED <<recordVars, page, phone, ver, tap>>
    BY <1>1, <1>5 DEF EventLost, RecordTypes
  <2>2. stream' \in Seq(Item)
    BY <2>1, HeadAndTail
  <2> QED
    BY <1>1, <1>2, <2>1, <2>2 DEF BoundInv, RecordTypes
<1>6. CASE ListChanges
  BY <1>1, <1>2, <1>6 DEF ListChanges, BoundInv, RecordTypes
<1>7. ASSUME NEW p \in Procs, Messages(p) PROVE BoundInv'
  <2>1. page' \in [Procs -> Seq(Item)]
    BY <1>1, <1>7, PageTypes DEF Messages, RecordTypes
  <2> QED
    BY <1>1, <1>2, <1>7, <2>1 DEF Messages, BoundInv, RecordTypes
<1>8. ASSUME NEW p \in Procs, RecordPage(p) PROVE BoundInv'
  <2>1. /\ page[p] \in Seq(Item) /\ page[p] # <<>> /\ Record(Head(page[p]))
        /\ page' = [page EXCEPT ![p] = Tail(page[p])] /\ UNCHANGED <<stream, phone, ver, tap>>
    BY <1>1, <1>8 DEF RecordPage, RecordTypes
  <2>2. Head(page[p]) \in Item /\ Tail(page[p]) \in Seq(Item)
    BY <2>1, HeadAndTail
  <2>3. page' \in [Procs -> Seq(Item)]
    BY <1>1, <2>1, <2>2 DEF RecordTypes
  <2> QED
    BY <1>1, <2>1, <2>2, <2>3, RecordKeepsBound DEF BoundInv, RecordTypes
<1>9. ASSUME NEW p \in Procs, MessagesReturns(p) PROVE BoundInv'
  BY <1>1, <1>2, <1>9 DEF MessagesReturns, BoundInv, RecordTypes
<1>10. ASSUME NEW p \in Procs, NEW m \in Msgs, NEW asked \in Mine, React(p, m, asked)
       PROVE BoundInv'
  <2>1. tap' \in [Procs -> Tap]
    BY <1>1, <1>10, MyReactionIsMine, DerivedIsATap DEF React, RecordTypes
  <2> QED
    BY <1>1, <1>2, <1>10, <2>1 DEF React, BoundInv, RecordTypes
<1>11. ASSUME NEW p \in Procs, SendReaction(p) PROVE BoundInv'
  <2>5. phone' \in [Msgs -> Entry] /\ ver' \in [Msgs -> Nat] /\ stream' \in Seq(Item)
    BY <1>1, <1>11, SentReaction, ChangesTypes DEF RecordTypes
  <2>6. tap' \in [Procs -> Tap]
    BY <1>1, <1>11, NoTapIsATap DEF SendReaction, RecordTypes
  <2> QED
    BY <1>1, <1>2, <1>11, <2>5, <2>6 DEF SendReaction, BoundInv, RecordTypes
<1>12. ASSUME NEW p \in Procs, ReactFails(p) PROVE BoundInv'
  BY <1>1, <1>2, <1>12, NoTapIsATap DEF ReactFails, BoundInv, RecordTypes
<1>13. CASE UNCHANGED vars
  BY <1>1, <1>2, <1>13 DEF vars, BoundInv, RecordTypes
<1> QED
  BY <1>3, <1>4, <1>5, <1>6, <1>7, <1>8, <1>9, <1>10, <1>11, <1>12, <1>13 DEF Next

\* The memory of reactions is bounded: no record is ever outside the order.
THEOREM MemoryIsBounded == Spec => []ReactionsBounded
<1>1. BoundInv => ReactionsBounded
  BY DEF BoundInv
<1> QED
  BY <1>1, BoundInit, BoundStep, PTL DEF Spec

(***************************************************************************)
(* Agreement. Whatever is on its way to be recorded carries a version the  *)
(* phone had, and the newest version carries what the phone has now.       *)
(***************************************************************************)
Truthful(item, v, ph) ==
    /\ item.at <= v[item.msg]
    /\ item.at = v[item.msg] => item.entry = ph[item.msg]

AgreeInv ==
    /\ seen \in [Msgs -> Nat]
    /\ \A m \in Msgs : seen[m] <= ver[m]
    /\ \A i \in 1..Len(stream) : Truthful(stream[i], ver, phone)
    /\ \A p \in Procs : \A i \in 1..Len(page[p]) : Truthful(page[p][i], ver, phone)
    /\ RecordsAgreeUnlessBlurred

\* To begin with nothing is under way, and a message that has reactions is blurred.
LEMMA AgreeInit == Init => AgreeInv
BY DEF Init, AgreeInv, RecordsAgreeUnlessBlurred

\* The phone's own change makes every older version stale, and adds the new one.
LEMMA ChangesAgree ==
    ASSUME RecordTypes, AgreeInv, NEW m \in Msgs, NEW e \in Entry, Changes(m, e),
           UNCHANGED <<page, reactions, seen, blurred>>
    PROVE  AgreeInv'
<1>1. /\ phone' = [phone EXCEPT ![m] = e] /\ ver' = [ver EXCEPT ![m] = ver[m] + 1]
      /\ phone \in [Msgs -> Entry] /\ ver \in [Msgs -> Nat]
  BY DEF Changes, RecordTypes
<1>2. ASSUME NEW item \in Item, Truthful(item, ver, phone) PROVE Truthful(item, ver', phone')
  <2>1. item.msg \in Msgs /\ item.at \in Nat /\ ver[item.msg] \in Nat
    BY <1>1 DEF Item
  <2>2. CASE item.msg = m
    BY <1>1, <1>2, <2>1, <2>2 DEF Truthful
  <2>3. CASE item.msg # m
    BY <1>1, <1>2, <2>1, <2>3 DEF Truthful
  <2> QED
    BY <2>2, <2>3
<1>3. \A i \in 1..Len(stream') : Truthful(stream'[i], ver', phone')
  <2>1. /\ Len(stream) \in Nat /\ Len(stream') = Len(stream) + 1
        /\ \A i \in 1..Len(stream) : stream'[i] = stream[i] /\ stream[i] \in Item
        /\ stream'[Len(stream) + 1] = [msg |-> m, entry |-> e, at |-> ver[m] + 1]
    BY ChangesTypes, ElementOfSeq DEF RecordTypes
  <2>2. Truthful([msg |-> m, entry |-> e, at |-> ver[m] + 1], ver', phone')
    BY <1>1 DEF Truthful
  <2>3. ASSUME NEW i \in 1..Len(stream') PROVE Truthful(stream'[i], ver', phone')
    <3>1. CASE i \in 1..Len(stream)
      <4>1. Truthful(stream[i], ver', phone') /\ stream'[i] = stream[i]
        BY <1>2, <2>1, <3>1 DEF AgreeInv
      <4> QED
        BY <4>1
    <3>2. CASE i = Len(stream) + 1
      <4>1. stream'[i] = [msg |-> m, entry |-> e, at |-> ver[m] + 1]
        BY <2>1, <3>2
      <4> QED
        BY <2>2, <4>1
    <3> QED
      BY <2>1, <3>1, <3>2
  <2> QED
    BY <2>3
<1>4. \A p \in Procs : \A i \in 1..Len(page'[p]) : Truthful(page'[p][i], ver', phone')
  <2>1. ASSUME NEW p \in Procs, NEW i \in 1..Len(page[p]) PROVE Truthful(page[p][i], ver', phone')
    BY <1>2, ElementOfSeq DEF AgreeInv, RecordTypes
  <2> QED
    BY <2>1
<1>5. \A x \in Msgs : seen'[x] <= ver'[x]
  BY <1>1 DEF AgreeInv
<1>6. RecordsAgreeUnlessBlurred'
  <2>1. ASSUME NEW x \in Msgs \ blurred, seen[x] = ver'[x] PROVE reactions[x] = phone'[x]
    <3>1. seen[x] \in Nat /\ ver[x] \in Nat /\ seen[x] <= ver[x]
      BY <1>1 DEF AgreeInv
    <3>2. x # m
      BY <1>1, <2>1, <3>1
    <3> QED
      BY <1>1, <2>1, <3>2 DEF AgreeInv, RecordsAgreeUnlessBlurred
  <2> QED
    BY <2>1 DEF RecordsAgreeUnlessBlurred
<1> QED
  BY <1>3, <1>4, <1>5, <1>6 DEF AgreeInv

\* Recording a truthful item leaves the record right, or the message blurred.
LEMMA RecordAgrees ==
    ASSUME RecordTypes, AgreeInv, NEW item \in Item, Truthful(item, ver, phone), Record(item),
           UNCHANGED <<phone, ver>>
    PROVE  /\ seen' \in [Msgs -> Nat]
           /\ \A m \in Msgs : seen'[m] <= ver'[m]
           /\ RecordsAgreeUnlessBlurred'
<1> DEFINE gone == Trimmed(Queued(item.msg, item.entry))
<1>1. /\ seen' = [seen EXCEPT ![item.msg] = IF item.at > seen[item.msg] THEN item.at
                                             ELSE seen[item.msg]]
      /\ blurred' = gone \cup (IF item.at < seen[item.msg]
                               THEN blurred \cup {item.msg} ELSE blurred \ {item.msg})
      /\ reactions' = [m \in Msgs |-> IF m \in gone THEN Bare
                                      ELSE [reactions EXCEPT ![item.msg] = item.entry][m]]
  BY DEF Record, Written
<1>2. /\ item.msg \in Msgs /\ item.at \in Nat /\ item.entry \in Entry
      /\ seen \in [Msgs -> Nat] /\ ver \in [Msgs -> Nat]
      /\ reactions \in [Msgs -> Entry]
      /\ \A m \in Msgs : seen[m] <= ver[m]
      /\ item.at <= ver[item.msg]
      /\ item.at = ver[item.msg] => item.entry = phone[item.msg]
  BY DEF Item, AgreeInv, RecordTypes, Truthful
<1> HIDE DEF gone
<1>3. seen' \in [Msgs -> Nat] /\ \A m \in Msgs : seen'[m] <= ver'[m]
  BY <1>1, <1>2
<1>4. ASSUME NEW m \in Msgs, m \notin blurred', seen'[m] = ver'[m]
      PROVE  reactions'[m] = phone'[m]
  <2>1. CASE m = item.msg
    <3>1. m \notin gone /\ ~(item.at < seen[m])
      BY <1>1, <1>4, <2>1
    <3>2. seen'[m] = item.at
      BY <1>1, <1>2, <2>1, <3>1
    <3>3. reactions'[m] = item.entry
      BY <1>1, <1>2, <2>1, <3>1
    <3> QED
      BY <1>2, <1>4, <2>1, <3>2, <3>3
  <2>2. CASE m # item.msg
    <3>1. m \notin gone /\ m \notin blurred
      BY <1>1, <1>4, <2>2
    <3>2. seen'[m] = seen[m] /\ reactions'[m] = reactions[m]
      BY <1>1, <1>2, <2>2, <3>1
    <3> QED
      BY <1>4, <3>1, <3>2 DEF AgreeInv, RecordsAgreeUnlessBlurred
  <2> QED
    BY <2>1, <2>2
<1> QED
  BY <1>3, <1>4 DEF RecordsAgreeUnlessBlurred

\* What a step neither records nor changes on the phone still agrees.
LEMMA QuietAgrees ==
    ASSUME AgreeInv, UNCHANGED <<reactions, blurred, seen, ver, phone, stream, page>>
    PROVE  AgreeInv'
BY DEF AgreeInv, RecordsAgreeUnlessBlurred

\* No order of events, pages and losses makes a record wrong without blurring it.
LEMMA AgreeStep == BoundInv /\ AgreeInv /\ [Next]_vars => AgreeInv'
<1> SUFFICES ASSUME BoundInv, AgreeInv, [Next]_vars PROVE AgreeInv'
  OBVIOUS
<1> USE DEF recordVars, phoneVars, histVars, Starts
<1>1. RecordTypes
  BY DEF BoundInv
<1>2. ASSUME NEW s \in Seq(Item), s # <<>>, \A i \in 1..Len(s) : Truthful(s[i], ver, phone)
      PROVE  /\ Head(s) \in Item /\ Truthful(Head(s), ver, phone)
             /\ \A i \in 1..Len(Tail(s)) : Truthful(Tail(s)[i], ver, phone)
  <2>1. /\ Head(s) \in Item /\ Head(s) = s[1] /\ Len(s) \in Nat \ {0}
        /\ Len(Tail(s)) = Len(s) - 1 /\ \A i \in 1..Len(Tail(s)) : Tail(s)[i] = s[i + 1]
    BY <1>2, HeadAndTail
  <2>2. 1 \in 1..Len(s) /\ \A i \in 1..Len(Tail(s)) : i + 1 \in 1..Len(s)
    BY <2>1
  <2> QED
    BY <1>2, <2>1, <2>2
<1>3. ASSUME NEW m \in Msgs, NEW e \in Entry, PhoneChanges(m, e) PROVE AgreeInv'
  BY <1>1, <1>3, ChangesAgree DEF PhoneChanges
<1>4. CASE HandleMessage
  <2>1. /\ stream \in Seq(Item) /\ stream # <<>> /\ Record(Head(stream))
        /\ stream' = Tail(stream) /\ UNCHANGED <<page, phone, ver>>
    BY <1>1, <1>4 DEF HandleMessage, RecordTypes
  <2>2. /\ Head(stream) \in Item /\ Truthful(Head(stream), ver, phone)
        /\ \A i \in 1..Len(Tail(stream)) : Truthful(Tail(stream)[i], ver, phone)
    BY <1>2, <2>1 DEF AgreeInv
  <2>3. /\ seen' \in [Msgs -> Nat] /\ \A m \in Msgs : seen'[m] <= ver'[m]
        /\ RecordsAgreeUnlessBlurred'
    BY <1>1, <2>1, <2>2, RecordAgrees
  <2> QED
    BY <2>1, <2>2, <2>3 DEF AgreeInv
<1>5. CASE EventLost
  <2>1. /\ stream \in Seq(Item) /\ stream # <<>> /\ stream' = Tail(stream)
        /\ UNCHANGED <<reactions, page, phone, ver>>
    BY <1>1, <1>5 DEF EventLost, RecordTypes
  <2>2. /\ Head(stream) \in Item /\ Truthful(Head(stream), ver, phone)
        /\ \A i \in 1..Len(Tail(stream)) : Truthful(Tail(stream)[i], ver, phone)
    BY <1>2, <2>1 DEF AgreeInv
  <2> DEFINE m == Head(stream).msg
             at == Head(stream).at
  <2>3. /\ m \in Msgs /\ at \in Nat /\ at <= ver[m]
        /\ seen' = [seen EXCEPT ![m] = IF at > seen[m] THEN at ELSE seen[m]]
        /\ blurred' = blurred \cup {m}
    BY <1>5, <2>2 DEF EventLost, Item, Truthful
  <2> HIDE DEF m, at
  <2>4. /\ seen' \in [Msgs -> Nat] /\ \A x \in Msgs : seen'[x] <= ver'[x]
        /\ \A x \in Msgs : x # m => seen'[x] = seen[x]
    BY <2>1, <2>3 DEF AgreeInv
  <2>5. RecordsAgreeUnlessBlurred'
    BY <2>1, <2>3, <2>4 DEF AgreeInv, RecordsAgreeUnlessBlurred
  <2> QED
    BY <2>1, <2>2, <2>4, <2>5 DEF AgreeInv
<1>6. CASE ListChanges
  BY <1>6, QuietAgrees DEF ListChanges
<1>7. ASSUME NEW p \in Procs, Messages(p) PROVE AgreeInv'
  <2> DEFINE new == [m \in Msgs |-> [msg |-> m, entry |-> phone[m], at |-> ver[m]]]
  <2>1. /\ page' = [page EXCEPT ![p] = new] /\ page \in [Procs -> Seq(Item)]
        /\ UNCHANGED <<reactions, blurred, seen, ver, phone, stream>>
    BY <1>1, <1>7 DEF Messages, RecordTypes
  <2>2. new \in Seq(Item) /\ DOMAIN new = Msgs
    BY <1>1, PageTypes
  <2>3. 1..Len(new) = Msgs
    <3> HIDE DEF new
    <3> QED
      BY <2>2, LenProperties
  <2>4. \A i \in 1..Len(new) : Truthful(new[i], ver, phone)
    <3>1. ASSUME NEW m \in Msgs PROVE Truthful(new[m], ver, phone)
      <4>1. ver[m] \in Nat
        BY <1>1 DEF RecordTypes
      <4> QED
        BY <4>1 DEF Truthful
    <3> HIDE DEF new
    <3> QED
      BY <2>3, <3>1
  <2> HIDE DEF new
  <2>5. \A q \in Procs : \A i \in 1..Len(page'[q]) : Truthful(page'[q][i], ver', phone')
    <3>1. ASSUME NEW q \in Procs PROVE \A i \in 1..Len(page'[q]) : Truthful(page'[q][i], ver, phone)
      <4>1. CASE q = p
        BY <2>1, <2>4, <4>1
      <4>2. CASE q # p
        BY <2>1, <4>2 DEF AgreeInv
      <4> QED
        BY <4>1, <4>2
    <3> QED
      BY <2>1, <3>1
  <2> QED
    BY <2>1, <2>5 DEF AgreeInv, RecordsAgreeUnlessBlurred
<1>8. ASSUME NEW p \in Procs, RecordPage(p) PROVE AgreeInv'
  <2>1. /\ page[p] \in Seq(Item) /\ page[p] # <<>> /\ Record(Head(page[p]))
        /\ page' = [page EXCEPT ![p] = Tail(page[p])] /\ page \in [Procs -> Seq(Item)]
        /\ UNCHANGED <<stream, phone, ver>>
    BY <1>1, <1>8 DEF RecordPage, RecordTypes
  <2>2. /\ Head(page[p]) \in Item /\ Truthful(Head(page[p]), ver, phone)
        /\ \A i \in 1..Len(Tail(page[p])) : Truthful(Tail(page[p])[i], ver, phone)
    BY <1>2, <2>1 DEF AgreeInv
  <2>3. /\ seen' \in [Msgs -> Nat] /\ \A m \in Msgs : seen'[m] <= ver'[m]
        /\ RecordsAgreeUnlessBlurred'
    BY <1>1, <2>1, <2>2, RecordAgrees
  <2>4. ASSUME NEW q \in Procs, NEW i \in 1..Len(page'[q]) PROVE Truthful(page'[q][i], ver, phone)
    <3>1. CASE q = p
      BY <2>1, <2>2, <2>4, <3>1
    <3>2. CASE q # p
      BY <2>1, <2>4, <3>2 DEF AgreeInv
    <3> QED
      BY <3>1, <3>2
  <2> QED
    BY <2>1, <2>3, <2>4 DEF AgreeInv
<1>9. ASSUME NEW p \in Procs, MessagesReturns(p) PROVE AgreeInv'
  BY <1>9, QuietAgrees DEF MessagesReturns
<1>10. ASSUME NEW p \in Procs, NEW m \in Msgs, NEW asked \in Mine, React(p, m, asked)
       PROVE AgreeInv'
  BY <1>10, QuietAgrees DEF React
<1>11. ASSUME NEW p \in Procs, SendReaction(p) PROVE AgreeInv'
  BY <1>1, <1>11, SentReaction, ChangesAgree, QuietAgrees DEF SendReaction
<1>12. ASSUME NEW p \in Procs, ReactFails(p) PROVE AgreeInv'
  BY <1>12, QuietAgrees DEF ReactFails
<1>13. CASE UNCHANGED vars
  BY <1>13, QuietAgrees DEF vars
<1> QED
  BY <1>3, <1>4, <1>5, <1>6, <1>7, <1>8, <1>9, <1>10, <1>11, <1>12, <1>13 DEF Next

\* A record is what the phone has, or news of it is under way, lost or overwritten.
THEOREM RecordsAgree == Spec => []RecordsAgreeUnlessBlurred
<1>1. AgreeInv => RecordsAgreeUnlessBlurred
  BY DEF AgreeInv
<1> QED
  BY <1>1, BoundInit, BoundStep, AgreeInit, AgreeStep, PTL DEF Spec

(***************************************************************************)
(* Taps. An action derived from a record that was right stays right until  *)
(* the message changes on the phone.                                       *)
(***************************************************************************)
Derived(t, mine) ==
    /\ ~(mine = None /\ t.asked = None)
    /\ t.action = ActionFor(mine, t.asked)
    /\ t.emoji = IF t.action = "REMOVE" THEN mine ELSE t.asked

SureInv == \A p \in Procs : p \in sure => Derived(tap[p], phone[tap[p].msg].mine)

\* What is derived from the user's present reaction does what was asked.
LEMMA DerivedToggles ==
    ASSUME NEW t, NEW mine, Derived(t, mine)
    PROVE  Outcomes(mine, t.action, t.emoji) = {Toggled(mine, t.asked)}
<1>1. CASE t.asked = None \/ t.asked = mine
  <2>1. t.action = "REMOVE" /\ t.emoji = mine
    BY <1>1 DEF Derived, ActionFor
  <2> QED
    BY <1>1, <2>1 DEF Outcomes, Toggled
<1>2. CASE t.asked # None /\ t.asked # mine /\ mine # None
  <2>1. t.action = "SWITCH" /\ t.emoji = t.asked
    BY <1>2 DEF Derived, ActionFor
  <2> QED
    BY <1>2, <2>1 DEF Outcomes, Toggled
<1>3. CASE t.asked # None /\ t.asked # mine /\ mine = None
  <2>1. t.action = "ADD" /\ t.emoji = t.asked
    BY <1>3 DEF Derived, ActionFor
  <2> QED
    BY <1>3, <2>1 DEF Outcomes, Toggled
<1> QED
  BY <1>1, <1>2, <1>3

\* A change on the phone leaves no tap on that message sure.
LEMMA ChangesSure ==
    ASSUME RecordTypes, SureInv, NEW m \in Msgs, NEW e \in Entry, Changes(m, e),
           NEW q \in Procs, q \in sure', tap'[q] = tap[q]
    PROVE  q \in sure /\ tap[q].msg # m /\ Derived(tap'[q], phone'[tap'[q].msg].mine)
<1>1. q \in sure /\ tap[q].msg # m /\ phone' = [phone EXCEPT ![m] = e]
  BY DEF Changes
<1>2. phone'[tap[q].msg] = phone[tap[q].msg]
  BY <1>1 DEF RecordTypes
<1> QED
  BY <1>1, <1>2 DEF SureInv

\* No step makes a sure tap wrong: it is derived from a record that agrees.
LEMMA SureStep == BoundInv /\ AgreeInv /\ SureInv /\ [Next]_vars => SureInv'
<1> SUFFICES ASSUME BoundInv, AgreeInv, SureInv, [Next]_vars PROVE SureInv'
  OBVIOUS
<1> USE DEF recordVars, phoneVars, histVars, Starts
<1>1. RecordTypes
  BY DEF BoundInv
<1>2. ASSUME UNCHANGED <<tap, phone, sure>> PROVE SureInv'
  BY <1>2 DEF SureInv
<1>3. ASSUME NEW m \in Msgs, NEW e \in Entry, PhoneChanges(m, e) PROVE SureInv'
  <2>1. Changes(m, e) /\ tap' = tap
    BY <1>3 DEF PhoneChanges
  <2>2. ASSUME NEW q \in Procs, q \in sure' PROVE Derived(tap'[q], phone'[tap'[q].msg].mine)
    BY <1>1, <2>1, <2>2, ChangesSure
  <2> QED
    BY <2>2 DEF SureInv
<1>4. CASE HandleMessage \/ EventLost \/ ListChanges
  BY <1>2, <1>4 DEF HandleMessage, EventLost, ListChanges
<1>5. ASSUME NEW p \in Procs, Messages(p) \/ RecordPage(p) \/ MessagesReturns(p) PROVE SureInv'
  BY <1>2, <1>5 DEF Messages, RecordPage, MessagesReturns
<1>6. ASSUME NEW p \in Procs, NEW m \in Msgs, NEW asked \in Mine, React(p, m, asked)
      PROVE  SureInv'
  <2> DEFINE t == [msg |-> m, asked |-> asked, action |-> ActionFor(MyReactionOn(m), asked),
                   emoji |-> IF ActionFor(MyReactionOn(m), asked) = "REMOVE"
                             THEN MyReactionOn(m) ELSE asked]
  <2>1. /\ tap' = [tap EXCEPT ![p] = t] /\ tap \in [Procs -> Tap] /\ phone' = phone
        /\ ~(MyReactionOn(m) = None /\ asked = None)
        /\ sure' = IF known /\ m \notin blurred /\ seen[m] = ver[m]
                   THEN sure \cup {p} ELSE sure \ {p}
    BY <1>1, <1>6 DEF React, RecordTypes
  <2>2. ASSUME p \in sure' PROVE Derived(t, phone[m].mine)
    <3>1. known /\ m \notin blurred /\ seen[m] = ver[m]
      BY <2>1, <2>2
    <3>2. MyReactionOn(m) = phone[m].mine
      BY <3>1 DEF MyReactionOn, AgreeInv, RecordsAgreeUnlessBlurred
    <3> QED
      BY <2>1, <3>2 DEF Derived
  <2>3. t.msg = m
    OBVIOUS
  <2> HIDE DEF t
  <2>4. ASSUME NEW q \in Procs, q \in sure' PROVE Derived(tap'[q], phone'[tap'[q].msg].mine)
    <3>1. CASE q = p
      <4>1. tap'[q] = t
        BY <2>1, <3>1
      <4> QED
        BY <2>1, <2>2, <2>3, <2>4, <3>1, <4>1
    <3>2. CASE q # p
      <4>1. tap'[q] = tap[q] /\ q \in sure
        BY <2>1, <2>4, <3>2
      <4> QED
        BY <2>1, <4>1 DEF SureInv
    <3> QED
      BY <3>1, <3>2
  <2> QED
    BY <2>4 DEF SureInv
<1>7. ASSUME NEW p \in Procs, SendReaction(p) PROVE SureInv'
  <2>1. tap \in [Procs -> Tap] /\ tap' = [tap EXCEPT ![p] = NoTap]
    BY <1>1, <1>7 DEF SendReaction, RecordTypes
  <2>2. CASE phone' = phone /\ sure' = sure \ {p}
    BY <2>1, <2>2 DEF SureInv
  <2>3. ASSUME NEW e \in Entry, Changes(tap[p].msg, e) PROVE SureInv'
    <3>1. tap[p].msg \in Msgs
      BY <2>1 DEF Tap
    <3>2. ASSUME NEW q \in Procs, q \in sure' PROVE Derived(tap'[q], phone'[tap'[q].msg].mine)
      <4>1. q # p
        BY <2>3, <3>2 DEF Changes
      <4>2. tap'[q] = tap[q]
        BY <2>1, <4>1
      <4> QED
        BY <1>1, <2>3, <3>1, <3>2, <4>2, ChangesSure
    <3> QED
      BY <3>2 DEF SureInv
  <2>4. \/ phone' = phone /\ sure' = sure \ {p}
        \/ \E e \in Entry : Changes(tap[p].msg, e)
    BY <1>1, <1>7, SentReaction DEF SendReaction
  <2> QED
    BY <2>2, <2>3, <2>4
<1>8. ASSUME NEW p \in Procs, ReactFails(p) PROVE SureInv'
  <2>1. /\ tap' = [tap EXCEPT ![p] = NoTap] /\ sure' = sure \ {p} /\ phone' = phone
        /\ tap \in [Procs -> Tap]
    BY <1>1, <1>8 DEF ReactFails, RecordTypes
  <2> QED
    BY <2>1 DEF SureInv
<1>9. CASE UNCHANGED vars
  BY <1>2, <1>9 DEF vars
<1> QED
  BY <1>3, <1>4, <1>5, <1>6, <1>7, <1>8, <1>9 DEF Next

\* A tap does what the user asked whenever its record was good and the message did not
\* change before the phone applied it.
THEOREM TapsDoWhatWasAsked == Spec => []TapsToggle
<1>1. Init => SureInv
  BY DEF Init, SureInv
<1>2. SureInv => TapsToggle
  BY DerivedToggles DEF SureInv, TapsToggle
<1> QED
  BY <1>1, <1>2, BoundInit, BoundStep, AgreeInit, AgreeStep, SureStep, PTL DEF Spec

(***************************************************************************)
(* The types of the rest: the goroutines, the history and the counts.      *)
(***************************************************************************)
RestTypes ==
    /\ known \in BOOLEAN
    /\ pc \in [Procs -> {"idle", "send", "page"}]
    /\ blurred \subseteq Msgs
    /\ sure \subseteq Procs
    /\ changes \in 0..MaxChanges
    /\ calls \in 0..MaxCalls

\* What is recorded, and what is trimmed for it, are messages.
LEMMA BlurredTypes ==
    ASSUME RecordTypes, RestTypes, NEW item \in Item, Record(item)
    PROVE  blurred' \subseteq Msgs
<1> DEFINE o == Queued(item.msg, item.entry)
<1>1. item.msg \in Msgs /\ reactionOrder \in Seq(Msgs) /\ blurred \subseteq Msgs
  BY DEF Item, RecordTypes, RestTypes
<1>2. o \in Seq(Msgs)
  BY <1>1, AppendProperties DEF Queued
<1>3. blurred' \subseteq Trimmed(o) \cup blurred \cup {item.msg}
  BY DEF Record
<1> HIDE DEF o
<1>4. Excess(o) \in Nat /\ Excess(o) <= Len(o)
  BY <1>2, LimitAssumption, LenProperties DEF Excess
<1>5. Trimmed(o) \subseteq Msgs
  <2>1. \A i \in 1..Excess(o) : i \in 1..Len(o)
    BY <1>2, <1>4, LenProperties
  <2> QED
    BY <1>2, <2>1, ElementOfSeq DEF Trimmed
<1> QED
  BY <1>1, <1>3, <1>5

\* No step spoils them.
LEMMA RestStep == RecordTypes /\ RestTypes /\ [Next]_vars => RestTypes'
<1> SUFFICES ASSUME RecordTypes, RestTypes, [Next]_vars PROVE RestTypes'
  OBVIOUS
<1> USE DEF recordVars, phoneVars, histVars, Starts
<1>1. \A m \in Msgs, e \in Entry : Changes(m, e) => sure' \subseteq Procs
  BY DEF Changes, RestTypes
<1>2. ASSUME NEW m \in Msgs, NEW e \in Entry, PhoneChanges(m, e) PROVE RestTypes'
  BY <1>1, <1>2, ReactionBoundsAssumption DEF PhoneChanges, RestTypes
<1>3. CASE HandleMessage
  <2>1. Head(stream) \in Item /\ Record(Head(stream))
    BY <1>3, HeadAndTail DEF HandleMessage, RecordTypes
  <2> QED
    BY <1>3, <2>1, BlurredTypes DEF HandleMessage, RestTypes
<1>4. CASE EventLost
  <2>1. Head(stream).msg \in Msgs
    BY <1>4, HeadAndTail DEF EventLost, RecordTypes, Item
  <2> QED
    BY <1>4, <2>1 DEF EventLost, RestTypes
<1>5. CASE ListChanges
  BY <1>5 DEF ListChanges, RestTypes
<1>6. ASSUME NEW p \in Procs, Messages(p) \/ MessagesReturns(p) PROVE RestTypes'
  BY <1>6, ReactionBoundsAssumption DEF Messages, MessagesReturns, RestTypes
<1>7. ASSUME NEW p \in Procs, RecordPage(p) PROVE RestTypes'
  <2>1. Head(page[p]) \in Item /\ Record(Head(page[p]))
    BY <1>7, HeadAndTail DEF RecordPage, RecordTypes
  <2> QED
    BY <1>7, <2>1, BlurredTypes DEF RecordPage, RestTypes
<1>8. ASSUME NEW p \in Procs, NEW m \in Msgs, NEW asked \in Mine, React(p, m, asked)
      PROVE  RestTypes'
  BY <1>8, ReactionBoundsAssumption DEF React, RestTypes
<1>9. ASSUME NEW p \in Procs, SendReaction(p) PROVE RestTypes'
  <2>1. sure' \subseteq Procs
    BY <1>1, <1>9, SentReaction DEF RestTypes
  <2> QED
    BY <1>9, <2>1 DEF SendReaction, RestTypes
<1>10. ASSUME NEW p \in Procs, ReactFails(p) PROVE RestTypes'
  BY <1>10 DEF ReactFails, RestTypes
<1>11. CASE UNCHANGED vars
  BY <1>11 DEF vars, RestTypes
<1> QED
  BY <1>2, <1>3, <1>4, <1>5, <1>6, <1>7, <1>8, <1>9, <1>10, <1>11 DEF Next

\* Type correctness of Reactions: only messages are recorded, queued and trimmed.
THEOREM TypeCorrect == Spec => []TypeOK
<1>1. Init => RestTypes
  BY ReactionBoundsAssumption DEF Init, RestTypes
<1>2. BoundInv /\ AgreeInv /\ RestTypes => TypeOK
  BY DEF BoundInv, RecordTypes, AgreeInv, RestTypes, TypeOK
<1>3. BoundInv => RecordTypes
  BY DEF BoundInv
<1> QED
  BY <1>1, <1>2, <1>3, BoundInit, BoundStep, AgreeInit, AgreeStep, RestStep, PTL DEF Spec
=============================================================================
