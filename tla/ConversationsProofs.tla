------------------------ MODULE ConversationsProofs ------------------------
(***************************************************************************)
(* Theorems about Conversations, for any conversations, goroutines,        *)
(* sources, limit and bounds: the pictures, the order that is served, and  *)
(* the agreement of the list with the phone's.                             *)
(***************************************************************************)
EXTENDS Conversations, FiniteSetTheorems, TLAPS

(***************************************************************************)
(* One request. A claim is never taken back, and only the goroutine that   *)
(* made it asks.                                                           *)
(***************************************************************************)
ClaimInv ==
    /\ asks \in [Convs -> Nat] /\ DOMAIN fpc = Convs
    /\ \A c \in Convs :
          /\ asks[c] <= 1
          /\ fpc[c] = "fetch" => asks[c] = 0 /\ c \in tried
          /\ c \notin tried => asks[c] = 0

\* Only the fetchers ask and claim.
LEMMA ClaimKept ==
    ASSUME ClaimInv, UNCHANGED <<asks, fpc, tried>>
    PROVE  ClaimInv'
BY DEF ClaimInv

\* No step of a fetcher makes a conversation's picture asked for twice.
LEMMA ClaimStep == ClaimInv /\ [Next]_vars => ClaimInv'
<1> SUFFICES ASSUME ClaimInv, [Next]_vars PROVE ClaimInv'
  OBVIOUS
<1> USE DEF listVars, pictVars, callVars, phoneVars, histVars, boundVars, listAndCalls, FGoto
<1>1. ASSUME NEW c \in Convs, AvatarClaim(c) PROVE ClaimInv'
  BY <1>1 DEF AvatarClaim, Tried, ClaimInv
<1>2. ASSUME NEW c \in Convs, AvatarArrives(c) PROVE ClaimInv'
  BY <1>2 DEF AvatarArrives, ClaimInv
<1>3. ASSUME NEW c \in Convs, AvatarFails(c) PROVE ClaimInv'
  BY <1>3 DEF AvatarFails, ClaimInv
<1>4. ASSUME NEW c \in Convs, AvatarStore(c) \/ AvatarShow(c) PROVE ClaimInv'
  BY <1>4 DEF AvatarStore, AvatarShow, ClaimInv
<1>5. ASSUME NEW c \in Convs, NEW mine \in BOOLEAN, PhoneMessage(c, mine) PROVE ClaimInv'
  BY <1>5, ClaimKept DEF PhoneMessage
<1>6. ASSUME NEW c \in Convs, PhonePins(c) \/ PhoneArchives(c) \/ PhoneSendsConversation(c)
      PROVE  ClaimInv'
  BY <1>6, ClaimKept DEF PhonePins, PhoneArchives, PhoneSendsConversation
<1>u. ASSUME NEW c \in Convs, NEW t, NEW mine, PhoneUpdates(c, t, mine) PROVE ClaimInv'
  BY <1>u, ClaimKept DEF PhoneUpdates
<1>7. CASE HandleEvent \/ Drop
  BY <1>7, ClaimKept DEF HandleEvent, Drop
<1>8. ASSUME NEW p \in Procs, Connects(p) \/ Resumes(p) \/ Refresh(p) \/ Recover(p) \/ Unpair(p)
      PROVE  ClaimInv'
  BY <1>8, ClaimKept DEF Connects, Resumes, Refresh, Recover, Unpair
<1>9. ASSUME NEW p \in Procs, NEW c \in Convs, MarkRead(p, c) PROVE ClaimInv'
  BY <1>9, ClaimKept DEF MarkRead
<1>10. ASSUME NEW p \in Procs, Step(p) PROVE ClaimInv'
  <2>1. CASE RefreshReplace(p) \/ ReadyReplace(p)
    BY <2>1, ClaimKept DEF RefreshReplace, ReadyReplace, Replace
  <2>2. CASE InitialSync(p) \/ ListConversations(p) \/ ListFails(p) \/ ReadyState(p)
    BY <2>2, ClaimKept DEF InitialSync, ListConversations, ListFails, ReadyState
  <2>3. CASE PhoneMarks(p) \/ MarkFails(p) \/ ClearUnread(p)
    BY <2>3, ClaimKept DEF PhoneMarks, MarkFails, ClearUnread
  <2>4. CASE UnpairClear(p) \/ UnpairFails(p) \/ UnpairState(p)
    BY <2>4, ClaimKept DEF UnpairClear, UnpairFails, UnpairState
  <2> QED
    BY <1>10, <2>1, <2>2, <2>3, <2>4 DEF Step
<1>11. CASE UNCHANGED vars
  BY <1>11, ClaimKept DEF vars
<1> QED
  BY <1>1, <1>2, <1>3, <1>4, <1>5, <1>6, <1>u, <1>7, <1>8, <1>9, <1>10, <1>11 DEF Next, Fetch

\* However many snapshots start fetchers, a picture is asked for once.
THEOREM OneRequestPerPicture == Spec => []PictureAskedOnce
<1>1. Init => ClaimInv
  BY DEF Init, ClaimInv
<1>2. ClaimInv => PictureAskedOnce
  BY DEF ClaimInv, PictureAskedOnce
<1> QED
  BY <1>1, <1>2, ClaimStep, PTL DEF Spec

(***************************************************************************)
(* Stored pictures. Whoever writes a conversation copies the store's       *)
(* answer or leaves the picture alone.                                     *)
(***************************************************************************)
PictureInv ==
    /\ DOMAIN convs = Convs /\ DOMAIN fpc = Convs
    /\ \A c \in Convs : convs[c] # Absent => "picture" \in DOMAIN convs[c]
    /\ StoredPicturesShow

\* Conversations may go, and those that stay keep their picture.
LEMMA PictureKept ==
    ASSUME PictureInv, UNCHANGED <<paths, fpc>>, DOMAIN convs' = Convs,
           \A c \in Convs : convs'[c] # Absent =>
              /\ "picture" \in DOMAIN convs'[c]
              /\ \/ convs'[c].picture = (c \in paths)
                 \/ convs[c] # Absent /\ convs'[c].picture = convs[c].picture
    PROVE  PictureInv'
BY DEF PictureInv, StoredPicturesShow, Held

\* A conversation that is converted shows the picture the store has.
LEMMA ConvertedShows ==
    ASSUME NEW w, NEW c
    PROVE  "picture" \in DOMAIN Converted(w, c) /\ Converted(w, c).picture = (c \in paths)
BY DEF Converted

\* No event, snapshot or mark takes a stored picture off its conversation.
LEMMA PictureStep == PictureInv /\ [Next]_vars => PictureInv'
<1> SUFFICES ASSUME PictureInv, [Next]_vars PROVE PictureInv'
  OBVIOUS
<1> USE DEF listVars, pictVars, callVars, phoneVars, histVars, boundVars, listAndCalls, FGoto
<1>1. /\ DOMAIN convs = Convs /\ DOMAIN fpc = Convs
      /\ \A c \in Convs : convs[c] # Absent => "picture" \in DOMAIN convs[c]
  BY DEF PictureInv
<1>2. ASSUME UNCHANGED <<convs, paths, fpc>> PROVE PictureInv'
  BY <1>2 DEF PictureInv, StoredPicturesShow, Held
<1>3. ASSUME NEW c \in Convs, AvatarClaim(c) \/ AvatarArrives(c) \/ AvatarFails(c)
      PROVE  PictureInv'
  <2>1. /\ UNCHANGED <<convs, paths>> /\ DOMAIN fpc' = Convs
        /\ \A d \in Convs : fpc[d] = "show" => fpc'[d] = "show"
    BY <1>1, <1>3 DEF AvatarClaim, AvatarArrives, AvatarFails
  <2> QED
    BY <2>1 DEF PictureInv, StoredPicturesShow, Held
<1>4. ASSUME NEW c \in Convs, AvatarStore(c) PROVE PictureInv'
  <2>1. /\ convs' = convs /\ paths' = paths \cup {c} /\ DOMAIN fpc' = Convs /\ fpc'[c] = "show"
        /\ \A d \in Convs : fpc[d] = "show" => fpc'[d] = "show"
    BY <1>1, <1>4 DEF AvatarStore
  <2> QED
    BY <2>1 DEF PictureInv, StoredPicturesShow, Held
<1>5. ASSUME NEW c \in Convs, AvatarShow(c) PROVE PictureInv'
  <2>1. /\ convs' = Pictures(convs, c) /\ paths' = paths /\ DOMAIN fpc' = Convs
        /\ \A d \in Convs : d # c => fpc'[d] = fpc[d]
    BY <1>1, <1>5 DEF AvatarShow
  <2>2. CASE convs[c] = Absent
    BY <2>1, <2>2 DEF PictureInv, StoredPicturesShow, Held, Pictures
  <2>3. CASE convs[c] # Absent
    <3>1. convs' = [convs EXCEPT ![c] = [convs[c] EXCEPT !.picture = TRUE]]
      BY <2>1, <2>3 DEF Pictures
    <3>2. /\ DOMAIN convs' = Convs /\ "picture" \in DOMAIN convs'[c] /\ convs'[c].picture = TRUE
          /\ \A d \in Convs : d # c => convs'[d] = convs[d]
      BY <1>1, <2>3, <3>1
    <3> QED
      BY <2>1, <3>2 DEF PictureInv, StoredPicturesShow, Held
  <2> QED
    BY <2>2, <2>3
<1>6. CASE HandleEvent
  <2> DEFINE e == Head(stream)
  <2>1. /\ UNCHANGED <<paths, fpc>>
        /\ \/ Upsert(e.conv, e.news)
           \/ Touch(e.conv, e.time, e.mine, TRUE) \/ Touch(e.conv, e.at, e.mine, FALSE)
    BY <1>6 DEF HandleEvent
  <2> HIDE DEF e
  <2>2. CASE Upsert(e.conv, e.news)
    <3>1. convs' = [convs EXCEPT ![e.conv] = Converted(e.news, e.conv)]
      BY <2>2 DEF Upsert, Accepts
    <3>2. ASSUME NEW d \in Convs, convs'[d] # Absent
          PROVE  /\ "picture" \in DOMAIN convs'[d]
                 /\ \/ convs'[d].picture = (d \in paths)
                    \/ convs[d] # Absent /\ convs'[d].picture = convs[d].picture
      <4>1. CASE d = e.conv
        BY <1>1, <3>1, <4>1, ConvertedShows
      <4>2. CASE d # e.conv
        BY <1>1, <3>1, <3>2, <4>2
      <4> QED
        BY <4>1, <4>2
    <3>3. DOMAIN convs' = Convs
      BY <1>1, <3>1
    <3> QED
      BY <2>1, <3>2, <3>3, PictureKept
  <2>3. ASSUME NEW t, NEW u, Touch(e.conv, t, e.mine, u) PROVE PictureInv'
    <3>1. CASE convs' = convs
      BY <1>2, <2>1, <3>1
    <3>2. CASE convs' # convs
      <4>1. convs[e.conv] # Absent
        BY <2>3, <3>2 DEF Touch
      <4>2. convs' = [convs EXCEPT ![e.conv].time = t, ![e.conv].unread = @ \/ ~e.mine]
        BY <2>3, <3>2 DEF Touch
      <4>3. ASSUME NEW d \in Convs, convs'[d] # Absent
            PROVE  /\ "picture" \in DOMAIN convs'[d]
                   /\ convs[d] # Absent /\ convs'[d].picture = convs[d].picture
        <5>1. CASE d = e.conv
          BY <1>1, <4>1, <4>2, <5>1
        <5>2. CASE d # e.conv
          BY <1>1, <4>2, <4>3, <5>2
        <5> QED
          BY <5>1, <5>2
      <4>4. DOMAIN convs' = Convs
        BY <1>1, <4>2
      <4> QED
        BY <2>1, <4>3, <4>4, PictureKept
    <3> QED
      BY <3>1, <3>2
  <2> QED
    BY <2>1, <2>2, <2>3
<1>7. ASSUME NEW p \in Procs, NEW label, Replace(p, label) PROVE PictureInv'
  <2>1. /\ UNCHANGED <<paths, fpc>>
        /\ convs' = [c \in Convs |-> IF snap[p].list[c] = Absent THEN Absent
                                     ELSE Converted(snap[p].list[c], c)]
    BY <1>7 DEF Replace
  <2>2. ASSUME NEW d \in Convs, convs'[d] # Absent
        PROVE  "picture" \in DOMAIN convs'[d] /\ convs'[d].picture = (d \in paths)
    BY <2>1, <2>2, ConvertedShows
  <2>3. DOMAIN convs' = Convs
    BY <2>1
  <2> QED
    BY <2>1, <2>2, <2>3, PictureKept
<1>8. ASSUME NEW p \in Procs, ClearUnread(p) PROVE PictureInv'
  <2>1. UNCHANGED <<paths, fpc>>
    BY <1>8 DEF ClearUnread
  <2>2. CASE convs[target[p]] = Absent
    BY <1>2, <1>8, <2>1, <2>2 DEF ClearUnread
  <2>3. CASE convs[target[p]] # Absent
    <3>1. convs' = [convs EXCEPT ![target[p]] = [convs[target[p]] EXCEPT !.unread = FALSE]]
      BY <1>8, <2>3 DEF ClearUnread
    <3>2. ASSUME NEW d \in Convs, convs'[d] # Absent
          PROVE  /\ "picture" \in DOMAIN convs'[d]
                 /\ convs[d] # Absent /\ convs'[d].picture = convs[d].picture
      <4>1. CASE d = target[p]
        <5>1. convs'[d] = [convs[d] EXCEPT !.unread = FALSE]
          BY <1>1, <3>1, <4>1
        <5> QED
          BY <1>1, <2>3, <4>1, <5>1
      <4>2. CASE d # target[p]
        BY <1>1, <3>1, <3>2, <4>2
      <4> QED
        BY <4>1, <4>2
    <3>3. DOMAIN convs' = Convs
      BY <1>1, <3>1
    <3> QED
      BY <2>1, <3>2, <3>3, PictureKept
  <2> QED
    BY <2>2, <2>3
<1>9. ASSUME NEW p \in Procs, UnpairClear(p) PROVE PictureInv'
  <2>1. UNCHANGED <<paths, fpc>> /\ convs' = [c \in Convs |-> Absent]
    BY <1>9 DEF UnpairClear, Nothing
  <2> QED
    BY <1>1, <2>1 DEF PictureInv, StoredPicturesShow, Held
<1>10. ASSUME NEW c \in Convs, NEW mine \in BOOLEAN, PhoneMessage(c, mine) PROVE PictureInv'
  BY <1>2, <1>10 DEF PhoneMessage
<1>11. ASSUME NEW c \in Convs, PhonePins(c) \/ PhoneArchives(c) \/ PhoneSendsConversation(c)
       PROVE  PictureInv'
  BY <1>2, <1>11 DEF PhonePins, PhoneArchives, PhoneSendsConversation
<1>u. ASSUME NEW c \in Convs, NEW t, NEW mine, PhoneUpdates(c, t, mine) PROVE PictureInv'
  BY <1>2, <1>u DEF PhoneUpdates
<1>12. CASE Drop
  BY <1>2, <1>12 DEF Drop
<1>13. ASSUME NEW p \in Procs, Connects(p) \/ Resumes(p) \/ Refresh(p) \/ Recover(p) \/ Unpair(p)
       PROVE  PictureInv'
  BY <1>2, <1>13 DEF Connects, Resumes, Refresh, Recover, Unpair
<1>14. ASSUME NEW p \in Procs, NEW c \in Convs, MarkRead(p, c) PROVE PictureInv'
  BY <1>2, <1>14 DEF MarkRead
<1>15. ASSUME NEW p \in Procs, Step(p) PROVE PictureInv'
  <2>1. CASE RefreshReplace(p) \/ ReadyReplace(p)
    BY <1>7, <2>1 DEF RefreshReplace, ReadyReplace
  <2>2. CASE InitialSync(p) \/ ListConversations(p) \/ ListFails(p) \/ ReadyState(p)
    BY <1>2, <2>2 DEF InitialSync, ListConversations, ListFails, ReadyState
  <2>3. CASE PhoneMarks(p) \/ MarkFails(p)
    BY <1>2, <2>3 DEF PhoneMarks, MarkFails
  <2>4. CASE UnpairFails(p) \/ UnpairState(p)
    BY <1>2, <2>4 DEF UnpairFails, UnpairState
  <2> QED
    BY <1>8, <1>9, <1>15, <2>1, <2>2, <2>3, <2>4 DEF Step
<1>16. CASE UNCHANGED vars
  BY <1>2, <1>16 DEF vars
<1> QED
  BY <1>3, <1>4, <1>5, <1>6, <1>10, <1>11, <1>u, <1>12, <1>13, <1>14, <1>15, <1>16 DEF Next, Fetch

\* A stored picture is on its conversation, or about to be put there.
THEOREM PicturesAreNotLost == Spec => []StoredPicturesShow
<1>1. Init => PictureInv
  BY DEF Init, Nothing, PictureInv, StoredPicturesShow
<1>2. PictureInv => StoredPicturesShow
  BY DEF PictureInv
<1> QED
  BY <1>1, <1>2, PictureStep, PTL DEF Spec


-----------------------------------------------------------------------------
(* The served order. The comparator is a strict total order, so that the    *)
(* number of those before a conversation is its place.                     *)

\* What the comparator reads is there to be read.
Keyed(cs) == \A c \in Held(cs) : cs[c].time \in Nat /\ cs[c].pinned \in BOOLEAN

\* The comparator is a strict order: none comes before itself, ...
LEMMA BeforeIrreflexive ==
    ASSUME NEW cs, Keyed(cs), NEW a \in Held(cs)
    PROVE  ~Before(cs, a, a)
<1>1. a \in Nat
  BY ConvsAssumption DEF Held
<1> QED
  BY <1>1 DEF Keyed, Before

\* ... it is transitive, ...
LEMMA BeforeTransitive ==
    ASSUME NEW cs, Keyed(cs), NEW a \in Held(cs), NEW b \in Held(cs), NEW c \in Held(cs),
           Before(cs, a, b), Before(cs, b, c)
    PROVE  Before(cs, a, c)
<1>1. a \in Nat /\ b \in Nat /\ c \in Nat
  BY ConvsAssumption DEF Held
<1> QED
  BY <1>1 DEF Keyed, Before

\* ... and ids leave no two conversations equal.
LEMMA BeforeTotal ==
    ASSUME NEW cs, Keyed(cs), NEW a \in Held(cs), NEW b \in Held(cs), a # b
    PROVE  Before(cs, a, b) \/ Before(cs, b, a)
<1>1. a \in Nat /\ b \in Nat
  BY ConvsAssumption DEF Held
<1> QED
  BY <1>1 DEF Keyed, Before

\* Finitely many conversations are held.
LEMMA HeldFinite ==
    ASSUME NEW cs
    PROVE  IsFiniteSet(Held(cs)) /\ Cardinality(Held(cs)) \in Nat
BY ConvsAssumption, FS_Subset, FS_CardinalityType DEF Held

\* The others come before a conversation at most.
LEMMA AheadBound ==
    ASSUME NEW cs, Keyed(cs), NEW c \in Held(cs)
    PROVE  Ahead(cs, c) \in 0 .. Cardinality(Held(cs)) - 1
<1> DEFINE A == {d \in Held(cs) : Before(cs, d, c)}
<1>1. c \notin A
  BY BeforeIrreflexive
<1>2. A \subseteq Held(cs) /\ A # Held(cs)
  BY <1>1
<1>3. IsFiniteSet(A) /\ Cardinality(A) <= Cardinality(Held(cs))
      /\ Cardinality(A) # Cardinality(Held(cs))
  BY <1>2, HeldFinite, FS_Subset
<1>4. Cardinality(A) \in Nat /\ Cardinality(Held(cs)) \in Nat
  BY <1>3, HeldFinite, FS_CardinalityType
<1>5. Ahead(cs, c) = Cardinality(A)
  BY DEF Ahead
<1> HIDE DEF A
<1> QED
  BY <1>3, <1>4, <1>5

\* Who comes before another has fewer before it, ...
LEMMA AheadMonotone ==
    ASSUME NEW cs, Keyed(cs), NEW a \in Held(cs), NEW b \in Held(cs), Before(cs, a, b)
    PROVE  Ahead(cs, a) < Ahead(cs, b)
<1> DEFINE A == {d \in Held(cs) : Before(cs, d, a)}
           B == {d \in Held(cs) : Before(cs, d, b)}
<1>1. A \subseteq B
  BY BeforeTransitive
<1>2. a \in B /\ a \notin A
  BY BeforeIrreflexive
<1>3. IsFiniteSet(B)
  BY HeldFinite, FS_Subset
<1>4. Cardinality(A) <= Cardinality(B) /\ Cardinality(A) # Cardinality(B)
  BY <1>1, <1>2, <1>3, FS_Subset
<1>5. Cardinality(A) \in Nat /\ Cardinality(B) \in Nat
  BY <1>1, <1>3, FS_Subset, FS_CardinalityType
<1>6. Ahead(cs, a) = Cardinality(A) /\ Ahead(cs, b) = Cardinality(B)
  BY DEF Ahead
<1> HIDE DEF A, B
<1> QED
  BY <1>4, <1>5, <1>6

\* ... and who has fewer before it comes before the other, ...
LEMMA AheadOrders ==
    ASSUME NEW cs, Keyed(cs), NEW a \in Held(cs), NEW b \in Held(cs), Ahead(cs, a) < Ahead(cs, b)
    PROVE  Before(cs, a, b)
<1>0. Ahead(cs, a) \in Nat /\ Ahead(cs, b) \in Nat
  BY AheadBound, HeldFinite
<1>1. a # b
  BY <1>0
<1>2. CASE Before(cs, b, a)
  BY <1>0, <1>2, AheadMonotone
<1> QED
  BY <1>1, <1>2, BeforeTotal

\* ... so that no two conversations have the same place.
LEMMA AheadInjective ==
    ASSUME NEW cs, Keyed(cs), NEW a \in Held(cs), NEW b \in Held(cs), Ahead(cs, a) = Ahead(cs, b)
    PROVE  a = b
<1>0. Ahead(cs, a) \in Nat /\ Ahead(cs, b) \in Nat
  BY AheadBound, HeldFinite
<1>1. ~Before(cs, a, b) /\ ~Before(cs, b, a)
  BY <1>0, AheadMonotone
<1> QED
  BY <1>1, BeforeTotal

\* As many places as conversations: every place is taken.
LEMMA EveryPlaceTaken ==
    ASSUME NEW cs, Keyed(cs), NEW k \in 0 .. Cardinality(Held(cs)) - 1
    PROVE  \E c \in Held(cs) : Ahead(cs, c) = k
<1> DEFINE H == Held(cs)
           P == 0 .. Cardinality(H) - 1
           f == [c \in H |-> Ahead(cs, c)]
<1>1. f \in Injection(H, P)
  <2>1. f \in [H -> P]
    BY AheadBound
  <2>2. \A a, b \in H : f[a] = f[b] => a = b
    BY AheadInjective
  <2> QED
    BY <2>1, <2>2 DEF IsInjective, Injection
<1>2. IsFiniteSet(P) /\ Cardinality(P) = Cardinality(H)
  BY HeldFinite, FS_Interval
<1>3. f \in Surjection(H, P)
  BY <1>1, <1>2, FS_Injection
<1> QED
  BY <1>3 DEF Surjection

\* All that are held are served, or as many as the limit allows.
LEMMA ServedBound ==
    ASSUME NEW cs
    PROVE  /\ Served(cs) \in Nat /\ Served(cs) <= Cardinality(Held(cs))
           /\ Served(cs) <= ConvListLimit
           /\ Served(cs) = ConvListLimit \/ Served(cs) = Cardinality(Held(cs))
BY HeldFinite, LimitAssumption DEF Served

\* The i-th that is served is the one that i - 1 come before.
LEMMA ReorderedPlaces ==
    ASSUME NEW cs, Keyed(cs)
    PROVE  /\ DOMAIN Reordered(cs) = 1 .. Served(cs)
           /\ Len(Reordered(cs)) = Served(cs)
           /\ \A i \in 1 .. Served(cs) :
                 Reordered(cs)[i] \in Held(cs) /\ Ahead(cs, Reordered(cs)[i]) = i - 1
<1>1. DOMAIN Reordered(cs) = 1 .. Served(cs)
  BY DEF Reordered
<1>2. ASSUME NEW i \in 1 .. Served(cs)
      PROVE  Reordered(cs)[i] \in Held(cs) /\ Ahead(cs, Reordered(cs)[i]) = i - 1
  <2>1. i - 1 \in 0 .. Cardinality(Held(cs)) - 1
    BY <1>2, ServedBound, HeldFinite
  <2>2. \E c \in Held(cs) : Ahead(cs, c) = i - 1
    BY <2>1, EveryPlaceTaken
  <2>3. Reordered(cs)[i] = CHOOSE c \in Held(cs) : Ahead(cs, c) = i - 1
    BY <1>2 DEF Reordered
  <2> QED
    BY <2>2, <2>3
<1>3. Len(Reordered(cs)) = Served(cs)
  <2>1. Reordered(cs) \in Seq(Held(cs))
    BY <1>1, <1>2, ServedBound DEF Reordered
  <2> QED
    BY <1>1, <2>1, ServedBound
<1> QED
  BY <1>1, <1>2, <1>3

\* Those that fewer than the limit come before are served.
Top(cs) == {c \in Held(cs) : Ahead(cs, c) < ConvListLimit}

\* Sorting and cutting serves those, and no others.
LEMMA ReorderedServes ==
    ASSUME NEW cs, Keyed(cs)
    PROVE  ToSet(Reordered(cs)) = Top(cs)
<1>1. ToSet(Reordered(cs)) = {Reordered(cs)[i] : i \in 1 .. Served(cs)}
  BY ReorderedPlaces DEF ToSet
<1>2. ASSUME NEW i \in 1 .. Served(cs) PROVE Reordered(cs)[i] \in Top(cs)
  <2>1. Reordered(cs)[i] \in Held(cs) /\ Ahead(cs, Reordered(cs)[i]) = i - 1
    BY ReorderedPlaces
  <2>2. i - 1 < ConvListLimit
    BY ServedBound, LimitAssumption
  <2> QED
    BY <2>1, <2>2 DEF Top
<1>3. ASSUME NEW c \in Top(cs) PROVE c \in ToSet(Reordered(cs))
  <2>1. c \in Held(cs) /\ Ahead(cs, c) < ConvListLimit
    BY DEF Top
  <2>2. Ahead(cs, c) \in 0 .. Cardinality(Held(cs)) - 1
    BY <2>1, AheadBound
  <2> DEFINE i == Ahead(cs, c) + 1
  <2>3. i \in 1 .. Served(cs) /\ i - 1 = Ahead(cs, c)
    BY <2>1, <2>2, ServedBound, HeldFinite, LimitAssumption
  <2> HIDE DEF i
  <2>4. Reordered(cs)[i] \in Held(cs) /\ Ahead(cs, Reordered(cs)[i]) = Ahead(cs, c)
    BY <2>3, ReorderedPlaces
  <2>5. Reordered(cs)[i] = c
    BY <2>1, <2>4, AheadInjective
  <2> QED
    BY <1>1, <2>3, <2>5
<1> QED
  BY <1>1, <1>2, <1>3

\* What ListIsTop says, of any map and any order.
IsTop(cs, o) ==
    /\ IsInjective(o)
    /\ ToSet(o) \subseteq Held(cs)
    /\ \A i, j \in 1..Len(o) : i < j => Before(cs, o[i], o[j])
    /\ \A c \in Held(cs) \ ToSet(o) :
          /\ Len(o) = ConvListLimit
          /\ \A i \in 1..Len(o) : Before(cs, o[i], c)

\* What reorderLocked leaves is the top of what is held.
LEMMA ReorderedIsTop ==
    ASSUME NEW cs, Keyed(cs)
    PROVE  IsTop(cs, Reordered(cs))
<1> DEFINE o == Reordered(cs)
<1>1. /\ DOMAIN o = 1 .. Len(o) /\ Len(o) = Served(cs) /\ Served(cs) \in Nat
      /\ \A i \in 1 .. Len(o) : o[i] \in Held(cs) /\ Ahead(cs, o[i]) = i - 1
  BY ReorderedPlaces, ServedBound
<1>2. ToSet(o) = Top(cs)
  BY ReorderedServes
<1> HIDE DEF o
<1>3. IsInjective(o)
  BY <1>1 DEF IsInjective
<1>4. \A i, j \in 1..Len(o) : i < j => Before(cs, o[i], o[j])
  <2> TAKE i, j \in 1..Len(o)
  <2> HAVE i < j
  <2>1. i - 1 < j - 1
    BY <1>1
  <2> QED
    BY <1>1, <2>1, AheadOrders
<1>5. ASSUME NEW c \in Held(cs) \ ToSet(o)
      PROVE  Len(o) = ConvListLimit /\ \A i \in 1..Len(o) : Before(cs, o[i], c)
  <2>1. Ahead(cs, c) \in 0 .. Cardinality(Held(cs)) - 1 /\ ~(Ahead(cs, c) < ConvListLimit)
    BY <1>2, AheadBound DEF Top
  <2>2. Len(o) = ConvListLimit
    BY <1>1, <2>1, ServedBound, HeldFinite, LimitAssumption
  <2>3. \A i \in 1..Len(o) : i - 1 < Ahead(cs, c)
    BY <1>1, <2>1, <2>2, HeldFinite, LimitAssumption
  <2> QED
    BY <1>1, <2>2, <2>3, AheadOrders
<1> QED
  BY <1>2, <1>3, <1>4, <1>5 DEF IsTop, Top, o

-----------------------------------------------------------------------------
(* The types.                                                              *)

\* The events of the long poll: messages, updates of messages, and conversations.
Messages == [conv : Convs, at : Nat, mine : BOOLEAN]
Updates == [conv : Convs, at : Nat, time : Nat, mine : BOOLEAN]
ConversationEvents == [conv : Convs, at : Nat, news : News]
Events == Messages \cup Updates \cup ConversationEvents
\* Lists of the phone.
Lists == [Convs -> News \cup {Absent}]

\* The types of what the list depends on; only a conversation the phone has can be owed.
ListTypes ==
    /\ convs \in [Convs -> Conversation \cup {Absent}]
    /\ phone \in Lists
    /\ snap \in [Procs -> [list : Lists, at : Nat]]
    /\ owed \subseteq Held(phone) /\ archived \subseteq Convs /\ touched \subseteq Convs
    /\ stream \in Seq(Events)
    /\ clock \in Nat

\* Conversations and news both carry what the comparator reads.
LEMMA TypedKeyed ==
    /\ \A cs \in [Convs -> Conversation \cup {Absent}] : Keyed(cs)
    /\ \A cs \in Lists : Keyed(cs)
BY DEF Keyed, Held, News, Conversation, Lists

\* What is converted is a conversation.
LEMMA ConvertedTyped ==
    ASSUME NEW w \in News, NEW c
    PROVE  Converted(w, c) \in Conversation
<1>1. (c \in paths) = TRUE \/ (c \in paths) = FALSE
  OBVIOUS
<1>2. w.time \in Nat /\ w.unread \in BOOLEAN /\ w.pinned \in BOOLEAN
  BY DEF News
<1> QED
  BY <1>1, <1>2 DEF Converted, News, Conversation

\* The empty list is a list.
LEMMA NothingTyped == Nothing \in Lists /\ Nothing \in [Convs -> Conversation \cup {Absent}]
BY DEF Nothing, Lists

\* A new conversation is one.
LEMMA FreshTyped == Fresh \in News
BY DEF Fresh, News

\* What kind an event is can be told from its fields.
LEMMA EventKinds ==
    /\ \A e \in Messages : "news" \notin DOMAIN e /\ "time" \notin DOMAIN e
    /\ \A e \in Updates : "news" \notin DOMAIN e /\ "time" \in DOMAIN e
    /\ \A e \in ConversationEvents : "news" \in DOMAIN e /\ "time" \notin DOMAIN e
    /\ \A e \in Events : e.conv \in Convs /\ e.at \in Nat
BY DEF Messages, Updates, ConversationEvents, Events

\* The next event is a conversation's news, an update or a message.
LEMMA HeadTyped ==
    ASSUME ListTypes, stream # <<>>
    PROVE  /\ Head(stream) \in Events /\ Tail(stream) \in Seq(Events)
           /\ "news" \in DOMAIN Head(stream) => Head(stream) \in ConversationEvents
           /\ "time" \in DOMAIN Head(stream) => Head(stream) \in Updates
           /\ {"news", "time"} \cap DOMAIN Head(stream) = {} => Head(stream) \in Messages
<1>1. Head(stream) \in Events /\ Tail(stream) \in Seq(Events)
  BY DEF ListTypes
<1> QED
  BY <1>1, EventKinds DEF Events

\* Events are sent one after the other.
LEMMA SendsTyped ==
    ASSUME ListTypes, NEW e \in Events, Sends(e)
    PROVE  stream' \in Seq(Events)
<1>1. stream \in Seq(Events)
  BY DEF ListTypes
<1> QED
  BY <1>1 DEF Sends

\* A conversation event writes one conversation, whole.
LEMMA UpsertTyped ==
    ASSUME ListTypes, NEW c \in Convs, NEW w \in News, Upsert(c, w)
    PROVE  /\ convs' \in [Convs -> Conversation \cup {Absent}]
           /\ convs' = [convs EXCEPT ![c] = Converted(w, c)]
BY ConvertedTyped DEF ListTypes, Upsert, Accepts

\* A message writes one conversation's time and flag.
LEMMA TouchTyped ==
    ASSUME ListTypes, NEW c \in Convs, NEW time \in Nat, NEW mine \in BOOLEAN, NEW update,
           Touch(c, time, mine, update)
    PROVE  convs' \in [Convs -> Conversation \cup {Absent}]
<1>1. CASE convs[c] # Absent
  <2> DEFINE new == [convs[c] EXCEPT !.time = time, !.unread = @ \/ ~mine]
  <2>1. convs[c] \in Conversation
    BY <1>1 DEF ListTypes
  <2>2. new \in Conversation
    BY <2>1 DEF Conversation
  <2>3. UNCHANGED convs \/ convs' = [convs EXCEPT ![c] = new]
    BY DEF Touch, listVars
  <2> HIDE DEF new
  <2> QED
    BY <2>2, <2>3 DEF ListTypes
<1>2. CASE convs[c] = Absent
  BY <1>2 DEF Touch, listVars, ListTypes
<1> QED
  BY <1>1, <1>2

\* The phone answers with a list.
LEMMA InboxTyped == ASSUME ListTypes PROVE Inbox \in Lists /\ Mailbox \in Lists
BY DEF ListTypes, Lists, Inbox, Mailbox

\* All that a step has to show.
LEMMA TypesKept ==
    ASSUME ListTypes, convs' \in [Convs -> Conversation \cup {Absent}], phone' \in Lists,
           snap' \in [Procs -> [list : Lists, at : Nat]], owed' \subseteq Held(phone'),
           stream' \in Seq(Events), clock' \in Nat,
           archived' \subseteq Convs, touched' \subseteq Convs
    PROVE  ListTypes'
BY DEF ListTypes

\* Only conversations the phone has are marked.
TargetsKnown ==
    \A p \in Procs : pc[p] \in {"mark", "clearUnread"} => target[p] \in Held(phone)

\* No step spoils the types.
LEMMA TypesStep == ListTypes /\ TargetsKnown /\ [Next]_vars => ListTypes'
<1> SUFFICES ASSUME ListTypes, TargetsKnown, [Next]_vars PROVE ListTypes'
  OBVIOUS
<1> USE DEF listVars, pictVars, callVars, phoneVars, histVars, boundVars, listAndCalls
<1>0. /\ convs \in [Convs -> Conversation \cup {Absent}] /\ phone \in Lists
      /\ snap \in [Procs -> [list : Lists, at : Nat]] /\ owed \subseteq Held(phone)
      /\ stream \in Seq(Events) /\ clock \in Nat
      /\ archived \subseteq Convs /\ touched \subseteq Convs
  BY DEF ListTypes
<1>a. ASSUME UNCHANGED <<convs, touched, phone, archived, snap, owed, stream, clock>>
      PROVE  ListTypes'
  BY <1>0, <1>a, TypesKept
<1>b. NoSnap \in [list : Lists, at : Nat]
  BY NothingTyped DEF NoSnap
<1>c. <<>> \in Seq(Events)
  OBVIOUS
<1>1. ASSUME NEW c \in Convs, NEW mine \in BOOLEAN, PhoneMessage(c, mine) PROVE ListTypes'
  <2> DEFINE old == IF phone[c] = Absent THEN Fresh ELSE phone[c]
             new == [old EXCEPT !.time = clock', !.unread = @ \/ ~mine]
             e == [conv |-> c, at |-> clock', mine |-> mine]
  <2>1. clock' \in Nat
    BY <1>0, <1>1 DEF PhoneMessage, Changes
  <2>2. old \in News
    BY <1>0, FreshTyped DEF Lists
  <2> HIDE DEF old
  <2>3. new \in News
    BY <2>1, <2>2 DEF News
  <2>4. e \in Events
    BY <2>1 DEF Events, Messages
  <2>5. phone' = [phone EXCEPT ![c] = new] /\ Sends(e) /\ owed' = owed \cup {c}
        /\ UNCHANGED <<convs, touched, snap>> /\ archived' = archived \ {c}
    BY <1>1 DEF PhoneMessage, Changes, old
  <2> HIDE DEF new, e
  <2>6. phone' \in Lists /\ Held(phone') = Held(phone) \cup {c}
    BY <1>0, <2>3, <2>5, AbsentAssumption DEF Lists, Held
  <2> QED
    BY <1>0, <2>1, <2>4, <2>5, <2>6, SendsTyped, TypesKept
<1>2. ASSUME NEW c \in Convs, PhonePins(c) PROVE ListTypes'
  <2> DEFINE new == [phone[c] EXCEPT !.pinned = ~@]
  <2>1. phone[c] \in News
    BY <1>0, <1>2 DEF PhonePins, Lists
  <2>2. new \in News
    BY <2>1 DEF News
  <2>3. clock' = clock + 1 /\ phone' = [phone EXCEPT ![c] = new] /\ owed' = owed \cup {c}
        /\ UNCHANGED <<convs, touched, archived, snap, stream>> /\ phone[c] # Absent
    BY <1>2 DEF PhonePins, Changes
  <2> HIDE DEF new
  <2>4. phone' \in Lists /\ Held(phone') = Held(phone) /\ c \in Held(phone)
    BY <1>0, <2>2, <2>3, AbsentAssumption DEF Lists, Held
  <2>5. clock' \in Nat
    BY <1>0, <2>3
  <2> QED
    BY <1>0, <2>3, <2>4, <2>5, TypesKept
<1>r. ASSUME NEW c \in Convs, PhoneArchives(c) PROVE ListTypes'
  <2>1. /\ clock' \in Nat /\ phone' = phone /\ owed' = owed \cup {c} /\ c \in Held(phone)
        /\ UNCHANGED <<convs, touched, snap, stream>> /\ archived' \subseteq Convs
    BY <1>0, <1>r DEF PhoneArchives, Changes, Held
  <2> QED
    BY <1>0, <2>1, TypesKept
<1>u. ASSUME NEW c \in Convs, NEW t \in 0..clock, NEW mine \in BOOLEAN, PhoneUpdates(c, t, mine)
      PROVE  ListTypes'
  <2> DEFINE e == [conv |-> c, at |-> clock, time |-> t, mine |-> mine]
  <2>1. e \in Events
    BY <1>0 DEF Events, Updates
  <2>2. Sends(e) /\ UNCHANGED <<convs, touched, phone, archived, owed, snap, clock>>
    BY <1>u DEF PhoneUpdates
  <2> HIDE DEF e
  <2> QED
    BY <1>0, <2>1, <2>2, SendsTyped, TypesKept
<1>3. ASSUME NEW c \in Convs, PhoneSendsConversation(c) PROVE ListTypes'
  <2>1. phone[c] \in News
    BY <1>0, <1>3 DEF Lists, Held, PhoneSendsConversation
  <2>2. [conv |-> c, at |-> clock, news |-> phone[c]] \in Events
    BY <1>0, <2>1 DEF Events, ConversationEvents
  <2>3. Sends([conv |-> c, at |-> clock, news |-> phone[c]]) /\ owed' = owed \ {c}
        /\ UNCHANGED <<convs, touched, archived, snap, phone, clock>>
    BY <1>3 DEF PhoneSendsConversation
  <2> QED
    BY <1>0, <2>2, <2>3, SendsTyped, TypesKept
<1>4. ASSUME NEW c \in Convs, AvatarClaim(c) \/ AvatarArrives(c) \/ AvatarFails(c) \/ AvatarStore(c)
      PROVE  ListTypes'
  BY <1>4, <1>a DEF AvatarClaim, AvatarArrives, AvatarFails, AvatarStore
<1>5. ASSUME NEW c \in Convs, AvatarShow(c) PROVE ListTypes'
  <2>1. CASE convs[c] = Absent
    BY <1>5, <1>a, <2>1 DEF AvatarShow, Pictures
  <2>2. CASE convs[c] # Absent
    <3> DEFINE new == [convs[c] EXCEPT !.picture = TRUE]
    <3>1. convs[c] \in Conversation
      BY <1>0, <2>2
    <3>2. new \in Conversation
      BY <3>1 DEF Conversation
    <3>3. convs' = [convs EXCEPT ![c] = new] 
          /\ UNCHANGED <<touched, phone, archived, snap, owed, stream, clock>>
      BY <1>5, <2>2 DEF AvatarShow, Pictures
    <3> HIDE DEF new
    <3> QED
      BY <1>0, <3>2, <3>3, TypesKept
  <2> QED
    BY <2>1, <2>2
<1>6. CASE HandleEvent
  <2> DEFINE e == Head(stream)
  <2>1. /\ \/ "news" \in DOMAIN e /\ Upsert(e.conv, e.news)
           \/ "time" \in DOMAIN e /\ Touch(e.conv, e.time, e.mine, TRUE)
           \/ {"news", "time"} \cap DOMAIN e = {} /\ Touch(e.conv, e.at, e.mine, FALSE)
        /\ stream' = Tail(stream) /\ UNCHANGED <<snap, phone, archived, owed, clock>>
        /\ stream # <<>>
    BY <1>6 DEF HandleEvent
  <2>2. /\ Tail(stream) \in Seq(Events) /\ e.conv \in Convs /\ e.at \in Nat
        /\ "news" \in DOMAIN e => e.news \in News
        /\ "time" \in DOMAIN e => e.time \in Nat /\ e.mine \in BOOLEAN
        /\ {"news", "time"} \cap DOMAIN e = {} => e.mine \in BOOLEAN
    BY <2>1, HeadTyped, EventKinds DEF Messages, Updates, ConversationEvents
  <2> HIDE DEF e
  <2>3. convs' \in [Convs -> Conversation \cup {Absent}]
    BY <2>1, <2>2, UpsertTyped, TouchTyped
  <2>4. touched' \subseteq Convs
    BY <1>0, <2>1, <2>2 DEF Upsert, Touch
  <2> QED
    BY <1>0, <2>1, <2>2, <2>3, <2>4, TypesKept
<1>7. ASSUME NEW p \in Procs, NEW label, Replace(p, label) PROVE ListTypes'
  <2>1. /\ convs' = [c \in Convs |-> IF snap[p].list[c] = Absent THEN Absent
                                     ELSE Converted(snap[p].list[c], c)]
        /\ snap' = [snap EXCEPT ![p] = NoSnap] /\ touched' = {}
        /\ UNCHANGED <<phone, archived, owed, stream, clock>>
    BY <1>7 DEF Replace
  <2>2. snap[p].list \in Lists
    BY <1>0
  <2>3. ASSUME NEW c \in Convs, snap[p].list[c] # Absent
        PROVE  Converted(snap[p].list[c], c) \in Conversation
    BY <2>2, <2>3, ConvertedTyped DEF Lists
  <2>4. convs' \in [Convs -> Conversation \cup {Absent}]
    BY <2>1, <2>3
  <2> QED
    BY <1>0, <1>b, <2>1, <2>4, TypesKept
<1>8. ASSUME NEW p \in Procs, ListConversations(p) PROVE ListTypes'
  <2>1. [list |-> Inbox, at |-> clock] \in [list : Lists, at : Nat]
    BY <1>0, InboxTyped
  <2> QED
    BY <1>0, <1>8, <2>1, TypesKept DEF ListConversations
<1>9. ASSUME NEW p \in Procs, NEW c \in Convs, MarkRead(p, c) PROVE ListTypes'
  <2>1. convs[c] \in Conversation
    BY <1>0, <1>9 DEF MarkRead
  <2>2. convs[c].time \in Nat
    BY <2>1 DEF Conversation
  <2>3. [snap[p] EXCEPT !.at = convs[c].time] \in [list : Lists, at : Nat]
    BY <1>0, <2>2
  <2>4. snap' = [snap EXCEPT ![p] = [snap[p] EXCEPT !.at = convs[c].time]]
        /\ UNCHANGED <<convs, touched, phone, archived, owed, stream, clock>>
    BY <1>9 DEF MarkRead
  <2>5. snap' \in [Procs -> [list : Lists, at : Nat]]
    BY <1>0, <2>3, <2>4
  <2> QED
    BY <1>0, <2>4, <2>5, TypesKept
<1>10. ASSUME NEW p \in Procs, PhoneMarks(p) PROVE ListTypes'
  <2> DEFINE c == target[p]
             rest == phone[c].time > snap[p].at
             new == [phone[c] EXCEPT !.unread = @ /\ rest]
  <2>1. c \in Held(phone)
    BY <1>10 DEF TargetsKnown, PhoneMarks, At
  <2>2. phone[c] \in News /\ c \in Convs
    BY <1>0, <2>1 DEF Lists, Held
  <2>3. phone' = [phone EXCEPT ![c] = new] /\ owed' = owed \cup {c} /\ clock' = clock + 1
        /\ snap' = [snap EXCEPT ![p] = NoSnap] /\ UNCHANGED <<convs, touched, archived, stream>>
    BY <1>10 DEF PhoneMarks, Changes
  <2> HIDE DEF c, rest
  <2>4. new \in News
    BY <2>2 DEF News
  <2> HIDE DEF new
  <2>5. phone' \in Lists /\ Held(phone') = Held(phone)
    BY <1>0, <2>1, <2>2, <2>3, <2>4, AbsentAssumption DEF Lists, Held
  <2>6. snap' \in [Procs -> [list : Lists, at : Nat]]
    BY <1>0, <1>b, <2>3
  <2>7. clock' \in Nat
    BY <1>0, <2>3
  <2> QED
    BY <1>0, <2>1, <2>3, <2>5, <2>6, <2>7, TypesKept
<1>11. ASSUME NEW p \in Procs, MarkFails(p) PROVE ListTypes'
  BY <1>0, <1>b, <1>11, TypesKept DEF MarkFails, MarkEnds
<1>12. ASSUME NEW p \in Procs, ClearUnread(p) PROVE ListTypes'
  <2> DEFINE c == target[p]
             new == [convs[c] EXCEPT !.unread = FALSE]
  <2>1. c \in Convs
    BY <1>12 DEF TargetsKnown, ClearUnread, At, Held
  <2>2. snap' = [snap EXCEPT ![p] = NoSnap] /\ UNCHANGED <<phone, archived, owed, stream, clock>>
        /\ touched' \subseteq touched
        /\ IF convs[c] # Absent THEN convs' = [convs EXCEPT ![c] = new] ELSE UNCHANGED convs
    BY <1>12 DEF ClearUnread, MarkEnds
  <2> HIDE DEF c
  <2>3. convs[c] # Absent => new \in Conversation
    <3>1. convs[c] # Absent => convs[c] \in Conversation
      BY <1>0, <2>1
    <3> QED
      BY <3>1 DEF Conversation
  <2> HIDE DEF new
  <2>4. convs' \in [Convs -> Conversation \cup {Absent}]
    BY <1>0, <2>1, <2>2, <2>3
  <2>5. snap' \in [Procs -> [list : Lists, at : Nat]]
    BY <1>0, <1>b, <2>2
  <2> QED
    BY <1>0, <2>2, <2>4, <2>5, TypesKept
<1>13. ASSUME NEW p \in Procs, UnpairClear(p) PROVE ListTypes'
  BY <1>0, <1>13, NothingTyped, TypesKept DEF UnpairClear
<1>14. CASE Drop
  BY <1>0, <1>14, <1>c, TypesKept DEF Drop, Hangup
<1>15. ASSUME NEW p \in Procs, Unpair(p) PROVE ListTypes'
  BY <1>0, <1>15, <1>c, TypesKept DEF Unpair, Hangup
<1>16. ASSUME NEW p \in Procs, Connects(p) \/ Resumes(p) \/ Refresh(p) \/ Recover(p)
       PROVE  ListTypes'
  BY <1>16, <1>a DEF Connects, Resumes, Refresh, Recover
<1>17. ASSUME NEW p \in Procs, Step(p) PROVE ListTypes'
  <2>1. CASE RefreshReplace(p) \/ ReadyReplace(p)
    BY <1>7, <2>1 DEF RefreshReplace, ReadyReplace
  <2>2. CASE InitialSync(p) \/ ListFails(p) \/ ReadyState(p)
    BY <1>a, <2>2 DEF InitialSync, ListFails, ReadyState
  <2>3. CASE UnpairFails(p) \/ UnpairState(p)
    BY <1>a, <2>3 DEF UnpairFails, UnpairState
  <2> QED
    BY <1>8, <1>10, <1>11, <1>12, <1>13, <1>17, <2>1, <2>2, <2>3 DEF Step
<1>18. CASE UNCHANGED vars
  BY <1>18, <1>a DEF vars
<1> QED
  BY <1>1, <1>2, <1>r, <1>u, <1>3, <1>4, <1>5, <1>6, <1>9, <1>14, <1>15, <1>16, <1>17, <1>18
     DEF Next, Fetch

-----------------------------------------------------------------------------
(* The list and the phone's. A conversation of which nothing is owed or on  *)
(* its way is the same on both sides, unless the list is doubtful.         *)

\* Two records that agree on what the phone tells of a conversation.
Same(r, w) == r.time = w.time /\ (r.pinned <=> w.pinned) /\ (r.unread <=> w.unread)

\* A list agrees with the phone's conversations and its inbox on one of them, but for the
\* flags that updates set.
Agrees(ph, box, cs, t, c) ==
    /\ cs[c] # Absent =>
          /\ cs[c].time = ph[c].time
          /\ cs[c].pinned <=> ph[c].pinned
          /\ cs[c].unread <=> ph[c].unread \/ c \in t
    /\ c \in Top(box) => cs[c] # Absent

\* A goroutine has a list in hand, or the name of a conversation to mark.
HasList(at, p) == at[p] \in {"replace", "readyReplace"}
HasTarget(at, p) == at[p] \in {"mark", "clearUnread"}
\* An event that tells of a change: not an update of a message.
Tells(e) == "time" \notin DOMAIN e
\* Such an event about a conversation is on its way; one that is newer than a time.
InStream(st, c) == \E i \in 1..Len(st) : st[i].conv = c /\ Tells(st[i])
InStreamLater(st, c, t) == \E i \in 1..Len(st) : st[i].conv = c /\ st[i].at > t /\ Tells(st[i])

\* Whatever names a conversation, the phone has it.
KnownInv ==
    /\ DOMAIN pc = Procs /\ DOMAIN target = Procs
    /\ Held(convs) \subseteq Held(phone)
    /\ \A i \in 1..Len(stream) : stream[i].conv \in Held(phone)
    /\ \A p \in Procs :
          /\ HasList(pc, p) => Held(snap[p].list) \subseteq Held(phone)
          /\ HasTarget(pc, p) => target[p] \in Held(phone)

\* Nothing is newer than the phone's clock, and events come in its order.
TimesInv ==
    /\ newest \in Nat /\ newest <= clock
    /\ \A c \in Held(phone) : phone[c].time <= clock
    /\ \A i \in 1..Len(stream) : stream[i].at <= clock
    /\ \A i, j \in 1..Len(stream) : i < j => stream[i].at <= stream[j].at
    /\ \A p \in Procs : HasList(pc, p) => snap[p].at <= clock

\* An update is no newer than its conversation.
UpdatesInv ==
    \A i \in 1..Len(stream) :
        ~Tells(stream[i]) => stream[i].time <= phone[stream[i].conv].time

\* An event tells the last there is to tell of its conversation, or more will come: a later
\* event, or the one that the phone owes.
NewsInv ==
    \A i \in 1..Len(stream) : Tells(stream[i]) =>
        \/ stream[i].conv \in owed
        \/ "news" \in DOMAIN stream[i] /\ stream[i].news = phone[stream[i].conv]
        \/ \E j \in 1..Len(stream) :
              i < j /\ stream[j].conv = stream[i].conv /\ Tells(stream[j])

\* A list in hand was true when the phone gave it. As long as no later news came, it still is,
\* but for the conversations of which later news is owed or on its way.
SnapInv ==
    \A p \in Procs : HasList(pc, p) =>
        /\ snap[p].at = clock => \A c \in Convs : Agrees(phone, Mailbox, snap[p].list, {}, c)
        /\ snap[p].at >= newest =>
              \A c \in Convs : \/ Agrees(phone, Mailbox, snap[p].list, {}, c) \/ c \in owed
                               \/ InStreamLater(stream, c, snap[p].at)

\* The list that is held is true but for the conversations of which news is to come.
ListInv ==
    ~doubtful =>
        \A c \in Convs : \/ Agrees(phone, Mailbox, convs, touched, c)
                         \/ c \in owed \/ InStream(stream, c)

\* The inductive invariant.
SyncInv == KnownInv /\ TimesInv /\ UpdatesInv /\ NewsInv /\ SnapInv /\ ListInv

\* When one conversation rises, no other one rises into the phone's list.
LEMMA TopRises ==
    ASSUME NEW ph \in Lists, NEW qh \in Lists, NEW c \in Convs,
           \A d \in Convs \ {c} : qh[d] = ph[d], qh[c] # Absent,
           c \in Held(ph) => \A d \in Held(ph) \ {c} : Before(ph, c, d) => Before(qh, c, d)
    PROVE  Top(qh) \subseteq Top(ph) \cup {c}
<1> SUFFICES ASSUME NEW d \in Top(qh), d # c PROVE d \in Top(ph)
  OBVIOUS
<1> DEFINE P == {x \in Held(ph) : Before(ph, x, d)}
           Q == {x \in Held(qh) : Before(qh, x, d)}
<1>1. d \in Held(ph) /\ Cardinality(Q) < ConvListLimit
  BY DEF Top, Held, Ahead
<1>2. P \subseteq Q
  <2> SUFFICES ASSUME NEW x \in P PROVE x \in Q
    OBVIOUS
  <2>1. x \in Held(ph) /\ Before(ph, x, d) /\ x \in Held(qh)
    BY DEF Held
  <2>2. CASE x = c
    BY <1>1, <2>1, <2>2
  <2>3. CASE x # c
    <3>1. qh[x] = ph[x] /\ qh[d] = ph[d]
      BY <1>1, <2>1, <2>3 DEF Held
    <3> QED
      BY <2>1, <3>1 DEF Before
  <2> QED
    BY <2>2, <2>3
<1>3. IsFiniteSet(Q)
  BY HeldFinite, FS_Subset
<1>4. Cardinality(P) <= Cardinality(Q) /\ Cardinality(P) \in Nat /\ Cardinality(Q) \in Nat
  BY <1>2, <1>3, FS_Subset, FS_CardinalityType
<1>5. Ahead(ph, d) = Cardinality(P)
  BY DEF Ahead
<1> HIDE DEF P, Q
<1>6. Ahead(ph, d) < ConvListLimit
  BY <1>1, <1>4, <1>5, LimitAssumption
<1> QED
  BY <1>1, <1>6 DEF Top

\* The procs
ProcsKept ==
    /\ DOMAIN pc' = Procs /\ DOMAIN target' = Procs
    /\ \A p \in Procs : HasList(pc', p) => HasList(pc, p) /\ snap'[p] = snap[p]
    /\ \A p \in Procs : HasTarget(pc', p) => target'[p] \in Held(phone)

\* The pictures aside, the list stays.
SameList ==
    \A c \in Convs :
        /\ convs'[c] = Absent <=> convs[c] = Absent
        /\ convs[c] # Absent => Same(convs'[c], convs[c])

\* The phone is still, and so is the list.
LEMMA StillKeeps ==
    ASSUME SyncInv, ProcsKept, SameList,
           UNCHANGED <<phone, archived, touched, owed, stream, clock, newest, doubtful>>
    PROVE  SyncInv'
<1> USE DEF SyncInv
<1>1. KnownInv'
  BY DEF KnownInv, ProcsKept, SameList, Held
<1>2. TimesInv' /\ UpdatesInv' /\ NewsInv'
  BY DEF TimesInv, UpdatesInv, NewsInv, ProcsKept
<1>m. Mailbox' = Mailbox
  BY DEF Mailbox
<1>3. SnapInv'
  BY <1>m DEF SnapInv, ProcsKept
<1>4. ListInv'
  <2>1. ASSUME NEW c \in Convs, Agrees(phone, Mailbox, convs, touched, c)
        PROVE  Agrees(phone, Mailbox, convs', touched, c)
    BY <2>1 DEF SameList, Same, Agrees
  <2> QED
    BY <1>m, <2>1 DEF ListInv
<1> QED
  BY <1>1, <1>2, <1>3, <1>4

\* The phone changes one conversation, and owes its event.
Change(c) ==
    /\ clock' = clock + 1 /\ owed' = owed \cup {c}
    /\ phone' \in Lists /\ phone'[c] # Absent /\ phone'[c].time <= clock'
    /\ c \in Held(phone) => phone[c].time <= phone'[c].time
    /\ \A d \in Convs \ {c} : phone'[d] = phone[d]
    /\ UNCHANGED <<convs, touched>>
    /\ ProcsKept

\* Nobody missed anything.
Announced(c) ==
    /\ Top(Mailbox') \subseteq Top(Mailbox) \cup {c}
    /\ UNCHANGED <<newest, doubtful>>
    /\ \/ UNCHANGED stream
       \/ \E e \in Events :
             stream' = Append(stream, e) /\ e.conv = c /\ e.at = clock' /\ Tells(e)

\* ... or it is missed, or brought others into the list of which nothing is said.
Missed == newest' = clock' /\ doubtful' = TRUE /\ UNCHANGED stream

\* A sequence with one event more.
LEMMA Appended ==
    ASSUME NEW st \in Seq(Events), NEW e \in Events
    PROVE  /\ Append(st, e) \in Seq(Events) /\ Len(st) \in Nat
           /\ Len(Append(st, e)) = Len(st) + 1 /\ Append(st, e)[Len(st) + 1] = e
           /\ \A i \in 1..Len(st) : Append(st, e)[i] = st[i] /\ i \in 1..Len(Append(st, e))
           /\ \A i \in 1..Len(Append(st, e)) : i \in 1..Len(st) \/ i = Len(st) + 1
OBVIOUS

\* A change keeps what is known, ...
LEMMA ChangeKeepsKnown ==
    ASSUME ListTypes, KnownInv, NEW c \in Convs, Change(c), Announced(c) \/ Missed
    PROVE  KnownInv'
<1>1. Held(phone) \subseteq Held(phone') /\ c \in Held(phone')
  BY DEF Held, Change
<1>2. \A i \in 1..Len(stream') : stream'[i].conv \in Held(phone')
  <2>1. CASE UNCHANGED stream
    BY <1>1, <2>1 DEF KnownInv
  <2>2. ASSUME NEW e \in Events, stream' = Append(stream, e), e.conv = c
        PROVE  \A i \in 1..Len(stream') : stream'[i].conv \in Held(phone')
    BY <1>1, <2>2 DEF KnownInv, ListTypes
  <2> QED
    BY <2>1, <2>2 DEF Announced, Missed
<1> QED
  BY <1>1, <1>2 DEF KnownInv, Change, ProcsKept

\* ... the times, ...
LEMMA ChangeKeepsTimes ==
    ASSUME ListTypes, TimesInv, NEW c \in Convs, Change(c), Announced(c) \/ Missed
    PROVE  TimesInv'
<1>1. clock \in Nat /\ clock' = clock + 1 /\ newest \in Nat /\ newest <= clock
  BY DEF ListTypes, TimesInv, Change
<1>2. newest' \in Nat /\ newest' <= clock'
  BY <1>1 DEF Announced, Missed
<1>3. ASSUME NEW d \in Held(phone') PROVE phone'[d].time <= clock'
  <2>1. CASE d = c
    BY <2>1 DEF Change
  <2>2. CASE d # c
    <3>1. d \in Held(phone) /\ phone'[d] = phone[d] /\ phone[d].time \in Nat
          /\ phone[d].time <= clock
      BY <2>2, TypedKeyed DEF Change, Held, TimesInv, ListTypes, Keyed
    <3> QED
      BY <1>1, <3>1
  <2> QED
    BY <2>1, <2>2
<1>4. \A i \in 1..Len(stream) : stream[i].at \in Nat /\ stream[i].at <= clock
  BY EventKinds DEF TimesInv, ListTypes
<1>5. /\ \A i \in 1..Len(stream') : stream'[i].at <= clock'
      /\ \A i, j \in 1..Len(stream') : i < j => stream'[i].at <= stream'[j].at
  <2>1. CASE UNCHANGED stream
    BY <1>1, <1>4, <2>1 DEF TimesInv
  <2>2. ASSUME NEW e \in Events, stream' = Append(stream, e), e.at = clock' 
        PROVE  /\ \A i \in 1..Len(stream') : stream'[i].at <= clock'
               /\ \A i, j \in 1..Len(stream') : i < j => stream'[i].at <= stream'[j].at
    <3>1. Len(stream') = Len(stream) + 1 /\ stream'[Len(stream) + 1] = e /\ Len(stream) \in Nat
          /\ \A i \in 1..Len(stream) : stream'[i] = stream[i]
      BY <2>2, Appended DEF ListTypes
    <3>2. \A i \in 1..Len(stream') : i \in 1..Len(stream) \/ i = Len(stream) + 1
      BY <2>2, Appended DEF ListTypes
    <3>3. \A i \in 1..Len(stream') : stream'[i].at <= clock'
      BY <1>1, <1>4, <2>2, <3>1, <3>2
    <3>4. ASSUME NEW i \in 1..Len(stream'), NEW j \in 1..Len(stream'), i < j
          PROVE  stream'[i].at <= stream'[j].at
      <4>1. i \in 1..Len(stream)
        BY <3>1, <3>4
      <4>2. CASE j \in 1..Len(stream)
        BY <3>1, <3>4, <4>1, <4>2 DEF TimesInv
      <4>3. CASE j = Len(stream) + 1
        BY <1>1, <1>4, <2>2, <3>1, <4>1, <4>3
      <4> QED
        BY <3>2, <4>2, <4>3
    <3> QED
      BY <3>3, <3>4
  <2> QED
    BY <2>1, <2>2 DEF Announced, Missed
<1>6. ASSUME NEW p \in Procs, HasList(pc', p) PROVE snap'[p].at <= clock'
  <2>1. snap'[p].at = snap[p].at /\ snap[p].at <= clock /\ snap[p].at \in Nat
    BY <1>6 DEF Change, ProcsKept, TimesInv, ListTypes
  <2> QED
    BY <1>1, <2>1
<1> QED
  BY <1>2, <1>3, <1>5, <1>6 DEF TimesInv

\* ... the updates, ...
LEMMA ChangeKeepsUpdates ==
    ASSUME ListTypes, KnownInv, UpdatesInv, NEW c \in Convs, Change(c), Announced(c) \/ Missed
    PROVE  UpdatesInv'
<1>1. \A d \in Held(phone) : /\ phone[d].time \in Nat /\ phone'[d].time \in Nat
                            /\ phone[d].time <= phone'[d].time
  <2> TAKE d \in Held(phone)
  <2>1. phone[d] \in News /\ phone'[d] \in News /\ d \in Convs
    <3>1. CASE d = c
      BY <3>1 DEF ListTypes, Lists, Held, Change
    <3>2. CASE d # c
      BY <3>2 DEF ListTypes, Lists, Held, Change
    <3> QED
      BY <3>1, <3>2
  <2>2. phone[d].time \in Nat /\ phone'[d].time \in Nat
    BY <2>1 DEF News
  <2>3. CASE d = c
    BY <2>2, <2>3 DEF Change
  <2>4. CASE d # c
    BY <2>1, <2>2, <2>4 DEF Change
  <2> QED
    BY <2>2, <2>3, <2>4
<1>2. \A i \in 1..Len(stream) : ~Tells(stream[i]) => stream[i].time \in Nat
  BY EventKinds DEF ListTypes, Events, Updates, Tells
<1>3. \A i \in 1..Len(stream') :
         ~Tells(stream'[i]) => i \in 1..Len(stream) /\ stream'[i] = stream[i]
  <2>1. CASE UNCHANGED stream
    BY <2>1
  <2>2. ASSUME NEW e \in Events, stream' = Append(stream, e), Tells(e)
        PROVE  \A i \in 1..Len(stream') :
                  ~Tells(stream'[i]) => i \in 1..Len(stream) /\ stream'[i] = stream[i]
    BY <2>2, Appended DEF ListTypes
  <2> QED
    BY <2>1, <2>2 DEF Announced, Missed
<1> SUFFICES ASSUME NEW i \in 1..Len(stream'), ~Tells(stream'[i])
             PROVE  stream'[i].time <= phone'[stream'[i].conv].time
  BY DEF UpdatesInv
<1>4. /\ stream[i].time <= phone[stream[i].conv].time /\ stream[i].conv \in Held(phone)
      /\ i \in 1..Len(stream) /\ stream'[i] = stream[i] /\ stream[i].time \in Nat
  BY <1>2, <1>3 DEF KnownInv, UpdatesInv
<1> QED
  BY <1>1, <1>4

\* ... the events' last word, ...
LEMMA ChangeKeepsNews ==
    ASSUME ListTypes, NewsInv, NEW c \in Convs, Change(c), Announced(c) \/ Missed
    PROVE  NewsInv'
<1> SUFFICES ASSUME NEW i \in 1..Len(stream'), Tells(stream'[i])
             PROVE  \/ stream'[i].conv \in owed'
                    \/ "news" \in DOMAIN stream'[i] /\ stream'[i].news = phone'[stream'[i].conv]
                    \/ \E j \in 1..Len(stream') :
                             i < j /\ stream'[j].conv = stream'[i].conv /\ Tells(stream'[j])
  BY DEF NewsInv
<1>1. owed' = owed \cup {c} /\ \A d \in Convs \ {c} : phone'[d] = phone[d]
  BY DEF Change
<1>2. ASSUME i \in 1..Len(stream), stream'[i] = stream[i],
             \A j \in 1..Len(stream) : stream'[j] = stream[j] /\ j \in 1..Len(stream')
      PROVE  \/ stream'[i].conv \in owed'
             \/ "news" \in DOMAIN stream'[i] /\ stream'[i].news = phone'[stream'[i].conv]
             \/ \E j \in 1..Len(stream') :
                      i < j /\ stream'[j].conv = stream'[i].conv /\ Tells(stream'[j])
  <2>1. stream[i].conv \in Convs
    BY <1>2, EventKinds DEF ListTypes
  <2> QED
    BY <1>1, <1>2, <2>1 DEF NewsInv
<1>3. CASE UNCHANGED stream
  BY <1>2, <1>3
<1>4. ASSUME NEW e \in Events, stream' = Append(stream, e), e.conv = c
      PROVE  \/ stream'[i].conv \in owed'
             \/ "news" \in DOMAIN stream'[i] /\ stream'[i].news = phone'[stream'[i].conv]
             \/ \E j \in 1..Len(stream') :
                      i < j /\ stream'[j].conv = stream'[i].conv /\ Tells(stream'[j])
  <2>1. CASE i \in 1..Len(stream)
    BY <1>2, <1>4, <2>1, Appended DEF ListTypes
  <2>2. CASE i = Len(stream) + 1
    BY <1>1, <1>4, <2>2, Appended DEF ListTypes
  <2> QED
    BY <1>4, <2>1, <2>2, Appended DEF ListTypes
<1> QED
  BY <1>2, <1>3, <1>4 DEF Announced, Missed

\* Everything that was under way still is.
StreamGrows ==
    \A i \in 1..Len(stream) : stream'[i] = stream[i] /\ i \in 1..Len(stream')

\* A change takes nothing off the stream.
LEMMA ChangeGrows ==
    ASSUME ListTypes, NEW c, Announced(c) \/ Missed
    PROVE  StreamGrows
BY Appended DEF ListTypes, Announced, Missed, StreamGrows

\* A change that is announced leaves the agreement on other conversations.
LEMMA ChangeKeepsAgreement ==
    ASSUME ListTypes, NEW c \in Convs, Change(c), Announced(c), NEW cs, NEW t,
           NEW d \in Convs, d # c, Agrees(phone, Mailbox, cs, t, d)
    PROVE  Agrees(phone', Mailbox', cs, t, d)
BY DEF Change, Announced, Agrees

\* ... the lists in hand ...
LEMMA ChangeKeepsSnap ==
    ASSUME ListTypes, TimesInv, SnapInv, NEW c \in Convs, Change(c), Announced(c) \/ Missed
    PROVE  SnapInv'
<1>1. clock \in Nat /\ clock' = clock + 1 /\ c \in owed' /\ owed \subseteq owed'
  BY DEF ListTypes, Change
<1> SUFFICES ASSUME NEW p \in Procs, HasList(pc', p)
             PROVE  /\ snap'[p].at = clock' =>
                             \A d \in Convs : Agrees(phone', Mailbox', snap'[p].list, {}, d)
                    /\ snap'[p].at >= newest' =>
                          \A d \in Convs : \/ Agrees(phone', Mailbox', snap'[p].list, {}, d)
                                           \/ d \in owed'
                                           \/ InStreamLater(stream', d, snap'[p].at)
  BY DEF SnapInv
<1>2. HasList(pc, p) /\ snap'[p] = snap[p] /\ snap[p].at \in Nat /\ snap[p].at <= clock
  BY DEF Change, ProcsKept, TimesInv, ListTypes
<1>3. snap'[p].at # clock'
  BY <1>1, <1>2
<1>4. ASSUME snap'[p].at >= newest', NEW d \in Convs
      PROVE  \/ Agrees(phone', Mailbox', snap'[p].list, {}, d) \/ d \in owed'
             \/ InStreamLater(stream', d, snap'[p].at)
  <2>1. Announced(c) /\ newest' = newest
    BY <1>1, <1>2, <1>4 DEF Announced, Missed
  <2>2. CASE d = c
    BY <1>1, <2>2
  <2>3. CASE d # c /\ Agrees(phone, Mailbox, snap[p].list, {}, d)
    BY <1>2, <2>1, <2>3, ChangeKeepsAgreement
  <2>4. CASE InStreamLater(stream, d, snap[p].at)
    BY <1>2, <2>4, ChangeGrows DEF InStreamLater, StreamGrows
  <2> QED
    BY <1>1, <1>2, <1>4, <2>1, <2>2, <2>3, <2>4 DEF SnapInv
<1> QED
  BY <1>3, <1>4

\* ... and the list.
LEMMA ChangeKeepsList ==
    ASSUME ListTypes, ListInv, NEW c \in Convs, Change(c), Announced(c) \/ Missed
    PROVE  ListInv'
<1> SUFFICES ASSUME ~doubtful', NEW d \in Convs
             PROVE  \/ Agrees(phone', Mailbox', convs', touched', d)
                    \/ d \in owed' \/ InStream(stream', d)
  BY DEF ListInv
<1>1. Announced(c) /\ ~doubtful
  BY DEF Announced, Missed
<1>2. convs' = convs /\ touched' = touched /\ owed' = owed \cup {c}
  BY DEF Change
<1>3. CASE d = c \/ d \in owed
  BY <1>2, <1>3
<1>4. CASE d # c /\ Agrees(phone, Mailbox, convs, touched, d)
  BY <1>1, <1>2, <1>4, ChangeKeepsAgreement
<1>5. CASE InStream(stream, d)
  BY <1>5, ChangeGrows DEF InStream, StreamGrows
<1> QED
  BY <1>1, <1>3, <1>4, <1>5 DEF ListInv

\* Together.
LEMMA ChangeKeeps ==
    ASSUME ListTypes, SyncInv, NEW c \in Convs, Change(c), Announced(c) \/ Missed
    PROVE  SyncInv'
BY ChangeKeepsKnown, ChangeKeepsTimes, ChangeKeepsUpdates, ChangeKeepsNews, ChangeKeepsSnap,
   ChangeKeepsList DEF SyncInv

\* Only the long poll brings events.
LinkInv == live \/ stream = <<>>

\* The conversation as it is by now joins the stream, or is missed.
LEMMA SendKeeps ==
    ASSUME ListTypes, LinkInv, SyncInv, NEW c \in Convs, PhoneSendsConversation(c)
    PROVE  SyncInv'
<1> DEFINE e == [conv |-> c, at |-> clock, news |-> phone[c]]
<1>1. /\ c \in owed /\ owed' = owed \ {c} /\ Sends(e)
      /\ UNCHANGED <<convs, touched, phone, archived, clock, pc, snap, target>>
  BY DEF PhoneSendsConversation, listVars, callVars
<1>2. c \in Held(phone) /\ phone[c] \in News /\ clock \in Nat
  BY <1>1 DEF ListTypes, Lists, Held
<1>3. e \in Events /\ e.conv = c /\ e.at = clock /\ "news" \in DOMAIN e /\ e.news = phone[c]
      /\ Tells(e)
  BY <1>2 DEF Events, ConversationEvents, Tells
<1> HIDE DEF e
<1>4. \/ stream' = Append(stream, e) /\ newest' = newest /\ doubtful' = doubtful
      \/ stream = <<>> /\ stream' = stream /\ newest' = clock /\ doubtful' = TRUE
  BY <1>1, <1>3 DEF Sends, histVars, LinkInv
<1>m. Mailbox' = Mailbox
  BY <1>1 DEF Mailbox
<1>5. StreamGrows
  BY <1>3, <1>4, Appended DEF StreamGrows, ListTypes
<1>6. CASE stream' = Append(stream, e) /\ newest' = newest /\ doubtful' = doubtful
  <2>1. /\ Len(stream') = Len(stream) + 1 /\ Len(stream) \in Nat /\ stream'[Len(stream) + 1] = e
        /\ \A i \in 1..Len(stream') : i \in 1..Len(stream) \/ i = Len(stream) + 1
    BY <1>3, <1>6, Appended DEF ListTypes
  <2>2. Len(stream) + 1 \in 1..Len(stream')
    BY <2>1
  <2>3. KnownInv'
    BY <1>1, <1>2, <1>3, <1>5, <2>1 DEF SyncInv, KnownInv, StreamGrows
  <2>4. TimesInv'
    <3>1. \A i \in 1..Len(stream) : stream[i].at <= clock /\ stream[i].at \in Nat
      BY EventKinds DEF SyncInv, TimesInv, ListTypes
    <3>2. \A i \in 1..Len(stream') : stream'[i].at <= clock
      BY <1>2, <1>3, <1>5, <2>1, <3>1 DEF StreamGrows
    <3>3. ASSUME NEW i \in 1..Len(stream'), NEW j \in 1..Len(stream'), i < j
          PROVE  stream'[i].at <= stream'[j].at
      <4>1. i \in 1..Len(stream)
        BY <2>1, <3>3
      <4>2. CASE j \in 1..Len(stream)
        BY <1>5, <3>3, <4>1, <4>2 DEF SyncInv, TimesInv, StreamGrows
      <4>3. CASE j = Len(stream) + 1
        BY <1>3, <1>5, <2>1, <3>1, <4>1, <4>3 DEF StreamGrows
      <4> QED
        BY <2>1, <4>2, <4>3
    <3> QED
      BY <1>1, <1>6, <3>2, <3>3 DEF SyncInv, TimesInv
  <2>u. UpdatesInv'
    <3>1. \A i \in 1..Len(stream') :
             ~Tells(stream'[i]) => i \in 1..Len(stream) /\ stream'[i] = stream[i]
      BY <1>3, <1>5, <2>1 DEF StreamGrows
    <3> QED
      BY <1>1, <3>1 DEF SyncInv, UpdatesInv
  <2>5. NewsInv'
    <3> SUFFICES ASSUME NEW i \in 1..Len(stream'), Tells(stream'[i])
                 PROVE  \/ stream'[i].conv \in owed'
                        \/ "news" \in DOMAIN stream'[i] /\ stream'[i].news = phone'[stream'[i].conv]
                        \/ \E j \in 1..Len(stream') :
                              i < j /\ stream'[j].conv = stream'[i].conv /\ Tells(stream'[j])
      BY DEF NewsInv
    <3>1. CASE i = Len(stream) + 1
      BY <1>1, <1>3, <2>1, <3>1
    <3>2. CASE i \in 1..Len(stream) /\ stream[i].conv = c
      <4>1. i < Len(stream) + 1
        BY <2>1, <3>2
      <4> QED
        BY <1>3, <1>5, <2>1, <2>2, <3>2, <4>1 DEF StreamGrows
    <3>3. CASE i \in 1..Len(stream) /\ stream[i].conv # c
      BY <1>1, <1>5, <3>3 DEF SyncInv, NewsInv, StreamGrows
    <3> QED
      BY <2>1, <3>1, <3>2, <3>3
  <2>6. SnapInv'
    <3> SUFFICES ASSUME NEW p \in Procs, HasList(pc, p)
                 PROVE  /\ snap[p].at = clock =>
                                 \A d \in Convs : Agrees(phone, Mailbox, snap[p].list, {}, d)
                        /\ snap[p].at >= newest =>
                              \A d \in Convs : \/ Agrees(phone, Mailbox, snap[p].list, {}, d)
                                               \/ d \in owed'
                                               \/ InStreamLater(stream', d, snap[p].at)
      BY <1>1, <1>6, <1>m DEF SnapInv
    <3>1. ASSUME snap[p].at >= newest, NEW d \in Convs
          PROVE  \/ Agrees(phone, Mailbox, snap[p].list, {}, d) \/ d \in owed'
                 \/ InStreamLater(stream', d, snap[p].at)
      <4>1. CASE d = c
        <5>1. snap[p].at <= clock /\ snap[p].at \in Nat
          BY DEF SyncInv, TimesInv, ListTypes
        <5>2. CASE snap[p].at = clock
          BY <5>2 DEF SyncInv, SnapInv
        <5>3. CASE snap[p].at < clock
          <6>1. stream'[Len(stream) + 1].conv = d /\ stream'[Len(stream) + 1].at > snap[p].at
                /\ Tells(stream'[Len(stream) + 1])
            BY <1>2, <1>3, <2>1, <4>1, <5>1, <5>3
          <6> QED
            BY <2>2, <6>1 DEF InStreamLater
        <5> QED
          BY <1>2, <5>1, <5>2, <5>3
      <4>2. CASE d # c
        BY <1>1, <1>5, <3>1, <4>2 DEF SyncInv, SnapInv, InStreamLater, StreamGrows
      <4> QED
        BY <4>1, <4>2
    <3> QED
      BY <3>1 DEF SyncInv, SnapInv
  <2>7. ListInv'
    <3>1. ASSUME NEW d \in Convs,
                 Agrees(phone, Mailbox, convs, touched, d) \/ d \in owed \/ InStream(stream, d)
          PROVE  Agrees(phone, Mailbox, convs, touched, d) \/ d \in owed' \/ InStream(stream', d)
      <4>1. CASE d = c
        BY <1>3, <2>1, <2>2, <4>1 DEF InStream
      <4>2. CASE d # c
        BY <1>1, <1>5, <3>1, <4>2 DEF InStream, StreamGrows
      <4> QED
        BY <4>1, <4>2
    <3> QED
      BY <1>1, <1>6, <1>m, <3>1 DEF SyncInv, ListInv
  <2> QED
    BY <2>3, <2>4, <2>u, <2>5, <2>6, <2>7 DEF SyncInv
<1>7. CASE stream = <<>> /\ stream' = stream /\ newest' = clock /\ doubtful' = TRUE
  <2>1. KnownInv'
    BY <1>1, <1>7 DEF SyncInv, KnownInv
  <2>2. TimesInv'
    BY <1>1, <1>2, <1>7 DEF SyncInv, TimesInv
  <2>3. NewsInv' /\ UpdatesInv'
    BY <1>7 DEF NewsInv, UpdatesInv
  <2>4. SnapInv'
    <3> SUFFICES ASSUME NEW p \in Procs, HasList(pc, p), snap[p].at = clock \/ snap[p].at >= clock
                 PROVE  \A d \in Convs : Agrees(phone, Mailbox, snap[p].list, {}, d)
      BY <1>1, <1>7, <1>m DEF SnapInv
    <3>1. snap[p].at <= clock /\ snap[p].at \in Nat
      BY DEF SyncInv, TimesInv, ListTypes
    <3>2. snap[p].at = clock
      BY <1>2, <3>1
    <3> QED
      BY <3>2 DEF SyncInv, SnapInv
  <2>5. ListInv'
    BY <1>7 DEF ListInv
  <2> QED
    BY <2>1, <2>2, <2>3, <2>4, <2>5 DEF SyncInv
<1> QED
  BY <1>4, <1>6, <1>7

\* A message that is sent again joins the stream and tells nothing.
LEMMA UpdateKeeps ==
    ASSUME ListTypes, SyncInv, NEW c \in Convs, NEW time \in 0..clock, NEW mine \in BOOLEAN,
           PhoneUpdates(c, time, mine)
    PROVE  SyncInv'
<1> DEFINE e == [conv |-> c, at |-> clock, time |-> time, mine |-> mine]
<1>0. clock \in Nat
  BY DEF ListTypes
<1>1. /\ c \in Held(phone) /\ time <= phone[c].time /\ live /\ Sends(e)
      /\ UNCHANGED <<convs, touched, phone, archived, owed, clock, pc, snap, target>>
  BY DEF PhoneUpdates, listVars, callVars, Held
<1>2. e \in Events /\ e.conv = c /\ e.at = clock /\ e.time = time /\ ~Tells(e)
  BY <1>0 DEF Events, Updates, Tells
<1> HIDE DEF e
<1>3. stream' = Append(stream, e) /\ UNCHANGED <<newest, doubtful>>
  BY <1>1 DEF Sends, histVars
<1>4. /\ Len(stream') = Len(stream) + 1 /\ Len(stream) \in Nat /\ stream'[Len(stream) + 1] = e
      /\ \A i \in 1..Len(stream') : i \in 1..Len(stream) \/ i = Len(stream) + 1
      /\ \A i \in 1..Len(stream) : stream'[i] = stream[i] /\ i \in 1..Len(stream')
  BY <1>2, <1>3, Appended DEF ListTypes
<1>m. Mailbox' = Mailbox
  BY <1>1 DEF Mailbox
<1>k. ProcsKept
  BY <1>1 DEF ProcsKept, SyncInv, KnownInv
<1>5. KnownInv'
  <2>1. \A i \in 1..Len(stream') : stream'[i].conv \in Held(phone)
    BY <1>1, <1>2, <1>4 DEF SyncInv, KnownInv
  <2> QED
    BY <1>1, <2>1 DEF SyncInv, KnownInv
<1>6. TimesInv'
  <2>1. \A i \in 1..Len(stream) : stream[i].at \in Nat /\ stream[i].at <= clock
    BY EventKinds DEF SyncInv, TimesInv, ListTypes
  <2>2. \A i \in 1..Len(stream') : stream'[i].at <= clock
    BY <1>0, <1>2, <1>4, <2>1
  <2>3. ASSUME NEW i \in 1..Len(stream'), NEW j \in 1..Len(stream'), i < j
        PROVE  stream'[i].at <= stream'[j].at
    <3>1. i \in 1..Len(stream)
      BY <1>4, <2>3
    <3>2. CASE j \in 1..Len(stream)
      BY <1>4, <2>3, <3>1, <3>2 DEF SyncInv, TimesInv
    <3>3. CASE j = Len(stream) + 1
      BY <1>2, <1>4, <2>1, <3>1, <3>3
    <3> QED
      BY <1>4, <3>2, <3>3
  <2> QED
    BY <1>1, <1>3, <2>2, <2>3 DEF SyncInv, TimesInv
<1>7. UpdatesInv'
  BY <1>1, <1>2, <1>4 DEF SyncInv, UpdatesInv
<1>8. NewsInv'
  <2> SUFFICES ASSUME NEW i \in 1..Len(stream'), Tells(stream'[i])
               PROVE  \/ stream'[i].conv \in owed
                      \/ "news" \in DOMAIN stream'[i] /\ stream'[i].news = phone[stream'[i].conv]
                      \/ \E j \in 1..Len(stream') :
                            i < j /\ stream'[j].conv = stream'[i].conv /\ Tells(stream'[j])
    BY <1>1 DEF NewsInv
  <2>1. i \in 1..Len(stream)
    BY <1>2, <1>4
  <2> QED
    BY <1>4, <2>1 DEF SyncInv, NewsInv
<1>9. SnapInv' /\ ListInv'
  <2>1. \A d \in Convs : InStream(stream, d) => InStream(stream', d)
    BY <1>4 DEF InStream
  <2>2. \A d \in Convs, n \in Nat : InStreamLater(stream, d, n) => InStreamLater(stream', d, n)
    BY <1>4 DEF InStreamLater
  <2>3. \A p \in Procs : snap[p].at \in Nat
    BY DEF ListTypes
  <2>4. SnapInv'
    BY <1>1, <1>3, <1>m, <2>2, <2>3 DEF SyncInv, SnapInv
  <2>5. ListInv'
    BY <1>1, <1>3, <1>m, <2>1 DEF SyncInv, ListInv
  <2> QED
    BY <2>4, <2>5
<1> QED
  BY <1>5, <1>6, <1>7, <1>8, <1>9 DEF SyncInv

\* What is lost with the long poll counts as news that was missed.
LEMMA HangupKeeps ==
    ASSUME ListTypes, SyncInv, Hangup, ProcsKept,
           UNCHANGED <<convs, touched, phone, archived, owed, clock>>
    PROVE  SyncInv'
<1>1. Len(stream') = 0
  BY DEF Hangup
<1>2. KnownInv' /\ UpdatesInv' /\ NewsInv'
  BY <1>1 DEF SyncInv, KnownInv, ProcsKept, UpdatesInv, NewsInv
<1>m. Mailbox' = Mailbox
  BY DEF Mailbox
<1>3. newest' \in Nat /\ newest' <= clock /\ newest' >= newest
      /\ \A i \in 1..Len(stream) : newest' >= stream[i].at
      /\ (stream = <<>> \/ doubtful' = TRUE) /\ (stream = <<>> => UNCHANGED doubtful)
  <2>1. CASE stream = <<>>
    BY <2>1 DEF SyncInv, TimesInv, Hangup, histVars, ListTypes
  <2>2. CASE stream # <<>>
    <3> DEFINE n == Len(stream)
    <3>1. n \in Nat /\ n > 0 /\ n \in 1..n /\ Last(stream) = stream[n]
      BY <2>2 DEF ListTypes, Last
    <3>2. \A i \in 1..n : stream[i].at \in Nat /\ stream[i].at <= clock
                         /\ stream[i].at <= stream[n].at
      <4> TAKE i \in 1..n
      <4>1. stream[i].at \in Nat /\ stream[i].at <= clock
        BY EventKinds DEF SyncInv, TimesInv, ListTypes
      <4>2. CASE i = n
        BY <4>1, <4>2
      <4>3. CASE i # n
        <5>1. i < n
          BY <3>1, <4>3
        <5> QED
          BY <3>1, <4>1, <5>1 DEF SyncInv, TimesInv
      <4> QED
        BY <4>1, <4>2, <4>3
    <3>3. newest' = Later(newest, stream[n].at) /\ doubtful' = TRUE
      BY <2>2, <3>1 DEF Hangup
    <3> HIDE DEF n
    <3>4. newest \in Nat /\ newest <= clock /\ clock \in Nat
      BY DEF SyncInv, TimesInv, ListTypes
    <3>5. newest' \in Nat /\ newest' <= clock /\ newest' >= newest /\ newest' >= stream[n].at
      BY <3>1, <3>2, <3>3, <3>4 DEF Later
    <3>6. \A i \in 1..n : newest' >= stream[i].at
      BY <3>1, <3>2, <3>5
    <3> QED
      BY <2>2, <3>3, <3>5, <3>6 DEF n
  <2> QED
    BY <2>1, <2>2
<1>4. TimesInv'
  BY <1>1, <1>3 DEF SyncInv, TimesInv, ProcsKept
<1>5. SnapInv'
  <2> SUFFICES ASSUME NEW p \in Procs, HasList(pc', p)
               PROVE  /\ snap'[p].at = clock =>
                               \A d \in Convs : Agrees(phone, Mailbox, snap'[p].list, {}, d)
                      /\ snap'[p].at >= newest' =>
                            \A d \in Convs : \/ Agrees(phone, Mailbox, snap'[p].list, {}, d)
                                             \/ d \in owed
    BY <1>m DEF SnapInv
  <2>1. HasList(pc, p) /\ snap'[p] = snap[p] /\ snap[p].at \in Nat
    BY DEF ProcsKept, ListTypes
  <2>2. ASSUME snap[p].at >= newest', NEW d \in Convs
        PROVE  Agrees(phone, Mailbox, snap[p].list, {}, d) \/ d \in owed
    <3>1. snap[p].at >= newest
      BY <1>3, <2>1, <2>2 DEF SyncInv, TimesInv
    <3>2. ~InStreamLater(stream, d, snap[p].at)
      <4> SUFFICES ASSUME NEW i \in 1..Len(stream) PROVE ~(stream[i].at > snap[p].at)
        BY DEF InStreamLater
      <4>1. stream[i].at \in Nat
        BY EventKinds DEF ListTypes
      <4> QED
        BY <1>3, <2>1, <2>2, <4>1
    <3> QED
      BY <2>1, <3>1, <3>2 DEF SyncInv, SnapInv
  <2> QED
    BY <2>1, <2>2 DEF SyncInv, SnapInv
<1>6. ListInv'
  <2>1. CASE stream = <<>>
    <3>1. doubtful' = doubtful
      BY <2>1, Zenon DEF Hangup, histVars
    <3>2. \A c \in Convs : ~InStream(stream, c)
      BY <2>1 DEF InStream
    <3> QED
      BY <1>m, <3>1, <3>2 DEF SyncInv, ListInv
  <2>2. CASE stream # <<>>
    BY <1>3, <2>2 DEF ListInv
  <2> QED
    BY <2>1, <2>2
<1> QED
  BY <1>2, <1>4, <1>5, <1>6 DEF SyncInv

\* The list the phone gives is true at that moment.
LEMMA ListingKeeps ==
    ASSUME ListTypes, SyncInv, NEW p \in Procs, ListConversations(p)
    PROVE  SyncInv'
<1>1. /\ snap' = [snap EXCEPT ![p] = [list |-> Inbox, at |-> clock]]
      /\ UNCHANGED <<convs, touched, target, phone, archived, owed, stream, clock, newest,
                     doubtful>>
      /\ pc' = [pc EXCEPT ![p] = "replace"] \/ pc' = [pc EXCEPT ![p] = "readyReplace"]
  BY DEF ListConversations, Goto, listVars, phoneVars, histVars
<1>m. Mailbox' = Mailbox
  BY <1>1 DEF Mailbox
<1>2. Top(Mailbox) \subseteq Held(phone) /\ ToSet(Reordered(Mailbox)) = Top(Mailbox)
  <2>1. ToSet(Reordered(Mailbox)) = Top(Mailbox)
    BY InboxTyped, ReorderedServes, TypedKeyed
  <2>2. Held(Mailbox) \subseteq Held(phone)
    BY DEF Mailbox, Held
  <2> QED
    BY <2>1, <2>2 DEF Top
<1>3. \A c \in Convs : Inbox[c] = IF c \in Top(Mailbox) THEN phone[c] ELSE Absent
  BY <1>2 DEF Inbox
<1>4. \A c \in Convs : Agrees(phone, Mailbox, Inbox, {}, c)
  <2> TAKE c \in Convs
  <2>1. CASE c \in Top(Mailbox)
    <3>1. Inbox[c] = phone[c] /\ phone[c] \in News /\ phone[c] # Absent
      BY <1>2, <1>3, <2>1 DEF ListTypes, Lists, Held
    <3> QED
      BY <3>1 DEF Agrees
  <2>2. CASE c \notin Top(Mailbox)
    BY <1>3, <2>2 DEF Agrees
  <2> QED
    BY <2>1, <2>2
<1>5. Held(Inbox) \subseteq Held(phone)
  BY <1>2, <1>3 DEF Held
<1>6. /\ DOMAIN pc = Procs /\ DOMAIN snap = Procs
      /\ snap'[p].list = Inbox /\ snap'[p].at = clock /\ ~HasTarget(pc', p)
      /\ \A q \in Procs \ {p} : snap'[q] = snap[q] /\ pc'[q] = pc[q]
      /\ DOMAIN pc' = Procs
  BY <1>1 DEF SyncInv, KnownInv, ListTypes, HasTarget
<1>7. KnownInv'
  BY <1>1, <1>5, <1>6 DEF SyncInv, KnownInv, HasList, HasTarget
<1>8. TimesInv'
  <2>1. clock \in Nat
    BY DEF ListTypes
  <2> QED
    BY <1>1, <1>6, <2>1 DEF SyncInv, TimesInv, HasList
<1>9. NewsInv' /\ UpdatesInv' /\ ListInv'
  BY <1>1, <1>m DEF SyncInv, NewsInv, UpdatesInv, ListInv
<1>10. SnapInv'
  BY <1>1, <1>m, <1>4, <1>6 DEF SyncInv, SnapInv, HasList
<1> QED
  BY <1>7, <1>8, <1>9, <1>10 DEF SyncInv

\* A list that is written over the one that is held is as true as it was in hand, or older than
\* news that came: then it is doubtful.
LEMMA ReplaceKeeps ==
    ASSUME ListTypes, SyncInv, NEW p \in Procs, NEW label \in {"idle", "readyState"},
           HasList(pc, p), Replace(p, label)
    PROVE  SyncInv'
<1> DEFINE s == snap[p]
<1>1. /\ convs' = [c \in Convs |-> IF s.list[c] = Absent THEN Absent ELSE Converted(s.list[c], c)]
      /\ doubtful' = (s.at < newest) /\ newest' = Later(newest, s.at)
      /\ snap' = [snap EXCEPT ![p] = NoSnap] /\ pc' = [pc EXCEPT ![p] = label]
      /\ touched' = {} /\ UNCHANGED <<target, phone, archived, owed, stream, clock>>
  BY DEF Replace, Goto, phoneVars
<1>2. s.list \in Lists /\ s.at \in Nat /\ s.at <= clock /\ newest \in Nat /\ newest <= clock
      /\ Held(s.list) \subseteq Held(phone)
  BY DEF ListTypes, SyncInv, KnownInv, TimesInv
<1>3. ProcsKept
  BY <1>1 DEF SyncInv, KnownInv, ListTypes, ProcsKept, HasList, HasTarget
<1>4. newest' \in Nat /\ newest' <= clock /\ newest' >= newest
  BY <1>1, <1>2 DEF Later
<1>5. \A c \in Convs : /\ convs'[c] = Absent <=> s.list[c] = Absent
                       /\ s.list[c] # Absent => Same(convs'[c], s.list[c])
  <2> TAKE c \in Convs
  <2>1. CASE s.list[c] = Absent
    BY <1>1, <2>1
  <2>2. CASE s.list[c] # Absent
    <3>1. convs'[c] = Converted(s.list[c], c) /\ s.list[c] \in News
      BY <1>1, <1>2, <2>2 DEF Lists
    <3>2. convs'[c] # Absent
      BY <3>1, ConvertedTyped, AbsentAssumption
    <3> HIDE DEF s
    <3>3. Same(convs'[c], s.list[c])
      BY <3>1 DEF Same, Converted
    <3> QED
      BY <2>2, <3>2, <3>3
  <2> QED
    BY <2>1, <2>2
<1>6. KnownInv'
  <2>1. Held(convs') \subseteq Held(phone)
    BY <1>2, <1>5 DEF Held
  <2> QED
    BY <1>1, <1>3, <2>1 DEF SyncInv, KnownInv, ProcsKept
<1>7. TimesInv'
  BY <1>1, <1>3, <1>4 DEF SyncInv, TimesInv, ProcsKept
<1>8. NewsInv' /\ UpdatesInv'
  BY <1>1 DEF SyncInv, NewsInv, UpdatesInv
<1>m. Mailbox' = Mailbox
  BY <1>1 DEF Mailbox
<1>9. SnapInv'
  <2> SUFFICES ASSUME NEW q \in Procs, HasList(pc', q)
               PROVE  /\ snap'[q].at = clock =>
                               \A d \in Convs : Agrees(phone, Mailbox, snap'[q].list, {}, d)
                      /\ snap'[q].at >= newest' =>
                            \A d \in Convs : \/ Agrees(phone, Mailbox, snap'[q].list, {}, d)
                                             \/ d \in owed
                                             \/ InStreamLater(stream, d, snap'[q].at)
    BY <1>1, <1>m DEF SnapInv
  <2>1. HasList(pc, q) /\ snap'[q] = snap[q] /\ snap[q].at \in Nat
    BY <1>3 DEF ProcsKept, ListTypes
  <2>2. snap[q].at >= newest' => snap[q].at >= newest
    BY <1>2, <1>4, <2>1
  <2> QED
    BY <2>1, <2>2 DEF SyncInv, SnapInv
<1>10. ListInv'
  <2> SUFFICES ASSUME ~doubtful', NEW c \in Convs
               PROVE  \/ Agrees(phone, Mailbox, convs', touched', c)
                      \/ c \in owed \/ InStream(stream, c)
    BY <1>1, <1>m DEF ListInv
  <2> HIDE DEF s
  <2>a. ~(s.at < newest)
    BY <1>1, Zenon
  <2>1. s.at >= newest
    BY <1>2, <2>a
  <2>2. Agrees(phone, Mailbox, s.list, {}, c) \/ c \in owed \/ InStream(stream, c)
    BY <2>1 DEF s, SyncInv, SnapInv, InStream, InStreamLater
  <2>3. Agrees(phone, Mailbox, s.list, {}, c) => Agrees(phone, Mailbox, convs', touched', c)
    BY <1>1, <1>5 DEF Agrees, Same
  <2> QED
    BY <2>2, <2>3
<1> QED
  BY <1>6, <1>7, <1>8, <1>9, <1>10 DEF SyncInv

\* Clearing the flag is right unless the phone's is still set: then the list is doubtful.
LEMMA ClearKeeps ==
    ASSUME ListTypes, SyncInv, NEW p \in Procs, ClearUnread(p)
    PROVE  SyncInv'
<1> DEFINE c == target[p]
<1>1. /\ IF convs[c] # Absent THEN convs' = [convs EXCEPT ![c].unread = FALSE] ELSE UNCHANGED convs
      /\ touched' = touched \ {c}
      /\ doubtful' = (doubtful \/ phone[c].unread)
      /\ pc' = [pc EXCEPT ![p] = "idle"] /\ snap' = [snap EXCEPT ![p] = NoSnap]
      /\ target' = [target EXCEPT ![p] = SomeConv]
      /\ UNCHANGED <<phone, archived, owed, stream, clock, newest>>
  BY DEF ClearUnread, MarkEnds, Goto, phoneVars
<1>2. c \in Held(phone) /\ c \in Convs /\ phone[c] \in News
  BY DEF ClearUnread, At, SyncInv, KnownInv, HasTarget, Held, ListTypes, Lists
<1>3. ProcsKept
  BY <1>1 DEF SyncInv, KnownInv, ListTypes, ProcsKept, HasList, HasTarget
<1>m. Mailbox' = Mailbox
  BY <1>1 DEF Mailbox
<1> HIDE DEF c
<1>4. /\ \A d \in Convs : d # c => convs'[d] = convs[d]
      /\ convs'[c] = Absent <=> convs[c] = Absent
      /\ convs[c] # Absent => /\ convs'[c].time = convs[c].time
                              /\ convs'[c].pinned = convs[c].pinned
                              /\ convs'[c].unread = FALSE
  <2>1. CASE convs[c] = Absent
    BY <1>1, <2>1
  <2>2. CASE convs[c] # Absent
    <3> DEFINE r == convs[c]
               n == [r EXCEPT !.unread = FALSE]
    <3>1. r \in Conversation /\ convs' = [convs EXCEPT ![c] = n]
      BY <1>1, <1>2, <2>2 DEF ListTypes
    <3>2. /\ n \in Conversation /\ n.time = r.time /\ n.pinned = r.pinned /\ n.unread = FALSE
      BY <3>1 DEF Conversation
    <3> HIDE DEF n, r
    <3>3. convs'[c] = n /\ \A d \in Convs : d # c => convs'[d] = convs[d]
      BY <1>2, <3>1 DEF ListTypes
    <3> QED
      BY <2>2, <3>2, <3>3, AbsentAssumption DEF r
  <2> QED
    BY <2>1, <2>2
<1>5. KnownInv' /\ TimesInv' /\ UpdatesInv' /\ NewsInv'
  <2>1. Held(convs') = Held(convs)
    BY <1>2, <1>4 DEF Held
  <2> QED
    BY <1>1, <1>3, <2>1 DEF SyncInv, KnownInv, TimesInv, UpdatesInv, NewsInv, ProcsKept
<1>6. SnapInv'
  BY <1>1, <1>3, <1>m DEF SyncInv, SnapInv, ProcsKept
<1>7. ListInv'
  <2> SUFFICES ASSUME ~doubtful', NEW d \in Convs, Agrees(phone, Mailbox, convs, touched, d)
               PROVE  Agrees(phone, Mailbox, convs', touched', d)
    BY <1>1, <1>m DEF SyncInv, ListInv
  <2>1. ~phone[c].unread
    BY <1>1
  <2>2. CASE d # c
    BY <1>1, <1>4, <2>2 DEF Agrees
  <2>3. CASE d = c
    BY <1>1, <1>4, <2>1, <2>3 DEF Agrees
  <2> QED
    BY <2>2, <2>3
<1> QED
  BY <1>5, <1>6, <1>7 DEF SyncInv

\* An empty list is doubtful.
LEMMA ClearAllKeeps ==
    ASSUME ListTypes, SyncInv, NEW p \in Procs, UnpairClear(p)
    PROVE  SyncInv'
<1>1. /\ convs' = Nothing /\ doubtful' = TRUE /\ pc' = [pc EXCEPT ![p] = "unpairState"]
      /\ UNCHANGED <<snap, target, phone, archived, owed, stream, clock, newest>>
  BY DEF UnpairClear, Goto, phoneVars
<1>2. ProcsKept
  BY <1>1 DEF SyncInv, KnownInv, ProcsKept, HasList, HasTarget
<1>3. Held(convs') = {}
  BY <1>1 DEF Held, Nothing
<1>m. Mailbox' = Mailbox
  BY <1>1 DEF Mailbox
<1>4. KnownInv' /\ TimesInv' /\ UpdatesInv' /\ NewsInv' /\ SnapInv'
  BY <1>1, <1>2, <1>3, <1>m
     DEF SyncInv, KnownInv, TimesInv, UpdatesInv, NewsInv, SnapInv, ProcsKept
<1>5. ListInv'
  BY <1>1 DEF ListInv
<1> QED
  BY <1>4, <1>5 DEF SyncInv

\* A sequence without its first event.
LEMMA Shifted ==
    ASSUME NEW st \in Seq(Events), st # <<>>
    PROVE  /\ Tail(st) \in Seq(Events) /\ Len(st) \in Nat /\ Len(Tail(st)) = Len(st) - 1
           /\ 1 \in 1..Len(st) /\ Head(st) = st[1]
           /\ \A i \in 1..Len(Tail(st)) : i + 1 \in 1..Len(st) /\ Tail(st)[i] = st[i + 1]
           /\ \A i \in 1..Len(st) : i # 1 => i - 1 \in 1..Len(Tail(st)) /\ Tail(st)[i - 1] = st[i]
OBVIOUS

\* handleEvent: the last word on a conversation makes the list true of it, and any other leaves
\* a later one to come.
LEMMA EventKeeps ==
    ASSUME ListTypes, SyncInv, HandleEvent
    PROVE  SyncInv'
<1> DEFINE e == stream[1]
           c == e.conv
<1>1. /\ stream # <<>> /\ stream' = Tail(stream) /\ newest' = Later(newest, Head(stream).at)
      /\ \/ /\ "news" \in DOMAIN Head(stream)
            /\ Upsert(Head(stream).conv, Head(stream).news)
         \/ /\ "time" \in DOMAIN Head(stream)
            /\ Touch(Head(stream).conv, Head(stream).time, Head(stream).mine, TRUE)
         \/ /\ {"news", "time"} \cap DOMAIN Head(stream) = {}
            /\ Touch(Head(stream).conv, Head(stream).at, Head(stream).mine, FALSE)
      /\ UNCHANGED <<pc, snap, target, phone, archived, owed, clock, doubtful>>
  BY DEF HandleEvent, callVars
<1>2. /\ Len(stream) \in Nat /\ Len(stream') = Len(stream) - 1 /\ 1 \in 1..Len(stream)
      /\ Head(stream) = e
      /\ \A i \in 1..Len(stream') : i + 1 \in 1..Len(stream) /\ stream'[i] = stream[i + 1]
      /\ \A i \in 1..Len(stream) : i # 1 => i - 1 \in 1..Len(stream') /\ stream'[i - 1] = stream[i]
  BY <1>1, Shifted DEF ListTypes
<1>3. /\ c \in Held(phone) /\ c \in Convs /\ e.at \in Nat /\ e.at <= clock
      /\ "news" \in DOMAIN e => e.news \in News /\ Tells(e)
      /\ "time" \in DOMAIN e => e.time \in Nat /\ "news" \notin DOMAIN e
      /\ "time" \in DOMAIN e => e.time <= phone[c].time
  <2>1. /\ e.conv \in Convs /\ e.at \in Nat
        /\ "news" \in DOMAIN e => e \in ConversationEvents
        /\ "time" \in DOMAIN e => e \in Updates
    BY <1>1, <1>2, HeadTyped, EventKinds
  <2>2. e.conv \in Held(phone) /\ e.at <= clock
    BY <1>2 DEF SyncInv, KnownInv, TimesInv
  <2>3. "time" \in DOMAIN e => e.time <= phone[c].time
    BY <1>2 DEF SyncInv, UpdatesInv, Tells
  <2> QED
    BY <2>1, <2>2, <2>3, EventKinds DEF ConversationEvents, Updates, Tells
<1>4. "news" \in DOMAIN e => /\ convs' = [convs EXCEPT ![c] = Converted(e.news, c)]
                             /\ touched' = touched \ {c}
  <2> SUFFICES ASSUME "news" \in DOMAIN e
               PROVE  /\ convs' = [convs EXCEPT ![c] = Converted(e.news, c)]
                      /\ touched' = touched \ {c}
    OBVIOUS
  <2>1. Upsert(c, e.news)
    BY <1>1, <1>2, <1>3
  <2> QED
    BY <1>3, <2>1, UpsertTyped DEF Upsert, Accepts
<1>5. /\ DOMAIN convs = Convs
      /\ \A d \in Convs : d # c => convs'[d] = convs[d] /\ (d \in touched' <=> d \in touched)
  <2>1. CASE "news" \in DOMAIN e
    BY <1>4, <2>1 DEF ListTypes
  <2>2. CASE "news" \notin DOMAIN e
    <3>1. Touch(c, e.time, e.mine, TRUE) \/ Touch(c, e.at, e.mine, FALSE)
      BY <1>1, <1>2, <2>2
    <3>2. ASSUME NEW time, NEW update, Touch(c, time, e.mine, update)
          PROVE  \A d \in Convs :
                    d # c => convs'[d] = convs[d] /\ (d \in touched' <=> d \in touched)
      BY <3>2 DEF Touch, listVars, ListTypes
    <3> QED
      BY <3>1, <3>2 DEF ListTypes
  <2> QED
    BY <2>1, <2>2
<1>t. ASSUME ~Tells(e) PROVE Touch(c, e.time, e.mine, TRUE)
  BY <1>1, <1>2, <1>3, <1>t DEF Tells
<1>m. Mailbox' = Mailbox
  BY <1>1 DEF Mailbox
<1> HIDE DEF e, c
<1>6. ProcsKept
  BY <1>1 DEF ProcsKept, SyncInv, KnownInv
<1>7. KnownInv'
  <2>1. Held(convs') \subseteq Held(phone)
    BY <1>3, <1>5 DEF Held, SyncInv, KnownInv
  <2>2. \A i \in 1..Len(stream') : stream'[i].conv \in Held(phone)
    BY <1>2 DEF SyncInv, KnownInv
  <2> QED
    BY <1>1, <2>1, <2>2 DEF SyncInv, KnownInv
<1>8. newest' \in Nat /\ newest' <= clock /\ newest' >= newest /\ newest' >= e.at
  BY <1>1, <1>2, <1>3 DEF Later, SyncInv, TimesInv
<1>9. TimesInv'
  <2>1. \A i \in 1..Len(stream') : stream'[i].at <= clock
    BY <1>2 DEF SyncInv, TimesInv
  <2>2. ASSUME NEW i \in 1..Len(stream'), NEW j \in 1..Len(stream'), i < j
        PROVE  stream'[i].at <= stream'[j].at
    <3>1. i + 1 \in 1..Len(stream) /\ j + 1 \in 1..Len(stream) /\ i + 1 < j + 1
      BY <1>2, <2>2
    <3> QED
      BY <1>2, <3>1 DEF SyncInv, TimesInv
  <2> QED
    BY <1>1, <1>8, <2>1, <2>2 DEF SyncInv, TimesInv
<1>u. UpdatesInv'
  BY <1>1, <1>2 DEF SyncInv, UpdatesInv
<1>10. NewsInv'
  <2> SUFFICES ASSUME NEW i \in 1..Len(stream'), Tells(stream'[i])
               PROVE  \/ stream'[i].conv \in owed
                      \/ "news" \in DOMAIN stream'[i] /\ stream'[i].news = phone[stream'[i].conv]
                      \/ \E j \in 1..Len(stream') :
                            i < j /\ stream'[j].conv = stream'[i].conv /\ Tells(stream'[j])
    BY <1>1 DEF NewsInv
  <2>1. i + 1 \in 1..Len(stream) /\ stream'[i] = stream[i + 1]
    BY <1>2
  <2>2. ASSUME NEW j \in 1..Len(stream), i + 1 < j, stream[j].conv = stream[i + 1].conv,
               Tells(stream[j])
        PROVE  \E k \in 1..Len(stream') :
                  i < k /\ stream'[k].conv = stream'[i].conv /\ Tells(stream'[k])
    <3>1. j - 1 \in 1..Len(stream') /\ stream'[j - 1] = stream[j] /\ i < j - 1
      BY <1>2, <2>2
    <3> QED
      BY <2>1, <2>2, <3>1
  <2> QED
    BY <2>1, <2>2 DEF SyncInv, NewsInv
<1>11. SnapInv'
  <2> SUFFICES ASSUME NEW p \in Procs, HasList(pc, p)
               PROVE  /\ snap[p].at = clock =>
                               \A d \in Convs : Agrees(phone, Mailbox, snap[p].list, {}, d)
                      /\ snap[p].at >= newest' =>
                            \A d \in Convs : \/ Agrees(phone, Mailbox, snap[p].list, {}, d)
                                             \/ d \in owed
                                             \/ InStreamLater(stream', d, snap[p].at)
    BY <1>1, <1>m DEF SnapInv
  <2>1. snap[p].at \in Nat
    BY DEF ListTypes
  <2>2. ASSUME snap[p].at >= newest', NEW d \in Convs
        PROVE  \/ Agrees(phone, Mailbox, snap[p].list, {}, d) \/ d \in owed
               \/ InStreamLater(stream', d, snap[p].at)
    <3>1. snap[p].at >= newest /\ ~(e.at > snap[p].at)
      BY <1>3, <1>8, <2>1, <2>2 DEF SyncInv, TimesInv
    <3>2. ASSUME InStreamLater(stream, d, snap[p].at) PROVE InStreamLater(stream', d, snap[p].at)
      <4>1. PICK i \in 1..Len(stream) :
               stream[i].conv = d /\ stream[i].at > snap[p].at /\ Tells(stream[i])
        BY <3>2 DEF InStreamLater
      <4>2. i # 1
        BY <3>1, <4>1 DEF e
      <4>3. i - 1 \in 1..Len(stream') /\ stream'[i - 1] = stream[i]
        BY <1>2, <4>2
      <4> QED
        BY <4>1, <4>3 DEF InStreamLater
    <3> QED
      BY <3>1, <3>2 DEF SyncInv, SnapInv
  <2> QED
    BY <2>2 DEF SyncInv, SnapInv
<1>12. ListInv'
  <2> SUFFICES ASSUME NEW d \in Convs,
                      \/ Agrees(phone, Mailbox, convs, touched, d)
                      \/ d \in owed \/ InStream(stream, d)
               PROVE  \/ Agrees(phone, Mailbox, convs', touched', d)
                      \/ d \in owed \/ InStream(stream', d)
    BY <1>1, <1>m DEF SyncInv, ListInv
  <2>1. ASSUME NEW i \in 1..Len(stream), i # 1, stream[i].conv = d, Tells(stream[i])
        PROVE  InStream(stream', d)
    BY <1>2, <2>1 DEF InStream
  <2>2. CASE d # c
    <3>1. Agrees(phone, Mailbox, convs, touched, d) => Agrees(phone, Mailbox, convs', touched', d)
      BY <1>5, <2>2 DEF Agrees
    <3>2. InStream(stream, d) => InStream(stream', d)
      BY <2>1, <2>2 DEF InStream, c, e
    <3> QED
      BY <3>1, <3>2
  <2>3. CASE d = c /\ Tells(e)
    <3>1. \/ c \in owed
          \/ "news" \in DOMAIN e /\ e.news = phone[c]
          \/ \E j \in 1..Len(stream) : 1 < j /\ stream[j].conv = c /\ Tells(stream[j])
      <4>1. 1 \in 1..Len(stream) /\ NewsInv
        BY <1>2 DEF SyncInv
      <4> QED
        BY <2>3, <4>1 DEF NewsInv, c, e
    <3>2. ASSUME "news" \in DOMAIN e, e.news = phone[c]
          PROVE  Agrees(phone, Mailbox, convs', touched', c)
      <4>1. convs'[c] = Converted(phone[c], c) /\ phone[c] \in News /\ c \notin touched'
        BY <1>3, <1>4, <1>5, <3>2
      <4>2. convs'[c] # Absent
        BY <4>1, ConvertedTyped, AbsentAssumption
      <4>3. Same(convs'[c], phone[c])
        BY <4>1 DEF Same, Converted
      <4> QED
        BY <4>1, <4>2, <4>3 DEF Agrees, Same
    <3>3. ASSUME NEW j \in 1..Len(stream), 1 < j, stream[j].conv = c, Tells(stream[j])
          PROVE  InStream(stream', c)
      BY <2>1, <2>3, <3>3
    <3> QED
      BY <2>3, <3>1, <3>2, <3>3
  <2>4. CASE d = c /\ ~Tells(e)
    <3>1. InStream(stream, d) => InStream(stream', d)
      BY <2>1, <2>4 DEF InStream, e
    <3>2. ASSUME Agrees(phone, Mailbox, convs, touched, c)
          PROVE  Agrees(phone, Mailbox, convs', touched', c)
      <4>1. CASE convs' = convs /\ touched' = touched
        BY <3>2, <4>1
      <4>2. CASE ~(convs' = convs /\ touched' = touched)
        <5> DEFINE w == convs[c]
                   n == [w EXCEPT !.time = e.time, !.unread = @ \/ ~e.mine]
        <5>1. /\ w # Absent /\ e.time >= w.time /\ convs' = [convs EXCEPT ![c] = n]
              /\ touched' = touched \cup {x \in {c} : TRUE /\ ~e.mine}
          BY <1>t, <2>4, <4>2 DEF Touch, listVars
        <5>2. w \in Conversation
          BY <1>3, <5>1 DEF ListTypes
        <5>3. /\ n.time = e.time /\ n.pinned = w.pinned /\ (n.unread <=> w.unread \/ ~e.mine)
              /\ n \in Conversation
          BY <1>3, <2>4, <5>2 DEF Conversation, Tells
        <5> HIDE DEF n
        <5>4. convs'[c] = n
          BY <1>3, <1>5, <5>1
        <5>5. e.time = phone[c].time
          <6>1. w.time = phone[c].time /\ w.time \in Nat
            BY <3>2, <5>1, <5>2 DEF Agrees, Conversation
          <6> QED
            BY <1>3, <2>4, <5>1, <6>1 DEF Tells
        <5>6. c \in touched' <=> c \in touched \/ ~e.mine
          BY <5>1
        <5>7. /\ w.pinned <=> phone[c].pinned
              /\ w.unread <=> phone[c].unread \/ c \in touched
          BY <3>2, <5>1 DEF Agrees
        <5>8. n.unread <=> phone[c].unread \/ c \in touched'
          BY <5>3, <5>6, <5>7
        <5>9. convs'[c] # Absent
          BY <5>3, <5>4, AbsentAssumption
        <5> QED
          BY <5>3, <5>4, <5>5, <5>7, <5>8, <5>9 DEF Agrees
      <4> QED
        BY <4>1, <4>2
    <3> QED
      BY <2>4, <3>1, <3>2
  <2> QED
    BY <2>2, <2>3, <2>4
<1> QED
  BY <1>7, <1>9, <1>u, <1>10, <1>11, <1>12 DEF SyncInv

\* The inbox of a phone that is well typed.
LEMMA MailboxTyped ==
    ASSUME ListTypes, phone' \in Lists
    PROVE  /\ Mailbox \in Lists /\ Mailbox' \in Lists
           /\ ToSet(Reordered(Mailbox)) = Top(Mailbox)
           /\ ToSet(Reordered(Mailbox')) = Top(Mailbox')
<1>1. Mailbox \in Lists /\ Mailbox' \in Lists
  BY InboxTyped DEF Mailbox, Lists
<1>2. Keyed(Mailbox) /\ Keyed(Mailbox')
  BY <1>1, TypedKeyed
<1> QED
  BY <1>1, <1>2, ReorderedServes

\* Others may rise into the inbox: then the list is doubtful.
LEMMA RisesMissed ==
    ASSUME ListTypes, phone' \in Lists, NEW c, Rises(c), UNCHANGED stream
    PROVE  Announced(c) \/ Missed
<1>1. CASE Top(Mailbox') \subseteq Top(Mailbox) \cup {c}
  <2>1. UNCHANGED histVars
    BY <1>1, MailboxTyped DEF Rises
  <2> QED
    BY <1>1, <2>1 DEF Announced, histVars
<1>2. CASE ~(Top(Mailbox') \subseteq Top(Mailbox) \cup {c})
  <2>1. newest' = clock' /\ doubtful' = TRUE
    BY <1>2, MailboxTyped DEF Rises
  <2> QED
    BY <2>1 DEF Missed
<1> QED
  BY <1>1, <1>2

\* A message makes its conversation rise, and is announced or missed.
LEMMA MessageChanges ==
    ASSUME ListTypes, SyncInv, NEW c \in Convs, NEW mine \in BOOLEAN, PhoneMessage(c, mine)
    PROVE  Change(c) /\ (Announced(c) \/ Missed)
<1> DEFINE old == IF phone[c] = Absent THEN Fresh ELSE phone[c]
           new == [old EXCEPT !.time = clock', !.unread = @ \/ ~mine]
           e == [conv |-> c, at |-> clock', mine |-> mine]
<1>1. /\ clock' = clock + 1 /\ phone' = [phone EXCEPT ![c] = new] /\ owed' = owed \cup {c}
      /\ archived' = archived \ {c} /\ Sends(e) /\ UNCHANGED <<convs, touched, pc, snap, target>>
  BY DEF PhoneMessage, Changes, listVars, callVars
<1>2. clock \in Nat /\ clock' \in Nat /\ phone \in Lists
  BY <1>1 DEF ListTypes
<1>3. old \in News /\ (c \in Held(phone) => old = phone[c])
  BY <1>2, FreshTyped DEF Lists, Held
<1>4. e \in Events /\ e.conv = c /\ e.at = clock' /\ Tells(e)
  BY <1>2 DEF Events, Messages, Tells
<1> HIDE DEF old, e
<1>5. new \in News /\ new.time = clock' /\ new.pinned = old.pinned
  BY <1>2, <1>3 DEF News
<1> HIDE DEF new
<1>6. /\ phone' \in Lists /\ phone'[c] = new /\ new # Absent
      /\ \A d \in Convs \ {c} : phone'[d] = phone[d]
  BY <1>1, <1>2, <1>5, AbsentAssumption DEF Lists
<1>t. \A d \in Held(phone) : phone[d].time <= clock /\ phone[d].time \in Nat
  BY TypedKeyed DEF SyncInv, TimesInv, ListTypes, Keyed
<1>7. Change(c)
  <2>1. ProcsKept
    BY <1>1 DEF ProcsKept, SyncInv, KnownInv
  <2>2. phone'[c].time <= clock'
    BY <1>2, <1>5, <1>6
  <2>3. c \in Held(phone) => phone[c].time <= phone'[c].time
    BY <1>1, <1>2, <1>5, <1>6, <1>t
  <2> QED
    BY <1>1, <1>6, <2>1, <2>2, <2>3 DEF Change
<1>8. Top(Mailbox') \subseteq Top(Mailbox) \cup {c}
  <2> DEFINE ph == Mailbox
             qh == Mailbox'
  <2>1. ph \in Lists /\ qh \in Lists
    BY <1>6, MailboxTyped
  <2>2. /\ qh[c] = new /\ \A d \in Convs \ {c} : qh[d] = ph[d]
        /\ c \in Held(ph) => c \in Held(phone) /\ ph[c] = phone[c]
    BY <1>1, <1>6 DEF Mailbox, Held
  <2> HIDE DEF ph, qh
  <2>3. ASSUME c \in Held(ph), NEW d \in Held(ph) \ {c}, Before(ph, c, d)
        PROVE  Before(qh, c, d)
    <3>1. qh[c].pinned = ph[c].pinned /\ qh[c].time > ph[c].time /\ qh[d] = ph[d]
      BY <1>1, <1>2, <1>3, <1>5, <1>t, <2>2, <2>3 DEF Held
    <3>2. ph[c].time \in Nat /\ qh[c].time \in Nat /\ ph[d].time \in Nat
      BY <1>2, <1>5, <2>1, <2>2, <2>3, TypedKeyed DEF Keyed
    <3> QED
      BY <2>3, <3>1, <3>2 DEF Before
  <2>4. Top(qh) \subseteq Top(ph) \cup {c}
    BY <1>6, <2>1, <2>2, <2>3, TopRises
  <2> QED
    BY <2>4 DEF ph, qh
<1>9. Announced(c) \/ Missed
  <2>1. CASE live
    BY <1>1, <1>4, <1>8, <2>1 DEF Sends, Announced, histVars
  <2>2. CASE ~live
    BY <1>1, <1>4, <2>2 DEF Sends, Missed
  <2> QED
    BY <2>1, <2>2
<1> QED
  BY <1>7, <1>9

\* Pinning or unpinning changes one conversation, and others may rise.
LEMMA PinChanges ==
    ASSUME ListTypes, SyncInv, NEW c \in Convs, PhonePins(c)
    PROVE  Change(c) /\ (Announced(c) \/ Missed)
<1> DEFINE new == [phone[c] EXCEPT !.pinned = ~@]
<1>1. /\ clock' = clock + 1 /\ phone' = [phone EXCEPT ![c] = new] /\ owed' = owed \cup {c}
      /\ UNCHANGED <<convs, touched, pc, snap, target, stream>> /\ phone[c] # Absent /\ Rises(c)
  BY DEF PhonePins, Changes, listVars, callVars
<1>2. clock \in Nat /\ clock' \in Nat /\ phone \in Lists /\ phone[c] \in News /\ c \in Held(phone)
  BY <1>1 DEF ListTypes, Lists, Held
<1>3. new \in News /\ new.time = phone[c].time
  BY <1>2 DEF News
<1> HIDE DEF new
<1>4. /\ phone' \in Lists /\ phone'[c] = new /\ new # Absent
      /\ \A d \in Convs \ {c} : phone'[d] = phone[d]
  BY <1>1, <1>2, <1>3, AbsentAssumption DEF Lists
<1>5. ProcsKept
  BY <1>1 DEF ProcsKept, SyncInv, KnownInv
<1>6. phone[c].time <= clock /\ phone[c].time \in Nat
  BY <1>2, TypedKeyed DEF SyncInv, TimesInv, Keyed
<1>7. phone'[c].time <= clock' /\ phone[c].time <= phone'[c].time
  BY <1>1, <1>2, <1>3, <1>4, <1>6
<1> QED
  BY <1>1, <1>4, <1>5, <1>7, RisesMissed DEF Change

\* So does archiving or bringing back.
LEMMA ArchiveChanges ==
    ASSUME ListTypes, SyncInv, NEW c \in Convs, PhoneArchives(c)
    PROVE  Change(c) /\ (Announced(c) \/ Missed)
<1>1. /\ clock' = clock + 1 /\ phone' = phone /\ owed' = owed \cup {c}
      /\ UNCHANGED <<convs, touched, pc, snap, target, stream>> /\ phone[c] # Absent /\ Rises(c)
  BY DEF PhoneArchives, Changes, listVars, callVars
<1>2. clock \in Nat /\ phone \in Lists /\ c \in Held(phone)
  BY <1>1 DEF ListTypes, Held
<1>3. ProcsKept
  BY <1>1 DEF ProcsKept, SyncInv, KnownInv
<1>4. phone[c].time <= clock /\ phone[c].time \in Nat
  BY <1>2, TypedKeyed DEF SyncInv, TimesInv, Keyed
<1>5. phone'[c].time <= clock' /\ phone[c].time <= phone'[c].time
  BY <1>1, <1>2, <1>4
<1> QED
  BY <1>1, <1>2, <1>3, <1>5, RisesMissed DEF Change

\* Marking leaves every place as it was.
LEMMA MarkChanges ==
    ASSUME ListTypes, SyncInv, NEW p \in Procs, PhoneMarks(p)
    PROVE  target[p] \in Convs /\ Change(target[p]) /\ Announced(target[p])
<1> DEFINE c == target[p]
           rest == phone[c].time > snap[p].at
           new == [phone[c] EXCEPT !.unread = @ /\ rest]
<1>1. /\ clock' = clock + 1 /\ phone' = [phone EXCEPT ![c] = new] /\ owed' = owed \cup {c}
      /\ snap' = [snap EXCEPT ![p] = NoSnap] /\ pc' = [pc EXCEPT ![p] = "clearUnread"]
      /\ UNCHANGED <<convs, touched, archived, target, stream, newest, doubtful>>
      /\ pc[p] = "mark"
  BY DEF PhoneMarks, Changes, listVars, histVars, At, Goto
<1>2. c \in Held(phone) /\ c \in Convs
  BY <1>1 DEF SyncInv, KnownInv, HasTarget, Held
<1>3. clock \in Nat /\ clock' \in Nat /\ phone \in Lists /\ phone[c] \in News
  BY <1>1, <1>2 DEF ListTypes, Lists, Held
<1>a. ProcsKept
  BY <1>1, <1>2 DEF ProcsKept, SyncInv, KnownInv, ListTypes, HasList, HasTarget
<1> HIDE DEF c, rest
<1>4. new \in News /\ new.time = phone[c].time /\ new.pinned = phone[c].pinned
  BY <1>3 DEF News
<1> HIDE DEF new
<1>5. /\ phone' \in Lists /\ phone'[c] = new /\ new # Absent
      /\ \A d \in Convs \ {c} : phone'[d] = phone[d]
  BY <1>1, <1>2, <1>3, <1>4, AbsentAssumption DEF Lists
<1>6. Change(c)
  <2>1. phone[c].time <= clock /\ phone[c].time \in Nat
    BY <1>2, <1>3, TypedKeyed DEF SyncInv, TimesInv, Keyed
  <2>2. phone'[c].time <= clock' /\ phone[c].time <= phone'[c].time
    BY <1>1, <1>3, <1>4, <1>5, <2>1
  <2> QED
    BY <1>1, <1>5, <1>a, <2>2 DEF Change
<1>7. Top(Mailbox') \subseteq Top(Mailbox) \cup {c}
  <2> DEFINE ph == Mailbox
             qh == Mailbox'
  <2>1. ph \in Lists /\ qh \in Lists
    BY <1>5, MailboxTyped
  <2>2. /\ \A d \in Convs \ {c} : qh[d] = ph[d]
        /\ c \in archived => qh[c] = ph[c]
        /\ c \notin archived => qh[c] = new /\ ph[c] = phone[c]
    BY <1>1, <1>2, <1>5 DEF Mailbox
  <2> HIDE DEF ph, qh
  <2>3. CASE c \in archived
    <3>1. qh = ph
      BY <2>1, <2>2, <2>3 DEF Lists
    <3> QED
      BY <3>1 DEF ph, qh
  <2>4. CASE c \notin archived
    <3>1. ASSUME NEW d \in Held(ph) \ {c}, Before(ph, c, d) PROVE Before(qh, c, d)
      <4>1. qh[d] = ph[d] /\ qh[c].time = ph[c].time /\ qh[c].pinned = ph[c].pinned
        BY <1>4, <2>2, <2>4, <3>1 DEF Held
      <4> QED
        BY <3>1, <4>1 DEF Before
    <3>2. Top(qh) \subseteq Top(ph) \cup {c}
      BY <1>2, <1>5, <2>1, <2>2, <2>4, <3>1, TopRises
    <3> QED
      BY <3>2 DEF ph, qh
  <2> QED
    BY <2>3, <2>4
<1> QED
  BY <1>1, <1>2, <1>6, <1>7 DEF Announced, c

\* Events come with the long poll and go with it.
LEMMA LinkStep == LinkInv /\ [Next]_vars => LinkInv'
<1> SUFFICES ASSUME LinkInv, [Next]_vars PROVE LinkInv'
  OBVIOUS
<1> USE DEF LinkInv, listVars, pictVars, callVars, phoneVars, histVars, boundVars, listAndCalls
<1>1. ASSUME NEW c \in Convs, NEW mine \in BOOLEAN, PhoneMessage(c, mine) PROVE LinkInv'
  BY <1>1 DEF PhoneMessage, Sends
<1>2. ASSUME NEW c \in Convs, PhonePins(c) \/ PhoneArchives(c) \/ PhoneSendsConversation(c)
      PROVE  LinkInv'
  BY <1>2 DEF PhonePins, PhoneArchives, PhoneSendsConversation, Sends
<1>u. ASSUME NEW c \in Convs, NEW t, NEW mine, PhoneUpdates(c, t, mine) PROVE LinkInv'
  BY <1>u DEF PhoneUpdates, Sends
<1>3. ASSUME NEW c \in Convs, Fetch(c) PROVE LinkInv'
  BY <1>3 DEF Fetch, AvatarClaim, AvatarArrives, AvatarFails, AvatarStore, AvatarShow
<1>4. CASE HandleEvent \/ Drop
  BY <1>4 DEF HandleEvent, Drop, Hangup
<1>5. ASSUME NEW p \in Procs, Connects(p) \/ Resumes(p) \/ Refresh(p) \/ Recover(p) \/ Unpair(p)
      PROVE  LinkInv'
  BY <1>5 DEF Connects, Resumes, Refresh, Recover, Unpair, Links, Hangup
<1>6. ASSUME NEW p \in Procs, NEW c \in Convs, MarkRead(p, c) PROVE LinkInv'
  BY <1>6 DEF MarkRead
<1>7. ASSUME NEW p \in Procs, Step(p) PROVE LinkInv'
  <2>1. CASE RefreshReplace(p) \/ ReadyReplace(p)
    BY <2>1 DEF RefreshReplace, ReadyReplace, Replace
  <2>2. CASE InitialSync(p) \/ ListConversations(p) \/ ListFails(p) \/ ReadyState(p)
    BY <2>2 DEF InitialSync, ListConversations, ListFails, ReadyState
  <2>3. CASE PhoneMarks(p) \/ MarkFails(p) \/ ClearUnread(p)
    BY <2>3 DEF PhoneMarks, MarkFails, ClearUnread
  <2>4. CASE UnpairClear(p) \/ UnpairFails(p) \/ UnpairState(p)
    BY <2>4 DEF UnpairClear, UnpairFails, UnpairState
  <2> QED
    BY <1>7, <2>1, <2>2, <2>3, <2>4 DEF Step
<1>8. CASE UNCHANGED vars
  BY <1>8 DEF vars
<1> QED
  BY <1>1, <1>2, <1>u, <1>3, <1>4, <1>5, <1>6, <1>7, <1>8 DEF Next

\* No step of the phone, the daemon's handlers or its goroutines breaks the invariant.
LEMMA SyncStep == ListTypes /\ LinkInv /\ SyncInv /\ [Next]_vars => SyncInv'
<1> SUFFICES ASSUME ListTypes, LinkInv, SyncInv, [Next]_vars PROVE SyncInv'
  OBVIOUS
<1> USE DEF listVars, pictVars, callVars, phoneVars, histVars, boundVars, listAndCalls
<1>a. ASSUME UNCHANGED <<convs, touched, phone, archived, owed, stream, clock, newest, doubtful,
                         pc, snap, target>>
      PROVE  SyncInv'
  <2>1. ProcsKept
    BY <1>a DEF ProcsKept, SyncInv, KnownInv
  <2> QED
    BY <1>a, <2>1, StillKeeps DEF SameList, Same
<1>b. ASSUME NEW p \in Procs, NEW label,
             ~(label \in {"replace", "readyReplace", "mark", "clearUnread"}),
             pc' = [pc EXCEPT ![p] = label],
             UNCHANGED <<convs, touched, phone, archived, owed, stream, clock, newest, doubtful>>,
             UNCHANGED <<snap, target>> \/ MarkEnds(p)
      PROVE  SyncInv'
  <2>1. ProcsKept
    BY <1>b DEF ProcsKept, SyncInv, KnownInv, ListTypes, HasList, HasTarget, MarkEnds, Goto
  <2> QED
    BY <1>b, <2>1, StillKeeps DEF SameList, Same
<1>1. ASSUME NEW c \in Convs, NEW mine \in BOOLEAN, PhoneMessage(c, mine) PROVE SyncInv'
  BY <1>1, MessageChanges, ChangeKeeps
<1>2. ASSUME NEW c \in Convs, PhonePins(c) PROVE SyncInv'
  BY <1>2, PinChanges, ChangeKeeps
<1>r. ASSUME NEW c \in Convs, PhoneArchives(c) PROVE SyncInv'
  BY <1>r, ArchiveChanges, ChangeKeeps
<1>u. ASSUME NEW c \in Convs, NEW t \in 0..clock, NEW mine \in BOOLEAN, PhoneUpdates(c, t, mine)
      PROVE  SyncInv'
  BY <1>u, UpdateKeeps
<1>3. ASSUME NEW c \in Convs, PhoneSendsConversation(c) PROVE SyncInv'
  BY <1>3, SendKeeps
<1>4. ASSUME NEW c \in Convs, AvatarClaim(c) \/ AvatarArrives(c) \/ AvatarFails(c) \/ AvatarStore(c)
      PROVE  SyncInv'
  BY <1>4, <1>a DEF AvatarClaim, AvatarArrives, AvatarFails, AvatarStore
<1>5. ASSUME NEW c \in Convs, AvatarShow(c) PROVE SyncInv'
  <2>1. CASE convs[c] = Absent
    BY <1>5, <1>a, <2>1 DEF AvatarShow, Pictures
  <2>2. CASE convs[c] # Absent
    <3> DEFINE r == convs[c]
               new == [r EXCEPT !.picture = TRUE]
    <3>1. r \in Conversation /\ convs' = [convs EXCEPT ![c] = new]
          /\ UNCHANGED <<touched, phone, archived, owed, stream, clock, newest, doubtful, pc, snap,
                         target>>
      BY <1>5, <2>2 DEF AvatarShow, Pictures, ListTypes
    <3>2. new \in Conversation /\ new.time = r.time /\ new.unread = r.unread
          /\ new.pinned = r.pinned
      BY <3>1 DEF Conversation
    <3> HIDE DEF new, r
    <3>3. Same(new, r)
      BY <3>2 DEF Same
    <3>4. convs'[c] = new /\ new # Absent /\ \A d \in Convs : d # c => convs'[d] = convs[d]
      BY <3>1, <3>2, AbsentAssumption DEF ListTypes
    <3>5. SameList
      BY <2>2, <3>3, <3>4 DEF SameList, Same, r
    <3>6. ProcsKept
      BY <3>1 DEF ProcsKept, SyncInv, KnownInv
    <3> QED
      BY <3>1, <3>5, <3>6, StillKeeps
  <2> QED
    BY <2>1, <2>2
<1>6. CASE HandleEvent
  BY <1>6, EventKeeps
<1>7. ASSUME NEW p \in Procs, NEW c \in Convs, MarkRead(p, c) PROVE SyncInv'
  <2>1. /\ pc' = [pc EXCEPT ![p] = "mark"] /\ target' = [target EXCEPT ![p] = c]
        /\ snap' = [snap EXCEPT ![p].at = convs[c].time] /\ c \in Held(convs)
        /\ UNCHANGED <<convs, touched, phone, archived, owed, stream, clock, newest, doubtful>>
    BY <1>7 DEF MarkRead, Goto, Held
  <2>2. ProcsKept
    BY <2>1 DEF ProcsKept, SyncInv, KnownInv, ListTypes, HasList, HasTarget
  <2> QED
    BY <2>1, <2>2, StillKeeps DEF SameList, Same
<1>8. ASSUME NEW p \in Procs, Connects(p) \/ Resumes(p) \/ Refresh(p) \/ Recover(p) PROVE SyncInv'
  BY <1>8, <1>b DEF Connects, Resumes, Refresh, Recover, Goto
<1>9. ASSUME NEW p \in Procs, Unpair(p) PROVE SyncInv'
  <2>1. ProcsKept
    BY <1>9 DEF Unpair, Goto, ProcsKept, SyncInv, KnownInv, HasList, HasTarget
  <2> QED
    BY <1>9, <2>1, HangupKeeps DEF Unpair
<1>10. CASE Drop
  <2>1. ProcsKept
    BY <1>10 DEF Drop, ProcsKept, SyncInv, KnownInv
  <2> QED
    BY <1>10, <2>1, HangupKeeps DEF Drop
<1>11. ASSUME NEW p \in Procs, Step(p) PROVE SyncInv'
  <2>1. CASE InitialSync(p) \/ ListFails(p) \/ ReadyState(p)
    BY <1>b, <2>1 DEF InitialSync, ListFails, ReadyState, Goto
  <2>2. CASE UnpairFails(p) \/ UnpairState(p)
    BY <1>b, <2>2 DEF UnpairFails, UnpairState, Goto
  <2>3. CASE MarkFails(p)
    BY <1>b, <2>3 DEF MarkFails, MarkEnds, Goto
  <2>4. CASE ListConversations(p)
    BY <2>4, ListingKeeps
  <2>5. CASE RefreshReplace(p) \/ ReadyReplace(p)
    BY <2>5, ReplaceKeeps DEF RefreshReplace, ReadyReplace, At, HasList
  <2>6. CASE PhoneMarks(p)
    BY <2>6, MarkChanges, ChangeKeeps
  <2>7. CASE ClearUnread(p)
    BY <2>7, ClearKeeps
  <2>8. CASE UnpairClear(p)
    BY <2>8, ClearAllKeeps
  <2> QED
    BY <1>11, <2>1, <2>2, <2>3, <2>4, <2>5, <2>6, <2>7, <2>8 DEF Step
<1>12. CASE UNCHANGED vars
  BY <1>12, <1>a DEF vars
<1> QED
  BY <1>1, <1>2, <1>r, <1>u, <1>3, <1>4, <1>5, <1>6, <1>7, <1>8, <1>9, <1>10, <1>11, <1>12
     DEF Next, Fetch

\* The phone has some conversations, the daemon none, and doubts it.
LEMMA SyncInit == Init => ListTypes /\ LinkInv /\ SyncInv
<1> SUFFICES ASSUME Init PROVE ListTypes /\ LinkInv /\ SyncInv
  OBVIOUS
<1> USE DEF Init
<1>1. ListTypes
  <2>1. phone \in Lists
    BY FreshTyped DEF Lists
  <2>2. snap \in [Procs -> [list : Lists, at : Nat]]
    BY NothingTyped DEF NoSnap
  <2>3. stream \in Seq(Events)
    OBVIOUS
  <2> QED
    BY <2>1, <2>2, <2>3, NothingTyped DEF ListTypes
<1>2. Held(convs) = {} /\ Len(stream) = 0
  BY DEF Held, Nothing
<1>3. KnownInv /\ UpdatesInv /\ NewsInv /\ SnapInv
  BY <1>2 DEF KnownInv, UpdatesInv, NewsInv, SnapInv, HasList, HasTarget
<1>4. TimesInv
  <2>1. \A c \in Held(phone) : phone[c].time = 0
    BY DEF Held, Fresh
  <2> QED
    BY <1>2, <2>1 DEF TimesInv, HasList
<1>5. ListInv
  BY DEF ListInv
<1> QED
  BY <1>1, <1>3, <1>4, <1>5 DEF SyncInv, LinkInv

\* Once everything under way has ended, the daemon holds the top of the phone's inbox, and of
\* what it holds the phone's time, pin and flag, unless something overlapped and but for the
\* flags that updates of messages set (daemon.go:312-360, 424-426, methods.go:147-200): for any
\* conversations, goroutines, events under way, links and calls.
THEOREM AgreesAlways == Spec => []AgreesUnlessOverlapped
<1> DEFINE Inv == ListTypes /\ LinkInv /\ SyncInv
<1>1. Inv /\ [Next]_vars => Inv'
  <2>1. SyncInv => TargetsKnown
    BY DEF SyncInv, KnownInv, TargetsKnown, HasTarget
  <2> QED
    BY <2>1, TypesStep, LinkStep, SyncStep
<1>2. Inv => AgreesUnlessOverlapped
  <2> SUFFICES ASSUME Inv, Quiet, ~doubtful
               PROVE  /\ ToSet(Reordered(Mailbox)) \subseteq Held(convs)
                      /\ \A c \in Held(convs) :
                            /\ convs[c].time = phone[c].time
                            /\ convs[c].pinned <=> phone[c].pinned
                            /\ convs[c].unread <=> phone[c].unread \/ c \in touched
    BY DEF AgreesUnlessOverlapped
  <2>1. \A c \in Convs : Agrees(phone, Mailbox, convs, touched, c)
    <3>1. \A c \in Convs : ~InStream(stream, c)
      BY DEF Quiet, InStream
    <3> QED
      BY <3>1 DEF SyncInv, ListInv, Quiet
  <2>2. ToSet(Reordered(Mailbox)) = Top(Mailbox) /\ Top(Mailbox) \subseteq Convs
    BY InboxTyped, ReorderedServes, TypedKeyed DEF Top, Held
  <2> QED
    BY <2>1, <2>2 DEF Agrees, Held
<1>3. Init => Inv
  BY SyncInit
<1> QED
  BY <1>1, <1>2, <1>3, PTL DEF Spec

-----------------------------------------------------------------------------
(* The order stays the top of what is held.                                *)

\* What the comparator reads is the same.
SameKeys(cs, ds) ==
    /\ Held(ds) = Held(cs)
    /\ \A c \in Held(cs) : ds[c].time = cs[c].time /\ ds[c].pinned = cs[c].pinned

\* Then the top is the same.
LEMMA SameKeysTop ==
    ASSUME NEW cs, NEW ds, NEW o, SameKeys(cs, ds), IsTop(cs, o), o \in Seq(Convs)
    PROVE  IsTop(ds, o)
<1>1. \A a, b \in Held(cs) : Before(cs, a, b) => Before(ds, a, b)
  BY DEF SameKeys, Before
<1>2. \A i \in 1..Len(o) : o[i] \in Held(cs)
  BY DEF IsTop, ToSet
<1> QED
  BY <1>1, <1>2 DEF IsTop, SameKeys

\* Nothing is the top of nothing.
LEMMA NothingIsTop == IsTop(Nothing, <<>>)
BY DEF IsTop, Nothing, Held, ToSet, IsInjective

\* The order is a sequence of conversations.
LEMMA ReorderedTyped == ASSUME NEW cs, Keyed(cs) PROVE Reordered(cs) \in Seq(Convs)
<1>1. /\ DOMAIN Reordered(cs) = 1 .. Served(cs) /\ Served(cs) \in Nat
      /\ \A i \in 1 .. Served(cs) : Reordered(cs)[i] \in Convs
  BY ReorderedPlaces, ServedBound DEF Held
<1> QED
  BY <1>1 DEF Reordered

\* The served order, as an inductive invariant.
OrderInv == order \in Seq(Convs) /\ IsTop(convs, order)

\* The three things a step may do with the list and its order.
LEMMA OrderKept ==
    ASSUME ListTypes', OrderInv,
           \/ order' = Reordered(convs')
           \/ order' = order /\ SameKeys(convs, convs')
           \/ order' = <<>> /\ convs' = Nothing
    PROVE  OrderInv'
<1>1. CASE order' = Reordered(convs')
  <2>1. Keyed(convs')
    BY TypedKeyed DEF ListTypes
  <2> QED
    BY <1>1, <2>1, ReorderedIsTop, ReorderedTyped DEF OrderInv
<1>2. CASE order' = order /\ SameKeys(convs, convs')
  BY <1>2, SameKeysTop DEF OrderInv
<1>3. CASE order' = <<>> /\ convs' = Nothing
  BY <1>3, NothingIsTop DEF OrderInv
<1> QED
  BY <1>1, <1>2, <1>3

\* Every step that changes a time, a pin or who is held sorts again.
LEMMA OrderStep == ListTypes /\ ListTypes' /\ OrderInv /\ TargetsKnown /\ [Next]_vars => OrderInv'
<1> SUFFICES ASSUME ListTypes, ListTypes', OrderInv, TargetsKnown, [Next]_vars PROVE OrderInv'
  OBVIOUS
<1> USE DEF listVars, pictVars, callVars, phoneVars, histVars, boundVars, listAndCalls
<1>a. ASSUME UNCHANGED <<convs, order>> PROVE OrderInv'
  BY <1>a DEF OrderInv
<1>1. ASSUME NEW c \in Convs, NEW mine \in BOOLEAN, PhoneMessage(c, mine) PROVE OrderInv'
  BY <1>1, <1>a DEF PhoneMessage
<1>2. ASSUME NEW c \in Convs, PhonePins(c) \/ PhoneArchives(c) \/ PhoneSendsConversation(c)
      PROVE  OrderInv'
  BY <1>2, <1>a DEF PhonePins, PhoneArchives, PhoneSendsConversation
<1>u. ASSUME NEW c \in Convs, NEW t, NEW mine, PhoneUpdates(c, t, mine) PROVE OrderInv'
  BY <1>u, <1>a DEF PhoneUpdates
<1>3. ASSUME NEW c \in Convs, AvatarClaim(c) \/ AvatarArrives(c) \/ AvatarFails(c) \/ AvatarStore(c)
      PROVE  OrderInv'
  BY <1>3, <1>a DEF AvatarClaim, AvatarArrives, AvatarFails, AvatarStore
<1>4. ASSUME NEW c \in Convs, AvatarShow(c) PROVE OrderInv'
  <2>1. CASE convs[c] = Absent
    BY <1>4, <1>a, <2>1 DEF AvatarShow, Pictures
  <2>2. CASE convs[c] # Absent
    <3> DEFINE r == convs[c]
               new == [r EXCEPT !.picture = TRUE]
    <3>1. r \in Conversation /\ convs' = [convs EXCEPT ![c] = new] /\ order' = order
      BY <1>4, <2>2 DEF AvatarShow, Pictures, ListTypes
    <3>2. new \in Conversation /\ new.time = r.time /\ new.pinned = r.pinned
      BY <3>1 DEF Conversation
    <3> HIDE DEF new, r
    <3>3. convs'[c] = new /\ new # Absent /\ \A d \in Convs : d # c => convs'[d] = convs[d]
      BY <3>1, <3>2, AbsentAssumption DEF ListTypes
    <3>4. SameKeys(convs, convs')
      BY <2>2, <3>2, <3>3 DEF SameKeys, Held, r
    <3> QED
      BY <3>1, <3>4, OrderKept
  <2> QED
    BY <2>1, <2>2
<1>5. CASE HandleEvent
  <2>1. UNCHANGED listVars \/ order' = Reordered(convs')
    <3> DEFINE e == Head(stream)
    <3>1. \/ Upsert(e.conv, e.news)
          \/ Touch(e.conv, e.time, e.mine, TRUE) \/ Touch(e.conv, e.at, e.mine, FALSE)
      BY <1>5 DEF HandleEvent
    <3> HIDE DEF e
    <3> QED
      BY <3>1 DEF Upsert, Accepts, Touch, TouchOrder
  <2> QED
    BY <1>a, <2>1, OrderKept
<1>6. CASE Drop
  BY <1>6, <1>a DEF Drop
<1>7. ASSUME NEW p \in Procs, Connects(p) \/ Resumes(p) \/ Refresh(p) \/ Recover(p) \/ Unpair(p)
      PROVE  OrderInv'
  BY <1>7, <1>a DEF Connects, Resumes, Refresh, Recover, Unpair
<1>8. ASSUME NEW p \in Procs, NEW c \in Convs, MarkRead(p, c) PROVE OrderInv'
  BY <1>8, <1>a DEF MarkRead
<1>9. ASSUME NEW p \in Procs, ClearUnread(p) PROVE OrderInv'
  <2> DEFINE c == target[p]
             r == convs[c]
             new == [r EXCEPT !.unread = FALSE]
  <2>1. c \in Convs /\ order' = order
    BY <1>9 DEF ClearUnread, At, TargetsKnown, Held
  <2>2. CASE convs[c] = Absent
    BY <1>9, <1>a, <2>2 DEF ClearUnread
  <2>3. CASE convs[c] # Absent
    <3>1. r \in Conversation /\ convs' = [convs EXCEPT ![c] = new]
      BY <1>9, <2>1, <2>3 DEF ClearUnread, ListTypes
    <3>2. new \in Conversation /\ new.time = r.time /\ new.pinned = r.pinned
      BY <3>1 DEF Conversation
    <3> HIDE DEF new, r, c
    <3>3. convs'[c] = new /\ new # Absent /\ \A d \in Convs : d # c => convs'[d] = convs[d]
      BY <2>1, <3>1, <3>2, AbsentAssumption DEF ListTypes
    <3>4. SameKeys(convs, convs')
      BY <2>1, <2>3, <3>2, <3>3 DEF SameKeys, Held, r
    <3> QED
      BY <2>1, <3>4, OrderKept
  <2> QED
    BY <2>2, <2>3
<1>10. ASSUME NEW p \in Procs, Step(p) PROVE OrderInv'
  <2>1. CASE RefreshReplace(p) \/ ReadyReplace(p)
    BY <2>1, OrderKept DEF RefreshReplace, ReadyReplace, Replace
  <2>2. CASE InitialSync(p) \/ ListConversations(p) \/ ListFails(p) \/ ReadyState(p)
    BY <2>2, <1>a DEF InitialSync, ListConversations, ListFails, ReadyState
  <2>3. CASE PhoneMarks(p) \/ MarkFails(p)
    BY <2>3, <1>a DEF PhoneMarks, MarkFails
  <2>4. CASE UnpairClear(p)
    BY <2>4, OrderKept DEF UnpairClear
  <2>5. CASE UnpairFails(p) \/ UnpairState(p)
    BY <2>5, <1>a DEF UnpairFails, UnpairState
  <2> QED
    BY <1>9, <1>10, <2>1, <2>2, <2>3, <2>4, <2>5 DEF Step
<1>11. CASE UNCHANGED vars
  BY <1>11, <1>a DEF vars
<1> QED
  BY <1>1, <1>2, <1>u, <1>3, <1>4, <1>5, <1>6, <1>7, <1>8, <1>10, <1>11 DEF Next, Fetch

\* What is served is the top of what is held, for any conversations and any limit: no event,
\* snapshot, mark, unpair or picture leaves the order behind (daemon.go:476-501).
THEOREM ListIsTopAlways == Spec => []ListIsTop
<1> DEFINE Inv == ListTypes /\ LinkInv /\ SyncInv /\ OrderInv
<1>1. Inv /\ [Next]_vars => Inv'
  <2>1. SyncInv => TargetsKnown
    BY DEF SyncInv, KnownInv, TargetsKnown, HasTarget
  <2> QED
    BY <2>1, TypesStep, LinkStep, SyncStep, OrderStep
<1>2. Inv => ListIsTop
  BY DEF OrderInv, IsTop, ListIsTop
<1>3. Init => Inv
  BY SyncInit, NothingIsTop DEF Init, OrderInv
<1> QED
  BY <1>1, <1>2, <1>3, PTL DEF Spec

-----------------------------------------------------------------------------
(* The types of the rest: flags, goroutines, fetchers and counts.          *)

FlagTypes == connected \in BOOLEAN /\ live \in BOOLEAN /\ doubtful \in BOOLEAN

CallTypes ==
    /\ pc \in [Procs -> {"idle", "sync", "ask", "ready", "replace", "readyReplace",
                         "readyState", "mark", "clearUnread", "unpair", "unpairState"}]
    /\ target \in [Procs -> Convs \cup {SomeConv}]
    /\ calls \in 0..MaxCalls /\ links \in 0..MaxLinks /\ clock \in 0..MaxChanges

FetchTypes ==
    /\ tried \subseteq Convs /\ paths \subseteq Convs
    /\ looks \in [Convs -> Nat]
    /\ fpc \in [Convs -> {"idle", "fetch", "store", "show"}]

\* No step spoils a flag: the phone says of each of its conversations whether it is unread.
LEMMA FlagTypesStep ==
    ListTypes /\ TargetsKnown /\ FlagTypes /\ [Next]_vars => FlagTypes'
<1> SUFFICES ASSUME ListTypes, TargetsKnown, FlagTypes, [Next]_vars PROVE FlagTypes'
  OBVIOUS
<1> USE DEF FlagTypes, phoneVars, histVars, listAndCalls
<1>1. ASSUME NEW c \in Convs, NEW mine \in BOOLEAN, PhoneMessage(c, mine) PROVE FlagTypes'
  BY <1>1 DEF PhoneMessage, Sends
<1>2. ASSUME NEW c \in Convs, PhonePins(c) \/ PhoneArchives(c) \/ PhoneSendsConversation(c)
      PROVE  FlagTypes'
  BY <1>2 DEF PhonePins, PhoneArchives, PhoneSendsConversation, Sends, Rises
<1>u. ASSUME NEW c \in Convs, NEW t, NEW mine, PhoneUpdates(c, t, mine) PROVE FlagTypes'
  BY <1>u DEF PhoneUpdates, Sends
<1>3. ASSUME NEW c \in Convs, Fetch(c) PROVE FlagTypes'
  BY <1>3 DEF Fetch, AvatarClaim, AvatarArrives, AvatarFails, AvatarStore, AvatarShow
<1>4. CASE HandleEvent \/ Drop
  BY <1>4 DEF HandleEvent, Drop, Hangup
<1>5. ASSUME NEW p \in Procs, Connects(p) \/ Resumes(p) \/ Refresh(p) \/ Recover(p) \/ Unpair(p)
      PROVE  FlagTypes'
  BY <1>5 DEF Connects, Resumes, Refresh, Recover, Unpair, Links, Hangup
<1>6. ASSUME NEW p \in Procs, NEW c \in Convs, MarkRead(p, c) PROVE FlagTypes'
  BY <1>6 DEF MarkRead
<1>7. ASSUME NEW p \in Procs, ClearUnread(p) PROVE FlagTypes'
  <2>1. phone[target[p]] \in News
    BY <1>7 DEF ClearUnread, At, TargetsKnown, ListTypes, Lists, Held
  <2>2. phone[target[p]].unread \in BOOLEAN
    BY <2>1 DEF News
  <2> QED
    BY <1>7, <2>2 DEF ClearUnread
<1>8. ASSUME NEW p \in Procs, Step(p) PROVE FlagTypes'
  <2>1. ASSUME NEW label, Replace(p, label) PROVE FlagTypes'
    <3>1. UNCHANGED <<connected, live>> /\ doubtful' = (snap[p].at < newest)
      BY <2>1 DEF Replace
    <3>2. (snap[p].at < newest) = TRUE \/ (snap[p].at < newest) = FALSE
      OBVIOUS
    <3> QED
      BY <3>1, <3>2
  <2>2. CASE InitialSync(p) \/ ListConversations(p) \/ ListFails(p) \/ ReadyState(p)
    BY <2>2 DEF InitialSync, ListConversations, ListFails, ReadyState
  <2>3. CASE PhoneMarks(p) \/ MarkFails(p)
    BY <2>3 DEF PhoneMarks, MarkFails
  <2>4. CASE UnpairClear(p) \/ UnpairFails(p) \/ UnpairState(p)
    BY <2>4 DEF UnpairClear, UnpairFails, UnpairState
  <2> QED
    BY <1>7, <1>8, <2>1, <2>2, <2>3, <2>4 DEF Step, RefreshReplace, ReadyReplace
<1>9. CASE UNCHANGED vars
  BY <1>9 DEF vars
<1> QED
  BY <1>1, <1>2, <1>u, <1>3, <1>4, <1>5, <1>6, <1>8, <1>9 DEF Next

\* No step takes a goroutine where it cannot be, or a count over its bound.
LEMMA CallTypesStep == CallTypes /\ [Next]_vars => CallTypes'
<1> SUFFICES ASSUME CallTypes, [Next]_vars PROVE CallTypes'
  OBVIOUS
<1> USE ConvBoundsAssumption DEF CallTypes, callVars, phoneVars, boundVars, listAndCalls,
        At, Goto, Starts, Links, Changes
<1>1. ASSUME NEW c \in Convs, NEW mine \in BOOLEAN, PhoneMessage(c, mine) PROVE CallTypes'
  BY <1>1 DEF PhoneMessage
<1>2. ASSUME NEW c \in Convs, PhonePins(c) \/ PhoneArchives(c) \/ PhoneSendsConversation(c)
      PROVE  CallTypes'
  BY <1>2 DEF PhonePins, PhoneArchives, PhoneSendsConversation
<1>u. ASSUME NEW c \in Convs, NEW t, NEW mine, PhoneUpdates(c, t, mine) PROVE CallTypes'
  BY <1>u DEF PhoneUpdates
<1>3. ASSUME NEW c \in Convs, Fetch(c) PROVE CallTypes'
  BY <1>3 DEF Fetch, AvatarClaim, AvatarArrives, AvatarFails, AvatarStore, AvatarShow
<1>4. CASE HandleEvent \/ Drop
  BY <1>4 DEF HandleEvent, Drop
<1>5. ASSUME NEW p \in Procs, Connects(p) \/ Resumes(p) \/ Recover(p) PROVE CallTypes'
  BY <1>5 DEF Connects, Resumes, Recover
<1>6. ASSUME NEW p \in Procs, Refresh(p) \/ Unpair(p) PROVE CallTypes'
  BY <1>6 DEF Refresh, Unpair
<1>7. ASSUME NEW p \in Procs, NEW c \in Convs, MarkRead(p, c) PROVE CallTypes'
  BY <1>7 DEF MarkRead
<1>8. ASSUME NEW p \in Procs, Step(p) PROVE CallTypes'
  <2>1. CASE RefreshReplace(p) \/ ReadyReplace(p)
    BY <2>1 DEF RefreshReplace, ReadyReplace, Replace
  <2>2. CASE InitialSync(p) \/ ListConversations(p) \/ ListFails(p) \/ ReadyState(p)
    BY <2>2 DEF InitialSync, ListConversations, ListFails, ReadyState
  <2>3. CASE PhoneMarks(p)
    BY <2>3 DEF PhoneMarks
  <2>4. CASE MarkFails(p) \/ ClearUnread(p)
    BY <2>4 DEF MarkFails, ClearUnread, MarkEnds
  <2>5. CASE UnpairClear(p) \/ UnpairFails(p) \/ UnpairState(p)
    BY <2>5 DEF UnpairClear, UnpairFails, UnpairState
  <2> QED
    BY <1>8, <2>1, <2>2, <2>3, <2>4, <2>5 DEF Step
<1>9. CASE UNCHANGED vars
  BY <1>9 DEF vars
<1> QED
  BY <1>1, <1>2, <1>u, <1>3, <1>4, <1>5, <1>6, <1>7, <1>8, <1>9 DEF Next

\* Only the fetchers, and the snapshots that start them, touch what is known of pictures.
LEMMA FetchTypesStep == FetchTypes /\ [Next]_vars => FetchTypes'
<1> SUFFICES ASSUME FetchTypes, [Next]_vars PROVE FetchTypes'
  OBVIOUS
<1> USE DEF FetchTypes, pictVars, FGoto
<1>1. ASSUME NEW c \in Convs, NEW mine \in BOOLEAN, PhoneMessage(c, mine) PROVE FetchTypes'
  BY <1>1 DEF PhoneMessage
<1>2. ASSUME NEW c \in Convs, PhonePins(c) \/ PhoneArchives(c) \/ PhoneSendsConversation(c)
      PROVE  FetchTypes'
  BY <1>2 DEF PhonePins, PhoneArchives, PhoneSendsConversation
<1>u. ASSUME NEW c \in Convs, NEW t, NEW mine, PhoneUpdates(c, t, mine) PROVE FetchTypes'
  BY <1>u DEF PhoneUpdates
<1>3. ASSUME NEW c \in Convs, AvatarClaim(c) PROVE FetchTypes'
  BY <1>3 DEF AvatarClaim, Tried
<1>4. ASSUME NEW c \in Convs, AvatarArrives(c) \/ AvatarFails(c) \/ AvatarStore(c) \/ AvatarShow(c)
      PROVE  FetchTypes'
  BY <1>4 DEF AvatarArrives, AvatarFails, AvatarStore, AvatarShow
<1>5. CASE HandleEvent \/ Drop
  BY <1>5 DEF HandleEvent, Drop
<1>6. ASSUME NEW p \in Procs, Connects(p) \/ Resumes(p) \/ Refresh(p) \/ Recover(p) \/ Unpair(p)
      PROVE  FetchTypes'
  BY <1>6 DEF Connects, Resumes, Refresh, Recover, Unpair
<1>7. ASSUME NEW p \in Procs, NEW c \in Convs, MarkRead(p, c) PROVE FetchTypes'
  BY <1>7 DEF MarkRead
<1>8. ASSUME NEW p \in Procs, Step(p) PROVE FetchTypes'
  <2>1. ASSUME NEW label, Replace(p, label) PROVE FetchTypes'
    <3>1. looks' \in [Convs -> Nat]
      BY <2>1 DEF Replace
    <3> QED
      BY <2>1, <3>1 DEF Replace
  <2>2. CASE InitialSync(p) \/ ListConversations(p) \/ ListFails(p) \/ ReadyState(p)
    BY <2>2 DEF InitialSync, ListConversations, ListFails, ReadyState
  <2>3. CASE PhoneMarks(p) \/ MarkFails(p) \/ ClearUnread(p)
    BY <2>3 DEF PhoneMarks, MarkFails, ClearUnread
  <2>4. CASE UnpairClear(p) \/ UnpairFails(p) \/ UnpairState(p)
    BY <2>4 DEF UnpairClear, UnpairFails, UnpairState
  <2> QED
    BY <1>8, <2>1, <2>2, <2>3, <2>4 DEF Step, RefreshReplace, ReadyReplace
<1>9. CASE UNCHANGED vars
  BY <1>9 DEF vars
<1> QED
  BY <1>1, <1>2, <1>u, <1>3, <1>4, <1>5, <1>6, <1>7, <1>8, <1>9 DEF Next, Fetch

\* Type correctness of Conversations. That nothing is newer than the phone's clock is part
\* of it.
THEOREM TypeCorrect == Spec => []TypeOK
<1> DEFINE Inv == /\ ListTypes /\ LinkInv /\ SyncInv /\ OrderInv /\ ClaimInv
                  /\ FlagTypes /\ CallTypes /\ FetchTypes
<1>1. Inv /\ [Next]_vars => Inv'
  <2>1. SyncInv => TargetsKnown
    BY DEF SyncInv, KnownInv, TargetsKnown, HasTarget
  <2> QED
    BY <2>1, TypesStep, LinkStep, SyncStep, OrderStep, ClaimStep, FlagTypesStep, CallTypesStep,
       FetchTypesStep
<1>2. Inv => TypeOK
  <2> SUFFICES ASSUME Inv PROVE TypeOK
    OBVIOUS
  <2>1. owed \subseteq Convs /\ archived \subseteq Convs /\ touched \subseteq Convs
        /\ asks \in [Convs -> Nat] /\ order \in Seq(Convs)
    BY DEF ListTypes, Held, ClaimInv, OrderInv
  <2>2. newest \in 0..MaxChanges
    BY ConvBoundsAssumption DEF SyncInv, TimesInv, CallTypes
  <2>3. /\ phone \in [Convs -> News \cup {Absent}]
        /\ snap \in [Procs -> [list : [Convs -> News \cup {Absent}], at : Nat]]
        /\ stream \in Seq([conv : Convs, at : Nat, mine : BOOLEAN] \cup
                          [conv : Convs, at : Nat, time : Nat, mine : BOOLEAN] \cup
                          [conv : Convs, at : Nat, news : News])
    BY DEF ListTypes, Lists, Events, Messages, Updates, ConversationEvents
  <2> QED
    BY <2>1, <2>2, <2>3 DEF ListTypes, FlagTypes, CallTypes, FetchTypes, TypeOK
<1>3. Init => Inv
  <2>1. Init => OrderInv /\ ClaimInv
    BY NothingIsTop DEF Init, OrderInv, ClaimInv
  <2>2. Init => FlagTypes
    BY DEF Init, FlagTypes
  <2>3. Init => CallTypes
    BY ConvBoundsAssumption DEF Init, CallTypes
  <2>4. Init => FetchTypes
    BY DEF Init, FetchTypes
  <2> QED
    BY SyncInit, <2>1, <2>2, <2>3, <2>4
<1> QED
  BY <1>1, <1>2, <1>3, PTL DEF Spec
=============================================================================
