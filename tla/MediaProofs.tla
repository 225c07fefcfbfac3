---------------------------- MODULE MediaProofs ----------------------------
(***************************************************************************)
(* Theorems about Media, for any calls, keys, limits and bounds.           *)
(***************************************************************************)
EXTENDS Media, SequenceTheorems, FiniteSetTheorems, TLAPS

(***************************************************************************)
(* A single flight: whoever leads a key's flight is the one the map names. *)
(***************************************************************************)
FlightInv ==
    /\ pc \in [Procs -> Labels]
    /\ key \in [Procs -> Keys]
    /\ inflight \in [Keys -> Procs \cup {NoProc}]
    /\ \A p \in Procs : pc[p] \in Leading => inflight[key[p]] = p

\* No call has begun at the start.
LEMMA FlightInit == Init => FlightInv
BY NoProcAssumption DEF Init, FlightInv, Labels, Leading

\* No step, not the release by another call and not a restart, gives a key a
\* second leader.
LEMMA FlightStep == FlightInv /\ [Next]_vars => FlightInv'
<1> SUFFICES ASSUME FlightInv, [Next]_vars PROVE FlightInv'
  OBVIOUS
<1> USE NoProcAssumption
<1> USE DEF FlightInv, Labels, Leading, At, Goto, End, memoryVars, diskVars, callVars,
            boundVars
<1>1. ASSUME NEW k \in Keys, Record(k) PROVE FlightInv'
  BY <1>1 DEF Record
<1>2. ASSUME NEW p \in Procs, NEW k \in Keys, Media(p, k) PROVE FlightInv'
  BY <1>2 DEF Media
<1>3. ASSUME NEW p \in Procs, Stat(p) PROVE FlightInv'
  BY <1>3 DEF Stat
<1>4. ASSUME NEW p \in Procs, Claim(p) PROVE FlightInv'
  BY <1>4 DEF Claim, Busy
<1>5. ASSUME NEW p \in Procs, Fetch(p) PROVE FlightInv'
  BY <1>5 DEF Fetch
<1>6. ASSUME NEW p \in Procs, FetchFails(p) PROVE FlightInv'
  BY <1>6 DEF FetchFails
<1>7. ASSUME NEW p \in Procs, FetchPending(p) PROVE FlightInv'
  BY <1>7 DEF FetchPending
<1>8. ASSUME NEW p \in Procs, WriteOpens(p) PROVE FlightInv'
  BY <1>8 DEF WriteOpens
<1>9. ASSUME NEW p \in Procs, WriteEnds(p) PROVE FlightInv'
  BY <1>9 DEF WriteEnds
<1>10. ASSUME NEW p \in Procs, PruneLists(p) PROVE FlightInv'
  BY <1>10 DEF PruneLists, AfterPrune
<1>11. ASSUME NEW p \in Procs, PruneRemoves(p) PROVE FlightInv'
  BY <1>11 DEF PruneRemoves, AfterPrune
<1>12. ASSUME NEW p \in Procs, AskPhone(p) PROVE FlightInv'
  BY <1>12 DEF AskPhone
<1>13. ASSUME NEW p \in Procs, Finish(p) PROVE FlightInv'
  BY <1>13 DEF Finish, Wakes
<1>14. ASSUME NEW p \in Procs, GiveUpWaiting(p) PROVE FlightInv'
  BY <1>14 DEF GiveUpWaiting
<1>15. ASSUME NEW p \in Procs, WriteFails(p) PROVE FlightInv'
  BY <1>15 DEF WriteFails
<1>16. CASE ClearMedia
  BY <1>16 DEF ClearMedia
<1>17. CASE Crash
  BY <1>17 DEF Crash, FreshMemory
<1>18. CASE UNCHANGED vars
  BY <1>18 DEF vars
<1>19. ASSUME NEW f \in Pictures, WritePicture(f) PROVE FlightInv'
  BY <1>19 DEF WritePicture
<1> QED
  BY <1>1, <1>2, <1>3, <1>4, <1>5, <1>6, <1>7, <1>8, <1>9, <1>10, <1>11, <1>12, <1>13,
     <1>14, <1>15, <1>16, <1>17, <1>18, <1>19
     DEF Next, Step

\* One attachment is never fetched by two calls at a time.
THEOREM OneFlightPerKey == Spec => []SingleFlight
<1>1. FlightInv => SingleFlight
  BY DEF FlightInv, SingleFlight
<1> QED
  BY <1>1, FlightInit, FlightStep, PTL DEF Spec

(***************************************************************************)
(* Whole files. A file is cut only while its key's leader writes it, or by  *)
(* a write that failed, after which nobody answers with its path.          *)
(***************************************************************************)
Written == {"prune", "remove", "askPhone", "finish"}

WholeInv ==
    /\ result \in [Procs -> {"none", "path", "pending", "error"}]
    /\ \A p \in Procs :
          /\ pc[p] \in Written /\ result[p] = "path" => key[p] \notin torn
          /\ pc[p] \in {"stat", "claim", "fetch", "write", "writing"} => result[p] = "none"

\* No call has begun at the start.
LEMMA WholeInit == Init => WholeInv
BY DEF Init, WholeInv, Written, Leading

\* No step cuts a file whose leader is past its write: whoever opens a file for
\* writing leads its key, and a key has one leader.
LEMMA WholeStep == FlightInv /\ WholeInv /\ [Next]_vars => WholeInv'
<1> SUFFICES ASSUME FlightInv, WholeInv, [Next]_vars PROVE WholeInv'
  OBVIOUS
<1> USE NoProcAssumption
<1> USE DEF FlightInv, WholeInv, Written, Labels, Leading, At, Goto, End, memoryVars,
            diskVars, callVars, boundVars
<1>1. ASSUME NEW k \in Keys, Record(k) PROVE WholeInv'
  BY <1>1 DEF Record
<1>2. ASSUME NEW p \in Procs, NEW k \in Keys, Media(p, k) PROVE WholeInv'
  BY <1>2 DEF Media
<1>3. ASSUME NEW p \in Procs, Stat(p) PROVE WholeInv'
  BY <1>3 DEF Stat
<1>4. ASSUME NEW p \in Procs, Claim(p) PROVE WholeInv'
  BY <1>4 DEF Claim, Busy
<1>5. ASSUME NEW p \in Procs, Fetch(p) PROVE WholeInv'
  BY <1>5 DEF Fetch
<1>6. ASSUME NEW p \in Procs, FetchFails(p) PROVE WholeInv'
  BY <1>6 DEF FetchFails
<1>7. ASSUME NEW p \in Procs, FetchPending(p) PROVE WholeInv'
  BY <1>7 DEF FetchPending
<1>8. ASSUME NEW p \in Procs, WriteOpens(p) PROVE WholeInv'
  BY <1>8 DEF WriteOpens
<1>9. ASSUME NEW p \in Procs, WriteEnds(p) PROVE WholeInv'
  BY <1>9 DEF WriteEnds
<1>10. ASSUME NEW p \in Procs, PruneLists(p) PROVE WholeInv'
  BY <1>10 DEF PruneLists, AfterPrune
<1>11. ASSUME NEW p \in Procs, PruneRemoves(p) PROVE WholeInv'
  BY <1>11 DEF PruneRemoves, AfterPrune
<1>12. ASSUME NEW p \in Procs, AskPhone(p) PROVE WholeInv'
  BY <1>12 DEF AskPhone
<1>13. ASSUME NEW p \in Procs, Finish(p) PROVE WholeInv'
  BY <1>13 DEF Finish, Wakes
<1>14. ASSUME NEW p \in Procs, GiveUpWaiting(p) PROVE WholeInv'
  BY <1>14 DEF GiveUpWaiting
<1>15. ASSUME NEW p \in Procs, WriteFails(p) PROVE WholeInv'
  BY <1>15 DEF WriteFails
<1>16. CASE ClearMedia
  BY <1>16 DEF ClearMedia
<1>17. CASE Crash
  BY <1>17 DEF Crash, FreshMemory
<1>18. CASE UNCHANGED vars
  BY <1>18 DEF vars
<1>19. ASSUME NEW f \in Pictures, WritePicture(f) PROVE WholeInv'
  BY <1>19 DEF WritePicture
<1> QED
  BY <1>1, <1>2, <1>3, <1>4, <1>5, <1>6, <1>7, <1>8, <1>9, <1>10, <1>11, <1>12, <1>13,
     <1>14, <1>15, <1>16, <1>17, <1>18, <1>19
     DEF Next, Step

\* A downloaded file is whole when its call answers with it.
THEOREM DownloadsAreWhole == Spec => []FetchedFileIsWhole
<1>1. WholeInv => FetchedFileIsWhole
  BY DEF WholeInv, Written, FetchedFileIsWhole
<1> QED
  BY <1>1, FlightInit, FlightStep, WholeInit, WholeStep, PTL DEF Spec

(***************************************************************************)
(* What is remembered. Only record and a restart touch the order and the   *)
(* secrets; a claim may outlive its key, which costs no second request.    *)
(***************************************************************************)

\* An appended key is one more, and new to an order that does not hold it.
LEMMA AppendRemembers ==
    ASSUME NEW S, NEW s \in Seq(S), NEW e \in S
    PROVE  /\ ToSet(Append(s, e)) = ToSet(s) \cup {e}
           /\ IsInjective(s) /\ e \notin ToSet(s) => IsInjective(Append(s, e))
<1>1. /\ Append(s, e) \in Seq(S)
      /\ Len(Append(s, e)) = Len(s) + 1
      /\ \A i \in 1..Len(s) : Append(s, e)[i] = s[i]
      /\ Append(s, e)[Len(s) + 1] = e
  BY AppendProperties
<1>2. Len(s) \in Nat /\ DOMAIN s = 1..Len(s) /\ DOMAIN Append(s, e) = 1..(Len(s) + 1)
  BY <1>1
<1>3. ToSet(Append(s, e)) = ToSet(s) \cup {e}
  <2>1. ToSet(Append(s, e)) \subseteq ToSet(s) \cup {e}
    BY <1>1, <1>2 DEF ToSet
  <2>2. ToSet(s) \subseteq ToSet(Append(s, e))
    BY <1>1, <1>2 DEF ToSet
  <2>3. e \in ToSet(Append(s, e))
    BY <1>1, <1>2 DEF ToSet
  <2> QED
    BY <2>1, <2>2, <2>3
<1>4. ASSUME IsInjective(s), e \notin ToSet(s) PROVE IsInjective(Append(s, e))
  BY <1>1, <1>2, <1>4 DEF IsInjective, ToSet
<1> QED
  BY <1>3, <1>4

\* An order without its head holds the other keys, each once.
LEMMA TailForgets ==
    ASSUME NEW S, NEW s \in Seq(S), s # <<>>, IsInjective(s)
    PROVE  ToSet(Tail(s)) = ToSet(s) \ {Head(s)} /\ IsInjective(Tail(s))
<1>1. /\ Tail(s) \in Seq(S)
      /\ Len(Tail(s)) = Len(s) - 1
      /\ \A i \in 1..Len(Tail(s)) : Tail(s)[i] = s[i + 1]
  BY HeadTailProperties
<1>2. /\ Len(s) \in Nat \ {0}
      /\ DOMAIN s = 1..Len(s)
      /\ DOMAIN Tail(s) = 1..(Len(s) - 1)
      /\ Head(s) = s[1]
  BY <1>1, EmptySeq
<1>3. IsInjective(Tail(s))
  BY <1>1, <1>2 DEF IsInjective
<1>4. ToSet(Tail(s)) = ToSet(s) \ {Head(s)}
  <2>1. ToSet(Tail(s)) \subseteq ToSet(s) \ {Head(s)}
    BY <1>1, <1>2 DEF ToSet, IsInjective
  <2>2. ASSUME NEW x \in ToSet(s), x # Head(s) PROVE x \in ToSet(Tail(s))
    <3>1. PICK i \in 1..Len(s) : x = s[i]
      BY <1>2 DEF ToSet
    <3>2. i - 1 \in 1..(Len(s) - 1) /\ Tail(s)[i - 1] = x
      BY <1>1, <1>2, <2>2, <3>1
    <3> QED
      BY <1>2, <3>2 DEF ToSet
  <2> QED
    BY <2>1, <2>2
<1> QED
  BY <1>3, <1>4

MemoryInv ==
    /\ secrets \in [Keys -> Routes \cup {"unknown"}]
    /\ order \in Seq(Keys)
    /\ requested \subseteq Keys
    /\ key \in [Procs -> Keys]
    /\ asks \in [Keys -> Nat]
    /\ forgotten \in [Keys -> Nat]
    /\ RememberedOnce
    /\ \A k \in Keys : asks[k] <= forgotten[k] + (IF k \in requested THEN 1 ELSE 0)

\* Nothing is in an empty order.
LEMMA EmptyOrder == ToSet(<<>>) = {} /\ IsInjective(<<>>)
BY DEF ToSet, IsInjective

\* Nothing is remembered at the start.
LEMMA MemoryInit == Init => MemoryInv
<1> SUFFICES ASSUME Init PROVE MemoryInv
  OBVIOUS
<1>1. RememberedOnce
  BY EmptyOrder, MediaBoundsAssumption DEF Init, RememberedOnce
<1> QED
  BY <1>1 DEF Init, MemoryInv

\* The order record works on, before it trims: k is in it, once.
LEMMA GrownOrder ==
    ASSUME MemoryInv, NEW k \in Keys
    PROVE  /\ Grown(k) \in Seq(Keys)
           /\ IsInjective(Grown(k))
           /\ ToSet(Grown(k)) = {j \in Keys : secrets[j] # "unknown"} \cup {k}
           /\ Len(Grown(k)) <= MaxSecrets + 1
<1> USE DEF MemoryInv, RememberedOnce
<1>1. CASE New(k)
  <2>1. k \notin ToSet(order)
    BY <1>1 DEF New
  <2>2. Grown(k) = Append(order, k)
    BY <1>1 DEF Grown
  <2>3. Grown(k) \in Seq(Keys) /\ Len(Grown(k)) = Len(order) + 1
    BY <2>2, AppendProperties
  <2>4. Len(order) \in Nat
    BY LenProperties
  <2> QED
    BY <2>1, <2>2, <2>3, <2>4, AppendRemembers, MediaBoundsAssumption
<1>2. CASE ~New(k)
  <2>1. Grown(k) = order /\ k \in ToSet(order)
    BY <1>2 DEF Grown, New
  <2>2. Len(order) \in Nat
    BY LenProperties
  <2> QED
    BY <2>1, <2>2, MediaBoundsAssumption
<1> QED
  BY <1>1, <1>2

\* A message adds its key and, past the cap, forgets the oldest one.
LEMMA RecordStep ==
    ASSUME MemoryInv, NEW k \in Keys, Record(k)
    PROVE  MemoryInv'
<1> DEFINE keys == Grown(k)
           old  == Head(keys)
<1>1. PICK r \in RoutesOf(k) :
          LET known == [secrets EXCEPT ![k] = r]
          IN  IF Len(keys) > MaxSecrets
              THEN /\ order' = Tail(keys)
                   /\ secrets' = [known EXCEPT ![old] = "unknown"]
                   /\ requested' = requested \ {old}
                   /\ forgotten' = [forgotten EXCEPT ![old] = @ + 1]
              ELSE /\ order' = keys
                   /\ secrets' = known
                   /\ UNCHANGED <<requested, forgotten>>
  BY DEF Record
<1>2. r \in Routes /\ r # "unknown"
  BY DEF RoutesOf, Routes
<1>3. asks' = asks /\ key' = key
  BY DEF Record, callVars
<1>4. /\ keys \in Seq(Keys)
      /\ IsInjective(keys)
      /\ ToSet(keys) = {j \in Keys : secrets[j] # "unknown"} \cup {k}
      /\ Len(keys) <= MaxSecrets + 1
  BY GrownOrder
<1>5. Len(keys) \in Nat /\ MaxSecrets \in Nat \ {0}
  BY <1>4, LenProperties, MediaBoundsAssumption
<1> HIDE DEF keys
<1>6. CASE Len(keys) > MaxSecrets
  <2>1. keys # <<>>
    BY <1>4, <1>5, <1>6, EmptySeq
  <2>2. /\ Tail(keys) \in Seq(Keys)
        /\ Len(Tail(keys)) = Len(keys) - 1
        /\ old \in Keys
    BY <1>4, <2>1, HeadTailProperties
  <2>3. /\ ToSet(Tail(keys)) = ToSet(keys) \ {old}
        /\ IsInjective(Tail(keys))
    BY <1>4, <2>1, TailForgets
  <2>4. /\ order' = Tail(keys)
        /\ secrets' = [[secrets EXCEPT ![k] = r] EXCEPT ![old] = "unknown"]
        /\ requested' = requested \ {old}
        /\ forgotten' = [forgotten EXCEPT ![old] = @ + 1]
    BY <1>1, <1>6
  <2> HIDE DEF old
  <2>5. secrets' \in [Keys -> Routes \cup {"unknown"}]
    BY <1>2, <2>4 DEF MemoryInv
  <2>6. {j \in Keys : secrets'[j] # "unknown"}
            = ({j \in Keys : secrets[j] # "unknown"} \cup {k}) \ {old}
    BY <1>2, <2>2, <2>4 DEF MemoryInv
  <2>7. RememberedOnce'
    <3>1. IsInjective(order')
      BY <2>3, <2>4
    <3>2. ToSet(order') = {j \in Keys : secrets'[j] # "unknown"}
      BY <1>4, <2>3, <2>4, <2>6
    <3>3. Len(order') <= MaxSecrets
      <4>1. Len(order') = Len(keys) - 1
        BY <2>2, <2>4
      <4> QED
        BY ONLY <4>1, <1>4, <1>5
    <3> QED
      BY <3>1, <3>2, <3>3 DEF RememberedOnce
  <2>8. forgotten' \in [Keys -> Nat]
    BY <2>2, <2>4 DEF MemoryInv
  <2>9. \A j \in Keys :
            asks'[j] <= forgotten'[j] + (IF j \in requested' THEN 1 ELSE 0)
    BY <1>3, <2>2, <2>4 DEF MemoryInv
  <2> QED
    BY <1>3, <2>2, <2>4, <2>5, <2>7, <2>8, <2>9 DEF MemoryInv
<1>7. CASE ~(Len(keys) > MaxSecrets)
  <2>1. /\ order' = keys
        /\ secrets' = [secrets EXCEPT ![k] = r]
        /\ UNCHANGED <<requested, forgotten>>
    BY <1>1, <1>7
  <2>2. secrets' \in [Keys -> Routes \cup {"unknown"}]
    BY <1>2, <2>1 DEF MemoryInv
  <2>3. {j \in Keys : secrets'[j] # "unknown"}
            = {j \in Keys : secrets[j] # "unknown"} \cup {k}
    BY <1>2, <2>1 DEF MemoryInv
  <2>4. RememberedOnce'
    BY <1>4, <1>5, <1>7, <2>1, <2>3 DEF RememberedOnce
  <2> QED
    BY <1>3, <1>4, <2>1, <2>2, <2>4 DEF MemoryInv
<1> QED
  BY <1>6, <1>7

\* A request to the phone is claimed first, and a claim allows one request.
LEMMA AskPhoneStep ==
    ASSUME MemoryInv, NEW p \in Procs, AskPhone(p)
    PROVE  MemoryInv'
<1>1. UNCHANGED <<secrets, order, forgotten, key>>
  BY DEF AskPhone, callVars
<1>2. RememberedOnce'
  BY <1>1 DEF MemoryInv, RememberedOnce
<1>3. requested' \subseteq Keys /\ asks' \in [Keys -> Nat]
  <2>1. key[p] \in Keys /\ asks[key[p]] + 1 \in Nat
    BY DEF MemoryInv
  <2> QED
    BY <2>1 DEF AskPhone, Claimed, MemoryInv
<1>4. \A j \in Keys : asks'[j] <= forgotten'[j] + (IF j \in requested' THEN 1 ELSE 0)
  BY <1>1 DEF AskPhone, Claimed, MemoryInv
<1> QED
  BY <1>1, <1>2, <1>3, <1>4 DEF MemoryInv

\* A restart forgets everything, its requests included.
LEMMA CrashStep ==
    ASSUME MemoryInv, Crash
    PROVE  MemoryInv'
<1> USE DEF Crash, FreshMemory
<1>1. RememberedOnce'
  BY EmptyOrder, MediaBoundsAssumption DEF RememberedOnce
<1> QED
  BY <1>1 DEF MemoryInv

\* Every step keeps what is remembered and what was asked in line.
LEMMA MemoryStep == MemoryInv /\ [Next]_vars => MemoryInv'
<1> SUFFICES ASSUME MemoryInv, [Next]_vars PROVE MemoryInv'
  OBVIOUS
<1>1. ASSUME NEW k \in Keys, Record(k) PROVE MemoryInv'
  BY <1>1, RecordStep
<1>2. ASSUME NEW p \in Procs, AskPhone(p) PROVE MemoryInv'
  BY <1>2, AskPhoneStep
<1>3. CASE Crash
  BY <1>3, CrashStep
<1>4. ASSUME NEW p \in Procs, NEW k \in Keys, Media(p, k) PROVE MemoryInv'
  BY <1>4 DEF Media, memoryVars, MemoryInv, RememberedOnce
<1>5. ASSUME UNCHANGED memoryVars, key' = key PROVE MemoryInv'
  BY <1>5 DEF memoryVars, MemoryInv, RememberedOnce
<1>6. ASSUME NEW p \in Procs, Step(p), ~AskPhone(p) PROVE UNCHANGED memoryVars /\ key' = key
  BY <1>6 DEF Step, Stat, Claim, Fetch, FetchFails, FetchPending, WriteOpens, WriteEnds,
              PruneLists, PruneRemoves, Finish, callVars
<1>7. ASSUME NEW p \in Procs, GiveUpWaiting(p) \/ WriteFails(p)
      PROVE  UNCHANGED memoryVars /\ key' = key
  BY <1>7 DEF GiveUpWaiting, WriteFails, callVars
<1>8. ASSUME ClearMedia \/ UNCHANGED vars PROVE UNCHANGED memoryVars /\ key' = key
  BY <1>8 DEF ClearMedia, callVars, vars
<1>9. ASSUME NEW f \in Pictures, WritePicture(f) PROVE UNCHANGED memoryVars /\ key' = key
  BY <1>9 DEF WritePicture, callVars
<1> QED
  BY <1>1, <1>2, <1>3, <1>4, <1>5, <1>6, <1>7, <1>8, <1>9 DEF Next

\* The order holds each remembered key once and no other, and is never over its cap.
THEOREM RemembersOnce == Spec => []RememberedOnce
<1>1. MemoryInv => RememberedOnce
  BY DEF MemoryInv
<1> QED
  BY <1>1, MemoryInit, MemoryStep, PTL DEF Spec

\* The phone is asked for a part at most once each time the part is remembered.
THEOREM PhoneIsAskedOnce == Spec => []PhoneAskedOnce
<1>1. MemoryInv => PhoneAskedOnce
  <2> SUFFICES ASSUME MemoryInv, NEW k \in Keys PROVE asks[k] <= 1 + forgotten[k]
    BY DEF PhoneAskedOnce
  <2>1. asks[k] \in Nat /\ forgotten[k] \in Nat
    BY DEF MemoryInv
  <2>2. asks[k] <= forgotten[k] + (IF k \in requested THEN 1 ELSE 0)
    BY DEF MemoryInv
  <2> QED
    BY ONLY <2>1, <2>2
<1> QED
  BY <1>1, MemoryInit, MemoryStep, PTL DEF Spec

(***************************************************************************)
(* Places of a directory, and what is left of it without some files.       *)
(***************************************************************************)

\* Places are counted, and a place itself counts.
LEMMA UpToBound ==
    ASSUME NEW P \in SUBSET Nat, IsFiniteSet(P), NEW i
    PROVE  /\ UpTo(P, i) \in Nat /\ UpTo(P, i) <= Cardinality(P)
           /\ i \in P => UpTo(P, i) >= 1
<1> DEFINE A == {j \in P : j <= i}
<1>1. IsFiniteSet(A) /\ Cardinality(A) <= Cardinality(P)
  BY FS_Subset
<1>2. Cardinality(A) \in Nat
  BY <1>1, FS_CardinalityType
<1>3. ASSUME i \in P PROVE Cardinality(A) # 0
  <2>1. i \in A
    BY <1>3
  <2> QED
    BY <1>1, <2>1, FS_EmptySet
<1>4. UpTo(P, i) = Cardinality(A)
  BY DEF UpTo
<1> HIDE DEF A
<1> QED
  BY <1>1, <1>2, <1>3, <1>4

\* A later place has more up to it, ...
LEMMA UpToRises ==
    ASSUME NEW P \in SUBSET Nat, IsFiniteSet(P), NEW i \in Nat, NEW j \in P, i < j
    PROVE  UpTo(P, i) < UpTo(P, j)
<1> DEFINE A == {h \in P : h <= i}
           B == {h \in P : h <= j}
<1>1. A \subseteq B /\ j \in B /\ j \notin A
  <2>1. ASSUME NEW h \in P, h <= i PROVE h <= j
    BY <2>1
  <2>2. j \in Nat /\ j <= j /\ ~(j <= i)
    OBVIOUS
  <2> QED
    BY <2>1, <2>2
<1>2. IsFiniteSet(B)
  BY FS_Subset
<1>3. Cardinality(A) <= Cardinality(B) /\ Cardinality(A) # Cardinality(B)
  BY <1>1, <1>2, FS_Subset
<1>4. Cardinality(A) \in Nat /\ Cardinality(B) \in Nat
  BY <1>1, <1>2, FS_Subset, FS_CardinalityType
<1>5. UpTo(P, i) = Cardinality(A) /\ UpTo(P, j) = Cardinality(B)
  BY DEF UpTo
<1> HIDE DEF A, B
<1> QED
  BY <1>3, <1>4, <1>5

\* ... so that no two places have the same count.
LEMMA UpToSame ==
    ASSUME NEW P \in SUBSET Nat, IsFiniteSet(P), NEW i \in P, NEW j \in P,
           UpTo(P, i) = UpTo(P, j)
    PROVE  i = j
<1>1. UpTo(P, i) \in Nat /\ UpTo(P, j) \in Nat
  BY UpToBound
<1>2. CASE i < j
  BY <1>1, <1>2, UpToRises
<1>3. CASE j < i
  BY <1>1, <1>3, UpToRises
<1> QED
  BY <1>2, <1>3

\* Every number up to how many they are is the count of one of them.
LEMMA EveryUpTo ==
    ASSUME NEW P \in SUBSET Nat, IsFiniteSet(P), NEW n \in 1..Cardinality(P)
    PROVE  \E i \in P : UpTo(P, i) = n
<1> DEFINE R == 1..Cardinality(P)
           f == [i \in P |-> UpTo(P, i)]
<1>0. Cardinality(P) \in Nat
  BY FS_CardinalityType
<1>1. f \in Injection(P, R)
  <2>1. f \in [P -> R]
    <3>1. ASSUME NEW i \in P PROVE UpTo(P, i) \in R
      BY <1>0, UpToBound
    <3> QED
      BY <3>1
  <2>2. \A a, b \in P : f[a] = f[b] => a = b
    BY UpToSame
  <2> QED
    BY <2>1, <2>2 DEF IsInjective, Injection
<1>2. IsFiniteSet(R) /\ Cardinality(R) = Cardinality(P)
  BY <1>0, FS_Interval
<1>3. f \in Surjection(P, R)
  BY <1>1, <1>2, FS_Injection
<1> QED
  BY <1>3 DEF Surjection

\* The files that are not gone stay, each once.
LEMMA WithoutStays ==
    ASSUME NEW S, NEW files \in Seq(S), NEW gone
    PROVE  /\ Without(files, gone) \in Seq(S)
           /\ ToSet(Without(files, gone)) = ToSet(files) \ gone
           /\ IsInjective(files) => IsInjective(Without(files, gone))
<1> DEFINE left == {i \in DOMAIN files : files[i] \notin gone}
           at(n) == CHOOSE i \in left : UpTo(left, i) = n
           w == [n \in 1..Cardinality(left) |-> files[at(n)]]
<1>1. Without(files, gone) = w
  BY DEF Without
<1>2. DOMAIN files = 1..Len(files) /\ Len(files) \in Nat /\ files \in [1..Len(files) -> S]
  BY LenProperties
<1>3. left \subseteq Nat /\ IsFiniteSet(left)
  <2>1. IsFiniteSet(1..Len(files))
    BY <1>2, FS_Interval
  <2> QED
    BY <1>2, <2>1, FS_Subset
<1>4. Cardinality(left) \in Nat
  BY <1>3, FS_CardinalityType
<1>5. ASSUME NEW n \in 1..Cardinality(left) PROVE at(n) \in left /\ UpTo(left, at(n)) = n
  <2> HIDE DEF left
  <2>1. \E i \in left : UpTo(left, i) = n
    BY <1>3, EveryUpTo
  <2> QED
    BY <2>1
<1>6. ASSUME NEW i \in left PROVE \E n \in 1..Cardinality(left) : at(n) = i
  <2>1. UpTo(left, i) \in 1..Cardinality(left)
    <3> HIDE DEF left
    <3> QED
      BY <1>3, <1>4, UpToBound
  <2>2. at(UpTo(left, i)) \in left /\ UpTo(left, at(UpTo(left, i))) = UpTo(left, i)
    BY <1>5, <2>1
  <2>3. at(UpTo(left, i)) = i
    <3> HIDE DEF left, at
    <3> QED
      BY <1>3, <2>2, UpToSame
  <2> QED
    BY <2>1, <2>3
<1>7. \A i \in left : i \in 1..Len(files) /\ files[i] \in S /\ files[i] \notin gone
  BY <1>2
<1>8. \A i \in 1..Len(files) : files[i] \notin gone => i \in left
  BY <1>2
<1> HIDE DEF left, at
<1>9. w \in Seq(S) /\ Len(w) = Cardinality(left) /\ DOMAIN w = 1..Cardinality(left)
  <2>1. w \in [1..Cardinality(left) -> S]
    BY <1>5, <1>7
  <2> QED
    BY <1>4, <2>1, SeqDef, LenProperties
<1>10. ToSet(w) = ToSet(files) \ gone
  <2>1. ASSUME NEW n \in 1..Cardinality(left) PROVE w[n] \in ToSet(files) \ gone
    BY <1>2, <1>5, <1>7 DEF ToSet
  <2>2. ASSUME NEW x \in ToSet(files) \ gone PROVE x \in ToSet(w)
    <3>1. PICK i \in 1..Len(files) : x = files[i]
      BY <1>2 DEF ToSet
    <3>2. PICK n \in 1..Cardinality(left) : at(n) = i
      BY <1>6, <1>8, <3>1
    <3> QED
      BY <1>9, <3>1, <3>2 DEF ToSet
  <2> QED
    BY <1>9, <2>1, <2>2 DEF ToSet
<1>11. ASSUME IsInjective(files) PROVE IsInjective(w)
  <2>1. ASSUME NEW m \in 1..Cardinality(left), NEW n \in 1..Cardinality(left), w[m] = w[n]
        PROVE  m = n
    <3>1. at(m) = at(n)
      BY <1>2, <1>5, <1>7, <1>11, <2>1 DEF IsInjective
    <3> QED
      BY <1>5, <3>1
  <2> QED
    BY <1>9, <2>1 DEF IsInjective
<1> QED
  BY <1>1, <1>9, <1>10, <1>11

(***************************************************************************)
(* What one prune does to the files it meets, whichever these are.         *)
(***************************************************************************)

\* The places of a listing whose files are there, and those that are removed.
Present(L, S) == {i \in DOMAIN L : L[i] \in S}
Excess(L, S) == {j \in Present(L, S) : UpTo(Present(L, S), j) + MaxFiles <= Len(L)}
Pruned(L, S) == S \ {L[i] : i \in Excess(L, S)}

\* Files that the cap allows.
Within(S) == IsFiniteSet(S) /\ Cardinality(S) <= MaxFiles

\* So are fewer of them.
LEMMA WithinLess ==
    ASSUME NEW T, Within(T), NEW S, S \subseteq T
    PROVE  Within(S)
<1>1. IsFiniteSet(S) /\ Cardinality(S) <= Cardinality(T)
  BY FS_Subset DEF Within
<1>2. Cardinality(S) \in Nat /\ Cardinality(T) \in Nat /\ MaxFiles \in Nat
  BY <1>1, FS_CardinalityType, MediaBoundsAssumption DEF Within
<1> QED
  BY <1>1, <1>2 DEF Within

\* pruneDir's second half is that prune.
LEMMA VictimsPrune ==
    ASSUME NEW L
    PROVE  ToSet(cache) \ Victims(L) = Pruned(L, ToSet(cache))
BY DEF Victims, Pruned, Excess, Present

\* The places of a listing whose files are there are places of it.
LEMMA PresentPlaces ==
    ASSUME NEW L \in Seq(Files), NEW S
    PROVE  /\ Present(L, S) \in SUBSET Nat /\ IsFiniteSet(Present(L, S))
           /\ Present(L, S) \subseteq 1..Len(L) /\ Len(L) \in Nat
           /\ Cardinality(Present(L, S)) \in Nat /\ Cardinality(Present(L, S)) <= Len(L)
<1>1. DOMAIN L = 1..Len(L) /\ Len(L) \in Nat
  BY LenProperties
<1>2. Present(L, S) \subseteq 1..Len(L)
  BY <1>1 DEF Present
<1>3. IsFiniteSet(1..Len(L)) /\ Cardinality(1..Len(L)) = Len(L)
  BY <1>1, FS_Interval
<1>4. IsFiniteSet(Present(L, S)) /\ Cardinality(Present(L, S)) <= Len(L)
  BY <1>2, <1>3, FS_Subset
<1>5. Present(L, S) \subseteq Nat
  BY <1>1, <1>2
<1> QED
  BY <1>1, <1>2, <1>4, <1>5, FS_CardinalityType

\* Of the files it listed, a prune leaves no more than the cap.
LEMMA PruneSuffices ==
    ASSUME NEW L \in Seq(Files), NEW S
    PROVE  Within(Pruned(L, S) \cap ToSet(L))
<1> DEFINE Kept == Pruned(L, S) \cap ToSet(L)
           P == Present(L, S)
           lo == Len(L) - MaxFiles + 1
           hi == Cardinality(P)
           Q == P \ Excess(L, S)
           f == [i \in Q |-> UpTo(P, i)]
           g == [i \in Q |-> L[i]]
<1>0. MaxFiles \in Nat \ {0}
  BY MediaBoundsAssumption
<1>1. P \in SUBSET Nat /\ IsFiniteSet(P) /\ hi \in Nat /\ hi <= Len(L) /\ Len(L) \in Nat
  BY PresentPlaces
<1>2. \A i \in Q : i \in P /\ ~(UpTo(P, i) + MaxFiles <= Len(L))
  BY DEF Excess
<1>3. IsFiniteSet(lo..hi) /\ Cardinality(lo..hi) <= MaxFiles
  <2> HIDE DEF P, Q, hi
  <2>1. lo \in Int /\ hi \in Int /\ hi - lo + 1 <= MaxFiles
    BY <1>0, <1>1
  <2> HIDE DEF lo
  <2>2. IsFiniteSet(lo..hi) /\ Cardinality(lo..hi) = IF lo > hi THEN 0 ELSE hi - lo + 1
    BY <2>1, FS_Interval
  <2> QED
    BY <1>0, <2>1, <2>2
<1>4. f \in Injection(Q, lo..hi)
  <2>1. ASSUME NEW i \in Q PROVE UpTo(P, i) \in lo..hi
    <3>1. i \in P /\ ~(UpTo(P, i) + MaxFiles <= Len(L))
      BY <1>2
    <3> HIDE DEF P, Q
    <3>2. UpTo(P, i) \in Nat /\ UpTo(P, i) <= hi
      BY <1>1, UpToBound
    <3> QED
      BY <1>0, <1>1, <3>1, <3>2
  <2>2. ASSUME NEW i \in Q, NEW j \in Q, UpTo(P, i) = UpTo(P, j) PROVE i = j
    <3>1. i \in P /\ j \in P
      BY <1>2
    <3> HIDE DEF P, Q
    <3> QED
      BY <1>1, <2>2, <3>1, UpToSame
  <2> HIDE DEF P, Q, lo, hi
  <2> QED
    BY <2>1, <2>2 DEF IsInjective, Injection
<1>5. IsFiniteSet(Q) /\ Cardinality(Q) <= Cardinality(lo..hi)
  <2> HIDE DEF Q, lo, hi, f
  <2> QED
    BY <1>3, <1>4, FS_Injection
<1>6. Kept \subseteq {L[i] : i \in Q}
  <2> SUFFICES ASSUME NEW x \in Kept PROVE \E i \in Q : x = L[i]
    OBVIOUS
  <2>1. x \in S /\ \A i \in Excess(L, S) : x # L[i]
    BY DEF Pruned
  <2>2. PICK i \in DOMAIN L : x = L[i]
    BY <2>1 DEF ToSet
  <2>3. i \in P /\ i \notin Excess(L, S)
    BY <2>1, <2>2 DEF Present
  <2> QED
    BY <2>2, <2>3
<1>7. LET T == {L[i] : i \in Q} IN IsFiniteSet(T) /\ Cardinality(T) <= Cardinality(Q)
  <2> DEFINE T == {L[i] : i \in Q}
  <2>1. g \in Surjection(Q, T)
    <3> HIDE DEF Q
    <3> QED
      BY DEF Surjection
  <2> HIDE DEF Q, T, g
  <2>2. IsFiniteSet(T) /\ Cardinality(T) <= Cardinality(Q)
    BY <1>5, <2>1, FS_Surjection
  <2> QED
    BY <2>2 DEF T
<1> DEFINE T == {L[i] : i \in Q}
<1>8. Kept \subseteq T /\ IsFiniteSet(T) /\ Cardinality(T) <= Cardinality(Q)
  BY <1>6, <1>7
<1> HIDE DEF Kept, Q, T, lo, hi
<1>9. /\ IsFiniteSet(Kept) /\ Cardinality(Kept) <= Cardinality(T)
      /\ Cardinality(Kept) \in Nat
  BY <1>8, FS_Subset, FS_CardinalityType
<1>10. /\ Cardinality(T) \in Nat /\ Cardinality(Q) \in Nat
       /\ Cardinality(lo..hi) \in Nat
  BY <1>3, <1>5, <1>8, FS_CardinalityType
<1>11. Cardinality(Kept) <= MaxFiles
  BY <1>0, <1>3, <1>5, <1>8, <1>9, <1>10
<1> QED
  BY <1>9, <1>11 DEF Within, Kept

(***************************************************************************)
(* The bound of the cache. A prune works from a listing that others may    *)
(* have outdated. What it removes brings the files it listed under the     *)
(* cap, and all others were opened after it listed. So some of the files   *)
(* that calls and stray writes still answer for, U, leave the rest under   *)
(* the cap; when a prune ends, those of U that it listed are settled. For  *)
(* that U and what each prune came too early for have to be nested.        *)
(***************************************************************************)
Removers == {p \in Procs : pc[p] = "remove"}

Nested(S, T) == S \subseteq T \/ T \subseteq S

\* The types of the directory and of what the calls make of it.
DiskInv ==
    /\ cache \in Seq(Files) /\ IsInjective(cache)
    /\ torn \subseteq ToSet(cache)
    /\ dir \in BOOLEAN
    /\ pc \in [Procs -> Labels]
    /\ key \in [Procs -> Keys]
    /\ listing \in [Procs -> Seq(Files)]
    /\ strays \subseteq Files
    /\ late \in [Procs -> SUBSET Files]
    /\ \A p \in Procs : pc[p] # "remove" => late[p] = {}

\* A prune has listed all but what was opened since, which is not its own file; and
\* the files some writer answers for suffice.
BoundInv ==
    /\ \A p \in Removers :
          /\ ToSet(cache) \ ToSet(listing[p]) \subseteq late[p]
          /\ key[p] \notin late[p]
          /\ \A q \in Removers : Nested(late[p], late[q])
    /\ \E U \in SUBSET (Owed \cup strays) :
          /\ Within(ToSet(cache) \ U)
          /\ \A p \in Removers : Nested(U, late[p])

\* The files of a directory in which each is once are as many as its length.
LEMMA Once ==
    ASSUME NEW s \in Seq(Files), IsInjective(s)
    PROVE  IsFiniteSet(ToSet(s)) /\ Cardinality(ToSet(s)) = Len(s)
<1>1. DOMAIN s = 1..Len(s) /\ Len(s) \in Nat
  BY LenProperties
<1>2. IsFiniteSet(1..Len(s)) /\ Cardinality(1..Len(s)) = Len(s)
  BY <1>1, FS_Interval
<1>3. s \in Surjection(1..Len(s), ToSet(s)) /\ s \in Injection(1..Len(s), ToSet(s))
  <2>1. s \in [1..Len(s) -> ToSet(s)] /\ \A x \in ToSet(s) : \E i \in 1..Len(s) : s[i] = x
    BY <1>1 DEF ToSet
  <2> QED
    BY <1>1, <2>1 DEF Surjection, Injection, IsInjective
<1> QED
  BY <1>2, <1>3, FS_Surjection

\* Opening a file makes it the newest, and there once.
LEMMA NewestFile ==
    ASSUME NEW k \in Files, cache \in Seq(Files), IsInjective(cache)
    PROVE  /\ Newest(k) \in Seq(Files) /\ IsInjective(Newest(k))
           /\ ToSet(Newest(k)) = ToSet(cache) \cup {k}
<1> DEFINE w == Without(cache, {k})
<1>1. w \in Seq(Files) /\ ToSet(w) = ToSet(cache) \ {k} /\ IsInjective(w)
  BY WithoutStays
<1> HIDE DEF w
<1>2. Append(w, k) \in Seq(Files)
  BY <1>1, AppendProperties
<1>3. ToSet(Append(w, k)) = ToSet(w) \cup {k} /\ IsInjective(Append(w, k))
  BY <1>1, AppendRemembers
<1> QED
  BY <1>1, <1>2, <1>3 DEF Newest, w

\* No file is within any cap.
LEMMA NoneWithin == Within({})
BY FS_EmptySet, MediaBoundsAssumption DEF Within

\* Nothing is there and nobody busy at the start.
LEMMA DiskInit == Init => DiskInv /\ BoundInv
<1> SUFFICES ASSUME Init PROVE DiskInv /\ BoundInv
  OBVIOUS
<1>1. Removers = {}
  BY DEF Init, Removers
<1>2. ToSet(cache) = {} /\ IsInjective(cache)
  BY EmptyOrder DEF Init
<1>3. DiskInv
  BY <1>2 DEF Init, DiskInv, Labels
<1>4. BoundInv
  <2>1. Within(ToSet(cache) \ {})
    BY <1>2, NoneWithin
  <2> QED
    BY <1>1, <2>1 DEF BoundInv
<1> QED
  BY <1>3, <1>4

\* Nothing of this moves when the files, the prunes and their listings do not.
LEMMA DiskKept ==
    ASSUME DiskInv, BoundInv, UNCHANGED <<diskVars, listing, strays, late>>,
           pc' \in [Procs -> Labels], key' \in [Procs -> Keys],
           \A p \in Procs : pc[p] \in Filling => key'[p] = key[p],
           \A p \in Procs : pc'[p] \in Filling <=> pc[p] \in Filling,
           \A p \in Procs : pc'[p] = "remove" <=> pc[p] = "remove"
    PROVE  DiskInv' /\ BoundInv'
<1>1. /\ Filers' = Filers /\ Removers' = Removers
      /\ Owed' = Owed /\ \A p \in Removers : key'[p] = key[p]
  BY DEF Filers, Removers, Owed, Filling
<1>2. UNCHANGED <<cache, torn, dir, listing, strays, late>>
  BY DEF diskVars
<1>3. DiskInv'
  BY <1>2 DEF DiskInv
<1>4. ToSet(cache)' = ToSet(cache)
  BY <1>2
<1> QED
  BY <1>1, <1>2, <1>3, <1>4 DEF BoundInv

\* A file that is opened is late for every prune under way; someone answers for it.
LEMMA DiskGains ==
    ASSUME DiskInv, BoundInv, NEW f \in Files,
           cache' = Newest(f), LateForPrunes(f), UNCHANGED <<key, listing>>,
           Removers' = Removers, \A p \in Removers : key[p] # f,
           Owed \cup strays \cup {f} \subseteq (Owed \cup strays)'
    PROVE  /\ cache' \in Seq(Files) /\ IsInjective(cache')
           /\ ToSet(cache') = ToSet(cache) \cup {f}
           /\ late' \in [Procs -> SUBSET Files]
           /\ \A p \in Procs : pc[p] # "remove" => late'[p] = {}
           /\ BoundInv'
<1>1. /\ cache' \in Seq(Files) /\ IsInjective(cache')
      /\ ToSet(cache') = ToSet(cache) \cup {f}
  BY NewestFile DEF DiskInv
<1>2. /\ late' \in [Procs -> SUBSET Files]
      /\ \A p \in Procs : pc[p] # "remove" => late'[p] = {}
  BY DEF LateForPrunes, DiskInv, At
<1>3. \A p \in Removers : late'[p] = late[p] \cup {f}
  BY DEF LateForPrunes, Removers, At
<1>4. ASSUME NEW p \in Removers
      PROVE  /\ ToSet(cache') \ ToSet(listing[p]) \subseteq late'[p]
             /\ key[p] \notin late'[p]
             /\ \A q \in Removers : Nested(late'[p], late'[q])
  BY <1>1, <1>3 DEF BoundInv, Nested
<1>5. PICK U \in SUBSET (Owed \cup strays) :
          /\ Within(ToSet(cache) \ U)
          /\ \A p \in Removers : Nested(U, late[p])
  BY DEF BoundInv
<1>6. U \cup {f} \in SUBSET (Owed \cup strays)'
  BY <1>5
<1>7. Within(ToSet(cache') \ (U \cup {f}))
  <2>1. ToSet(cache') \ (U \cup {f}) \subseteq ToSet(cache) \ U
    BY <1>1
  <2> QED
    BY <1>5, <2>1, WithinLess
<1>8. \A p \in Removers : Nested(U \cup {f}, late'[p])
  BY <1>3, <1>5 DEF Nested
<1>9. BoundInv'
  BY <1>4, <1>6, <1>7, <1>8 DEF BoundInv
<1> QED
  BY <1>1, <1>2, <1>9

\* A file that is opened is the newest; its call has yet to prune.
LEMMA DiskOpens ==
    ASSUME FlightInv, DiskInv, BoundInv, NEW p \in Procs, WriteOpens(p)
    PROVE  DiskInv' /\ BoundInv'
<1> USE DEF At, Goto, End, callVars
<1>0. pc[p] = "write" /\ key[p] \in Keys /\ key[p] \in Files
  BY DEF WriteOpens, DiskInv, Files
<1>1. CASE ~dir
  <2>1. /\ UNCHANGED <<diskVars, listing, strays, late, key>>
        /\ pc' = [pc EXCEPT ![p] = "finish"]
    BY <1>1 DEF WriteOpens, diskVars
  <2>2. pc' \in [Procs -> Labels]
    BY <2>1 DEF DiskInv, Labels, Leading
  <2> QED
    BY <1>0, <2>1, <2>2, DiskKept DEF DiskInv, Filling
<1>2. CASE dir
  <2>1. /\ cache' = Newest(key[p]) /\ torn' = torn \cup {key[p]} /\ dir' = dir
        /\ pc' = [pc EXCEPT ![p] = "writing"]
        /\ LateForPrunes(key[p])
        /\ UNCHANGED <<listing, strays, key>>
    BY <1>2 DEF WriteOpens
  <2>2. Filers' = Filers \cup {p} /\ Removers' = Removers
    BY <1>0, <2>1 DEF DiskInv, Filers, Filling, Removers
  <2>3. Owed' = Owed \cup {key[p]}
    BY <2>1, <2>2 DEF Owed
  <2>4. ASSUME NEW q \in Removers PROVE key[q] # key[p]
    <3>1. q \in Procs /\ pc[q] = "remove"
      BY DEF Removers
    <3>2. inflight[key[q]] = q /\ inflight[key[p]] = p
      BY <1>0, <3>1 DEF FlightInv, Leading
    <3> QED
      BY <1>0, <3>1, <3>2
  <2>5. Owed \cup strays \cup {key[p]} \subseteq (Owed \cup strays)'
    BY <2>1, <2>3
  <2>6. /\ cache' \in Seq(Files) /\ IsInjective(cache')
        /\ ToSet(cache') = ToSet(cache) \cup {key[p]}
        /\ late' \in [Procs -> SUBSET Files]
        /\ \A q \in Procs : pc[q] # "remove" => late'[q] = {}
        /\ BoundInv'
    BY <1>0, <2>1, <2>2, <2>4, <2>5, DiskGains
  <2>7. pc' \in [Procs -> Labels]
    BY <2>1 DEF DiskInv, Labels, Leading
  <2>8. \A q \in Procs : pc'[q] # "remove" => late'[q] = {}
    BY <1>0, <2>1, <2>6 DEF DiskInv
  <2> QED
    BY <2>1, <2>6, <2>7, <2>8 DEF DiskInv
<1> QED
  BY <1>1, <1>2 DEF DiskInv

\* A picture or GIF is the newest file; nobody prunes for it.
LEMMA DiskWritesPicture ==
    ASSUME DiskInv, BoundInv, NEW f \in Pictures, WritePicture(f)
    PROVE  DiskInv' /\ BoundInv'
<1>1. /\ cache' = Newest(f) /\ strays' = strays \cup {f} /\ LateForPrunes(f)
      /\ UNCHANGED <<torn, dir, pc, key, listing>>
  BY DEF WritePicture, callVars
<1>2. f \in Files
  BY DEF Files
<1>3. Removers' = Removers /\ Owed' = Owed
  BY <1>1 DEF Removers, Owed, Filers
<1>4. \A p \in Removers : key[p] # f
  BY PicturesAssumption DEF Removers, DiskInv
<1>5. Owed \cup strays \cup {f} \subseteq (Owed \cup strays)'
  BY <1>1, <1>3
<1>6. /\ cache' \in Seq(Files) /\ IsInjective(cache')
      /\ ToSet(cache') = ToSet(cache) \cup {f}
      /\ late' \in [Procs -> SUBSET Files]
      /\ \A q \in Procs : pc[q] # "remove" => late'[q] = {}
      /\ BoundInv'
  BY <1>1, <1>2, <1>3, <1>4, <1>5, DiskGains
<1>7. torn' \subseteq ToSet(cache')
  BY <1>1, <1>6 DEF DiskInv
<1>8. strays' \subseteq Files
  BY <1>1, <1>2 DEF DiskInv
<1> QED
  BY <1>1, <1>6, <1>7, <1>8 DEF DiskInv

\* A file that is written stays where it is.
LEMMA DiskEnds ==
    ASSUME DiskInv, BoundInv, NEW p \in Procs, WriteEnds(p)
    PROVE  DiskInv' /\ BoundInv'
<1> USE DEF At, Goto, End, callVars
<1>1. /\ pc[p] = "writing" /\ pc' = [pc EXCEPT ![p] = "prune"]
      /\ torn' = torn \ {key[p]}
      /\ UNCHANGED <<cache, dir, listing, strays, late, key>>
  BY DEF WriteEnds, boundVars
<1>2. Filers' = Filers /\ Removers' = Removers
  BY <1>1 DEF DiskInv, Filers, Filling, Removers
<1>3. Owed' = Owed
  BY <1>1, <1>2 DEF Owed
<1>4. pc' \in [Procs -> Labels]
  BY <1>1 DEF DiskInv, Labels, Leading
<1>5. DiskInv'
  BY <1>1, <1>4 DEF DiskInv
<1>6. BoundInv'
  BY <1>1, <1>2, <1>3 DEF BoundInv
<1> QED
  BY <1>5, <1>6

\* A write that fails leaves its file a stray.
LEMMA DiskFails ==
    ASSUME DiskInv, BoundInv, NEW p \in Procs, WriteFails(p)
    PROVE  DiskInv' /\ BoundInv'
<1> USE DEF At, Goto, End, callVars
<1>1. /\ pc[p] = "writing" /\ pc' = [pc EXCEPT ![p] = "finish"]
      /\ UNCHANGED <<cache, torn, dir, listing, late, key>>
      /\ strays' = strays \cup {key[p]}
  BY DEF WriteFails, diskVars
<1>2. Filers' = Filers \ {p} /\ Removers' = Removers
  BY <1>1 DEF DiskInv, Filers, Filling, Removers
<1>3. Owed \subseteq Owed' \cup {key[p]}
  BY <1>1, <1>2 DEF Owed
<1>4. pc' \in [Procs -> Labels] /\ strays' \subseteq Files
  BY <1>1 DEF DiskInv, Labels, Leading, Files
<1>5. DiskInv'
  BY <1>1, <1>4 DEF DiskInv
<1>6. (Owed \cup strays) \subseteq (Owed \cup strays)'
  BY <1>1, <1>3
<1>7. BoundInv'
  BY <1>1, <1>2, <1>6 DEF BoundInv
<1> QED
  BY <1>5, <1>7

\* A prune that lists, or finds the directory under its cap.
LEMMA DiskLists ==
    ASSUME DiskInv, BoundInv, NEW p \in Procs, PruneLists(p)
    PROVE  DiskInv' /\ BoundInv'
<1> USE DEF At, Goto, End
<1>0. /\ pc[p] = "prune" /\ UNCHANGED <<cache, torn, dir, key>>
      /\ AfterPrune(p) \in {"finish", "askPhone"}
  BY DEF PruneLists, AfterPrune, diskVars
<1>1. CASE OverCap(cache)
  <2>1. /\ listing' = [listing EXCEPT ![p] = cache] /\ pc' = [pc EXCEPT ![p] = "remove"]
        /\ strays' = strays /\ late' = late
    BY <1>1 DEF PruneLists
  <2>2. p \notin Removers /\ Filers' = Filers /\ Removers' = Removers \cup {p}
    BY <1>0, <2>1 DEF DiskInv, Filers, Filling, Removers
  <2>3. Owed' = Owed
    BY <1>0, <2>2 DEF Owed
  <2>4. pc' \in [Procs -> Labels] /\ listing' \in [Procs -> Seq(Files)]
        /\ late' \in [Procs -> SUBSET Files]
    BY <2>1 DEF DiskInv, Labels, Leading
  <2>5. DiskInv'
    BY <1>0, <2>1, <2>4 DEF DiskInv
  <2>6. /\ listing'[p] = cache /\ late'[p] = {}
        /\ \A q \in Removers : listing'[q] = listing[q] /\ late'[q] = late[q]
    BY <1>0, <2>1, <2>2 DEF DiskInv, Removers
  <2>7. \A S : Nested({}, S) /\ Nested(S, {})
    BY DEF Nested
  <2>8. ASSUME NEW q \in Removers'
        PROVE  /\ ToSet(cache) \ ToSet(listing'[q]) \subseteq late'[q]
               /\ key[q] \notin late'[q]
               /\ \A r \in Removers' : Nested(late'[q], late'[r])
    BY <2>2, <2>6, <2>7 DEF BoundInv
  <2>9. PICK U \in SUBSET (Owed \cup strays) :
            /\ Within(ToSet(cache) \ U)
            /\ \A q \in Removers : Nested(U, late[q])
    BY DEF BoundInv
  <2>10. \A q \in Removers' : Nested(U, late'[q])
    BY <2>2, <2>6, <2>7, <2>9
  <2>11. BoundInv'
    BY <1>0, <2>1, <2>3, <2>8, <2>9, <2>10 DEF BoundInv
  <2> QED
    BY <2>5, <2>11
<1>2. CASE ~OverCap(cache)
  <2>1. listing' = listing /\ pc' = [pc EXCEPT ![p] = AfterPrune(p)]
        /\ strays' = {} /\ late' = late
    BY <1>2 DEF PruneLists
  <2>2. Removers' = Removers
    BY <1>0, <2>1 DEF DiskInv, Removers
  <2>3. pc' \in [Procs -> Labels]
    BY <1>0, <2>1 DEF DiskInv, Labels, Leading
  <2>4. DiskInv'
    BY <1>0, <2>1, <2>3 DEF DiskInv
  <2>5. BoundInv'
    <3>1. IsFiniteSet(ToSet(cache)) /\ Cardinality(ToSet(cache)) = Len(cache)
      BY Once DEF DiskInv
    <3>2. Len(cache) \in Nat /\ MaxFiles \in Nat
      BY LenProperties, MediaBoundsAssumption DEF DiskInv
    <3>3. Within(ToSet(cache) \ {})
      BY <1>2, <3>1, <3>2 DEF OverCap, Within
    <3>4. \A q \in Removers : Nested({}, late[q])
      BY DEF Nested
    <3> QED
      BY <1>0, <2>1, <2>2, <3>3, <3>4 DEF BoundInv
  <2> QED
    BY <2>4, <2>5
<1> QED
  BY <1>1, <1>2

\* A prune that removes, however outdated its listing.
LEMMA DiskRemoves ==
    ASSUME DiskInv, BoundInv, NEW p \in Procs, PruneRemoves(p)
    PROVE  DiskInv' /\ BoundInv'
<1> USE DEF At, Goto, End
<1> DEFINE gone == Victims(listing[p])
<1>0. /\ pc[p] = "remove" /\ UNCHANGED <<dir, key>>
      /\ AfterPrune(p) \in {"finish", "askPhone"}
      /\ cache' = Without(cache, gone) /\ torn' = torn \ gone
      /\ listing' = [listing EXCEPT ![p] = <<>>]
      /\ strays' = strays \cap late[p] /\ late' = [late EXCEPT ![p] = {}]
      /\ pc' = [pc EXCEPT ![p] = AfterPrune(p)]
  BY DEF PruneRemoves, AfterPrune
<1>1. ToSet(cache) \ gone = Pruned(listing[p], ToSet(cache))
  BY VictimsPrune
<1> HIDE DEF gone
<1>2. cache' \in Seq(Files) /\ IsInjective(cache') /\ ToSet(cache') = ToSet(cache) \ gone
  BY <1>0, WithoutStays DEF DiskInv
<1>3. p \in Removers /\ Filers' = Filers \ {p} /\ Removers' = Removers \ {p}
  BY <1>0 DEF DiskInv, Filers, Filling, Removers
<1>4. pc' \in [Procs -> Labels] /\ listing' \in [Procs -> Seq(Files)]
      /\ late' \in [Procs -> SUBSET Files] /\ strays' \subseteq Files
  BY <1>0 DEF DiskInv, Labels, Leading
<1>5. torn' \subseteq ToSet(cache')
  BY <1>0, <1>2 DEF DiskInv
<1>6. DiskInv'
  BY <1>0, <1>2, <1>4, <1>5 DEF DiskInv
<1>7. \A q \in Removers' :
          q \in Removers /\ listing'[q] = listing[q] /\ late'[q] = late[q]
  BY <1>0, <1>3 DEF DiskInv, Removers
<1>8. PICK U \in SUBSET (Owed \cup strays) :
          /\ Within(ToSet(cache) \ U)
          /\ \A q \in Removers : Nested(U, late[q])
  BY DEF BoundInv
<1>9. Within(ToSet(cache') \ late[p])
  <2>1. Within(Pruned(listing[p], ToSet(cache)) \cap ToSet(listing[p]))
    BY PruneSuffices DEF DiskInv
  <2>2. ToSet(cache) \ ToSet(listing[p]) \subseteq late[p]
    BY <1>3 DEF BoundInv
  <2>3. ToSet(cache') = Pruned(listing[p], ToSet(cache)) /\ ToSet(cache') \subseteq ToSet(cache)
    BY <1>1, <1>2
  <2>4. ToSet(cache') \ late[p]
            \subseteq Pruned(listing[p], ToSet(cache)) \cap ToSet(listing[p])
    BY <2>2, <2>3
  <2> QED
    BY <2>1, <2>4, WithinLess
<1>10. Within(ToSet(cache') \ U)
  <2>1. ToSet(cache') \ U \subseteq ToSet(cache) \ U
    BY <1>2
  <2> QED
    BY <1>8, <2>1, WithinLess
<1>11. Within(ToSet(cache') \ (U \cap late[p]))
  <2>1. U \cap late[p] = U \/ U \cap late[p] = late[p]
    BY <1>3, <1>8 DEF Nested
  <2> QED
    BY <1>9, <1>10, <2>1
<1>12. U \cap late[p] \in SUBSET (Owed \cup strays)'
  <2>1. key[p] \notin late[p]
    BY <1>3 DEF BoundInv
  <2>2. Owed \ {key[p]} \subseteq Owed'
    BY <1>0, <1>3 DEF Owed
  <2> QED
    BY <1>0, <1>8, <2>1, <2>2
<1>13. \A q \in Removers' : Nested(U \cap late[p], late'[q])
  BY <1>3, <1>7, <1>8 DEF BoundInv, Nested
<1>14. ASSUME NEW q \in Removers'
       PROVE  /\ ToSet(cache') \ ToSet(listing'[q]) \subseteq late'[q]
              /\ key[q] \notin late'[q]
              /\ \A r \in Removers' : Nested(late'[q], late'[r])
  BY <1>2, <1>7 DEF BoundInv
<1>15. BoundInv'
  BY <1>0, <1>11, <1>12, <1>13, <1>14 DEF BoundInv
<1> QED
  BY <1>6, <1>15

\* Nothing is left to bound in a directory that is removed.
LEMMA DiskClears ==
    ASSUME DiskInv, BoundInv, ClearMedia
    PROVE  DiskInv' /\ BoundInv'
<1>1. /\ cache' = <<>> /\ torn' = {} /\ dir' = FALSE /\ strays' = {}
      /\ UNCHANGED <<pc, key, listing, late>>
  BY DEF ClearMedia, callVars
<1>2. Removers' = Removers
  BY <1>1 DEF Removers
<1>3. ToSet(cache') = {} /\ IsInjective(cache') /\ cache' \in Seq(Files)
  BY <1>1, EmptyOrder
<1>4. DiskInv'
  BY <1>1, <1>3 DEF DiskInv
<1>5. Within(ToSet(cache') \ {}) /\ \A p \in Removers : Nested({}, late[p])
  BY <1>3, NoneWithin DEF Nested
<1>6. \A p \in Removers :
          /\ ToSet(cache') \ ToSet(listing[p]) \subseteq late[p]
          /\ key[p] \notin late[p]
          /\ \A q \in Removers : Nested(late[p], late[q])
  BY <1>3 DEF BoundInv
<1>7. BoundInv'
  BY <1>1, <1>2, <1>5, <1>6 DEF BoundInv
<1> QED
  BY <1>4, <1>7

\* A restart prunes nothing; the files of the calls that died are strays.
LEMMA DiskCrashes ==
    ASSUME DiskInv, BoundInv, Crash
    PROVE  DiskInv' /\ BoundInv'
<1>1. /\ UNCHANGED <<cache, torn, key>> /\ dir' = TRUE
      /\ strays' = strays \cup Owed
      /\ pc' = [p \in Procs |-> "idle"] /\ listing' = [p \in Procs |-> <<>>]
      /\ late' = [p \in Procs |-> {}]
  BY DEF Crash, FreshMemory
<1>2. Removers' = {}
  BY <1>1 DEF Removers
<1>3. Owed \subseteq Files
  BY DEF Owed, Filers, DiskInv, Files
<1>4. pc' \in [Procs -> Labels] /\ listing' \in [Procs -> Seq(Files)]
  BY <1>1 DEF Labels
<1>5. DiskInv'
  BY <1>1, <1>3, <1>4 DEF DiskInv
<1>6. PICK U \in SUBSET (Owed \cup strays) : Within(ToSet(cache) \ U)
  BY DEF BoundInv
<1>7. U \in SUBSET (Owed \cup strays)'
  BY <1>1, <1>6
<1>8. BoundInv'
  BY <1>1, <1>2, <1>6, <1>7 DEF BoundInv
<1> QED
  BY <1>5, <1>8

\* No step takes the directory out of what the prunes to come can make good.
LEMMA DiskStep == FlightInv /\ DiskInv /\ BoundInv /\ [Next]_vars => DiskInv' /\ BoundInv'
<1> SUFFICES ASSUME FlightInv, DiskInv, BoundInv, [Next]_vars PROVE DiskInv' /\ BoundInv'
  OBVIOUS
<1>1. ASSUME NEW p \in Procs, WriteOpens(p) \/ WriteEnds(p) \/ WriteFails(p)
      PROVE  DiskInv' /\ BoundInv'
  BY <1>1, DiskOpens, DiskEnds, DiskFails
<1>2. ASSUME NEW p \in Procs, PruneLists(p) \/ PruneRemoves(p) PROVE DiskInv' /\ BoundInv'
  BY <1>2, DiskLists, DiskRemoves
<1>3. CASE ClearMedia \/ Crash
  BY <1>3, DiskClears, DiskCrashes
<1>9. ASSUME NEW f \in Pictures, WritePicture(f) PROVE DiskInv' /\ BoundInv'
  BY <1>9, DiskWritesPicture
<1> USE DEF At, Goto, End, callVars, boundVars, DiskInv, Labels, Leading, Filling
<1>4. ASSUME NEW k \in Keys, Record(k) PROVE DiskInv' /\ BoundInv'
  BY <1>4, DiskKept DEF Record
<1>5. ASSUME NEW p \in Procs, NEW k \in Keys, Media(p, k) PROVE DiskInv' /\ BoundInv'
  <2>1. UNCHANGED <<diskVars, listing, strays, late>>
    BY <1>5 DEF Media
  <2>2. pc' \in [Procs -> Labels] /\ key' \in [Procs -> Keys]
    BY <1>5 DEF Media
  <2>3. /\ \A q \in Procs : pc'[q] \in Filling <=> pc[q] \in Filling
        /\ \A q \in Procs : pc'[q] = "remove" <=> pc[q] = "remove"
        /\ \A q \in Procs : pc[q] \in Filling => key'[q] = key[q]
    BY <1>5 DEF Media
  <2> QED
    BY <2>1, <2>2, <2>3, DiskKept
<1>6. ASSUME NEW p \in Procs,
             \/ Stat(p) \/ Claim(p) \/ Fetch(p) \/ FetchFails(p) \/ FetchPending(p)
             \/ AskPhone(p) \/ GiveUpWaiting(p)
      PROVE  DiskInv' /\ BoundInv'
  <2>1. UNCHANGED <<diskVars, listing, strays, late, key>>
    BY <1>6 DEF Stat, Claim, Fetch, FetchFails, FetchPending, AskPhone, GiveUpWaiting
  <2>2. /\ pc[p] \in Labels \ Filling
        /\ \E l \in Labels \ Filling : pc' = [pc EXCEPT ![p] = l]
    BY <1>6 DEF Stat, Claim, Fetch, FetchFails, FetchPending, AskPhone, GiveUpWaiting
  <2>3. PICK l \in Labels \ Filling : pc' = [pc EXCEPT ![p] = l]
    BY <2>2
  <2>4. pc' \in [Procs -> Labels]
    BY <2>3
  <2>5. /\ \A q \in Procs : pc'[q] \in Filling <=> pc[q] \in Filling
        /\ \A q \in Procs : pc'[q] = "remove" <=> pc[q] = "remove"
    BY <2>2, <2>3
  <2> QED
    BY <2>1, <2>4, <2>5, DiskKept
<1>7. ASSUME NEW p \in Procs, Finish(p) PROVE DiskInv' /\ BoundInv'
  <2>1. UNCHANGED <<diskVars, listing, strays, late, key>>
    BY <1>7 DEF Finish
  <2>2. /\ pc' = [q \in Procs |->
                    IF q = p THEN "idle" ELSE IF q \in Wakes(p) THEN "restat" ELSE pc[q]]
        /\ pc[p] = "finish" /\ \A q \in Wakes(p) : pc[q] = "wait"
    BY <1>7 DEF Finish, Wakes
  <2>3. pc' \in [Procs -> Labels]
    BY <2>2
  <2>4. /\ \A q \in Procs : pc'[q] \in Filling <=> pc[q] \in Filling
        /\ \A q \in Procs : pc'[q] = "remove" <=> pc[q] = "remove"
    BY <2>2
  <2> QED
    BY <2>1, <2>3, <2>4, DiskKept
<1>8. CASE UNCHANGED vars
  BY <1>8, DiskKept DEF vars
<1> QED
  BY <1>1, <1>2, <1>3, <1>4, <1>5, <1>6, <1>7, <1>8, <1>9 DEF Next, Step

\* The files that no call has yet to prune for and no stray write left fit in the cap.
THEOREM CacheIsBounded == Spec => []CacheBounded
<1>1. ASSUME DiskInv, BoundInv PROVE CacheBounded
  <2>1. PICK U \in SUBSET (Owed \cup strays) : Within(ToSet(cache) \ U)
    BY <1>1 DEF BoundInv
  <2>2. Within(ToSet(cache) \ (Owed \cup strays))
    BY <2>1, WithinLess
  <2> QED
    BY <2>2 DEF Within, CacheBounded
<1> QED
  BY <1>1, FlightInit, FlightStep, DiskInit, DiskStep, PTL DEF Spec

\* The types no invariant above has.
RestInv ==
    /\ route \in [Procs -> Routes]
    /\ awaits \in [Procs -> Procs \cup {NoProc}]
    /\ messages \in 0..MaxMessages
    /\ faults \in 0..MaxFaults

\* A call copies a route it has, and waits for a call that leads.
LEMMA RestStep == FlightInv /\ MemoryInv /\ RestInv /\ [Next]_vars => RestInv'
<1> SUFFICES ASSUME FlightInv, MemoryInv, RestInv, [Next]_vars PROVE RestInv'
  OBVIOUS
<1> USE MediaBoundsAssumption DEF RestInv
<1>1. ASSUME NEW k \in Keys, Record(k) PROVE RestInv'
  BY <1>1 DEF Record, callVars
<1>2. ASSUME NEW p \in Procs, NEW k \in Keys, Media(p, k) PROVE RestInv'
  <2>1. CASE secrets[k] = "unknown"
    BY <1>2, <2>1 DEF Media, boundVars
  <2>2. CASE secrets[k] # "unknown"
    <3>1. secrets[k] \in Routes
      BY <2>2 DEF MemoryInv
    <3> QED
      BY <1>2, <2>2, <3>1 DEF Media, boundVars
  <2> QED
    BY <2>1, <2>2
<1>3. ASSUME NEW p \in Procs, Claim(p) PROVE RestInv'
  <2>1. inflight[key[p]] \in Procs \cup {NoProc}
    BY DEF FlightInv
  <2> QED
    BY <1>3, <2>1 DEF Claim, boundVars
<1>4. ASSUME NEW p \in Procs,
             \/ Stat(p) \/ Fetch(p) \/ FetchFails(p) \/ FetchPending(p) \/ WriteOpens(p)
             \/ WriteEnds(p) \/ PruneLists(p) \/ PruneRemoves(p) \/ AskPhone(p)
      PROVE  RestInv'
  BY <1>4 DEF Stat, Fetch, FetchFails, FetchPending, WriteOpens, WriteEnds, PruneLists,
              PruneRemoves, AskPhone, callVars, boundVars
<1>5. ASSUME NEW p \in Procs, Finish(p) PROVE RestInv'
  BY <1>5 DEF Finish, boundVars
<1>6. ASSUME NEW p \in Procs, GiveUpWaiting(p) PROVE RestInv'
  BY <1>6 DEF GiveUpWaiting, boundVars
<1>7. ASSUME NEW p \in Procs, WriteFails(p) PROVE RestInv'
  BY <1>7 DEF WriteFails, callVars
<1>8. CASE ClearMedia
  BY <1>8 DEF ClearMedia, callVars, boundVars
<1>9. CASE Crash
  BY <1>9 DEF Crash, FreshMemory
<1>10. CASE UNCHANGED vars
  BY <1>10 DEF vars, callVars, boundVars
<1>11. ASSUME NEW f \in Pictures, WritePicture(f) PROVE RestInv'
  BY <1>11 DEF WritePicture, callVars
<1> QED
  BY <1>1, <1>2, <1>3, <1>4, <1>5, <1>6, <1>7, <1>8, <1>9, <1>10, <1>11 DEF Next, Step

\* Types, for any calls, keys, limits and bounds: the directory has each file once, and
\* only files that are in it can be torn.
THEOREM TypeCorrect == Spec => []TypeOK
<1>1. Init => RestInv
  BY MediaBoundsAssumption DEF Init, RestInv, Routes
<1>2. FlightInv /\ WholeInv /\ MemoryInv /\ DiskInv /\ RestInv => TypeOK
  BY DEF FlightInv, WholeInv, MemoryInv, DiskInv, RestInv, TypeOK
<1> QED
  BY <1>1, <1>2, FlightInit, FlightStep, WholeInit, WholeStep, MemoryInit, MemoryStep,
     DiskInit, DiskStep, RestStep, PTL DEF Spec
=============================================================================
