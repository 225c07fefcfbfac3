------------------------------- MODULE Media -------------------------------
(***************************************************************************)
(* Attachments: the secrets remembered from messages, the cache of files,  *)
(* and the Media calls that fill it, with their single flight per key, the *)
(* request for the full-size original and the pruning of the cache.        *)
(*                                                                         *)
(* A key has one file: a media id is its own key, and a part without one   *)
(* is cached under its thumbnail's name. Conversation pictures and GIFs    *)
(* are written to the same directory, by code that never prunes it. A file *)
(* counts as one, whatever its bytes; the cache is the sequence of its     *)
(* files, oldest first.                                                    *)
(***************************************************************************)
EXTENDS Naturals, FiniteSets, SequencesExt

CONSTANTS
    Procs,        \* request goroutines
    NoProc,       \* no goroutine
    Keys,         \* attachment keys
    Full,         \* the keys that are media ids
    Pictures,     \* conversation pictures and GIFs
    MaxSecrets,   \* maxSecrets, 4096 in the code
    MaxFiles,     \* maxCacheBytes, as a number of files
    MaxMessages,  \* bound: messages with an attachment ever received
    MaxFaults     \* bound: crashes and failed writes ever

ASSUME NoProcAssumption == NoProc \notin Procs
ASSUME FullAssumption == Full \subseteq Keys
ASSUME PicturesAssumption == Pictures \cap Keys = {}
ASSUME MediaBoundsAssumption ==
    /\ MaxSecrets \in Nat \ {0}
    /\ MaxFiles \in Nat \ {0}
    /\ MaxMessages \in Nat
    /\ MaxFaults \in Nat

VARIABLES
    secrets,    \* mediaCache.secrets: the best route to each key's bytes
    order,      \* mediaCache.order: keys, oldest first
    requested,  \* mediaCache.requested
    inflight,   \* mediaCache.inflight: the call that fetches each key
    cache,      \* the files of the media directory, oldest first
    torn,       \* those that are not whole: being written, or cut
    dir,        \* the media directory exists
    pc,         \* where each Media call is
    key,        \* the key it was asked for
    route,      \* its copy of the secret
    awaits,     \* the call whose end it waits for
    listing,    \* the directory listing its prune works from
    result,     \* how it last ended
    asks,       \* history: full-size requests this process sent for each key
    forgotten,  \* history: times this process trimmed each key
    strays,     \* history: files by writes that no prune followed yet, see below
    late,       \* history: files opened since each prune under way listed
    messages,   \* counts against MaxMessages
    faults      \* counts against MaxFaults

memoryVars == <<secrets, order, requested, asks, forgotten>>
diskVars   == <<cache, torn, dir>>
callVars   == <<key, route, awaits, listing>>
boundVars  == <<strays, late, messages, faults>>
vars == <<memoryVars, inflight, diskVars, pc, callVars, result, boundVars>>

Files == Keys \cup Pictures

Routes == {"full", "thumb", "inline", "nothing"}

\* The calls that hold the flight of their key, and those with a file to prune for.
Leading == {"fetch", "write", "writing", "prune", "remove", "askPhone", "finish"}
Filling == {"writing", "prune", "remove"}
Labels  == Leading \cup {"idle", "stat", "claim", "wait", "restat"}

TypeOK ==
    /\ secrets \in [Keys -> Routes \cup {"unknown"}]
    /\ order \in Seq(Keys)
    /\ requested \subseteq Keys
    /\ inflight \in [Keys -> Procs \cup {NoProc}]
    /\ cache \in Seq(Files) /\ IsInjective(cache)
    /\ torn \subseteq ToSet(cache)
    /\ dir \in BOOLEAN
    /\ pc \in [Procs -> Labels]
    /\ key \in [Procs -> Keys]
    /\ route \in [Procs -> Routes]
    /\ awaits \in [Procs -> Procs \cup {NoProc}]
    /\ listing \in [Procs -> Seq(Files)]
    /\ result \in [Procs -> {"none", "path", "pending", "error"}]
    /\ asks \in [Keys -> Nat]
    /\ forgotten \in [Keys -> Nat]
    /\ strays \subseteq Files
    /\ late \in [Procs -> SUBSET Files]
    /\ messages \in 0..MaxMessages
    /\ faults \in 0..MaxFaults

\* A process just started, whatever files the last one left.
FreshMemory ==
    /\ secrets' = [k \in Keys |-> "unknown"]
    /\ order' = <<>>
    /\ requested' = {}
    /\ asks' = [k \in Keys |-> 0]
    /\ forgotten' = [k \in Keys |-> 0]
    /\ inflight' = [k \in Keys |-> NoProc]
    /\ pc' = [p \in Procs |-> "idle"]
    /\ awaits' = [p \in Procs |-> NoProc]
    /\ listing' = [p \in Procs |-> <<>>]
    /\ late' = [p \in Procs |-> {}]

Init ==
    /\ secrets = [k \in Keys |-> "unknown"]
    /\ order = <<>>
    /\ requested = {}
    /\ inflight = [k \in Keys |-> NoProc]
    /\ cache = <<>>
    /\ torn = {}
    /\ dir = TRUE
    /\ pc = [p \in Procs |-> "idle"]
    /\ key \in [Procs -> Keys]
    /\ route = [p \in Procs |-> "nothing"]
    /\ awaits = [p \in Procs |-> NoProc]
    /\ listing = [p \in Procs |-> <<>>]
    /\ result = [p \in Procs |-> "none"]
    /\ asks = [k \in Keys |-> 0]
    /\ forgotten = [k \in Keys |-> 0]
    /\ strays = {}
    /\ late = [p \in Procs |-> {}]
    /\ messages = 0
    /\ faults = 0

At(p, label) == pc[p] = label
Goto(p, label) == pc' = [pc EXCEPT ![p] = label]
End(p, how) == result' = [result EXCEPT ![p] = how]
Filers == {p \in Procs : pc[p] \in Filling}

\* The files that some call has opened and will prune for.
Owed == {key[p] : p \in Filers}

\* A file is opened: the prunes under way have not listed it.
LateForPrunes(f) ==
    late' = [p \in Procs |-> IF At(p, "remove") THEN late[p] \cup {f} ELSE late[p]]

-----------------------------------------------------------------------------
(* mediaCache.record, for a message with one attachment.                   *)

\* Mutant: a key is appended every time it is seen.
AlwaysNew(k) == TRUE

New(k) == secrets[k] = "unknown"

\* What record makes of the order before it trims.
Grown(k) == IF New(k) THEN Append(order, k) ELSE order

RoutesOf(k) == IF k \in Full THEN {"full"} ELSE Routes \ {"full"}

Record(k) ==
    /\ messages < MaxMessages
    /\ messages' = messages + 1
    /\ \E r \in RoutesOf(k) :
          LET known == [secrets EXCEPT ![k] = r]
              keys  == Grown(k)
              old   == Head(keys)
          IN  IF Len(keys) > MaxSecrets
              THEN /\ order' = Tail(keys)
                   /\ secrets' = [known EXCEPT ![old] = "unknown"]
                   /\ requested' = requested \ {old}
                   /\ forgotten' = [forgotten EXCEPT ![old] = @ + 1]
              ELSE /\ order' = keys
                   /\ secrets' = known
                   /\ UNCHANGED <<requested, forgotten>>
    /\ UNCHANGED <<asks, inflight, diskVars, pc, callVars, result, strays, late, faults>>

-----------------------------------------------------------------------------
(* Media.                                                                  *)

\* The call copies the secret; an unknown key is an error at once.
Media(p, k) ==
    /\ At(p, "idle")
    /\ key' = [key EXCEPT ![p] = k]
    /\ IF secrets[k] = "unknown"
       THEN End(p, "error") /\ UNCHANGED <<pc, route>>
       ELSE /\ route' = [route EXCEPT ![p] = secrets[k]]
            /\ End(p, "none")
            /\ Goto(p, "stat")
    /\ UNCHANGED <<memoryVars, inflight, diskVars, awaits, listing, boundVars>>

\* A file under the key's name is the answer, looked for before the flight is
\* claimed and, by a call that waited for another's, after it. Without the file it
\* is an error when there is no session, or after the wait.
Stat(p) ==
    /\ pc[p] \in {"stat", "restat"}
    /\ \/ key[p] \in ToSet(cache) /\ End(p, "path") /\ Goto(p, "idle")
       \/ key[p] \notin ToSet(cache) /\ At(p, "stat") /\ Goto(p, "claim") /\ UNCHANGED result
       \/ key[p] \notin ToSet(cache) /\ End(p, "error") /\ Goto(p, "idle")
    /\ UNCHANGED <<memoryVars, inflight, diskVars, callVars, boundVars>>

\* Mutant: a key in flight is claimed all the same.
NeverBusy(k) == FALSE

Busy(k) == inflight[k] # NoProc

\* The call leads the key's flight, or waits for the one that does.
Claim(p) ==
    /\ At(p, "claim")
    /\ IF Busy(key[p])
       THEN /\ awaits' = [awaits EXCEPT ![p] = inflight[key[p]]]
            /\ Goto(p, "wait")
            /\ UNCHANGED inflight
       ELSE /\ inflight' = [inflight EXCEPT ![key[p]] = p]
            /\ Goto(p, "fetch")
            /\ UNCHANGED awaits
    /\ UNCHANGED <<memoryVars, diskVars, key, route, listing, result, boundVars>>

\* The caller's context is done before the flight is over.
GiveUpWaiting(p) ==
    /\ At(p, "wait")
    /\ awaits' = [awaits EXCEPT ![p] = NoProc]
    /\ End(p, "error")
    /\ Goto(p, "idle")
    /\ UNCHANGED <<memoryVars, inflight, diskVars, key, route, listing, boundVars>>

\* The best route is downloaded, or the inlined bytes are taken.
Fetch(p) ==
    /\ At(p, "fetch") /\ route[p] # "nothing"
    /\ Goto(p, "write")
    /\ UNCHANGED <<memoryVars, inflight, diskVars, callVars, result, boundVars>>

\* Too large, or the download failed.
FetchFails(p) ==
    /\ At(p, "fetch") /\ route[p] # "nothing"
    /\ End(p, "error")
    /\ Goto(p, "finish")
    /\ UNCHANGED <<memoryVars, inflight, diskVars, callVars, boundVars>>

\* There is nothing to download yet.
FetchPending(p) ==
    /\ At(p, "fetch") /\ route[p] = "nothing"
    /\ End(p, "pending")
    /\ Goto(p, "askPhone")
    /\ UNCHANGED <<memoryVars, inflight, diskVars, callVars, boundVars>>

\* Mutant: a file written again keeps its old place as well.
NewestToo(k) == Append(cache, k)

\* How many of a set of places are at or before one.
UpTo(places, i) == Cardinality({j \in places : j <= i})

\* What is left of a directory without some files: the n-th is the one whose place is
\* the n-th of those that stay.
Without(files, gone) ==
    LET left == {i \in DOMAIN files : files[i] \notin gone}
    IN  [n \in 1..Cardinality(left) |-> files[CHOOSE i \in left : UpTo(left, i) = n]]

\* The files once k is created or truncated: k is the newest.
Newest(k) == Append(Without(cache, {k}), k)

\* WriteFile opens the file, which is empty now; without a directory it fails.
WriteOpens(p) ==
    /\ At(p, "write")
    /\ IF dir
       THEN /\ cache' = Newest(key[p])
            /\ torn' = torn \cup {key[p]}
            /\ LateForPrunes(key[p])
            /\ Goto(p, "writing")
            /\ UNCHANGED result
       ELSE /\ End(p, "error")
            /\ Goto(p, "finish")
            /\ UNCHANGED <<cache, torn, late>>
    /\ UNCHANGED <<memoryVars, inflight, dir, callVars, strays, messages, faults>>

WriteEnds(p) ==
    /\ At(p, "writing")
    /\ torn' = torn \ {key[p]}
    /\ End(p, "path")
    /\ Goto(p, "prune")
    /\ UNCHANGED <<memoryVars, inflight, cache, dir, callVars, boundVars>>

\* The disk is full: what was written stays, and nothing is pruned for it.
WriteFails(p) ==
    /\ At(p, "writing")
    /\ faults < MaxFaults
    /\ faults' = faults + 1
    /\ strays' = strays \cup {key[p]}
    /\ End(p, "error")
    /\ Goto(p, "finish")
    /\ UNCHANGED <<memoryVars, inflight, diskVars, callVars, late, messages>>

AfterPrune(p) == IF route[p] = "full" THEN "finish" ELSE "askPhone"

\* Mutant: the cap is looked at before the file is counted.
OverCapLate(files) == Len(files) > MaxFiles + 1

OverCap(files) == Len(files) > MaxFiles

\* pruneDir lists the directory ...
PruneLists(p) ==
    /\ At(p, "prune")
    /\ IF OverCap(cache)
       THEN /\ listing' = [listing EXCEPT ![p] = cache]
            /\ Goto(p, "remove")
            /\ UNCHANGED strays
       ELSE Goto(p, AfterPrune(p)) /\ strays' = {} /\ UNCHANGED listing
    /\ UNCHANGED <<memoryVars, inflight, diskVars, key, route, awaits, result, late,
                   messages, faults>>

\* ... and removes its oldest files until their sum is under the cap. A file that
\* another prune removed meanwhile still counts, so one more goes for it. Writes
\* that it did not list wait for the next prune.
Victims(files) ==
    LET present == {i \in DOMAIN files : files[i] \in ToSet(cache)}
    IN  {files[i] : i \in {j \in present : UpTo(present, j) + MaxFiles <= Len(files)}}

PruneRemoves(p) ==
    /\ At(p, "remove")
    /\ LET gone == Victims(listing[p])
       IN  /\ cache' = Without(cache, gone)
           /\ torn' = torn \ gone
    /\ listing' = [listing EXCEPT ![p] = <<>>]
    /\ strays' = strays \cap late[p]
    /\ late' = [late EXCEPT ![p] = {}]
    /\ Goto(p, AfterPrune(p))
    /\ UNCHANGED <<memoryVars, inflight, dir, key, route, awaits, result, messages, faults>>

\* Mutant: a claim is not recorded.
ClaimForgotten(k) == requested

Claimed(k) == requested \cup {k}

\* requestFullSize: the phone is asked unless it was already.
AskPhone(p) ==
    /\ At(p, "askPhone")
    /\ IF key[p] \in requested
       THEN UNCHANGED <<requested, asks>>
       ELSE /\ requested' = Claimed(key[p])
            /\ asks' = [asks EXCEPT ![key[p]] = @ + 1]
    /\ Goto(p, "finish")
    /\ UNCHANGED <<secrets, order, forgotten, inflight, diskVars, callVars, result,
                   boundVars>>

\* Mutant: the channel is closed only after a download that worked.
WakesAfterSuccess(p) ==
    IF result[p] = "error" THEN {} ELSE {q \in Procs : At(q, "wait") /\ awaits[q] = p}

Wakes(p) == {q \in Procs : At(q, "wait") /\ awaits[q] = p}

\* The deferred release: the flight is over and its waiters wake.
Finish(p) ==
    /\ At(p, "finish")
    /\ inflight' = [inflight EXCEPT ![key[p]] = NoProc]
    /\ pc' = [q \in Procs |->
                 IF q = p THEN "idle" ELSE IF q \in Wakes(p) THEN "restat" ELSE pc[q]]
    /\ awaits' = [q \in Procs |-> IF q \in Wakes(p) THEN NoProc ELSE awaits[q]]
    /\ UNCHANGED <<memoryVars, diskVars, key, route, listing, result, boundVars>>

-----------------------------------------------------------------------------
\* A conversation picture or a GIF is written, over an older file of its name or not,
\* and whole or cut: no prune follows.
WritePicture(f) ==
    /\ dir
    /\ cache' = Newest(f)
    /\ strays' = strays \cup {f}
    /\ LateForPrunes(f)
    /\ UNCHANGED <<memoryVars, inflight, torn, dir, pc, callVars, result, messages, faults>>

\* ClearSession removes the directory, which only the next process creates again.
ClearMedia ==
    /\ dir
    /\ dir' = FALSE
    /\ cache' = <<>>
    /\ torn' = {}
    /\ strays' = {}
    /\ UNCHANGED <<memoryVars, inflight, pc, callVars, result, late, messages, faults>>

\* The process dies and the next one starts.
Crash ==
    /\ faults < MaxFaults
    /\ faults' = faults + 1
    /\ strays' = strays \cup Owed
    /\ FreshMemory
    /\ dir' = TRUE
    /\ UNCHANGED <<cache, torn, key, route, result, messages>>

Step(p) ==
    \/ Stat(p) \/ Claim(p) \/ Fetch(p) \/ FetchFails(p) \/ FetchPending(p)
    \/ WriteOpens(p) \/ WriteEnds(p) \/ PruneLists(p) \/ PruneRemoves(p)
    \/ AskPhone(p) \/ Finish(p)

Next ==
    \/ \E k \in Keys : Record(k)
    \/ \E p \in Procs :
          \/ \E k \in Keys : Media(p, k)
          \/ Step(p) \/ GiveUpWaiting(p) \/ WriteFails(p)
    \/ \E f \in Pictures : WritePicture(f)
    \/ ClearMedia \/ Crash

Spec == Init /\ [][Next]_vars

\* Goroutines run, downloads end by their timeouts, file operations return.
FairSpec == Spec /\ \A p \in Procs : WF_vars(Step(p))

-----------------------------------------------------------------------------
(* Properties                                                              *)

\* Whatever is remembered can be forgotten: the order holds each known key once
\* and no other, so the cap on the order is a cap on the secrets (media.go:49-53,
\* 113-125).
RememberedOnce ==
    /\ IsInjective(order)
    /\ ToSet(order) = {k \in Keys : secrets[k] # "unknown"}
    /\ Len(order) <= MaxSecrets

\* One attachment is never fetched by two calls at a time (media.go:219-235).
SingleFlight ==
    \A p, q \in Procs :
        pc[p] \in Leading /\ pc[q] \in Leading /\ key[p] = key[q] => p = q

\* A call that is about to answer with the path of a file it downloaded answers with a
\* whole file, if no prune has removed it: no other call is writing it again
\* (media.go:219-235, 295-316). The first stat promises no such thing, see below.
FetchedFileIsWhole ==
    \A p \in Procs :
        pc[p] \in {"prune", "remove", "askPhone", "finish"} /\ result[p] = "path" =>
            key[p] \notin torn

\* The files that a prune has been responsible for fit in the cap (mediaprune.go:48-101):
\* the others are those of calls that have yet to prune, and those written since the
\* last prune that ended had listed by writers that never prune, which are conversation
\* pictures (avatars.go:114), GIFs (giphy.go:215), and writes cut short. However prunes
\* and writes overlap, and though each prune works from an outdated listing, one that
\* ends settles every file it listed.
CacheBounded == Cardinality(ToSet(cache) \ (Owed \cup strays)) <= MaxFiles

\* For each time a part is remembered the phone is asked for it at most once
\* (media.go:139-149).
PhoneAskedOnce == \A k \in Keys : asks[k] <= 1 + forgotten[k]

\* A call that waits for another's download is woken however that one ends, and
\* needs no deadline of its own for it.
WaitersWake == \A p \in Procs : At(p, "wait") ~> ~At(p, "wait")

-----------------------------------------------------------------------------
(* What the code's comments say and the code does not do.                  *)

\* "a truncated image written to the cache would be indistinguishable from a real
\* one on the next open" (download.go:28-30): no path is answered while the file
\* under it is not whole.
AnswersAreWhole ==
    [][\A p \in Procs :
          pc[p] \in {"stat", "restat"} /\ result'[p] = "path" => key[p] \notin torn]_vars

\* "Attachment cache | 256 MB | Trimmed oldest-first after each write" (README.md:345):
\* when no call has yet to prune, the directory is within its cap.
TrimmedAfterEachWrite == Filers = {} => Len(cache) <= MaxFiles
=============================================================================
