# Verification of gmessagesd

`gmessagesd` keeps one Google Messages account connected for a desktop bar. It
pairs with a phone, holds the session, caches conversations and attachments, and
serves any number of panels over a Unix socket. Almost everything in it runs
concurrently: a goroutine per request, libgm's event handlers, background
pairings, a refresh loop, a maintenance ticker and one event pump per panel.
These modules state what that concurrency must not break. TLC checks them on
small instances; for most safety properties TLAPS proves them for every value of
the constants.

Paths are relative to `src/`.

## 1. Inventory

| Component | State | Operations | Hard parts |
|---|---|---|---|
| Lifecycle and pairing: `internal/daemon/{daemon,methods,gaia,pairbrowser,maintenance}.go`, `cmd/gmessagesd/main.go` | status, auth data, `paired`, `pairCancel`, `maintOnce`, `pairGeneration` | Start, Stop, StartPairing and its refresh loop, StartGaiaPairing, PairFromBrowser, Unpair, `handleEvent`, `saveSession` | handlers interleave at every unlock; network calls return after the state has moved on; a crash anywhere |
| Session store: `internal/store/store.go` | `session.json`, `session.json.tmp` | SaveSession, LoadSession, ClearSession | a crash or a failed write between two system calls; two savers at once |
| Socket server and fan-out: `internal/daemon/server.go`, `Subscribe`/`publish` in `daemon.go` | live connections, subscriptions, lossy channels | accept, greet, read requests, answer, pump events, shut down | a panel that stops reading; shutdown against accept; subscription against greeting |
| Media cache: `internal/daemon/{media,mediaprune,download}.go` | secrets and their order, flights, full-size claims, files | record, Media, prune | two panels opening one photo; failing leaders; cut files; two bounds |
| Credential repair: `internal/daemon/{authretry,profiles}.go` | two throttles, `pairGeneration` | `withAuthRetry`, `refreshBrowserCookies`, `repairSession` | a burst of refusals; a repair watching a status that others overwrite |
| Conversation list: `internal/daemon/daemon.go`, `methods.go` | `convs`, `order`, unread flags | replace, upsert, touch, MarkRead, Refresh, initialSync, Unpair | snapshots older than events; outages; an order that is cut |
| Avatars: `internal/daemon/{avatars,avatarfetch}.go` | claims, stored pictures | one fetcher per snapshot | two locks, overlapping fetchers |
| Reactions: `internal/daemon/reactions.go` | reactions per message and their order | record, trim, React | an action derived from what may be stale |
| Sending and captures: `sendmedia.go`, `capture.go`, `filepicker.go`, `giphy.go`; staging, recording and camera in `Panel.qml` | capture files; the staged file and its flags, ffmpeg, calls under way | SendMedia, DiscardCapture, PickImage, GifFetch; stage, record, shoot, drop | flags about an earlier file; a process that ends late; dropped callbacks |
| Configuration: `internal/store/config.go` | profile and GIF key | set, save | the shared temporary file |
| Browser cookies, wire types, conversion, CLI pairing | none that lasts | I/O and decoding | — |
| Panel client: `GmClient.qml` | socket, timer, pending callbacks, mirrored status and list | call, reconnect, autostart, merge | single-use sockets; failed starts; answers of an earlier connection or thread |
| Panel and widget: `Panel.qml`, `Model.js`, `Widget.qml`, `Avatar.qml` | the open thread | user interface | switching threads with calls under way |

How they interact. Panels call the server, which gives each request a goroutine
that calls a method of the daemon. libgm calls `handleEvent`, on its own
goroutines. Both change shared state under `d.mu` and publish after releasing
it. Credentials are one object that libgm changes in place and that events, the
Gaia goroutine, maintenance and `Stop` all save, through the session store.
`GaiaLoggedOut` and `Unpair` clear it, and the media directory with it. A request
refused by Google goes through credential repair, which starts a Gaia pairing and
waits for `pairGeneration`. Messages, from events and from history, feed the
media cache, the reactions and the conversation list.

What makes each correct:

- Lifecycle: nothing is written before a pairing completed, and what is written
  loads; a code or a prompt does not stay up for good nor on the wrong state, but
  for a code whose loop an Unpair stopped that then failed; a signed-out device is
  not written back.
- Session store: the file holds one whole save, or none, unless saves overlapped,
  and then until the next one that does not.
- Server: no status change is lost between greeting and subscription, one client
  cannot hurt another or the daemon, whoever leaves is cleaned up, shutdown ends.
- Media: one download per attachment, one question to the phone, what is
  remembered is bounded, what a prune has seen is within the cap, and what a
  download answers is a whole file.
- Repair: success means a pairing, a burst means one prompt, every call ends.
- Conversation list: what is served is the top of what is held, and what is held
  is the phone's unless a snapshot, an outage or MarkRead overlapped; a flag that
  an update of a message set, and conversations out of the inbox, may remain.
- Avatars: one request per picture, and no stored picture is lost.
- Reactions: the memory is bounded, a record is the phone's unless news of it was
  lost or overtaken, and a tap made on a good record does what was asked.
- Sending and captures: what is staged is there, and no capture is lost sight of,
  but in the known ways; a recording ends.
- Panel client: it connects in the end, restarts the daemon, answers every
  callback of a live connection, and shows the thread that is selected.

`PROJECT.json` lists the hazards at their lines with the properties that cover
them, or why none does.

## 2. Modules

| Module | Models | Composed with |
|---|---|---|
| `Lifecycle` | pairing, session and persistence, goroutine by goroutine | the file is one variable here; `SessionFile` says how far it may be |
| `SessionFile` | the saver's system calls on inodes | refines `AtomicSession` |
| `AtomicSession` | what the session store promises: a register that is saved, cleared and read at a restart, and what overlapping saves may do to it | |
| `Server` | accept loop, closer, handlers, pumps, publishers | |
| `Media` | secrets, flights, files, pruning | |
| `AuthRetry` | requests, throttles, repairs, the pairings they wait for | |
| `Conversations` | the list, its events and snapshots, and the pictures | list and avatars share the map, so they are one module |
| `Reactions` | records, their order, pages, taps, and the phone's echoes | |
| `Attachments` | the panel's staging, recording and camera with the daemon's sending, discarding and pruning | panel and daemon in one module, with a connection that breaks |
| `GmClient` | the socket, the timer, autostart, callbacks and the open thread | the daemon as it appears at the socket |

`MC*` modules give the constants values; `*Proofs` modules hold the theorems,
`PanelProofs` those of `GmClient` and `Attachments`, the two parts of the panel.

Common conventions. A goroutine is a member of `Procs` with a program counter; a
step is what runs between two points where another goroutine can get in (an
unlock, a network call, a system call, a sleep). External events (the phone, Google, the
panel, a kill) are actions without fairness. Operators marked *Mutant* are
plausible bugs; they are not part of any specification, and `PROJECT.json` says
which property each one violates.

### Lifecycle

`status` is the state and whether a QR code is on it; error texts, hints and the
emoji are left out. `auth` is what is in the credentials: `fresh`, `token` (a
relay token from StartLogin), `identity` (a Google sign-in the phone has not
confirmed), `confirmed`. `LooksPaired` is `IsPaired`. `grant` is history: whether
this machine ever completed a pairing, and how the last one ended. A handler is
started by `Call`; `pc` then walks its steps. The refresh loop carries the
cancel function that `pairCancel` held when it was armed, so a later loop's
cancel is not its own; `pairCancel` forgets a loop that has ended, whose context is
done (`defer cancel`, `methods.go:255`) and which nothing can cancel any more. `main` is `run`: Start, serving, Stop. `ret` says where a
handler returns that shares steps with others (`PairedMark`, saves). A file that
cannot be read at Start ends the real process; that exit is left out. `stranded` is
history: an Unpair stopped the refresh loop, could not remove the file and returned
with the screen still up (`methods.go:304`, `314-316`), and no loop was armed since.

### SessionFile and AtomicSession

Directory entries are inode names, an inode has content (empty, cut, or a
version) and the savers hold inode numbers, so two savers that opened the same
temporary file write the same inode and a rename moves whatever is in it. `Fail`
is a failing Encode or Close, `RenameFails` leaves the temporary file; the process
may restart at any step. The mapping takes the register's value from the inode
`session.json` names. Nothing in the daemon keeps savers apart, so nothing does
here. Two history variables tell them apart instead: `met` are the savers that
were inside `SaveSession` with another, and `by` is whether what `session.json`
names is the work of one that met nobody. `AtomicSession` has both kinds of save:
`Commit`, which is atomic, and `Spoil`, which promises no more than a version memory
has had, or nothing readable.

### Server

`serve` is the accept loop, `held` the connection between Accept and the map,
`closer` the goroutine that waits for the context. Each connection has a handler
(its deferred calls are steps, last first), a pump and one request that stands
for all of its requests, which do not share state. A connection is used once;
statuses are numbered. `view` is what the client shows. `removeStaleSocket` and the removal
of the socket file are left out.

### Media

A message has one attachment, a file counts as one and the cap is a number of
files. Two kinds of writer share the directory: Media calls, which prune after
their write, and `WritePicture`, which stands for conversation pictures
(`avatars.go:114`) and GIFs (`giphy.go:215`), after which nothing prunes. `strays` and
`late` are history: the files nobody will prune for that no ended prune had listed,
and for each prune under way the files opened since it listed. `cache` is the directory in the order of modification times. Listing and
removing are two steps of pruning, opening and finishing two steps of writing.
`Without` and `Victims` say by places what stays and what goes, rather than with
`SelectSeq`, of which nothing can be proved here.
`ClearMedia` is the removal of the directory by `ClearSession`; only the next
process creates it again. `withAuthRetry` is inside the download, which works or
does not. `msg:` keys, which never ask the phone, are left out.

### AuthRetry

`session` is what Google makes of the credentials: `good`, `expired` (other
cookies may help), `invalid` (they do not). A throttle is on while the last
attempt is younger than its interval; the cookie throttle may end at any time.
The repair throttle ends when no automatic pairing is under way:
five minutes against a look at the profiles, ninety seconds of waiting and the
three minutes of `gaiaPairTimeout`. This assumes that the look at the profiles
takes less than two minutes. Callers are requests, fatal listen errors,
SetProfile and the panel's own PairFromBrowser, which is not throttled.

### Conversations

A conversation is the time of its last message, its unread flag, its pin and
whether its picture shows; ids are numbers, which is all the comparator asks of
them. The phone changes at once and sends a message event at once, but a
conversation event when it gets to it (`owed`). It also archives a conversation, or
deletes it, which for the list is the same, and may bring it back (`archived`,
`Mailbox`, `PhoneArchives`); and it sends a message again when that is updated, by a
reaction, a status or its deletion (`PhoneUpdates`), which leaves the conversation's
time and flag on the phone as they are. When a conversation leaves the phone's list
another rises into it, and no event says so (`Rises`); a snapshot does. `touched` is
history: whose flag such an update has set since it was last written. `Connects` is libgm after a
pairing, which ends with ClientReady; `Resumes` is `Start` with a stored session,
and `initialSync`; `Drop` and `Recover` are the long poll's outage. A snapshot is
what the phone lists when it answers and is written later. A failed attempt of
`initialSync` that is followed by another changes nothing and is no action.
`newest` and `doubtful` are history: whether something older was written over
newer news, or news was missed. A fetcher looks at its conversations in any
order, one goroutine per conversation having claimed it: more orders than the
code's, which goes through them one by one. `Reordered` puts a conversation
where as many come before it as its place says, which is what the code's sort
does, since its comparator leaves no two of them equal; TLC found the same states
with a sorted sequence. Self ids, previews and the text of the last message are
left out.

### Reactions

A message's reactions are the user's own emoji and whether somebody else
reacted. The phone numbers each message's changes (`ver`), and events and pages
carry the number; `seen`, `blurred` and `sure` are history. `Outcomes` is what a
phone may make of an action that does not fit what it has: it may ignore it, or
add a second reaction. A page holds every message; `known` is whether
`myReactionOn` finds the conversation, whose participants say who the user is.

### Attachments

A file is a capture (voice or photo), a picture of the user's or a GIF. `left`
is history: captures that the panel let go of. So is `lost`: files that a prune took,
that ffmpeg never opened, or whose send nobody hears of. One file chooser, one GIF
download and one thread that is always open are enough to meet the others.
Quickshell does not say what becomes of a process that is started again before
it has ended, so `queued` may or may not be its next run. A discard that was sent
when the connection broke may arrive or not. Pruning may take any capture over
the limit, whatever its age, and any GIF at any time, for the media directory fills
with attachments that are not modelled here; a file that cannot be removed is left
out. A shot that fails may leave a file, a take that is ended early may leave none. What the
daemon does with an upload that reached the phone but failed later is one
failing step.

### GmClient

`sock` is the socket object in the Loader, `peer` whether the daemon's end of it
is there: the client learns of a loss only in `SocketCloses`. `callbacks` is the
map `_pending`, `waiting` the callers who have not heard. `status` and
`conversations`, which the client asks for on connecting, are one action,
`StatusArrives`. The merged conversation list is left out.

## 3. What the runs show

| Run | Bounds | Shows |
|---|---|---|
| `LifecycleSafety` | 2 goroutines, 2 refreshes, 2 calls, 1 stop or crash, 1 disk fault; symmetry | `NothingSavedBeforePairing`, `SavedSessionLoads`, `CodeOnlyWhilePairing`, `NoSaveBeginsLoggedOut` |
| `LifecycleLiveness` | 2 goroutines, 1 refresh, 2 calls, 1 disk fault | `PairingEnds`, `GaiaPairingEnds`, `RefreshedCredentialsAreSaved` |
| `LifecycleUnpair` | no stop, no fault | **violated**: `UnpairClearsCredentials` |
| `SessionFile` | 2 savers, 4 inodes, 3 versions | `TornOnlyByOverlap`, and `AtomicSpec`, the refinement |
| `Server` | 1 connection, 2 publishers, a channel of 1, 2 changes | `ClientSeesLatest`, `AnswersReachClients`, `GoneClientsLeaveNothing`, `OnlyLateConnsDelayShutdown`, `PublishersNeverStall` |
| `Media` | 2 calls, 2 keys, 1 secret, 1 file, 2 messages, 1 GIF at any time, 1 crash or failed write | `RememberedOnce`, `SingleFlight`, `FetchedFileIsWhole`, `PhoneAskedOnce`, `CacheBounded`, `WaitersWake` |
| `AuthRetry` | 2 goroutines, 3 calls, 1 refusal | `RepairMeansPaired`, `OnePromptPerBurst`, `CallsEnd` |
| `Conversations` | 2 conversations, 1 on the phone at first, a list of 1, 2 goroutines, 2 changes, any updates of a newest message, 2 links, 1 call, 1 event under way; symmetry | `ListIsTop`, `AgreesUnlessOverlapped` |
| `ConversationsPictures` | the same with 1 change, updates of older messages too, and 1 picture | `StoredPicturesShow`, `PictureAskedOnce` |
| `Reactions` | 2 messages, 1 record, 2 emoji, 2 goroutines, 2 changes, 2 calls; symmetry | `ReactionsBounded`, `RecordsAgreeUnlessBlurred`, `TapsToggle` |
| `Attachments` | 2 recordings, 1 photo, 1 picture, 1 GIF, room for 1 capture, 4 clicks, 1 lost connection | `CapturesAccounted`, `StagedIsThere`, `RecordingResolves` |
| `GmClient` | 2 threads, 2 doublings, 2 stops, 2 failed starts, 3 calls | `PendingIsAnswered`, `ShownIsSelected`, `KeepsTrying`, `AutostartRecovers` |

Further configurations, each of which TLC finds violated: a claim of the code's
comments or documents that the code does not keep.

| Configuration | Module | Violated |
|---|---|---|
| `LifecycleLateLoop.cfg` | `MCLifecycle` | `LoopYieldsToOtherStates` |
| `LifecycleStranded.cfg` | `MCLifecycle` | `ScreenHasItsLoop` |
| `SessionFileConcurrent.cfg` | `MCSessionFile` | `NeverTorn` |
| `ServerShutdown.cfg` | `MCServer` | `ShutdownCompletes` |
| `MediaTorn.cfg` | `MCMedia` | `AnswersAreWhole` |
| `MediaTrimmed.cfg` | `MCMedia` | `TrimmedAfterEachWrite` |
| `AuthRetryAbandons.cfg` | `MCAuthRetry` | `StopsWaitingForEndedPairings` |
| `ConversationsArchived.cfg` | `MCConversations` | `InboxOnly` |
| `ConversationsUpdated.cfg` | `MCConversations` | `UnreadIsThePhones` |
| `AttachmentsRejected.cfg` | `MCAttachments` | `RejectedCapturesDeleted` |
| `GmClientSpinner.cfg` | `MCGmClient` | `CallsResolve` |

`TypeOK` is checked where a bound in it can break (a budget, a channel, a
directory without doubles), and proved for every module.

Why the bounds are enough to be of interest. Two goroutines let every handler
meet every other, a refresh loop or a pairing; a third would repeat the pairs,
and the theorems do not depend on their number. One stop or crash is enough to
lose what was in memory, and the file it leaves is every file reachable. One
refresh more than none makes the loop go round. A channel of one overflows with
two changes. With one secret and one file the second message and
the second download are over the limit, so that a key is forgotten under the calls made
for it; a third message, which brings it back, would take the run out of reach, and
there the theorems stand alone. One GIF beside two downloads is what it takes for a file no
prune follows to fall before, into or after a prune that is under way. The one disk
fault of the liveness run is enough for an Unpair to fail after it has stopped the
loop. Two savers are enough for
one to empty what the other is about to rename. A second refusal
by Google is covered by the cookies, which may themselves be stale or cost the
session. A list of one leaves a conversation held and not served, and two links
let an outage and a recovery fall into a snapshot's flight. A memory of one
record evicts, and puts a message into the order twice, with two messages; two
changes let one be under way while the other is recorded. Two recordings are
what it takes to start one while the other ends, and four clicks stage, drop,
record and shoot. Two doublings reach the top of the backoff, where the service
is tried again, and two failed starts fail before and after it.

`CHECK_DEADLOCK FALSE` stands in the Lifecycle, Server, Conversations, Reactions
and Attachments runs: there, a process whose budget of calls, connections or
changes is spent may idle for good or has exited. `SessionFile`, `Media`,
`AuthRetry` and `GmClient` check for deadlock.

### Fairness

- Lifecycle: goroutines that can run do, whichever of a step's outcomes comes (the
  fairness is per goroutine, not per outcome: nothing says that a disk that fails
  works in the end; the main goroutine needs none); HTTP calls return (`RefreshPhoneRelay`
  and `StartLogin` take no context, so this is an assumption about the HTTP
  client); the tickers and the Gaia deadline fire. Nothing is promised of the
  panel, the phone or Google.
- Server: goroutines run, dispatch returns within its 60 seconds, sends to and
  reads from a dead connection end. Nothing is promised of a client that is
  there: it may never read.
- Media: a call's steps run, downloads end by their timeouts. Giving up and
  failing writes are not fair.
- AuthRetry: steps run, requests end, the ninety looks end, a Gaia pairing ends
  by its deadline. The throttles need not end.
- Attachments: a running timer fires and a killed process ends. A process that
  was only asked to quit may ignore it.
- GmClient: sockets and processes report, a running timer fires, the daemon
  answers what it has. Nothing makes anyone start the daemon; a start that fails
  succeeds in the end, which the bound on failing starts says.
- Conversations and Reactions state no liveness: a list or a record that is
  behind is put right by news that nobody promises.

### The disagreements

1. `Unpair` leaves `d.paired` set (`methods.go:303`). A token refresh under way,
   or the relay token of the next StartPairing with maintenance or Stop, puts a
   session file back that the user had removed.
2. A refresh loop whose relay call fails sets the error state without looking
   whether it was cancelled (`methods.go:269`).
3. Two savers share `session.json.tmp` (`store.go:103`): the file can be renamed
   while the other has just emptied it. `TornOnlyByOverlap` says that nothing else
   tears it, a crash or a full disk included, and that the next lone save mends it.
4. A connection between Accept and the map is missed by `closeAllConns`
   (`server.go:75`), and `Serve` waits for its client. `OnlyLateConnsDelayShutdown`
   says that nothing else delays it.
5. The first stat in `Media` (`media.go:210`) precedes the single flight and
   `WriteFile` writes in place: a half-written file, or one cut by a full disk or
   a crash, is answered as an attachment.
6. A repair takes anyone's error state for the end of its own pairing
   (`authretry.go:151`).
7. A capture stays on disk when the panel switches threads, stages a GIF over
   it or opens the file chooser (`Panel.qml:198`, `397`, `415`), though
   `mediaprune.go:31` counts on every unsent capture being deleted and leaves
   only crashes to the pruning.
8. A lost connection drops the callbacks of calls under way without running
   them (`GmClient.qml:97`), so a spinner, or the composer that `sendingMedia`
   disables, waits for good. `GmClient.qml:36` promises the contrary for calls
   that are made without a connection; those do hear.

9. `Unpair` stops the refresh loop first and gives up when the session file cannot
   be removed (`methods.go:304`, `314`): the status stays pairing, with a code that
   nobody refreshes and whose budget nobody counts. `PairingEnds` holds but for that.
10. Conversation pictures and GIFs are written to the media directory and not
   trimmed (`avatars.go:114`, `giphy.go:215`): it is over its cap until the next
   attachment, where `README.md:345` says "Trimmed oldest-first after each write".
11. A conversation that is archived or deleted on the phone stays in the list, or
   comes into it, with its event (`daemon.go:460`), until the next snapshot;
   `README.md:452` says "Inbox only".
12. An update of the newest message sets the conversation unread though it was read
   (`daemon.go:414`, `424`), and no event clears it: the unread dot is not derived from
   conversation events, as `daemon.go:385` has it.

1 is the run `LifecycleUnpair`; the others are in the further configurations, in
this order: 2 `LifecycleLateLoop`, 3 `SessionFileConcurrent`, 4 `ServerShutdown`,
5 `MediaTorn`, 6 `AuthRetryAbandons`, 7 `AttachmentsRejected`, 8 `GmClientSpinner`,
9 `LifecycleStranded`, 10 `MediaTrimmed`, 11 `ConversationsArchived`,
12 `ConversationsUpdated`.

## 4. What is proved

No theorem bounds the goroutines, keys, connections, buffers or budgets. The
assumptions are the named `ASSUME`s on the constants, which TLC evaluates on
every run.

- `LifecycleProofs`: `TypeCorrect`; `SessionNeedsPairing`, `SavedSessionIsWhole`,
  `SignOutStopsSaves`, `CodeBelongsToPairing`. "Nothing saved before pairing" is
  not inductive: a save checks `d.paired` and writes later. The invariant adds
  that whoever is past the check is on a machine with a grant and holds
  credentials that look paired, that a session file or `paired` itself implies the
  same, that a goroutine about to mark the daemon paired has credentials that look
  paired, and that a daemon which is down runs nothing.
- `SessionFileProofs`: `TypeCorrect`, `TornOnlyByOverlapAlways` and
  `SavesAreAtomicButOverlapping`, for any savers, with no assumption on which of them
  meet. The invariant includes the types: what `session.json` names is not the
  temporary file; when it is the work of a lone save it holds a version between 1 and
  the daemon's; what a saver that met nobody renames is whole and no older than what
  is stored; and a saver that has met nobody is alone inside. Steps of a saver map to
  a commit at the rename of a lone save, to a spoiling one at a rename or a write of
  overlapping ones, and to stutters elsewhere.
- `ServerProofs`: `TypeCorrect`, with the bound on every channel;
  `AnswersAreNotLost`, from an invariant that a handler leaves its scan only for
  one of the three reasons; `ClientsAreCurrent`, from an invariant that follows
  the newest status through publisher, channel, pump and client.
- `MediaProofs`: `OneFlightPerKey`, strengthened with *whoever leads a key's
  flight is the one the map names*; `RemembersOnce` and `PhoneIsAskedOnce`, from
  one invariant on order, secrets and claims; `DownloadsAreWhole`, that the file a
  flight has fetched is whole until its leader is done with it. The claims need the finer bound
  *requests are at most the times forgotten, plus one if claimed now*. Two lemmas
  say what appending to and trimming an order without doubles do to its set.
  `CacheIsBounded` is the hardest: several prunes may have listed the directory
  and not yet removed anything, each listing is outdated by the others and by new
  files, and no bound on the directory alone is inductive. Of the files it listed a
  prune leaves no more than the cap, however outdated the listing
  (`PruneSuffices`); all others were opened after it listed (`late`). The invariant
  says that some set of the files that calls and strays still answer for leaves the
  rest under the cap, and that this set and what each prune under way came too early
  for are nested: so when a prune ends, the files of that set that it listed are
  settled, whichever prune it is. `TypeCorrect` includes that the directory has each
  file once.
- `AuthRetryProofs`: `TypeCorrect`; `RepairsArePairings`, strengthened to *from
  reading the generation on, another generation is a pairing since*; `OnePrompt`,
  strengthened with *who prompts holds the throttle*.
- `ReactionsProofs`: `MemoryIsBounded`, from the types and a lemma on dropping the
  front of an order; `RecordsAgree`, from an invariant on what is under way: an
  event or a page's item never carries a version the phone has not had, and the
  newest version carries what the phone has now; `TapsDoWhatWasAsked`, which adds
  that the derived action of a sure tap fits the phone's reaction; `TypeCorrect`.
- `ConversationsProofs`: `OneRequestPerPicture`, from *whoever fetches has claimed
  and not asked*; `PicturesAreNotLost`, from *whoever writes a conversation copies
  the store's answer or leaves the picture alone*. `ListIsTopAlways` rests on the
  lemmas that the comparator is a total order on what is held, that every place up
  to the number held is taken by one conversation, and so that `Reordered` serves
  the first ones in order (`ReorderedIsTop`); each step then rebuilds the order
  from the map it leaves, or leaves the keys alone. `AgreesAlways` needs to know
  what is under way: times and events come in the phone's order (`TimesInv`); an
  event tells the last there is to tell, or more is owed or follows it
  (`NewsInv`); an update on its way is no newer than its conversation (`UpdatesInv`), so
  that it can set a flag but no time; a list in hand is true but for what is owed or on
  its way after it (`SnapInv`); and so is the list held, unless it is doubtful
  (`ListInv`). Its
  lemma `TopRises` is why a snapshot of the first fifty is enough: when one
  conversation rises, no other enters the fifty. `TypeCorrect` takes from the same
  invariant that nothing the daemon has heard is newer than the phone's clock.
- `PanelProofs`: `ClientTypes` and `TypeOKAlways`; `PendingIsAnsweredAlways`, from
  *while the daemon's end is there the client has the socket that leads to it*;
  `ShownIsSelectedAlways`; `StagedIsThereAlways`, from *a discard names only what was let
  go of, never what is staged, recorded or shot*, *the take being recorded has a name
  nothing else has, and its file is there or known not to be*, and *a capture whose send
  nobody hears of is given up*;
  `CapturesAccountedAlways`, from which flags go with which file, that the names of
  captures are given out once, and that what is being sent is staged or let go.
  What is sent gives no hold of its own, so the invariant that TLC checks is
  stronger than the comment in `Panel.qml` asks for.

Every safety invariant that a run checks is proved, and so is the refinement.

Only model-checked: liveness (`PairingEnds`, `GaiaPairingEnds`,
`RefreshedCredentialsAreSaved`, `GoneClientsLeaveNothing`,
`OnlyLateConnsDelayShutdown`, `PublishersNeverStall`, `WaitersWake`, `CallsEnd`,
`RecordingResolves`, `KeepsTrying`, `AutostartRecovers`), which with its fairness
is out of the prover's reach.

## 5. What is not modelled

- Status texts, hints and emoji; protobuf conversion, wire types, cookie
  databases, GIF search, the command line: data and I/O without an interleaving
  of their own.
- `removeStaleSocket` and the removal of the socket file: the name of the socket
  is not modelled.
- The configuration file: a struct under a lock, written as the session file is.
- Send and SetTyping change nothing the daemon keeps.
- The client's merged conversation list, the panel's merging of pushed messages
  into the open thread, its retries of media, playback, and what only draws.
- A loss of power: the writer does not sync before it renames, and `SessionFile`
  stops processes, not the machine.
- Which source a picture has, and its download beyond success and failure. The
  files of avatars are in the directory that `Media` prunes, where they count as
  any other file.

## 6. Plan

Done, in order of importance: `Lifecycle`, `SessionFile` with `AtomicSession`,
`Server`, `Media`, `AuthRetry`, `Conversations`, `Reactions`, `Attachments`,
`GmClient`.

Next:

1. The merged list in `GmClient`, composed with `Conversations`: a client that is
   connected and caught up shows what the daemon would list.
2. `SocketFile`: two daemons and one socket name.
3. `SessionFile` instanced for the configuration file.

Theorems to add: that `Lifecycle`'s one-step file is what `AtomicSession` allows but
for its overlapping saves, which joins the two models of the session store.
