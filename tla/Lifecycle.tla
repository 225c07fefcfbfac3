------------------------------ MODULE Lifecycle ------------------------------
(***************************************************************************)
(* The daemon's pairing and connection lifecycle: the status it shows, the *)
(* credentials it holds in memory and on disk, and the goroutines that     *)
(* move them (RPC handlers, libgm event handlers, the QR refresh loop, the *)
(* Gaia pairing goroutine, maintenance and the main goroutine).            *)
(*                                                                         *)
(* Every step of a goroutine is one region of the code between two points  *)
(* where another goroutine can run: a d.mu critical section, a libgm call, *)
(* or a file operation. d.pairGeneration is left out: only repairSession   *)
(* reads it.                                                               *)
(***************************************************************************)
EXTENDS Naturals

CONSTANTS
    Procs,            \* goroutines that run an RPC or an event handler
    NoProc,           \* no goroutine: the nil d.pairCancel
    QrMaxRefreshes,   \* qrMaxRefreshes, 20 in the code
    MaxCalls,         \* bound: pairing and unpairing calls ever made
    MaxEnds,          \* bound: stops and crashes of the process ever
    MaxFaults         \* bound: failed disk operations ever

ASSUME ProcsAssumption == NoProc \notin Procs
ASSUME BoundsAssumption ==
    /\ QrMaxRefreshes \in Nat \ {0}
    /\ MaxCalls \in Nat
    /\ MaxEnds \in Nat
    /\ MaxFaults \in Nat

VARIABLES
    status,       \* d.status: the connection state, and whether a QR is shown
    auth,         \* d.auth: how far the in-memory credentials got
    paired,       \* d.paired: gates persistence
    pairCancel,   \* whose refresh loop d.pairCancel would cancel
    cancelled,    \* goroutines whose refresh loop's ctx is cancelled
    pc,           \* where each goroutine is
    ret,          \* where a goroutine goes on after a PairSuccessful event
    round,        \* the refresh loop's counter i
    stranded,     \* history: a failed Unpair left the code without its loop, none runs since
    main,         \* the main goroutine: Start, Serve, Stop
    sync,         \* initialSync: off, or sleeping before setState(connected)
    maint,        \* runMaintenance: off, waiting, or about to write
    polling,      \* external: libgm's long poll runs and delivers events
    scannable,    \* external: a QR code the phone can still redeem is out
    disk,         \* session.json: absent ("none") or what it holds
    unsaved,      \* memory holds credentials session.json does not
    grant,        \* history: what this process was told of its pairing
    calls,        \* counts against MaxCalls
    ends,         \* counts against MaxEnds
    faults        \* counts against MaxFaults

pairingVars == <<pairCancel, cancelled, round, stranded>>
procVars    == <<pc, ret>>
mainVars    == <<main, sync, maint>>
credVars    == <<auth, unsaved>>
trustVars   == <<paired, grant>>
libgmVars   == <<polling, scannable>>
boundVars   == <<calls, ends, faults>>
worldVars   == <<ret, mainVars, disk, boundVars>>
vars == <<status, auth, paired, pairCancel, cancelled, pc, ret,
          round, stranded, main, sync, maint, polling, scannable, disk, unsaved, grant,
          calls, ends, faults>>

ConnStates == {"unpaired", "pairing", "gaiaPairing", "connecting",
               "connected", "disconnected", "error"}
Status == [state : ConnStates, qr : BOOLEAN]

\* "token": a relay registered by StartLogin. "identity": device identity is
\* filled in too, but the phone confirmed nothing. "confirmed": a pairing.
AuthStates == {"fresh", "token", "identity", "confirmed"}
DiskStates == AuthStates \cup {"none"}
LooksPaired(a) == a \in {"identity", "confirmed"}

Grants == {"never", "live", "loggedOut", "unpaired"}

Labels == {"idle",
           "login", "stopLoop", "arm", "tick", "fetch", "giveUp",
           "gaiaStop", "gaiaStatus", "signIn", "confirm",
           "pairedStop", "pairedMark", "pairedSave", "pairedWrite", "pairedState",
           "save", "write",
           "unpairStop", "revoke", "unpairClear", "unpairState",
           "logoutClear", "logoutState"}

Writing == {"write", "pairedWrite"}

TypeOK ==
    /\ status \in Status
    /\ auth \in AuthStates
    /\ paired \in BOOLEAN
    /\ pairCancel \in Procs \cup {NoProc}
    /\ cancelled \subseteq Procs
    /\ pc \in [Procs -> Labels]
    /\ ret \in [Procs -> {"idle", "save"}]
    /\ round \in [Procs -> 0..QrMaxRefreshes]
    /\ stranded \in BOOLEAN
    /\ main \in {"down", "connect", "serving", "stopSave", "stopWrite"}
    /\ sync \in {"off", "sleeping"}
    /\ maint \in {"off", "waiting", "write"}
    /\ polling \in BOOLEAN
    /\ scannable \in BOOLEAN
    /\ disk \in DiskStates
    /\ unsaved \in BOOLEAN
    /\ grant \in Grants
    /\ calls \in 0..MaxCalls
    /\ ends \in 0..MaxEnds
    /\ faults \in 0..MaxFaults

-----------------------------------------------------------------------------
\* setState: the QR code goes with the pairing state.
SetState(s) == status' = [state |-> s, qr |-> s = "pairing" /\ status.qr]

Goto(p, label) == pc' = [pc EXCEPT ![p] = label]
At(p, label) == pc[p] = label

FreshStatus == [state |-> "unpaired", qr |-> FALSE]

\* A machine on which the daemon never ran.
Init ==
    /\ main = "down"
    /\ status = FreshStatus
    /\ auth = "fresh"
    /\ paired = FALSE
    /\ pairCancel = NoProc
    /\ cancelled = {}
    /\ pc = [p \in Procs |-> "idle"]
    /\ ret = [p \in Procs |-> "idle"]
    /\ round = [p \in Procs |-> 0]
    /\ stranded = FALSE
    /\ sync = "off"
    /\ maint = "off"
    /\ polling = FALSE
    /\ scannable = FALSE
    /\ disk = "none"
    /\ unsaved = FALSE
    /\ grant = "never"
    /\ calls = 0
    /\ ends = 0
    /\ faults = 0

-----------------------------------------------------------------------------
(* The main goroutine: Start, Serve, Stop; and the end of the process.     *)

\* New and the first half of Start: LoadSession decides paired.
Start ==
    /\ main = "down"
    /\ auth' = IF disk = "none" THEN "fresh" ELSE disk
    /\ unsaved' = FALSE
    /\ paired' = LooksPaired(auth')
    /\ grant' = IF paired' THEN "live" ELSE "never"
    /\ main' = IF paired' THEN "connect" ELSE "serving"
    /\ IF paired' THEN SetState("connecting") ELSE SetState("unpaired")
    /\ UNCHANGED <<pairingVars, procVars, sync, maint,
                   libgmVars, disk, boundVars>>

\* Connect worked: initialSync is spawned and maintenance started.
ConnectOK ==
    /\ main = "connect"
    /\ main' = "serving"
    /\ polling' = TRUE
    /\ sync' = "sleeping"
    /\ maint' = "waiting"
    /\ UNCHANGED <<status, credVars, trustVars, pairingVars, procVars,
                   scannable, disk, boundVars>>

\* Connect failed: the error is shown, and neither is started.
ConnectFails ==
    /\ main = "connect"
    /\ main' = "serving"
    /\ SetState("error")
    /\ UNCHANGED <<credVars, trustVars, pairingVars, procVars, sync, maint,
                   libgmVars, disk, boundVars>>

\* initialSync, after its sleep.
InitialSync ==
    /\ main # "down" /\ sync = "sleeping"
    /\ sync' = "off"
    /\ SetState("connected")
    /\ UNCHANGED <<credVars, trustVars, pairingVars, procVars, main, maint,
                   libgmVars, disk, boundVars>>

\* Serve returned after SIGTERM; Stop disconnects the client.
Stop ==
    /\ main = "serving"
    /\ ends < MaxEnds
    /\ ends' = ends + 1
    /\ main' = "stopSave"
    /\ polling' = FALSE
    /\ scannable' = FALSE
    /\ UNCHANGED <<status, credVars, trustVars, pairingVars, procVars, sync,
                   maint, disk, calls, faults>>

\* The process is gone: every goroutine and all memory with it.
ProcessEnds ==
    /\ main' = "down"
    /\ status' = FreshStatus
    /\ auth' = "fresh"
    /\ paired' = FALSE
    /\ pairCancel' = NoProc
    /\ cancelled' = {}
    /\ pc' = [p \in Procs |-> "idle"]
    /\ ret' = [p \in Procs |-> "idle"]
    /\ round' = [p \in Procs |-> 0]
    /\ stranded' = FALSE
    /\ sync' = "off"
    /\ maint' = "off"
    /\ polling' = FALSE
    /\ scannable' = FALSE

\* SaveSession: the file becomes what memory holds now, or an error is logged.
SaveSession ==
    \/ /\ disk' = auth
       /\ unsaved' = FALSE
       /\ UNCHANGED boundVars
    \/ /\ faults < MaxFaults
       /\ faults' = faults + 1
       /\ UNCHANGED <<disk, unsaved, calls, ends>>

\* Mutants: saveSession does not look at d.paired; maintenance and the others
\* save only while the status says connected.
AlwaysPersists == TRUE
PersistsWhenConnected == paired /\ status.state = "connected"

\* saveSession's check, with d.auth never nil once Start has run.
MayPersist == paired

\* Stop's saveSession reads d.paired; with nothing to save the process ends.
StopSave ==
    /\ main = "stopSave"
    /\ IF MayPersist
       THEN /\ main' = "stopWrite"
            /\ UNCHANGED <<status, credVars, trustVars, pairingVars, procVars,
                           sync, maint, libgmVars>>
       ELSE ProcessEnds /\ UNCHANGED <<unsaved, grant>>
    /\ UNCHANGED <<disk, boundVars>>

StopWrite ==
    /\ main = "stopWrite"
    /\ SaveSession
    /\ ProcessEnds
    /\ UNCHANGED grant

\* The process is killed at any point.
Crash ==
    /\ main # "down"
    /\ ends < MaxEnds
    /\ ends' = ends + 1
    /\ ProcessEnds
    /\ UNCHANGED <<unsaved, disk, grant, calls, faults>>

-----------------------------------------------------------------------------
(* saveSession elsewhere: d.paired is read under the lock, the file is     *)
(* written after it is released.                                           *)

MaintenanceTick ==
    /\ maint = "waiting"
    /\ MayPersist
    /\ maint' = "write"
    /\ UNCHANGED <<status, credVars, trustVars, pairingVars, procVars, main, sync,
                   libgmVars, disk, boundVars>>

MaintenanceWrite ==
    /\ maint = "write"
    /\ maint' = "waiting"
    /\ SaveSession
    /\ UNCHANGED <<status, auth, trustVars, pairingVars, procVars, main, sync,
                   libgmVars>>

\* In a goroutine that ends with the save or, handling PairSuccessful, goes on
\* to setState.
SaveCheck(p) ==
    /\ \/ At(p, "save") /\ Goto(p, IF MayPersist THEN "write" ELSE "idle")
       \/ At(p, "pairedSave") /\ Goto(p, IF MayPersist THEN "pairedWrite" ELSE "pairedState")
    /\ UNCHANGED <<status, credVars, trustVars, pairingVars, libgmVars, worldVars>>

SaveWrite(p) ==
    /\ \/ At(p, "write") /\ Goto(p, "idle")
       \/ At(p, "pairedWrite") /\ Goto(p, "pairedState")
    /\ SaveSession
    /\ UNCHANGED <<status, auth, trustVars, pairingVars, ret, mainVars, libgmVars>>

-----------------------------------------------------------------------------
(* Steps several operations share.                                         *)

\* An RPC handler starts a pairing or unpairing call.
Call(p, label) ==
    /\ main = "serving" /\ At(p, "idle")
    /\ calls < MaxCalls
    /\ calls' = calls + 1
    /\ Goto(p, label)
    /\ UNCHANGED <<credVars, trustVars, pairingVars, libgmVars, ret, mainVars, disk,
                   ends, faults>>

\* setState as the last thing a goroutine does.
Report(p, s) ==
    /\ SetState(s)
    /\ Goto(p, "idle")
    /\ UNCHANGED <<credVars, trustVars, pairingVars, libgmVars, worldVars>>

\* stopPairRefresh, in each operation that calls it: take d.pairCancel, call it.
StopPairRefresh(p) ==
    /\ \/ At(p, "stopLoop")   /\ Goto(p, "arm")
       \/ At(p, "gaiaStop")   /\ Goto(p, "gaiaStatus")
       \/ At(p, "pairedStop") /\ Goto(p, "pairedMark")
       \/ At(p, "unpairStop") /\ Goto(p, "revoke")
    /\ pairCancel' = NoProc
    /\ cancelled' = cancelled \cup ({pairCancel} \ {NoProc})
    /\ UNCHANGED <<status, credVars, trustVars, round, stranded, libgmVars, worldVars>>

-----------------------------------------------------------------------------
(* StartPairing and the QR refresh loop it leaves running.                 *)

StartPairing(p) == Call(p, "login") /\ UNCHANGED status

\* StartLogin registered a relay: a token replaces the one in auth, the rest of
\* auth stays, and the code is shown.
LoginOK(p) ==
    /\ At(p, "login")
    /\ auth' = IF LooksPaired(auth) THEN "identity" ELSE "token"
    /\ unsaved' = TRUE
    /\ polling' = TRUE
    /\ scannable' = TRUE
    /\ status' = [state |-> "pairing", qr |-> TRUE]
    /\ Goto(p, "stopLoop")
    /\ UNCHANGED <<trustVars, pairingVars, worldVars>>

LoginFails(p) == At(p, "login") /\ Report(p, "error")

\* startPairRefresh, the previous loop stopped: under the lock again,
\* d.pairCancel is set and the loop spawned.
ArmLoop(p) ==
    /\ At(p, "arm")
    /\ pairCancel' = p
    /\ cancelled' = cancelled \ {p}
    /\ round' = [round EXCEPT ![p] = 0]
    /\ stranded' = FALSE
    /\ Goto(p, "tick")
    /\ UNCHANGED <<status, credVars, trustVars, libgmVars, worldVars>>

\* The deferred cancel: if d.pairCancel is still this loop's, calling it again is nothing.
LoopEnds(p) ==
    /\ Goto(p, "idle")
    /\ round' = [round EXCEPT ![p] = 0]
    /\ cancelled' = cancelled \ {p}
    /\ pairCancel' = IF pairCancel = p THEN NoProc ELSE pairCancel
    /\ UNCHANGED <<stranded, credVars, trustVars, libgmVars, worldVars>>

\* The select takes ctx.Done ...
LoopCancelled(p) ==
    /\ At(p, "tick") /\ p \in cancelled
    /\ LoopEnds(p)
    /\ UNCHANGED status

\* ... or the ticker, which it may do with ctx already done.
LoopTick(p) ==
    /\ At(p, "tick")
    /\ Goto(p, "fetch")
    /\ UNCHANGED <<status, credVars, trustVars, pairingVars, libgmVars, worldVars>>

\* Mutant: the loop does not look at the state again.
NeverOvertaken == FALSE

\* Another state change won the race with RefreshPhoneRelay.
Overtaken == status.state # "pairing"

\* Mutant: for i <= qrMaxRefreshes.
BudgetSpentLate(i) == i > QrMaxRefreshes

BudgetSpent(i) == i = QrMaxRefreshes

LoopOvertaken(p) ==
    /\ At(p, "fetch") /\ Overtaken
    /\ LoopEnds(p)
    /\ UNCHANGED status

\* The new code is shown; the last of the rounds falls out of the loop.
LoopRefreshed(p) ==
    /\ At(p, "fetch") /\ ~Overtaken
    /\ status' = [status EXCEPT !.qr = TRUE]
    /\ scannable' = polling
    /\ round' = [round EXCEPT ![p] = @ + 1]
    /\ Goto(p, IF BudgetSpent(round[p] + 1) THEN "giveUp" ELSE "tick")
    /\ UNCHANGED <<pairCancel, cancelled, stranded, credVars, trustVars, polling, worldVars>>

\* RefreshPhoneRelay failed: the loop reports it whatever the state is by now.
LoopFetchFails(p) == At(p, "fetch") /\ SetState("error") /\ LoopEnds(p)

\* Mutant: the budget runs out without a setState.
LoopGivesUpSilently(p) == At(p, "giveUp") /\ LoopEnds(p) /\ UNCHANGED status

\* "pairing timed out"
LoopGivesUp(p) == At(p, "giveUp") /\ SetState("unpaired") /\ LoopEnds(p)

-----------------------------------------------------------------------------
(* Gaia pairing, asked for with cookies or by PairFromBrowser.             *)

GaiaPairing(p) == Call(p, "gaiaStop") /\ UNCHANGED status

\* PairFromBrowser found no usable profile: setPairError keeps the QR code.
PairFromBrowserFails(p) ==
    Call(p, "idle") /\ status' = [status EXCEPT !.state = "error"]

\* SetCookies and the status; the goroutine is spawned.
GaiaShow(p) ==
    /\ At(p, "gaiaStatus")
    /\ unsaved' = TRUE
    /\ status' = [state |-> "gaiaPairing", qr |-> FALSE]
    /\ Goto(p, "signIn")
    /\ UNCHANGED <<auth, trustVars, pairingVars, libgmVars, worldVars>>

\* DoGaiaPairing signs in to Google: device identity and token are filled in,
\* and the emoji to confirm is shown.
GaiaSignIn(p) ==
    /\ At(p, "signIn")
    /\ auth' = "identity"
    /\ unsaved' = TRUE
    /\ polling' = TRUE
    /\ Goto(p, "confirm")
    /\ UNCHANGED <<status, trustVars, pairingVars, scannable, worldVars>>

\* A pairing completes in libgm, which emits PairSuccessful.
PairingCompletes(p, then) ==
    /\ auth' = "confirmed"
    /\ unsaved' = TRUE
    /\ ret' = [ret EXCEPT ![p] = then]
    /\ Goto(p, "pairedStop")
    /\ UNCHANGED <<status, trustVars, pairingVars, mainVars, disk, boundVars>>

\* The phone confirms: PairSuccessful is handled, then DoGaiaPairing returns nil
\* and the goroutine saves the session once more.
GaiaConfirmed(p) ==
    /\ At(p, "confirm")
    /\ polling' = TRUE
    /\ PairingCompletes(p, "save")
    /\ UNCHANGED scannable

GaiaFails(p) == pc[p] \in {"signIn", "confirm"} /\ Report(p, "error")

\* Mutant: DoGaiaPairing is given a context without a deadline.
NoGaiaDeadline(p) == FALSE

\* gaiaPairTimeout passed: "the phone never confirmed".
GaiaDeadline(p) == pc[p] \in {"signIn", "confirm"} /\ Report(p, "unpaired")

-----------------------------------------------------------------------------
(* libgm events: handleEvent runs on libgm's goroutines.                   *)

\* The phone scans the code on screen.
PhoneScans(p) ==
    /\ At(p, "idle")
    /\ polling /\ scannable
    /\ scannable' = FALSE
    /\ PairingCompletes(p, "idle")
    /\ UNCHANGED polling

\* PairSuccessful, the loop stopped: mark the daemon paired and start
\* maintenance if it never ran, then save, ...
PairedMark(p) ==
    /\ At(p, "pairedMark")
    /\ paired' = TRUE
    /\ grant' = "live"
    /\ maint' = IF maint = "off" THEN "waiting" ELSE maint
    /\ Goto(p, "pairedSave")
    /\ UNCHANGED <<status, credVars, pairingVars, libgmVars, ret, main, sync, disk,
                   boundVars>>

\* ... and report connected.
PairedState(p) ==
    /\ At(p, "pairedState")
    /\ SetState("connected")
    /\ Goto(p, ret[p])
    /\ ret' = [ret EXCEPT ![p] = "idle"]
    /\ UNCHANGED <<credVars, trustVars, pairingVars, libgmVars, mainVars, disk,
                   boundVars>>

\* AuthTokenRefreshed, or refreshBrowserCookies (for a request or SetProfile)
\* installing new cookies: auth changes in place, then saveSession.
CredentialsRefreshed(p) ==
    /\ At(p, "idle")
    /\ main \notin {"down", "connect"}
    /\ unsaved' = TRUE
    /\ Goto(p, "save")
    /\ UNCHANGED <<status, auth, trustVars, pairingVars, libgmVars, worldVars>>

\* libgm applies Set-Cookie headers to auth in place; nothing is told.
CookiesRotated ==
    /\ polling /\ auth # "fresh"
    /\ unsaved' = TRUE
    /\ UNCHANGED <<status, auth, trustVars, pairingVars, libgmVars, pc, worldVars>>

\* ListenTemporaryError; ListenRecovered and ClientReady; a ListenFatalError, or
\* refreshBrowserCookies finding no cookies.
ListenEvent ==
    /\ polling
    /\ \E s \in {"disconnected", "connected", "error"} : SetState(s)
    /\ UNCHANGED <<credVars, trustVars, pairingVars, libgmVars, pc, worldVars>>

\* Mutant: GaiaLoggedOut leaves d.paired as it was.
LoggedOutStaysPaired(p) ==
    /\ At(p, "idle")
    /\ polling /\ auth # "fresh"
    /\ grant' = IF grant = "never" THEN "never" ELSE "loggedOut"
    /\ Goto(p, "logoutClear")
    /\ UNCHANGED <<status, credVars, paired, pairingVars, libgmVars, worldVars>>

\* GaiaLoggedOut, in the three steps of its handler.
LoggedOut(p) ==
    /\ At(p, "idle")
    /\ polling /\ auth # "fresh"
    /\ paired' = FALSE
    /\ grant' = IF grant = "never" THEN "never" ELSE "loggedOut"
    /\ Goto(p, "logoutClear")
    /\ UNCHANGED <<status, credVars, pairingVars, libgmVars, worldVars>>

\* ClearSession; failing, the file may be gone and the media directory not, or neither.
Cleared(p, next) ==
    /\ disk' = "none"
    /\ Goto(p, next)
    /\ UNCHANGED <<status, credVars, trustVars, pairingVars, libgmVars, ret, mainVars,
                   boundVars>>

ClearFails(p, next) ==
    /\ faults < MaxFaults
    /\ faults' = faults + 1
    /\ disk' \in {"none", disk}
    /\ Goto(p, next)
    /\ UNCHANGED <<status, credVars, trustVars, pairCancel, cancelled, round, libgmVars,
                   ret, mainVars, calls, ends>>

\* GaiaLoggedOut ignores the error.
LogoutClear(p) ==
    /\ At(p, "logoutClear")
    /\ \/ Cleared(p, "logoutState")
       \/ ClearFails(p, "logoutState") /\ UNCHANGED stranded

LogoutState(p) == At(p, "logoutState") /\ Report(p, "unpaired")

-----------------------------------------------------------------------------
(* Unpair: d.paired is not among the things it resets.                     *)

Unpair(p) == Call(p, "unpairStop") /\ UNCHANGED status

\* client.Unpair, its error ignored, and Disconnect.
UnpairRevoke(p) ==
    /\ At(p, "revoke")
    /\ polling' = FALSE
    /\ scannable' = FALSE
    /\ grant' = IF grant = "live" THEN "unpaired" ELSE grant
    /\ Goto(p, "unpairClear")
    /\ UNCHANGED <<status, credVars, paired, pairingVars, worldVars>>

\* The error ends the call, the loop stopped and the state as it was.
UnpairClear(p) ==
    /\ At(p, "unpairClear")
    /\ \/ Cleared(p, "unpairState")
       \/ ClearFails(p, "idle") /\ stranded' = (status.state = "pairing")

UnpairState(p) == At(p, "unpairState") /\ Report(p, "unpaired")

-----------------------------------------------------------------------------
Main == Start \/ ConnectOK \/ ConnectFails \/ InitialSync \/ Stop \/ StopSave
            \/ StopWrite \/ MaintenanceTick \/ MaintenanceWrite

\* What a goroutine does by itself, once it runs.
Step(p) ==
    \/ SaveCheck(p) \/ SaveWrite(p) \/ StopPairRefresh(p)
    \/ LoginOK(p) \/ LoginFails(p) \/ ArmLoop(p)
    \/ LoopCancelled(p) \/ LoopTick(p) \/ LoopOvertaken(p) \/ LoopRefreshed(p)
    \/ LoopFetchFails(p) \/ LoopGivesUp(p)
    \/ GaiaShow(p) \/ PairedMark(p) \/ PairedState(p)
    \/ LogoutClear(p) \/ LogoutState(p)
    \/ UnpairRevoke(p) \/ UnpairClear(p) \/ UnpairState(p)

\* What the panel, Google and the phone choose to do.
Environment(p) ==
    \/ StartPairing(p) \/ GaiaPairing(p) \/ PairFromBrowserFails(p) \/ Unpair(p)
    \/ GaiaSignIn(p) \/ GaiaConfirmed(p) \/ GaiaFails(p)
    \/ PhoneScans(p) \/ CredentialsRefreshed(p) \/ LoggedOut(p)

Next ==
    \/ Main \/ Crash \/ CookiesRotated \/ ListenEvent
    \/ \E p \in Procs : Step(p) \/ Environment(p) \/ GaiaDeadline(p)

Spec == Init /\ [][Next]_vars

\* The scheduler runs every goroutine that can run, HTTP calls return, tickers
\* and the Gaia deadline fire: maintenance and each of Procs goes on. Nothing is
\* promised of the panel or the phone, and nothing is needed of the main goroutine.
Fairness ==
    /\ WF_vars(MaintenanceTick \/ MaintenanceWrite)
    /\ \A p \in Procs : WF_vars(Step(p) \/ GaiaDeadline(p))

FairSpec == Spec /\ Fairness

-----------------------------------------------------------------------------
(* Properties                                                              *)

\* A machine on which no pairing ever completed has no session file, whatever
\* tokens StartLogin and the Gaia sign-in have put in memory, however the
\* pairings were interleaved and wherever the daemon crashed (daemon.go:68-75).
NothingSavedBeforePairing == grant = "never" => disk = "none"

\* What is on disk is always a session LoadSession takes for paired: a bare
\* relay token is never written, so a restart never loses a pairing to it.
SavedSessionLoads == disk # "none" => LooksPaired(disk)

\* A save that begins once the server has signed the device out never reaches
\* the file: only saves that had checked d.paired before can still write
\* (daemon.go:196-211 against 364-370).
SavesInFlight ==
    {p \in Procs : pc[p] \in Writing}
        \cup {m \in {"maintenance"} : maint = "write"}
        \cup {m \in {"stop"} : main = "stopWrite"}

NoSaveBeginsLoggedOut ==
    [][(grant \in {"never", "loggedOut"}) => SavesInFlight' \subseteq SavesInFlight]_vars

\* A QR code is on the status only while pairing or beside a pairing error: no
\* refresh loop, however late, puts a code on a daemon that moved on.
CodeOnlyWhilePairing == status.qr => status.state \in {"pairing", "error"}

\* The pairing screen is not up for good: the loop's budget, a success, an error or
\* another call ends it (methods.go:209-212). The one exception is an Unpair that has
\* stopped the loop and then cannot clear the session: it returns with the state still
\* pairing, and the code stays until the next pairing arms a loop (methods.go:304-316).
PairingEnds ==
    status.state = "pairing" ~> status.state # "pairing" \/ stranded

\* Nor does an unanswered prompt wedge the daemon in gaiaPairing (gaia.go:66-68).
GaiaPairingEnds == status.state = "gaiaPairing" ~> status.state # "gaiaPairing"

\* Credentials refreshed in place reach the file while the daemon stays paired
\* and up: an unclean shutdown loses a bounded amount (maintenance.go:31-34).
RefreshedCredentialsAreSaved ==
    maint # "off" /\ unsaved ~> ~unsaved \/ ~paired \/ main # "serving"

-----------------------------------------------------------------------------
(* What the code's comments say and the code does not do.                  *)

\* "Unpair revokes the pairing and clears local credentials and cache"
\* (methods.go:302): once the call is over and no other is under way, no session
\* is left on disk until a new pairing completes.
UnpairClearsCredentials ==
    grant = "unpaired" /\ maint # "write" /\ (\A p \in Procs : pc[p] = "idle")
        => disk = "none"

\* "StartPairing runs a refresh loop for as long as the pairing screen is up"
\* (methods.go:208-209): no pairing screen is left to a daemon that does nothing.
ScreenHasItsLoop == status.state = "pairing" => \E p \in Procs : pc[p] # "idle"

\* The refresh loop runs "until pairing completes, is cancelled, or the attempt
\* budget runs out" (methods.go:243-244), another state change wins the race
\* (methods.go:274): a loop that ends never replaces the status of another state.
LoopYieldsToOtherStates ==
    [][\A p \in Procs :
          pc[p] \in {"fetch", "giveUp"} /\ pc'[p] = "idle" /\ status' # status
              => status.state = "pairing"]_vars
=============================================================================
