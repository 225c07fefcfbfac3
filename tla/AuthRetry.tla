----------------------------- MODULE AuthRetry -----------------------------
(***************************************************************************)
(* Getting back in when Google refuses the credentials: withAuthRetry      *)
(* around a request, the cookies read again from the browser, and the      *)
(* automatic re-pair, each with its throttle.                              *)
(*                                                                         *)
(* Time is in the throttles only: a throttle is on while the last attempt  *)
(* is younger than its interval. Saves are in Lifecycle.                   *)
(***************************************************************************)
EXTENDS Naturals, FiniteSets

CONSTANTS
    Procs,           \* requests, libgm's fatal errors and the panel's calls
    MaxCalls,        \* bound: goroutines ever started
    MaxRefusals      \* bound: times Google turns against the credentials

ASSUME AuthBoundsAssumption == MaxCalls \in Nat /\ MaxRefusals \in Nat

VARIABLES
    state,           \* d.status.State
    generation,      \* d.pairGeneration
    cookieThrottle,  \* d.cookies.last is within cookieRefreshInterval
    repairThrottle,  \* d.cookies.lastRepair is within repairInterval
    session,         \* external: what Google makes of the daemon's credentials
    pc,              \* where each goroutine is
    caller,          \* what it runs for
    before,          \* the generation its repair started from
    gaia,            \* the Gaia pairing each goroutine has started
    renewed,         \* history: a pairing completed since its repair began
    calls,           \* counts against MaxCalls
    refusals         \* counts against MaxRefusals

throttleVars == <<cookieThrottle, repairThrottle>>
procVars     == <<pc, caller, before>>
pairVars     == <<generation, gaia, renewed>>
boundVars    == <<calls, refusals>>
vars == <<state, pairVars, throttleVars, session, procVars, boundVars>>

States  == {"connected", "disconnected", "gaiaPairing", "error", "unpaired"}
Callers == {"request", "fatal", "profile", "panel"}

\* A repair waits for its pairing; a pairing goes on without it.
Repairing == {"generation", "pair", "wait"}
Labels == Repairing \cup {"idle", "op", "retry", "last", "refresh", "read", "repair", "report"}

TypeOK ==
    /\ state \in States
    /\ generation \in Nat
    /\ cookieThrottle \in BOOLEAN
    /\ repairThrottle \in BOOLEAN
    /\ session \in {"good", "expired", "invalid"}
    /\ pc \in [Procs -> Labels]
    /\ caller \in [Procs -> Callers]
    /\ before \in [Procs -> Nat]
    /\ gaia \in [Procs -> {"none", "running", "confirmed"}]
    /\ renewed \subseteq Procs
    /\ calls \in 0..MaxCalls
    /\ refusals \in 0..MaxRefusals

Init ==
    /\ state = "connected"
    /\ generation = 0
    /\ cookieThrottle = FALSE
    /\ repairThrottle = FALSE
    /\ session = "good"
    /\ pc = [p \in Procs |-> "idle"]
    /\ caller = [p \in Procs |-> "request"]
    /\ before = [p \in Procs |-> 0]
    /\ gaia = [p \in Procs |-> "none"]
    /\ renewed = {}
    /\ calls = 0
    /\ refusals = 0

At(p, label) == pc[p] = label
Goto(p, label) == pc' = [pc EXCEPT ![p] = label]

-----------------------------------------------------------------------------
(* The callers.                                                            *)

\* A goroutine begins: a request at its operation, the handler of a fatal error
\* at its repair, SetProfile at the cookies, the panel's PairFromBrowser at the
\* profiles. A request is made only while connected.
Begin(p) ==
    /\ At(p, "idle") /\ gaia[p] = "none"
    /\ calls < MaxCalls
    /\ calls' = calls + 1
    /\ \/ state = "connected" /\ caller' = [caller EXCEPT ![p] = "request"] /\ Goto(p, "op")
       \/ session # "good" /\ caller' = [caller EXCEPT ![p] = "fatal"] /\ Goto(p, "repair")
       \/ caller' = [caller EXCEPT ![p] = "profile"] /\ Goto(p, "refresh")
       \/ caller' = [caller EXCEPT ![p] = "panel"] /\ Goto(p, "pair")
    /\ UNCHANGED <<state, pairVars, throttleVars, session, before, refusals>>

\* repairSession and refreshBrowserCookies returned false: a request fails with
\* the error it had, a fatal error is reported.
GiveUp(p) == Goto(p, IF caller[p] = "fatal" THEN "report" ELSE "idle")

\* "Google sign-in expired."
ReportFatal(p) ==
    /\ At(p, "report")
    /\ state' = "error"
    /\ Goto(p, "idle")
    /\ UNCHANGED <<pairVars, throttleVars, session, caller, before, boundVars>>

-----------------------------------------------------------------------------
(* withAuthRetry.                                                          *)

\* The operation works, or fails for a reason that is not authentication.
OpEnds(p) ==
    /\ pc[p] \in {"op", "retry", "last"}
    /\ Goto(p, "idle")
    /\ UNCHANGED <<state, pairVars, throttleVars, session, caller, before, boundVars>>

\* It fails authentication: cookies first, unless the session is gone; after the
\* cookies the session; after the session nothing.
OpRefused(p) ==
    /\ session # "good"
    /\ \/ At(p, "op") /\ Goto(p, IF session = "invalid" THEN "repair" ELSE "refresh")
       \/ At(p, "retry") /\ Goto(p, "repair")
       \/ At(p, "last") /\ Goto(p, "idle")
    /\ UNCHANGED <<state, pairVars, throttleVars, session, caller, before, boundVars>>

-----------------------------------------------------------------------------
(* refreshBrowserCookies.                                                  *)

RefreshThrottled(p) ==
    /\ At(p, "refresh") /\ cookieThrottle
    /\ Goto(p, "idle")
    /\ UNCHANGED <<state, pairVars, throttleVars, session, caller, before, boundVars>>

RefreshBegins(p) ==
    /\ At(p, "refresh") /\ ~cookieThrottle
    /\ cookieThrottle' = TRUE
    /\ Goto(p, "read")
    /\ UNCHANGED <<state, pairVars, repairThrottle, session, caller, before, boundVars>>

\* SetCookies with a browser's copy. It may be as stale as the daemon's, and a
\* stale copy may cost the session; none revives a session that is gone.
SetCookies ==
    \/ session = "invalid" /\ UNCHANGED session
    \/ session # "invalid" /\ session' \in {"good", "expired", "invalid"}

\* A profile has all the cookies.
RefreshOK(p) ==
    /\ At(p, "read")
    /\ SetCookies
    /\ Goto(p, IF caller[p] = "request" THEN "retry" ELSE "idle")
    /\ UNCHANGED <<state, pairVars, throttleVars, caller, before, boundVars>>

\* None has.
RefreshFails(p) ==
    /\ At(p, "read")
    /\ state' = "error"
    /\ Goto(p, "idle")
    /\ UNCHANGED <<pairVars, throttleVars, session, caller, before, boundVars>>

-----------------------------------------------------------------------------
(* repairSession.                                                          *)

RepairThrottled(p) ==
    /\ At(p, "repair") /\ repairThrottle
    /\ GiveUp(p)
    /\ UNCHANGED <<state, pairVars, throttleVars, session, caller, before, boundVars>>

\* Mutant: the time of the repair is not recorded.
RepairUnthrottled(p) ==
    /\ At(p, "repair") /\ ~repairThrottle
    /\ renewed' = renewed \ {p}
    /\ Goto(p, "generation")
    /\ UNCHANGED <<state, generation, gaia, throttleVars, session, caller, before, boundVars>>

RepairBegins(p) ==
    /\ At(p, "repair") /\ ~repairThrottle
    /\ repairThrottle' = TRUE
    /\ renewed' = renewed \ {p}
    /\ Goto(p, "generation")
    /\ UNCHANGED <<state, generation, gaia, cookieThrottle, session, caller, before, boundVars>>

ReadGeneration(p) ==
    /\ At(p, "generation")
    /\ before' = [before EXCEPT ![p] = generation]
    /\ Goto(p, "pair")
    /\ UNCHANGED <<state, pairVars, throttleVars, session, caller, boundVars>>

\* PairFromBrowser finds no usable profile.
PairFails(p) ==
    /\ At(p, "pair")
    /\ state' = "error"
    /\ GiveUp(p)
    /\ UNCHANGED <<pairVars, throttleVars, session, caller, before, boundVars>>

\* It finds one, and StartGaiaPairing leaves the pairing to a goroutine.
PairStarts(p) ==
    /\ At(p, "pair")
    /\ state' = "gaiaPairing"
    /\ gaia' = [gaia EXCEPT ![p] = "running"]
    /\ SetCookies
    /\ Goto(p, IF caller[p] = "panel" THEN "idle" ELSE "wait")
    /\ UNCHANGED <<generation, renewed, throttleVars, caller, before, boundVars>>

\* Mutant: a connection that looks healthy counts as the pairing.
SucceededWhenConnected(p) == state = "connected"

Succeeded(p) == generation # before[p]

\* Each second the generation and the state are looked at.
WaitSucceeds(p) ==
    /\ At(p, "wait") /\ Succeeded(p)
    /\ Goto(p, IF caller[p] = "request" THEN "last" ELSE "idle")
    /\ UNCHANGED <<state, pairVars, throttleVars, session, caller, before, boundVars>>

WaitFails(p) ==
    /\ At(p, "wait") /\ ~Succeeded(p)
    /\ state \in {"error", "unpaired"}
    /\ GiveUp(p)
    /\ UNCHANGED <<state, pairVars, throttleVars, session, caller, before, boundVars>>

\* Mutant: the wait has no limit of its own.
WaitForever(p) == FALSE

\* Ninety looks were not enough.
WaitTimesOut(p) ==
    /\ At(p, "wait") /\ ~Succeeded(p)
    /\ GiveUp(p)
    /\ UNCHANGED <<state, pairVars, throttleVars, session, caller, before, boundVars>>

-----------------------------------------------------------------------------
(* The goroutine of StartGaiaPairing.                                      *)

\* The phone confirms: PairSuccessful raises the generation ...
GaiaConfirmed(p) ==
    /\ gaia[p] = "running"
    /\ gaia' = [gaia EXCEPT ![p] = "confirmed"]
    /\ generation' = generation + 1
    /\ renewed' = Procs
    /\ session' = "good"
    /\ UNCHANGED <<state, throttleVars, procVars, boundVars>>

\* ... and, the session saved, reports connected.
GaiaConnected(p) ==
    /\ gaia[p] = "confirmed"
    /\ gaia' = [gaia EXCEPT ![p] = "none"]
    /\ state' = "connected"
    /\ UNCHANGED <<generation, renewed, throttleVars, session, procVars, boundVars>>

\* It fails, or its deadline passes.
GaiaFails(p) ==
    /\ gaia[p] = "running"
    /\ gaia' = [gaia EXCEPT ![p] = "none"]
    /\ state' \in {"error", "unpaired"}
    /\ UNCHANGED <<generation, renewed, throttleVars, session, procVars, boundVars>>

-----------------------------------------------------------------------------
(* Google, libgm and the clock.                                            *)

\* Cookies go stale; the session is torn down.
Refused ==
    /\ refusals < MaxRefusals
    /\ refusals' = refusals + 1
    /\ \/ session = "good" /\ session' = "expired"
       \/ session # "invalid" /\ session' = "invalid"
    /\ UNCHANGED <<state, pairVars, throttleVars, procVars, calls>>

\* The long poll breaks, recovers, fails for another reason or reports that the
\* device was logged out, also while a pairing is under way.
ListenEvent ==
    /\ state' \in {"disconnected", "connected", "error", "unpaired"}
    /\ UNCHANGED <<pairVars, throttleVars, session, procVars, boundVars>>

CookieIntervalEnds ==
    /\ cookieThrottle
    /\ cookieThrottle' = FALSE
    /\ UNCHANGED <<state, pairVars, repairThrottle, session, procVars, boundVars>>

\* repairInterval, five minutes, is more than a repair takes: a look at the
\* browser's profiles, then the longer of its ninety seconds' wait and the three
\* minutes of its pairing.
RepairIntervalEnds ==
    /\ repairThrottle
    /\ \A p \in Procs : caller[p] # "panel" => pc[p] \notin Repairing /\ gaia[p] = "none"
    /\ repairThrottle' = FALSE
    /\ UNCHANGED <<state, pairVars, cookieThrottle, session, procVars, boundVars>>

Step(p) ==
    \/ OpEnds(p) \/ OpRefused(p) \/ ReportFatal(p)
    \/ RefreshThrottled(p) \/ RefreshBegins(p) \/ RefreshOK(p) \/ RefreshFails(p)
    \/ RepairThrottled(p) \/ RepairBegins(p) \/ ReadGeneration(p)
    \/ PairFails(p) \/ PairStarts(p) \/ WaitSucceeds(p) \/ WaitFails(p)

Gaia(p) == GaiaConfirmed(p) \/ GaiaConnected(p) \/ GaiaFails(p)

Next ==
    \/ \E p \in Procs : Begin(p) \/ Step(p) \/ WaitTimesOut(p) \/ Gaia(p)
    \/ Refused \/ ListenEvent \/ CookieIntervalEnds \/ RepairIntervalEnds

Spec == Init /\ [][Next]_vars

\* Goroutines run, requests end by their contexts, files can be read, the ninety
\* looks end and so does a Gaia pairing, by its deadline.
FairSpec ==
    /\ Spec
    /\ \A p \in Procs : WF_vars(Step(p)) /\ WF_vars(WaitTimesOut(p)) /\ WF_vars(Gaia(p))

-----------------------------------------------------------------------------
(* Properties                                                              *)

\* A request is made again after a repair only when a pairing completed since
\* the repair began, never because the long poll recovered on its own
\* (authretry.go:135-137, daemon.go:50-54).
RepairMeansPaired == \A p \in Procs : At(p, "last") => p \in renewed

\* A burst of refused requests and fatal errors costs the phone one prompt: no
\* two automatic pairings are ever under way (authretry.go:27-29).
Prompting(p) == caller[p] # "panel" /\ (pc[p] \in Repairing \/ gaia[p] # "none")

OnePromptPerBurst == \A p, q \in Procs : Prompting(p) /\ Prompting(q) => p = q

\* Every request and every repair ends, whatever the long poll and other
\* pairings do to the state it looks at.
CallsEnd == \A p \in Procs : pc[p] # "idle" ~> pc[p] = "idle"

-----------------------------------------------------------------------------
(* What the code's comments say and the code does not do.                  *)

\* "Pairing gave up or was rejected; stop waiting." (authretry.go:150)
StopsWaitingForEndedPairings ==
    [][\A p \in Procs : WaitFails(p) => gaia[p] # "running"]_vars
=============================================================================
