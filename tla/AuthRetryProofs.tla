-------------------------- MODULE AuthRetryProofs ---------------------------
(***************************************************************************)
(* Theorems about AuthRetry, for any goroutines and bounds.                *)
(***************************************************************************)
EXTENDS AuthRetry, TLAPS

\* Every variable has its type at the start.
LEMMA TypeInit == Init => TypeOK
<1> SUFFICES ASSUME Init PROVE TypeOK
  OBVIOUS
<1>1. cookieThrottle \in BOOLEAN /\ repairThrottle \in BOOLEAN
  BY Zenon DEF Init
<1>2. 0 \in 0..MaxCalls /\ 0 \in 0..MaxRefusals
  BY AuthBoundsAssumption
<1> QED
  BY <1>1, <1>2 DEF Init, TypeOK, States, Callers, Labels, Repairing

\* Type correctness is inductive by itself.
LEMMA TypeStep == TypeOK /\ [Next]_vars => TypeOK'
<1> SUFFICES ASSUME TypeOK, [Next]_vars PROVE TypeOK'
  OBVIOUS
<1> USE AuthBoundsAssumption
<1> USE DEF TypeOK, States, Callers, Labels, Repairing, At, Goto, throttleVars, procVars,
            pairVars, boundVars
<1>1. ASSUME NEW p \in Procs, Begin(p) PROVE TypeOK'
  BY <1>1 DEF Begin
<1>2. ASSUME NEW p \in Procs, OpEnds(p) \/ OpRefused(p) \/ ReportFatal(p) PROVE TypeOK'
  BY <1>2 DEF OpEnds, OpRefused, ReportFatal
<1>3. ASSUME NEW p \in Procs, RefreshThrottled(p) \/ RefreshBegins(p) \/ RefreshFails(p)
      PROVE  TypeOK'
  BY <1>3 DEF RefreshThrottled, RefreshBegins, RefreshFails
<1>4. ASSUME NEW p \in Procs, RefreshOK(p) PROVE TypeOK'
  BY <1>4 DEF RefreshOK, SetCookies
<1>5. ASSUME NEW p \in Procs, RepairThrottled(p) \/ RepairBegins(p) \/ ReadGeneration(p)
      PROVE  TypeOK'
  BY <1>5 DEF RepairThrottled, RepairBegins, ReadGeneration, GiveUp
<1>6. ASSUME NEW p \in Procs, PairFails(p) PROVE TypeOK'
  BY <1>6 DEF PairFails, GiveUp
<1>7. ASSUME NEW p \in Procs, PairStarts(p) PROVE TypeOK'
  BY <1>7 DEF PairStarts, SetCookies
<1>8. ASSUME NEW p \in Procs, WaitSucceeds(p) \/ WaitFails(p) \/ WaitTimesOut(p)
      PROVE  TypeOK'
  BY <1>8 DEF WaitSucceeds, WaitFails, WaitTimesOut, GiveUp
<1>9. ASSUME NEW p \in Procs, Gaia(p) PROVE TypeOK'
  BY <1>9 DEF Gaia, GaiaConfirmed, GaiaConnected, GaiaFails
<1>10. CASE Refused
  BY <1>10 DEF Refused
<1>11. CASE ListenEvent
  BY <1>11 DEF ListenEvent
<1>12. CASE CookieIntervalEnds \/ RepairIntervalEnds
  BY <1>12 DEF CookieIntervalEnds, RepairIntervalEnds
<1>13. CASE UNCHANGED vars
  BY <1>13 DEF vars
<1> QED
  BY <1>1, <1>2, <1>3, <1>4, <1>5, <1>6, <1>7, <1>8, <1>9, <1>10, <1>11, <1>12, <1>13
     DEF Next, Step

\* Every variable keeps its type.
THEOREM TypeCorrect == Spec => []TypeOK
BY TypeInit, TypeStep, PTL DEF Spec

(***************************************************************************)
(* A repair's success: from the moment it reads the generation until it    *)
(* stops waiting, a generation other than the one it read is a pairing     *)
(* that completed since.                                                   *)
(***************************************************************************)
RepairInv ==
    /\ \A p \in Procs :
          At(p, "wait") \/ (At(p, "pair") /\ caller[p] # "panel")
              => generation = before[p] \/ p \in renewed
    /\ RepairMeansPaired

\* No step lets a repair that saw no pairing repeat its request.
LEMMA RepairStep == TypeOK /\ RepairInv /\ [Next]_vars => RepairInv'
<1> SUFFICES ASSUME TypeOK, RepairInv, [Next]_vars PROVE RepairInv'
  OBVIOUS
<1> USE DEF TypeOK, RepairInv, RepairMeansPaired, At, Goto, throttleVars, procVars, pairVars,
            boundVars
<1>1. ASSUME NEW p \in Procs, Begin(p) PROVE RepairInv'
  BY <1>1 DEF Begin
<1>2. ASSUME NEW p \in Procs, OpEnds(p) \/ OpRefused(p) \/ ReportFatal(p) PROVE RepairInv'
  BY <1>2 DEF OpEnds, OpRefused, ReportFatal
<1>3. ASSUME NEW p \in Procs,
             RefreshThrottled(p) \/ RefreshBegins(p) \/ RefreshOK(p) \/ RefreshFails(p)
      PROVE  RepairInv'
  BY <1>3 DEF RefreshThrottled, RefreshBegins, RefreshOK, RefreshFails
<1>4. ASSUME NEW p \in Procs, RepairThrottled(p) \/ RepairBegins(p) PROVE RepairInv'
  BY <1>4 DEF RepairThrottled, RepairBegins, GiveUp
<1>5. ASSUME NEW p \in Procs, ReadGeneration(p) PROVE RepairInv'
  BY <1>5 DEF ReadGeneration
<1>6. ASSUME NEW p \in Procs, PairFails(p) \/ PairStarts(p) PROVE RepairInv'
  BY <1>6 DEF PairFails, PairStarts, GiveUp
<1>7. ASSUME NEW p \in Procs, WaitSucceeds(p) PROVE RepairInv'
  BY <1>7 DEF WaitSucceeds, Succeeded
<1>8. ASSUME NEW p \in Procs, WaitFails(p) \/ WaitTimesOut(p) PROVE RepairInv'
  BY <1>8 DEF WaitFails, WaitTimesOut, GiveUp
<1>9. ASSUME NEW p \in Procs, Gaia(p) PROVE RepairInv'
  BY <1>9 DEF Gaia, GaiaConfirmed, GaiaConnected, GaiaFails
<1>10. CASE Refused \/ ListenEvent \/ CookieIntervalEnds \/ RepairIntervalEnds
  BY <1>10 DEF Refused, ListenEvent, CookieIntervalEnds, RepairIntervalEnds
<1>11. CASE UNCHANGED vars
  BY <1>11 DEF vars
<1> QED
  BY <1>1, <1>2, <1>3, <1>4, <1>5, <1>6, <1>7, <1>8, <1>9, <1>10, <1>11 DEF Next, Step

\* A request is made again after a repair only when a pairing completed since the
\* repair began (repairSession, authretry.go:126-148).
THEOREM RepairsArePairings == Spec => []RepairMeansPaired
<1>1. Init => RepairInv
  BY DEF Init, RepairInv, RepairMeansPaired, At
<1>2. RepairInv => RepairMeansPaired
  BY DEF RepairInv
<1> QED
  BY <1>1, <1>2, TypeInit, TypeStep, RepairStep, PTL DEF Spec

(***************************************************************************)
(* One prompt: whoever has an automatic pairing under way holds the        *)
(* throttle.                                                               *)
(***************************************************************************)
PromptInv ==
    /\ OnePromptPerBurst
    /\ \A p \in Procs : Prompting(p) => repairThrottle

\* A step after which nobody new prompts, and which leaves the throttle alone,
\* keeps it so.
LEMMA PromptKept ==
    ASSUME PromptInv,
           \A q \in Procs : Prompting(q)' => Prompting(q),
           repairThrottle' = repairThrottle
    PROVE  PromptInv'
BY DEF PromptInv, OnePromptPerBurst

\* A repair begins with the throttle off, so it is the only one.
LEMMA PromptStep == TypeOK /\ PromptInv /\ [Next]_vars => PromptInv'
<1> SUFFICES ASSUME TypeOK, PromptInv, [Next]_vars PROVE PromptInv'
  OBVIOUS
<1> DEFINE NobodyNew ==
               /\ \A q \in Procs : Prompting(q)' => Prompting(q)
               /\ repairThrottle' = repairThrottle
<1> USE DEF Prompting, At, Goto, throttleVars, procVars, pairVars, boundVars
<1>1. ASSUME NEW p \in Procs, RepairBegins(p) PROVE PromptInv'
  <2>1. \A q \in Procs : Prompting(q)' => q = p
    BY <1>1 DEF RepairBegins, PromptInv, TypeOK, Repairing
  <2>2. repairThrottle'
    BY <1>1 DEF RepairBegins
  <2> HIDE DEF Prompting
  <2> QED
    BY <2>1, <2>2 DEF PromptInv, OnePromptPerBurst
<1>2. CASE RepairIntervalEnds
  <2>1. \A q \in Procs : ~Prompting(q)'
    BY <1>2 DEF RepairIntervalEnds
  <2> QED
    BY <2>1 DEF PromptInv, OnePromptPerBurst
<1>3. ASSUME NEW p \in Procs, Begin(p)
      PROVE  NobodyNew
  BY <1>3 DEF Begin, TypeOK, Repairing
<1>4. ASSUME NEW p \in Procs, Step(p), ~RepairBegins(p)
      PROVE  NobodyNew
  <2>1. ASSUME OpEnds(p) \/ OpRefused(p) \/ ReportFatal(p)
        PROVE  NobodyNew
    BY <2>1 DEF OpEnds, OpRefused, ReportFatal, TypeOK, Repairing
  <2>2. ASSUME RefreshThrottled(p) \/ RefreshBegins(p) \/ RefreshOK(p) \/ RefreshFails(p)
        PROVE  NobodyNew
    BY <2>2 DEF RefreshThrottled, RefreshBegins, RefreshOK, RefreshFails, TypeOK, Repairing
  <2>3. ASSUME RepairThrottled(p) \/ ReadGeneration(p)
        PROVE  NobodyNew
    BY <2>3 DEF RepairThrottled, ReadGeneration, GiveUp, TypeOK, Repairing
  <2>4. ASSUME PairFails(p) \/ PairStarts(p)
        PROVE  NobodyNew
    BY <2>4 DEF PairFails, PairStarts, GiveUp, TypeOK, Repairing
  <2>5. ASSUME WaitSucceeds(p) \/ WaitFails(p)
        PROVE  NobodyNew
    BY <2>5 DEF WaitSucceeds, WaitFails, GiveUp, TypeOK, Repairing
  <2> QED
    BY <1>4, <2>1, <2>2, <2>3, <2>4, <2>5 DEF Step
<1>5. ASSUME NEW p \in Procs, WaitTimesOut(p)
      PROVE  NobodyNew
  BY <1>5 DEF WaitTimesOut, GiveUp, TypeOK, Repairing
<1>6. ASSUME NEW p \in Procs, Gaia(p)
      PROVE  NobodyNew
  BY <1>6 DEF Gaia, GaiaConfirmed, GaiaConnected, GaiaFails, TypeOK
<1>7. ASSUME Refused \/ ListenEvent \/ CookieIntervalEnds \/ UNCHANGED vars
      PROVE  NobodyNew
  BY <1>7 DEF Refused, ListenEvent, CookieIntervalEnds, vars
<1> HIDE DEF Prompting
<1>8. ASSUME NobodyNew PROVE PromptInv'
  BY <1>8, PromptKept
<1> HIDE DEF NobodyNew
<1> QED
  BY <1>1, <1>2, <1>3, <1>4, <1>5, <1>6, <1>7, <1>8 DEF Next

\* A burst of refused requests and fatal errors costs the phone one prompt at a time.
THEOREM OnePrompt == Spec => []OnePromptPerBurst
<1>1. Init => PromptInv
  BY DEF Init, PromptInv, OnePromptPerBurst, Prompting, Repairing
<1>2. PromptInv => OnePromptPerBurst
  BY DEF PromptInv
<1> QED
  BY <1>1, <1>2, TypeInit, TypeStep, PromptStep, PTL DEF Spec
=============================================================================
