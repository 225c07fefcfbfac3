--------------------------- MODULE LifecycleProofs ---------------------------
(* Theorems about Lifecycle, for any goroutines, budgets and bounds.       *)
EXTENDS Lifecycle, TLAPS

(***************************************************************************)
(* Type correctness. A loop that still has rounds to go is within budget.  *)
(***************************************************************************)
RoundsLeft == \A p \in Procs : pc[p] \in {"tick", "fetch"} => round[p] < QrMaxRefreshes

TypeInv == TypeOK /\ RoundsLeft

\* The Boolean variables, for steps that need a first-order prover.
Booleans ==
    /\ paired \in BOOLEAN
    /\ polling \in BOOLEAN
    /\ scannable \in BOOLEAN
    /\ unsaved \in BOOLEAN
    /\ stranded \in BOOLEAN

\* A machine on which the daemon never ran satisfies the type invariant.
LEMMA TypeInit == Init => TypeInv
<1> SUFFICES ASSUME Init PROVE TypeInv
  OBVIOUS
<1>1. Booleans
  BY Zenon DEF Init, Booleans
<1>2. QED
  BY <1>1, ProcsAssumption, BoundsAssumption
     DEF Booleans, Init, TypeInv, TypeOK, RoundsLeft, FreshStatus, Status, ConnStates,
         AuthStates, DiskStates, Grants, Labels

\* Every step of the daemon, libgm or the panel preserves the type invariant:
\* round never passes the refresh budget, no bounded count its bound.
LEMMA TypeStep == TypeInv /\ [Next]_vars => TypeInv'
<1> SUFFICES ASSUME TypeInv, [Next]_vars PROVE TypeInv'
  OBVIOUS
<1> USE ProcsAssumption, BoundsAssumption
<1> USE DEF TypeInv, TypeOK, RoundsLeft, Status, ConnStates, AuthStates, DiskStates,
            Grants, Labels, At, Goto, pairingVars, procVars, mainVars, credVars,
            trustVars, libgmVars, boundVars, worldVars
<1>1. CASE Start
  <2>1. Booleans'
    <3>1. LooksPaired(auth') \in BOOLEAN
      BY SMT DEF LooksPaired
    <3> QED
      BY <1>1, <3>1, Zenon DEF Start, Booleans
  <2> QED
    BY <1>1, <2>1 DEF Start, SetState, LooksPaired, Booleans
<1>2. CASE ConnectOK
  BY <1>2 DEF ConnectOK
<1>3. CASE ConnectFails
  BY <1>3 DEF ConnectFails, SetState
<1>4. CASE InitialSync
  BY <1>4 DEF InitialSync, SetState
<1>5. CASE Stop
  <2>1. Booleans'
    BY <1>5, Zenon DEF Stop, Booleans
  <2> QED
    BY <1>5, <2>1 DEF Stop, Booleans
<1>6. CASE StopSave
  <2>1. Booleans'
    BY <1>6, Zenon DEF StopSave, ProcessEnds, FreshStatus, MayPersist, Booleans
  <2>2. CASE paired
    BY <1>6, <2>1, <2>2 DEF StopSave, MayPersist, Booleans
  <2>3. CASE ~paired
    <3>1. ProcessEnds /\ UNCHANGED <<unsaved, grant, disk, boundVars>>
      BY <1>6, <2>3, Zenon DEF StopSave, MayPersist
    <3> QED
      BY <3>1, <2>1 DEF ProcessEnds, FreshStatus, Booleans
  <2> QED
    BY <2>2, <2>3
<1>7. CASE StopWrite
  <2>1. Booleans'
    BY <1>7, Zenon DEF StopWrite, ProcessEnds, FreshStatus, SaveSession, Booleans
  <2> QED
    BY <1>7, <2>1 DEF StopWrite, ProcessEnds, FreshStatus, SaveSession, Booleans
<1>8. CASE MaintenanceTick
  BY <1>8 DEF MaintenanceTick, MayPersist
<1>9. CASE MaintenanceWrite
  <2>1. Booleans'
    BY <1>9, Zenon DEF MaintenanceWrite, SaveSession, Booleans
  <2> QED
    BY <1>9, <2>1 DEF MaintenanceWrite, SaveSession, Booleans
<1>10. CASE Crash
  <2>1. Booleans'
    BY <1>10, Zenon DEF Crash, ProcessEnds, FreshStatus, Booleans
  <2> QED
    BY <1>10, <2>1 DEF Crash, ProcessEnds, FreshStatus, Booleans
<1>11. CASE CookiesRotated
  BY <1>11 DEF CookiesRotated
<1>12. CASE ListenEvent
  BY <1>12 DEF ListenEvent, SetState
<1>13. ASSUME NEW p \in Procs, SaveCheck(p) PROVE TypeInv'
  BY <1>13 DEF SaveCheck, MayPersist
<1>14. ASSUME NEW p \in Procs, SaveWrite(p) PROVE TypeInv'
  <2>1. Booleans'
    BY <1>14, Zenon DEF SaveWrite, SaveSession, Booleans
  <2> QED
    BY <1>14, <2>1 DEF SaveWrite, SaveSession, Booleans
<1>15. ASSUME NEW p \in Procs, StopPairRefresh(p) PROVE TypeInv'
  BY <1>15 DEF StopPairRefresh
<1>16. ASSUME NEW p \in Procs, LoginOK(p) PROVE TypeInv'
  BY <1>16 DEF LoginOK, LooksPaired
<1>17. ASSUME NEW p \in Procs, LoginFails(p) PROVE TypeInv'
  BY <1>17 DEF LoginFails, Report, SetState
<1>18. ASSUME NEW p \in Procs, ArmLoop(p) PROVE TypeInv'
  <2>1. Booleans'
    BY <1>18, Zenon DEF ArmLoop, Booleans
  <2> QED
    BY <1>18, <2>1 DEF ArmLoop, Booleans
<1>19. ASSUME NEW p \in Procs, LoopCancelled(p) PROVE TypeInv'
  BY <1>19 DEF LoopCancelled, LoopEnds
<1>20. ASSUME NEW p \in Procs, LoopTick(p) PROVE TypeInv'
  BY <1>20 DEF LoopTick
<1>21. ASSUME NEW p \in Procs, LoopOvertaken(p) PROVE TypeInv'
  BY <1>21 DEF LoopOvertaken, LoopEnds
<1>22. ASSUME NEW p \in Procs, LoopRefreshed(p) PROVE TypeInv'
  <2>1. Booleans'
    BY <1>22, Zenon DEF LoopRefreshed, Overtaken, BudgetSpent, Booleans
  <2>2. /\ round[p] \in 0..QrMaxRefreshes /\ round[p] < QrMaxRefreshes
        /\ round' \in [Procs -> 0..QrMaxRefreshes]
    BY <1>22 DEF LoopRefreshed
  <2>3. RoundsLeft'
    BY <1>22, <2>2 DEF LoopRefreshed, BudgetSpent
  <2>4. status' \in Status /\ pc' \in [Procs -> Labels]
    BY <1>22 DEF LoopRefreshed
  <2> QED
    BY <1>22, <2>1, <2>2, <2>3, <2>4 DEF LoopRefreshed, Booleans
<1>23. ASSUME NEW p \in Procs, LoopFetchFails(p) PROVE TypeInv'
  BY <1>23 DEF LoopFetchFails, LoopEnds, SetState
<1>24. ASSUME NEW p \in Procs, LoopGivesUp(p) PROVE TypeInv'
  BY <1>24 DEF LoopGivesUp, LoopEnds, SetState
<1>25. ASSUME NEW p \in Procs, GaiaShow(p) PROVE TypeInv'
  BY <1>25 DEF GaiaShow
<1>26. ASSUME NEW p \in Procs, PairedMark(p) PROVE TypeInv'
  BY <1>26 DEF PairedMark
<1>27. ASSUME NEW p \in Procs, PairedState(p) PROVE TypeInv'
  BY <1>27 DEF PairedState, SetState
<1>28. ASSUME NEW p \in Procs, LogoutClear(p) PROVE TypeInv'
  BY <1>28 DEF LogoutClear, Cleared, ClearFails
<1>29. ASSUME NEW p \in Procs, LogoutState(p) PROVE TypeInv'
  BY <1>29 DEF LogoutState, Report, SetState
<1>30. ASSUME NEW p \in Procs, UnpairRevoke(p) PROVE TypeInv'
  <2>1. Booleans'
    BY <1>30, Zenon DEF UnpairRevoke, Booleans
  <2> QED
    BY <1>30, <2>1 DEF UnpairRevoke, Booleans
<1>31. ASSUME NEW p \in Procs, UnpairClear(p) PROVE TypeInv'
  <2>1. Booleans'
    BY <1>31, Zenon DEF UnpairClear, Cleared, ClearFails, Booleans
  <2> QED
    BY <1>31, <2>1 DEF UnpairClear, Cleared, ClearFails, Booleans
<1>32. ASSUME NEW p \in Procs, UnpairState(p) PROVE TypeInv'
  BY <1>32 DEF UnpairState, Report, SetState
<1>33. ASSUME NEW p \in Procs, StartPairing(p) PROVE TypeInv'
  BY <1>33 DEF StartPairing, Call
<1>34. ASSUME NEW p \in Procs, GaiaPairing(p) PROVE TypeInv'
  BY <1>34 DEF GaiaPairing, Call
<1>35. ASSUME NEW p \in Procs, PairFromBrowserFails(p) PROVE TypeInv'
  BY <1>35 DEF PairFromBrowserFails, Call
<1>36. ASSUME NEW p \in Procs, Unpair(p) PROVE TypeInv'
  BY <1>36 DEF Unpair, Call
<1>37. ASSUME NEW p \in Procs, GaiaSignIn(p) PROVE TypeInv'
  BY <1>37 DEF GaiaSignIn
<1>38. ASSUME NEW p \in Procs, GaiaConfirmed(p) PROVE TypeInv'
  BY <1>38 DEF GaiaConfirmed, PairingCompletes
<1>39. ASSUME NEW p \in Procs, GaiaFails(p) PROVE TypeInv'
  BY <1>39 DEF GaiaFails, Report, SetState
<1>40. ASSUME NEW p \in Procs, PhoneScans(p) PROVE TypeInv'
  <2>1. Booleans'
    BY <1>40, Zenon DEF PhoneScans, PairingCompletes, Booleans
  <2> QED
    BY <1>40, <2>1 DEF PhoneScans, PairingCompletes, Booleans
<1>41. ASSUME NEW p \in Procs, CredentialsRefreshed(p) PROVE TypeInv'
  BY <1>41 DEF CredentialsRefreshed
<1>42. ASSUME NEW p \in Procs, LoggedOut(p) PROVE TypeInv'
  <2>1. Booleans'
    BY <1>42, Zenon DEF LoggedOut, Booleans
  <2> QED
    BY <1>42, <2>1 DEF LoggedOut, Booleans
<1>43. ASSUME NEW p \in Procs, GaiaDeadline(p) PROVE TypeInv'
  BY <1>43 DEF GaiaDeadline, Report, SetState
<1>44. CASE UNCHANGED vars
  BY <1>44 DEF vars
<1>45. QED
  BY <1>1, <1>2, <1>3, <1>4, <1>5, <1>6, <1>7, <1>8, <1>9, <1>10, <1>11, <1>12,
     <1>13, <1>14, <1>15, <1>16, <1>17, <1>18, <1>19, <1>20, <1>21, <1>22,
     <1>23, <1>24, <1>25, <1>26, <1>27, <1>28, <1>29, <1>30, <1>31, <1>32,
     <1>33, <1>34, <1>35, <1>36, <1>37, <1>38, <1>39, <1>40, <1>41, <1>42,
     <1>43, <1>44
     DEF Next, Main, Step, Environment

\* Every variable keeps its type; the refresh loop's counter stays within
\* qrMaxRefreshes (methods.go:259).
THEOREM TypeCorrect == Spec => []TypeOK
<1>1. TypeInv => TypeOK
  BY DEF TypeInv
<1> QED
  BY <1>1, TypeInit, TypeStep, PTL DEF Spec

(***************************************************************************)
(* What may be on disk. The properties are not inductive: a write happens  *)
(* after d.paired was read, so the invariant also says what a goroutine    *)
(* between the two still knows, and what auth is when PairSuccessful       *)
(* reaches the daemon. auth only ever goes up to "identity" again, never   *)
(* back to a bare token, and that is why a late write is a whole session.  *)
(***************************************************************************)
CompletionHasIdentity ==
    \A p \in Procs : pc[p] \in {"pairedStop", "pairedMark"} => LooksPaired(auth)

PairedHasPairing == paired => LooksPaired(auth) /\ grant \in {"live", "unpaired"}

Saving ==
    (\E p \in Procs : pc[p] \in Writing) \/ maint = "write" \/ main = "stopWrite"

SavingHasPairing == Saving => LooksPaired(auth) /\ grant # "never"

DiskHasPairing == disk # "none" => LooksPaired(disk) /\ grant # "never"

DownIsQuiet ==
    main = "down" => ~polling /\ maint = "off" /\ \A p \in Procs : pc[p] = "idle"

PersistInv ==
    /\ TypeInv
    /\ CompletionHasIdentity
    /\ PairedHasPairing
    /\ SavingHasPairing
    /\ DiskHasPairing
    /\ DownIsQuiet

\* The persistence invariant holds before the daemon first runs.
LEMMA PersistInit == Init => PersistInv
BY TypeInit
   DEF Init, PersistInv, CompletionHasIdentity, PairedHasPairing, SavingHasPairing,
       Saving, Writing, DiskHasPairing, DownIsQuiet

\* Every step preserves it: no interleaving of the check of d.paired and the
\* write that follows it breaks what the check established.
LEMMA PersistStep == PersistInv /\ [Next]_vars => PersistInv'
<1> SUFFICES ASSUME PersistInv, [Next]_vars PROVE PersistInv'
  OBVIOUS
<1> DEFINE Rest == /\ CompletionHasIdentity
                   /\ PairedHasPairing
                   /\ SavingHasPairing
                   /\ DiskHasPairing
                   /\ DownIsQuiet
<1>t. TypeInv'
  BY TypeStep DEF PersistInv
<1> SUFFICES Rest'
  BY <1>t DEF PersistInv
<1> USE <1>t, ProcsAssumption
<1> USE DEF PersistInv, TypeInv, TypeOK, CompletionHasIdentity, PairedHasPairing,
            SavingHasPairing, Saving, Writing, DiskHasPairing, DownIsQuiet, LooksPaired,
            At, Goto, procVars, mainVars, credVars, trustVars, libgmVars, worldVars
<1>1. CASE Start
  BY <1>1 DEF Start, SetState, LooksPaired
<1>2. CASE ConnectOK
  BY <1>2 DEF ConnectOK
<1>3. CASE ConnectFails
  BY <1>3 DEF ConnectFails, SetState
<1>4. CASE InitialSync
  BY <1>4 DEF InitialSync, SetState
<1>5. CASE Stop
  BY <1>5 DEF Stop
<1>6. CASE StopSave
  BY <1>6 DEF StopSave, ProcessEnds, FreshStatus, MayPersist
<1>7. CASE StopWrite
  BY <1>7 DEF StopWrite, ProcessEnds, FreshStatus, SaveSession
<1>8. CASE MaintenanceTick
  BY <1>8 DEF MaintenanceTick, MayPersist
<1>9. CASE MaintenanceWrite
  BY <1>9 DEF MaintenanceWrite, SaveSession
<1>10. CASE Crash
  BY <1>10 DEF Crash, ProcessEnds, FreshStatus
<1>11. CASE CookiesRotated
  BY <1>11 DEF CookiesRotated
<1>12. CASE ListenEvent
  BY <1>12 DEF ListenEvent, SetState
<1>13. ASSUME NEW p \in Procs, SaveCheck(p) PROVE Rest'
  BY <1>13 DEF SaveCheck, MayPersist
<1>14. ASSUME NEW p \in Procs, SaveWrite(p) PROVE Rest'
  BY <1>14 DEF SaveWrite, SaveSession
<1>15. ASSUME NEW p \in Procs, StopPairRefresh(p) PROVE Rest'
  BY <1>15 DEF StopPairRefresh
<1>16. ASSUME NEW p \in Procs, LoginOK(p) PROVE Rest'
  BY <1>16 DEF LoginOK, LooksPaired
<1>17. ASSUME NEW p \in Procs, LoginFails(p) PROVE Rest'
  BY <1>17 DEF LoginFails, Report, SetState
<1>18. ASSUME NEW p \in Procs, ArmLoop(p) PROVE Rest'
  BY <1>18 DEF ArmLoop
<1>19. ASSUME NEW p \in Procs, LoopCancelled(p) PROVE Rest'
  BY <1>19 DEF LoopCancelled, LoopEnds
<1>20. ASSUME NEW p \in Procs, LoopTick(p) PROVE Rest'
  BY <1>20 DEF LoopTick
<1>21. ASSUME NEW p \in Procs, LoopOvertaken(p) PROVE Rest'
  BY <1>21 DEF LoopOvertaken, LoopEnds
<1>22. ASSUME NEW p \in Procs, LoopRefreshed(p) PROVE Rest'
  BY <1>22 DEF LoopRefreshed, Overtaken, BudgetSpent
<1>23. ASSUME NEW p \in Procs, LoopFetchFails(p) PROVE Rest'
  BY <1>23 DEF LoopFetchFails, LoopEnds, SetState
<1>24. ASSUME NEW p \in Procs, LoopGivesUp(p) PROVE Rest'
  BY <1>24 DEF LoopGivesUp, LoopEnds, SetState
<1>25. ASSUME NEW p \in Procs, GaiaShow(p) PROVE Rest'
  BY <1>25 DEF GaiaShow
<1>26. ASSUME NEW p \in Procs, PairedMark(p) PROVE Rest'
  BY <1>26 DEF PairedMark
<1>27. ASSUME NEW p \in Procs, PairedState(p) PROVE Rest'
  BY <1>27 DEF PairedState, SetState
<1>28. ASSUME NEW p \in Procs, LogoutClear(p) PROVE Rest'
  BY <1>28 DEF LogoutClear, Cleared, ClearFails
<1>29. ASSUME NEW p \in Procs, LogoutState(p) PROVE Rest'
  BY <1>29 DEF LogoutState, Report, SetState
<1>30. ASSUME NEW p \in Procs, UnpairRevoke(p) PROVE Rest'
  BY <1>30 DEF UnpairRevoke
<1>31. ASSUME NEW p \in Procs, UnpairClear(p) PROVE Rest'
  BY <1>31 DEF UnpairClear, Cleared, ClearFails
<1>32. ASSUME NEW p \in Procs, UnpairState(p) PROVE Rest'
  BY <1>32 DEF UnpairState, Report, SetState
<1>33. ASSUME NEW p \in Procs, StartPairing(p) PROVE Rest'
  BY <1>33 DEF StartPairing, Call
<1>34. ASSUME NEW p \in Procs, GaiaPairing(p) PROVE Rest'
  BY <1>34 DEF GaiaPairing, Call
<1>35. ASSUME NEW p \in Procs, PairFromBrowserFails(p) PROVE Rest'
  BY <1>35 DEF PairFromBrowserFails, Call
<1>36. ASSUME NEW p \in Procs, Unpair(p) PROVE Rest'
  BY <1>36 DEF Unpair, Call
<1>37. ASSUME NEW p \in Procs, GaiaSignIn(p) PROVE Rest'
  BY <1>37 DEF GaiaSignIn
<1>38. ASSUME NEW p \in Procs, GaiaConfirmed(p) PROVE Rest'
  BY <1>38 DEF GaiaConfirmed, PairingCompletes
<1>39. ASSUME NEW p \in Procs, GaiaFails(p) PROVE Rest'
  BY <1>39 DEF GaiaFails, Report, SetState
<1>40. ASSUME NEW p \in Procs, PhoneScans(p) PROVE Rest'
  BY <1>40 DEF PhoneScans, PairingCompletes
<1>41. ASSUME NEW p \in Procs, CredentialsRefreshed(p) PROVE Rest'
  BY <1>41 DEF CredentialsRefreshed
<1>42. ASSUME NEW p \in Procs, LoggedOut(p) PROVE Rest'
  BY <1>42 DEF LoggedOut
<1>43. ASSUME NEW p \in Procs, GaiaDeadline(p) PROVE Rest'
  BY <1>43 DEF GaiaDeadline, Report, SetState
<1>44. CASE UNCHANGED vars
  BY <1>44 DEF vars
<1>45. QED
  BY <1>1, <1>2, <1>3, <1>4, <1>5, <1>6, <1>7, <1>8, <1>9, <1>10, <1>11, <1>12,
     <1>13, <1>14, <1>15, <1>16, <1>17, <1>18, <1>19, <1>20, <1>21, <1>22,
     <1>23, <1>24, <1>25, <1>26, <1>27, <1>28, <1>29, <1>30, <1>31, <1>32,
     <1>33, <1>34, <1>35, <1>36, <1>37, <1>38, <1>39, <1>40, <1>41, <1>42,
     <1>43, <1>44
     DEF Next, Main, Step, Environment

\* Hence it is an invariant, from which the theorems below follow.
LEMMA PersistInvariant == Spec => []PersistInv
BY PersistInit, PersistStep, PTL DEF Spec

\* No session file exists on a machine on which no pairing ever completed, for
\* any number of goroutines, calls, stops, crashes and failed writes.
THEOREM SessionNeedsPairing == Spec => []NothingSavedBeforePairing
<1>1. PersistInv => NothingSavedBeforePairing
  BY DEF PersistInv, DiskHasPairing, NothingSavedBeforePairing
<1> QED
  BY <1>1, PersistInvariant, PTL

\* Whatever is on disk, LoadSession takes it for a paired session.
THEOREM SavedSessionIsWhole == Spec => []SavedSessionLoads
<1>1. PersistInv => SavedSessionLoads
  BY DEF PersistInv, DiskHasPairing, SavedSessionLoads
<1> QED
  BY <1>1, PersistInvariant, PTL

\* Once signed out, the only saves that can still write are those whose check of
\* d.paired came first.
THEOREM SignOutStopsSaves == Spec => NoSaveBeginsLoggedOut
<1>1. PersistInv /\ [Next]_vars
          => [(grant \in {"never", "loggedOut"}) => SavesInFlight' \subseteq SavesInFlight]_vars
  <2> SUFFICES ASSUME PersistInv, Next, grant \in {"never", "loggedOut"}
               PROVE  SavesInFlight' \subseteq SavesInFlight
    OBVIOUS
  <2>1. ~paired
    BY DEF PersistInv, PairedHasPairing
  <2> QED
    <3> USE <2>1 DEF PersistInv, TypeInv, TypeOK, SavesInFlight, Writing, MayPersist, At,
            Goto, procVars, mainVars, worldVars
    <3>1. CASE Start
      BY <3>1 DEF Start, SetState, LooksPaired
    <3>2. CASE ConnectOK
      BY <3>2 DEF ConnectOK
    <3>3. CASE ConnectFails
      BY <3>3 DEF ConnectFails, SetState
    <3>4. CASE InitialSync
      BY <3>4 DEF InitialSync, SetState
    <3>5. CASE Stop
      BY <3>5 DEF Stop
    <3>6. CASE StopSave
      BY <3>6 DEF StopSave, ProcessEnds, FreshStatus, MayPersist
    <3>7. CASE StopWrite
      BY <3>7 DEF StopWrite, ProcessEnds, FreshStatus, SaveSession
    <3>8. CASE MaintenanceTick
      BY <3>8 DEF MaintenanceTick, MayPersist
    <3>9. CASE MaintenanceWrite
      BY <3>9 DEF MaintenanceWrite, SaveSession
    <3>10. CASE Crash
      BY <3>10 DEF Crash, ProcessEnds, FreshStatus
    <3>11. CASE CookiesRotated
      BY <3>11 DEF CookiesRotated
    <3>12. CASE ListenEvent
      BY <3>12 DEF ListenEvent, SetState
    <3>13. ASSUME NEW p \in Procs, SaveCheck(p) PROVE SavesInFlight' \subseteq SavesInFlight
      BY <3>13 DEF SaveCheck, MayPersist
    <3>14. ASSUME NEW p \in Procs, SaveWrite(p) PROVE SavesInFlight' \subseteq SavesInFlight
      BY <3>14 DEF SaveWrite, SaveSession
    <3>15. ASSUME NEW p \in Procs, StopPairRefresh(p) PROVE SavesInFlight' \subseteq SavesInFlight
      BY <3>15 DEF StopPairRefresh
    <3>16. ASSUME NEW p \in Procs, LoginOK(p) PROVE SavesInFlight' \subseteq SavesInFlight
      BY <3>16 DEF LoginOK, LooksPaired
    <3>17. ASSUME NEW p \in Procs, LoginFails(p) PROVE SavesInFlight' \subseteq SavesInFlight
      BY <3>17 DEF LoginFails, Report, SetState
    <3>18. ASSUME NEW p \in Procs, ArmLoop(p) PROVE SavesInFlight' \subseteq SavesInFlight
      BY <3>18 DEF ArmLoop
    <3>19. ASSUME NEW p \in Procs, LoopCancelled(p) PROVE SavesInFlight' \subseteq SavesInFlight
      BY <3>19 DEF LoopCancelled, LoopEnds
    <3>20. ASSUME NEW p \in Procs, LoopTick(p) PROVE SavesInFlight' \subseteq SavesInFlight
      BY <3>20 DEF LoopTick
    <3>21. ASSUME NEW p \in Procs, LoopOvertaken(p) PROVE SavesInFlight' \subseteq SavesInFlight
      BY <3>21 DEF LoopOvertaken, LoopEnds
    <3>22. ASSUME NEW p \in Procs, LoopRefreshed(p) PROVE SavesInFlight' \subseteq SavesInFlight
      BY <3>22 DEF LoopRefreshed, Overtaken, BudgetSpent
    <3>23. ASSUME NEW p \in Procs, LoopFetchFails(p) PROVE SavesInFlight' \subseteq SavesInFlight
      BY <3>23 DEF LoopFetchFails, LoopEnds, SetState
    <3>24. ASSUME NEW p \in Procs, LoopGivesUp(p) PROVE SavesInFlight' \subseteq SavesInFlight
      BY <3>24 DEF LoopGivesUp, LoopEnds, SetState
    <3>25. ASSUME NEW p \in Procs, GaiaShow(p) PROVE SavesInFlight' \subseteq SavesInFlight
      BY <3>25 DEF GaiaShow
    <3>26. ASSUME NEW p \in Procs, PairedMark(p) PROVE SavesInFlight' \subseteq SavesInFlight
      BY <3>26 DEF PairedMark
    <3>27. ASSUME NEW p \in Procs, PairedState(p) PROVE SavesInFlight' \subseteq SavesInFlight
      BY <3>27 DEF PairedState, SetState
    <3>28. ASSUME NEW p \in Procs, LogoutClear(p) PROVE SavesInFlight' \subseteq SavesInFlight
      BY <3>28 DEF LogoutClear, Cleared, ClearFails
    <3>29. ASSUME NEW p \in Procs, LogoutState(p) PROVE SavesInFlight' \subseteq SavesInFlight
      BY <3>29 DEF LogoutState, Report, SetState
    <3>30. ASSUME NEW p \in Procs, UnpairRevoke(p) PROVE SavesInFlight' \subseteq SavesInFlight
      BY <3>30 DEF UnpairRevoke
    <3>31. ASSUME NEW p \in Procs, UnpairClear(p) PROVE SavesInFlight' \subseteq SavesInFlight
      BY <3>31 DEF UnpairClear, Cleared, ClearFails
    <3>32. ASSUME NEW p \in Procs, UnpairState(p) PROVE SavesInFlight' \subseteq SavesInFlight
      BY <3>32 DEF UnpairState, Report, SetState
    <3>33. ASSUME NEW p \in Procs, StartPairing(p) PROVE SavesInFlight' \subseteq SavesInFlight
      BY <3>33 DEF StartPairing, Call
    <3>34. ASSUME NEW p \in Procs, GaiaPairing(p) PROVE SavesInFlight' \subseteq SavesInFlight
      BY <3>34 DEF GaiaPairing, Call
    <3>35. ASSUME NEW p \in Procs, PairFromBrowserFails(p) PROVE SavesInFlight' \subseteq SavesInFlight
      BY <3>35 DEF PairFromBrowserFails, Call
    <3>36. ASSUME NEW p \in Procs, Unpair(p) PROVE SavesInFlight' \subseteq SavesInFlight
      BY <3>36 DEF Unpair, Call
    <3>37. ASSUME NEW p \in Procs, GaiaSignIn(p) PROVE SavesInFlight' \subseteq SavesInFlight
      BY <3>37 DEF GaiaSignIn
    <3>38. ASSUME NEW p \in Procs, GaiaConfirmed(p) PROVE SavesInFlight' \subseteq SavesInFlight
      BY <3>38 DEF GaiaConfirmed, PairingCompletes
    <3>39. ASSUME NEW p \in Procs, GaiaFails(p) PROVE SavesInFlight' \subseteq SavesInFlight
      BY <3>39 DEF GaiaFails, Report, SetState
    <3>40. ASSUME NEW p \in Procs, PhoneScans(p) PROVE SavesInFlight' \subseteq SavesInFlight
      BY <3>40 DEF PhoneScans, PairingCompletes
    <3>41. ASSUME NEW p \in Procs, CredentialsRefreshed(p) PROVE SavesInFlight' \subseteq SavesInFlight
      BY <3>41 DEF CredentialsRefreshed
    <3>42. ASSUME NEW p \in Procs, LoggedOut(p) PROVE SavesInFlight' \subseteq SavesInFlight
      BY <3>42 DEF LoggedOut
    <3>43. ASSUME NEW p \in Procs, GaiaDeadline(p) PROVE SavesInFlight' \subseteq SavesInFlight
      BY <3>43 DEF GaiaDeadline, Report, SetState
    <3>44. CASE UNCHANGED vars
      BY <3>44 DEF vars
    <3> QED
      BY <3>1, <3>2, <3>3, <3>4, <3>5, <3>6, <3>7, <3>8, <3>9, <3>10, <3>11, <3>12,
         <3>13, <3>14, <3>15, <3>16, <3>17, <3>18, <3>19, <3>20, <3>21, <3>22,
         <3>23, <3>24, <3>25, <3>26, <3>27, <3>28, <3>29, <3>30, <3>31, <3>32,
         <3>33, <3>34, <3>35, <3>36, <3>37, <3>38, <3>39, <3>40, <3>41, <3>42,
         <3>43, <3>44
         DEF Next, Main, Step, Environment
<1> QED
  BY <1>1, PersistInvariant, PTL DEF Spec, NoSaveBeginsLoggedOut

(***************************************************************************)
(* The QR code on the status.                                              *)
(***************************************************************************)
\* setState leaves a code on the status only when the new state is pairing
\* (daemon.go:249-251).
LEMMA SetStateDropsCode ==
    ASSUME NEW s, SetState(s)
    PROVE  status'.state = s /\ (s # "pairing" => ~status'.qr)
BY DEF SetState

\* Every step keeps the QR code beside pairing or its error.
LEMMA CodeStep == TypeInv /\ CodeOnlyWhilePairing /\ [Next]_vars => CodeOnlyWhilePairing'
<1> SUFFICES ASSUME TypeInv, CodeOnlyWhilePairing, [Next]_vars
             PROVE  CodeOnlyWhilePairing'
  OBVIOUS
<1> USE DEF TypeInv, TypeOK, Status, CodeOnlyWhilePairing, worldVars
<1>1. CASE Start
  <2>1. SetState("connecting") \/ SetState("unpaired")
    BY <1>1, Zenon DEF Start
  <2> QED
    BY <2>1, SetStateDropsCode
<1>2. CASE ConnectOK
  BY <1>2 DEF ConnectOK
<1>3. CASE ConnectFails
  BY <1>3 DEF ConnectFails, SetState
<1>4. CASE InitialSync
  BY <1>4 DEF InitialSync, SetState
<1>5. CASE Stop
  BY <1>5 DEF Stop
<1>6. CASE StopSave
  BY <1>6 DEF StopSave, ProcessEnds, FreshStatus, MayPersist
<1>7. CASE StopWrite
  BY <1>7 DEF StopWrite, ProcessEnds, FreshStatus, SaveSession
<1>8. CASE MaintenanceTick
  BY <1>8 DEF MaintenanceTick, MayPersist
<1>9. CASE MaintenanceWrite
  BY <1>9 DEF MaintenanceWrite, SaveSession
<1>10. CASE Crash
  BY <1>10 DEF Crash, ProcessEnds, FreshStatus
<1>11. CASE CookiesRotated
  BY <1>11 DEF CookiesRotated
<1>12. CASE ListenEvent
  <2>1. PICK s \in {"disconnected", "connected", "error"} : SetState(s)
    BY <1>12 DEF ListenEvent
  <2> QED
    BY <2>1, SetStateDropsCode
<1>13. ASSUME NEW p \in Procs, SaveCheck(p) PROVE CodeOnlyWhilePairing'
  BY <1>13 DEF SaveCheck, MayPersist
<1>14. ASSUME NEW p \in Procs, SaveWrite(p) PROVE CodeOnlyWhilePairing'
  BY <1>14 DEF SaveWrite, SaveSession
<1>15. ASSUME NEW p \in Procs, StopPairRefresh(p) PROVE CodeOnlyWhilePairing'
  BY <1>15 DEF StopPairRefresh
<1>16. ASSUME NEW p \in Procs, LoginOK(p) PROVE CodeOnlyWhilePairing'
  BY <1>16 DEF LoginOK, LooksPaired
<1>17. ASSUME NEW p \in Procs, LoginFails(p) PROVE CodeOnlyWhilePairing'
  BY <1>17 DEF LoginFails, Report, SetState
<1>18. ASSUME NEW p \in Procs, ArmLoop(p) PROVE CodeOnlyWhilePairing'
  BY <1>18 DEF ArmLoop
<1>19. ASSUME NEW p \in Procs, LoopCancelled(p) PROVE CodeOnlyWhilePairing'
  BY <1>19 DEF LoopCancelled, LoopEnds
<1>20. ASSUME NEW p \in Procs, LoopTick(p) PROVE CodeOnlyWhilePairing'
  BY <1>20 DEF LoopTick
<1>21. ASSUME NEW p \in Procs, LoopOvertaken(p) PROVE CodeOnlyWhilePairing'
  BY <1>21 DEF LoopOvertaken, LoopEnds
<1>22. ASSUME NEW p \in Procs, LoopRefreshed(p) PROVE CodeOnlyWhilePairing'
  BY <1>22 DEF LoopRefreshed, Overtaken, BudgetSpent
<1>23. ASSUME NEW p \in Procs, LoopFetchFails(p) PROVE CodeOnlyWhilePairing'
  BY <1>23 DEF LoopFetchFails, LoopEnds, SetState
<1>24. ASSUME NEW p \in Procs, LoopGivesUp(p) PROVE CodeOnlyWhilePairing'
  BY <1>24 DEF LoopGivesUp, LoopEnds, SetState
<1>25. ASSUME NEW p \in Procs, GaiaShow(p) PROVE CodeOnlyWhilePairing'
  BY <1>25 DEF GaiaShow
<1>26. ASSUME NEW p \in Procs, PairedMark(p) PROVE CodeOnlyWhilePairing'
  BY <1>26 DEF PairedMark
<1>27. ASSUME NEW p \in Procs, PairedState(p) PROVE CodeOnlyWhilePairing'
  BY <1>27 DEF PairedState, SetState
<1>28. ASSUME NEW p \in Procs, LogoutClear(p) PROVE CodeOnlyWhilePairing'
  BY <1>28 DEF LogoutClear, Cleared, ClearFails
<1>29. ASSUME NEW p \in Procs, LogoutState(p) PROVE CodeOnlyWhilePairing'
  BY <1>29 DEF LogoutState, Report, SetState
<1>30. ASSUME NEW p \in Procs, UnpairRevoke(p) PROVE CodeOnlyWhilePairing'
  BY <1>30 DEF UnpairRevoke
<1>31. ASSUME NEW p \in Procs, UnpairClear(p) PROVE CodeOnlyWhilePairing'
  BY <1>31 DEF UnpairClear, Cleared, ClearFails
<1>32. ASSUME NEW p \in Procs, UnpairState(p) PROVE CodeOnlyWhilePairing'
  BY <1>32 DEF UnpairState, Report, SetState
<1>33. ASSUME NEW p \in Procs, StartPairing(p) PROVE CodeOnlyWhilePairing'
  BY <1>33 DEF StartPairing, Call
<1>34. ASSUME NEW p \in Procs, GaiaPairing(p) PROVE CodeOnlyWhilePairing'
  BY <1>34 DEF GaiaPairing, Call
<1>35. ASSUME NEW p \in Procs, PairFromBrowserFails(p) PROVE CodeOnlyWhilePairing'
  BY <1>35 DEF PairFromBrowserFails, Call
<1>36. ASSUME NEW p \in Procs, Unpair(p) PROVE CodeOnlyWhilePairing'
  BY <1>36 DEF Unpair, Call
<1>37. ASSUME NEW p \in Procs, GaiaSignIn(p) PROVE CodeOnlyWhilePairing'
  BY <1>37 DEF GaiaSignIn
<1>38. ASSUME NEW p \in Procs, GaiaConfirmed(p) PROVE CodeOnlyWhilePairing'
  BY <1>38 DEF GaiaConfirmed, PairingCompletes
<1>39. ASSUME NEW p \in Procs, GaiaFails(p) PROVE CodeOnlyWhilePairing'
  BY <1>39 DEF GaiaFails, Report, SetState
<1>40. ASSUME NEW p \in Procs, PhoneScans(p) PROVE CodeOnlyWhilePairing'
  BY <1>40 DEF PhoneScans, PairingCompletes
<1>41. ASSUME NEW p \in Procs, CredentialsRefreshed(p) PROVE CodeOnlyWhilePairing'
  BY <1>41 DEF CredentialsRefreshed
<1>42. ASSUME NEW p \in Procs, LoggedOut(p) PROVE CodeOnlyWhilePairing'
  BY <1>42 DEF LoggedOut
<1>43. ASSUME NEW p \in Procs, GaiaDeadline(p) PROVE CodeOnlyWhilePairing'
  BY <1>43 DEF GaiaDeadline, Report, SetState
<1>44. CASE UNCHANGED vars
  BY <1>44 DEF vars
<1>45. QED
  BY <1>1, <1>2, <1>3, <1>4, <1>5, <1>6, <1>7, <1>8, <1>9, <1>10, <1>11, <1>12,
     <1>13, <1>14, <1>15, <1>16, <1>17, <1>18, <1>19, <1>20, <1>21, <1>22,
     <1>23, <1>24, <1>25, <1>26, <1>27, <1>28, <1>29, <1>30, <1>31, <1>32,
     <1>33, <1>34, <1>35, <1>36, <1>37, <1>38, <1>39, <1>40, <1>41, <1>42,
     <1>43, <1>44
     DEF Next, Main, Step, Environment

\* A QR code is shown only while pairing or beside a pairing error, whatever
\* refresh loops, handlers and events are interleaved.
THEOREM CodeBelongsToPairing == Spec => []CodeOnlyWhilePairing
<1>1. Init => CodeOnlyWhilePairing
  BY DEF Init, FreshStatus, CodeOnlyWhilePairing
<1>2. Spec => []TypeInv
  BY TypeInit, TypeStep, PTL DEF Spec
<1> QED
  BY <1>1, <1>2, CodeStep, PTL DEF Spec
=============================================================================
