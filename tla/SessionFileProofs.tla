-------------------------- MODULE SessionFileProofs --------------------------
(***************************************************************************)
(* For any savers, inodes and versions, and savers that get in each        *)
(* other's way as they do in the daemon: session.json is torn only by      *)
(* saves that overlapped, and is an atomic register but for those.         *)
(***************************************************************************)
EXTENDS SessionFile, TLAPS

\* A save that has met no other is alone inside SaveSession.
Apart == \A v, w \in Writers : v \in Inside /\ w \in Inside /\ w \notin met => v = w

\* Only between opening and closing does a saver hold a file.
HoldsFile == \A w \in Writers : (fd[w] # NoInode) <=> (pc[w] \in {"opened", "encoded"})

\* What savers may rename is no newer than memory; what a dead process left may be.
TmpNotAhead == Inside # {} => mem > 0 /\ (tmp # NoInode => content[tmp] <= mem)

\* The session is never the temporary file and never newer than memory.
SessionNotAhead == session # NoInode => session # tmp /\ content[session] <= mem

\* A session that is not the work of overlapping saves is whole and out of every
\* saver's reach.
SessionWhole ==
    by = "lone" /\ session # NoInode =>
        content[session] > 0 /\ \A w \in Writers : fd[w] # session

\* What a lone saver is about to rename is a whole version, no older than the stored one.
LoneSaverOwnsTmp ==
    \A w \in Writers : w \notin met =>
        /\ pc[w] \in {"opened", "encoded"} => tmp # NoInode /\ fd[w] = tmp
        /\ pc[w] \in {"encoded", "closed"} =>
              tmp # NoInode /\ content[tmp] > 0 /\ Loaded <= content[tmp]

FileInv ==
    /\ TypeOK /\ Apart /\ HoldsFile /\ TmpNotAhead
    /\ SessionNotAhead /\ SessionWhole /\ LoneSaverOwnsTmp

\* Type correctness.
THEOREM TypeCorrect == Spec => []TypeOK
<1>1. Init => TypeOK
  BY InodesAssumption, MaxVersionAssumption DEF Init, TypeOK, Unreadable
<1>2. TypeOK /\ [Next]_vars => TypeOK'
  <2> SUFFICES ASSUME TypeOK, [Next]_vars PROVE TypeOK'
    OBVIOUS
  <2> USE MaxVersionAssumption DEF TypeOK, Unreadable, Loaded, history, Inside
  <2>1. CASE Refresh \/ Clear \/ Restart
    BY <2>1 DEF Refresh, Clear, Restart
  <2>2. ASSUME NEW w \in Writers, Open(w) \/ Encode(w) \/ Close(w) PROVE TypeOK'
    BY <2>2 DEF Open, Encode, Close
  <2>3. ASSUME NEW w \in Writers, Fail(w) \/ RemoveTmp(w) \/ Rename(w) \/ RenameFails(w)
        PROVE  TypeOK'
    BY <2>3 DEF Fail, RemoveTmp, Rename, RenameFails
  <2>4. CASE UNCHANGED vars
    BY <2>4 DEF vars
  <2> QED
    BY <2>1, <2>2, <2>3, <2>4 DEF Next, Step
<1> QED
  BY <1>1, <1>2, PTL DEF Spec

\* Nothing is open or named at the start.
LEMMA FileInit == Init => FileInv
BY InodesAssumption, MaxVersionAssumption
   DEF Init, FileInv, TypeOK, Apart, HoldsFile, TmpNotAhead, SessionNotAhead, SessionWhole,
       LoneSaverOwnsTmp, Unreadable, Inside

\* Every step of a saver, of memory, of ClearSession and of a restart keeps the invariant.
LEMMA FileStep == FileInv /\ [Next]_vars => FileInv'
<1> SUFFICES ASSUME FileInv, [Next]_vars PROVE FileInv'
  OBVIOUS
<1> USE InodesAssumption, MaxVersionAssumption
<1> USE DEF FileInv, TypeOK, Apart, HoldsFile, TmpNotAhead, SessionNotAhead, SessionWhole,
            LoneSaverOwnsTmp, Unreadable, Loaded, InUse, Inside, history
<1>1. CASE Refresh
  BY <1>1 DEF Refresh
<1>2. CASE Clear
  BY <1>2 DEF Clear
<1>3. CASE Restart
  BY <1>3 DEF Restart
<1>4. ASSUME NEW w \in Writers, Open(w) PROVE FileInv'
  BY <1>4 DEF Open
<1>5. ASSUME NEW w \in Writers, Encode(w) PROVE FileInv'
  BY <1>5 DEF Encode
<1>6. ASSUME NEW w \in Writers, Close(w) PROVE FileInv'
  BY <1>6 DEF Close
<1>7. ASSUME NEW w \in Writers, Fail(w) PROVE FileInv'
  BY <1>7 DEF Fail
<1>8. ASSUME NEW w \in Writers, RemoveTmp(w) PROVE FileInv'
  BY <1>8 DEF RemoveTmp
<1>9. ASSUME NEW w \in Writers, Rename(w) PROVE FileInv'
  BY <1>9 DEF Rename
<1>10. ASSUME NEW w \in Writers, RenameFails(w) PROVE FileInv'
  BY <1>10 DEF RenameFails
<1>11. CASE UNCHANGED vars
  BY <1>11 DEF vars
<1> QED
  BY <1>1, <1>2, <1>3, <1>4, <1>5, <1>6, <1>7, <1>8, <1>9, <1>10, <1>11 DEF Next, Step

LEMMA FileInvariant == Spec => []FileInv
BY FileInit, FileStep, PTL DEF Spec

\* The session a restart finds was never cut short by a save that failed or was
\* interrupted: only saves that overlapped tear it, until the next one that runs alone
\* (store.go:101).
THEOREM TornOnlyByOverlapAlways == Spec => []TornOnlyByOverlap
<1>1. FileInv => TornOnlyByOverlap
  BY DEF FileInv, SessionWhole, TornOnlyByOverlap, NeverTorn, Unreadable, TypeOK
<1> QED
  BY <1>1, FileInvariant, PTL

\* SessionFile implements AtomicSession: only the rename of a save that ran alone commits,
\* and what it installs is a version memory held while the save ran, no older than the one
\* before; overlapping saves store nothing newer than memory.
THEOREM SavesAreAtomicButOverlapping == Spec => AtomicSpec
<1>1. Init => Atomic!Init
  BY DEF Init, Atomic!Init, Loaded
<1>2. FileInv /\ FileInv' /\ [Next]_vars => [Atomic!Next]_Atomic!vars
  <2> SUFFICES ASSUME FileInv, FileInv', [Next]_vars PROVE [Atomic!Next]_Atomic!vars
    OBVIOUS
  <2> USE InodesAssumption
  <2> USE DEF FileInv, TypeOK, Apart, HoldsFile, TmpNotAhead, SessionNotAhead, SessionWhole,
              LoneSaverOwnsTmp, Loaded, InUse, Unreadable, Inside, history,
              Atomic!Next, Atomic!vars
  <2>1. CASE Refresh
    BY <2>1 DEF Refresh, Atomic!Refresh
  <2>2. CASE Clear
    BY <2>2 DEF Clear, Atomic!Clear
  <2>3. CASE Restart
    BY <2>3 DEF Restart, Atomic!Restart
  <2>4. ASSUME NEW w \in Writers, Open(w) PROVE UNCHANGED Atomic!vars
    BY <2>4 DEF Open
  <2>5. ASSUME NEW w \in Writers, Encode(w) \/ Fail(w), by = "lone" PROVE UNCHANGED Atomic!vars
    BY <2>5 DEF Encode, Fail
  <2>6. ASSUME NEW w \in Writers, Encode(w) \/ Fail(w), by = "overlapping" PROVE Atomic!Spoil
    BY <2>6 DEF Encode, Fail, Atomic!Spoil
  <2>7. ASSUME NEW w \in Writers, Close(w) PROVE UNCHANGED Atomic!vars
    BY <2>7 DEF Close
  <2>8. ASSUME NEW w \in Writers, RemoveTmp(w) \/ RenameFails(w) PROVE UNCHANGED Atomic!vars
    BY <2>8 DEF RemoveTmp, RenameFails
  <2>9. ASSUME NEW w \in Writers, Rename(w), w \notin met PROVE Atomic!Commit
    BY <2>9 DEF Rename, Atomic!Commit
  <2>10. ASSUME NEW w \in Writers, Rename(w), w \in met PROVE Atomic!Spoil
    BY <2>10 DEF Rename, Atomic!Spoil
  <2>11. CASE UNCHANGED vars
    BY <2>11 DEF vars
  <2> QED
    BY <2>1, <2>2, <2>3, <2>4, <2>5, <2>6, <2>7, <2>8, <2>9, <2>10, <2>11 DEF Next, Step
<1> QED
  BY <1>1, <1>2, FileInvariant, PTL DEF Spec, AtomicSpec, Atomic!Spec
=============================================================================
