----------------------------- MODULE SessionFile -----------------------------
(***************************************************************************)
(* session.json at the level of the file system: SaveSession truncates or  *)
(* creates session.json.tmp, encodes into it, closes it and renames it     *)
(* over session.json; ClearSession removes the file; LoadSession reads it  *)
(* at start. Every saver uses the same temporary name. File contents are   *)
(* versions of the credentials, Unreadable for an empty or cut file. Two   *)
(* history variables record which saves shared their time inside           *)
(* SaveSession with another; no guard reads them.                          *)
(***************************************************************************)
EXTENDS Naturals

CONSTANTS
    Writers,      \* goroutines that may be inside SaveSession
    Inodes,
    NoInode,
    MaxVersion    \* bound: versions the credentials go through

ASSUME InodesAssumption == NoInode \notin Inodes
ASSUME MaxVersionAssumption == MaxVersion \in Nat \ {0}

VARIABLES
    session,   \* the inode session.json names, or NoInode
    tmp,       \* the inode session.json.tmp names, or NoInode
    content,   \* what each inode holds
    pc,        \* where each writer is in SaveSession
    fd,        \* the file each writer has open
    mem,       \* the version of d.auth, 0 until a pairing completes
    met,       \* history: writers whose save has met another inside SaveSession
    by         \* history: the kind of save whose work session.json is

history == <<met, by>>
vars == <<session, tmp, content, pc, fd, mem, history>>

Unreadable == 0

TypeOK ==
    /\ session \in Inodes \cup {NoInode}
    /\ tmp \in Inodes \cup {NoInode}
    /\ content \in [Inodes -> 0..MaxVersion]
    /\ pc \in [Writers -> {"idle", "opened", "encoded", "closed", "failed"}]
    /\ fd \in [Writers -> Inodes \cup {NoInode}]
    /\ mem \in 0..MaxVersion
    /\ met \subseteq Writers
    /\ by \in {"lone", "overlapping"}

Init ==
    /\ session = NoInode
    /\ tmp = NoInode
    /\ content = [i \in Inodes |-> Unreadable]
    /\ pc = [w \in Writers |-> "idle"]
    /\ fd = [w \in Writers |-> NoInode]
    /\ mem = 0
    /\ met = {}
    /\ by = "lone"

Inside == {w \in Writers : pc[w] # "idle"}

InUse(i) == i \in {session, tmp} \/ \E w \in Writers : fd[w] = i

\* Pairing, token and cookie refreshes change the credentials in memory.
Refresh ==
    /\ mem < MaxVersion
    /\ mem' = mem + 1
    /\ UNCHANGED <<session, tmp, content, pc, fd, history>>

\* OpenFile with O_CREATE and O_TRUNC: an existing tmp is cut to nothing, also
\* under the feet of a writer that has it open. Only a paired daemon saves.
Open(w) ==
    /\ pc[w] = "idle" /\ mem > 0
    /\ \E i \in Inodes :
          /\ IF tmp = NoInode THEN ~InUse(i) ELSE i = tmp
          /\ tmp' = i
          /\ content' = [content EXCEPT ![i] = Unreadable]
          /\ fd' = [fd EXCEPT ![w] = i]
    /\ pc' = [pc EXCEPT ![w] = "opened"]
    /\ met' = IF Inside = {} THEN met \ {w} ELSE met \cup Inside \cup {w}
    /\ UNCHANGED <<session, mem, by>>

\* Mutant: what is encoded is a copy taken before the last refresh.
EncodeCopy(w) ==
    /\ pc[w] = "opened"
    /\ content' = [content EXCEPT ![fd[w]] = IF mem = 1 THEN 1 ELSE mem - 1]
    /\ pc' = [pc EXCEPT ![w] = "encoded"]
    /\ UNCHANGED <<session, tmp, fd, mem, history>>

\* Encode writes the credentials as they are now, in one write.
Encode(w) ==
    /\ pc[w] = "opened"
    /\ content' = [content EXCEPT ![fd[w]] = mem]
    /\ pc' = [pc EXCEPT ![w] = "encoded"]
    /\ UNCHANGED <<session, tmp, fd, mem, history>>

Close(w) ==
    /\ pc[w] = "encoded"
    /\ fd' = [fd EXCEPT ![w] = NoInode]
    /\ pc' = [pc EXCEPT ![w] = "closed"]
    /\ UNCHANGED <<session, tmp, content, mem, history>>

\* Mutant: the errors of Encode and Close are not looked at.
FailUnseen(w) ==
    /\ pc[w] \in {"opened", "encoded"}
    /\ content' = [content EXCEPT ![fd[w]] = Unreadable]
    /\ fd' = [fd EXCEPT ![w] = NoInode]
    /\ pc' = [pc EXCEPT ![w] = "closed"]
    /\ UNCHANGED <<session, tmp, mem, history>>

\* Encode or Close returns an error, a cut file behind it.
Fail(w) ==
    /\ pc[w] \in {"opened", "encoded"}
    /\ content' = [content EXCEPT ![fd[w]] = Unreadable]
    /\ fd' = [fd EXCEPT ![w] = NoInode]
    /\ pc' = [pc EXCEPT ![w] = "failed"]
    /\ UNCHANGED <<session, tmp, mem, history>>

RemoveTmp(w) ==
    /\ pc[w] = "failed"
    /\ tmp' = NoInode
    /\ pc' = [pc EXCEPT ![w] = "idle"]
    /\ UNCHANGED <<session, content, fd, mem, history>>

\* os.Rename: whatever carries the temporary name becomes the session.
Rename(w) ==
    /\ pc[w] = "closed" /\ tmp # NoInode
    /\ session' = tmp
    /\ tmp' = NoInode
    /\ pc' = [pc EXCEPT ![w] = "idle"]
    /\ by' = IF w \in met THEN "overlapping" ELSE "lone"
    /\ UNCHANGED <<content, fd, mem, met>>

\* It fails when another writer took the file away, or for reasons of the disk,
\* and then leaves the temporary file behind.
RenameFails(w) ==
    /\ pc[w] = "closed"
    /\ pc' = [pc EXCEPT ![w] = "idle"]
    /\ UNCHANGED <<session, tmp, content, fd, mem, history>>

\* ClearSession, from Unpair or GaiaLoggedOut, beside any writer.
Clear ==
    /\ session # NoInode
    /\ session' = NoInode
    /\ UNCHANGED <<tmp, content, pc, fd, mem, history>>

\* LoadSession: a missing or unreadable file gives fresh credentials.
Loaded == IF session = NoInode THEN 0 ELSE content[session]

\* The process ends at any point and the next one loads the session. The
\* temporary file stays behind.
Restart ==
    /\ pc' = [w \in Writers |-> "idle"]
    /\ fd' = [w \in Writers |-> NoInode]
    /\ mem' = Loaded
    /\ UNCHANGED <<session, tmp, content, history>>

Step(w) ==
    \/ Open(w) \/ Encode(w) \/ Close(w) \/ Rename(w)
    \/ Fail(w) \/ RemoveTmp(w) \/ RenameFails(w)

Next == Refresh \/ Clear \/ Restart \/ \E w \in Writers : Step(w)

Spec == Init /\ [][Next]_vars

-----------------------------------------------------------------------------
\* session.json, when it exists, is always a whole session: LoadSession never
\* falls back to pairing because a save was cut short or overtaken
\* (store.go:101, "persists auth data atomically").
NeverTorn == session # NoInode => content[session] # Unreadable

\* What holds of the code: a session is torn only while it is the work of a save
\* that met another inside SaveSession. Failed and interrupted saves never tear it,
\* and the next save that runs alone makes it whole, whatever was left behind.
TornOnlyByOverlap == by = "lone" => NeverTorn

\* The file is an atomic register but for those saves: see AtomicSession.
Atomic == INSTANCE AtomicSession WITH stored <- Loaded
AtomicSpec == Atomic!Spec
=============================================================================
