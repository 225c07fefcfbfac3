---------------------------- MODULE AtomicSession ----------------------------
(***************************************************************************)
(* What store.Paths promises of session.json, "persists auth data          *)
(* atomically", and the one way it is broken. The stored session is absent *)
(* or one whole version of the credentials, a save only moves it forward   *)
(* to a version memory has reached, and a restart resumes exactly what is  *)
(* stored. Saves that overlap may leave any version up to memory's, or     *)
(* nothing that can be read, until a save of its own puts that right.      *)
(***************************************************************************)
EXTENDS Naturals

VARIABLES
    stored,   \* the version session.json holds, 0 when there is none
    mem,      \* the version of the credentials in memory, 0 for fresh ones
    by        \* the kind of save whose work it is

vars == <<stored, mem, by>>

Init == stored = 0 /\ mem = 0 /\ by = "lone"

\* libgm replaces or refreshes the credentials in memory.
Refresh == mem' = mem + 1 /\ UNCHANGED <<stored, by>>

\* A save takes effect.
Commit ==
    \E v \in stored..mem :
        /\ v > 0
        /\ stored' = v
        /\ by' = "lone"
        /\ UNCHANGED mem

\* Overlapping saves take effect, or one of them does to what they stored.
Spoil ==
    /\ stored' \in 0..mem
    /\ by' = "overlapping"
    /\ UNCHANGED mem

\* ClearSession.
Clear == stored' = 0 /\ UNCHANGED <<mem, by>>

\* The process ended; the next one loads the session.
Restart == mem' = stored /\ UNCHANGED <<stored, by>>

Next == Refresh \/ Commit \/ Spoil \/ Clear \/ Restart

Spec == Init /\ [][Next]_vars
=============================================================================
