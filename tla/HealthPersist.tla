--------------------------- MODULE HealthPersist ---------------------------
(***************************************************************************)
(* How the tracker saves itself (internal/health: persist, snapshotLocked, *)
(* writeSnapshot, load).  An operation changes the maps under mu; after    *)
(* mu is released the same goroutine snapshots them under the read lock,   *)
(* numbers the snapshot, and writes it behind persistMu unless a newer one *)
(* was there first.  Any number of operations overlap in those gaps, a     *)
(* write may fail, and the process may be killed anywhere.                 *)
(*                                                                         *)
(* The maps are a version number: each change makes the next version.  A   *)
(* write is a temporary file and a rename.  An error before the file is    *)
(* open, at its close or at the rename leaves the old file; one of Chmod   *)
(* or Write is lost in a shadowed err, and the rename puts a file cut      *)
(* short in the old one's place, which the next load will not decode.      *)
(***************************************************************************)
EXTENDS Naturals

CONSTANTS
  Operations,   \* goroutines inside an operation of the tracker
  MaxVersion,   \* bound on the changes to the maps
  NoOne         \* persistMu is free

ASSUME NoOneAssumption == NoOne \notin Operations

VARIABLES
  memory,      \* version of the maps, guarded by mu
  seq,         \* Tracker.seq
  persistMu,   \* who holds it
  persistSeq,  \* Tracker.persistSeq
  file,        \* version the file holds; 0 is none, or no file
  damaged,     \* the file is cut short
  op,          \* operation -> its locals
  fileSeq,     \* history: the number of this process's snapshot in the file, or 0
  broken,      \* history: the last write attempted has failed
  acked        \* history: newest change whose operation has returned

vars == <<memory, seq, persistMu, persistSeq, file, damaged, op, fileSeq, broken, acked>>

\* change: the version the operation made; snapshot, number: what it copied.
Locals == [step: {"idle", "snapshot", "lock", "write"},
           change: Nat, snapshot: Nat, number: Nat]

Idle == [step |-> "idle", change |-> 0, snapshot |-> 0, number |-> 0]

PersistTypeOK ==
  /\ memory \in Nat /\ seq \in Nat
  /\ persistMu \in Operations \cup {NoOne}
  /\ persistSeq \in 0..seq
  /\ file \in 0..memory
  /\ op \in [Operations -> Locals]
  /\ fileSeq \in 0..persistSeq
  /\ damaged \in BOOLEAN /\ broken \in BOOLEAN
  /\ acked \in 0..memory

PersistInit ==
  /\ memory = 0 /\ seq = 0 /\ persistMu = NoOne /\ persistSeq = 0
  /\ file = 0 /\ damaged = FALSE
  /\ op = [o \in Operations |-> Idle]
  /\ fileSeq = 0 /\ broken = FALSE /\ acked = 0

Unlocked(o) ==
  /\ op' = [op EXCEPT ![o] = Idle]
  /\ persistMu' = NoOne
  /\ acked' = IF op[o].change > acked THEN op[o].change ELSE acked

\* An operation that saves: Failure, ProbeSuccess, ProbeFailure, Reset, and a
\* Success that clears a failure.
Change(o) ==
  /\ op[o].step = "idle" /\ memory < MaxVersion
  /\ memory' = memory + 1
  /\ op' = [op EXCEPT ![o] = [Idle EXCEPT !.step = "snapshot", !.change = memory']]
  /\ UNCHANGED <<seq, persistMu, persistSeq, file, damaged, fileSeq, broken, acked>>

\* One that does not: TryAcquire, Release, RestoreProbeSuccess, other Successes.
VolatileChange ==
  /\ memory < MaxVersion
  /\ memory' = memory + 1
  /\ UNCHANGED <<seq, persistMu, persistSeq, file, damaged, op, fileSeq, broken, acked>>

\* Mutant of Snapshot: the counter is read but not advanced.
SnapshotUnnumbered(o) ==
  /\ op[o].step = "snapshot"
  /\ op' = [op EXCEPT ![o].step = "lock", ![o].snapshot = memory, ![o].number = seq]
  /\ UNCHANGED <<memory, seq, persistMu, persistSeq, file, damaged, fileSeq, broken, acked>>

\* snapshotLocked: the read lock keeps the copy and its number together.
Snapshot(o) ==
  /\ op[o].step = "snapshot"
  /\ seq' = seq + 1
  /\ op' = [op EXCEPT ![o].step = "lock", ![o].snapshot = memory, ![o].number = seq']
  /\ UNCHANGED <<memory, persistMu, persistSeq, file, damaged, fileSeq, broken, acked>>

\* Mutant of Stale: whoever gets the lock writes.
NeverStale(o) == FALSE

Stale(o) == op[o].number <= persistSeq

\* persistMu.Lock, the comparison, and the return of a stale snapshot.
Lock(o) ==
  /\ op[o].step = "lock" /\ persistMu = NoOne
  /\ \/ /\ Stale(o)
        /\ Unlocked(o)
        /\ UNCHANGED persistSeq
     \/ /\ ~Stale(o)
        /\ persistMu' = o
        /\ persistSeq' = op[o].number
        /\ op' = [op EXCEPT ![o].step = "write"]
        /\ UNCHANGED acked
  /\ UNCHANGED <<memory, seq, file, damaged, fileSeq, broken>>

\* Chmod or Write failed: `if err := temporary.Chmod(...)' has an err of its own,
\* so the outer one stays nil and what there is of the file is renamed.
Lost == file' = 0 /\ damaged' = TRUE /\ fileSeq' = 0 /\ broken' = TRUE

\* writeSnapshot, then the deferred Unlock.  A failure is logged, if noticed.
WriteSnapshot(o) ==
  /\ op[o].step = "write"
  /\ \/ file' = op[o].snapshot /\ damaged' = FALSE /\ fileSeq' = op[o].number /\ broken' = FALSE
     \/ UNCHANGED <<file, damaged, fileSeq>> /\ broken' = TRUE
     \/ Lost
  /\ Unlocked(o)
  /\ UNCHANGED <<memory, seq, persistSeq>>

\* The process dies and NewPersistent loads the file: sequence numbers start
\* again.  A damaged file is renamed away and the maps are empty.  A change whose
\* write failed may be gone, and nobody relies on it.
Restart ==
  /\ memory' = file /\ damaged' = FALSE
  /\ seq' = 0 /\ persistMu' = NoOne /\ persistSeq' = 0
  /\ op' = [o \in Operations |-> Idle]
  /\ fileSeq' = 0 /\ broken' = FALSE
  /\ acked' = IF broken THEN 0 ELSE acked
  /\ UNCHANGED file

PersistNext ==
  \/ \E o \in Operations : Change(o) \/ Snapshot(o) \/ Lock(o) \/ WriteSnapshot(o)
  \/ VolatileChange
  \/ Restart

PersistSpec == PersistInit /\ [][PersistNext]_vars

-----------------------------------------------------------------------------
(* Properties *)

\* "a slower, older snapshot can never overwrite a newer one" (tracker.go:92):
\* through any overlap of savers, failed writes and restarts the file only
\* moves forward, to a version memory really had, unless a write that broke off
\* has spoiled it.
Durable == INSTANCE DurableState WITH memory <- memory, file <- file, whole <- ~damaged

SavedInOrder == Durable!Spec

\* When a saving operation has returned, its change is in the file, unless the
\* latest write failed: also for the operation whose own snapshot was dropped
\* as stale, and also after a restart.
ReturnedIsSaved == ~broken => file >= acked
=============================================================================
