---------------------------- MODULE DurableProofs ----------------------------
(***************************************************************************)
(* Proofs about what the process keeps in files, one store after another:  *)
(* the tracker's snapshots, the inventory, the statistics, the daily       *)
(* budget and the installed service.  The stores share no state, so each   *)
(* part stands by itself.                                                  *)
(***************************************************************************)
EXTENDS HealthPersist, Catalog, ProbeBudget, Statistics, Daemon,
        FiniteSetTheorems, SequenceTheorems, TLAPS

-----------------------------------------------------------------------------
(* The tracker's persistence (HealthPersist), for any number of operations. *)
(* A snapshot's number orders it: of two snapshots in flight the one with    *)
(* the smaller number is of an older version, and the numbers persistSeq     *)
(* and fileSeq place the file and the returned changes in that order.        *)

\* The operations that hold a snapshot.
Copied(o) == op[o].step \in {"lock", "write"}

\* A snapshot has the operation's own change, and is one memory went through.
SnapshotsReal ==
  \A o \in Operations :
    /\ op[o].change <= memory
    /\ Copied(o) => /\ op[o].number \in 1..seq
                    /\ op[o].change <= op[o].snapshot
                    /\ op[o].snapshot <= memory

NumbersOrder ==
  \A o, p \in Operations :
    Copied(o) /\ Copied(p) /\ op[o].number <= op[p].number
      => op[o].snapshot <= op[p].snapshot

\* The one writer is the holder of persistMu, with the number it announced.
WriterHoldsLock ==
  \A o \in Operations :
    /\ persistMu = o <=> op[o].step = "write"
    /\ op[o].step = "write" => op[o].number = persistSeq /\ op[o].number > fileSeq

\* The file lies between the snapshots numbered below and above fileSeq.
FileInOrder ==
  \A o \in Operations : Copied(o) =>
    /\ op[o].number > fileSeq => op[o].snapshot >= file
    /\ op[o].number <= fileSeq => op[o].snapshot <= file

\* A snapshot that may still be written has every change that was reported.
AckedInOrder ==
  \A o \in Operations : Copied(o) /\ op[o].number >= persistSeq => acked <= op[o].snapshot

LastWriteOnDisk == ~broken /\ persistMu = NoOne => persistSeq = fileSeq

PersistInv ==
  /\ PersistTypeOK
  /\ SnapshotsReal
  /\ NumbersOrder
  /\ WriterHoldsLock
  /\ FileInOrder
  /\ AckedInOrder
  /\ LastWriteOnDisk
  /\ ReturnedIsSaved

-----------------------------------------------------------------------------

LEMMA PersistInitInv == PersistInit => PersistInv
<1> SUFFICES ASSUME PersistInit PROVE PersistInv
  OBVIOUS
<1>1. \A o \in Operations : op[o] = Idle /\ op[o].step = "idle" /\ op[o].change = 0
  BY DEF PersistInit, Idle
<1>2. PersistTypeOK
  <2>1. Idle \in Locals
    BY DEF Idle, Locals
  <2>2. op \in [Operations -> Locals]
    BY <2>1 DEF PersistInit
  <2>3. damaged \in BOOLEAN /\ broken \in BOOLEAN
    BY DEF PersistInit
  <2> QED BY <2>2, <2>3 DEF PersistInit, PersistTypeOK
<1>3. SnapshotsReal /\ NumbersOrder /\ FileInOrder /\ AckedInOrder
  BY <1>1 DEF PersistInit, SnapshotsReal, NumbersOrder, FileInOrder, AckedInOrder, Copied
<1>4. WriterHoldsLock
  BY <1>1, NoOneAssumption DEF PersistInit, WriterHoldsLock
<1>5. LastWriteOnDisk /\ ReturnedIsSaved
  BY DEF PersistInit, LastWriteOnDisk, ReturnedIsSaved
<1> QED BY <1>2, <1>3, <1>4, <1>5 DEF PersistInv

LEMMA ChangeInv ==
  ASSUME PersistInv, NEW o \in Operations, Change(o)
  PROVE  PersistInv'
<1>1. /\ op[o] \in Locals /\ op[o].step = "idle"
      /\ op'[o] = [step |-> "snapshot", change |-> memory + 1, snapshot |-> 0, number |-> 0]
      /\ \A p \in Operations \ {o} : op'[p] = op[p]
  BY DEF Change, PersistInv, PersistTypeOK, Idle
<1>2. PersistTypeOK'
  BY <1>1 DEF Change, PersistInv, PersistTypeOK, Idle, Locals
<1>3. SnapshotsReal'
  BY <1>1 DEF Change, PersistInv, PersistTypeOK, Locals, SnapshotsReal, Copied
<1>4. NumbersOrder'
  BY <1>1 DEF PersistInv, PersistTypeOK, Locals, NumbersOrder, Copied
<1>5. WriterHoldsLock'
  BY <1>1 DEF Change, PersistInv, WriterHoldsLock
<1>6. FileInOrder' /\ AckedInOrder'
  BY <1>1 DEF Change, PersistInv, FileInOrder, AckedInOrder, Copied
<1>7. LastWriteOnDisk' /\ ReturnedIsSaved'
  BY DEF Change, PersistInv, LastWriteOnDisk, ReturnedIsSaved
<1> QED BY <1>2, <1>3, <1>4, <1>5, <1>6, <1>7 DEF PersistInv

LEMMA VolatileChangeInv ==
  ASSUME PersistInv, VolatileChange
  PROVE  PersistInv'
<1>1. PersistTypeOK'
  BY DEF VolatileChange, PersistInv, PersistTypeOK
<1>2. SnapshotsReal'
  BY DEF VolatileChange, PersistInv, PersistTypeOK, Locals, SnapshotsReal, Copied
<1>3. NumbersOrder' /\ WriterHoldsLock' /\ FileInOrder' /\ AckedInOrder'
  BY DEF VolatileChange, PersistInv, NumbersOrder, WriterHoldsLock, FileInOrder, AckedInOrder, Copied
<1>4. LastWriteOnDisk' /\ ReturnedIsSaved'
  BY DEF VolatileChange, PersistInv, LastWriteOnDisk, ReturnedIsSaved
<1> QED BY <1>1, <1>2, <1>3, <1>4 DEF PersistInv

LEMMA SnapshotInv ==
  ASSUME PersistInv, NEW o \in Operations, Snapshot(o)
  PROVE  PersistInv'
<1>1. /\ op[o] \in Locals /\ op[o].step = "snapshot"
      /\ op'[o] = [step |-> "lock", change |-> op[o].change, snapshot |-> memory, number |-> seq + 1]
      /\ \A p \in Operations \ {o} : op'[p] = op[p]
  BY DEF Snapshot, PersistInv, PersistTypeOK, Locals
<1>2. PersistTypeOK'
  BY <1>1 DEF Snapshot, PersistInv, PersistTypeOK, Locals
<1>3. SnapshotsReal'
  BY <1>1 DEF Snapshot, PersistInv, PersistTypeOK, Locals, SnapshotsReal, Copied
<1>4. NumbersOrder'
  BY <1>1 DEF Snapshot, PersistInv, PersistTypeOK, Locals, SnapshotsReal, NumbersOrder, Copied
<1>5. WriterHoldsLock'
  <2>1. op'[o].step = "lock" /\ UNCHANGED <<persistMu, persistSeq, fileSeq>>
    BY <1>1 DEF Snapshot
  <2> QED BY <1>1, <2>1 DEF PersistInv, WriterHoldsLock
<1>6. FileInOrder'
  BY <1>1 DEF Snapshot, PersistInv, PersistTypeOK, FileInOrder, Copied
<1>7. AckedInOrder'
  BY <1>1 DEF Snapshot, PersistInv, PersistTypeOK, AckedInOrder, Copied
<1>8. LastWriteOnDisk' /\ ReturnedIsSaved'
  BY DEF Snapshot, PersistInv, LastWriteOnDisk, ReturnedIsSaved
<1> QED BY <1>2, <1>3, <1>4, <1>5, <1>6, <1>7, <1>8 DEF PersistInv

LEMMA StaleInv ==
  ASSUME PersistInv, NEW o \in Operations, Lock(o), Stale(o)
  PROVE  PersistInv'
<1>1. /\ op[o] \in Locals /\ op[o].step = "lock" /\ op[o].number <= persistSeq
      /\ op' = [op EXCEPT ![o] = Idle] /\ persistMu = NoOne /\ persistMu' = NoOne
      /\ acked' = IF op[o].change > acked THEN op[o].change ELSE acked
      /\ UNCHANGED <<memory, seq, persistSeq, file, damaged, fileSeq, broken>>
  BY DEF Lock, Stale, Unlocked, PersistInv, PersistTypeOK
<1>2. /\ op'[o] = Idle /\ Idle \in Locals /\ Idle.step = "idle" /\ Idle.change = 0
      /\ \A p \in Operations \ {o} : op'[p] = op[p]
  BY <1>1 DEF PersistInv, PersistTypeOK, Idle, Locals
<1>3. PersistTypeOK'
  BY <1>1, <1>2 DEF PersistInv, PersistTypeOK, Locals, SnapshotsReal
<1>4. SnapshotsReal' /\ NumbersOrder' /\ FileInOrder'
  BY <1>1, <1>2 DEF PersistInv, PersistTypeOK, SnapshotsReal, NumbersOrder, FileInOrder, Copied
<1>5. WriterHoldsLock'
  BY <1>1, <1>2, NoOneAssumption DEF PersistInv, WriterHoldsLock
<1>6. AckedInOrder'
  <2> SUFFICES ASSUME NEW p \in Operations \ {o}, Copied(p), op[p].number >= persistSeq
               PROVE  acked' <= op[p].snapshot
    BY <1>1, <1>2 DEF AckedInOrder, Copied
  <2>1. /\ acked <= op[p].snapshot /\ op[o].change <= op[o].snapshot
        /\ op[o].number \in Nat /\ op[p].number \in Nat /\ persistSeq \in Nat
    BY <1>1 DEF PersistInv, PersistTypeOK, Locals, AckedInOrder, SnapshotsReal, Copied
  <2>2. op[o].snapshot <= op[p].snapshot
    BY <1>1, <2>1 DEF PersistInv, NumbersOrder, Copied
  <2> QED BY <1>1, <2>1, <2>2 DEF PersistInv, PersistTypeOK, Locals
<1>7. LastWriteOnDisk'
  BY <1>1 DEF PersistInv, LastWriteOnDisk
<1>8. ReturnedIsSaved'
  <2> SUFFICES ASSUME ~broken PROVE file >= acked'
    BY <1>1 DEF ReturnedIsSaved
  <2>1. op[o].number <= fileSeq
    BY <1>1 DEF PersistInv, LastWriteOnDisk
  <2>2. op[o].snapshot <= file /\ op[o].change <= op[o].snapshot /\ file >= acked
    BY <1>1, <2>1 DEF PersistInv, FileInOrder, SnapshotsReal, ReturnedIsSaved, Copied
  <2> QED BY <1>1, <2>2 DEF PersistInv, PersistTypeOK, Locals
<1> QED BY <1>3, <1>4, <1>5, <1>6, <1>7, <1>8 DEF PersistInv

LEMMA FreshInv ==
  ASSUME PersistInv, NEW o \in Operations, Lock(o), ~Stale(o)
  PROVE  PersistInv'
<1>1. /\ op[o] \in Locals /\ op[o].step = "lock" /\ ~(op[o].number <= persistSeq)
      /\ op' = [op EXCEPT ![o].step = "write"] /\ persistMu = NoOne /\ persistMu' = o
      /\ persistSeq' = op[o].number
      /\ UNCHANGED <<memory, seq, file, damaged, fileSeq, broken, acked>>
  BY DEF Lock, Stale, PersistInv, PersistTypeOK
<1>2. /\ op'[o] = [op[o] EXCEPT !.step = "write"]
      /\ \A p \in Operations \ {o} : op'[p] = op[p]
  BY <1>1 DEF PersistInv, PersistTypeOK
<1>3. /\ op'[o].step = "write" /\ op'[o].change = op[o].change
      /\ op'[o].snapshot = op[o].snapshot /\ op'[o].number = op[o].number
  BY <1>1, <1>2 DEF Locals
<1>4. op[o].number \in 1..seq /\ op[o].number > persistSeq
  BY <1>1 DEF PersistInv, PersistTypeOK, Locals, SnapshotsReal, Copied
<1>5. PersistTypeOK'
  BY <1>1, <1>4 DEF PersistInv, PersistTypeOK, Locals
<1>6. SnapshotsReal' /\ NumbersOrder' /\ FileInOrder'
  BY <1>1, <1>2, <1>3 DEF PersistInv, SnapshotsReal, NumbersOrder, FileInOrder, Copied
<1>7. WriterHoldsLock'
  BY <1>1, <1>2, <1>3, <1>4, NoOneAssumption DEF PersistInv, PersistTypeOK, WriterHoldsLock
<1>8. AckedInOrder'
  <2> SUFFICES ASSUME NEW p \in Operations, Copied(p), op[p].number >= op[o].number
               PROVE  acked <= op[p].snapshot
    BY <1>1, <1>2, <1>3 DEF AckedInOrder, Copied
  <2>1. op[p].number >= persistSeq
    BY <1>4 DEF PersistInv, PersistTypeOK, Locals
  <2> QED BY <2>1 DEF PersistInv, AckedInOrder
<1>9. LastWriteOnDisk' /\ ReturnedIsSaved'
  BY <1>1, NoOneAssumption DEF PersistInv, LastWriteOnDisk, ReturnedIsSaved
<1> QED BY <1>5, <1>6, <1>7, <1>8, <1>9 DEF PersistInv

LEMMA WriteSnapshotInv ==
  ASSUME PersistInv, NEW o \in Operations, WriteSnapshot(o)
  PROVE  PersistInv'
<1>1. /\ op[o] \in Locals /\ op[o].step = "write"
      /\ op' = [op EXCEPT ![o] = Idle] /\ persistMu' = NoOne
      /\ acked' = IF op[o].change > acked THEN op[o].change ELSE acked
      /\ UNCHANGED <<memory, seq, persistSeq>>
  BY DEF WriteSnapshot, Unlocked, PersistInv, PersistTypeOK
<1>2. /\ op'[o] = Idle /\ Idle \in Locals /\ Idle.step = "idle" /\ Idle.change = 0
      /\ \A p \in Operations \ {o} : op'[p] = op[p]
  BY <1>1 DEF PersistInv, PersistTypeOK, Idle, Locals
<1>3. /\ persistMu = o /\ op[o].number = persistSeq /\ op[o].number > fileSeq
      /\ \A p \in Operations \ {o} : op[p].step # "write"
  BY <1>1 DEF PersistInv, WriterHoldsLock
<1>4. /\ op[o].change <= op[o].snapshot /\ op[o].snapshot <= memory
      /\ acked <= op[o].snapshot /\ op[o].snapshot >= file
  BY <1>1, <1>3 DEF PersistInv, PersistTypeOK, SnapshotsReal, AckedInOrder, FileInOrder, Copied
<1>5. acked' <= op[o].snapshot /\ acked' \in 0..memory
  BY <1>1, <1>4 DEF PersistInv, PersistTypeOK, Locals
<1>6. /\ \/ file' = op[o].snapshot /\ fileSeq' = op[o].number /\ broken' = FALSE
         \/ file' = file /\ fileSeq' = fileSeq /\ broken' = TRUE
         \/ file' = 0 /\ fileSeq' = 0 /\ broken' = TRUE
      /\ damaged' \in BOOLEAN
  BY DEF WriteSnapshot, Lost, PersistInv, PersistTypeOK
<1>7. PersistTypeOK'
  <2>1. op' \in [Operations -> Locals]
    BY <1>1, <1>2 DEF PersistInv, PersistTypeOK
  <2>2. file' \in 0..memory /\ fileSeq' \in 0..persistSeq
    BY <1>1, <1>3, <1>4, <1>6 DEF PersistInv, PersistTypeOK, Locals
  <2>3. broken' \in BOOLEAN /\ damaged' \in BOOLEAN
    BY <1>6
  <2> QED BY <1>1, <1>5, <2>1, <2>2, <2>3 DEF PersistInv, PersistTypeOK
<1>8. SnapshotsReal' /\ NumbersOrder'
  BY <1>1, <1>2 DEF PersistInv, PersistTypeOK, SnapshotsReal, NumbersOrder, Copied
<1>9. WriterHoldsLock'
  BY <1>1, <1>2, <1>3, NoOneAssumption DEF WriterHoldsLock
<1>10. FileInOrder'
  <2> SUFFICES ASSUME NEW p \in Operations \ {o}, Copied(p)
               PROVE  /\ op[p].number > fileSeq' => op[p].snapshot >= file'
                      /\ op[p].number <= fileSeq' => op[p].snapshot <= file'
    BY <1>1, <1>2 DEF FileInOrder, Copied
  <2>1. op[p] \in Locals /\ op[p].number \in Nat /\ op[o].number \in Nat
    BY <1>1 DEF PersistInv, PersistTypeOK, Locals
  <2>2. /\ op[p].number <= op[o].number => op[p].snapshot <= op[o].snapshot
        /\ op[o].number <= op[p].number => op[o].snapshot <= op[p].snapshot
    BY <1>1 DEF PersistInv, NumbersOrder, Copied
  <2>3. CASE file' = op[o].snapshot /\ fileSeq' = op[o].number
    BY <1>1, <2>1, <2>2, <2>3 DEF Locals
  <2>4. CASE file' = file /\ fileSeq' = fileSeq
    BY <2>4 DEF PersistInv, FileInOrder
  <2>5. CASE file' = 0 /\ fileSeq' = 0
    <3>1. op[p].number > 0 /\ op[p].snapshot >= 0
      BY <2>1 DEF PersistInv, SnapshotsReal, Copied, Locals
    <3> QED BY <2>1, <2>5, <3>1
  <2> QED BY <1>6, <2>3, <2>4, <2>5
<1>11. AckedInOrder'
  <2> SUFFICES ASSUME NEW p \in Operations \ {o}, Copied(p), op[p].number >= persistSeq
               PROVE  acked' <= op[p].snapshot
    BY <1>1, <1>2 DEF AckedInOrder, Copied
  <2>1. op[p] \in Locals /\ op[p].snapshot \in Nat /\ op[o].snapshot \in Nat
    BY <1>1 DEF PersistInv, PersistTypeOK, Locals
  <2>2. op[o].snapshot <= op[p].snapshot
    BY <1>1, <1>3 DEF PersistInv, NumbersOrder, Copied
  <2> QED BY <1>5, <2>1, <2>2
<1>12. LastWriteOnDisk'
  BY <1>1, <1>3, <1>6 DEF LastWriteOnDisk
<1>13. ReturnedIsSaved'
  BY <1>5, <1>6 DEF ReturnedIsSaved, PersistInv, PersistTypeOK
<1> QED BY <1>7, <1>8, <1>9, <1>10, <1>11, <1>12, <1>13 DEF PersistInv

LEMMA RestartInv ==
  ASSUME PersistInv, Restart
  PROVE  PersistInv'
<1>1. /\ Idle \in Locals /\ op' = [o \in Operations |-> Idle]
      /\ \A o \in Operations : op'[o].step = "idle" /\ op'[o].change = 0
  BY DEF Restart, Idle, Locals
<1>2. PersistTypeOK'
  <2>1. op' \in [Operations -> Locals]
    BY <1>1
  <2>2. memory' = file /\ file \in 0..memory /\ memory \in Nat
    BY DEF Restart, PersistInv, PersistTypeOK
  <2>3. acked' \in 0..file
    BY <2>2 DEF Restart, PersistInv, PersistTypeOK, ReturnedIsSaved
  <2>4. broken' \in BOOLEAN /\ damaged' \in BOOLEAN
    BY DEF Restart
  <2>5. /\ seq' = 0 /\ persistMu' = NoOne /\ persistSeq' = 0
        /\ fileSeq' = 0 /\ file' = file
    BY DEF Restart
  <2> QED BY <2>1, <2>2, <2>3, <2>4, <2>5 DEF PersistTypeOK
<1>3. SnapshotsReal' /\ NumbersOrder' /\ FileInOrder' /\ AckedInOrder'
  BY <1>1, <1>2 DEF SnapshotsReal, NumbersOrder, FileInOrder, AckedInOrder, Copied, PersistTypeOK
<1>4. WriterHoldsLock'
  BY <1>1, NoOneAssumption DEF Restart, WriterHoldsLock
<1>5. LastWriteOnDisk' /\ ReturnedIsSaved'
  BY DEF Restart, PersistInv, PersistTypeOK, LastWriteOnDisk, ReturnedIsSaved
<1> QED BY <1>2, <1>3, <1>4, <1>5 DEF PersistInv

LEMMA PersistNextInv == PersistInv /\ [PersistNext]_vars => PersistInv'
<1> SUFFICES ASSUME PersistInv, [PersistNext]_vars PROVE PersistInv'
  OBVIOUS
<1>1. ASSUME NEW o \in Operations, Change(o) \/ Snapshot(o) \/ Lock(o) \/ WriteSnapshot(o)
      PROVE  PersistInv'
  BY <1>1, ChangeInv, SnapshotInv, StaleInv, FreshInv, WriteSnapshotInv
<1>2. CASE VolatileChange
  BY <1>2, VolatileChangeInv
<1>3. CASE Restart
  BY <1>3, RestartInv
<1>4. CASE UNCHANGED vars
  BY <1>4 DEF vars, PersistInv, PersistTypeOK, SnapshotsReal, NumbersOrder, WriterHoldsLock, FileInOrder,
              AckedInOrder, LastWriteOnDisk, ReturnedIsSaved, Copied
<1> QED BY <1>1, <1>2, <1>3, <1>4 DEF PersistNext

\* Every step of the tracker's persistence is a step of the abstract store.
LEMMA StepIsDurable ==
  ASSUME PersistInv, [PersistNext]_vars
  PROVE  [Durable!Next]_Durable!version
<1>1. ASSUME NEW o \in Operations, Change(o) PROVE Durable!Change
  BY <1>1 DEF Change, Durable!Change
<1>2. ASSUME NEW o \in Operations, Snapshot(o) \/ Lock(o)
      PROVE  UNCHANGED <<memory, file, ~damaged>>
  BY <1>2 DEF Snapshot, Lock
<1>3. ASSUME NEW o \in Operations, WriteSnapshot(o)
      PROVE  Durable!Save \/ Durable!Spoil \/ UNCHANGED <<memory, file, ~damaged>>
  <2>1. /\ file <= op[o].snapshot /\ op[o].snapshot <= memory
        /\ op[o].snapshot \in Nat /\ file \in 0..memory /\ memory \in Nat
    BY <1>3 DEF WriteSnapshot, PersistInv, PersistTypeOK, Locals, WriterHoldsLock, FileInOrder,
                SnapshotsReal, Copied
  <2> QED BY <1>3, <2>1 DEF WriteSnapshot, Lost, Durable!Save, Durable!Spoil
<1>4. VolatileChange => Durable!Change
  BY DEF VolatileChange, Durable!Change
<1>5. Restart => Durable!Restart
  BY DEF Restart, Durable!Restart
<1>6. UNCHANGED vars => UNCHANGED <<memory, file, ~damaged>>
  BY DEF vars
<1> QED BY <1>1, <1>2, <1>3, <1>4, <1>5, <1>6 DEF PersistNext, Durable!Next, Durable!version

-----------------------------------------------------------------------------

THEOREM PersistInvariant == PersistSpec => []PersistInv
BY PersistInitInv, PersistNextInv, PTL DEF PersistSpec

\* The saver's state is well typed: no snapshot number runs ahead of its counter.
THEOREM PersistTypeCorrect == PersistSpec => []PersistTypeOK
BY PersistInvariant, PTL DEF PersistInv

\* For any number of overlapping operations, failed writes and restarts, the file
\* never goes back to an older state (tracker.go:92), except that a write which
\* broke off leaves one that holds none (tracker.go:662-672).
THEOREM PersistImplementsDurable == PersistSpec => SavedInOrder
<1>1. PersistInit => Durable!Init
  BY DEF PersistInit, Durable!Init
<1>2. PersistInv /\ [PersistNext]_vars => [Durable!Next]_Durable!version
  BY StepIsDurable
<1> QED BY <1>1, <1>2, PersistInvariant, PTL DEF PersistSpec, SavedInOrder, Durable!Spec

\* A change whose operation returned is in the file unless the last write
\* failed, also when its own snapshot was dropped as stale.
THEOREM PersistSavesReturned == PersistSpec => []ReturnedIsSaved
BY PersistInvariant, PTL DEF PersistInv

-----------------------------------------------------------------------------
(* The inventory (Catalog).  Neither property needs an assumption on the     *)
(* constants: all that has to be known of the store and of the cached state  *)
(* is that they have the three fields of Empty, so that a commit which       *)
(* changes one of them leaves the others alone.                              *)

\* A state has the fields of Empty.
IsState(s) ==
  DOMAIN s = {"models", "quarantine", "tools"} /\ s = [field \in DOMAIN s |-> s[field]]

Shape == IsState(store) /\ IsState(cache.state)

\* The inductive invariant: the properties hold of states of the right shape.
CatalogInv == Shape /\ CacheIsStore /\ PoolIsComplete

-----------------------------------------------------------------------------
(* Commits *)

\* A commit leaves the file and the memory with the same state, or both alone.
LEMMA CommitAgrees ==
  ASSUME NEW next, NEW wrote \in BOOLEAN, IsState(next), Shape, serving,
         CacheIsStore, Commit(next, wrote), serving' = serving, fresh' = FALSE
  PROVE  CatalogInv'
<1>1. CASE wrote
  <2>1. store' = next /\ cache'.state = next
    BY <1>1 DEF Commit
  <2>2. Shape'
    BY <2>1 DEF Shape, IsState
  <2> QED
    BY <2>1, <2>2 DEF CatalogInv, CacheIsStore, PoolIsComplete
<1>2. CASE ~wrote
  <2>1. store' = store /\ cache' = cache
    BY <1>2 DEF Commit
  <2> QED
    BY <2>1 DEF CatalogInv, Shape, IsState, CacheIsStore, PoolIsComplete
<1> QED
  BY <1>1, <1>2

\* Changing the models of a state leaves a state.
LEMMA StateChanges ==
  ASSUME NEW s, IsState(s), NEW chosen
  PROVE  IsState([s EXCEPT !.models = chosen])
BY DEF IsState

-----------------------------------------------------------------------------
(* Starting *)

\* What a process remembers is a state, and is what the file holds when the
\* file belongs to the manifest.
LEMMA RememberedIsState ==
  ASSUME NEW definitions
  PROVE  /\ IsState(Remembered(definitions))
         /\ cache.usable /\ cache.catalog = CatalogFingerprint(definitions) =>
              /\ Remembered(definitions).quarantine = cache.state.quarantine
              /\ Remembered(definitions).tools = cache.state.tools
BY DEF Remembered, Empty, IsState

\* The pool depends on the quarantine and on the marks, not on the listed models.
LEMMA RoutableOfMarks ==
  ASSUME NEW definitions, NEW s, NEW t, s.quarantine = t.quarantine, s.tools = t.tools
  PROVE  Routable(definitions, s) = Routable(definitions, t)
BY DEF Routable

\* A process that starts has the whole pool, from the file or rebuilt.
LEMMA BootstrapComplete ==
  ASSUME NEW definitions, NEW wrote \in BOOLEAN, Shape,
         Bootstrap(definitions, wrote), manifest' = definitions
  PROVE  CatalogInv'
<1> DEFINE known == Remembered(definitions)
           expected == Routable(definitions, known)
           cached == CachedModels(definitions, known)
           taken == /\ cache.usable
                    /\ cache.catalog = CatalogFingerprint(definitions)
                    /\ MatchesManifest(cached, expected)
           rebuilt == [known EXCEPT !.models = expected]
<1>1. IsState(known)
  BY RememberedIsState
<1>2. CASE taken
  <2>1. store' = [known EXCEPT !.models = cached] /\ cache' = cache
    BY <1>2 DEF Bootstrap
  <2>2. /\ store'.models = cached
        /\ store'.quarantine = known.quarantine
        /\ store'.tools = known.tools
    BY <1>1, <2>1 DEF IsState
  <2>3. Shape'
    <3>1. IsState(store')
      <4> HIDE DEF known, cached
      <4> QED BY <1>1, <2>1, StateChanges
    <3> QED BY <2>1, <3>1 DEF Shape, IsState
  <2>4. CacheIsStore'
    BY <1>2, <2>1, <2>2, RememberedIsState DEF CacheIsStore
  <2>5. Routable(manifest', store') = expected
    BY <2>2, RoutableOfMarks
  <2>6. \A m \in Listed : Fingerprint(cached[m]) = Fingerprint(expected[m])
    BY <1>2 DEF MatchesManifest
  <2>7. PoolIsComplete'
    <3> HIDE DEF cached, expected
    <3> QED BY <2>2, <2>5, <2>6 DEF PoolIsComplete, Routable, Fingerprint
  <2> QED
    BY <2>3, <2>4, <2>7 DEF CatalogInv
<1>3. CASE ~taken /\ wrote
  <2>1. store' = rebuilt /\ cache'.state = rebuilt
    <3>1. /\ store' = rebuilt
          /\ cache' = [usable |-> TRUE, catalog |-> CatalogFingerprint(definitions),
                       state |-> rebuilt]
      BY <1>3 DEF Bootstrap
    <3> HIDE DEF rebuilt
    <3> QED BY <3>1
  <2>2. /\ rebuilt.models = expected
        /\ rebuilt.quarantine = known.quarantine
        /\ rebuilt.tools = known.tools
    BY <1>1 DEF IsState
  <2>3. Shape'
    <3>1. IsState(rebuilt)
      <4> HIDE DEF known, expected
      <4> QED BY <1>1, StateChanges
    <3> QED BY <2>1, <3>1 DEF Shape, IsState
  <2>4. CacheIsStore'
    BY <2>1 DEF CacheIsStore
  <2>5. Routable(manifest', store') = expected
    BY <2>1, <2>2, RoutableOfMarks
  <2>6. PoolIsComplete'
    BY <2>1, <2>2, <2>5 DEF PoolIsComplete
  <2> QED
    BY <2>3, <2>4, <2>6 DEF CatalogInv
<1>4. CASE ~taken /\ ~wrote
  <2>1. store' = known /\ cache' = cache /\ serving' = FALSE
    BY <1>4 DEF Bootstrap
  <2> QED
    BY <1>1, <2>1 DEF CatalogInv, Shape, IsState, CacheIsStore, PoolIsComplete
<1> QED
  BY <1>2, <1>3, <1>4

-----------------------------------------------------------------------------
(* The invariant *)

LEMMA CatalogInitInv == CatalogInit => CatalogInv
BY DEF CatalogInit, CatalogInv, Shape, IsState, Empty, NoCache, CacheIsStore, PoolIsComplete

LEMMA CatalogNextInv == CatalogInv /\ [CatalogNext]_catalogVars => CatalogInv'
<1> SUFFICES ASSUME CatalogInv, [CatalogNext]_catalogVars PROVE CatalogInv'
  OBVIOUS
<1>0. Shape /\ CacheIsStore /\ IsState(store)
  BY DEF CatalogInv, Shape
<1>1. ASSUME NEW definitions \in Manifests, Reload(definitions) PROVE CatalogInv'
  BY <1>1 DEF Reload, CatalogInv, Shape, IsState, CacheIsStore, PoolIsComplete
<1>2. CASE DamageCache
  BY <1>2 DEF DamageCache, NoCache, Empty, CatalogInv, Shape, IsState, CacheIsStore, PoolIsComplete
<1>3. ASSUME NEW definitions \in Manifests, NEW wrote \in BOOLEAN, CatalogRestart(definitions, wrote)
      PROVE  CatalogInv'
  BY <1>0, <1>3, BootstrapComplete DEF CatalogRestart
<1>4. ASSUME NEW wrote \in BOOLEAN, Refresh(wrote) PROVE CatalogInv'
  <2> DEFINE next == [store EXCEPT !.models = Routable(manifest, store)]
  <2>1. Commit(next, wrote)
    BY <1>4 DEF Refresh
  <2>2. IsState(next)
    BY <1>0, StateChanges
  <2> HIDE DEF next
  <2> QED
    BY <1>0, <1>4, <2>1, <2>2, CommitAgrees DEF Refresh, Operated
<1>5. ASSUME NEW wrote \in BOOLEAN, SaveRecords(wrote) PROVE CatalogInv'
  BY <1>0, <1>5, CommitAgrees DEF SaveRecords, Operated
<1>6. ASSUME NEW m \in Listed, NEW wrote \in BOOLEAN, RefreshProvider(m, wrote) PROVE CatalogInv'
  <2> DEFINE chosen == [n \in Listed |->
               IF Owner[n] = Owner[m] THEN Routable(manifest, store)[n]
               ELSE store.models[n]]
         next == [store EXCEPT !.models = chosen]
  <2>1. Commit(next, wrote)
    <3>1. next = [store EXCEPT !.models = [n \in Listed |->
               IF Owner[n] = Owner[m] THEN Routable(manifest, store)[n] ELSE @[n]]]
      BY <1>0 DEF IsState
    <3> HIDE DEF next
    <3> QED BY <1>6, <3>1 DEF RefreshProvider
  <2>2. IsState(next)
    BY <1>0, StateChanges
  <2> HIDE DEF next
  <2> QED
    BY <1>0, <1>6, <2>1, <2>2, CommitAgrees DEF RefreshProvider, Operated
<1>7. ASSUME NEW m \in Listed, NEW wrote \in BOOLEAN, RemoveModel(m, wrote) PROVE CatalogInv'
  <2> DEFINE next == [store EXCEPT !.models[m] = Gone,
                                   !.quarantine[m] = Fingerprint(store.models[m])]
  <2>1. Commit(next, wrote)
    BY <1>7 DEF RemoveModel
  <2>2. IsState(next)
    BY <1>0 DEF IsState
  <2> HIDE DEF next
  <2> QED
    BY <1>0, <1>7, <2>1, <2>2, CommitAgrees DEF RemoveModel, Operated
<1>8. ASSUME NEW m \in Listed, NEW wrote \in BOOLEAN, RestoreModel(m, wrote) PROVE CatalogInv'
  <2> DEFINE next == [store EXCEPT !.models[m] = Built(manifest[m]),
                                   !.quarantine[m] = Fingerprint(Gone)]
  <2>1. Commit(next, wrote)
    BY <1>8 DEF RestoreModel
  <2>2. IsState(next)
    BY <1>0 DEF IsState
  <2> HIDE DEF next
  <2> QED
    BY <1>0, <1>8, <2>1, <2>2, CommitAgrees DEF RestoreModel, Operated
<1>9. ASSUME NEW m \in Listed, NEW wrote \in BOOLEAN, RecordToolSupport(m, wrote) PROVE CatalogInv'
  <2> DEFINE next == [store EXCEPT !.models[m] = Promoted(store.models[m]),
                                   !.tools = store.tools \cup {m}]
  <2>1. Commit(next, wrote)
    BY <1>0, <1>9 DEF RecordToolSupport, IsState
  <2>2. IsState(next)
    BY <1>0 DEF IsState
  <2> HIDE DEF next
  <2> QED
    BY <1>0, <1>9, <2>1, <2>2, CommitAgrees DEF RecordToolSupport, Operated
<1>10. CASE UNCHANGED catalogVars
  BY <1>10 DEF catalogVars, CatalogInv, Shape, IsState, CacheIsStore, PoolIsComplete, Routable
<1> QED
  BY <1>1, <1>2, <1>3, <1>4, <1>5, <1>6, <1>7, <1>8, <1>9, <1>10 DEF CatalogNext

LEMMA CatalogInvAlways == CatalogSpec => []CatalogInv
<1> QED BY CatalogInitInv, CatalogNextInv, PTL DEF CatalogSpec

\* What the running server knows of quarantined models and of tool probes is what
\* the file holds: persist succeeds before publish, or neither happens.
THEOREM CatalogCacheIsStore == CatalogSpec => []CacheIsStore
<1>1. CatalogInv => CacheIsStore
  BY DEF CatalogInv
<1> QED BY <1>1, CatalogInvAlways, PTL

\* A process that starts serves exactly the models its manifest stands for,
\* whichever file it finds: loadCache takes the cache as it is, or rebuilds it.
THEOREM CatalogPoolIsComplete == CatalogSpec => []PoolIsComplete
<1>1. CatalogInv => PoolIsComplete
  BY DEF CatalogInv
<1> QED BY <1>1, CatalogInvAlways, PTL

-----------------------------------------------------------------------------
(* The daily budget of expensive probes (ProbeBudget).  That the requests    *)
(* already sent stay within the limit is not inductive: the run goes on      *)
(* after the budget was checked.  What is, is that the requests sent and     *)
(* those still waiting, which a day owes together, are covered by what the   *)
(* file holds for that day, and that a day the file has not reached owes     *)
(* nothing.                                                                  *)

\* The expensive requests of the runs charged to d, sent and waiting.
Owed(d) == sent[d] + (IF d = charged THEN Cost(run.waiting) ELSE 0)

DatesInOrder == budget.date <= day /\ charged <= day

\* Nothing waits without a run.
WaitingIsRunning == ~run.running => run.waiting = {}

OwedIsCovered ==
  \A d \in Days : /\ Owed(d) <= DailyLimit
                  /\ d = budget.date => Owed(d) <= budget.used
                  /\ d > budget.date => Owed(d) = 0

BudgetInv == BudgetTypeOK /\ DatesInOrder /\ WaitingIsRunning /\ OwedIsCovered

-----------------------------------------------------------------------------
(* What a set of jobs costs *)

ExpensiveOf(jobs) == {j \in jobs : j[2] \in Expensive}

LEMMA JobsFinite ==
  ASSUME Configured, NEW jobs \in SUBSET Jobs
  PROVE  IsFiniteSet(ExpensiveOf(jobs))
<1>1. IsFiniteSet(Jobs)
  BY FS_Product DEF Configured, Jobs
<1>2. ExpensiveOf(jobs) \in SUBSET Jobs
  BY DEF ExpensiveOf
<1> QED
  BY <1>1, <1>2, FS_Subset

LEMMA CostIsNat ==
  ASSUME Configured, NEW jobs \in SUBSET Jobs
  PROVE  Cost(jobs) \in Nat
BY JobsFinite, FS_CardinalityType DEF Cost, ExpensiveOf

LEMMA CheapCostsNothing ==
  ASSUME NEW jobs, \A j \in jobs : j[2] \notin Expensive
  PROVE  Cost(jobs) = 0
<1>1. {j \in jobs : j[2] \in Expensive} = {}
  OBVIOUS
<1> QED
  BY <1>1, FS_EmptySet DEF Cost

\* Sending a job takes it off the cost of what waits, if it is expensive.
LEMMA CostWithout ==
  ASSUME Configured, NEW jobs \in SUBSET Jobs, NEW j \in jobs
  PROVE  Cost(jobs \ {j}) = IF j[2] \in Expensive THEN Cost(jobs) - 1 ELSE Cost(jobs)
<1>1. ExpensiveOf(jobs \ {j}) = ExpensiveOf(jobs) \ {j}
  BY DEF ExpensiveOf
<1>2. j \in ExpensiveOf(jobs) <=> j[2] \in Expensive
  BY DEF ExpensiveOf
<1>3. Cost(jobs) = Cardinality(ExpensiveOf(jobs))
      /\ Cost(jobs \ {j}) = Cardinality(ExpensiveOf(jobs \ {j}))
  BY DEF Cost, ExpensiveOf
<1> QED
  BY <1>1, <1>2, <1>3, JobsFinite, FS_RemoveElement

-----------------------------------------------------------------------------
(* The invariant *)

LEMMA BudgetInitInv == ASSUME Configured PROVE BudgetInit => BudgetInv
<1> SUFFICES ASSUME BudgetInit PROVE BudgetInv
  OBVIOUS
<1> USE DEF BudgetInit, NoRun
<1>1. Cost(run.waiting) = 0
  BY CheapCostsNothing
<1>2. BudgetTypeOK
  BY DEF BudgetTypeOK, Days, Configured
<1>3. OwedIsCovered
  BY <1>1 DEF OwedIsCovered, Owed, Configured
<1> QED
  BY <1>2, <1>3 DEF BudgetInv, DatesInOrder, WaitingIsRunning

LEMMA StartModelInv ==
  ASSUME Configured, BudgetInv, NEW m \in ProbeModels, NEW wrote \in BOOLEAN, StartModel(m, wrote)
  PROVE  BudgetInv'
<1> DEFINE jobs == JobsOf(m)
           cost == Cost(jobs)
<1>1. /\ BudgetTypeOK /\ DatesInOrder /\ run.waiting = {} /\ OwedIsCovered
  BY DEF BudgetInv, WaitingIsRunning, StartModel
<1>2. jobs \in SUBSET Jobs
  BY <1>1 DEF BudgetTypeOK, JobsOf, Jobs
<1>3. cost \in Nat /\ Cost(run.waiting) = 0
  BY <1>1, <1>2, CostIsNat, CheapCostsNothing
<1>4. run' = [running |-> TRUE, waiting |-> jobs, asked |-> {}]
      /\ charged' = day /\ sent' = sent /\ day' = day /\ unverified' = unverified
  BY DEF StartModel, Started
<1>5. Cost(run.waiting)' = cost
  BY <1>4
<1> HIDE DEF jobs, cost
<1>6. CASE cost > 0
  <2>1. Reserved(cost, wrote)
    BY <1>6 DEF StartModel, cost, jobs
  <2>2. /\ budget' \in [readable : BOOLEAN, date : 0..LastDay, used : 0..DailyLimit]
        /\ budget'.date = day
        /\ budget'.used = UsedToday + cost
        /\ UsedToday \in Nat
    <3>1. budget' = [budget EXCEPT !.date = day, !.used = UsedToday + cost]
          /\ UsedToday + cost <= DailyLimit
      BY <2>1 DEF Reserved
    <3>2. budget \in [readable : BOOLEAN, date : 0..LastDay, used : 0..DailyLimit]
          /\ day \in 0..LastDay
      BY <1>1 DEF BudgetTypeOK, Days, Configured
    <3>3. UsedToday \in Nat
      BY <3>2 DEF UsedToday, Configured
    <3>4. UsedToday + cost \in 0..DailyLimit
      BY <1>3, <3>1, <3>3 DEF Configured
    <3> HIDE DEF UsedToday
    <3> QED BY <3>1, <3>2, <3>3, <3>4
  <2>3. BudgetTypeOK'
    BY <1>1, <1>2, <1>4, <2>2 DEF BudgetTypeOK
  <2>4. OwedIsCovered'
    <3> SUFFICES ASSUME NEW d \in Days
                 PROVE  /\ Owed(d)' <= DailyLimit
                        /\ d = budget'.date => Owed(d)' <= budget'.used
                        /\ d > budget'.date => Owed(d)' = 0
      BY DEF OwedIsCovered
    <3>1. /\ sent[d] \in Nat /\ Owed(d) = sent[d]
          /\ d \in Nat /\ day \in Nat /\ budget.date \in Nat /\ budget.date <= day
      BY <1>1, <1>3 DEF BudgetTypeOK, Owed, Days, DatesInOrder
    <3>2. /\ sent[d] <= DailyLimit
          /\ d = budget.date => sent[d] <= budget.used
          /\ d > budget.date => sent[d] = 0
      BY <1>1, <3>1 DEF OwedIsCovered
    <3>3. Owed(d)' = sent[d] + (IF d = day THEN cost ELSE 0)
      BY <1>4, <1>5 DEF Owed
    <3>4. budget'.used \in 0..DailyLimit /\ DailyLimit \in Nat
      BY <2>2 DEF Configured
    <3>5. CASE d = day
      <4>1. sent[d] <= UsedToday
        BY <3>1, <3>2, <3>5 DEF UsedToday
      <4> QED BY <1>3, <2>2, <3>1, <3>3, <3>4, <3>5, <4>1
    <3>6. CASE d # day
      BY <2>2, <3>1, <3>2, <3>3, <3>6
    <3> QED BY <3>5, <3>6
  <2> QED
    BY <1>1, <1>4, <2>2, <2>3, <2>4 DEF BudgetInv, DatesInOrder, WaitingIsRunning, BudgetTypeOK, Days
<1>7. CASE ~(cost > 0)
  <2>1. cost = 0 /\ budget' = budget
    BY <1>3, <1>7 DEF StartModel, cost, jobs
  <2>2. BudgetTypeOK'
    BY <1>1, <1>2, <1>4, <2>1 DEF BudgetTypeOK
  <2>3. \A d \in Days : Owed(d)' = Owed(d)
    BY <1>1, <1>3, <1>4, <1>5, <2>1 DEF Owed, BudgetTypeOK
  <2> QED
    BY <1>1, <1>4, <2>1, <2>2, <2>3
    DEF BudgetInv, DatesInOrder, WaitingIsRunning, OwedIsCovered, BudgetTypeOK, Days
<1> QED
  BY <1>6, <1>7

\* A step that leaves the files and the calendar alone, and owes no day more.
LEMMA OwedNoMore ==
  ASSUME Configured, BudgetInv, BudgetTypeOK', WaitingIsRunning', day' = day, budget'.date = budget.date,
         budget'.used = budget.used, charged' <= day,
         \A d \in Days : Owed(d)' <= Owed(d) /\ Owed(d)' \in Nat /\ Owed(d) \in Nat
  PROVE  BudgetInv'
<1>1. OwedIsCovered'
  <2> SUFFICES ASSUME NEW d \in Days
               PROVE  /\ Owed(d)' <= DailyLimit
                      /\ d = budget'.date => Owed(d)' <= budget'.used
                      /\ d > budget'.date => Owed(d)' = 0
    BY DEF OwedIsCovered
  <2>1. /\ Owed(d) <= DailyLimit
        /\ d = budget.date => Owed(d) <= budget.used
        /\ d > budget.date => Owed(d) = 0
    BY DEF BudgetInv, OwedIsCovered
  <2>2. budget.used \in Int /\ DailyLimit \in Int /\ Owed(d)' \in Nat /\ Owed(d) \in Nat
        /\ Owed(d)' <= Owed(d)
    BY DEF BudgetInv, BudgetTypeOK, Configured
  <2> QED
    BY <2>1, <2>2
<1> QED
  BY <1>1 DEF BudgetInv, DatesInOrder

\* Owed is a number.
LEMMA OwedIsNat == ASSUME Configured, BudgetTypeOK PROVE \A d \in Days : Owed(d) \in Nat
BY CostIsNat DEF BudgetTypeOK, Owed

LEMMA BudgetNextInv == ASSUME Configured, BudgetInv, [BudgetNext]_budgetVars PROVE BudgetInv'
<1>0. /\ BudgetTypeOK /\ DatesInOrder /\ WaitingIsRunning
      /\ \A d \in Days : Owed(d) \in Nat /\ sent[d] \in Nat
  BY OwedIsNat DEF BudgetInv, BudgetTypeOK
<1>1. ASSUME NEW m \in ProbeModels, NEW wrote \in BOOLEAN, StartModel(m, wrote) PROVE BudgetInv'
  BY <1>1, StartModelInv
<1>2. ASSUME NEW chosen \in SUBSET ProbeModels, StartCheap(chosen) PROVE BudgetInv'
  <2> DEFINE jobs == {j \in Jobs : j[1] \in chosen /\ j[2] \in unverified[j[1]] \ Expensive}
  <2>1. run' = [running |-> TRUE, waiting |-> jobs, asked |-> {}]
        /\ charged' = day /\ UNCHANGED <<day, budget, unverified, sent>>
    BY <1>2 DEF StartCheap, Started
  <2>2. Cost(run.waiting)' = 0
    BY <2>1, CheapCostsNothing
  <2>3. BudgetTypeOK' /\ WaitingIsRunning'
    BY <1>0, <2>1 DEF BudgetTypeOK, WaitingIsRunning
  <2>4. \A d \in Days : Owed(d)' <= Owed(d) /\ Owed(d)' \in Nat
    <3>1. Cost(run.waiting) \in Nat
      BY <1>0, CostIsNat DEF BudgetTypeOK
    <3> QED BY <1>0, <2>1, <2>2, <3>1 DEF Owed
  <2> QED
    <3>1. charged' <= day
      BY <1>0, <2>1 DEF BudgetTypeOK, Days, Configured
    <3> QED BY <1>0, <2>1, <2>3, <2>4, <3>1, OwedNoMore
<1>3. ASSUME NEW j \in Jobs, Send(j) PROVE BudgetInv'
  <2>1. /\ j \in run.waiting /\ run.waiting \in SUBSET Jobs
        /\ run' = [run EXCEPT !.waiting = @ \ {j}, !.asked = @ \cup {j}]
        /\ UNCHANGED <<day, budget, unverified, charged>>
    BY <1>0, <1>3 DEF Send, BudgetTypeOK
  <2>2. run'.waiting = run.waiting \ {j}
    BY <1>0, <2>1 DEF BudgetTypeOK
  <2>3. Cost(run.waiting)' =
          IF j[2] \in Expensive THEN Cost(run.waiting) - 1 ELSE Cost(run.waiting)
    BY <2>1, <2>2, CostWithout
  <2>4. Cost(run.waiting) \in Nat
    BY <2>1, CostIsNat
  <2>5. sent' = [sent EXCEPT ![charged] = IF j[2] \in Expensive THEN @ + 1 ELSE @]
    BY <1>0, <1>3 DEF Send, BudgetTypeOK
  <2>6. BudgetTypeOK' /\ WaitingIsRunning'
    <3>1. run' \in [running : BOOLEAN, waiting : SUBSET Jobs, asked : SUBSET Jobs]
      BY <1>0, <2>1 DEF BudgetTypeOK
    <3>2. sent' \in [Days -> Nat]
      BY <1>0, <2>5 DEF BudgetTypeOK
    <3>3. WaitingIsRunning'
      BY <1>0, <2>1, <2>2 DEF BudgetTypeOK, WaitingIsRunning
    <3> QED BY <1>0, <2>1, <3>1, <3>2, <3>3 DEF BudgetTypeOK
  <2>7. \A d \in Days : Owed(d)' = Owed(d)
    BY <1>0, <2>1, <2>3, <2>4, <2>5 DEF Owed, BudgetTypeOK
  <2> QED
    BY <1>0, <2>1, <2>6, <2>7, OwedNoMore DEF DatesInOrder
<1>4. ASSUME NEW j \in Jobs, NEW ok \in BOOLEAN, Answered(j, ok) PROVE BudgetInv'
  <2>1. run'.waiting = run.waiting
        /\ run' \in [running : BOOLEAN, waiting : SUBSET Jobs, asked : SUBSET Jobs]
        /\ UNCHANGED <<day, budget, charged, sent>>
    BY <1>0, <1>4 DEF Answered, NoRun, BudgetTypeOK
  <2>2. unverified' \in [ProbeModels -> SUBSET AllFunctions]
    BY <1>0, <1>4 DEF Answered, BudgetTypeOK, Jobs
  <2>3. WaitingIsRunning'
    BY <1>0, <1>4 DEF Answered, WaitingIsRunning, NoRun, BudgetTypeOK
  <2>4. BudgetTypeOK'
    BY <1>0, <2>1, <2>2 DEF BudgetTypeOK
  <2>5. \A d \in Days : Owed(d)' = Owed(d)
    BY <2>1 DEF Owed
  <2> QED
    BY <1>0, <2>1, <2>3, <2>4, <2>5, OwedNoMore DEF DatesInOrder
<1>5. ASSUME NEW m \in ProbeModels, Forget(m) PROVE BudgetInv'
  <2>1. BudgetTypeOK'
    BY <1>0, <1>5 DEF Forget, BudgetTypeOK, Configured
  <2>2. \A d \in Days : Owed(d)' = Owed(d)
    BY <1>5 DEF Forget, Owed
  <2> QED
    BY <1>0, <1>5, <2>1, <2>2, OwedNoMore DEF Forget, DatesInOrder, WaitingIsRunning
<1>6. CASE Midnight
  <2>1. BudgetTypeOK'
    BY <1>0, <1>6 DEF Midnight, BudgetTypeOK, Days, Configured
  <2>2. OwedIsCovered'
    BY <1>6 DEF Midnight, BudgetInv, OwedIsCovered, Owed
  <2> QED
    BY <1>0, <1>6, <2>1, <2>2 DEF Midnight, BudgetInv, DatesInOrder, WaitingIsRunning, BudgetTypeOK, Days
<1>7. CASE DamageBudget
  <2>1. BudgetTypeOK' /\ budget'.date = budget.date /\ budget'.used = budget.used
    BY <1>0, <1>7 DEF DamageBudget, BudgetTypeOK
  <2>2. \A d \in Days : Owed(d)' = Owed(d)
    BY <1>7 DEF DamageBudget, Owed
  <2> QED
    BY <1>0, <1>7, <2>1, <2>2, OwedNoMore DEF DamageBudget, DatesInOrder, WaitingIsRunning
<1>8. CASE BudgetRestart
  <2>1. BudgetTypeOK' /\ WaitingIsRunning' /\ run'.waiting = {}
    BY <1>0, <1>8 DEF BudgetRestart, NoRun, BudgetTypeOK, WaitingIsRunning
  <2>2. Cost(run.waiting)' = 0
    BY <2>1, CheapCostsNothing
  <2>3. \A d \in Days : Owed(d)' <= Owed(d) /\ Owed(d)' \in Nat
    <3>1. Cost(run.waiting) \in Nat
      BY <1>0, CostIsNat DEF BudgetTypeOK
    <3> QED BY <1>0, <1>8, <2>2, <3>1 DEF BudgetRestart, Owed
  <2> QED
    BY <1>0, <1>8, <2>1, <2>3, OwedNoMore DEF BudgetRestart, DatesInOrder
<1>9. CASE UNCHANGED budgetVars
  BY <1>9 DEF budgetVars, BudgetInv, BudgetTypeOK, DatesInOrder, WaitingIsRunning, OwedIsCovered, Owed
<1> QED
  BY <1>1, <1>2, <1>3, <1>4, <1>5, <1>6, <1>7, <1>8, <1>9 DEF BudgetNext

\* The runs charged to one day never send more expensive requests than the limit
\* (StartModel, reserveExpensiveBudget), whatever fails, restarts or crosses
\* midnight between the charge and the requests.
THEOREM BudgetHolds == BudgetSpec => []DailyBudgetHolds
<1>0. Configured
  BY BudgetAssumption
<1>1. BudgetInit => BudgetInv
  BY <1>0, BudgetInitInv
<1>2. BudgetInv /\ [BudgetNext]_budgetVars => BudgetInv'
  BY <1>0, BudgetNextInv
<1>3. BudgetInv => DailyBudgetHolds
  <2> SUFFICES ASSUME BudgetInv, NEW d \in Days PROVE sent[d] <= DailyLimit
    BY DEF DailyBudgetHolds
  <2>1. sent[d] \in Nat /\ Owed(d) <= DailyLimit /\ DailyLimit \in Nat
        /\ Cost(run.waiting) \in Nat
    BY <1>0, CostIsNat DEF BudgetInv, BudgetTypeOK, OwedIsCovered, Configured
  <2> QED
    BY <2>1 DEF Owed
<1> QED
  BY <1>1, <1>2, <1>3, PTL DEF BudgetSpec

-----------------------------------------------------------------------------
(* The statistics (Statistics), target by target.                            *)


Counters == [requests : Nat, successes : Nat, failures : Nat,
             reported : Nat, missing : Nat, tokens : Nat]

\* The file never counts more than a server that has loaded it.
UsageInv ==
  /\ loaded \in BOOLEAN
  /\ models \in [Tracked -> Counters]
  /\ saved \in [Tracked -> Counters]
  /\ loaded => \A t \in Tracked : saved[t].requests <= models[t].requests

\* One more request, whatever its outcome and usage.
LEMMA CountedOnce ==
  ASSUME NEW item \in Counters, NEW success \in BOOLEAN, NEW use \in Usage
  PROVE  /\ Counted(item, success, use) \in Counters
         /\ Counted(item, success, use).requests = item.requests + 1
<1>1. Tokens(use) \in Nat
  BY DEF Usage, Tokens
<1> DEFINE begun == [item EXCEPT !.requests = @ + 1]
           asked == IF success THEN [begun EXCEPT !.successes = @ + 1]
                    ELSE [begun EXCEPT !.failures = @ + 1]
           reported == [asked EXCEPT !.reported = @ + 1]
<1>2. begun \in Counters /\ begun.requests = item.requests + 1
  BY DEF Counters
<1>3. \/ Counted(item, success, use) = asked
      \/ Counted(item, success, use) = [asked EXCEPT !.missing = @ + 1]
      \/ Counted(item, success, use) = [reported EXCEPT !.tokens = @ + Tokens(use)]
  BY DEF Counted, Counters
<1> HIDE DEF begun
<1>4. asked \in Counters /\ asked.requests = begun.requests
  BY <1>2 DEF Counters
<1> HIDE DEF asked
<1>5. /\ [asked EXCEPT !.missing = @ + 1] \in Counters
      /\ [asked EXCEPT !.missing = @ + 1].requests = asked.requests
  BY <1>4 DEF Counters
<1>6. reported \in Counters /\ reported.requests = asked.requests
  BY <1>4 DEF Counters
<1> HIDE DEF reported
<1>7. /\ [reported EXCEPT !.tokens = @ + Tokens(use)] \in Counters
      /\ [reported EXCEPT !.tokens = @ + Tokens(use)].requests = reported.requests
  BY <1>1, <1>6 DEF Counters
<1> QED BY <1>2, <1>3, <1>4, <1>5, <1>6, <1>7

\* After one more request of t the file holds what it held, or what is counted now.
LEMMA RecordDurable ==
  ASSUME UsageInv, NEW t \in Tracked, NEW success \in BOOLEAN, NEW use \in Usage,
         NEW ok \in BOOLEAN, Record(t, success, use, ok)
  PROVE  /\ UsageInv'
         /\ \A u \in Tracked : Ledger(u)!Change \/ Ledger(u)!Save
<1> DEFINE item == Counted(models[t], success, use)
<1>1. models[t] \in Counters /\ item \in Counters /\ item.requests = models[t].requests + 1
  BY CountedOnce DEF UsageInv
<1>2. models' = [models EXCEPT ![t] = item] /\ loaded /\ loaded' = loaded
  BY DEF Record
<1>3. saved' = models' \/ saved' = saved
  BY DEF Record, Persist
<1> HIDE DEF item
<1>4. \A u \in Tracked : /\ models'[u] \in Counters
                         /\ models'[u].requests = models[u].requests + IF u = t THEN 1 ELSE 0
  BY <1>1, <1>2 DEF UsageInv, Counters
<1>5. models' \in [Tracked -> Counters]
  BY <1>2, <1>4 DEF UsageInv
<1>6. \A u \in Tracked : saved[u].requests <= models[u].requests
                         /\ saved[u].requests \in Nat /\ models[u].requests \in Nat
  BY <1>2 DEF UsageInv, Counters
<1>7. UsageInv'
  BY <1>2, <1>3, <1>4, <1>5, <1>6 DEF UsageInv
<1>8. ASSUME NEW u \in Tracked PROVE Ledger(u)!Change \/ Ledger(u)!Save
  <2>1. CASE u = t
    <3>1. models'[u].requests = models[u].requests + 1
      BY <1>4, <2>1
    <3> QED BY <1>2, <1>3, <3>1 DEF Ledger!Change
  <2>2. CASE u # t
    <3>1. models'[u].requests = models[u].requests
      BY <1>4, <1>6, <2>2
    <3>2. saved'[u].requests \in saved[u].requests..models[u].requests
      BY <1>3, <1>6, <3>1
    <3> QED BY <1>2, <3>1, <3>2 DEF Ledger!Save
  <2> QED BY <2>1, <2>2
<1> QED BY <1>7, <1>8

LEMMA UsageStepDurable ==
  ASSUME UsageInv, [UsageNext]_usageVars
  PROVE  /\ UsageInv'
         /\ \A u \in Tracked : Ledger(u)!Next \/ UNCHANGED Ledger(u)!version
<1>1. ASSUME NEW t \in Tracked, NEW success \in BOOLEAN, NEW use \in Usage, NEW ok \in BOOLEAN,
             Record(t, success, use, ok)
      PROVE  UsageInv' /\ \A u \in Tracked : Ledger(u)!Next
  BY <1>1, RecordDurable DEF Ledger!Next
<1>2. CASE New
  <2>1. UsageInv'
    <3>1. Zeros \in [Tracked -> Counters]
      BY DEF Zeros, Zero, Counters
    <3>2. \A u \in Tracked : saved[u].requests \in Nat
      BY DEF UsageInv, Counters
    <3>3. CASE readable
      BY <1>2, <3>2, <3>3 DEF New, UsageInv
    <3>4. CASE ~readable
      <4>1. /\ loaded' = FALSE /\ models' \in [Tracked -> Counters]
            /\ saved' \in [Tracked -> Counters]
        <5>1. loaded' = readable
          BY <1>2 DEF New
        <5> QED BY <1>2, <3>1, <3>4, <5>1 DEF New, UsageInv
      <4> QED BY <4>1 DEF UsageInv
    <3> QED BY <3>3, <3>4
  <2>2. \A u \in Tracked : Ledger(u)!Restart
    BY <1>2 DEF New, Ledger!Restart
  <2> QED BY <2>1, <2>2 DEF Ledger!Next
<1>3. CASE UNCHANGED <<loaded, models, saved>>
  BY <1>3 DEF UsageInv, Ledger!version
<1> QED BY <1>1, <1>2, <1>3 DEF UsageNext, DamageUsage, RepairUsage, usageVars

\* Each target's counter is a durable state: the file never falls behind what it
\* held, and a server goes on from it, however many saves fail.
THEOREM StatisticsAreDurable == UsageSpec => NeverUncounted
<1>1. UsageInit => UsageInv
  <2> SUFFICES ASSUME UsageInit PROVE UsageInv
    OBVIOUS
  <2>1. Zeros \in [Tracked -> Counters]
    BY DEF Zeros, Zero, Counters
  <2> QED BY <2>1 DEF UsageInit, UsageInv
<1>2. UsageInit => \A t \in Tracked : Ledger(t)!Init
  BY DEF UsageInit, Zeros, Zero, Ledger!Init
<1>3. UsageInv /\ [UsageNext]_usageVars => UsageInv'
  BY UsageStepDurable
<1>4. UsageInv /\ [UsageNext]_usageVars =>
        [\A t \in Tracked : Ledger(t)!Next \/ UNCHANGED Ledger(t)!version]_usageVars
  BY UsageStepDurable
<1> QED BY <1>1, <1>2, <1>3, <1>4, PTL DEF UsageSpec, NeverUncounted

-----------------------------------------------------------------------------
(* The background service (Daemon).  What a command still has to do says     *)
(* what it can promise: a command that starts the service has one decisive   *)
(* step, which must succeed, and after it only steps about the tray.         *)

Verbs == {"binary", "env", "file", "stat", "remove", "remove-env",
          "bootout", "bootstrap", "enable", "disable", "kick", "kick-k",
          "start", "stop", "restart", "daemon-reload", "enable-now", "disable-now"}

ServiceStep == Verbs \X Labels \X {"must", "try", "loaded"}

Commands == {"none", "install", "start", "stop", "restart", "uninstall"}

ServiceTypeOK ==
  /\ goos \in {"darwin", "linux"}
  /\ binary \in Nat /\ env \in Nat /\ installs \in Nat
  /\ job \in [Labels -> Job]
  /\ command \in [name : Commands, script : Seq(ServiceStep), was : Nat \X Nat]
  /\ command = NoCommand \/ command.name \in DOMAIN Scripts
  /\ command # NoCommand => answer = NoAnswer
  /\ command.name = "install" => installs # 0
  /\ removed \in BOOLEAN

Starting == {"install", "start", "restart"}

\* The verb that leaves a server running, of which a starting script has one.
Brings(os, name) ==
  CASE os = "darwin" -> "kick-k"
    [] os = "linux" /\ name = "install" -> "enable-now"
    [] os = "linux" /\ name = "restart" -> "restart"
    [] OTHER -> "start"

Decisive(os, name, st) == st[1] = Brings(os, name) /\ st[2] = "server" /\ st[3] = "must"

\* The verbs that neither start nor stop anything under systemd.
Preparing == {"binary", "env", "file", "daemon-reload"}

Pending(os, name, script) == \E j \in 1..Len(script) : Decisive(os, name, script[j])

\* Only steps about the tray come after the decisive one, and what is installed is
\* never their concern.  systemd knows no tray, its decisive step is the last, and
\* what precedes it prepares.
ScriptSound(os, name, script) ==
  /\ \A i \in 1..Len(script) :
       script[i][1] \in {"binary", "env", "remove-env"} => script[i][2] = "server"
  /\ name \in Starting =>
       \A i \in 1..Len(script) :
         script[i][2] = "tray" \/ \E j \in i..Len(script) : Decisive(os, name, script[j])
  /\ name \in Starting /\ os = "linux" =>
       \A i \in 1..Len(script) : IF i = Len(script) THEN Decisive(os, name, script[i])
                                 ELSE script[i][1] \in Preparing
  /\ name # "install" => \A i \in 1..Len(script) : script[i][1] \notin {"binary", "file"}
  /\ os = "linux" => \A i \in 1..Len(script) : script[i][2] = "server"

\* What a starting command answers for.
Serves(name, was) ==
  /\ job["server"].runs # Off
  /\ goos = "linux" => job["server"].file
  /\ goos = "darwin" \/ name = "restart" \/ was = Off => job["server"].runs = Installed

CommandOnTrack ==
  command # NoCommand =>
    /\ ScriptSound(goos, command.name, command.script)
    /\ command.name \in Starting =>
         IF Pending(goos, command.name, command.script)
         THEN goos = "linux" /\ command.name # "restart" /\ command.was = Off
                => job["server"].runs = Off
         ELSE Serves(command.name, command.was)
    /\ command.name = "uninstall" =>
         \A l \in Labels : job[l].file =>
           \E i \in 1..Len(command.script) : command.script[i] = Must("remove", l)

\* The binary is the first thing installed, and it is never removed.
NothingWithoutBinary ==
  binary = 0 =>
    /\ \A l \in Labels : ~job[l].file /\ ~job[l].loaded /\ job[l].runs = Off
    /\ command.name = "install" => command.script = InstallScript

RemovedIsGone == removed => command.name # "install" /\ \A l \in Labels : ~job[l].file

LinuxHasNoTray == goos = "linux" => ~job["tray"].file /\ job["tray"].runs = Off

AnswerHolds == answer.name \in Starting => Serves(answer.name, answer.was)

ServiceInv == /\ ServiceTypeOK /\ CommandOnTrack /\ NothingWithoutBinary
              /\ RemovedIsGone /\ LinuxHasNoTray /\ AnswerHolds

-----------------------------------------------------------------------------

\* What is left of a sound script is sound, and only its decisive step decides.
LEMMA RestIsSound ==
  ASSUME NEW os \in {"darwin", "linux"}, NEW name, NEW script \in Seq(ServiceStep),
         script # <<>>, ScriptSound(os, name, script)
  PROVE  /\ Head(script) \in ServiceStep /\ Tail(script) \in Seq(ServiceStep)
         /\ ScriptSound(os, name, Tail(script))
         /\ Pending(os, name, script) <=>
              Decisive(os, name, Head(script)) \/ Pending(os, name, Tail(script))
         /\ name \in Starting /\ ~Pending(os, name, script) => Head(script)[2] = "tray"
         /\ name \in Starting /\ os = "linux" /\ Pending(os, name, Tail(script))
              => Head(script)[1] \in Preparing
         /\ \A st : (\E i \in 1..Len(script) : script[i] = st) /\ st # Head(script)
              => \E i \in 1..Len(Tail(script)) : Tail(script)[i] = st
<1> DEFINE rest == Tail(script)
           len == Len(script)
<1>1. /\ len \in Nat \ {0} /\ Len(rest) = len - 1 /\ Head(script) = script[1]
      /\ Head(script) \in ServiceStep /\ rest \in Seq(ServiceStep)
      /\ \A i \in 1..(len - 1) : rest[i] = script[i + 1]
  BY EmptySeq, HeadTailProperties
<1> HIDE DEF rest, len
<1>2. \A i \in 2..len : i - 1 \in 1..Len(rest) /\ rest[i - 1] = script[i]
  BY <1>1
<1>3. \A i \in 1..Len(rest) : i + 1 \in 2..len /\ rest[i] = script[i + 1]
  BY <1>1
<1>4. ScriptSound(os, name, rest)
  <2>1. \A i \in 1..Len(rest) :
          rest[i][1] \in {"binary", "env", "remove-env"} => rest[i][2] = "server"
    BY <1>1, <1>3 DEF ScriptSound, len
  <2>2. ASSUME name \in Starting, NEW i \in 1..Len(rest), rest[i][2] # "tray"
        PROVE  \E j \in i..Len(rest) : Decisive(os, name, rest[j])
    <3>0. i + 1 \in 1..len /\ rest[i] = script[i + 1]
      BY <1>1, <1>3
    <3>1. PICK j \in (i + 1)..len : Decisive(os, name, script[j])
      BY <2>2, <3>0 DEF ScriptSound, len
    <3>2. j - 1 \in i..Len(rest) /\ rest[j - 1] = script[j]
      BY <1>1, <1>2
    <3> QED BY <3>1, <3>2
  <2>3. ASSUME name \in Starting, os = "linux", NEW i \in 1..Len(rest)
        PROVE  IF i = Len(rest) THEN Decisive(os, name, rest[i]) ELSE rest[i][1] \in Preparing
    <3>1. i + 1 \in 1..len /\ rest[i] = script[i + 1] /\ (i = Len(rest) <=> i + 1 = len)
      BY <1>1, <1>3
    <3>2. IF i + 1 = len THEN Decisive(os, name, script[i + 1])
                         ELSE script[i + 1][1] \in Preparing
      BY <2>3, <3>1 DEF ScriptSound, len
    <3> QED BY <3>1, <3>2
  <2>4. name # "install" => \A i \in 1..Len(rest) : rest[i][1] \notin {"binary", "file"}
    BY <1>1, <1>3 DEF ScriptSound, len
  <2>5. os = "linux" => \A i \in 1..Len(rest) : rest[i][2] = "server"
    BY <1>1, <1>3 DEF ScriptSound, len
  <2> QED BY <2>1, <2>2, <2>3, <2>4, <2>5 DEF ScriptSound
<1>5. Pending(os, name, script) <=> Decisive(os, name, Head(script)) \/ Pending(os, name, rest)
  <2>1. ASSUME NEW j \in 1..len, Decisive(os, name, script[j]), j # 1
        PROVE  Pending(os, name, rest)
    BY <1>1, <1>2, <2>1 DEF Pending
  <2>2. Pending(os, name, rest) => Pending(os, name, script)
    BY <1>1, <1>3 DEF Pending, len
  <2>3. Decisive(os, name, Head(script)) => Pending(os, name, script)
    BY <1>1 DEF Pending, len
  <2>4. Pending(os, name, script) => \E j \in 1..len : Decisive(os, name, script[j])
    BY DEF Pending, len
  <2> QED BY <1>1, <2>1, <2>2, <2>3, <2>4
<1>6. name \in Starting /\ ~Pending(os, name, script) => Head(script)[2] = "tray"
  BY <1>1 DEF ScriptSound, Pending, len
<1>7. name \in Starting /\ os = "linux" /\ Pending(os, name, rest)
        => Head(script)[1] \in Preparing
  <2>1. Pending(os, name, rest) => len # 1
    BY <1>1 DEF Pending
  <2> QED BY <1>1, <2>1 DEF ScriptSound, len
<1>8. ASSUME NEW st, NEW i \in 1..len, script[i] = st, st # Head(script)
      PROVE  \E k \in 1..Len(rest) : rest[k] = st
  <2>1. i \in 2..len
    BY <1>1, <1>8
  <2> QED BY <1>2, <1>8, <2>1
<1> QED BY <1>1, <1>4, <1>5, <1>6, <1>7, <1>8 DEF rest, len

\* A starting command's script is sound when a decisive step ends what is not about
\* the tray.
LEMMA DecidedAt ==
  ASSUME NEW os \in {"darwin", "linux"}, NEW name \in Starting, NEW script \in Seq(ServiceStep),
         NEW k \in 1..Len(script), Decisive(os, name, script[k]),
         \A i \in 1..Len(script) : i > k => script[i][2] = "tray",
         \A i \in 1..Len(script) :
           /\ script[i][1] \in {"binary", "env", "remove-env"} => script[i][2] = "server"
           /\ script[i][1] \in {"binary", "file"} => name = "install",
         os = "linux" => /\ k = Len(script)
                         /\ \A i \in 1..Len(script) : script[i][2] = "server"
                         /\ \A i \in 1..Len(script) : i # k => script[i][1] \in Preparing
  PROVE  ScriptSound(os, name, script) /\ Pending(os, name, script)
<1>1. Pending(os, name, script)
  BY DEF Pending
<1>2. \A i \in 1..Len(script) :
        script[i][2] = "tray" \/ \E j \in i..Len(script) : Decisive(os, name, script[j])
  <2> SUFFICES ASSUME NEW i \in 1..Len(script), i <= k
               PROVE  k \in i..Len(script)
    OBVIOUS
  <2> QED OBVIOUS
<1>3. os = "linux" => \A i \in 1..Len(script) : IF i = Len(script) THEN Decisive(os, name, script[i])
                                                ELSE script[i][1] \in Preparing
  OBVIOUS
<1> QED BY <1>1, <1>2, <1>3 DEF ScriptSound

\* The twelve steps under launchd and the five under systemd that install.

LEMMA InstallSteps ==
  /\ goos = "darwin" =>
       LET s == InstallScript IN
       /\ s \in Seq(ServiceStep) /\ Len(s) = 12
       /\ s[1] = Must("binary", "server") /\ s[2] = Must("env", "server")
       /\ s[3] = Must("file", "server") /\ s[4] = Try("bootout", "server")
       /\ s[5] = Try("enable", "server") /\ s[6] = Must("bootstrap", "server")
       /\ s[7] = Must("kick-k", "server") /\ s[8] = Must("file", "tray")
       /\ s[9] = Try("bootout", "tray") /\ s[10] = Try("enable", "tray")
       /\ s[11] = Must("bootstrap", "tray") /\ s[12] = Must("kick-k", "tray")
  /\ goos # "darwin" =>
       LET s == InstallScript IN
       /\ s \in Seq(ServiceStep) /\ Len(s) = 5
       /\ s[1] = Must("binary", "server") /\ s[2] = Must("env", "server")
       /\ s[3] = Must("file", "server") /\ s[4] = Must("daemon-reload", "server")
       /\ s[5] = Must("enable-now", "server")
<1>1. \A v \in Verbs, l \in Labels : Must(v, l) \in ServiceStep /\ Try(v, l) \in ServiceStep
  BY DEF Must, Try, ServiceStep
<1> DEFINE e == <<Must("daemon-reload", "server"), Must("enable-now", "server")>>
           s == LaunchdJob("server")
           x == <<Must("file", "tray")>>
           t == LaunchdJob("tray")
<1>2. /\ InstallFiles \in Seq(ServiceStep) /\ e \in Seq(ServiceStep) /\ s \in Seq(ServiceStep)
      /\ x \in Seq(ServiceStep) /\ t \in Seq(ServiceStep)
  BY <1>1 DEF InstallFiles, LaunchdJob, Labels, Verbs
<1>3. CASE goos = "darwin"
  <2>1. InstallScript = InstallFiles \o ((s \o x) \o t)
    BY <1>3 DEF InstallScript
  <2>2. InstallScript \in Seq(ServiceStep)
    <3> HIDE DEF s, x, t
    <3>1. s \o x \in Seq(ServiceStep)
      BY <1>2
    <3>2. (s \o x) \o t \in Seq(ServiceStep)
      BY <1>2, <3>1
    <3> QED BY <1>2, <2>1, <3>2
  <2> QED BY <1>3, <2>1, <2>2 DEF InstallFiles, LaunchdJob
<1>4. CASE goos # "darwin"
  <2>1. InstallScript = InstallFiles \o e
    BY <1>4 DEF InstallScript
  <2>2. InstallScript \in Seq(ServiceStep)
    <3> HIDE DEF e
    <3> QED BY <1>2, <2>1
  <2> QED BY <1>4, <2>1, <2>2 DEF InstallFiles
<1> QED BY <1>3, <1>4

LEMMA ScriptsAreSound ==
  ASSUME goos \in {"darwin", "linux"}, NEW name \in DOMAIN Scripts
  PROVE  /\ Scripts[name] \in Seq(ServiceStep)
         /\ ScriptSound(goos, name, Scripts[name])
         /\ name \in Starting => Pending(goos, name, Scripts[name])
         /\ name = "uninstall" => \A l \in Labels : (goos = "linux" /\ l = "tray") \/
              \E i \in 1..Len(Scripts[name]) : Scripts[name][i] = Must("remove", l)
<1>1. CASE name = "install"
  <2> DEFINE script == InstallScript
  <2>1. Scripts[name] = script
    BY <1>1 DEF Scripts
  <2>2. CASE goos = "darwin"
    <3>1. /\ script \in Seq(ServiceStep) /\ Len(script) = 12
          /\ script[7] = Must("kick-k", "server")
      BY <2>2, InstallSteps, Zenon
    <3>4. 7 \in 1..Len(script)
      BY <3>1
    <3>3. Decisive(goos, name, script[7])
      BY <2>2, <3>1 DEF Decisive, Brings, Must
    <3>2. ASSUME NEW i \in 1..Len(script)
          PROVE  /\ i > 7 => script[i][2] = "tray"
                 /\ script[i][1] \in {"binary", "env", "remove-env"} => script[i][2] = "server"
      <4>1. \/ i = 1 \/ i = 2 \/ i = 3 \/ i = 4 \/ i = 5 \/ i = 6
            \/ i = 7 \/ i = 8 \/ i = 9 \/ i = 10 \/ i = 11 \/ i = 12
        BY <3>1
      <4> QED BY <2>2, <4>1, InstallSteps DEF Must, Try
    <3> HIDE DEF script
    <3> QED BY <1>1, <2>1, <2>2, <3>1, <3>2, <3>3, <3>4, DecidedAt DEF Starting
  <2>3. CASE goos = "linux"
    <3>1. /\ script \in Seq(ServiceStep) /\ Len(script) = 5
          /\ script[5] = Must("enable-now", "server") /\ goos # "darwin"
      BY <2>3, InstallSteps
    <3>4. 5 \in 1..Len(script)
      BY <3>1
    <3>2. ASSUME NEW i \in 1..Len(script)
          PROVE  /\ script[i][2] = "server"
                 /\ i # 5 => script[i][1] \in Preparing
      <4>1. i = 1 \/ i = 2 \/ i = 3 \/ i = 4 \/ i = 5
        BY <3>1
      <4> QED BY <2>3, <4>1, InstallSteps DEF Must, Preparing
    <3>5. \A i \in 1..Len(script) : i > 5 => script[i][2] = "tray"
      BY <3>1
    <3>6. \A i \in 1..Len(script) :
            /\ script[i][1] \in {"binary", "env", "remove-env"} => script[i][2] = "server"
            /\ script[i][1] \in {"binary", "file"} => name = "install"
      BY <1>1, <3>2
    <3>3. Decisive(goos, name, script[5])
      BY <1>1, <2>3, <3>1 DEF Decisive, Brings, Must
    <3> HIDE DEF script
    <3> QED BY <1>1, <2>1, <2>3, <3>1, <3>2, <3>3, <3>4, <3>5, <3>6, DecidedAt DEF Starting
  <2> QED BY <1>1, <2>2, <2>3
<1>2. CASE name \in {"start", "restart"} /\ goos = "darwin" /\ Scripts[name] = StartScript
  <2> DEFINE script == StartScript
  <2>1. /\ script \in Seq(ServiceStep) /\ Len(script) = 5 /\ 4 \in 1..Len(script)
        /\ script[1] = Must("stat", "server") /\ script[2] = Try("enable", "server")
        /\ script[3] = <<"bootstrap", "server", "loaded">>
        /\ script[4] = Must("kick-k", "server") /\ script[5] = Try("kick", "tray")
    BY <1>2 DEF StartScript, ServiceStep, Verbs, Labels, Must, Try
  <2> HIDE DEF script
  <2>2. ASSUME NEW i \in 1..Len(script)
        PROVE  /\ i > 4 => script[i][2] = "tray"
               /\ script[i][1] \notin {"binary", "env", "remove-env", "file"}
    <3>1. i = 1 \/ i = 2 \/ i = 3 \/ i = 4 \/ i = 5
      BY <2>1
    <3> QED BY <2>1, <3>1 DEF Must, Try
  <2>3. Decisive(goos, name, script[4])
    BY <1>2, <2>1 DEF Decisive, Brings, Must
  <2>4. ScriptSound(goos, name, script) /\ Pending(goos, name, script)
    BY <1>2, <2>1, <2>2, <2>3, DecidedAt DEF Starting
  <2> QED BY <1>2, <2>1, <2>4 DEF script
<1>3. CASE name \in {"start", "restart"} /\ ~(goos = "darwin" /\ Scripts[name] = StartScript)
  <2> DEFINE verb == IF goos = "darwin" THEN "kick-k" ELSE name
             script == Scripts[name]
  <2>1. script = <<Must(verb, "server")>> /\ verb = Brings(goos, name) /\ verb \in Verbs
    BY <1>3 DEF Scripts, StartScript, RestartScript, Brings, Verbs
  <2>2. verb \notin {"binary", "env", "remove-env", "file"}
    BY <1>3
  <2> HIDE DEF verb, script
  <2>3. script \in Seq(ServiceStep) /\ Len(script) = 1 /\ script[1] = Must(verb, "server")
    BY <2>1 DEF ServiceStep, Labels, Must
  <2>4. Decisive(goos, name, script[1])
    BY <2>1, <2>3 DEF Decisive, Must
  <2>5. \A i \in 1..Len(script) : i = 1 /\ script[i][1] = verb /\ script[i][2] = "server"
    BY <2>3 DEF Must
  <2>6. ScriptSound(goos, name, script) /\ Pending(goos, name, script)
    BY <1>3, <2>2, <2>3, <2>4, <2>5, DecidedAt DEF Starting
  <2> QED BY <1>3, <2>3, <2>6 DEF script
<1>4. CASE name = "stop"
  <2>1. Scripts[name] = StopScript
    BY <1>4 DEF Scripts
  <2> DEFINE script == StopScript
  <2>2. /\ script \in Seq(ServiceStep)
        /\ \A i \in 1..Len(script) : script[i][1] \in {"bootout", "stop"} /\ script[i][2] = "server"
    <3>1. CASE script = <<>>
      BY <3>1
    <3>2. CASE script = <<Must("bootout", "server")>>
      BY <3>2 DEF ServiceStep, Verbs, Labels, Must
    <3>3. CASE script = <<Must("stop", "server")>>
      BY <3>3 DEF ServiceStep, Verbs, Labels, Must
    <3> QED BY <3>1, <3>2, <3>3 DEF StopScript
  <2> HIDE DEF script
  <2> QED BY <1>4, <2>1, <2>2 DEF ScriptSound, Starting, script
<1>5. CASE name = "uninstall"
  <2>1. Scripts[name] = UninstallScript
    BY <1>5 DEF Scripts
  <2> DEFINE script == UninstallScript
  <2>2. CASE goos = "darwin"
    <3>1. /\ script \in Seq(ServiceStep) /\ Len(script) = 7
          /\ script[1] = Try("bootout", "tray") /\ script[2] = Try("disable", "tray")
          /\ script[3] = Try("bootout", "server") /\ script[4] = Try("disable", "server")
          /\ script[5] = Must("remove", "server") /\ script[6] = Must("remove", "tray")
          /\ script[7] = Try("remove-env", "server")
      BY <2>2 DEF UninstallScript, ServiceStep, Verbs, Labels, Must, Try
    <3> HIDE DEF script
    <3>2. ASSUME NEW i \in 1..Len(script)
          PROVE  /\ script[i][1] \notin {"binary", "env", "file"}
                 /\ script[i][1] = "remove-env" => script[i][2] = "server"
      <4>1. i = 1 \/ i = 2 \/ i = 3 \/ i = 4 \/ i = 5 \/ i = 6 \/ i = 7
        BY <3>1
      <4> QED BY <3>1, <4>1 DEF Must, Try
    <3>3. \A l \in Labels : \E i \in 1..Len(script) : script[i] = Must("remove", l)
      <4>1. 5 \in 1..Len(script) /\ 6 \in 1..Len(script)
        BY <3>1
      <4> QED BY <3>1, <4>1 DEF Labels
    <3> QED BY <1>5, <2>1, <2>2, <3>1, <3>2, <3>3 DEF ScriptSound, Starting, script
  <2>3. CASE goos = "linux"
    <3>1. /\ script \in Seq(ServiceStep) /\ Len(script) = 4
          /\ script[1] = Try("disable-now", "server") /\ script[2] = Must("remove", "server")
          /\ script[3] = Try("remove-env", "server") /\ script[4] = Must("daemon-reload", "server")
      BY <2>3 DEF UninstallScript, ServiceStep, Verbs, Labels, Must, Try
    <3> HIDE DEF script
    <3>2. ASSUME NEW i \in 1..Len(script)
          PROVE  script[i][1] \notin {"binary", "env", "file"} /\ script[i][2] = "server"
      <4>1. i = 1 \/ i = 2 \/ i = 3 \/ i = 4
        BY <3>1
      <4> QED BY <3>1, <4>1 DEF Must, Try
    <3>3. \E i \in 1..Len(script) : script[i] = Must("remove", "server")
      <4>1. 2 \in 1..Len(script)
        BY <3>1
      <4> QED BY <3>1, <4>1
    <3> QED BY <1>5, <2>1, <2>3, <3>1, <3>2, <3>3 DEF ScriptSound, Starting, Labels, script
  <2> QED BY <1>5, <2>2, <2>3
<1> QED BY <1>1, <1>2, <1>3, <1>4, <1>5 DEF Scripts

-----------------------------------------------------------------------------

\* What a step makes of a job is a job, and which steps change what it runs, whether
\* it has its file and whether it is loaded.
LEMMA EffectOfStep ==
  ASSUME binary \in Nat, env \in Nat, NEW j \in Job, NEW v \in Verbs
  PROVE  /\ Effect(v, j) \in Job
         /\ v \in Preparing => Effect(v, j).runs = j.runs
         /\ v # "file" => (Effect(v, j).file => j.file)
         /\ v = "remove" => ~Effect(v, j).file
         /\ v \in {"kick-k", "restart"} => Effect(v, j).runs = Installed
         /\ v \in {"start", "enable-now"} => Effect(v, j).runs = Begun(j.runs)
         /\ v \in {"restart", "start", "enable-now"} => Effect(v, j).file = j.file
         /\ v # "file" /\ Can(v, j) /\ ~j.file /\ ~j.loaded /\ j.runs = Off
              => /\ ~Effect(v, j).file /\ ~Effect(v, j).loaded
                 /\ Effect(v, j).runs = Off
<1>1. Installed \in Nat \X Nat /\ Begun(j.runs) \in Nat \X Nat /\ Off \in Nat \X Nat
  BY DEF Installed, Begun, Job, Off
<1> QED
  BY <1>1 DEF Effect, Can, Job, Verbs, Preparing

\* The step under way, when it is done or when it fails and the command goes on.
LEMMA DoneInv ==
  ASSUME ServiceInv, Proceed, Done, command' = [command EXCEPT !.script = Tail(@)]
  PROVE  ServiceInv'
<1> DEFINE name == command.name
           script == command.script
           rest == Tail(script)
           st == Head(script)
           v == st[1]
           l == st[2]
<1>1. /\ command # NoCommand /\ script # <<>> /\ name \in DOMAIN Scripts /\ name # "none"
      /\ goos \in {"darwin", "linux"} /\ script \in Seq(ServiceStep)
      /\ binary \in Nat /\ env \in Nat /\ installs \in Nat /\ job \in [Labels -> Job]
      /\ answer = NoAnswer
  BY DEF Proceed, NoCommand, ServiceInv, ServiceTypeOK, Scripts
<1>2. ScriptSound(goos, name, script)
  BY <1>1 DEF ServiceInv, CommandOnTrack
<1>3. /\ st \in ServiceStep /\ rest \in Seq(ServiceStep) /\ ScriptSound(goos, name, rest)
      /\ Pending(goos, name, script) <=> Decisive(goos, name, st) \/ Pending(goos, name, rest)
      /\ name \in Starting /\ ~Pending(goos, name, script) => st[2] = "tray"
      /\ name \in Starting /\ goos = "linux" /\ Pending(goos, name, rest)
           => st[1] \in Preparing
      /\ \A s : (\E i \in 1..Len(script) : script[i] = s) /\ s # st
           => \E i \in 1..Len(rest) : rest[i] = s
  BY <1>1, <1>2, RestIsSound
<1>4. /\ v \in Verbs /\ l \in Labels
      /\ v \in {"binary", "env", "remove-env"} => l = "server"
      /\ name # "install" => v \notin {"binary", "file"}
      /\ goos = "linux" => l = "server"
  <2>1. 1 \in 1..Len(script) /\ script[1] = st
    BY <1>1
  <2> QED BY <1>2, <1>3, <2>1 DEF ServiceStep, ScriptSound
<1>5. /\ Can(v, job[l]) /\ job' = [job EXCEPT ![l] = Effect(v, @)]
      /\ binary' = IF v = "binary" THEN installs ELSE binary
      /\ env' = CASE v = "env" -> installs [] v = "remove-env" -> 0 [] OTHER -> env
      /\ UNCHANGED <<goos, answer, removed, installs>>
  BY DEF Done, Step, Proceed
<1>6. /\ command'.name = name /\ command'.was = command.was /\ command'.script = rest
      /\ command' \in [name : Commands, script : Seq(ServiceStep), was : Nat \X Nat]
      /\ command' # NoCommand
  BY <1>1, <1>3 DEF ServiceInv, ServiceTypeOK, NoCommand
<1> HIDE DEF name, script, rest, st, v, l
<1>7. /\ Effect(v, job[l]) \in Job
      /\ \A k \in Labels : job'[k] = IF k = l THEN Effect(v, job[l]) ELSE job[k]
      /\ job' \in [Labels -> Job]
  BY <1>1, <1>4, <1>5, EffectOfStep
<1>8. name = "install" => installs # 0
  BY DEF ServiceInv, ServiceTypeOK, name
<1>9. ServiceTypeOK'
  <2>1. binary' \in Nat /\ env' \in Nat
    BY <1>1, <1>5
  <2> QED BY <1>1, <1>5, <1>6, <1>7, <1>8, <2>1 DEF ServiceInv, ServiceTypeOK, Scripts
<1>10. NothingWithoutBinary'
  <2> SUFFICES ASSUME binary' = 0
               PROVE  /\ \A k \in Labels : ~job'[k].file /\ ~job'[k].loaded /\ job'[k].runs = Off
                      /\ name # "install"
    BY <1>6 DEF NothingWithoutBinary
  <2>1. v # "binary" /\ binary = 0
    BY <1>4, <1>5, <1>8
  <2>2. name # "install"
    <3>1. name = "install" => script = InstallScript
      BY <2>1 DEF ServiceInv, NothingWithoutBinary, name, script
    <3>2. InstallScript[1] = Must("binary", "server") /\ InstallScript \in Seq(ServiceStep)
      BY <1>1, InstallSteps
    <3>3. name = "install" => st = Must("binary", "server")
      BY <1>1, <3>1, <3>2 DEF st
    <3> QED BY <2>1, <3>3 DEF v, Must
  <2>3. \A k \in Labels : ~job[k].file /\ ~job[k].loaded /\ job[k].runs = Off
    BY <2>1 DEF ServiceInv, NothingWithoutBinary
  <2> QED BY <1>1, <1>4, <1>5, <1>7, <2>2, <2>3, EffectOfStep
<1>11. RemovedIsGone'
  <2>1. removed => name # "install" /\ \A k \in Labels : ~job[k].file
    BY DEF ServiceInv, RemovedIsGone, name
  <2> QED BY <1>1, <1>4, <1>5, <1>6, <1>7, <2>1, EffectOfStep DEF RemovedIsGone
<1>12. LinuxHasNoTray'
  <2>1. goos = "linux" => job'["tray"] = job["tray"]
    BY <1>4, <1>7 DEF Labels
  <2> QED BY <1>5, <2>1 DEF ServiceInv, LinuxHasNoTray
<1>13. AnswerHolds'
  BY <1>1, <1>5 DEF AnswerHolds, NoAnswer, Starting
<1>14. ASSUME name \in Starting, Pending(goos, name, rest),
              goos = "linux", name # "restart", command.was = Off
       PROVE  job'["server"].runs = Off
  <2>1. job["server"].runs = Off
    BY <1>1, <1>3, <1>14 DEF ServiceInv, CommandOnTrack, name, script
  <2>2. v \in Preparing
    BY <1>3, <1>14 DEF v
  <2> QED BY <1>1, <1>4, <1>7, <2>1, <2>2, EffectOfStep DEF Labels
<1>15. ASSUME name \in Starting, ~Pending(goos, name, rest)
       PROVE  Serves(command.name, command.was)'
  <2>1. CASE Decisive(goos, name, st)
    <3>1. v = Brings(goos, name) /\ l = "server" /\ Pending(goos, name, script)
      BY <1>3, <2>1 DEF Decisive, v, l
    <3>2. binary' = binary /\ env' = env /\ Installed' = Installed
      BY <1>5, <3>1 DEF Brings, Installed
    <3>3. goos = "linux" /\ name # "restart" /\ command.was = Off => job["server"].runs = Off
      BY <1>1, <1>15, <3>1 DEF ServiceInv, CommandOnTrack, name, script
    <3>4. job'["server"] = Effect(v, job["server"])
      BY <1>4, <1>7, <3>1
    <3>5. Can(v, job["server"]) /\ job["server"] \in Job
      BY <1>1, <1>4, <1>5, <3>1
    <3>6. binary # 0
      <4>1. Can(v, job["server"]) => job["server"].loaded \/ job["server"].file
        BY <3>1, <1>15 DEF Can, Brings, Starting
      <4> QED BY <3>5, <4>1 DEF ServiceInv, NothingWithoutBinary, Labels
    <3>7. Installed # Off
      BY <3>6 DEF Installed, Off
    <3>8. CASE goos = "darwin"
      <4>1. job'["server"].runs = Installed
        BY <1>1, <1>4, <3>1, <3>4, <3>5, <3>8, EffectOfStep DEF Brings
      <4> QED BY <1>5, <3>2, <3>7, <3>8, <4>1 DEF Serves
    <3>9. CASE goos = "linux" /\ name = "restart"
      <4>1. v = "restart"
        BY <3>1, <3>9 DEF Brings
      <4>2. job'["server"].runs = Installed /\ job'["server"].file = job["server"].file
        BY <1>1, <1>4, <3>4, <3>5, <4>1, EffectOfStep
      <4>3. job["server"].file
        BY <3>5, <4>1 DEF Can
      <4> QED BY <1>5, <3>2, <3>7, <3>9, <4>2, <4>3 DEF Serves
    <3>10. CASE goos = "linux" /\ name # "restart"
      <4>1. v \in {"start", "enable-now"}
        BY <3>1, <3>10 DEF Brings
      <4>2. /\ job'["server"].runs = Begun(job["server"].runs)
            /\ job'["server"].file = job["server"].file
        BY <1>1, <1>4, <3>4, <3>5, <4>1, EffectOfStep
      <4>3. job["server"].file
        BY <3>5, <4>1 DEF Can
      <4> QED BY <1>5, <1>6, <3>2, <3>3, <3>7, <3>10, <4>2, <4>3 DEF Serves, Begun, name
    <3> QED BY <1>1, <3>8, <3>9, <3>10
  <2>2. CASE ~Decisive(goos, name, st)
    <3>1. ~Pending(goos, name, script) /\ l = "tray"
      BY <1>3, <1>15, <2>2 DEF l
    <3>2. Serves(name, command.was)
      BY <1>1, <1>15, <3>1 DEF ServiceInv, CommandOnTrack, name, script
    <3>3. job'["server"] = job["server"] /\ binary' = binary /\ env' = env
      BY <1>4, <1>5, <1>7, <3>1 DEF Labels
    <3> QED BY <1>5, <1>6, <3>2, <3>3 DEF Serves, Installed, name
  <2> QED BY <2>1, <2>2
<1>16. ASSUME name = "uninstall", NEW k \in Labels, job'[k].file
       PROVE  \E i \in 1..Len(rest) : rest[i] = Must("remove", k)
  <2>1. job[k].file /\ st # Must("remove", k)
    <3>1. v # "file"
      BY <1>4, <1>16
    <3> QED BY <1>1, <1>4, <1>7, <1>16, <3>1, EffectOfStep DEF Must, v, l
  <2>2. \E i \in 1..Len(script) : script[i] = Must("remove", k)
    BY <1>1, <1>16, <2>1 DEF ServiceInv, CommandOnTrack, name, script
  <2> QED BY <1>3, <2>1, <2>2
<1>17. CommandOnTrack'
  <2>1. ScriptSound(goos, command.name, command.script)'
    BY <1>3, <1>5, <1>6
  <2>2. Pending(goos, command.name, command.script)' <=> Pending(goos, name, rest)
    BY <1>5, <1>6
  <2> QED BY <1>5, <1>6, <1>14, <1>15, <1>16, <2>1, <2>2 DEF CommandOnTrack
<1> QED BY <1>9, <1>10, <1>11, <1>12, <1>13, <1>17 DEF ServiceInv

\* A unit file that could not be written is no file, and changes nothing else.
LEMMA FileLost ==
  ASSUME NEW jobs \in [Labels -> Job], NEW l \in Labels,
         NEW after, after = jobs \/ after = [jobs EXCEPT ![l].file = FALSE]
  PROVE  /\ after \in [Labels -> Job]
         /\ \A k \in Labels : /\ after[k].runs = jobs[k].runs
                              /\ after[k].loaded = jobs[k].loaded
                              /\ after[k].file => jobs[k].file
                              /\ k # l => after[k] = jobs[k]
<1> DEFINE lost == [jobs[l] EXCEPT !.file = FALSE]
<1>1. /\ lost \in Job /\ ~lost.file
      /\ lost.runs = jobs[l].runs /\ lost.loaded = jobs[l].loaded
  BY DEF Job
<1> HIDE DEF lost
<1>2. [jobs EXCEPT ![l].file = FALSE] = [jobs EXCEPT ![l] = lost]
  BY DEF lost
<1>3. CASE after = [jobs EXCEPT ![l] = lost]
  BY <1>1, <1>3
<1>4. CASE after = jobs
  BY <1>4
<1> QED BY <1>2, <1>3, <1>4

\* A step that fails and is ignored.  The decisive one is not.
LEMMA IgnoredInv ==
  ASSUME ServiceInv, Proceed, Failed, GoesOn, command' = [command EXCEPT !.script = Tail(@)]
  PROVE  ServiceInv'
<1> DEFINE name == command.name
           script == command.script
           rest == Tail(script)
           st == Head(script)
           v == st[1]
           l == st[2]
<1>1. /\ command # NoCommand /\ script # <<>> /\ name \in DOMAIN Scripts /\ name # "none"
      /\ goos \in {"darwin", "linux"} /\ script \in Seq(ServiceStep)
      /\ binary \in Nat /\ env \in Nat /\ installs \in Nat /\ job \in [Labels -> Job]
      /\ answer = NoAnswer
  BY DEF Proceed, NoCommand, ServiceInv, ServiceTypeOK, Scripts
<1>2. ScriptSound(goos, name, script)
  BY <1>1 DEF ServiceInv, CommandOnTrack
<1>3. /\ st \in ServiceStep /\ rest \in Seq(ServiceStep) /\ ScriptSound(goos, name, rest)
      /\ Pending(goos, name, script) <=> Decisive(goos, name, st) \/ Pending(goos, name, rest)
      /\ name \in Starting /\ ~Pending(goos, name, script) => st[2] = "tray"
      /\ \A s : (\E i \in 1..Len(script) : script[i] = s) /\ s # st
           => \E i \in 1..Len(rest) : rest[i] = s
  BY <1>1, <1>2, RestIsSound
<1>4. /\ v \in Verbs /\ l \in Labels /\ st[3] # "must"
      /\ v \in {"binary", "env", "remove-env"} => l = "server"
  <2>1. 1 \in 1..Len(script) /\ script[1] = st
    BY <1>1
  <2>2. st[3] # "must"
    BY DEF GoesOn, Step
  <2> QED BY <1>2, <1>3, <2>1, <2>2 DEF ServiceStep, ScriptSound
<1>5. /\ env' \in {env} \cup (IF v = "env" THEN {0} ELSE {})
      /\ job' = job \/ (v = "file" /\ job' = [job EXCEPT ![l].file = FALSE])
      /\ UNCHANGED <<goos, binary, answer, removed, installs>>
  BY DEF Failed, Step, Proceed
<1>6. /\ command'.name = name /\ command'.was = command.was /\ command'.script = rest
      /\ command' \in [name : Commands, script : Seq(ServiceStep), was : Nat \X Nat]
      /\ command' # NoCommand
  BY <1>1, <1>3 DEF ServiceInv, ServiceTypeOK, NoCommand
<1>7. ~Decisive(goos, name, st) /\ \A k \in Labels : st # Must("remove", k)
  BY <1>4 DEF Decisive, Must
<1>8. name = "install" => installs # 0
  BY DEF ServiceInv, ServiceTypeOK, name
<1> HIDE DEF name, script, rest, st, v, l
<1>9. /\ job' \in [Labels -> Job]
      /\ \A k \in Labels : /\ job'[k].runs = job[k].runs /\ job'[k].loaded = job[k].loaded
                           /\ job'[k].file => job[k].file
                           /\ k # l => job'[k] = job[k]
  BY <1>1, <1>4, <1>5, FileLost
<1>10. ServiceTypeOK'
  BY <1>1, <1>5, <1>6, <1>8, <1>9 DEF ServiceInv, ServiceTypeOK, Scripts
<1>11. NothingWithoutBinary'
  <2> SUFFICES ASSUME binary = 0
               PROVE  /\ \A k \in Labels : ~job'[k].file /\ ~job'[k].loaded /\ job'[k].runs = Off
                      /\ name # "install"
    BY <1>5, <1>6 DEF NothingWithoutBinary
  <2>1. name = "install" => script = InstallScript
    BY DEF ServiceInv, NothingWithoutBinary, name, script
  <2>2. InstallScript[1] = Must("binary", "server")
    BY <1>1, InstallSteps
  <2>3. name = "install" => st = Must("binary", "server")
    BY <1>1, <2>1, <2>2 DEF st
  <2>4. name # "install"
    BY <1>4, <2>3 DEF Must
  <2>5. \A k \in Labels : ~job[k].file /\ ~job[k].loaded /\ job[k].runs = Off
    BY DEF ServiceInv, NothingWithoutBinary
  <2> QED BY <1>9, <2>4, <2>5
<1>12. RemovedIsGone'
  <2>1. removed => name # "install" /\ \A k \in Labels : ~job[k].file
    BY DEF ServiceInv, RemovedIsGone, name
  <2> QED BY <1>5, <1>6, <1>9, <2>1 DEF RemovedIsGone
<1>13. LinuxHasNoTray' /\ AnswerHolds'
  <2>1. LinuxHasNoTray'
    BY <1>5, <1>9 DEF ServiceInv, LinuxHasNoTray, Labels
  <2> QED BY <1>1, <1>5, <2>1 DEF AnswerHolds, NoAnswer, Starting
<1>14. Pending(goos, name, rest) <=> Pending(goos, name, script)
  BY <1>3, <1>7
<1>15. ASSUME name \in Starting, ~Pending(goos, name, rest)
       PROVE  Serves(command.name, command.was)'
  <2>1. l = "tray"
    BY <1>3, <1>14, <1>15 DEF l
  <2>2. Serves(command.name, command.was)
    BY <1>1, <1>14, <1>15 DEF ServiceInv, CommandOnTrack, name, script
  <2>3. job'["server"] = job["server"] /\ env' = env
    BY <1>4, <1>5, <1>9, <2>1 DEF Labels
  <2> QED BY <1>5, <1>6, <2>2, <2>3 DEF Serves, Installed, name
<1>16. ASSUME name \in Starting, Pending(goos, name, rest),
              goos = "linux", name # "restart", command.was = Off
       PROVE  job'["server"].runs = Off
  BY <1>1, <1>9, <1>14, <1>16 DEF ServiceInv, CommandOnTrack, name, script, Labels
<1>17. ASSUME name = "uninstall", NEW k \in Labels, job'[k].file
       PROVE  \E i \in 1..Len(rest) : rest[i] = Must("remove", k)
  <2>1. \E i \in 1..Len(script) : script[i] = Must("remove", k)
    BY <1>1, <1>9, <1>17 DEF ServiceInv, CommandOnTrack, name, script
  <2> QED BY <1>3, <1>7, <2>1
<1>18. CommandOnTrack'
  <2>1. ScriptSound(goos, command.name, command.script)'
    BY <1>3, <1>5, <1>6
  <2>2. Pending(goos, command.name, command.script)' <=> Pending(goos, name, rest)
    BY <1>5, <1>6
  <2> QED BY <1>5, <1>6, <1>15, <1>16, <1>17, <2>1, <2>2 DEF CommandOnTrack
<1> QED BY <1>10, <1>11, <1>12, <1>13, <1>18 DEF ServiceInv

\* A command that ends, by an error, an interrupt or well, owes nothing any more.
LEMMA EndInv ==
  ASSUME ServiceInv, (Proceed /\ Failed /\ command' = NoCommand) \/ Interrupt \/ Succeed
  PROVE  ServiceInv'
<1>1. /\ command # NoCommand /\ command' = NoCommand /\ NoCommand.name = "none"
      /\ NoCommand \in [name : Commands, script : Seq(ServiceStep), was : Nat \X Nat]
      /\ goos \in {"darwin", "linux"} /\ job \in [Labels -> Job]
      /\ binary \in Nat /\ env \in Nat /\ installs \in Nat /\ removed \in BOOLEAN
      /\ UNCHANGED <<goos, binary, installs>>
  BY DEF Proceed, Failed, Interrupt, Succeed, NoCommand, ServiceInv, ServiceTypeOK, Commands, Off
<1>2. /\ job' \in [Labels -> Job] /\ env' \in Nat
      /\ \A k \in Labels : /\ job'[k].runs = job[k].runs /\ job'[k].loaded = job[k].loaded
                           /\ job'[k].file => job[k].file
  <2>1. env' = env \/ env' = 0
    BY DEF Proceed, Failed, Interrupt, Succeed
  <2> DEFINE l == Step[2]
  <2>2. job' = job \/ job' = [job EXCEPT ![l].file = FALSE]
    BY DEF Proceed, Failed, Interrupt, Succeed
  <2> HIDE DEF l
  <2>3. CASE l \in Labels
    <3>1. /\ job' \in [Labels -> Job]
          /\ \A k \in Labels : /\ job'[k].runs = job[k].runs /\ job'[k].loaded = job[k].loaded
                               /\ job'[k].file => job[k].file
      <4>1. job \in [Labels -> Job]
        BY <1>1
      <4> QED BY ONLY <2>2, <2>3, <4>1, FileLost
    <3>2. env' \in Nat
      BY <1>1, <2>1
    <3> QED BY <3>1, <3>2
  <2>4. CASE l \notin Labels
    <3>1. job' = job
      BY <1>1, <2>2, <2>4
    <3> QED BY <1>1, <2>1, <3>1
  <2> QED BY <2>3, <2>4
<1>3. NothingWithoutBinary' /\ LinuxHasNoTray' /\ CommandOnTrack'
  BY <1>1, <1>2 DEF ServiceInv, NothingWithoutBinary, LinuxHasNoTray, CommandOnTrack, Labels
<1>4. CASE Succeed
  <2>1. /\ command.script = <<>> /\ command \in [name : Commands, script : Seq(ServiceStep), was : Nat \X Nat]
        /\ job' = job /\ env' = env /\ binary' = binary /\ goos' = goos
        /\ answer' = [name |-> command.name, was |-> command.was]
        /\ removed' = (removed \/ command.name = "uninstall")
    BY <1>4 DEF Succeed, ServiceInv, ServiceTypeOK
  <2>2. \A i \in 1..Len(command.script) : FALSE
    BY <2>1
  <2>3. ~Pending(goos, command.name, command.script)
    BY <2>2 DEF Pending
  <2>4. command.name \in Starting => Serves(command.name, command.was)
    BY <1>1, <2>3 DEF ServiceInv, CommandOnTrack
  <2>5. AnswerHolds'
    BY <2>1, <2>4 DEF AnswerHolds, Serves, Installed
  <2>6. RemovedIsGone'
    <3>1. command.name = "uninstall" => \A k \in Labels : ~job[k].file
      BY <1>1, <2>2 DEF ServiceInv, CommandOnTrack
    <3> QED BY <1>1, <2>1, <3>1 DEF ServiceInv, RemovedIsGone
  <2>7. ServiceTypeOK'
    BY <1>1, <1>2, <2>1 DEF ServiceTypeOK
  <2> QED BY <1>3, <2>5, <2>6, <2>7 DEF ServiceInv
<1>5. CASE ~Succeed
  <2>1. answer' = answer /\ removed' = removed
    BY <1>5 DEF Proceed, Interrupt
  <2>2. AnswerHolds'
    BY <1>1, <2>1 DEF ServiceInv, ServiceTypeOK, AnswerHolds, NoAnswer, Starting
  <2>3. RemovedIsGone' /\ ServiceTypeOK'
    BY <1>1, <1>2, <2>1 DEF ServiceInv, RemovedIsGone, ServiceTypeOK
  <2> QED BY <1>3, <2>2, <2>3 DEF ServiceInv
<1> QED BY <1>4, <1>5

LEMMA BeginInv ==
  ASSUME ServiceInv, NEW name \in DOMAIN Scripts, Begin(name)
  PROVE  ServiceInv'
<1> DEFINE script == Scripts[name]
<1>1. /\ goos \in {"darwin", "linux"} /\ job \in [Labels -> Job] /\ removed \in BOOLEAN
      /\ binary \in Nat /\ env \in Nat /\ installs \in Nat
      /\ command = NoCommand /\ name \in Commands /\ name # "none"
      /\ UNCHANGED <<goos, binary, env, job>> /\ answer' = NoAnswer
      /\ installs' = IF name = "install" THEN installs + 1 ELSE installs
      /\ removed' = (removed /\ name # "install")
      /\ command' = [name |-> name, script |-> script, was |-> job["server"].runs]
  BY DEF Begin, ServiceInv, ServiceTypeOK, Scripts, Commands
<1>2. /\ script \in Seq(ServiceStep) /\ ScriptSound(goos, name, script)
      /\ name \in Starting => Pending(goos, name, script)
      /\ name = "uninstall" => \A l \in Labels : (goos = "linux" /\ l = "tray") \/
           \E i \in 1..Len(script) : script[i] = Must("remove", l)
  BY <1>1, ScriptsAreSound
<1>3. name = "install" => script = InstallScript' /\ script = InstallScript
  <2>1. InstallScript' = InstallScript
    BY <1>1, Zenon DEF InstallScript
  <2>2. name = "install" => script = InstallScript
    BY DEF Scripts
  <2> QED BY <2>1, <2>2
<1> HIDE DEF script
<1>4. /\ command'.name = name /\ command'.script = script /\ command'.was = job["server"].runs
      /\ command' \in [name : Commands, script : Seq(ServiceStep), was : Nat \X Nat]
      /\ command' # NoCommand
  BY <1>1, <1>2 DEF Labels, Job, NoCommand
<1>5. ServiceTypeOK'
  BY <1>1, <1>4 DEF ServiceTypeOK, Scripts, NoAnswer
<1>6. CommandOnTrack'
  <2>1. ScriptSound(goos, command.name, command.script)'
    BY <1>1, <1>2, <1>4
  <2>2. Pending(goos, command.name, command.script)' <=> Pending(goos, name, script)
    BY <1>1, <1>4
  <2>3. goos = "linux" => ~job["tray"].file
    BY DEF ServiceInv, LinuxHasNoTray
  <2> QED BY <1>1, <1>2, <1>4, <2>1, <2>2, <2>3 DEF CommandOnTrack
<1>7. NothingWithoutBinary' /\ RemovedIsGone' /\ LinuxHasNoTray' /\ AnswerHolds'
  BY <1>1, <1>3, <1>4 DEF ServiceInv, NothingWithoutBinary, RemovedIsGone, LinuxHasNoTray,
                         AnswerHolds, NoAnswer, Starting
<1> QED BY <1>5, <1>6, <1>7 DEF ServiceInv


LEMMA ManagerInv ==
  ASSUME ServiceInv, Quit \/ Login \/ \E l \in Labels : Crash(l)
  PROVE  ServiceInv'
<1>1. /\ goos \in {"darwin", "linux"} /\ job \in [Labels -> Job]
      /\ binary \in Nat /\ env \in Nat /\ Installed \in Nat \X Nat /\ Off \in Nat \X Nat
      /\ UNCHANGED <<goos, binary, env, command, removed, installs>> /\ answer' = NoAnswer
      /\ Installed' = Installed
  BY DEF Quit, Login, Crash, Installed, Off, ServiceInv, ServiceTypeOK
\* Nothing gains a file, and what has neither file nor server gains neither.
<1>2. /\ job' \in [Labels -> Job]
      /\ \A l \in Labels : /\ job'[l].file = job[l].file
                           /\ ~job[l].file /\ ~job[l].loaded /\ job[l].runs = Off
                                => ~job'[l].loaded /\ job'[l].runs = Off
      /\ goos = "linux" /\ ~job["tray"].file /\ job["tray"].runs = Off
           => job'["tray"].runs = Off
  <2>1. CASE Quit
    <3>1. job' = [job EXCEPT !["tray"] = [@ EXCEPT !.runs = Off]] /\ goos = "darwin"
      BY <2>1 DEF Quit
    <3>2. [job["tray"] EXCEPT !.runs = Off] \in Job
      BY <1>1 DEF Job, Labels
    <3> QED BY <1>1, <3>1, <3>2 DEF Job, Labels
  <2>2. ASSUME NEW l \in Labels, Crash(l) PROVE <1>2!1 /\ <1>2!2 /\ <1>2!3
    <3> DEFINE after == IF goos = "darwin" \/ job[l].file THEN Installed ELSE Off
    <3>1. job' = [job EXCEPT ![l] = [@ EXCEPT !.runs = after]] /\ job[l].runs # Off
      BY <2>2 DEF Crash
    <3>2. after \in Nat \X Nat
      BY <1>1
    <3> HIDE DEF after
    <3>3. /\ [job[l] EXCEPT !.runs = after] \in Job
          /\ [job[l] EXCEPT !.runs = after].file = job[l].file
      BY <1>1, <3>2 DEF Job
    <3> QED BY <1>1, <3>1, <3>3 DEF Labels
  <2>3. CASE Login
    <3>1. \A l \in Labels : /\ LoggedIn(job[l]) \in Job /\ LoggedIn(job[l]).file = job[l].file
                            /\ ~job[l].file => /\ ~LoggedIn(job[l]).loaded
                                               /\ LoggedIn(job[l]).runs = Off
      <4> SUFFICES ASSUME NEW j \in Job
                   PROVE  /\ LoggedIn(j) \in Job /\ LoggedIn(j).file = j.file
                          /\ ~j.file => ~LoggedIn(j).loaded /\ LoggedIn(j).runs = Off
        BY <1>1
      <4> QED BY <1>1 DEF LoggedIn, Job
    <3> QED BY <2>3, <3>1 DEF Login, Labels
  <2> QED BY <2>1, <2>2, <2>3
<1>3. command # NoCommand /\ command.name \in Starting => ~Login
  BY DEF Login
\* A server that runs is started again with what is installed.
<1>4. command # NoCommand /\ Serves(command.name, command.was) =>
        Serves(command.name, command.was)'
  <2> SUFFICES ASSUME command # NoCommand, Serves(command.name, command.was)
               PROVE  Serves(command.name, command.was)'
    OBVIOUS
  <2>1. CASE Crash("server")
    <3>1. job["server"].runs # Off
      BY <2>1 DEF Crash
    <3>2. binary # 0
      BY <3>1 DEF ServiceInv, NothingWithoutBinary, Labels
    <3>3. Installed # Off
      BY <3>2 DEF Installed, Off
    <3>4. goos = "darwin" \/ job["server"].file
      BY <1>1 DEF Serves
    <3>5. job'["server"].runs = Installed
      BY <1>1, <2>1, <3>4 DEF Crash, Job, Labels
    <3> QED BY <1>1, <1>2, <3>3, <3>5 DEF Serves, Labels
  <2>2. CASE Quit \/ Crash("tray")
    <3>1. job'["server"] = job["server"]
      BY <1>1, <2>2 DEF Quit, Crash, Labels
    <3> QED BY <1>1, <3>1 DEF Serves
  <2> QED BY <2>1, <2>2 DEF Login, Labels
<1>5. command # NoCommand /\ job["server"].runs = Off => job'["server"].runs = Off
  <2>1. Quit \/ Crash("tray") => job'["server"] = job["server"]
    BY <1>1 DEF Quit, Crash, Labels
  <2> QED BY <2>1 DEF Login, Crash, Labels
<1>6. CommandOnTrack'
  BY <1>1, <1>2, <1>4, <1>5 DEF ServiceInv, CommandOnTrack
<1>7. NothingWithoutBinary'
  BY <1>1, <1>2 DEF ServiceInv, NothingWithoutBinary, InstallScript
<1>8. RemovedIsGone' /\ LinuxHasNoTray' /\ AnswerHolds'
  BY <1>1, <1>2 DEF ServiceInv, RemovedIsGone, LinuxHasNoTray, AnswerHolds, NoAnswer,
                   Starting, Labels
<1>9. ServiceTypeOK'
  BY <1>1, <1>2 DEF ServiceInv, ServiceTypeOK, Scripts
<1> QED BY <1>6, <1>7, <1>8, <1>9 DEF ServiceInv

LEMMA ServiceInitInv == ServiceInit => ServiceInv
<1> SUFFICES ASSUME ServiceInit PROVE ServiceInv
  OBVIOUS
<1>1. \A l \in Labels : /\ job[l] \in Job
                        /\ ~job[l].file /\ ~job[l].loaded /\ job[l].runs = Off
  BY DEF ServiceInit, NoJob, Job, Off
<1>2. job \in [Labels -> Job]
  BY <1>1 DEF ServiceInit
<1>3. command \in [name : Commands, script : Seq(ServiceStep), was : Nat \X Nat]
  BY DEF ServiceInit, NoCommand, Commands, Off
<1> QED
  BY <1>1, <1>2, <1>3 DEF ServiceInit, ServiceInv, ServiceTypeOK, CommandOnTrack,
     NothingWithoutBinary, RemovedIsGone, LinuxHasNoTray, AnswerHolds, Starting,
     NoCommand, NoAnswer, Labels

LEMMA ServiceNextInv == ASSUME ServiceInv, [ServiceNext]_serviceVars PROVE ServiceInv'
<1>1. CASE Proceed
  BY <1>1, DoneInv, IgnoredInv, EndInv DEF Proceed
<1>2. CASE UNCHANGED serviceVars
  <2>1. InstallScript' = InstallScript
    BY <1>2, Zenon DEF serviceVars, InstallScript
  <2> QED BY <1>2, <2>1 DEF serviceVars, ServiceInv, ServiceTypeOK, CommandOnTrack, Serves,
                        NothingWithoutBinary, RemovedIsGone, LinuxHasNoTray, AnswerHolds,
                        Installed, Scripts
<1> QED BY <1>1, <1>2, BeginInv, EndInv, ManagerInv DEF ServiceNext

\* Every installation, start and restart that says it succeeded has a server running
\* what is installed, whatever failed or was interrupted before (Install, Start,
\* Restart).
THEOREM CommandsTakeEffect == ServiceSpec => []CommandTakesEffect
<1>1. ServiceInv => CommandTakesEffect
  BY DEF ServiceInv, AnswerHolds, Serves, CommandTakesEffect, Starting
<1> QED BY <1>1, ServiceInitInv, ServiceNextInv, PTL DEF ServiceSpec

\* No login brings back a service whose uninstallation succeeded (Uninstall).
THEOREM UninstallLasts == ServiceSpec => []UninstalledStaysAway
<1>1. ServiceInv => UninstalledStaysAway
  <2> SUFFICES ASSUME ServiceInv, removed, NEW l \in Labels PROVE LoggedIn(job[l]).runs = Off
    BY DEF UninstalledStaysAway
  <2>1. job[l] \in Job /\ ~job[l].file
    BY DEF ServiceInv, ServiceTypeOK, RemovedIsGone
  <2> QED BY <2>1 DEF LoggedIn, Job
<1> QED BY <1>1, ServiceInitInv, ServiceNextInv, PTL DEF ServiceSpec
=============================================================================
