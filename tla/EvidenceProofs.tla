--------------------------- MODULE EvidenceProofs ---------------------------
(***************************************************************************)
(* Proofs about the evidence, for any models, definitions, overrides and   *)
(* number of interventions.  A worker that is about to write a record has  *)
(* had its probe answered, and as long as the definition of its model does *)
(* not change that probe called the model of its candidate.  When it has   *)
(* changed, either the record is of two definitions, which makes nothing   *)
(* eligible, or the definition has come back.  Every other step removes    *)
(* records or leaves them alone.                                           *)
(* A sync that is alone keeps track of what it has looked at.              *)
(***************************************************************************)
EXTENDS Evidence, TLAPS

\* A record is of a definition a probe called and passed with, unless it came back
\* during the probe or the record's two definitions differ; and no probe that
\* failed later has left it behind, save one whose reset could not be saved.
RecordsProven ==
  \A t \in Targets : verified[t] # NoEvidence =>
    /\ \/ verified[t].model.rev \in proven[t]
       \/ t \in returned
       \/ verified[t].catalog.rev # verified[t].model.rev
    /\ last[t] \in {"passed", "unsaved"}

\* While the definition has not changed, a worker calls the model of its
\* candidate, and about to write a record it has seen that probe pass.
ProbesCandidate(t) ==
  Probing(t) /\ ~job[t].crossed =>
    /\ job[t].model.rev = models[t[1]].rev
    /\ job[t].step = "sent" => job[t].sent = job[t].model.rev
    /\ job[t].step = "record" => job[t].model.rev \in proven[t]

WritersProven == \A t \in Targets : ProbesCandidate(t)

Inv ==
  /\ TypeOK
  /\ RecordsProven
  /\ WritersProven

-----------------------------------------------------------------------------
(* Helpers *)

LEMMA AbsentType == Absent \in Definition /\ \A f : f \notin Absent.functions
<1> QED BY DEF Absent, Definition

\* An override leaves the revision alone.
LEMMA ApplyType ==
  ASSUME NEW o \in Override, NEW d \in Definition
  PROVE  /\ Apply(o, d) \in Definition
         /\ Apply(o, d) # Absent => Apply(o, d).rev = d.rev
<1>1. ~(d = Absent \/ o.disabled) /\ o.functions # {} =>
        /\ [d EXCEPT !.functions = o.functions] \in Definition
        /\ [d EXCEPT !.functions = o.functions].rev = d.rev
  BY DEF Definition, Override
<1> QED BY <1>1, AbsentType DEF Apply

LEMMA TargetTypes ==
  /\ \A t \in Targets : t[1] \in Models /\ t[2] \in Capabilities
  /\ \A m \in Models : TargetsOf(m) \subseteq Targets
  /\ \A m \in Models, c \in Capabilities : {<<m, c>>} \subseteq Targets
<1> QED BY DEF Targets, TargetsOf

LEMMA EffectiveType ==
  ASSUME TypeOK, NEW m \in Models
  PROVE  /\ Effective(m) \in Definition
         /\ Effective(m) # Absent => Effective(m).rev = models[m].rev
<1> QED BY ApplyType DEF TypeOK, Effective

LEMMA EvidenceTypes ==
  ASSUME TypeOK
  PROVE  /\ NoEvidence \in [catalog : Definition, model : Definition]
         /\ \A ds : Pruned(ds) \in [Targets -> [catalog : Definition, model : Definition]]
         /\ \A ts : Without(ts) \in [Targets -> [catalog : Definition, model : Definition]]
<1>1. NoEvidence \in [catalog : Definition, model : Definition]
  BY AbsentType DEF NoEvidence
<1> QED BY <1>1 DEF TypeOK, Pruned, Without

LEMMA IdleTypes ==
  /\ NoJob \in Job
  /\ NoJob.step = "idle" /\ NoJob.model = Absent
  /\ NoCleaning \in [step : {"idle", "evidence", "health"}, targets : SUBSET Targets]
  /\ NoSync \in [step : SyncSteps, effective : [Models -> Definition], left : SUBSET Targets,
                 existing : SUBSET Targets, target : SUBSET Targets]
<1> QED BY AbsentType DEF NoJob, Job, NoCleaning, NoSync, Steps, SyncSteps

LEMMA InterveneType ==
  ASSUME TypeOK, Intervene
  PROVE  interventions' \in 0..MaxInterventions
<1> QED BY InputAssumption DEF TypeOK, Intervene

-----------------------------------------------------------------------------

LEMMA InitInv == Init => Inv
<1> SUFFICES ASSUME Init PROVE Inv
  OBVIOUS
<1>1. manifest \in [Models -> Definition] /\ models \in [Models -> Definition]
  BY InputAssumption DEF Init
<1>2. overrides \in [Models -> Override]
  BY DEF Init, NoOverride, Override
<1>3. verified \in [Targets -> [catalog : Definition, model : Definition]]
  BY AbsentType DEF Init, NoEvidence
<1>4. /\ job \in [Targets -> Job]
      /\ \A t \in Targets : job[t].step = "idle" /\ job[t].model = Absent
  BY IdleTypes DEF Init
<1>5. /\ cleaner \in [Cleaners -> [step : {"idle", "evidence", "health"}, targets : SUBSET Targets]]
      /\ sync \in [step : SyncSteps, effective : [Models -> Definition], left : SUBSET Targets,
                   existing : SUBSET Targets, target : SUBSET Targets]
  BY IdleTypes DEF Init
<1>6. /\ health \in [Targets -> Verdicts]
      /\ proven \in [Targets -> SUBSET Nat]
      /\ last \in [Targets -> {"none", "passed", "failed", "unsaved"}]
      /\ returned \in SUBSET Targets
      /\ disturbed \in BOOLEAN
  BY DEF Init, Verdicts
<1>7. interventions \in 0..MaxInterventions
  BY InputAssumption DEF Init
<1>8. TypeOK
  BY <1>1, <1>2, <1>3, <1>4, <1>5, <1>6, <1>7 DEF TypeOK
<1>9. RecordsProven /\ WritersProven
  BY <1>4 DEF Init, RecordsProven, WritersProven, ProbesCandidate, Probing
<1> QED BY <1>8, <1>9 DEF Inv

-----------------------------------------------------------------------------
(* A probe run *)

LEMMA StartRunInv ==
  ASSUME Inv, NEW targets \in SUBSET Targets, StartRun(targets), disturbed' = TRUE
  PROVE  Inv'
<1> DEFINE started(t) == [NoJob EXCEPT !.step = "queued", !.model = Effective(t[1])]
<1>1. \A t \in targets : /\ Effective(t[1]) \in Definition
                         /\ Effective(t[1]) # Absent
                         /\ Effective(t[1]).rev = models[t[1]].rev
  BY EffectiveType, TargetTypes, AbsentType DEF Inv, StartRun
<1>2. \A t \in targets : /\ started(t) \in Job
                         /\ started(t).step = "queued"
                         /\ started(t).model = Effective(t[1])
  BY <1>1 DEF Steps, Job, NoJob
<1>3. \A t \in Targets : job'[t] = IF t \in targets THEN started(t) ELSE job[t]
  BY DEF StartRun
<1> HIDE DEF started
<1>4. /\ job' \in [Targets -> Job]
      /\ \A t \in Targets : job'[t].step = "idle" <=> job'[t].model = Absent
  <2>1. job' = [t \in Targets |-> IF t \in targets THEN started(t) ELSE job[t]]
    BY DEF StartRun, started
  <2> QED BY <1>1, <1>2, <2>1 DEF Inv, TypeOK
<1>5. TypeOK'
  BY <1>4 DEF StartRun, Inv, TypeOK, evidence, history
<1>6. WritersProven'
  <2>1. \A t \in Targets : job'[t].step = "queued" =>
          job'[t] = job[t] \/ job'[t].model.rev = models[t[1]].rev
    BY <1>1, <1>2, <1>3
  <2>2. \A t \in Targets : job'[t].step # "queued" => job'[t] = job[t]
    BY <1>2, <1>3
  <2>3. WritersProven /\ UNCHANGED <<models, proven>>
    BY DEF Inv, StartRun, evidence, history
  <2> QED BY ONLY <2>1, <2>2, <2>3 DEF WritersProven, ProbesCandidate, Probing
<1> QED BY <1>5, <1>6 DEF Inv, StartRun, RecordsProven, evidence, history

\* A worker's step changes its job and no other, and keeps the candidate's model.
LEMMA JobStepTypes ==
  ASSUME TypeOK, NEW t \in Targets, NEW s \in Steps \ {"idle"}, NEW n \in Nat,
         job[t].step # "idle",
         job' \in {[job EXCEPT ![t].step = s],
                  [job EXCEPT ![t] = [@ EXCEPT !.step = s, !.sent = n]]}
  PROVE  /\ job' \in [Targets -> Job]
         /\ \A u \in Targets : job'[u].step = "idle" <=> job'[u].model = Absent
         /\ \A u \in Targets : u # t => job'[u] = job[u]
         /\ job'[t].step = s /\ job'[t].model = job[t].model /\ job'[t].crossed = job[t].crossed
<1>1. job \in [Targets -> Job] /\ \A u \in Targets : job[u].step = "idle" <=> job[u].model = Absent
  BY DEF TypeOK
<1>2. CASE job' = [job EXCEPT ![t].step = s]
  BY <1>1, <1>2 DEF Job
<1>3. CASE job' = [job EXCEPT ![t] = [@ EXCEPT !.step = s, !.sent = n]]
  BY <1>1, <1>3 DEF Job
<1> QED BY <1>2, <1>3

\* Such a step keeps the types when the record it writes and its outcome are typed.
LEMMA RecordStepType ==
  ASSUME TypeOK, NEW t \in Targets, NEW s \in Steps \ {"idle"}, job[t].step # "idle",
         job' = [job EXCEPT ![t].step = s],
         verified' \in [Targets -> [catalog : Definition, model : Definition]],
         last' \in [Targets -> {"none", "passed", "failed", "unsaved"}],
         returned' \in SUBSET Targets,
         UNCHANGED <<manifest, models, overrides, health, cleaner, sync, interventions, proven>>,
         disturbed' = TRUE
  PROVE  TypeOK'
<1>1. /\ job' \in [Targets -> Job]
      /\ \A u \in Targets : job'[u].step = "idle" <=> job'[u].model = Absent
  BY JobStepTypes, 0 \in Nat
<1> QED BY <1>1 DEF TypeOK

LEMMA SendInv ==
  ASSUME Inv, NEW t \in Targets, Send(t), disturbed' = TRUE
  PROVE  Inv'
<1>1. /\ job[t].step = "queued" /\ job[t] \in Job
      /\ models[t[1]].rev \in Nat
  BY TargetTypes DEF Send, Inv, TypeOK, Definition
<1>2. PICK s \in {"reset", "sent"} :
        /\ job' \in {[job EXCEPT ![t].step = s],
                     [job EXCEPT ![t] = [@ EXCEPT !.step = s, !.sent = models[t[1]].rev]]}
        /\ s = "sent" => job'[t].sent = models[t[1]].rev
  <2>1. CASE models[t[1]] = Absent
    <3>1. job' = [job EXCEPT ![t].step = "reset"]
      BY <2>1 DEF Send
    <3> QED BY <3>1
  <2>2. CASE models[t[1]] # Absent
    <3>1. job' = [job EXCEPT ![t] = [@ EXCEPT !.step = "sent", !.sent = models[t[1]].rev]]
      BY <2>2 DEF Send
    <3>2. job'[t].sent = models[t[1]].rev
      BY <1>1, <3>1 DEF Inv, TypeOK, Job
    <3> QED BY <3>1, <3>2
  <2> QED BY <2>1, <2>2
<1>3. s \in Steps \ {"idle"} /\ s # "record" /\ job[t].step # "idle"
  BY <1>1 DEF Steps
<1>4. /\ job' \in [Targets -> Job]
      /\ \A u \in Targets : job'[u].step = "idle" <=> job'[u].model = Absent
      /\ \A u \in Targets : u # t => job'[u] = job[u]
      /\ job'[t].step = s /\ job'[t].model = job[t].model /\ job'[t].crossed = job[t].crossed
  BY <1>1, <1>2, <1>3, JobStepTypes DEF Inv
<1>5. TypeOK'
  BY <1>4 DEF Send, Inv, TypeOK, evidence, history
<1>6. WritersProven'
  BY <1>1, <1>2, <1>3, <1>4 DEF Inv, Send, evidence, history, WritersProven, ProbesCandidate, Probing
<1> QED BY <1>5, <1>6 DEF Inv, Send, RecordsProven, evidence, history

LEMMA ProbeReturnedInv ==
  ASSUME Inv, NEW t \in Targets, NEW ok \in BOOLEAN, ProbeReturned(t, ok), disturbed' = TRUE
  PROVE  Inv'
<1>1. PICK s \in {"record", "reset"} : /\ job' = [job EXCEPT ![t].step = s]
                                       /\ s = "record" => ok
  BY DEF ProbeReturned
<1>2. s \in Steps \ {"idle"} /\ job[t].step = "sent" /\ job[t].step # "idle" /\ job[t].sent \in Nat
  BY DEF ProbeReturned, Steps, Inv, TypeOK, Job
<1>3. /\ proven' \in [Targets -> SUBSET Nat]
      /\ \A u \in Targets : proven[u] \subseteq proven'[u]
      /\ ok => job[t].sent \in proven'[t]
  BY <1>2 DEF ProbeReturned, Inv, TypeOK
<1>4. /\ job' \in [Targets -> Job]
      /\ \A u \in Targets : job'[u].step = "idle" <=> job'[u].model = Absent
      /\ \A u \in Targets : u # t => job'[u] = job[u]
      /\ job'[t].step = s /\ job'[t].model = job[t].model /\ job'[t].crossed = job[t].crossed
  BY <1>1, <1>2, JobStepTypes, 0 \in Nat DEF Inv
<1>5. TypeOK'
  BY <1>3, <1>4 DEF ProbeReturned, Inv, TypeOK, evidence
<1>6. WritersProven'
  BY <1>1, <1>2, <1>3, <1>4
     DEF ProbeReturned, evidence, Inv, WritersProven, ProbesCandidate, Probing
<1>7. RecordsProven'
  BY <1>3 DEF ProbeReturned, Inv, RecordsProven, evidence
<1> QED BY <1>5, <1>6, <1>7 DEF Inv

LEMMA RecordInv ==
  ASSUME Inv, NEW t \in Targets, NEW saved \in BOOLEAN, Record(t, saved), disturbed' = TRUE
  PROVE  Inv'
<1> DEFINE comeback == job[t].crossed /\ models[t[1]].rev = job[t].model.rev
<1>1. PICK s \in {"succeed", "reset"} :
        /\ job' = [job EXCEPT ![t].step = s]
        /\ \/ /\ verified' = [verified EXCEPT ![t] = NewRecord(t)]
              /\ last' = [last EXCEPT ![t] = "passed"]
              /\ returned' = IF comeback THEN returned \cup {t} ELSE returned \ {t}
           \/ UNCHANGED <<verified, last, returned>>
  BY DEF Record
<1>2. s \in Steps \ {"idle"} /\ s # "record" /\ job[t].step = "record" /\ job[t].step # "idle"
  BY DEF Record, Steps
<1>3. NewRecord(t) \in [catalog : Definition, model : Definition]
  BY TargetTypes DEF NewRecord, Inv, TypeOK, Job
<1>4. verified' \in [Targets -> [catalog : Definition, model : Definition]]
  BY <1>1, <1>3 DEF Inv, TypeOK
<1>5. /\ last' \in [Targets -> {"none", "passed", "failed", "unsaved"}]
      /\ returned' \in SUBSET Targets
  BY <1>1 DEF Inv, TypeOK
<1>6. TypeOK'
  BY <1>1, <1>2, <1>4, <1>5, RecordStepType DEF Record, Inv
<1>7. /\ \A u \in Targets : u # t => job'[u] = job[u]
      /\ job'[t].step = s
  BY <1>1, <1>2, JobStepTypes, 0 \in Nat DEF Inv
<1>8. WritersProven'
  BY <1>2, <1>7 DEF Record, Inv, WritersProven, ProbesCandidate, Probing
<1>9. \/ NewRecord(t).model.rev \in proven[t]
      \/ comeback
      \/ NewRecord(t).catalog.rev # NewRecord(t).model.rev
  BY <1>2 DEF Inv, WritersProven, ProbesCandidate, Probing, NewRecord
<1> HIDE DEF comeback
<1>10. RecordsProven'
  <2>1. CASE UNCHANGED <<verified, last, returned>>
    BY <2>1 DEF Record, Inv, RecordsProven
  <2>2. CASE /\ verified' = [verified EXCEPT ![t] = NewRecord(t)]
             /\ last' = [last EXCEPT ![t] = "passed"]
             /\ returned' = IF comeback THEN returned \cup {t} ELSE returned \ {t}
    <3>1. /\ verified'[t] = NewRecord(t) /\ last'[t] = "passed"
          /\ t \in returned' <=> comeback
          /\ \A u \in Targets \ {t} : /\ verified'[u] = verified[u] /\ last'[u] = last[u]
                                      /\ u \in returned' <=> u \in returned
      BY <2>2 DEF Inv, TypeOK
    <3>2. proven' = proven
      BY DEF Record
    <3>3. RecordsProven
      BY DEF Inv
    <3> SUFFICES ASSUME NEW u \in Targets, verified'[u] # NoEvidence
                 PROVE  /\ \/ verified'[u].model.rev \in proven'[u]
                           \/ u \in returned'
                           \/ verified'[u].catalog.rev # verified'[u].model.rev
                        /\ last'[u] \in {"passed", "unsaved"}
      BY DEF RecordsProven
    <3>4. CASE u = t
      BY <1>9, <3>1, <3>2, <3>4
    <3>5. CASE u # t
      BY ONLY <3>1, <3>2, <3>3, <3>5, u \in Targets, verified'[u] # NoEvidence DEF RecordsProven
    <3> QED BY <3>4, <3>5
  <2> QED BY <1>1, <2>1, <2>2
<1> QED BY <1>6, <1>8, <1>10 DEF Inv

LEMMA ResetEvidenceInv ==
  ASSUME Inv, NEW t \in Targets, NEW saved \in BOOLEAN, ResetEvidence(t, saved),
         disturbed' = TRUE
  PROVE  Inv'
<1>1. job' = [job EXCEPT ![t].step = "fail"] /\ "fail" \in Steps \ {"idle"} /\ job[t].step # "idle"
  BY DEF ResetEvidence, Steps
<1>2. TypeOK'
  <2>1. verified' \in [Targets -> [catalog : Definition, model : Definition]]
    BY EvidenceTypes DEF ResetEvidence, Inv, TypeOK
  <2>2. /\ last' \in [Targets -> {"none", "passed", "failed", "unsaved"}]
        /\ returned' \in SUBSET Targets
    BY DEF ResetEvidence, Inv, TypeOK
  <2> QED BY <1>1, <2>1, <2>2, RecordStepType DEF ResetEvidence, Inv
<1>3. /\ \A u \in Targets : u # t => job'[u] = job[u]
      /\ job'[t].step = "fail"
  BY <1>1, JobStepTypes, 0 \in Nat DEF Inv
<1>4. WritersProven'
  BY <1>3 DEF ResetEvidence, Inv, WritersProven, ProbesCandidate, Probing
<1>5. RecordsProven'
  BY DEF ResetEvidence, Without, Inv, TypeOK, RecordsProven
<1> QED BY <1>2, <1>4, <1>5 DEF Inv

LEMMA ConcludeInv ==
  ASSUME Inv, NEW t \in Targets, Conclude(t), disturbed' = TRUE
  PROVE  Inv'
<1>1. health' \in [Targets -> Verdicts]
  BY DEF Conclude, Inv, TypeOK, Verdicts
<1>2. /\ job' \in [Targets -> Job]
      /\ \A u \in Targets : job'[u].step = "idle" <=> job'[u].model = Absent
      /\ \A u \in Targets : job'[u].step # "idle" => job'[u] = job[u]
  BY IdleTypes DEF Conclude, Inv, TypeOK
<1>3. TypeOK'
  BY <1>1, <1>2 DEF Conclude, Inv, TypeOK, evidence, history
<1>4. WritersProven'
  BY <1>2 DEF Inv, Conclude, WritersProven, ProbesCandidate, Probing, evidence, history
<1> QED BY <1>3, <1>4 DEF Inv, Conclude, RecordsProven, evidence, history

-----------------------------------------------------------------------------
(* The operator, traffic, refreshes and restarts *)

\* A step that only removes records, and leaves jobs and definitions alone or stops
\* the jobs, keeps what is proven.
LEMMA RemovalInv ==
  ASSUME Inv, TypeOK', UNCHANGED history,
         UNCHANGED <<job, models>> \/ job' = [t \in Targets |-> NoJob],
         \A t \in Targets : verified'[t] \in {verified[t], NoEvidence}
  PROVE  Inv'
<1>1. WritersProven'
  BY IdleTypes DEF Inv, WritersProven, ProbesCandidate, Probing, history
<1> QED BY <1>1 DEF Inv, RecordsProven, history

LEMMA UpdateConfigInv ==
  ASSUME Inv, NEW m \in Models, NEW override \in Override, UpdateConfig(m, override),
         disturbed' = TRUE
  PROVE  Inv'
<1>1. TypeOK'
  BY TargetTypes, InterveneType DEF UpdateConfig, Inv, TypeOK, Cleaners, evidence, history
<1> QED BY <1>1, RemovalInv DEF UpdateConfig, evidence

LEMMA ResetHealthInv ==
  ASSUME Inv, NEW targets \in SUBSET Targets, ResetHealth(targets), disturbed' = TRUE
  PROVE  Inv'
<1>1. TypeOK'
  BY InterveneType DEF ResetHealth, Inv, TypeOK, Cleaners, evidence, history
<1> QED BY <1>1, RemovalInv DEF ResetHealth, evidence

LEMMA CleanEvidenceInv ==
  ASSUME Inv, NEW c \in Cleaners, NEW saved \in BOOLEAN, CleanEvidence(c, saved),
         disturbed' = TRUE
  PROVE  Inv'
<1>1. verified' \in [Targets -> [catalog : Definition, model : Definition]]
  BY EvidenceTypes DEF CleanEvidence, Inv, TypeOK
<1>2. TypeOK'
  BY <1>1, IdleTypes DEF CleanEvidence, Inv, TypeOK, history
<1>3. \A t \in Targets : verified'[t] \in {verified[t], NoEvidence}
  BY DEF CleanEvidence, Without
<1> QED BY <1>2, <1>3, RemovalInv DEF CleanEvidence

LEMMA CleanHealthInv ==
  ASSUME Inv, NEW c \in Cleaners, CleanHealth(c), disturbed' = TRUE
  PROVE  Inv'
<1>1. health' \in [Targets -> Verdicts]
  BY DEF CleanHealth, Inv, TypeOK, Verdicts
<1>2. TypeOK'
  BY <1>1, IdleTypes DEF CleanHealth, Inv, TypeOK, evidence, history
<1> QED BY <1>2, RemovalInv DEF CleanHealth, evidence

LEMMA TestFailedInv ==
  ASSUME Inv, NEW t \in Targets, TestFailed(t), disturbed' = TRUE
  PROVE  Inv'
<1>1. TypeOK'
  BY InterveneType DEF TestFailed, Inv, TypeOK, Verdicts, evidence, history
<1> QED BY <1>1, RemovalInv DEF TestFailed, evidence

LEMMA ReloadInv ==
  ASSUME Inv, NEW definitions \in [Models -> Definition], Reload(definitions), disturbed' = TRUE
  PROVE  Inv'
<1>1. TypeOK'
  BY InterveneType DEF Reload, Inv, TypeOK, evidence, history
<1> QED BY <1>1, RemovalInv DEF Reload, evidence

LEMMA TrafficInv ==
  ASSUME Inv, NEW t \in Targets, Traffic(t), UNCHANGED disturbed
  PROVE  Inv'
<1>1. TypeOK'
  BY DEF Traffic, Inv, TypeOK, Verdicts, evidence, history
<1> QED BY <1>1, RemovalInv DEF Traffic, evidence

LEMMA RefreshInv ==
  ASSUME Inv, Refresh, disturbed' = FALSE
  PROVE  Inv'
<1>1. verified' \in [Targets -> [catalog : Definition, model : Definition]]
  BY EvidenceTypes DEF Refresh, Inv
<1>2. sync' \in [step : SyncSteps, effective : [Models -> Definition], left : SUBSET Targets,
                 existing : SUBSET Targets, target : SUBSET Targets]
  BY IdleTypes DEF Refresh, SyncSteps
<1>3. \A t \in Targets :
        /\ job'[t] \in Job /\ job'[t].step = job[t].step
        /\ job'[t].model = job[t].model /\ job'[t].sent = job[t].sent
        /\ ~job'[t].crossed => ~job[t].crossed
        /\ Probing(t) /\ ~job'[t].crossed => models'[t[1]].rev = models[t[1]].rev
  <2> SUFFICES ASSUME NEW t \in Targets
               PROVE  /\ job'[t] \in Job /\ job'[t].step = job[t].step
                      /\ job'[t].model = job[t].model /\ job'[t].sent = job[t].sent
                      /\ ~job'[t].crossed => ~job[t].crossed
                      /\ Probing(t) /\ ~job'[t].crossed =>
                           models'[t[1]].rev = models[t[1]].rev
    OBVIOUS
  <2>1. job[t] \in Job /\ [job[t] EXCEPT !.crossed = TRUE] \in Job
    <3>1. job[t] \in Job
      BY DEF Inv, TypeOK
    <3> QED BY ONLY <3>1 DEF Job
  <2>2. CASE Probing(t) /\ manifest[t[1]].rev # models[t[1]].rev
    <3>1. job'[t] = [job[t] EXCEPT !.crossed = TRUE]
      BY <2>2 DEF Refresh, Crossing
    <3> QED BY <2>1, <3>1 DEF Job
  <2>3. CASE ~(Probing(t) /\ manifest[t[1]].rev # models[t[1]].rev)
    <3>1. job'[t] = job[t] /\ models' = manifest
      BY <2>3 DEF Refresh, Crossing
    <3> QED BY <2>1, <2>3, <3>1
  <2> QED BY <2>2, <2>3
<1>4. job' \in [Targets -> Job]
  BY <1>3 DEF Refresh, Crossing
<1>5. TypeOK'
  BY <1>1, <1>2, <1>3, <1>4 DEF Refresh, Inv, TypeOK, history
<1>6. WritersProven'
  BY <1>3 DEF Refresh, history, Inv, WritersProven, ProbesCandidate, Probing
<1>7. \A t \in Targets : verified'[t] \in {verified[t], NoEvidence}
  BY DEF Refresh, Pruned
<1>8. RecordsProven'
  BY <1>7 DEF Refresh, history, Inv, RecordsProven
<1> QED BY <1>5, <1>6, <1>8 DEF Inv

LEMMA RestartInv ==
  ASSUME Inv, NEW definitions \in [Models -> Definition], Restart(definitions),
         disturbed' = FALSE
  PROVE  Inv'
<1>1. verified' \in [Targets -> [catalog : Definition, model : Definition]]
  BY EvidenceTypes DEF Restart, Inv
<1>2. \A v \in Verdicts : \A b \in BOOLEAN : Synced(v, b) \in Verdicts
  BY DEF Synced, Verdicts
<1>3. health' \in [Targets -> Verdicts]
  <2>1. \A t \in Targets : health[t] \in Verdicts
    BY DEF Inv, TypeOK
  <2>2. \A t \in Targets :
          VerifiedIn(definitions, t, Apply(overrides[t[1]], definitions[t[1]])) \in BOOLEAN
    BY DEF VerifiedIn
  <2> QED BY <1>2, <2>1, <2>2 DEF Restart
<1>4. /\ job' \in [Targets -> Job]
      /\ \A t \in Targets : job'[t].step = "idle" <=> job'[t].model = Absent
      /\ cleaner' \in [Cleaners -> [step : {"idle", "evidence", "health"}, targets : SUBSET Targets]]
      /\ sync' \in [step : SyncSteps, effective : [Models -> Definition], left : SUBSET Targets,
                    existing : SUBSET Targets, target : SUBSET Targets]
  BY IdleTypes DEF Restart
<1>5. TypeOK'
  BY <1>1, <1>3, <1>4, InterveneType DEF Restart, Inv, TypeOK, history
<1>6. \A t \in Targets : verified'[t] \in {verified[t], NoEvidence}
  BY DEF Restart, Pruned
<1> QED BY <1>5, <1>6, RemovalInv DEF Restart

LEMMA SyncInv ==
  ASSUME Inv, Sync, UNCHANGED disturbed
  PROVE  Inv'
<1> DEFINE SyncType == [step : SyncSteps, effective : [Models -> Definition],
                        left : SUBSET Targets, existing : SUBSET Targets,
                        target : SUBSET Targets]
<1>1. sync' \in SyncType
  <2>1. sync \in SyncType
    BY DEF Inv, TypeOK
  <2>2. CASE SyncModels
    <3>1. [m \in Models |-> Effective(m)] \in [Models -> Definition]
      BY EffectiveType DEF Inv
    <3> QED BY <2>1, <2>2, <3>1 DEF SyncModels, SyncSteps
  <2>3. CASE SyncHealth
    BY <2>1, <2>3 DEF SyncHealth, SyncSteps
  <2>4. CASE SyncEvidence
    BY <2>1, <2>4 DEF SyncEvidence, SyncSteps
  <2>5. CASE SyncDone
    BY <2>5, IdleTypes DEF SyncDone
  <2>6. ASSUME NEW t \in Targets, DropCheck(t) PROVE sync' \in SyncType
    BY <2>1, <2>6 DEF DropCheck
  <2>7. ASSUME NEW t \in Targets, RestoreCheck(t) PROVE sync' \in SyncType
    BY <2>1, <2>7 DEF RestoreCheck
  <2>8. CASE Drop
    BY <2>1, <2>8 DEF Drop
  <2>9. CASE Restore
    BY <2>1, <2>9 DEF Restore
  <2> QED BY <2>2, <2>3, <2>4, <2>5, <2>6, <2>7, <2>8, <2>9 DEF Sync
<1>2. health' \in [Targets -> Verdicts]
  BY DEF Sync, Drop, Dropped, Restore, Inv, TypeOK, Verdicts
<1>3. UNCHANGED <<manifest, overrides, job, cleaner, interventions, evidence, history>>
  BY DEF Sync
<1>4. TypeOK'
  BY <1>1, <1>2, <1>3 DEF Inv, TypeOK, evidence, history
<1> QED BY <1>3, <1>4, RemovalInv DEF evidence

-----------------------------------------------------------------------------

LEMMA NextInv == Inv /\ [Next]_vars => Inv'
<1> SUFFICES ASSUME Inv, [Next]_vars PROVE Inv'
  OBVIOUS
<1>1. CASE UNCHANGED vars
  <2>1. TypeOK'
    BY <1>1 DEF Inv, TypeOK, vars
  <2> QED BY <1>1, <2>1, RemovalInv DEF vars, history
<1> DEFINE D == [Models -> Definition]
<1>2. Manifests \subseteq D
  BY InputAssumption DEF Manifests
<1>3. CASE (Refresh \/ AnyRestart) /\ disturbed' = FALSE
  BY <1>2, <1>3, RefreshInv, RestartInv DEF AnyRestart
<1>4. CASE Elsewhere /\ disturbed' = TRUE
  <2>1. CASE AnyStart
    BY <1>4, <2>1, StartRunInv DEF AnyStart
  <2>2. ASSUME NEW t \in Targets, Worker(t) PROVE Inv'
    BY <1>4, <2>2, SendInv, ProbeReturnedInv, RecordInv, ResetEvidenceInv, ConcludeInv DEF Worker
  <2>3. ASSUME NEW t \in Targets, TestFailed(t) PROVE Inv'
    BY <1>4, <2>3, TestFailedInv
  <2>4. CASE AnyUpdate
    BY <1>4, <2>4, UpdateConfigInv, InputAssumption DEF AnyUpdate
  <2>5. CASE AnyReset
    BY <1>4, <2>5, ResetHealthInv, TargetTypes DEF AnyReset
  <2>6. CASE AnyCleaning
    BY <1>4, <2>6, CleanEvidenceInv, CleanHealthInv DEF AnyCleaning
  <2>7. CASE AnyReload
    BY <1>2, <1>4, <2>7, ReloadInv DEF AnyReload
  <2> QED BY <1>4, <2>1, <2>2, <2>3, <2>4, <2>5, <2>6, <2>7 DEF Elsewhere
<1>5. CASE (Sync \/ \E t \in Targets : Traffic(t)) /\ UNCHANGED disturbed
  BY <1>5, SyncInv, TrafficInv
<1> QED BY <1>1, <1>3, <1>4, <1>5 DEF Next

LEMMA InvHolds == Spec => []Inv
<1> QED BY InitInv, NextInv, PTL DEF Spec

-----------------------------------------------------------------------------

\* The evidence is well typed whatever the interleaving, and a job under way
\* always carries the model it was started with (probeCandidates).
THEOREM EvidenceTypeCorrect == Spec => []TypeOK
<1> QED BY InvHolds, PTL DEF Inv

\* No order of probes, configuration changes, resets, refreshes and restarts makes
\* a target eligible that was not called as it is defined, and answered, unless its
\* definition changed and changed back during the probe: a worker whose definition
\* stays calls the model of its candidate, and when it has changed once for all the
\* record is of two definitions, which nothing in force can match.
THEOREM EligibleTargetsProven == Spec => []EligibleWasProven
<1>1. Inv => EligibleWasProven
  <2> SUFFICES ASSUME Inv, NEW t \in Targets, Eligible(t)
               PROVE  /\ Effective(t[1]).rev \in proven[t] \/ t \in returned
                      /\ last[t] \in {"passed", "unsaved"}
    BY DEF EligibleWasProven
  <2>1. /\ verified[t].model = Effective(t[1]) /\ Effective(t[1]) # Absent
        /\ verified[t].catalog = models[t[1]]
    BY DEF Eligible, Verified, VerifiedIn
  <2>2. verified[t] # NoEvidence
    BY <2>1 DEF NoEvidence
  <2>3. Effective(t[1]).rev = models[t[1]].rev
    BY <2>1, EffectiveType, TargetTypes DEF Inv
  <2> QED BY <2>1, <2>2, <2>3 DEF Inv, RecordsProven
<1> QED BY <1>1, InvHolds, PTL

\* A refresh or a restart on the manifest in use takes no target out of the routes
\* (pruneCapabilityVerifications, loadCache, syncVerifiedHealth).
THEOREM EvidenceIsKept == Spec => EvidenceSurvives
<1>1. ASSUME NEW t \in Targets, Eligible(t), Refresh, models' = models
      PROVE  Eligible(t)'
  <2>1. verified'[t] = verified[t]
    BY <1>1 DEF Refresh, Pruned, Eligible, Verified, VerifiedIn
  <2>2. UNCHANGED <<overrides, health>>
    BY <1>1 DEF Refresh
  <2> QED BY <1>1, <2>1, <2>2 DEF Eligible, Effective, Verified, VerifiedIn
<1>2. ASSUME NEW t \in Targets, Eligible(t), NEW definitions, Restart(definitions),
             models' = models
      PROVE  Eligible(t)'
  <2>1. definitions = models /\ UNCHANGED overrides
    BY <1>2 DEF Restart
  <2>2. verified'[t] = verified[t]
    BY <1>2, <2>1 DEF Restart, Pruned, Eligible, Verified, VerifiedIn
  <2>3. health'[t] = health[t]
    BY <1>2, <2>1 DEF Restart, Synced, Checked, Eligible, Effective, Verified
  <2> QED BY <1>2, <2>1, <2>2, <2>3 DEF Eligible, Effective, Verified, VerifiedIn
<1>3. [Next]_vars =>
        [(Refresh \/ AnyRestart) /\ models' = models =>
           \A t \in Targets : Eligible(t) => Eligible(t)']_vars
  BY <1>1, <1>2 DEF AnyRestart
<1> QED BY <1>3, PTL DEF Spec, EvidenceSurvives

-----------------------------------------------------------------------------
(* A sync that nobody disturbs *)

Valid(t) == Verified(t, Effective(t[1]))

\* The first loop: what it has yet to look at, what it has found without evidence,
\* and the rest, which has evidence.
Dropping ==
  /\ sync.existing = {t \in Targets : Checked(health[t])}
  /\ sync.left \cup sync.target \subseteq sync.existing
  /\ sync.left \cap sync.target = {}
  /\ \A t \in sync.existing \ sync.left : Valid(t) <=> t \notin sync.target

\* The second loop: a verdict has evidence, and evidence has a verdict or will.
Restoring ==
  /\ sync.target \subseteq Targets
  /\ \A t \in Targets : Checked(health[t]) \/ t \in sync.target => Valid(t)
  /\ \A t \in Targets : Valid(t) => Checked(health[t]) \/ t \in sync.left \cup sync.target

\* What the sync has done so far, as long as it is alone.
SyncTracks ==
  ~disturbed =>
    /\ sync.step \in {"health", "drop", "restore"} =>
         \A m \in Models : sync.effective[m] = Effective(m)
    /\ sync.step = "drop" => Dropping
    /\ sync.step = "restore" => Restoring
    /\ sync.step \in {"models", "health"} => sync.target = {}

LEMMA SyncStepTracks ==
  ASSUME Inv, SyncTracks, ~disturbed, Sync, UNCHANGED disturbed
  PROVE  SyncTracks'
<1>1. /\ UNCHANGED <<models, overrides, verified>>
      /\ \A t \in Targets : t[1] \in Models
      /\ \A t : Valid(t)' <=> Valid(t)
      /\ \A m : Effective(m)' = Effective(m)
  BY DEF Sync, evidence, Targets, Valid, Effective, Verified, VerifiedIn
<1>2. sync \in [step : SyncSteps, effective : [Models -> Definition], left : SUBSET Targets,
                existing : SUBSET Targets, target : SUBSET Targets]
  BY DEF Inv, TypeOK
<1>3. health \in [Targets -> Verdicts]
  BY DEF Inv, TypeOK
<1>4. CASE SyncModels
  BY <1>1, <1>2, <1>4 DEF SyncModels, SyncTracks
<1>5. CASE SyncHealth /\ UNCHANGED health
  BY <1>1, <1>2, <1>5 DEF SyncHealth, SyncTracks, Dropping
<1>6. ASSUME NEW t \in Targets, DropCheck(t), UNCHANGED health PROVE SyncTracks'
  <2>1. /\ sync'.step = "drop" /\ sync'.existing = sync.existing
        /\ sync'.effective = sync.effective /\ sync'.left = sync.left \ {t}
        /\ sync'.target = IF Verified(t, sync.effective[t[1]]) THEN {} ELSE {t}
        /\ sync.step = "drop" /\ sync.target = {} /\ t \in sync.left
    BY <1>2, <1>6 DEF DropCheck
  <2>2. Dropping /\ Verified(t, sync.effective[t[1]]) = Valid(t)
    BY <1>1, <2>1 DEF SyncTracks, Valid
  <2>3. Dropping'
    BY <1>1, <1>6, <2>1, <2>2 DEF Dropping
  <2> QED BY <1>1, <2>1, <2>3 DEF SyncTracks
<1>7. CASE Drop
  <2>1. /\ sync'.step = "drop" /\ sync'.existing = sync.existing \ sync.target
        /\ sync'.effective = sync.effective /\ sync'.left = sync.left /\ sync'.target = {}
        /\ sync.step = "drop"
    BY <1>2, <1>7 DEF Drop
  <2>2. Dropping
    BY <2>1 DEF SyncTracks
  <2>3. \A t \in Targets : Checked(health'[t]) <=> Checked(health[t]) /\ t \notin sync.target
    BY <1>3, <1>7 DEF Drop, Dropped, Checked
  <2>4. Dropping'
    BY <1>1, <2>1, <2>2, <2>3 DEF Dropping
  <2> QED BY <1>1, <2>1, <2>4 DEF SyncTracks
<1>8. CASE SyncEvidence /\ UNCHANGED health
  <2>1. /\ sync'.step = "restore" /\ sync'.effective = sync.effective /\ sync'.target = {}
        /\ sync'.left = {t \in Targets : verified[t] # NoEvidence /\ verified[t].catalog = models[t[1]]}
                          \ sync.existing
        /\ sync.step = "drop" /\ sync.target = {} /\ sync.left = {}
    BY <1>2, <1>8 DEF SyncEvidence
  <2>2. Dropping
    BY <2>1 DEF SyncTracks
  <2>3. \A t \in Targets : Valid(t) => verified[t] # NoEvidence /\ verified[t].catalog = models[t[1]]
    BY DEF Valid, Verified, VerifiedIn, NoEvidence
  <2>4. Restoring'
    BY <1>1, <1>8, <2>1, <2>2, <2>3 DEF Dropping, Restoring
  <2> QED BY <1>1, <2>1, <2>4 DEF SyncTracks
<1>9. ASSUME NEW t \in Targets, RestoreCheck(t), UNCHANGED health PROVE SyncTracks'
  <2>1. /\ sync'.step = "restore" /\ sync'.effective = sync.effective
        /\ sync'.left = sync.left \ {t}
        /\ sync'.target = IF Verified(t, sync.effective[t[1]]) THEN {t} ELSE {}
        /\ sync.step = "restore" /\ sync.target = {} /\ t \in sync.left
    BY <1>2, <1>9 DEF RestoreCheck
  <2>2. Restoring /\ Verified(t, sync.effective[t[1]]) = Valid(t)
    BY <1>1, <2>1 DEF SyncTracks, Valid
  <2>3. Restoring'
    BY <1>1, <1>9, <2>1, <2>2 DEF Restoring
  <2> QED BY <1>1, <2>1, <2>3 DEF SyncTracks
<1>10. CASE Restore
  <2>1. /\ sync'.step = "restore" /\ sync'.effective = sync.effective
        /\ sync'.left = sync.left /\ sync'.target = {} /\ sync.step = "restore"
    BY <1>2, <1>10 DEF Restore
  <2>2. Restoring
    BY <2>1 DEF SyncTracks
  <2>3. \A t \in Targets : Checked(health'[t]) <=> Checked(health[t]) \/ t \in sync.target
    BY <1>3, <1>10 DEF Restore, Checked
  <2>4. Restoring'
    BY <1>1, <2>1, <2>2, <2>3 DEF Restoring
  <2> QED BY <1>1, <2>1, <2>4 DEF SyncTracks
<1>11. CASE SyncDone
  BY <1>11 DEF SyncDone, NoSync, SyncTracks
<1> QED BY <1>4, <1>5, <1>6, <1>7, <1>8, <1>9, <1>10, <1>11 DEF Sync

\* Traffic changes verdicts, but none becomes or ceases to be one a probe gave.
LEMMA TrafficTracks ==
  ASSUME Inv, SyncTracks, ~disturbed, NEW t \in Targets, Traffic(t), UNCHANGED disturbed
  PROVE  SyncTracks'
<1>1. /\ UNCHANGED sync
      /\ \A u : Valid(u)' <=> Valid(u)
      /\ \A m : Effective(m)' = Effective(m)
  BY DEF Traffic, evidence, Valid, Effective, Verified, VerifiedIn
<1>2. \A u \in Targets : Checked(health'[u]) <=> Checked(health[u])
  BY DEF Traffic, Checked, Inv, TypeOK
<1> QED BY <1>1, <1>2 DEF SyncTracks, Dropping, Restoring

LEMMA TracksHold == Spec => []SyncTracks
<1>1. Init => SyncTracks
  BY DEF Init, NoSync, SyncTracks
<1>2. Inv /\ SyncTracks /\ [Next]_vars => SyncTracks'
  <2> SUFFICES ASSUME Inv, SyncTracks, [Next]_vars PROVE SyncTracks'
    OBVIOUS
  <2>1. CASE disturbed' = TRUE
    BY <2>1 DEF SyncTracks
  <2>2. CASE UNCHANGED vars
    BY <2>2 DEF vars, SyncTracks, Dropping, Restoring, Valid, Effective, Verified, VerifiedIn
  <2>3. CASE Refresh
    BY <2>3 DEF Refresh, NoSync, SyncTracks
  <2>4. CASE AnyRestart
    BY <2>4 DEF AnyRestart, Restart, NoSync, SyncTracks
  <2>5. CASE (Sync \/ \E t \in Targets : Traffic(t)) /\ UNCHANGED disturbed /\ ~disturbed
    BY <2>5, SyncStepTracks, TrafficTracks
  <2> QED BY <2>1, <2>2, <2>3, <2>4, <2>5 DEF Next, Inv, TypeOK
<1> QED BY <1>1, <1>2, InvHolds, PTL DEF Spec

\* When a sync that nobody disturbed is done, a verdict of the tracker and evidence
\* in the catalog go together, for every target (admin.go:391).
THEOREM SyncsReconcile == Spec => SyncReconciles
<1>1. SyncTracks /\ [Next]_vars =>
        [SyncDone /\ ~disturbed =>
           \A t \in Targets : Checked(health[t]) <=> Verified(t, Effective(t[1]))]_vars
  BY DEF SyncTracks, Restoring, SyncDone, Valid
<1> QED BY <1>1, TracksHold, PTL DEF Spec, SyncReconciles
=============================================================================
