------------------------------ MODULE Evidence ------------------------------
(***************************************************************************)
(* What makes a model routable: the verification records of                *)
(* internal/catalog, the operator's overrides of internal/routing and the  *)
(* verdicts of internal/health, and everybody who changes them.            *)
(*                                                                         *)
(* Goroutines: one worker per probe under way (ProbeReturned, Record,      *)
(* ResetEvidence, Conclude), the config service and the operator's reset   *)
(* (CleanEvidence, CleanHealth), a catalog refresh followed by             *)
(* syncVerifiedHealth, failed provider tests, gateway traffic and          *)
(* restarts.  They share no lock but the catalog's refreshMu, held from    *)
(* the snapshot to the publication of every change.  A kill between its    *)
(* save and its publication is a Restart after it, so a commit is one      *)
(* step, which a failed save leaves out.                                   *)
(*                                                                         *)
(* A definition is a record with a revision, which stands for the metadata *)
(* a model is called with, and the functions it advertises; the record is  *)
(* its own fingerprint.  A probe calls the model the catalog has when it   *)
(* is sent, and is credited to the model of its candidate.  Providers stay *)
(* configured, and health is what eligibility asks of it: HealthTracker    *)
(* has the rest.                                                           *)
(***************************************************************************)
EXTENDS Naturals

CONSTANTS
  Models,           \* model ids
  Functions,        \* what a model may be able to do
  Capabilities,     \* those of them probe runs cover
  Definitions,      \* the definitions a manifest may have of a model
  Overrides,        \* the overrides an operator may choose
  MaxInterventions  \* bound: manifest and config changes, resets, failed tests, restarts

Definition == [rev : Nat, functions : SUBSET Functions]
Override == [disabled : BOOLEAN, functions : SUBSET Functions]

\* A model the manifest does not have, or the operator disabled.
Absent == [rev |-> 0, functions |-> {}]
NoOverride == [disabled |-> FALSE, functions |-> {}]

ASSUME InputAssumption ==
  /\ Capabilities \subseteq Functions
  /\ Definitions \subseteq Definition
  /\ Overrides \subseteq Override
  /\ MaxInterventions \in Nat

VARIABLES
  manifest,       \* model -> its definition in the provider registry
  models,         \* model -> its definition in catalog.Store.models
  overrides,      \* model -> its override in routing.Store
  verified,       \* target -> its record in verifiedCapabilities
  health,         \* target -> its verdict in health.Tracker
  job,            \* target -> the worker probing it; crossed is history
  cleaner,        \* the config service and the reset handler
  sync,           \* the refresh and its syncVerifiedHealth
  proven,         \* history: target -> the revisions a probe of it was sent with and passed
  last,           \* history: target -> how its last finished probe ended
  returned,       \* history: targets whose record is of a probe during which
                  \* another revision came into the catalog and went again
  disturbed,      \* history: somebody else acted since the sync began
  interventions   \* bound

evidence == <<models, verified>>
history == <<proven, last, returned>>
vars == <<manifest, models, overrides, verified, health, job, cleaner, sync,
          proven, last, returned, disturbed, interventions>>

Targets == Models \X Capabilities
TargetsOf(m) == {m} \X Capabilities

NoEvidence == [catalog |-> Absent, model |-> Absent]
NoJob == [step |-> "idle", model |-> Absent, sent |-> 0, crossed |-> FALSE]
NoCleaning == [step |-> "idle", targets |-> {}]
NoSync == [step |-> "idle", effective |-> [m \in Models |-> Absent],
           left |-> {}, existing |-> {}, target |-> {}]

\* Nothing is known, a health check failed, or a probe passed; of those that
\* passed, traffic may have opened the breaker.
Verdicts == {"unknown", "isolated", "healthy", "tripped"}
Checked(verdict) == verdict \in {"healthy", "tripped"}

Cleaners == {"config", "reset"}
Steps == {"idle", "queued", "sent", "record", "reset", "succeed", "fail"}
Job == [step : Steps, model : Definition, sent : Nat, crossed : BOOLEAN]
Probing(t) == job[t].step \in {"queued", "sent", "record"}
SyncSteps == {"idle", "models", "health", "drop", "restore"}

TypeOK ==
  /\ manifest \in [Models -> Definition]
  /\ models \in [Models -> Definition]
  /\ overrides \in [Models -> Override]
  /\ verified \in [Targets -> [catalog : Definition, model : Definition]]
  /\ health \in [Targets -> Verdicts]
  /\ job \in [Targets -> Job]
  /\ \A t \in Targets : job[t].step = "idle" <=> job[t].model = Absent
  /\ cleaner \in [Cleaners -> [step : {"idle", "evidence", "health"}, targets : SUBSET Targets]]
  /\ sync \in [step : SyncSteps, effective : [Models -> Definition], left : SUBSET Targets,
               existing : SUBSET Targets, target : SUBSET Targets]
  /\ proven \in [Targets -> SUBSET Nat]
  /\ last \in [Targets -> {"none", "passed", "failed", "unsaved"}]
  /\ returned \in SUBSET Targets
  /\ disturbed \in BOOLEAN
  /\ interventions \in 0..MaxInterventions

-----------------------------------------------------------------------------
(* Fingerprints *)

\* routing.Apply: an override disables a model or replaces its functions.
Apply(override, definition) ==
  IF definition = Absent \/ override.disabled THEN Absent
  ELSE IF override.functions = {} THEN definition
  ELSE [definition EXCEPT !.functions = override.functions]

Effective(m) == Apply(overrides[m], models[m])

\* ModelCapabilityVerified, CapabilityVerified: the record was made of the
\* definition the catalog has, with the override in force.
VerifiedIn(definitions, t, model) ==
  /\ model # Absent
  /\ verified[t].catalog = definitions[t[1]]
  /\ verified[t].model = model

Verified(t, model) == VerifiedIn(models, t, model)

\* Mutant of Pruned: an overridden model's record is taken for a stale one.
PrunedByModel(definitions) ==
  [t \in Targets |-> IF verified[t].model = definitions[t[1]] THEN verified[t] ELSE NoEvidence]

\* pruneCapabilityVerifications
Pruned(definitions) ==
  [t \in Targets |-> IF verified[t].catalog = definitions[t[1]] THEN verified[t] ELSE NoEvidence]

Without(targets) == [t \in Targets |-> IF t \in targets THEN NoEvidence ELSE verified[t]]

\* Eligible: what the planner lets into a stable route.
Eligible(t) ==
  /\ t[2] \in Effective(t[1]).functions
  /\ Verified(t, Effective(t[1]))
  /\ health[t] = "healthy"

Init ==
  /\ manifest \in [Models -> Definitions]
  /\ models = manifest
  /\ overrides = [m \in Models |-> NoOverride]
  /\ verified = [t \in Targets |-> NoEvidence]
  /\ health = [t \in Targets |-> "unknown"]
  /\ job = [t \in Targets |-> NoJob]
  /\ cleaner = [c \in Cleaners |-> NoCleaning]
  /\ sync = NoSync
  /\ proven = [t \in Targets |-> {}]
  /\ last = [t \in Targets |-> "none"]
  /\ returned = {}
  /\ disturbed = FALSE
  /\ interventions = 0

Intervene ==
  /\ interventions < MaxInterventions
  /\ interventions' = interventions + 1

-----------------------------------------------------------------------------
(* A probe run: its candidates carry the effective model of the moment *)

StartRun(targets) ==
  /\ \A t \in Targets : job[t].step = "idle"
  /\ targets # {}
  /\ \A t \in targets : t[2] \in Effective(t[1]).functions
  /\ job' = [t \in Targets |->
       IF t \in targets THEN [NoJob EXCEPT !.step = "queued", !.model = Effective(t[1])]
       ELSE job[t]]
  /\ UNCHANGED <<manifest, overrides, health, cleaner, sync, interventions, evidence, history>>

\* ProbeModel asks the catalog for the model again, which may be gone, and calls
\* what it finds there: overrides are not asked.
Send(t) ==
  /\ job[t].step = "queued"
  /\ job' = [job EXCEPT ![t] =
       IF models[t[1]] = Absent THEN [@ EXCEPT !.step = "reset"]
       ELSE [@ EXCEPT !.step = "sent", !.sent = models[t[1]].rev]]
  /\ UNCHANGED <<manifest, overrides, health, cleaner, sync, interventions, evidence, history>>

ProbeReturned(t, ok) ==
  /\ job[t].step = "sent"
  /\ job' = [job EXCEPT ![t].step = IF ok THEN "record" ELSE "reset"]
  /\ proven' = [proven EXCEPT ![t] = IF ok THEN @ \cup {job[t].sent} ELSE @]
  /\ UNCHANGED <<manifest, overrides, health, cleaner, sync, interventions, evidence,
                 last, returned>>

\* Mutant of NewRecord: the override in force when the answer arrives.
RecordOfNow(t) == [catalog |-> models[t[1]], model |-> Effective(t[1])]

NewRecord(t) == [catalog |-> models[t[1]], model |-> job[t].model]

\* RecordModelCapabilityVerification; its error makes the probe a failed one.
Record(t, saved) ==
  /\ job[t].step = "record"
  /\ \/ /\ models[t[1]] # Absent /\ saved
        /\ verified' = [verified EXCEPT ![t] = NewRecord(t)]
        /\ last' = [last EXCEPT ![t] = "passed"]
        /\ returned' = IF job[t].crossed /\ models[t[1]].rev = job[t].model.rev
                       THEN returned \cup {t} ELSE returned \ {t}
        /\ job' = [job EXCEPT ![t].step = "succeed"]
     \/ /\ models[t[1]] = Absent \/ ~saved
        /\ job' = [job EXCEPT ![t].step = "reset"]
        /\ UNCHANGED <<verified, last, returned>>
  /\ UNCHANGED <<manifest, models, overrides, health, cleaner, sync, interventions, proven>>

\* A failed probe resets its record; that this cannot be saved is ignored.
ResetEvidence(t, saved) ==
  /\ job[t].step = "reset"
  /\ verified' = IF saved THEN Without({t}) ELSE verified
  /\ last' = [last EXCEPT ![t] = IF saved THEN "failed" ELSE "unsaved"]
  /\ job' = [job EXCEPT ![t].step = "fail"]
  /\ UNCHANGED <<manifest, models, overrides, health, cleaner, sync, interventions,
                 proven, returned>>

\* ProbeSuccess or ProbeFailure
Conclude(t) ==
  /\ job[t].step \in {"succeed", "fail"}
  /\ health' = [health EXCEPT ![t] = IF job[t].step = "succeed" THEN "healthy" ELSE "isolated"]
  /\ job' = [job EXCEPT ![t] = NoJob]
  /\ UNCHANGED <<manifest, overrides, cleaner, sync, interventions, evidence, history>>

Worker(t) ==
  \/ Send(t)
  \/ \E ok \in BOOLEAN : ProbeReturned(t, ok)
  \/ \E saved \in BOOLEAN : Record(t, saved) \/ ResetEvidence(t, saved)
  \/ Conclude(t)

-----------------------------------------------------------------------------
(* The operator *)

\* ConfigService.Update: the configuration is in force before what was proven
\* under the old one is forgotten.
UpdateConfig(m, override) ==
  /\ cleaner["config"].step = "idle"
  /\ override # overrides[m]
  /\ overrides' = [overrides EXCEPT ![m] = override]
  /\ cleaner' = [cleaner EXCEPT !["config"] = [step |-> "evidence", targets |-> TargetsOf(m)]]
  /\ Intervene
  /\ UNCHANGED <<manifest, health, job, sync, evidence, history>>

ResetHealth(targets) ==
  /\ cleaner["reset"].step = "idle"
  /\ cleaner' = [cleaner EXCEPT !["reset"] = [step |-> "evidence", targets |-> targets]]
  /\ Intervene
  /\ UNCHANGED <<manifest, overrides, health, job, sync, evidence, history>>

\* ResetCapabilityVerification; both callers give up when it cannot be saved.
CleanEvidence(c, saved) ==
  /\ cleaner[c].step = "evidence"
  /\ verified' = IF saved THEN Without(cleaner[c].targets) ELSE verified
  /\ cleaner' = [cleaner EXCEPT ![c] = IF saved THEN [@ EXCEPT !.step = "health"] ELSE NoCleaning]
  /\ UNCHANGED <<manifest, models, overrides, health, job, sync, interventions, history>>

CleanHealth(c) ==
  /\ cleaner[c].step = "health"
  /\ health' = [t \in Targets |-> IF t \in cleaner[c].targets THEN "unknown" ELSE health[t]]
  /\ cleaner' = [cleaner EXCEPT ![c] = NoCleaning]
  /\ UNCHANGED <<manifest, overrides, job, sync, interventions, evidence, history>>

\* A failed provider test or credential check marks the models one by one.
TestFailed(t) ==
  /\ t[2] \in models[t[1]].functions
  /\ health' = [health EXCEPT ![t] = "isolated"]
  /\ Intervene
  /\ UNCHANGED <<manifest, overrides, job, cleaner, sync, evidence, history>>

\* A reload of the providers reads a new manifest.
Reload(definitions) ==
  /\ definitions # manifest
  /\ manifest' = definitions
  /\ Intervene
  /\ UNCHANGED <<overrides, health, job, cleaner, sync, evidence, history>>

\* Traffic opens and closes breakers of verified targets.
Traffic(t) ==
  /\ Checked(health[t])
  /\ health' = [health EXCEPT ![t] = IF @ = "healthy" THEN "tripped" ELSE "healthy"]
  /\ UNCHANGED <<manifest, overrides, job, cleaner, sync, interventions, evidence, history>>

-----------------------------------------------------------------------------
(* Refresh and syncVerifiedHealth *)

\* History: the probes under way whose model is called otherwise from now on.
Crossing(definitions) ==
  [t \in Targets |->
     IF Probing(t) /\ definitions[t[1]].rev # models[t[1]].rev
     THEN [job[t] EXCEPT !.crossed = TRUE] ELSE job[t]]

Refresh ==
  /\ sync.step = "idle"
  /\ models' = manifest
  /\ verified' = Pruned(manifest)
  /\ sync' = [NoSync EXCEPT !.step = "models"]
  /\ job' = Crossing(manifest)
  /\ UNCHANGED <<manifest, overrides, health, cleaner, interventions, history>>

SyncModels ==
  /\ sync.step = "models"
  /\ sync' = [sync EXCEPT !.step = "health", !.effective = [m \in Models |-> Effective(m)]]

SyncHealth ==
  /\ sync.step = "health"
  /\ LET known == {t \in Targets : Checked(health[t])}
     IN sync' = [sync EXCEPT !.step = "drop", !.left = known, !.existing = known]

\* The first loop looks at a verified state and picks it when it has no evidence.
DropCheck(t) ==
  /\ sync.step = "drop" /\ sync.target = {} /\ t \in sync.left
  /\ sync' = [sync EXCEPT !.left = @ \ {t},
                          !.target = IF Verified(t, sync.effective[t[1]]) THEN {} ELSE {t}]

\* Mutant of Dropped: the state keeps its verdict.
DroppedNothing == health

Dropped == [t \in Targets |-> IF t \in sync.target THEN "unknown" ELSE health[t]]

Drop ==
  /\ sync.step = "drop" /\ sync.target # {}
  /\ health' = Dropped
  /\ sync' = [sync EXCEPT !.existing = @ \ sync.target, !.target = {}]

\* CapabilityVerifications: the records of the definitions the catalog has.
SyncEvidence ==
  /\ sync.step = "drop" /\ sync.target = {} /\ sync.left = {}
  /\ sync' = [sync EXCEPT !.step = "restore",
       !.left = {t \in Targets : verified[t] # NoEvidence /\ verified[t].catalog = models[t[1]]}
                  \ sync.existing]

RestoreCheck(t) ==
  /\ sync.step = "restore" /\ sync.target = {} /\ t \in sync.left
  /\ sync' = [sync EXCEPT !.left = @ \ {t},
                          !.target = IF Verified(t, sync.effective[t[1]]) THEN {t} ELSE {}]

\* RestoreProbeSuccess
Restore ==
  /\ sync.step = "restore" /\ sync.target # {}
  /\ health' = [t \in Targets |-> IF t \in sync.target THEN "healthy" ELSE health[t]]
  /\ sync' = [sync EXCEPT !.target = {}]

SyncDone ==
  /\ sync.step = "restore" /\ sync.target = {} /\ sync.left = {}
  /\ sync' = NoSync

Sync ==
  /\ \/ /\ \/ SyncModels \/ SyncHealth \/ SyncEvidence \/ SyncDone
           \/ \E t \in Targets : DropCheck(t) \/ RestoreCheck(t)
        /\ UNCHANGED health
     \/ Drop \/ Restore
  /\ UNCHANGED <<manifest, overrides, job, cleaner, interventions, evidence, history>>

\* What syncVerifiedHealth makes of a verdict when nobody interferes.
Synced(verdict, valid) ==
  IF valid THEN IF Checked(verdict) THEN verdict ELSE "healthy"
  ELSE IF Checked(verdict) THEN "unknown" ELSE verdict

\* Bootstrap reads the cache or rebuilds it; New synchronises before it serves.
Restart(definitions) ==
  /\ manifest' = definitions
  /\ models' = definitions
  /\ verified' = Pruned(definitions)
  /\ health' = [t \in Targets |->
       Synced(health[t],
              VerifiedIn(definitions, t, Apply(overrides[t[1]], definitions[t[1]])))]
  /\ job' = [t \in Targets |-> NoJob]
  /\ cleaner' = [c \in Cleaners |-> NoCleaning]
  /\ sync' = NoSync
  /\ Intervene
  /\ UNCHANGED <<overrides, history>>

-----------------------------------------------------------------------------

Manifests == [Models -> Definitions]

AnyStart == \E targets \in SUBSET Targets : StartRun(targets)
AnyUpdate == \E m \in Models, override \in Overrides : UpdateConfig(m, override)
AnyReset == \E m \in Models : ResetHealth(TargetsOf(m)) \/ \E c \in Capabilities : ResetHealth({<<m, c>>})
AnyCleaning == \E c \in Cleaners : CleanHealth(c) \/ \E saved \in BOOLEAN : CleanEvidence(c, saved)
AnyReload == \E definitions \in Manifests : Reload(definitions)
AnyRestart == \E definitions \in Manifests : Restart(definitions)

Elsewhere ==
  \/ AnyStart
  \/ \E t \in Targets : Worker(t) \/ TestFailed(t)
  \/ AnyUpdate \/ AnyReset \/ AnyCleaning
  \/ AnyReload

Next ==
  \/ (Refresh \/ AnyRestart) /\ disturbed' = FALSE
  \/ Elsewhere /\ disturbed' = TRUE
  \/ (Sync \/ \E t \in Targets : Traffic(t)) /\ UNCHANGED disturbed

Spec == Init /\ [][Next]_vars

-----------------------------------------------------------------------------
(* Properties *)

\* A target enters a stable route only if the last probe of it that finished had
\* passed, and a probe that called it as it is now defined had: one that ran
\* across a change of the definition proves nothing (probe.go:575,
\* catalog.go:1258).  There are two ways out.  The reset of a failed probe may
\* not be saved (probe.go:588), and the definition may change and change back
\* between the candidate and its record, so that a probe sent in between
\* (probe.go:570) is credited to a definition it did not call.
EligibleWasProven ==
  \A t \in Targets : Eligible(t) =>
    /\ Effective(t[1]).rev \in proven[t] \/ t \in returned
    /\ last[t] \in {"passed", "unsaved"}

\* A refresh or a restart on the manifest the catalog was built from takes no
\* target out of the routes, overridden or not (catalog.go:1187).
EvidenceSurvives ==
  [][(Refresh \/ AnyRestart) /\ models' = models =>
       \A t \in Targets : Eligible(t) => Eligible(t)']_vars

\* When a sync that nobody disturbed is done, the targets health calls verified
\* are those the catalog has evidence of (admin.go:391).
SyncReconciles ==
  [][SyncDone /\ ~disturbed =>
       \A t \in Targets : Checked(health[t]) <=> Verified(t, Effective(t[1]))]_vars

\* "Isolated by the health check" is out of the stable routes (README.md:37), and a
\* failed model stays out "until a manual check or reset" (README.md:722).
IsolatedUntilProbed ==
  [][\A t \in Targets :
       health[t] = "isolated" /\ health'[t] = "healthy" => job[t].step = "succeed"]_vars
=============================================================================
