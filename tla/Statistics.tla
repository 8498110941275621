------------------------------ MODULE Statistics ------------------------------
(***************************************************************************)
(* The usage statistics (internal/statistics: New, Record, persistLocked,  *)
(* load).  One mutex covers a count and its save, so a request's Record is *)
(* one step; the save is a temporary file, synced and renamed, and may     *)
(* fail, which leaves the counters ahead of the file until the next one.   *)
(* Latencies, rates and the last use of a model are left out.              *)
(***************************************************************************)
EXTENDS Naturals

CONSTANTS
  Tracked,      \* pairs of a model and a capability
  MaxRequests   \* bound on a target's counter

VARIABLES
  loaded,    \* New has returned without an error
  models,    \* Store.models: target -> its counters
  saved,     \* the file's; all zero when there is none
  readable   \* the file can be decoded and has the schema

usageVars == <<loaded, models, saved, readable>>

Zero == [requests |-> 0, successes |-> 0, failures |-> 0,
         reported |-> 0, missing |-> 0, tokens |-> 0]

Zeros == [t \in Tracked |-> Zero]

UsageInit == loaded = FALSE /\ models = Zeros /\ saved = Zeros /\ readable = TRUE

\* What a response said of its usage, when it had to say something at all.
Usage == [kind : {"missing", "unasked"}, input : {0}, output : {0}, total : {0}]
           \cup [kind : {"reported"}, input : {1}, output : {1}, total : {0, 3}]

\* A total of zero is taken for one that was not reported.
Tokens(usage) == IF usage.total = 0 THEN usage.input + usage.output ELSE usage.total

Counted(item, success, usage) ==
  LET asked == [item EXCEPT !.requests = @ + 1,
                            !.successes = IF success THEN @ + 1 ELSE @,
                            !.failures = IF success THEN @ ELSE @ + 1]
  IN CASE usage.kind = "missing" -> [asked EXCEPT !.missing = @ + 1]
       [] usage.kind = "unasked" -> asked
       [] OTHER -> [asked EXCEPT !.reported = @ + 1, !.tokens = @ + Tokens(usage)]

\* Mutant of Persist: a failed save leaves a file without counters.
PersistTruncating(ok) == saved' = IF ok THEN models' ELSE Zeros

Persist(ok) == saved' = IF ok THEN models' ELSE saved

Record(t, success, usage, ok) ==
  /\ loaded /\ models[t].requests < MaxRequests
  /\ models' = [models EXCEPT ![t] = Counted(@, success, usage)]
  /\ Persist(ok)
  /\ UNCHANGED <<loaded, readable>>

\* New: a file that cannot be decoded keeps the server from starting, and keeps
\* the counters for whoever repairs it.
New ==
  /\ loaded' = readable
  /\ models' = IF readable THEN saved ELSE Zeros
  /\ UNCHANGED <<saved, readable>>

DamageUsage == ~loaded /\ readable /\ readable' = FALSE /\ UNCHANGED <<loaded, models, saved>>
RepairUsage == ~readable /\ readable' = TRUE /\ UNCHANGED <<loaded, models, saved>>

UsageNext ==
  \/ \E t \in Tracked, success, ok \in BOOLEAN, usage \in Usage : Record(t, success, usage, ok)
  \/ New
  \/ DamageUsage \/ RepairUsage

UsageSpec == UsageInit /\ [][UsageNext]_usageVars

-----------------------------------------------------------------------------
(* Properties *)

Ledger(t) == INSTANCE DurableState
  WITH memory <- (IF loaded THEN models ELSE saved)[t].requests, file <- saved[t].requests,
       whole <- TRUE

\* What was counted stays counted: through failed saves, restarts and a file that
\* cannot be read, the file never falls behind what it held of any target, and a
\* server goes on from it ("atomically replaces its JSON file", store.go:74).
NeverUncounted ==
  /\ \A t \in Tracked : Ledger(t)!Init
  /\ [][\A t \in Tracked : Ledger(t)!Next \/ UNCHANGED Ledger(t)!version]_usageVars
=============================================================================
