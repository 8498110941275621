----------------------------- MODULE MCDurable -----------------------------
(* What the process leaves in files, and how it goes on from them: the      *)
(* tracker's states and its snapshots, the inventory's cache, the           *)
(* statistics, the budget of expensive probes and the installed service.    *)
(* They share no state here, so a behaviour follows one of them, its        *)
(* subject.                                                                 *)
EXTENDS HealthTracker, HealthPersist, Catalog, ProbeBudget, Statistics, Daemon, TLC

CONSTANTS
  a, b, c,   \* overlapping savers: one writing, one stale, one yet to snapshot
  m1, m2,
  p1,        \* the provider of both models, to the tracker
  Subjects   \* what this run looks at

VARIABLE subject

\* One provider with two models, one capability: enough for a model and its
\* provider to disagree.  401 and 402 quarantine longer than a transient failure.
MCProviderOf == [m \in {m1, m2} |-> p1]
MCTransient == [f \in 1..2 |-> {1}]
MCCredential == [f \in 1..2 |-> {2}]

Overlaps == Permutations({a, b, c})

\* m1 changes its score and then its definition; m2 comes and goes.
Definition(rev, functions, tools, score) ==
  [rev |-> rev, functions |-> functions, tools |-> tools, score |-> score]

MCCandidates ==
  (m1 :> {Definition(1, {}, "silent", 1), Definition(1, {}, "silent", 2),
          Definition(2, {"chat"}, "denied", 1)})
  @@ (m2 :> {Definition(0, {}, "silent", 0), Definition(1, {"image"}, "silent", 1)})

FirstManifest ==
  (m1 :> Definition(1, {}, "silent", 1)) @@ (m2 :> Definition(0, {}, "silent", 0))

MCFunctions == (m1 :> {"chat", "image", "video"}) @@ (m2 :> {"image"})

MCOwner == [m \in {m1, m2} |-> m]

MCInit ==
  /\ subject \in Subjects
  /\ Init /\ PersistInit /\ CatalogInit /\ UsageInit /\ BudgetInit /\ ServiceInit
  /\ subject = "inventory" \/ manifest = FirstManifest
  /\ subject = "service" \/ goos = "linux"

MCNext ==
  /\ UNCHANGED subject
  /\ \/ subject = "breaker" /\ Next
        /\ UNCHANGED <<vars, catalogVars, usageVars, budgetVars, serviceVars>>
     \/ subject = "health" /\ PersistNext
        /\ UNCHANGED <<healthVars, catalogVars, usageVars, budgetVars, serviceVars>>
     \/ subject = "inventory" /\ CatalogNext
        /\ UNCHANGED <<healthVars, vars, usageVars, budgetVars, serviceVars>>
     \/ subject = "usage" /\ UsageNext
        /\ UNCHANGED <<healthVars, vars, catalogVars, budgetVars, serviceVars>>
     \/ subject = "probing" /\ BudgetNext
        /\ UNCHANGED <<healthVars, vars, catalogVars, usageVars, serviceVars>>
     \/ subject = "service" /\ ServiceNext
        /\ UNCHANGED <<healthVars, vars, catalogVars, usageVars, budgetVars>>

MCSpec ==
  MCInit /\ [][MCNext]_<<subject, healthVars, vars, catalogVars, usageVars, budgetVars, serviceVars>>
=============================================================================
