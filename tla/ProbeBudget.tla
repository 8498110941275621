----------------------------- MODULE ProbeBudget -----------------------------
(***************************************************************************)
(* The daily budget of expensive probes (internal/admin/probe.go: StartModel, *)
(* reserveExpensiveBudget, loadBudget, saveBudget).  A manual run of one   *)
(* model may send image and video requests that cost money: they are       *)
(* charged to a file before the run starts, under the manager's lock, and  *)
(* sent by its workers later, perhaps after midnight or never.  What the   *)
(* answers do to evidence and health is modules Evidence and Heartbeat.    *)
(***************************************************************************)
EXTENDS Naturals, FiniteSets

CONSTANTS
  ProbeModels, \* model ids
  Functions,   \* model -> what it advertises
  Expensive,   \* the functions that cost money
  DailyLimit,  \* expensiveProbeDailyLimit
  LastDay      \* bound on the calendar

VARIABLES
  day,         \* today
  budget,      \* the file: its date and what was used; readable unless damaged
  unverified,  \* model -> functions without a valid verification
  run,         \* the manager's run: jobs waiting and requests under way
  charged,     \* history: the day the run was charged to
  sent         \* history: day -> expensive requests of the runs charged to it

budgetVars == <<day, budget, unverified, run, charged, sent>>

Days == 1..LastDay

AllFunctions == UNION {Functions[m] : m \in ProbeModels}

Jobs == ProbeModels \X AllFunctions

\* What the manifest and the constant expensiveProbeDailyLimit make sure of.
Configured ==
  /\ Functions \in [ProbeModels -> SUBSET AllFunctions]
  /\ IsFiniteSet(ProbeModels) /\ IsFiniteSet(AllFunctions)
  /\ DailyLimit \in Nat /\ LastDay \in Nat \ {0}

ASSUME BudgetAssumption == Configured

NoRun == [running |-> FALSE, waiting |-> {}, asked |-> {}]

BudgetTypeOK ==
  /\ day \in Days
  /\ budget \in [readable : BOOLEAN, date : 0..LastDay, used : 0..DailyLimit]
  /\ unverified \in [ProbeModels -> SUBSET AllFunctions]
  /\ run \in [running : BOOLEAN, waiting : SUBSET Jobs, asked : SUBSET Jobs]
  /\ charged \in Days
  /\ sent \in [Days -> Nat]

BudgetInit ==
  /\ day = 1
  /\ budget = [readable |-> TRUE, date |-> 0, used |-> 0]
  /\ unverified = Functions
  /\ run = NoRun
  /\ charged = 1
  /\ sent = [d \in Days |-> 0]

-----------------------------------------------------------------------------
(* Starting a run *)

\* countExpensiveProbes
Cost(jobs) == Cardinality({j \in jobs : j[2] \in Expensive})

\* unverifiedProbeJobs
JobsOf(m) == {m} \X unverified[m]

\* loadBudget: a budget of another day, or none, is a fresh one.
UsedToday == IF budget.date = day THEN budget.used ELSE 0

Started(jobs) == run' = [running |-> TRUE, waiting |-> jobs, asked |-> {}]

\* Mutant of Reserved: a budget that could not be saved counts as charged.
ReservedUnsaved(cost, saved) ==
  /\ UsedToday + cost <= DailyLimit
  /\ budget' = IF saved THEN [budget EXCEPT !.date = day, !.used = UsedToday + cost] ELSE budget

\* reserveExpensiveBudget returned no error.
Reserved(cost, saved) ==
  /\ UsedToday + cost <= DailyLimit
  /\ saved
  /\ budget' = [budget EXCEPT !.date = day, !.used = UsedToday + cost]

\* StartModel.  It returns without a run, and without a change but of the status
\* it shows, when one is under way, the cost was not confirmed, the budget cannot
\* be read, this is a dry run, the budget is used up or cannot be saved, or there
\* is nothing to probe.
StartModel(m, saved) ==
  /\ ~run.running /\ budget.readable
  /\ JobsOf(m) # {}
  /\ IF Cost(JobsOf(m)) > 0 THEN Reserved(Cost(JobsOf(m)), saved) ELSE UNCHANGED budget
  /\ Started(JobsOf(m))
  /\ charged' = day
  /\ UNCHANGED <<day, unverified, sent>>

\* start and StartJobs: every automatic, page-wide or provider-wide run leaves
\* the expensive functions out and asks for no budget.
StartCheap(models) ==
  LET jobs == {j \in Jobs : j[1] \in models /\ j[2] \in unverified[j[1]] \ Expensive}
  IN /\ ~run.running
     /\ jobs # {}
     /\ Started(jobs)
     /\ charged' = day
     /\ UNCHANGED <<day, budget, unverified, sent>>

-----------------------------------------------------------------------------
(* The workers of a run *)

Send(j) ==
  /\ j \in run.waiting
  /\ run' = [run EXCEPT !.waiting = @ \ {j}, !.asked = @ \cup {j}]
  /\ sent' = IF j[2] \in Expensive THEN [sent EXCEPT ![charged] = @ + 1] ELSE sent
  /\ UNCHANGED <<day, budget, unverified, charged>>

\* The probe passed and was recorded, or it failed and its record was reset.
\* The last worker to finish ends the run.
Answered(j, ok) ==
  /\ j \in run.asked
  /\ unverified' = [unverified EXCEPT ![j[1]] = IF ok THEN @ \ {j[2]} ELSE @ \cup {j[2]}]
  /\ run' = IF run.waiting = {} /\ run.asked = {j} THEN NoRun
            ELSE [run EXCEPT !.asked = @ \ {j}]
  /\ UNCHANGED <<day, budget, charged, sent>>

-----------------------------------------------------------------------------
(* Around them *)

\* A reset or a new manifest: nothing the model can do is proven any more.
Forget(m) ==
  /\ unverified' = [unverified EXCEPT ![m] = Functions[m]]
  /\ UNCHANGED <<day, budget, run, charged, sent>>

Midnight ==
  /\ day < LastDay
  /\ day' = day + 1
  /\ UNCHANGED <<budget, unverified, run, charged, sent>>

\* Something else writes the file: what cannot be decoded is not an empty budget.
DamageBudget ==
  /\ budget' = [budget EXCEPT !.readable = FALSE]
  /\ UNCHANGED <<day, unverified, run, charged, sent>>

\* The server ends, also between the charge and the first request.
BudgetRestart ==
  /\ run' = NoRun
  /\ UNCHANGED <<day, budget, unverified, charged, sent>>

BudgetNext ==
  \/ \E m \in ProbeModels : Forget(m) \/ \E saved \in BOOLEAN : StartModel(m, saved)
  \/ \E models \in SUBSET ProbeModels : StartCheap(models)
  \/ \E j \in Jobs : Send(j) \/ \E ok \in BOOLEAN : Answered(j, ok)
  \/ Midnight \/ DamageBudget \/ BudgetRestart

BudgetSpec == BudgetInit /\ [][BudgetNext]_budgetVars

-----------------------------------------------------------------------------
(* Properties *)

\* "daily expensive probe budget exceeded" (probe.go:223): whatever fails, restarts
\* or crosses midnight, the runs charged to one day send no more expensive requests
\* than the limit; one that is never sent stays charged.
DailyBudgetHolds == \A d \in Days : sent[d] <= DailyLimit
=============================================================================
