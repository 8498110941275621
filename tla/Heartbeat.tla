----------------------------- MODULE Heartbeat -----------------------------
(***************************************************************************)
(* The heartbeat of internal/admin: a timer that decides which capability  *)
(* probes are due, and the probe manager whose single run slot it shares   *)
(* with the operator's "probe all".                                        *)
(*                                                                         *)
(* Goroutines: the heartbeat's loop (SelectRound, BeginRound), an operator *)
(* (ManualStart), one worker per probe under way (ProbeFinished, Observe,  *)
(* Recorded) and gateway traffic that trips breakers (Trip).               *)
(*                                                                         *)
(* Time is relative and in ticks: nextIn and retryIn count down, checked   *)
(* counts up to IntervalMinutes.  A target here is a (model, capability)   *)
(* the heartbeat may schedule: its provider is configured, the model is    *)
(* enabled and the capability is not an expensive one.  Settings do not    *)
(* change while the model runs.                                            *)
(***************************************************************************)
EXTENDS Integers, FiniteSets

CONSTANTS
  Targets,              \* schedulable (model, capability) pairs
  Provider,             \* target -> its provider's place in name order
  ModelOrder,           \* target -> its place in (model id, capability) order
  ChatTools,            \* the targets whose capability is chat-tools
  PrioritizeChatTools,  \* HeartbeatSettings
  RecoveryMinutes,      \* HeartbeatSettings, in ticks; 0 turns the clock off
  IntervalMinutes,      \* HeartbeatSettings, in ticks; 0 turns the clock off
  MaxProbesPerRound,    \* HeartbeatSettings
  MinRoundGap,          \* heartbeatMinRoundGap, in ticks
  MaxBackoffRate,       \* heartbeatMaxBackoffRate
  MaxRunTicks,          \* bound: the ticks a run can last; its probes have timeouts
  ManualRuns,           \* bound: the target sets an operator may probe
  Answers,              \* bound: target -> the outcomes its probes may have
  Tripping              \* bound: the targets traffic may trip

ASSUME TargetAssumption ==
  /\ IsFiniteSet(Targets)
  /\ Provider \in [Targets -> Nat]
  /\ ModelOrder \in [Targets -> Nat]
  /\ \A t, u \in Targets : ModelOrder[t] = ModelOrder[u] => t = u
  /\ ChatTools \subseteq Targets
  /\ ManualRuns \subseteq SUBSET Targets
  /\ Answers \in [Targets -> SUBSET BOOLEAN]
  /\ \A t \in Targets : Answers[t] # {}
  /\ Tripping \subseteq Targets

ASSUME SettingsAssumption ==
  /\ PrioritizeChatTools \in BOOLEAN
  /\ RecoveryMinutes \in Nat /\ IntervalMinutes \in Nat
  /\ RecoveryMinutes > 0 \/ IntervalMinutes > 0
  /\ MaxProbesPerRound \in Nat \ {0}
  /\ MinRoundGap \in Nat \ {0}
  /\ MaxBackoffRate \in Nat \ {0}
  /\ MaxRunTicks \in Nat

VARIABLES
  condition,  \* target -> what catalog verification and health say of it
  checked,    \* target -> ticks since its LastCheckedAt
  backoff,    \* heartbeatManager.targets
  loop,       \* the heartbeat goroutine: its step, timer and selected jobs
  running,    \* probeManager.status.Status = "running"
  age,        \* ticks since the run started
  run,        \* owner -> targets its run still has to probe
  hook,       \* target -> the outcome its worker has yet to pass to the hook
  report      \* HeartbeatStatus of the last round

vars == <<condition, checked, backoff, loop, running, age, run, hook, report>>

Conditions == {"unverified", "tripped", "healthy"}
Owners == {"heartbeat", "manual"}
Outcomes == {"none", "ok", "failed", "unhooked"}

\* A target's failure count only matters as the factor heartbeatBackoff makes of it.
NoBackoff == [factor |-> 0, retryIn |-> 0]

\* A dead model waits MaxBackoffRate recovery intervals at most.
Base == IF RecoveryMinutes > 0 THEN RecoveryMinutes ELSE IntervalMinutes
LongestBackoff == Base * MaxBackoffRate

TypeOK ==
  /\ condition \in [Targets -> Conditions]
  /\ checked \in [Targets -> 0..IntervalMinutes]
  /\ backoff \in [Targets -> [factor : 0..MaxBackoffRate, retryIn : 0..LongestBackoff]]
  /\ loop \in [step : {"wait", "begin"}, nextIn : Nat, jobs : SUBSET Targets]
  /\ running \in BOOLEAN
  /\ age \in 0..MaxRunTicks
  /\ run \in [Owners -> SUBSET Targets]
  /\ hook \in [Targets -> Outcomes]
  /\ report \in [probes : Nat, healthy : Nat, failed : Nat,
                 finished : BOOLEAN, current : BOOLEAN]

\* A cold start: nothing was probed yet, and the startup grace has passed.
Init ==
  /\ condition = [t \in Targets |-> "unverified"]
  /\ checked = [t \in Targets |-> IntervalMinutes]
  /\ backoff = [t \in Targets |-> NoBackoff]
  /\ loop = [step |-> "wait", nextIn |-> 0, jobs |-> {}]
  /\ running = FALSE
  /\ age = 0
  /\ run = [o \in Owners |-> {}]
  /\ hook = [t \in Targets |-> "none"]
  /\ report = [probes |-> 0, healthy |-> 0, failed |-> 0,
               finished |-> TRUE, current |-> FALSE]

-----------------------------------------------------------------------------
(* Clocks *)

Least(a, b) == IF a < b THEN a ELSE b
Greatest(a, b) == IF a < b THEN b ELSE a

\* heartbeatRoundGap: half the smallest interval in use, at least the minimum.
RoundGap ==
  LET smallest == IF RecoveryMinutes = 0 \/ (0 < IntervalMinutes /\ IntervalMinutes < RecoveryMinutes)
                  THEN IntervalMinutes ELSE RecoveryMinutes
  IN Greatest(smallest \div 2, MinRoundGap)

\* Mutant of NextFactor: the window never grows.
NextFactorFlat(factor) == 1

\* heartbeatBackoff: doubled with every failure after the first, up to the cap.
NextFactor(factor) == IF factor = 0 THEN 1 ELSE Least(2 * factor, MaxBackoffRate)

Elapse(n) == IF n > 0 THEN n - 1 ELSE 0

\* A tick is a minute or more: the loop, which looks every 15 seconds, is not
\* late by one, and a run lasts MaxRunTicks at most.
Tick ==
  /\ loop.step = "wait" /\ loop.nextIn > 0
  /\ running => age < MaxRunTicks
  /\ age' = IF running THEN age + 1 ELSE 0
  /\ checked' = [t \in Targets |-> Least(checked[t] + 1, IntervalMinutes)]
  /\ backoff' = [t \in Targets |-> [backoff[t] EXCEPT !.retryIn = Elapse(@)]]
  /\ loop' = [loop EXCEPT !.nextIn = Elapse(@)]
  /\ UNCHANGED <<condition, running, run, hook, report>>

-----------------------------------------------------------------------------
(* Which probes are due: selectJobs *)

Recovering(t) == condition[t] # "healthy"

RecoveryJobs ==
  {t \in Targets : RecoveryMinutes > 0 /\ Recovering(t) /\ backoff[t].retryIn = 0}

RefreshJobs ==
  {t \in Targets : IntervalMinutes > 0 /\ ~Recovering(t) /\ checked[t] >= IntervalMinutes}

\* interleaveProviders: the first of every provider, then the second of each.
Turn(jobs, t) ==
  Cardinality({u \in jobs : Provider[u] = Provider[t] /\ ModelOrder[u] < ModelOrder[t]})

\* Mutant of Before: providers are not interleaved.
BeforeByName(jobs, t, u) == Provider[t] < Provider[u] \/ ModelOrder[t] < ModelOrder[u]

Before(jobs, t, u) ==
  \/ Turn(jobs, t) < Turn(jobs, u)
  \/ Turn(jobs, t) = Turn(jobs, u) /\ Provider[t] < Provider[u]

\* prioritizeColdStartTools: no chat-tools target is verified yet.
ColdStart == PrioritizeChatTools /\ \A t \in ChatTools : condition[t] = "unverified"

\* promoteCapability over the interleaved recovery jobs.
RecoversBefore(t, u) ==
  IF ColdStart /\ (t \in ChatTools) # (u \in ChatTools)
  THEN t \in ChatTools
  ELSE Before(RecoveryJobs, t, u)

\* Recovery jobs come first; refresh jobs fill what they leave of the round.
Ahead(t) ==
  IF t \in RecoveryJobs
  THEN {u \in RecoveryJobs : RecoversBefore(u, t)}
  ELSE RecoveryJobs \cup {u \in RefreshJobs : Before(RefreshJobs, u, t)}

SelectedJobs ==
  {t \in RecoveryJobs \cup RefreshJobs : Cardinality(Ahead(t) \ {t}) < MaxProbesPerRound}

-----------------------------------------------------------------------------
(* The loop: runRound *)

NextRound == [step |-> "wait", nextIn |-> RoundGap, jobs |-> {}]

\* runRound until beginJobs.  A round with nothing to do ends here.
SelectRound ==
  /\ loop.step = "wait" /\ loop.nextIn = 0
  /\ LET jobs == SelectedJobs
     IN /\ report' = [probes |-> Cardinality(jobs), healthy |-> 0, failed |-> 0,
                      finished |-> jobs = {}, current |-> FALSE]
        /\ loop' = IF jobs = {} THEN NextRound
                   ELSE [step |-> "begin", nextIn |-> 0, jobs |-> jobs]
  /\ UNCHANGED <<condition, checked, backoff, running, age, run, hook>>

\* Mutant of BeginRound: the slot is not asked for.
BeginRoundStacked ==
  /\ loop.step = "begin"
  /\ loop' = NextRound
  /\ running' = TRUE /\ age' = 0
  /\ run' = [run EXCEPT !["heartbeat"] = loop.jobs]
  /\ report' = [report EXCEPT !.current = TRUE]
  /\ UNCHANGED <<condition, checked, backoff, hook>>

\* beginJobs takes the slot, or the round is deferred to whoever has it.
BeginRound ==
  /\ loop.step = "begin"
  /\ loop' = NextRound
  /\ \/ /\ ~running
        /\ running' = TRUE /\ age' = 0
        /\ run' = [run EXCEPT !["heartbeat"] = loop.jobs]
        /\ report' = [report EXCEPT !.current = TRUE]
     \/ /\ running
        /\ report' = [report EXCEPT !.probes = 0, !.finished = TRUE]
        /\ UNCHANGED <<running, age, run>>
  /\ UNCHANGED <<condition, checked, backoff, hook>>

ManualStart(jobs) ==
  /\ ~running
  /\ jobs # {}
  /\ running' = TRUE /\ age' = 0
  /\ run' = [run EXCEPT !["manual"] = jobs]
  /\ UNCHANGED <<condition, checked, backoff, loop, hook, report>>

-----------------------------------------------------------------------------
(* The run: its workers, the hook and its end *)

\* The probe returned; verification and health have taken its outcome.
ProbeFinished(o, t, ok) ==
  /\ t \in run[o]
  /\ run' = [run EXCEPT ![o] = @ \ {t}]
  /\ condition' = [condition EXCEPT ![t] = IF ok THEN "healthy" ELSE "unverified"]
  /\ checked' = [checked EXCEPT ![t] = 0]
  /\ hook' = [hook EXCEPT ![t] = IF o = "manual" THEN "unhooked"
                                   ELSE IF ok THEN "ok" ELSE "failed"]
  /\ UNCHANGED <<backoff, loop, running, age, report>>

\* A manual run has no hook to call.
Recorded(t) ==
  /\ hook[t] = "unhooked"
  /\ hook' = [hook EXCEPT ![t] = "none"]
  /\ UNCHANGED <<condition, checked, backoff, loop, running, age, run, report>>

\* Mutants of Counted: a result counts for whatever round is reported, or the
\* round is never called finished.
CountedAlways(ok) ==
  LET healthy == report.healthy + (IF ok THEN 1 ELSE 0)
      failed == report.failed + (IF ok THEN 0 ELSE 1)
  IN [report EXCEPT !.healthy = healthy, !.failed = failed,
                    !.finished = @ \/ healthy + failed >= report.probes]

CountedUnfinished(ok) ==
  IF ~report.current THEN report
  ELSE [report EXCEPT !.healthy = @ + (IF ok THEN 1 ELSE 0),
                      !.failed = @ + (IF ok THEN 0 ELSE 1)]

\* The counters of observe: only results of the reported round are counted.
Counted(ok) ==
  LET healthy == report.healthy + (IF ok THEN 1 ELSE 0)
      failed == report.failed + (IF ok THEN 0 ELSE 1)
  IN IF ~report.current THEN report
     ELSE [report EXCEPT !.healthy = healthy, !.failed = failed,
                         !.finished = @ \/ healthy + failed >= report.probes]

\* observe: the backoff schedule always learns of the outcome.
Observe(t) ==
  /\ hook[t] \in {"ok", "failed"}
  /\ hook' = [hook EXCEPT ![t] = "none"]
  /\ LET factor == NextFactor(backoff[t].factor)
     IN backoff' = [backoff EXCEPT ![t] =
          IF hook[t] = "ok" THEN NoBackoff
          ELSE [factor |-> factor, retryIn |-> Base * factor]]
  /\ report' = Counted(hook[t] = "ok")
  /\ UNCHANGED <<condition, checked, loop, running, age, run>>

\* Every worker is done: the slot is free again.
EndRun ==
  /\ running
  /\ \A o \in Owners : run[o] = {}
  /\ \A t \in Targets : hook[t] = "none"
  /\ running' = FALSE /\ age' = 0
  /\ UNCHANGED <<condition, checked, backoff, loop, run, hook, report>>

\* Gateway traffic opens the breaker of a healthy target.
Trip(t) ==
  /\ condition[t] = "healthy"
  /\ condition' = [condition EXCEPT ![t] = "tripped"]
  /\ UNCHANGED <<checked, backoff, loop, running, age, run, hook, report>>

Worker(t) ==
  \/ \E o \in Owners, ok \in Answers[t] : ProbeFinished(o, t, ok)
  \/ Recorded(t)
  \/ Observe(t)

AnyTrip == \E t \in Tripping : Trip(t)
AnyManualStart == \E jobs \in ManualRuns : ManualStart(jobs)

Next ==
  \/ Tick
  \/ SelectRound
  \/ BeginRound
  \/ AnyManualStart
  \/ \E t \in Targets : Worker(t)
  \/ EndRun
  \/ AnyTrip

Spec == Init /\ [][Next]_vars

\* The clock advances, the loop goroutine runs, and every probe returns: each
\* has a timeout.  Nothing makes operators or traffic act.
FairSpec ==
  /\ Spec
  /\ WF_vars(Tick)
  /\ WF_vars(SelectRound)
  /\ WF_vars(BeginRound)
  /\ \A t \in Targets : WF_vars(Worker(t))
  /\ WF_vars(EndRun)

-----------------------------------------------------------------------------
(* Properties *)

UnderWay(o) == run[o] \cup {t \in Targets : hook[t] \in IF o = "manual" THEN {"unhooked"}
                                                                       ELSE {"ok", "failed"}}

\* "The heartbeat must never stack its own upstream requests on top" of a manual
\* run (heartbeat.go:211), whichever of the two asks for the slot first.
NeverStacked == UnderWay("heartbeat") = {} \/ UnderWay("manual") = {}

\* "The round counters are only touched when the result belongs to the round
\* whose counts are being reported" (heartbeat.go:321): results of a run that
\* outlives its round never show up as results of a later or deferred one.
CountsBelongToRound == report.healthy + report.failed <= report.probes

\* A round's report is closed once nothing runs: whether it was probed, deferred,
\* empty, or overtaken by the next round, it does not stay "in progress".
RoundSettles == ~running /\ loop.step = "wait" => report.finished

\* "Any prefix of the result spreads its requests across providers" (probe.go:341):
\* without the cold-start priority a round takes at most one more recovery probe
\* from one provider than from another that still has one waiting.
RoundSpreads ==
  [][SelectRound /\ ~ColdStart =>
       \A t \in RecoveryJobs \ SelectedJobs, u \in RecoveryJobs \cap SelectedJobs :
         Turn(RecoveryJobs, u) <= Turn(RecoveryJobs, t)]_vars

Served(t) == t \in run["heartbeat"] \/ ~Recovering(t)

\* Once traffic and operators are quiet and no run outlasts the gap between two
\* rounds, every model waiting for recovery gets its probe, however many others
\* keep failing ahead of it: their backoff makes room.
RecoversWhenQuiet ==
  <>[][~AnyTrip /\ ~AnyManualStart /\ (Tick => ~running)]_vars
    => \A t \in Targets : Recovering(t) ~> Served(t)
=============================================================================
