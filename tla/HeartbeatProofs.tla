-------------------------- MODULE HeartbeatProofs --------------------------
(***************************************************************************)
(* Proofs about the heartbeat, for any targets, settings, answers and      *)
(* manual runs.  The argument counts: while results of a round count, its  *)
(* counters and the probes still under way make up the round, and whatever *)
(* is under way belongs to the one run that has the slot.  What a round    *)
(* selects follows from the order that Ahead puts the due jobs in.         *)
(***************************************************************************)
EXTENDS Heartbeat, ListProofs, FiniteSetTheorems, TLAPS

\* A free slot means nothing is under way.
SlotCoversRuns ==
  ~running => UnderWay("heartbeat") = {} /\ UnderWay("manual") = {}

\* A target is probed once in a run: its hook is not due before its probe.
HookAfterProbe == \A o \in Owners : \A t \in run[o] : hook[t] = "none"

\* Between selection and start the round is open and nothing has been counted.
SelectedUncounted ==
  loop.step = "begin" =>
    /\ ~report.current /\ ~report.finished
    /\ report.healthy = 0 /\ report.failed = 0
    /\ report.probes = Cardinality(loop.jobs)
    /\ loop.jobs # {}

\* The counters and what is under way make up the round.
RoundAddsUp ==
  report.current =>
    report.healthy + report.failed + Cardinality(UnderWay("heartbeat")) = report.probes

\* An open round is about to start, or has probes to wait for.
OpenRound ==
  ~report.finished =>
    \/ loop.step = "begin"
    \/ report.current /\ report.healthy + report.failed < report.probes

Inv ==
  /\ TypeOK
  /\ SlotCoversRuns
  /\ NeverStacked
  /\ HookAfterProbe
  /\ SelectedUncounted
  /\ RoundAddsUp
  /\ CountsBelongToRound
  /\ OpenRound

-----------------------------------------------------------------------------
(* Helpers *)

LEMMA FiniteUnderWay ==
  ASSUME TypeOK
  PROVE  /\ UnderWay("heartbeat") \in SUBSET Targets
         /\ IsFiniteSet(UnderWay("heartbeat"))
         /\ Cardinality(UnderWay("heartbeat")) \in Nat
<1>1. UnderWay("heartbeat") \in SUBSET Targets
  BY DEF TypeOK, UnderWay, Owners
<1>2. IsFiniteSet(UnderWay("heartbeat"))
  BY <1>1, FS_Subset, TargetAssumption
<1> QED BY <1>1, <1>2, FS_CardinalityType

LEMMA FiniteJobs ==
  ASSUME NEW S \in SUBSET Targets
  PROVE  /\ IsFiniteSet(S) /\ Cardinality(S) \in Nat
         /\ S # {} => Cardinality(S) > 0
<1>1. IsFiniteSet(S)
  BY FS_Subset, TargetAssumption
<1>2. Cardinality(S) \in Nat /\ (Cardinality(S) = 0 <=> S = {})
  BY <1>1, FS_CardinalityType, FS_EmptySet
<1> QED BY <1>1, <1>2

LEMMA ClockTypes ==
  /\ RoundGap \in Nat
  /\ Base \in Nat
  /\ LongestBackoff \in Nat
  /\ \A n \in Nat : Elapse(n) \in Nat /\ Elapse(n) <= n
  /\ \A f \in 0..MaxBackoffRate : /\ NextFactor(f) \in 1..MaxBackoffRate
                                  /\ Base * NextFactor(f) \in 0..LongestBackoff
<1>1. RoundGap \in Nat /\ Base \in Nat
  BY SettingsAssumption DEF RoundGap, Base, Greatest
<1>2. \A n \in Nat : Elapse(n) \in Nat /\ Elapse(n) <= n
  BY DEF Elapse
<1>3. \A f \in 0..MaxBackoffRate : NextFactor(f) \in 1..MaxBackoffRate
  BY SettingsAssumption DEF NextFactor, Least
<1>4. \A b, x, r \in Nat : x <= r => b * x \in Nat /\ b * r \in Nat /\ b * x <= b * r
  OBVIOUS
<1>5. \A f \in 1..MaxBackoffRate : Base * f \in 0..LongestBackoff
  BY <1>1, <1>4, SettingsAssumption DEF LongestBackoff
<1>6. LongestBackoff \in Nat
  BY <1>1, <1>4, SettingsAssumption DEF LongestBackoff
<1> QED BY <1>1, <1>2, <1>3, <1>5, <1>6

-----------------------------------------------------------------------------

LEMMA InitInv == Init => Inv
<1> SUFFICES ASSUME Init PROVE Inv
  OBVIOUS
<1>1. TypeOK
  <2>1. NoBackoff \in [factor : 0..MaxBackoffRate, retryIn : 0..LongestBackoff]
    BY ClockTypes, SettingsAssumption DEF NoBackoff
  <2>2. backoff \in [Targets -> [factor : 0..MaxBackoffRate, retryIn : 0..LongestBackoff]]
    BY <2>1 DEF Init
  <2>3. checked \in [Targets -> 0..IntervalMinutes] /\ age \in 0..MaxRunTicks
    BY SettingsAssumption DEF Init
  <2>4. condition \in [Targets -> Conditions] /\ hook \in [Targets -> Outcomes]
    BY DEF Init, Conditions, Outcomes
  <2>5. run \in [Owners -> SUBSET Targets] /\ running \in BOOLEAN
    BY DEF Init
  <2>6. loop \in [step : {"wait", "begin"}, nextIn : Nat, jobs : SUBSET Targets]
    BY DEF Init
  <2>7. report \in [probes : Nat, healthy : Nat, failed : Nat,
                    finished : BOOLEAN, current : BOOLEAN]
    BY DEF Init
  <2> QED BY <2>2, <2>3, <2>4, <2>5, <2>6, <2>7 DEF TypeOK
<1>2. UnderWay("heartbeat") = {} /\ UnderWay("manual") = {}
  BY DEF Init, UnderWay, Owners
<1> QED BY <1>1, <1>2 DEF Init, Inv, SlotCoversRuns, NeverStacked, HookAfterProbe,
           SelectedUncounted, RoundAddsUp, CountsBelongToRound, OpenRound

\* Actions that leave the run, its hooks, the loop's step and the report alone.
LEMMA IdleInv ==
  ASSUME Inv, TypeOK', UNCHANGED <<running, run, hook, report>>,
         loop'.step = loop.step, loop'.jobs = loop.jobs
  PROVE  Inv'
<1>1. \A o \in Owners : UnderWay(o)' = UnderWay(o)
  BY DEF UnderWay
<1> QED BY <1>1 DEF Inv, SlotCoversRuns, NeverStacked, HookAfterProbe, Owners,
           SelectedUncounted, RoundAddsUp, CountsBelongToRound, OpenRound

LEMMA TickInv ==
  ASSUME Inv, Tick
  PROVE  Inv'
<1>1. TypeOK'
  <2>1. checked' \in [Targets -> 0..IntervalMinutes]
    BY SettingsAssumption DEF Inv, TypeOK, Tick, Least
  <2>2. \A t \in Targets :
          [backoff[t] EXCEPT !.retryIn = Elapse(@)]
            \in [factor : 0..MaxBackoffRate, retryIn : 0..LongestBackoff]
    BY ClockTypes DEF Inv, TypeOK
  <2>3. backoff' \in [Targets -> [factor : 0..MaxBackoffRate, retryIn : 0..LongestBackoff]]
    BY <2>2 DEF Tick
  <2>4. loop' \in [step : {"wait", "begin"}, nextIn : Nat, jobs : SUBSET Targets]
    BY ClockTypes DEF Inv, TypeOK, Tick
  <2>5. age' \in 0..MaxRunTicks
    BY SettingsAssumption DEF Inv, TypeOK, Tick
  <2> QED BY <2>1, <2>3, <2>4, <2>5 DEF Inv, TypeOK, Tick
<1>2. loop'.step = loop.step /\ loop'.jobs = loop.jobs
  BY DEF Inv, TypeOK, Tick
<1> QED BY <1>1, <1>2, IdleInv DEF Tick

LEMMA TripInv ==
  ASSUME Inv, NEW t \in Targets, Trip(t)
  PROVE  Inv'
<1>1. TypeOK'
  BY DEF Inv, TypeOK, Trip, Conditions
<1> QED BY <1>1, IdleInv DEF Trip

LEMMA SelectRoundInv ==
  ASSUME Inv, SelectRound
  PROVE  Inv'
<1> DEFINE jobs == SelectedJobs
<1>1. jobs \in SUBSET Targets
  BY DEF SelectedJobs, RecoveryJobs, RefreshJobs
<1>2. IsFiniteSet(jobs) /\ Cardinality(jobs) \in Nat
  BY <1>1, FiniteJobs
<1>3. report' = [probes |-> Cardinality(jobs), healthy |-> 0, failed |-> 0,
                 finished |-> jobs = {}, current |-> FALSE]
  BY DEF SelectRound
<1>4. loop' = IF jobs = {} THEN NextRound ELSE [step |-> "begin", nextIn |-> 0, jobs |-> jobs]
  BY DEF SelectRound
<1> HIDE DEF jobs
<1>5. loop' \in [step : {"wait", "begin"}, nextIn : Nat, jobs : SUBSET Targets]
  BY <1>1, <1>4, ClockTypes DEF NextRound
<1>6. report' \in [probes : Nat, healthy : Nat, failed : Nat,
                   finished : BOOLEAN, current : BOOLEAN]
  <2>1. (jobs = {}) \in BOOLEAN
    OBVIOUS
  <2> QED BY <1>2, <1>3, <2>1
<1>7. TypeOK'
  BY <1>5, <1>6 DEF Inv, TypeOK, SelectRound
<1>8. \A o \in Owners : UnderWay(o)' = UnderWay(o)
  BY DEF UnderWay, SelectRound
<1>9. SlotCoversRuns' /\ NeverStacked' /\ HookAfterProbe'
  BY <1>8 DEF Inv, SlotCoversRuns, NeverStacked, HookAfterProbe, Owners, SelectRound
<1>10. SelectedUncounted' /\ OpenRound'
  BY <1>3, <1>4 DEF SelectedUncounted, OpenRound, NextRound
<1>11. RoundAddsUp' /\ CountsBelongToRound'
  BY <1>2, <1>3 DEF RoundAddsUp, CountsBelongToRound
<1> QED BY <1>7, <1>9, <1>10, <1>11 DEF Inv

LEMMA BeginRoundInv ==
  ASSUME Inv, BeginRound
  PROVE  Inv'
<1>1. /\ loop' = NextRound /\ loop'.step = "wait"
      /\ loop' \in [step : {"wait", "begin"}, nextIn : Nat, jobs : SUBSET Targets]
  BY ClockTypes DEF BeginRound, NextRound
<1>2. /\ loop.jobs \in SUBSET Targets /\ loop.jobs # {}
      /\ ~report.current /\ report.healthy = 0 /\ report.failed = 0
      /\ report.probes = Cardinality(loop.jobs)
  BY DEF Inv, TypeOK, SelectedUncounted, BeginRound
<1>3. CASE /\ ~running
           /\ running' = TRUE /\ age' = 0
           /\ run' = [run EXCEPT !["heartbeat"] = loop.jobs]
           /\ report' = [report EXCEPT !.current = TRUE]
  <2>1. TypeOK'
    <3>1. age' \in 0..MaxRunTicks /\ running' \in BOOLEAN
      BY <1>3, SettingsAssumption
    <3>2. run' \in [Owners -> SUBSET Targets]
      BY <1>2, <1>3 DEF Inv, TypeOK
    <3>3. report' \in [probes : Nat, healthy : Nat, failed : Nat,
                       finished : BOOLEAN, current : BOOLEAN]
      BY <1>3 DEF Inv, TypeOK
    <3> QED BY <1>1, <3>1, <3>2, <3>3 DEF Inv, TypeOK, BeginRound
  <2>2. /\ \A t \in Targets : hook[t] = "none"
        /\ run["heartbeat"] = {} /\ run["manual"] = {}
    BY <1>3 DEF Inv, TypeOK, SlotCoversRuns, UnderWay, Outcomes
  <2>3. run'["heartbeat"] = loop.jobs /\ run'["manual"] = {} /\ hook' = hook
    BY <1>3, <2>2 DEF Inv, TypeOK, Owners, BeginRound
  <2>4. UnderWay("heartbeat")' = loop.jobs /\ UnderWay("manual")' = {}
    BY <2>2, <2>3 DEF UnderWay
  <2>5. SlotCoversRuns' /\ NeverStacked'
    BY <1>3, <2>4 DEF SlotCoversRuns, NeverStacked
  <2>6. HookAfterProbe'
    BY <1>2, <2>2, <2>3 DEF HookAfterProbe, Owners
  <2>7. /\ report'.current /\ report'.healthy = 0 /\ report'.failed = 0
        /\ report'.probes = Cardinality(loop.jobs) /\ report'.finished = report.finished
    BY <1>2, <1>3 DEF Inv, TypeOK
  <2>8. Cardinality(loop.jobs) \in Nat /\ Cardinality(loop.jobs) > 0
    BY <1>2, FiniteJobs
  <2>9. RoundAddsUp' /\ CountsBelongToRound' /\ OpenRound'
    BY <2>4, <2>7, <2>8 DEF RoundAddsUp, CountsBelongToRound, OpenRound
  <2> QED BY <1>1, <2>1, <2>5, <2>6, <2>9 DEF Inv, SelectedUncounted
<1>4. CASE /\ running
           /\ report' = [report EXCEPT !.probes = 0, !.finished = TRUE]
           /\ UNCHANGED <<running, age, run>>
  <2>1. TypeOK'
    BY <1>1, <1>4 DEF Inv, TypeOK, BeginRound
  <2>2. \A o \in Owners : UnderWay(o)' = UnderWay(o)
    BY <1>4 DEF UnderWay, BeginRound
  <2>3. SlotCoversRuns' /\ NeverStacked' /\ HookAfterProbe'
    BY <1>4, <2>2 DEF Inv, SlotCoversRuns, NeverStacked, HookAfterProbe, Owners, BeginRound
  <2>4. /\ ~report'.current /\ report'.healthy = 0 /\ report'.failed = 0
        /\ report'.probes = 0 /\ report'.finished
    BY <1>2, <1>4 DEF Inv, TypeOK
  <2>5. RoundAddsUp' /\ CountsBelongToRound' /\ OpenRound'
    BY <2>4 DEF RoundAddsUp, CountsBelongToRound, OpenRound
  <2> QED BY <1>1, <2>1, <2>3, <2>5 DEF Inv, SelectedUncounted
<1> QED BY <1>3, <1>4 DEF BeginRound

LEMMA ManualStartInv ==
  ASSUME Inv, NEW jobs \in ManualRuns, ManualStart(jobs)
  PROVE  Inv'
<1>1. jobs \in SUBSET Targets
  BY TargetAssumption
<1>2. TypeOK'
  <2>1. age' \in 0..MaxRunTicks /\ running' \in BOOLEAN
    BY SettingsAssumption DEF ManualStart
  <2>2. run' \in [Owners -> SUBSET Targets]
    BY <1>1 DEF Inv, TypeOK, ManualStart
  <2> QED BY <2>1, <2>2 DEF Inv, TypeOK, ManualStart
<1>3. /\ \A t \in Targets : hook[t] = "none"
      /\ run["heartbeat"] = {} /\ run["manual"] = {}
  BY DEF Inv, TypeOK, SlotCoversRuns, UnderWay, Outcomes, ManualStart
<1>4. run'["heartbeat"] = {} /\ run'["manual"] = jobs /\ hook' = hook
  BY <1>3 DEF Inv, TypeOK, Owners, ManualStart
<1>5. UnderWay("heartbeat")' = {} /\ UnderWay("heartbeat") = {}
  BY <1>3, <1>4 DEF UnderWay
<1>6. SlotCoversRuns' /\ NeverStacked'
  BY <1>5 DEF SlotCoversRuns, NeverStacked, ManualStart
<1>7. HookAfterProbe'
  BY <1>1, <1>3, <1>4 DEF HookAfterProbe, Owners
<1> QED BY <1>2, <1>5, <1>6, <1>7 DEF Inv, ManualStart, SelectedUncounted, RoundAddsUp,
           CountsBelongToRound, OpenRound

LEMMA ProbeFinishedInv ==
  ASSUME Inv, NEW t \in Targets, NEW o \in Owners, NEW ok \in BOOLEAN, ProbeFinished(o, t, ok)
  PROVE  Inv'
<1> DEFINE outcome == IF o = "manual" THEN "unhooked" ELSE IF ok THEN "ok" ELSE "failed"
<1>1. /\ outcome \in Outcomes
      /\ o = "manual" => outcome = "unhooked"
      /\ o = "heartbeat" => outcome \in {"ok", "failed"}
  BY DEF Outcomes
<1>2. hook' = [hook EXCEPT ![t] = outcome]
  BY DEF ProbeFinished
<1> HIDE DEF outcome
<1>3. TypeOK'
  <2>1. condition' \in [Targets -> Conditions]
    BY DEF Inv, TypeOK, ProbeFinished, Conditions
  <2>2. checked' \in [Targets -> 0..IntervalMinutes]
    BY SettingsAssumption DEF Inv, TypeOK, ProbeFinished
  <2>3. hook' \in [Targets -> Outcomes]
    BY <1>1, <1>2 DEF Inv, TypeOK
  <2>4. run' \in [Owners -> SUBSET Targets]
    BY DEF Inv, TypeOK, ProbeFinished
  <2> QED BY <2>1, <2>2, <2>3, <2>4 DEF Inv, TypeOK, ProbeFinished
<1>4. t \in run[o] /\ hook[t] = "none"
  BY DEF Inv, HookAfterProbe, ProbeFinished
<1>5. /\ run'[o] = run[o] \ {t}
      /\ \A p \in Owners : p # o => run'[p] = run[p]
  BY DEF Inv, TypeOK, ProbeFinished
<1>6. hook'[t] = outcome /\ \A u \in Targets : u # t => hook'[u] = hook[u]
  BY <1>2 DEF Inv, TypeOK
<1>7. \A p \in Owners : UnderWay(p)' = UnderWay(p)
  <2>1. CASE o = "heartbeat"
    <3>1. outcome \in {"ok", "failed"}
      BY <1>1, <2>1
    <3>2. UnderWay("heartbeat")' = UnderWay("heartbeat")
      BY <1>4, <1>5, <1>6, <2>1, <3>1 DEF UnderWay
    <3>3. UnderWay("manual")' = UnderWay("manual")
      BY <1>4, <1>5, <1>6, <2>1, <3>1 DEF UnderWay, Owners
    <3> QED BY <3>2, <3>3 DEF Owners
  <2>2. CASE o = "manual"
    <3>1. outcome = "unhooked"
      BY <1>1, <2>2
    <3>2. UnderWay("manual")' = UnderWay("manual")
      BY <1>4, <1>5, <1>6, <2>2, <3>1 DEF UnderWay
    <3>3. UnderWay("heartbeat")' = UnderWay("heartbeat")
      BY <1>4, <1>5, <1>6, <2>2, <3>1 DEF UnderWay, Owners
    <3> QED BY <3>2, <3>3 DEF Owners
  <2> QED BY <2>1, <2>2 DEF Owners
<1>8. HookAfterProbe'
  <2> SUFFICES ASSUME NEW p \in Owners, NEW u \in run'[p]
               PROVE  hook'[u] = "none"
    BY DEF HookAfterProbe
  <2>1. u \in run[p] /\ u \in Targets
    BY <1>5 DEF Inv, TypeOK
  <2>2. hook[u] = "none"
    BY <2>1 DEF Inv, HookAfterProbe
  <2>3. u # t
    <3>1. CASE p = o
      BY <1>5, <3>1
    <3>2. CASE p # o
      BY <1>4, <2>1, <3>2 DEF Inv, NeverStacked, UnderWay, Owners
    <3> QED BY <3>1, <3>2
  <2> QED BY <1>6, <2>1, <2>2, <2>3
<1> QED BY <1>3, <1>7, <1>8 DEF Inv, ProbeFinished, SlotCoversRuns, NeverStacked, Owners,
           SelectedUncounted, RoundAddsUp, CountsBelongToRound, OpenRound

LEMMA RecordedInv ==
  ASSUME Inv, NEW t \in Targets, Recorded(t)
  PROVE  Inv'
<1>1. TypeOK'
  BY DEF Inv, TypeOK, Recorded, Outcomes
<1>2. hook[t] = "unhooked" /\ hook'[t] = "none" /\ \A u \in Targets : u # t => hook'[u] = hook[u]
  BY DEF Inv, TypeOK, Recorded
<1>3. run' = run /\ UnderWay("heartbeat")' = UnderWay("heartbeat")
  BY <1>2 DEF UnderWay, Recorded
<1>4. UnderWay("manual")' \subseteq UnderWay("manual")
  BY <1>2, <1>3 DEF UnderWay
<1>5. HookAfterProbe'
  BY <1>2, <1>3 DEF Inv, TypeOK, HookAfterProbe
<1> QED BY <1>1, <1>3, <1>4, <1>5 DEF Inv, Recorded, SlotCoversRuns, NeverStacked,
           SelectedUncounted, RoundAddsUp, CountsBelongToRound, OpenRound

LEMMA CountedType ==
  ASSUME TypeOK, NEW ok \in BOOLEAN
  PROVE  /\ Counted(ok) \in [probes : Nat, healthy : Nat, failed : Nat,
                             finished : BOOLEAN, current : BOOLEAN]
         /\ ~report.current => Counted(ok) = report
         /\ report.current =>
              /\ Counted(ok).current
              /\ Counted(ok).probes = report.probes
              /\ Counted(ok).healthy + Counted(ok).failed = report.healthy + report.failed + 1
              /\ Counted(ok).finished
                   <=> (report.finished \/ report.healthy + report.failed + 1 >= report.probes)
<1>1. report \in [probes : Nat, healthy : Nat, failed : Nat,
                  finished : BOOLEAN, current : BOOLEAN]
  BY DEF TypeOK
<1>2. CASE ~report.current
  BY <1>1, <1>2 DEF Counted
<1>3. CASE report.current
  <2> DEFINE healthy == report.healthy + (IF ok THEN 1 ELSE 0)
             failed == report.failed + (IF ok THEN 0 ELSE 1)
             finished == report.finished \/ healthy + failed >= report.probes
  <2>1. healthy \in Nat /\ failed \in Nat /\ healthy + failed = report.healthy + report.failed + 1
    BY <1>1
  <2>2. finished \in BOOLEAN
    BY <1>1, <2>1
  <2>3. Counted(ok) = [report EXCEPT !.healthy = healthy, !.failed = failed, !.finished = finished]
    BY <1>3 DEF Counted
  <2>4. finished <=> (report.finished \/ report.healthy + report.failed + 1 >= report.probes)
    BY <1>1, <2>1
  <2> HIDE DEF healthy, failed, finished
  <2> QED BY <1>1, <1>3, <2>1, <2>2, <2>3, <2>4
<1> QED BY <1>2, <1>3, <1>1

LEMMA ObserveInv ==
  ASSUME Inv, NEW t \in Targets, Observe(t)
  PROVE  Inv'
<1> DEFINE ok == hook[t] = "ok"
<1>1. ok \in BOOLEAN /\ report' = Counted(ok)
  BY DEF Observe
<1>2. /\ hook[t] \in {"ok", "failed"} /\ hook'[t] = "none"
      /\ \A u \in Targets : u # t => hook'[u] = hook[u]
      /\ run' = run
  BY DEF Inv, TypeOK, Observe
<1>3. TypeOK'
  <2>1. backoff[t].factor \in 0..MaxBackoffRate
    BY DEF Inv, TypeOK
  <2>2. /\ NoBackoff \in [factor : 0..MaxBackoffRate, retryIn : 0..LongestBackoff]
        /\ [factor |-> NextFactor(backoff[t].factor),
            retryIn |-> Base * NextFactor(backoff[t].factor)]
             \in [factor : 0..MaxBackoffRate, retryIn : 0..LongestBackoff]
    BY <2>1, ClockTypes, SettingsAssumption DEF NoBackoff
  <2>3. backoff' \in [Targets -> [factor : 0..MaxBackoffRate, retryIn : 0..LongestBackoff]]
    BY <2>2 DEF Inv, TypeOK, Observe
  <2>4. hook' \in [Targets -> Outcomes]
    BY DEF Inv, TypeOK, Observe, Outcomes
  <2>5. report' \in [probes : Nat, healthy : Nat, failed : Nat,
                     finished : BOOLEAN, current : BOOLEAN]
    BY <1>1, CountedType DEF Inv
  <2> QED BY <2>3, <2>4, <2>5 DEF Inv, TypeOK, Observe
<1> HIDE DEF ok
<1>4. t \in UnderWay("heartbeat") /\ t \notin run["heartbeat"]
  BY <1>2 DEF Inv, HookAfterProbe, UnderWay, Owners
<1>5. UnderWay("heartbeat")' = UnderWay("heartbeat") \ {t}
  BY <1>2, <1>4 DEF UnderWay
<1>6. UnderWay("manual")' = UnderWay("manual")
  BY <1>2 DEF UnderWay
<1>7. /\ Cardinality(UnderWay("heartbeat")) \in Nat /\ Cardinality(UnderWay("heartbeat")') \in Nat
      /\ Cardinality(UnderWay("heartbeat")') = Cardinality(UnderWay("heartbeat")) - 1
  <2>1. /\ IsFiniteSet(UnderWay("heartbeat")) /\ Cardinality(UnderWay("heartbeat")) \in Nat
    BY FiniteUnderWay DEF Inv
  <2>2. IsFiniteSet(UnderWay("heartbeat") \ {t})
    BY <2>1, FS_RemoveElement
  <2> QED BY <1>4, <1>5, <2>1, <2>2, FS_RemoveElement, FS_CardinalityType
<1>8. SlotCoversRuns' /\ NeverStacked'
  BY <1>5, <1>6 DEF Inv, SlotCoversRuns, NeverStacked, Observe
<1>9. HookAfterProbe'
  BY <1>2 DEF Inv, TypeOK, HookAfterProbe
<1>10. SelectedUncounted' /\ RoundAddsUp' /\ CountsBelongToRound' /\ OpenRound'
  <2>1. loop' = loop
    BY DEF Observe
  <2>2. CASE ~report.current
    <3>1. report' = report
      BY <1>1, <2>2, CountedType DEF Inv
    <3> QED BY <2>1, <2>2, <3>1 DEF Inv, SelectedUncounted, RoundAddsUp, CountsBelongToRound, OpenRound
  <2>3. CASE report.current
    <3>1. /\ report'.current /\ report'.probes = report.probes
          /\ report'.healthy + report'.failed = report.healthy + report.failed + 1
          /\ report'.finished
               <=> (report.finished \/ report.healthy + report.failed + 1 >= report.probes)
      BY <1>1, <2>3, CountedType DEF Inv
    <3>2. /\ report.healthy \in Nat /\ report.failed \in Nat /\ report.probes \in Nat
          /\ report.healthy + report.failed + Cardinality(UnderWay("heartbeat")) = report.probes
      BY <2>3 DEF Inv, TypeOK, RoundAddsUp
    <3>3. report'.healthy \in Nat /\ report'.failed \in Nat
      BY <1>3 DEF TypeOK
    <3>4. loop.step # "begin"
      BY <2>3 DEF Inv, SelectedUncounted
    <3> DEFINE before == Cardinality(UnderWay("heartbeat"))
               after == Cardinality(UnderWay("heartbeat")')
    <3>5. before \in Nat /\ after \in Nat /\ after = before - 1
      BY <1>7
    <3>6. report'.healthy + report'.failed + after = report'.probes
      BY <3>1, <3>2, <3>3, <3>5
    <3>7. RoundAddsUp'
      BY <3>6 DEF RoundAddsUp
    <3>8. CountsBelongToRound' /\ OpenRound'
      BY <3>1, <3>2, <3>3, <3>5, <3>6 DEF CountsBelongToRound, OpenRound
    <3> QED BY <2>1, <3>4, <3>7, <3>8 DEF SelectedUncounted
  <2> QED BY <2>2, <2>3
<1> QED BY <1>3, <1>8, <1>9, <1>10 DEF Inv

LEMMA EndRunInv ==
  ASSUME Inv, EndRun
  PROVE  Inv'
<1>1. TypeOK'
  <2>1. running' = FALSE /\ age' = 0
    BY Zenon DEF EndRun
  <2>2. running' \in BOOLEAN
    BY <2>1
  <2>3. age' \in 0..MaxRunTicks
    BY <2>1, SettingsAssumption
  <2> QED BY <2>2, <2>3 DEF Inv, TypeOK, EndRun
<1>2. UnderWay("heartbeat") = {} /\ UnderWay("manual") = {}
  BY DEF EndRun, UnderWay, Owners
<1>3. \A o \in Owners : UnderWay(o)' = UnderWay(o)
  BY DEF UnderWay, EndRun
<1> QED BY <1>1, <1>2, <1>3 DEF Inv, EndRun, SlotCoversRuns, NeverStacked, HookAfterProbe, Owners,
           SelectedUncounted, RoundAddsUp, CountsBelongToRound, OpenRound

LEMMA NextInv == Inv /\ [Next]_vars => Inv'
<1> SUFFICES ASSUME Inv, [Next]_vars PROVE Inv'
  OBVIOUS
<1>1. CASE UNCHANGED vars
  <2>1. TypeOK'
    BY <1>1 DEF Inv, TypeOK, vars
  <2> QED BY <1>1, <2>1, IdleInv DEF vars
<1>2. CASE Tick
  BY <1>2, TickInv
<1>3. CASE SelectRound
  BY <1>3, SelectRoundInv
<1>4. CASE BeginRound
  BY <1>4, BeginRoundInv
<1>5. CASE AnyManualStart
  BY <1>5, ManualStartInv DEF AnyManualStart
<1>6. ASSUME NEW t \in Targets, Worker(t)
      PROVE  Inv'
  <2>1. \A ok \in Answers[t] : ok \in BOOLEAN
    BY TargetAssumption
  <2> QED BY <1>6, <2>1, ProbeFinishedInv, RecordedInv, ObserveInv DEF Worker
<1>7. CASE EndRun
  BY <1>7, EndRunInv
<1>8. CASE AnyTrip
  BY <1>8, TripInv, TargetAssumption DEF AnyTrip
<1> QED BY <1>1, <1>2, <1>3, <1>4, <1>5, <1>6, <1>7, <1>8 DEF Next

LEMMA InvHolds == Spec => []Inv
<1> QED BY InitInv, NextInv, PTL DEF Spec

-----------------------------------------------------------------------------

\* The heartbeat's state is well typed for any settings: the backoff window never
\* exceeds MaxBackoffRate recovery intervals (heartbeatBackoff).
THEOREM HeartbeatTypeCorrect == Spec => []TypeOK
<1> QED BY InvHolds, PTL DEF Inv

\* Heartbeat and manual runs share one slot: probes of the two are never under way
\* together, whoever asks first (beginJobs).
THEOREM RunsNeverStacked == Spec => []NeverStacked
<1> QED BY InvHolds, PTL DEF Inv

\* No result is counted for a round that did not send its probe (observe).
THEOREM CountsInRound == Spec => []CountsBelongToRound
<1> QED BY InvHolds, PTL DEF Inv

\* Once nothing runs, the last round's report is closed (runRound, observe).
THEOREM RoundsSettle == Spec => []RoundSettles
<1>1. Inv => RoundSettles
  <2> SUFFICES ASSUME Inv, ~running, loop.step = "wait", ~report.finished
               PROVE  FALSE
    BY DEF RoundSettles, Inv, TypeOK
  <2>1. report.current /\ report.healthy + report.failed < report.probes
    BY DEF Inv, OpenRound
  <2>2. UnderWay("heartbeat") = {}
    BY DEF Inv, SlotCoversRuns
  <2>3. report.healthy + report.failed + 0 = report.probes
    BY <2>1, <2>2, FS_EmptySet DEF Inv, RoundAddsUp
  <2> QED BY <2>1, <2>3 DEF Inv, TypeOK
<1> QED BY <1>1, InvHolds, PTL

-----------------------------------------------------------------------------
(* The selection *)

LEMMA TurnIsNumber ==
  ASSUME NEW x \in RecoveryJobs
  PROVE  Turn(RecoveryJobs, x) \in Nat
<1> DEFINE S == {y \in RecoveryJobs : Provider[y] = Provider[x] /\ ModelOrder[y] < ModelOrder[x]}
<1>1. S \in SUBSET Targets
  BY DEF RecoveryJobs
<1> HIDE DEF S
<1>2. Cardinality(S) \in Nat
  BY <1>1, FiniteJobs
<1> QED BY <1>2 DEF S, Turn

\* In a warm round what is ahead of a job is ahead of every job of a later turn.
LEMMA EarlierIsAhead ==
  ASSUME ~ColdStart, NEW t \in RecoveryJobs, NEW u \in RecoveryJobs,
         Turn(RecoveryJobs, t) < Turn(RecoveryJobs, u)
  PROVE  Ahead(t) \ {t} \subseteq Ahead(u) \ {u}
<1> DEFINE turn(x) == Turn(RecoveryJobs, x)
<1>1. \A x \in RecoveryJobs : turn(x) \in Nat
  BY TurnIsNumber
<1> SUFFICES ASSUME NEW x \in Ahead(t) \ {t}
             PROVE  x \in Ahead(u) \ {u}
  OBVIOUS
<1>2. x \in RecoveryJobs /\ Before(RecoveryJobs, x, t)
  BY DEF Ahead, RecoversBefore
<1>3. turn(x) <= turn(t)
  BY <1>1, <1>2 DEF Before
<1>4. turn(x) < turn(u)
  BY <1>1, <1>2, <1>3
<1>5. x # u /\ Before(RecoveryJobs, x, u)
  BY <1>1, <1>2, <1>4 DEF Before
<1> QED BY <1>2, <1>5 DEF Ahead, RecoversBefore

\* Whatever targets, providers and names there are: outside a cold start a round
\* takes no recovery probe of a provider whose turn is later than that of one it
\* leaves waiting (interleaveProviders, probe.go:341).
THEOREM RoundsSpread == Spec => RoundSpreads
<1>1. ASSUME ~ColdStart, NEW t \in RecoveryJobs \ SelectedJobs,
             NEW u \in RecoveryJobs \cap SelectedJobs
      PROVE  Turn(RecoveryJobs, u) <= Turn(RecoveryJobs, t)
  <2> DEFINE before(x) == Ahead(x) \ {x}
  <2>1. Cardinality(before(u)) < MaxProbesPerRound
    BY DEF SelectedJobs
  <2>2. ~(Cardinality(before(t)) < MaxProbesPerRound)
    BY DEF SelectedJobs
  <2>3. before(u) \in SUBSET Targets /\ before(t) \in SUBSET Targets
    BY DEF Ahead, RecoveryJobs
  <2> HIDE DEF before
  <2>4. IsFiniteSet(before(u)) /\ Cardinality(before(u)) \in Nat /\ Cardinality(before(t)) \in Nat
    BY <2>3, FiniteJobs
  <2>5. ~(before(t) \subseteq before(u))
    <3> SUFFICES ASSUME before(t) \subseteq before(u) PROVE FALSE
      OBVIOUS
    <3>1. Cardinality(before(t)) <= Cardinality(before(u))
      BY <2>4, FS_Subset
    <3> QED BY <2>1, <2>2, <2>4, <3>1, SettingsAssumption
  <2>6. ~(Turn(RecoveryJobs, t) < Turn(RecoveryJobs, u))
    BY <1>1, <2>5, EarlierIsAhead DEF before
  <2>7. Turn(RecoveryJobs, t) \in Nat /\ Turn(RecoveryJobs, u) \in Nat
    BY TurnIsNumber
  <2> QED BY <2>6, <2>7
<1>2. [Next]_vars =>
        [SelectRound /\ ~ColdStart =>
           \A t \in RecoveryJobs \ SelectedJobs, u \in RecoveryJobs \cap SelectedJobs :
             Turn(RecoveryJobs, u) <= Turn(RecoveryJobs, t)]_vars
  BY <1>1
<1> QED BY <1>2, PTL DEF Spec, RoundSpreads

-----------------------------------------------------------------------------
(* The size of a round.  Ahead is a strict order of the jobs that are due,   *)
(* so that asking how many are ahead of a job cuts a sorted list.            *)

DueJobs == RecoveryJobs \cup RefreshJobs

LEMMA DueTypes ==
  /\ DueJobs \in SUBSET Targets /\ RecoveryJobs \in SUBSET Targets /\ RefreshJobs \in SUBSET Targets
  /\ RecoveryJobs \cap RefreshJobs = {}
  /\ \A x : Ahead(x) \in SUBSET DueJobs
BY DEF DueJobs, RecoveryJobs, RefreshJobs, Ahead

\* Interleaving the providers puts any two jobs in an order, and only in one.
LEMMA BeforeOrders ==
  ASSUME NEW jobs \in SUBSET Targets
  PROVE  /\ \A x, y \in jobs : Before(jobs, x, y) => ~Before(jobs, y, x)
         /\ \A x, y \in jobs : x # y => Before(jobs, x, y) \/ Before(jobs, y, x)
         /\ \A x, y, z \in jobs : Before(jobs, x, y) /\ Before(jobs, y, z) => Before(jobs, x, z)
<1> DEFINE turn(x) == Turn(jobs, x)
           Earlier(x) == {u \in jobs : Provider[u] = Provider[x] /\ ModelOrder[u] < ModelOrder[x]}
<1>1. \A x \in jobs : /\ turn(x) = Cardinality(Earlier(x)) /\ turn(x) \in Nat
                      /\ Provider[x] \in Nat /\ ModelOrder[x] \in Nat
  <2> TAKE x \in jobs
  <2>1. turn(x) = Cardinality(Earlier(x))
    BY DEF Turn
  <2>2. Earlier(x) \in SUBSET Targets
    OBVIOUS
  <2> HIDE DEF Earlier
  <2>3. Cardinality(Earlier(x)) \in Nat
    BY <2>2, FiniteJobs
  <2>4. Provider[x] \in Nat /\ ModelOrder[x] \in Nat
    BY TargetAssumption
  <2> HIDE DEF turn
  <2> QED BY <2>1, <2>3, <2>4
<1>2. ASSUME NEW x \in jobs, NEW y \in jobs, Provider[x] = Provider[y],
             ModelOrder[x] < ModelOrder[y]
      PROVE  turn(x) < turn(y)
  <2>0. \A u \in jobs : ModelOrder[u] \in Nat
    BY TargetAssumption
  <2>1. Earlier(x) \subseteq Earlier(y) /\ Earlier(y) \in SUBSET Targets
    BY ONLY <1>2, <2>0
  <2>2. x \in Earlier(y) /\ x \notin Earlier(x)
    BY ONLY <1>2, <2>0
  <2> HIDE DEF Earlier
  <2>3. IsFiniteSet(Earlier(y))
    BY <2>1, FiniteJobs
  <2>4. /\ Cardinality(Earlier(x)) <= Cardinality(Earlier(y))
        /\ Cardinality(Earlier(x)) # Cardinality(Earlier(y))
    BY <2>1, <2>2, <2>3, FS_Subset
  <2> HIDE DEF turn
  <2> QED BY <1>1, <2>4
<1>3. \A x, y \in jobs : Before(jobs, x, y) <=>
        turn(x) < turn(y) \/ (turn(x) = turn(y) /\ Provider[x] < Provider[y])
  BY DEF Before
<1> HIDE DEF turn, Earlier
<1>4. ASSUME NEW x \in jobs, NEW y \in jobs, x # y, turn(x) = turn(y)
      PROVE  Provider[x] # Provider[y]
  <2>1. ModelOrder[x] # ModelOrder[y]
    BY <1>4, TargetAssumption
  <2> QED BY <1>1, <1>2, <1>4, <2>1
<1>5. \A x, y \in jobs : Before(jobs, x, y) => ~Before(jobs, y, x)
  BY <1>1, <1>3
<1>6. \A x, y \in jobs : x # y => Before(jobs, x, y) \/ Before(jobs, y, x)
  BY <1>1, <1>3, <1>4
<1>7. \A x, y, z \in jobs : Before(jobs, x, y) /\ Before(jobs, y, z) => Before(jobs, x, z)
  BY <1>1, <1>3
<1> QED BY <1>5, <1>6, <1>7

\* So does promoting the chat-tools jobs of a cold start.
LEMMA RecoversOrders ==
  LET R == RecoveryJobs
  IN /\ \A x, y \in R : RecoversBefore(x, y) => ~RecoversBefore(y, x)
     /\ \A x, y \in R : x # y => RecoversBefore(x, y) \/ RecoversBefore(y, x)
     /\ \A x, y, z \in R : RecoversBefore(x, y) /\ RecoversBefore(y, z) => RecoversBefore(x, z)
<1>1. /\ \A x, y \in RecoveryJobs : Before(RecoveryJobs, x, y) => ~Before(RecoveryJobs, y, x)
      /\ \A x, y \in RecoveryJobs :
           x # y => Before(RecoveryJobs, x, y) \/ Before(RecoveryJobs, y, x)
      /\ \A x, y, z \in RecoveryJobs :
           Before(RecoveryJobs, x, y) /\ Before(RecoveryJobs, y, z) => Before(RecoveryJobs, x, z)
  BY DueTypes, BeforeOrders
<1>2. \A x, y : RecoversBefore(x, y) <=>
        IF ColdStart /\ (x \in ChatTools) # (y \in ChatTools)
        THEN x \in ChatTools ELSE Before(RecoveryJobs, x, y)
  BY DEF RecoversBefore
<1> QED BY <1>1, <1>2

\* A job is ahead of another, or the other way round, and then fewer are ahead of it.
LEMMA AheadOrders ==
  /\ \A x, y \in DueJobs : x # y => x \in Ahead(y) \/ y \in Ahead(x)
  /\ \A x, y \in DueJobs : x # y /\ x \in Ahead(y) =>
       /\ Ahead(x) \ {x} \subseteq Ahead(y) \ {y}
       /\ x \in Ahead(y) \ {y}
<1> DEFINE R == RecoveryJobs
           F == RefreshJobs
           first(x, y) == RecoversBefore(x, y)
           later(x, y) == Before(RefreshJobs, x, y)
<1>1. DueJobs = R \cup F /\ R \cap F = {}
  BY DueTypes DEF DueJobs
<1>2. /\ \A x, y \in R : first(x, y) => ~first(y, x)
      /\ \A x, y \in R : x # y => first(x, y) \/ first(y, x)
      /\ \A x, y, z \in R : first(x, y) /\ first(y, z) => first(x, z)
  BY RecoversOrders
<1>3. /\ \A x, y \in F : later(x, y) => ~later(y, x)
      /\ \A x, y \in F : x # y => later(x, y) \/ later(y, x)
      /\ \A x, y, z \in F : later(x, y) /\ later(y, z) => later(x, z)
  BY DueTypes, BeforeOrders
<1>4. /\ \A x \in R : Ahead(x) = {u \in R : first(u, x)}
      /\ \A x \in F : Ahead(x) = R \cup {u \in F : later(u, x)}
  BY <1>1 DEF Ahead
<1> HIDE DEF R, F, first, later
<1>5. ASSUME NEW x \in DueJobs, NEW y \in DueJobs, x # y
      PROVE  x \in Ahead(y) \/ y \in Ahead(x)
  BY <1>1, <1>2, <1>3, <1>4, <1>5
<1>6. ASSUME NEW x \in DueJobs, NEW y \in DueJobs, x # y, x \in Ahead(y),
             NEW z \in Ahead(x) \ {x}
      PROVE  z \in Ahead(y) \ {y}
  <2>1. CASE y \in R
    BY <1>1, <1>2, <1>4, <1>6, <2>1
  <2>2. CASE y \in F /\ x \in R
    BY <1>1, <1>4, <1>6, <2>2
  <2>3. CASE y \in F /\ x \in F
    BY <1>1, <1>3, <1>4, <1>6, <2>3
  <2> QED BY <1>1, <2>1, <2>2, <2>3
<1> QED BY <1>5, <1>6

LEMMA RoundSize ==
  Cardinality(SelectedJobs) = Least(MaxProbesPerRound, Cardinality(DueJobs))
<1> DEFINE rank(x) == Cardinality(Ahead(x) \ {x})
           N == MaxProbesPerRound
<1>1. SelectedJobs = {x \in DueJobs : rank(x) < N} /\ N \in Nat \ {0}
  BY SettingsAssumption DEF SelectedJobs, DueJobs
<1>2. IsFiniteSet(DueJobs) /\ Cardinality(DueJobs) \in Nat
  BY DueTypes, FiniteJobs
<1>3. \A x \in DueJobs : /\ Ahead(x) \ {x} \in SUBSET DueJobs /\ rank(x) \in Nat
                        /\ IsFiniteSet(Ahead(x) \ {x})
  <2> TAKE x \in DueJobs
  <2> DEFINE S == Ahead(x) \ {x}
  <2>1. S \in SUBSET DueJobs /\ S \in SUBSET Targets
    BY DueTypes
  <2> HIDE DEF S
  <2> QED BY <2>1, FiniteJobs DEF S
<1>4. SelectedJobs \in SUBSET DueJobs
  BY <1>1
<1>5. IsFiniteSet(SelectedJobs) /\ Cardinality(SelectedJobs) \in Nat
      /\ Cardinality(SelectedJobs) <= Cardinality(DueJobs)
  BY <1>2, <1>4, FS_Subset, FS_CardinalityType
<1>6. ASSUME NEW x \in DueJobs, NEW y \in DueJobs, x # y, x \in Ahead(y)
      PROVE  rank(x) < rank(y)
  <2> DEFINE X == Ahead(x) \ {x}
             Y == Ahead(y) \ {y}
  <2>1. X \subseteq Y /\ x \in Y /\ x \notin X
    BY <1>6, AheadOrders
  <2>2. IsFiniteSet(Y) /\ rank(x) = Cardinality(X) /\ rank(y) = Cardinality(Y)
    BY <1>3
  <2> HIDE DEF X, Y
  <2>3. Cardinality(X) <= Cardinality(Y) /\ Cardinality(X) # Cardinality(Y)
    BY <2>1, <2>2, FS_Subset
  <2> QED BY <1>3, <2>2, <2>3
<1>3a. \A x \in DueJobs : rank(x) \in Nat
  BY <1>3
<1> HIDE DEF rank
<1>7. \* No more than N: all of them are ahead of the last one, or are it.
      Cardinality(SelectedJobs) <= N
  <2>1. CASE SelectedJobs = {}
    BY <1>1, <2>1, FS_EmptySet
  <2>2. CASE SelectedJobs # {}
    <3> DEFINE G == {n \in Nat : \E x \in SelectedJobs : n = N - rank(x)}
    <3>1. \A x \in SelectedJobs : N - rank(x) \in Nat
      BY <1>1, <1>3a
    <3>2. G \in SUBSET Nat /\ G # {}
      BY <2>2, <3>1
    <3>3. PICK n \in G : \A g \in G : n <= g
      BY <3>2, LeastNumber
    <3>4. PICK x \in SelectedJobs : n = N - rank(x)
      BY <3>3
    <3>5. \A y \in SelectedJobs : rank(y) <= rank(x)
      <4> TAKE y \in SelectedJobs
      <4>1. N - rank(y) \in G
        BY <3>1
      <4> QED BY <1>1, <1>3a, <3>3, <3>4, <4>1
    <3>6. SelectedJobs \ {x} \subseteq Ahead(x) \ {x}
      <4> SUFFICES ASSUME NEW y \in SelectedJobs \ {x} PROVE y \in Ahead(x)
        OBVIOUS
      <4>1. x \in DueJobs /\ y \in DueJobs /\ x # y
        BY <1>4
      <4>2. ~(rank(x) < rank(y))
        BY <1>4, <1>3a, <3>5
      <4> QED BY <1>6, <4>1, <4>2, AheadOrders
    <3>7. Cardinality(SelectedJobs \ {x}) <= rank(x)
      BY <1>3, <1>4, <3>6, FS_Subset DEF rank
    <3>8. Cardinality(SelectedJobs \ {x}) = Cardinality(SelectedJobs) - 1
      BY <1>5, FS_RemoveElement
    <3>9. rank(x) < N
      BY <1>1
    <3> QED BY <1>1, <1>3a, <1>5, <3>7, <3>8, <3>9
  <2> QED BY <2>1, <2>2
<1>8. \* No fewer when a job has to wait: those ahead of the first one that does.
      ASSUME SelectedJobs # DueJobs PROVE N <= Cardinality(SelectedJobs)
  <2> DEFINE W == DueJobs \ SelectedJobs
             G == {n \in Nat : \E x \in W : n = rank(x)}
  <2>1. G \in SUBSET Nat /\ G # {}
    BY <1>3a, <1>4, <1>8
  <2>2. PICK n \in G : \A g \in G : n <= g
    BY <2>1, LeastNumber
  <2>3. PICK x \in W : n = rank(x)
    BY <2>2
  <2>4. \A y \in W : rank(x) <= rank(y)
    BY <1>3a, <2>2, <2>3
  <2>5. Ahead(x) \ {x} \subseteq SelectedJobs
    <3> SUFFICES ASSUME NEW y \in Ahead(x) \ {x}, y \notin SelectedJobs PROVE FALSE
      OBVIOUS
    <3>1. y \in DueJobs /\ x \in DueJobs /\ x # y /\ y \in W
      BY <1>3
    <3>2. rank(y) < rank(x)
      BY <1>6, <3>1
    <3> QED BY <1>3a, <2>4, <3>1, <3>2
  <2>6. rank(x) <= Cardinality(SelectedJobs)
    BY <1>5, <2>5, FS_Subset DEF rank
  <2>7. ~(rank(x) < N)
    BY <1>1
  <2> QED BY <1>1, <1>3a, <1>5, <2>6, <2>7
<1> QED BY <1>1, <1>2, <1>5, <1>7, <1>8 DEF Least

\* A round probes MaxProbesPerRound jobs, or all that are due when they are fewer:
\* the cut at the end of selectJobs neither exceeds the setting nor wastes any of it.
THEOREM RoundsAreFull ==
  Spec => [][SelectRound =>
               Cardinality(loop'.jobs) = Least(MaxProbesPerRound, Cardinality(DueJobs))]_vars
<1>1. SelectRound =>
        Cardinality(loop'.jobs) = Least(MaxProbesPerRound, Cardinality(DueJobs))
  <2> SUFFICES ASSUME SelectRound PROVE Cardinality(loop'.jobs) = Cardinality(SelectedJobs)
    BY RoundSize
  <2> QED BY DEF SelectRound, NextRound
<1>2. [Next]_vars =>
        [SelectRound =>
           Cardinality(loop'.jobs) = Least(MaxProbesPerRound, Cardinality(DueJobs))]_vars
  BY <1>1
<1> QED BY <1>2, PTL DEF Spec
=============================================================================
