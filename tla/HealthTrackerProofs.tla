------------------------ MODULE HealthTrackerProofs ------------------------
(***************************************************************************)
(* Proofs about the circuit breaker for any providers, models, thresholds  *)
(* and cooldowns.  The argument is per entry: every operation writes sound *)
(* entries only, where a sound entry is typed, has no cooldown left while  *)
(* it is unknown or healthy, and is gated once it exhausted its budget.    *)
(***************************************************************************)
EXTENDS HealthTracker, TLAPS

Cooled(s) == s.status \in {"unknown", "healthy"} => s.cool = 0

Gated(s) ==
  s.verified /\ s.fails >= FailureThreshold
    => s.status \in {"open", "half-open", "cooling"}

Sound(s) == s \in State /\ Cooled(s) /\ Gated(s)

SoundEntry == {s \in State : Sound(s)}

\* A provider's entry is never verified nor compared with the threshold, but
\* it is cooled in the same way.
Inv ==
  /\ states \in [Targets -> SoundEntry]
  /\ providerStates \in [Providers -> SoundEntry]

-----------------------------------------------------------------------------
(* One entry *)

\* A missing entry and a fresh one are sound.
LEMMA NoStateSound == NoState \in SoundEntry
<1>1. NoState \in State
  BY ThresholdAssumption DEF NoState, State, Status
<1>2. Cooled(NoState)
  BY DEF NoState, Cooled
<1>3. Gated(NoState)
  BY DEF NoState, Gated
<1> QED BY <1>1, <1>2, <1>3 DEF SoundEntry, Sound

\* Looking an entry up, creating it if need be, keeps it sound.
LEMMA EntrySound ==
  ASSUME NEW s \in SoundEntry
  PROVE  Entry(s) \in SoundEntry
<1>1. CASE s.status = "absent"
  <2> DEFINE e == [NoState EXCEPT !.status = "unknown"]
  <2>1. e \in State
    <3>1. NoState \in State
      BY NoStateSound DEF SoundEntry
    <3>2. "unknown" \in Status
      BY DEF Status
    <3> QED BY <3>1, <3>2 DEF State
  <2>2. Cooled(e)
    BY DEF NoState, Cooled
  <2>3. Gated(e)
    BY DEF NoState, Gated
  <2> QED BY <1>1, <2>1, <2>2, <2>3 DEF SoundEntry, Sound, Entry
<1>2. CASE s.status # "absent"
  BY <1>2 DEF Entry
<1> QED BY <1>1, <1>2

\* The failure count stays within its bound, and is positive after a failure.
LEMMA CountFailureRange ==
  ASSUME NEW n \in 0..MaxFailures
  PROVE  CountFailure(n) \in 1..MaxFailures
BY ThresholdAssumption DEF CountFailure

\* Every cooldown is a number of ticks.
LEMMA CooldownsAreTicks ==
  ASSUME NEW f \in 1..MaxFailures, NEW code
  PROVE  /\ TransientCooldown[f] \subseteq Nat
         /\ AuthCooldownFor(code, f) \subseteq Nat
BY CooldownAssumption DEF AuthCooldownFor

\* A half-open transition, with or without the slot, keeps an entry sound: the
\* slot is taken only when it is free.
LEMMA EnterSound ==
  ASSUME NEW s \in SoundEntry
  PROVE  Enter(s) \in SoundEntry
<1>1. Transition(s) \in SoundEntry
  BY DEF Transition, CooldownPassed, SoundEntry, Sound, State, Status, Cooled, Gated
<1>2. ASSUME Admits(s), Transition(s).status = "half-open"
      PROVE  Transition(s).inFlight = 0
  BY <1>1, <1>2 DEF Admits, SlotFree, Transition, CooldownPassed
<1>3. ASSUME Admits(s) PROVE TakeSlot(Transition(s)) \in SoundEntry
  <2>1. CASE Transition(s).status = "half-open"
    <3> DEFINE u == Transition(s)
    <3>1. u \in SoundEntry /\ u.inFlight = 0 /\ u.status = "half-open"
      BY <1>1, <1>2, <1>3, <2>1
    <3>2. TakeSlot(u) = [u EXCEPT !.inFlight = @ + 1]
      BY <3>1 DEF TakeSlot
    <3> HIDE DEF u
    <3>3. TakeSlot(u) \in SoundEntry
      BY <3>1, <3>2 DEF SoundEntry, Sound, State, Cooled, Gated
    <3> QED BY <3>3 DEF u
  <2>2. CASE Transition(s).status # "half-open"
    BY <1>1, <2>2 DEF TakeSlot
  <2> QED BY <2>1, <2>2
<1> QED BY <1>1, <1>3 DEF Enter

\* Giving the slot back, and time passing, keep an entry sound.
LEMMA SlotAndClockSound ==
  ASSUME NEW s \in SoundEntry
  PROVE  [s EXCEPT !.inFlight = 0] \in SoundEntry /\ Elapse(s) \in SoundEntry
BY DEF Elapse, SoundEntry, Sound, State, Cooled, Gated

\* What a success, in traffic or in a probe, leaves is sound.
LEMMA RecoveredSound ==
  ASSUME NEW s \in SoundEntry, NEW v \in BOOLEAN, NEW i \in 0..1, NEW u,
         u = [s EXCEPT !.status = "healthy", !.verified = v, !.fails = 0,
                       !.cool = 0, !.inFlight = i]
  PROVE  u \in SoundEntry
<1>1. s \in State
  BY DEF SoundEntry
<1>2. u \in State
  <2>1. "healthy" \in Status /\ 0 \in 0..MaxFailures
    BY ThresholdAssumption DEF Status
  <2> QED BY <1>1, <2>1 DEF State
<1>3. u.status = "healthy" /\ u.cool = 0 /\ u.fails = 0
  BY <1>1 DEF State
<1>4. Cooled(u) /\ Gated(u)
  BY <1>3, ThresholdAssumption DEF Cooled, Gated
<1> QED BY <1>2, <1>4 DEF SoundEntry, Sound

\* An entry that opens or starts cooling is sound whatever its count is.
LEMMA ClosedOffSound ==
  ASSUME NEW s \in SoundEntry, NEW f \in 0..MaxFailures, NEW d \in Nat, NEW i \in 0..1,
         NEW v \in BOOLEAN, NEW st \in {"open", "cooling"}, NEW u,
         u = [s EXCEPT !.status = st, !.verified = v, !.fails = f, !.cool = d, !.inFlight = i]
  PROVE  u \in SoundEntry
<1>1. s \in State
  BY DEF SoundEntry
<1>2. u \in State
  <2>1. st \in Status
    BY DEF Status
  <2> QED BY <1>1, <2>1 DEF State
<1>3. u.status = st
  BY <1>1 DEF State
<1>4. Cooled(u) /\ Gated(u)
  BY <1>3 DEF Cooled, Gated
<1> QED BY <1>2, <1>4 DEF SoundEntry, Sound

\* A failure below the threshold, or of a probe that also takes the
\* verification away, leaves a degraded entry that is sound.
LEMMA DegradedSound ==
  ASSUME NEW s \in SoundEntry, NEW f \in 0..MaxFailures, NEW i \in 0..1, NEW v \in BOOLEAN,
         ~v \/ f < FailureThreshold, NEW u,
         u = [s EXCEPT !.status = "degraded", !.verified = v, !.fails = f, !.inFlight = i]
  PROVE  u \in SoundEntry
<1>1. s \in State
  BY DEF SoundEntry
<1>2. u \in State
  <2>1. "degraded" \in Status
    BY DEF Status
  <2> QED BY <1>1, <2>1 DEF State
<1>3. u.status = "degraded" /\ u.verified = v /\ u.fails = f
  BY <1>1 DEF State
<1>4. Cooled(u)
  BY <1>3 DEF Cooled
<1>5. Gated(u)
  BY <1>3, ThresholdAssumption DEF Gated
<1> QED BY <1>2, <1>4, <1>5 DEF SoundEntry, Sound

\* A client error settles an unknown entry as healthy and nothing else.
LEMMA SettledSound ==
  ASSUME NEW s \in SoundEntry, NEW u,
         u = [s EXCEPT !.status = IF s.status = "unknown" THEN "healthy" ELSE s.status,
                       !.inFlight = 0]
  PROVE  u \in SoundEntry
<1>1. CASE s.status = "unknown"
  <2>1. s \in State /\ s.cool = 0 /\ "healthy" \in Status /\ 0 \in 0..1
    BY <1>1 DEF SoundEntry, Sound, Cooled, Status
  <2>0. u = [s EXCEPT !.status = "healthy", !.inFlight = 0]
    BY <1>1, <2>1 DEF State
  <2>2. u \in State
    BY <2>0, <2>1 DEF State
  <2>3. /\ u.status = "healthy" /\ u.cool = 0
        /\ u.verified = s.verified /\ u.fails = s.fails
    BY <2>0, <2>1 DEF State
  <2>4. s.verified => ~(s.fails >= FailureThreshold)
    BY <1>1 DEF SoundEntry, Sound, Gated
  <2>5. Cooled(u) /\ Gated(u)
    BY <2>3, <2>4 DEF Cooled, Gated
  <2> QED BY <2>2, <2>5 DEF SoundEntry, Sound
<1>2. CASE s.status # "unknown"
  <2>1. s \in State
    BY DEF SoundEntry
  <2>2. u = [s EXCEPT !.inFlight = 0]
    BY <1>2, <2>1 DEF State
  <2> QED BY <2>2, SlotAndClockSound
<1> QED BY <1>1, <1>2

-----------------------------------------------------------------------------
(* The tracker *)

\* The tracker starts sound: it holds no entry.
LEMMA InitSound == Init => Inv
BY NoStateSound DEF Init, Inv


\* The entries an operation on a target touches are sound.
LEMMA TouchedSound ==
  ASSUME Inv, NEW t \in Targets
  PROVE  /\ ProviderFromModel(t) \in Providers
         /\ states[t] \in SoundEntry /\ Entry(states[t]) \in SoundEntry
         /\ providerStates[ProviderFromModel(t)] \in SoundEntry
         /\ Entry(providerStates[ProviderFromModel(t)]) \in SoundEntry
<1>1. ProviderFromModel(t) \in Providers
  BY ProviderAssumption DEF Targets, ProviderFromModel
<1>2. states[t] \in SoundEntry /\ providerStates[ProviderFromModel(t)] \in SoundEntry
  BY <1>1 DEF Inv
<1> QED BY <1>1, <1>2, EntrySound

LEMMA TryAcquireSound ==
  ASSUME Inv, NEW t \in Targets, NEW granted, TryAcquire(t, granted)
  PROVE  Inv'
<1>1. /\ Enter(states[t]) \in SoundEntry
      /\ Enter(providerStates[ProviderFromModel(t)]) \in SoundEntry
  BY TouchedSound, EnterSound
<1>2. states' \in [Targets -> SoundEntry]
  BY <1>1 DEF TryAcquire, Inv
<1>3. providerStates' \in [Providers -> SoundEntry]
  BY <1>1, TouchedSound DEF TryAcquire, Inv
<1> QED BY <1>2, <1>3 DEF Inv

LEMMA ReleaseSound ==
  ASSUME Inv, NEW t \in Targets, Release(t)
  PROVE  Inv'
<1> DEFINE p == ProviderFromModel(t)
<1>1. /\ [states[t] EXCEPT !.inFlight = 0] \in SoundEntry
      /\ [providerStates[p] EXCEPT !.inFlight = 0] \in SoundEntry
  BY TouchedSound, SlotAndClockSound
<1> QED BY <1>1 DEF Release, Inv

LEMMA SuccessSound ==
  ASSUME Inv, NEW t \in Targets, Success(t)
  PROVE  Inv'
<1> DEFINE Recovered(s) == [Entry(s) EXCEPT !.status = "healthy", !.fails = 0,
                                            !.cool = 0, !.inFlight = 0]
<1>1. ASSUME NEW s \in SoundEntry PROVE Recovered(s) \in SoundEntry
  <2>1. Entry(s) \in SoundEntry
    BY EntrySound
  <2>0. 0 \in 0..1
    OBVIOUS
  <2>2. /\ Entry(s).verified \in BOOLEAN
        /\ Recovered(s) = [Entry(s) EXCEPT !.status = "healthy", !.verified = Entry(s).verified,
                                           !.fails = 0, !.cool = 0, !.inFlight = 0]
    BY <2>1 DEF SoundEntry, State
  <2> HIDE DEF Recovered
  <2> QED BY <2>0, <2>1, <2>2, RecoveredSound
<1>2. /\ Recovered(states[t]) \in SoundEntry
      /\ Recovered(providerStates[ProviderFromModel(t)]) \in SoundEntry
  BY <1>1, TouchedSound
<1>3. /\ states' = [states EXCEPT ![t] = Recovered(states[t])]
      /\ providerStates' = [providerStates EXCEPT ![ProviderFromModel(t)] =
                             Recovered(providerStates[ProviderFromModel(t)])]
  BY DEF Success
<1> HIDE DEF Recovered
<1> QED BY <1>2, <1>3 DEF Inv


LEMMA FailureSound ==
  ASSUME Inv, NEW t \in Targets, NEW code, NEW ra \in Nat, Failure(t, code, ra)
  PROVE  Inv'
<1> DEFINE p == ProviderFromModel(t)
           m == Entry(states[t])
           q == Entry(providerStates[p])
<1>0. 0 \in 0..1
  OBVIOUS
<1>1. m \in SoundEntry /\ q \in SoundEntry
  BY TouchedSound
<1>2. /\ m.verified \in BOOLEAN /\ q.verified \in BOOLEAN
      /\ states[t].fails \in 0..MaxFailures /\ providerStates[p].fails \in 0..MaxFailures
  BY <1>1, TouchedSound DEF SoundEntry, State
<1>3. CASE FailureClient(t)
  <2> DEFINE e == [m EXCEPT !.status = IF m.status = "unknown" THEN "healthy" ELSE m.status,
                            !.inFlight = 0]
  <2>1. e \in SoundEntry
    BY <1>1, SettledSound
  <2>2. states' = [states EXCEPT ![t] = e] /\ providerStates' = providerStates
    BY <1>3 DEF FailureClient
  <2> HIDE DEF e
  <2> QED BY <2>1, <2>2 DEF Inv
<1>4. CASE FailureAuth(t, code)
  <2> DEFINE fails == CountFailure(providerStates[p].fails)
  <2>1. fails \in 1..MaxFailures
    BY <1>2, CountFailureRange
  <2>2. PICK d \in AuthCooldownFor(code, fails) :
          providerStates' = [providerStates EXCEPT ![p] =
            [q EXCEPT !.status = "open", !.fails = fails, !.cool = d, !.inFlight = 0]]
    BY <1>4 DEF FailureAuth
  <2> DEFINE e == [q EXCEPT !.status = "open", !.fails = fails, !.cool = d, !.inFlight = 0]
             n == [m EXCEPT !.inFlight = 0]
  <2>3. d \in Nat /\ fails \in 0..MaxFailures
    BY <2>1, CooldownsAreTicks
  <2>4. e = [q EXCEPT !.status = "open", !.verified = q.verified, !.fails = fails,
                      !.cool = d, !.inFlight = 0]
    BY <1>1 DEF SoundEntry, State
  <2>5. e \in SoundEntry
    <3> HIDE DEF e, q, fails
    <3> QED BY <1>0, <1>1, <1>2, <2>3, <2>4, ClosedOffSound
  <2>6. n \in SoundEntry
    BY <1>1, SlotAndClockSound
  <2>7. states' = [states EXCEPT ![t] = n] /\ providerStates' = [providerStates EXCEPT ![p] = e]
    BY <1>4, <2>2 DEF FailureAuth
  <2> HIDE DEF e, n
  <2> QED BY <2>5, <2>6, <2>7 DEF Inv
<1>5. CASE FailureCooling(t, ra)
  <2> DEFINE fails == CountFailure(states[t].fails)
             e == [m EXCEPT !.status = "cooling", !.fails = fails, !.cool = ra, !.inFlight = 0]
  <2>1. fails \in 0..MaxFailures
    BY <1>2, CountFailureRange
  <2>2. e = [m EXCEPT !.status = "cooling", !.verified = m.verified, !.fails = fails,
                      !.cool = ra, !.inFlight = 0]
    BY <1>1 DEF SoundEntry, State
  <2>3. e \in SoundEntry
    <3> HIDE DEF e, m, fails
    <3> QED BY <1>0, <1>1, <1>2, <2>1, <2>2, ClosedOffSound
  <2>4. states' = [states EXCEPT ![t] = e] /\ providerStates' = providerStates
    BY <1>5 DEF FailureCooling
  <2> HIDE DEF e
  <2> QED BY <2>3, <2>4 DEF Inv
<1>6. CASE FailureCounted(t)
  <2> DEFINE fails == CountFailure(states[t].fails)
  <2>1. fails \in 1..MaxFailures
    BY <1>2, CountFailureRange
  <2>2. fails \in 0..MaxFailures
    BY <2>1
  <2>3. CASE fails >= FailureThreshold
    <3>0. ~(fails < FailureThreshold)
      BY <2>1, <2>3, ThresholdAssumption
    <3>1. PICK d \in TransientCooldown[fails] :
            states' = [states EXCEPT ![t] =
              [m EXCEPT !.status = "open", !.fails = fails, !.cool = d, !.inFlight = 0]]
      BY <1>6, <3>0, Zenon DEF FailureCounted
    <3> DEFINE e == [m EXCEPT !.status = "open", !.fails = fails, !.cool = d, !.inFlight = 0]
    <3>2. d \in Nat
      BY <2>1, CooldownsAreTicks
    <3>3. e = [m EXCEPT !.status = "open", !.verified = m.verified, !.fails = fails,
                        !.cool = d, !.inFlight = 0]
      BY <1>1 DEF SoundEntry, State
    <3>4. e \in SoundEntry
      <4> HIDE DEF e, m, fails
      <4> QED BY <1>0, <1>1, <1>2, <2>2, <3>2, <3>3, ClosedOffSound
    <3>5. states' = [states EXCEPT ![t] = e] /\ providerStates' = providerStates
      BY <1>6, <3>1 DEF FailureCounted
    <3> HIDE DEF e
    <3> QED BY <3>4, <3>5 DEF Inv
  <2>4. CASE fails < FailureThreshold
    <3> DEFINE e == [m EXCEPT !.status = "degraded", !.fails = fails, !.inFlight = 0]
    <3>1. e = [m EXCEPT !.status = "degraded", !.verified = m.verified, !.fails = fails,
                        !.inFlight = 0]
      BY <1>1 DEF SoundEntry, State
    <3>2. e \in SoundEntry
      <4> HIDE DEF e, m, fails
      <4> QED BY <1>0, <1>1, <1>2, <2>2, <2>4, <3>1, DegradedSound
    <3>0. ~(fails >= FailureThreshold)
      BY <2>1, <2>4, ThresholdAssumption
    <3>3. states' = [states EXCEPT ![t] = e] /\ providerStates' = providerStates
      BY <1>6, <3>0, Zenon DEF FailureCounted
    <3> HIDE DEF e
    <3> QED BY <3>2, <3>3 DEF Inv
  <2> QED BY <2>1, <2>3, <2>4, ThresholdAssumption
<1> QED BY <1>3, <1>4, <1>5, <1>6 DEF Failure


LEMMA ProbeSuccessSound ==
  ASSUME Inv, NEW t \in Targets, ProbeSuccess(t) \/ RestoreProbeSuccess(t)
  PROVE  Inv'
<1> DEFINE p == ProviderFromModel(t)
           m == Entry(states[t])
           q == Entry(providerStates[p])
           e == [m EXCEPT !.status = "healthy", !.verified = TRUE, !.fails = 0, !.cool = 0]
           f == [q EXCEPT !.status = "healthy", !.fails = 0, !.cool = 0]
<1>1. m \in SoundEntry /\ q \in SoundEntry
  BY TouchedSound
<1>2. m.inFlight \in 0..1 /\ q.inFlight \in 0..1 /\ q.verified \in BOOLEAN
  BY <1>1 DEF SoundEntry, State
<1>3. e = [m EXCEPT !.status = "healthy", !.verified = TRUE, !.fails = 0, !.cool = 0,
                    !.inFlight = m.inFlight]
  BY <1>1 DEF SoundEntry, State
<1>4. f = [q EXCEPT !.status = "healthy", !.verified = q.verified, !.fails = 0, !.cool = 0,
                    !.inFlight = q.inFlight]
  BY <1>1 DEF SoundEntry, State
<1>5. e \in SoundEntry /\ f \in SoundEntry
  <2> HIDE DEF e, f, m, q
  <2>1. TRUE \in BOOLEAN
    OBVIOUS
  <2> QED BY <1>1, <1>2, <1>3, <1>4, <2>1, RecoveredSound
<1>6. /\ states' = [states EXCEPT ![t] = e]
      /\ providerStates' \in {providerStates, [providerStates EXCEPT ![p] = f]}
  BY DEF ProbeSuccess, RestoreProbeSuccess
<1> HIDE DEF e, f
<1> QED BY <1>5, <1>6 DEF Inv

LEMMA ProbeFailureSound ==
  ASSUME Inv, NEW t \in Targets, NEW code, ProbeFailure(t, code)
  PROVE  Inv'
<1> DEFINE m == Entry(states[t])
           fails == CountFailure(states[t].fails)
           cooldowns == IF ClassifyError(code) = "auth" THEN AuthCooldownFor(code, fails)
                                                        ELSE TransientCooldown[fails]
           u == [m EXCEPT !.verified = FALSE, !.fails = fails]
<1>1. m \in SoundEntry
  BY TouchedSound
<1>2. states[t].fails \in 0..MaxFailures /\ m.inFlight \in 0..1
  BY <1>1, TouchedSound DEF SoundEntry, State
<1>3. fails \in 1..MaxFailures /\ fails \in 0..MaxFailures
  BY <1>2, CountFailureRange
<1>4. FALSE \in BOOLEAN
  OBVIOUS
<1>5. cooldowns \subseteq Nat
  BY <1>3, CooldownsAreTicks
<1>6. ASSUME NEW d \in cooldowns PROVE [u EXCEPT !.status = "open", !.cool = d] \in SoundEntry
  <2> DEFINE e == [u EXCEPT !.status = "open", !.cool = d]
  <2>1. e = [m EXCEPT !.status = "open", !.verified = FALSE, !.fails = fails, !.cool = d,
                      !.inFlight = m.inFlight]
    BY <1>1 DEF SoundEntry, State
  <2>2. d \in Nat
    BY <1>5, <1>6
  <2> HIDE DEF e, m, fails
  <2>3. e \in SoundEntry
    BY <1>1, <1>2, <1>3, <1>4, <2>1, <2>2, ClosedOffSound
  <2> QED BY <2>3 DEF e
<1>7. [u EXCEPT !.status = "degraded"] \in SoundEntry
  <2> DEFINE e == [u EXCEPT !.status = "degraded"]
  <2>1. e = [m EXCEPT !.status = "degraded", !.verified = FALSE, !.fails = fails,
                      !.inFlight = m.inFlight]
    BY <1>1 DEF SoundEntry, State
  <2> HIDE DEF e, m, fails
  <2>2. e \in SoundEntry
    BY <1>1, <1>2, <1>3, <1>4, <2>1, DegradedSound
  <2> QED BY <2>2 DEF e
<1>8. /\ \/ \E d \in cooldowns : states' = [states EXCEPT ![t] = [u EXCEPT !.status = "open", !.cool = d]]
         \/ states' = [states EXCEPT ![t] = [u EXCEPT !.status = "degraded"]]
      /\ providerStates' = providerStates
  BY Zenon DEF ProbeFailure
<1>9. PICK e \in SoundEntry : states' = [states EXCEPT ![t] = e]
  <2> HIDE DEF u, cooldowns
  <2> QED BY <1>6, <1>7, <1>8
<1> QED BY <1>8, <1>9 DEF Inv

LEMMA ResetSound ==
  ASSUME Inv, \/ \E t \in Targets : ResetCapability(t)
              \/ \E m \in Models : ResetModel(m)
  PROVE  Inv'
<1>1. ASSUME NEW t \in Targets, ResetCapability(t) PROVE Inv'
  BY <1>1, NoStateSound DEF ResetCapability, Inv
<1>2. ASSUME NEW m \in Models, ResetModel(m) PROVE Inv'
  BY <1>2, NoStateSound, ProviderAssumption DEF ResetModel, Inv
<1> QED BY <1>1, <1>2

LEMMA LoadAndTickSound ==
  ASSUME Inv, Load \/ Tick
  PROVE  Inv'
<1>1. ASSUME NEW t \in Targets
      PROVE  [states[t] EXCEPT !.inFlight = 0] \in SoundEntry /\ Elapse(states[t]) \in SoundEntry
  BY SlotAndClockSound DEF Inv
<1>2. ASSUME NEW p \in Providers
      PROVE  /\ [providerStates[p] EXCEPT !.inFlight = 0] \in SoundEntry
             /\ Elapse(providerStates[p]) \in SoundEntry
  BY SlotAndClockSound DEF Inv
<1>3. CASE Load
  BY <1>1, <1>2, <1>3 DEF Load, Inv
<1>4. CASE Tick
  BY <1>1, <1>2, <1>4 DEF Tick, Inv
<1> QED BY <1>3, <1>4

\* Every operation, in whatever order callers make them, writes sound entries.
LEMMA NextSound == Inv /\ [Next]_healthVars => Inv'
<1> SUFFICES ASSUME Inv, [Next]_healthVars PROVE Inv'
  OBVIOUS
<1>1. ASSUME NEW t \in Targets, NEW granted \in BOOLEAN, TryAcquire(t, granted) PROVE Inv'
  BY <1>1, TryAcquireSound
<1>2. ASSUME NEW t \in Targets, Release(t) PROVE Inv'
  BY <1>2, ReleaseSound
<1>3. ASSUME NEW t \in Targets, Success(t) PROVE Inv'
  BY <1>3, SuccessSound
<1>4. ASSUME NEW t \in Targets, NEW code \in Codes, NEW ra \in RetryAfters \cup {0},
             Failure(t, code, ra)
      PROVE  Inv'
  <2>1. ra \in Nat
    BY CooldownAssumption
  <2> QED BY <1>4, <2>1, FailureSound
<1>5. ASSUME NEW t \in Targets, ProbeSuccess(t) \/ RestoreProbeSuccess(t) PROVE Inv'
  BY <1>5, ProbeSuccessSound
<1>6. ASSUME NEW t \in Targets, NEW code \in Codes, ProbeFailure(t, code) PROVE Inv'
  BY <1>6, ProbeFailureSound
<1>7. CASE UNCHANGED healthVars
  BY <1>7 DEF Inv, healthVars
<1> QED BY <1>1, <1>2, <1>3, <1>4, <1>5, <1>6, <1>7, ResetSound, LoadAndTickSound DEF Next

-----------------------------------------------------------------------------
(* What follows for every reachable state *)

LEMMA InvImplies == Inv => TypeOK /\ HealthyImpliesAvailable /\ ExhaustedTargetIsGated
<1> SUFFICES ASSUME Inv PROVE TypeOK /\ HealthyImpliesAvailable /\ ExhaustedTargetIsGated
  OBVIOUS
<1>1. TypeOK
  BY DEF Inv, TypeOK, SoundEntry
<1>2. HealthyImpliesAvailable
  <2> SUFFICES ASSUME NEW t \in Targets, Healthy(t) PROVE Available(t)
    BY DEF HealthyImpliesAvailable
  <2>1. /\ states[t].status = "healthy"
        /\ providerStates[ProviderFromModel(t)].status \in {"absent", "healthy"}
    BY DEF Healthy
  <2>2. Cooled(states[t]) /\ Cooled(providerStates[ProviderFromModel(t)])
    BY TouchedSound DEF SoundEntry, Sound
  <2> QED BY <2>1, <2>2 DEF Available, StateAvailable, CooldownPassed, SlotFree, Cooled
<1>3. ExhaustedTargetIsGated
  BY DEF Inv, ExhaustedTargetIsGated, SoundEntry, Sound, Gated
<1> QED BY <1>1, <1>2, <1>3

\* In every run of the tracker, sound entries are all it ever holds.
THEOREM Soundness == Spec => []Inv
BY InitSound, NextSound, PTL DEF Spec

\* The tracker's state is well typed: in particular no failure count overruns,
\* and no half-open slot is given twice, whatever the callers do.
THEOREM TrackerTypeCorrect == Spec => []TypeOK
BY Soundness, InvImplies, PTL

\* A target that Healthy reports is one that Available reports (tracker.go:159),
\* for any providers, models, thresholds and cooldown curves.
THEOREM HealthyIsAvailable == Spec => []HealthyImpliesAvailable
BY Soundness, InvImplies, PTL

\* A verified target that used up its failure budget is gated until a success,
\* a successful probe or a reset, for any threshold.
THEOREM ExhaustedIsGated == Spec => []ExhaustedTargetIsGated
BY Soundness, InvImplies, PTL

=============================================================================
