--------------------------- MODULE HealthTracker ---------------------------
(***************************************************************************)
(* The circuit breaker of internal/health: one State per (model,           *)
(* capability) and one per provider, both behind one mutex, so every       *)
(* exported operation is one atomic step.                                  *)
(*                                                                         *)
(* Time is relative: a state's `cool' is the number of clock ticks left    *)
(* until now() is after its CooldownUntil.  ConsecutiveFailures saturates  *)
(* at MaxFailures, which is at least the threshold: beyond it the code     *)
(* compares and backs off the same way for every larger count.  Counters,  *)
(* latencies, messages and timestamps that no decision reads are left out. *)
(* Model ids here all name a provider (the code skips the provider half    *)
(* for an id without a separator; the catalog builds no such id).          *)
(***************************************************************************)
EXTENDS Integers

CONSTANTS
  Providers,           \* provider ids
  Models,              \* model ids
  Capabilities,        \* catalog functions a state is kept for
  ProviderOf,          \* providerFromModel, a function on Models
  FailureThreshold,    \* failures that open the breaker
  MaxFailures,         \* bound: where ConsecutiveFailures saturates
  TransientCooldown,   \* cooldownFor: failures -> possible cooldowns, in ticks
  CredentialCooldown,  \* credentialCooldownFor: failures -> possible cooldowns
  RetryAfters,         \* positive Retry-After hints, in ticks
  Codes                \* upstream status codes; 0 is a connection failure

ASSUME ProviderAssumption == ProviderOf \in [Models -> Providers]

ASSUME ThresholdAssumption ==
  /\ FailureThreshold \in Nat \ {0}
  /\ MaxFailures \in Nat
  /\ FailureThreshold <= MaxFailures

ASSUME CooldownAssumption ==
  /\ TransientCooldown \in [1..MaxFailures -> SUBSET Nat]
  /\ CredentialCooldown \in [1..MaxFailures -> SUBSET Nat]
  /\ RetryAfters \subseteq Nat \ {0}
  /\ Codes \subseteq Nat

VARIABLES
  states,          \* (model, capability) -> State
  providerStates   \* provider -> State

healthVars == <<states, providerStates>>

Targets == Models \X Capabilities

ProviderFromModel(t) == ProviderOf[t[1]]

Status == {"absent", "unknown", "healthy", "degraded", "open", "half-open", "cooling"}

State == [status: Status, fails: 0..MaxFailures, cool: Nat,
          inFlight: 0..1, verified: BOOLEAN]

\* A key the map does not hold.
NoState == [status |-> "absent", fails |-> 0, cool |-> 0,
            inFlight |-> 0, verified |-> FALSE]

\* state() and providerState(): look the entry up, creating it as unknown.
Entry(s) == IF s.status = "absent" THEN [NoState EXCEPT !.status = "unknown"] ELSE s

TypeOK ==
  /\ states \in [Targets -> State]
  /\ providerStates \in [Providers -> State]

Init ==
  /\ states = [t \in Targets |-> NoState]
  /\ providerStates = [p \in Providers |-> NoState]

-----------------------------------------------------------------------------
(* Availability *)

\* t.now().After(state.CooldownUntil)
CooldownPassed(s) == s.cool = 0

SlotFree(s) == s.status = "half-open" => s.inFlight = 0

\* checkAndTransition
Transition(s) ==
  IF CooldownPassed(s) /\ s.status \in {"open", "cooling"}
  THEN [s EXCEPT !.status = "half-open"]
  ELSE s

\* Mutant of Admits: the cooldown is not asked.
AdmitsDuringCooldown(s) == s.status = "absent" \/ SlotFree(Transition(s))

\* What TryAcquire asks of one state, and the slot it takes there.
Admits(s) ==
  \/ s.status = "absent"
  \/ CooldownPassed(s) /\ SlotFree(Transition(s))

TakeSlot(s) == IF s.status = "half-open" THEN [s EXCEPT !.inFlight = @ + 1] ELSE s

Enter(s) == IF Admits(s) THEN TakeSlot(Transition(s)) ELSE Transition(s)

\* Available and Healthy read the stored status, without a transition.
StateAvailable(s) == s.status = "absent" \/ (CooldownPassed(s) /\ SlotFree(s))

Available(t) ==
  /\ StateAvailable(providerStates[ProviderFromModel(t)])
  /\ StateAvailable(states[t])

Healthy(t) ==
  /\ providerStates[ProviderFromModel(t)].status \in {"absent", "healthy"}
  /\ states[t].verified /\ states[t].status = "healthy"

-----------------------------------------------------------------------------
(* Operations *)

\* The provider is asked first and keeps the slot it gave even when the model
\* then refuses.
TryAcquire(t, granted) ==
  LET p == ProviderFromModel(t)
      providerAdmits == Admits(providerStates[p])
  IN /\ granted = (providerAdmits /\ Admits(states[t]))
     /\ providerStates' = [providerStates EXCEPT ![p] = Enter(@)]
     /\ states' = IF providerAdmits THEN [states EXCEPT ![t] = Enter(@)] ELSE states

\* Mutant of Release: only the provider's slot is given back.
ReleaseProvider(t) ==
  /\ providerStates' = [providerStates EXCEPT ![ProviderFromModel(t)].inFlight = 0]
  /\ UNCHANGED states

Release(t) ==
  /\ states' = [states EXCEPT ![t].inFlight = 0]
  /\ providerStates' = [providerStates EXCEPT ![ProviderFromModel(t)].inFlight = 0]

Success(t) ==
  /\ states' = [states EXCEPT ![t] =
       [Entry(@) EXCEPT !.status = "healthy", !.fails = 0, !.cool = 0, !.inFlight = 0]]
  /\ providerStates' = [providerStates EXCEPT ![ProviderFromModel(t)] =
       [Entry(@) EXCEPT !.status = "healthy", !.fails = 0, !.cool = 0, !.inFlight = 0]]

ClassifyError(code) ==
  CASE code = 0                       -> "network"
    [] code \in {401, 402, 403}       -> "auth"
    [] code = 429                     -> "rate_limit"
    [] code \in {404, 410}            -> "server"
    [] code \in (400..499) \ {401, 402, 403, 404, 410, 429} -> "client"
    [] OTHER                          -> "server"

CountFailure(n) == IF n < MaxFailures THEN n + 1 ELSE n

\* authCooldownFor: 401 and 402 condemn the provider, 403 may be one model.
AuthCooldownFor(code, fails) ==
  IF code \in {401, 402} THEN CredentialCooldown[fails] ELSE TransientCooldown[fails]

FailureClient(t) ==
  LET s == Entry(states[t])
      settled == IF s.status = "unknown" THEN "healthy" ELSE s.status
  IN /\ states' = [states EXCEPT ![t] = [s EXCEPT !.status = settled, !.inFlight = 0]]
     /\ UNCHANGED providerStates

FailureAuth(t, code) ==
  LET p == ProviderFromModel(t)
      fails == CountFailure(providerStates[p].fails)
  IN /\ \E d \in AuthCooldownFor(code, fails) :
          providerStates' = [providerStates EXCEPT ![p] =
            [Entry(@) EXCEPT !.status = "open", !.fails = fails, !.cool = d, !.inFlight = 0]]
     /\ states' = [states EXCEPT ![t] = [Entry(@) EXCEPT !.inFlight = 0]]

FailureCooling(t, retryAfter) ==
  LET fails == CountFailure(states[t].fails)
  IN /\ states' = [states EXCEPT ![t] =
          [Entry(@) EXCEPT !.status = "cooling", !.fails = fails,
                           !.cool = retryAfter, !.inFlight = 0]]
     /\ UNCHANGED providerStates

\* Below the threshold only the status changes: a cooldown still running stays.
FailureCounted(t) ==
  LET fails == CountFailure(states[t].fails)
  IN /\ \/ /\ fails >= FailureThreshold
           /\ \E d \in TransientCooldown[fails] :
                states' = [states EXCEPT ![t] =
                  [Entry(@) EXCEPT !.status = "open", !.fails = fails, !.cool = d, !.inFlight = 0]]
        \/ /\ fails < FailureThreshold
           /\ states' = [states EXCEPT ![t] =
                [Entry(@) EXCEPT !.status = "degraded", !.fails = fails, !.inFlight = 0]]
     /\ UNCHANGED providerStates

Failure(t, code, retryAfter) ==
  LET class == ClassifyError(code)
  IN \/ class = "client" /\ FailureClient(t)
     \/ class = "auth" /\ FailureAuth(t, code)
     \/ class = "rate_limit" /\ retryAfter > 0 /\ FailureCooling(t, retryAfter)
     \/ /\ \/ class \in {"server", "network"}
           \/ class = "rate_limit" /\ retryAfter = 0
        /\ FailureCounted(t)

-----------------------------------------------------------------------------
(* Active probes and operator resets.  Probes leave in-flight slots alone.  *)

\* Mutant of ProbeSuccess: the cooldown of an earlier failure is left running.
ProbeSuccessKeepsCooldown(t) ==
  /\ states' = [states EXCEPT ![t] =
       [Entry(@) EXCEPT !.status = "healthy", !.verified = TRUE, !.fails = 0]]
  /\ providerStates' = [providerStates EXCEPT ![ProviderFromModel(t)] =
       [Entry(@) EXCEPT !.status = "healthy", !.fails = 0, !.cool = 0]]

ProbeSuccess(t) ==
  /\ states' = [states EXCEPT ![t] =
       [Entry(@) EXCEPT !.status = "healthy", !.verified = TRUE, !.fails = 0, !.cool = 0]]
  /\ providerStates' = [providerStates EXCEPT ![ProviderFromModel(t)] =
       [Entry(@) EXCEPT !.status = "healthy", !.fails = 0, !.cool = 0]]

RestoreProbeSuccess(t) ==
  /\ states' = [states EXCEPT ![t] =
       [Entry(@) EXCEPT !.status = "healthy", !.verified = TRUE, !.fails = 0, !.cool = 0]]
  /\ UNCHANGED providerStates

\* Mutant of ProbeFailure: a failed probe does not take the verification away.
ProbeFailureKeepsVerified(t, code) ==
  /\ states' = [states EXCEPT ![t] =
       [Entry(@) EXCEPT !.status = "degraded", !.fails = CountFailure(states[t].fails)]]
  /\ UNCHANGED providerStates

ProbeFailure(t, code) ==
  LET class == ClassifyError(code)
      fails == CountFailure(states[t].fails)
      opens == class = "auth" \/ (class # "client" /\ fails >= FailureThreshold)
      cooldowns == IF class = "auth" THEN AuthCooldownFor(code, fails)
                                     ELSE TransientCooldown[fails]
      unverified == [Entry(states[t]) EXCEPT !.verified = FALSE, !.fails = fails]
  IN /\ \/ /\ opens
           /\ \E d \in cooldowns :
                states' = [states EXCEPT ![t] =
                             [unverified EXCEPT !.status = "open", !.cool = d]]
        \/ /\ ~opens
           /\ states' = [states EXCEPT ![t] = [unverified EXCEPT !.status = "degraded"]]
     /\ UNCHANGED providerStates

\* Reset(model, capability)
ResetCapability(t) ==
  /\ states' = [states EXCEPT ![t] = NoState]
  /\ UNCHANGED providerStates

\* Reset(model, ""): every capability of the model, and its whole provider.
ResetModel(m) ==
  /\ states' = [t \in Targets |-> IF t[1] = m THEN NoState ELSE states[t]]
  /\ providerStates' = [providerStates EXCEPT ![ProviderOf[m]] = NoState]

\* load(): a restart keeps what the file holds, except the in-flight slots.
Load ==
  /\ states' = [t \in Targets |-> [states[t] EXCEPT !.inFlight = 0]]
  /\ providerStates' = [p \in Providers |-> [providerStates[p] EXCEPT !.inFlight = 0]]

Elapse(s) == [s EXCEPT !.cool = IF @ > 0 THEN @ - 1 ELSE 0]

Tick ==
  /\ states' = [t \in Targets |-> Elapse(states[t])]
  /\ providerStates' = [p \in Providers |-> Elapse(providerStates[p])]

-----------------------------------------------------------------------------
(* The tracker under arbitrary callers: any operation, in any order. *)

Next ==
  \/ \E t \in Targets : \/ \E granted \in BOOLEAN : TryAcquire(t, granted)
                        \/ Release(t)
                        \/ Success(t)
                        \/ \E code \in Codes, ra \in RetryAfters \cup {0} : Failure(t, code, ra)
                        \/ ProbeSuccess(t)
                        \/ RestoreProbeSuccess(t)
                        \/ \E code \in Codes : ProbeFailure(t, code)
                        \/ ResetCapability(t)
  \/ \E m \in Models : ResetModel(m)
  \/ Load
  \/ Tick

Spec == Init /\ [][Next]_healthVars

-----------------------------------------------------------------------------
(* Properties *)

\* "Healthy is stricter than Available" (tracker.go:159): a target the planner
\* takes for healthy is never one the breaker would refuse, whatever order
\* failures, probes, resets and restarts came in.
HealthyImpliesAvailable == \A t \in Targets : Healthy(t) => Available(t)

\* A target that used up its failure budget and is still verified, so a route
\* may select it, is gated: open, cooling or on its half-open trial.  Only a
\* success, a successful probe or a reset puts it back to plain traffic.
ExhaustedTargetIsGated ==
  \A t \in Targets :
    states[t].verified /\ states[t].fails >= FailureThreshold
      => states[t].status \in {"open", "half-open", "cooling"}
=============================================================================
