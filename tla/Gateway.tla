------------------------------ MODULE Gateway ------------------------------
(***************************************************************************)
(* Downstream requests (internal/gateway: proxyJSON, proxyMultipart and    *)
(* AttemptExecutor.Execute) over the health tracker.  Each request walks   *)
(* its candidate list, takes an in-flight slot per candidate, sends one    *)
(* upstream attempt at a time, reports it to the tracker and either falls  *)
(* back or answers.  Releases are deferred to the end of the handler, so a *)
(* request keeps every slot it was granted until it has answered.          *)
(*                                                                         *)
(* The candidate list was planned from a snapshot, and a model asked for   *)
(* by name is not filtered by health at all: here it is any list over any  *)
(* models, empty or not, and a model may come twice (module Planner).      *)
(* Bodies, headers, metrics and the access log are left out; the provider  *)
(* limiter is module Limiter.                                              *)
(***************************************************************************)
EXTENDS HealthTracker, Lists

CONSTANTS
  Requests,         \* handler goroutines
  Kinds,            \* the request kinds that arrive, a subset of Kind
  CandidateLists,   \* what the planner may return
  Maintained,       \* bound: the targets probes and resets touch meanwhile
  ChatCapability,   \* catalog.FunctionChat, the loose fallback's capability
  RetryBudget       \* RetryPolicy.MaxAttempts

\* capability and idempotent come from the endpoint.  deferAll is needsTools &&
\* fallback, on any JSON endpoint: the body of an image generation may define
\* tools too.  loose also needs a dialog with no tool calls yet.
Kind == [capability: Capabilities, idempotent: BOOLEAN, deferAll: BOOLEAN, loose: BOOLEAN]

ASSUME KindAssumption ==
  /\ Kinds \subseteq Kind
  /\ \A k \in Kinds : k.loose => k.deferAll /\ ChatCapability \in Capabilities
  /\ Maintained \subseteq Targets

ASSUME ListAssumption ==
  /\ CandidateLists \subseteq Seq(Models)
  /\ RetryBudget \in Nat

ExcludeModels(list, failed) == Kept(list, Models \ failed)

VARIABLES
  req   \* request -> its handler's locals

gatewayVars == <<states, providerStates, req>>

Steps == {"idle", "acquire", "attempt", "release"}

\* held: targets whose Release is deferred; failed: models that failed in the
\* strict pass;
\* sent: attempts whose body may have reached an upstream; written: responses.
Handler == [step: Steps, kind: Kinds, phase: {"strict", "loose"},
            candidates: Seq(Models), index: Nat, held: Seq(Targets),
            failed: SUBSET Models, sent: Nat, written: Nat]

Fresh(kind, step, list) ==
  [step |-> step, kind |-> kind, phase |-> "strict", candidates |-> list,
   index |-> 1, held |-> <<>>, failed |-> {}, sent |-> 0, written |-> 0]

Idle(kind) == Fresh(kind, "idle", <<>>)

GatewayTypeOK == TypeOK /\ req \in [Requests -> Handler]

GatewayInit ==
  /\ Init
  /\ \E kind \in Kinds : req = [r \in Requests |-> Idle(kind)]

-----------------------------------------------------------------------------
(* The handler's view of its current candidate *)

Model(r) == req[r].candidates[req[r].index]

\* The loose pass asks for plain chat, whatever was requested.
Capability(r) ==
  IF req[r].phase = "loose" THEN ChatCapability ELSE req[r].kind.capability

Target(r) == <<Model(r), Capability(r)>>

Idempotent(r) == req[r].phase = "loose" \/ req[r].kind.idempotent

OnLast(r) == req[r].index = Len(req[r].candidates)

\* deferOnLast: the attempt leaves the error response to the loop.
Deferred(r) == req[r].phase = "loose" \/ req[r].kind.deferAll \/ OnLast(r)

\* Mutant of ShouldRetry: the request's kind is not asked.
ShouldRetryAnyKind(r, code) == req[r].index - 1 < RetryBudget /\ (code = 0 \/ code >= 400)

\* RetryPolicy.ShouldRetry for a failed attempt: 0 or an error status.
ShouldRetry(r, code) ==
  /\ req[r].index - 1 < RetryBudget
  /\ Idempotent(r)
  /\ code = 0 \/ code >= 400

-----------------------------------------------------------------------------
(* The candidate loop *)

Arrive(r, kind, list) ==
  /\ req[r].step = "idle"
  /\ req' = [req EXCEPT ![r] = Fresh(kind, "acquire", list)]
  /\ UNCHANGED healthVars

TryCandidate(r) ==
  /\ req[r].step = "acquire"
  /\ req[r].index <= Len(req[r].candidates)
  /\ \/ /\ TryAcquire(Target(r), TRUE)
        /\ req' = [req EXCEPT ![r].step = "attempt", ![r].held = Append(@, Target(r))]
     \/ /\ TryAcquire(Target(r), FALSE)
        /\ req' = [req EXCEPT ![r].index = @ + 1]

\* Mutants of LooseFallback: the failed models stay in the list, and the pass is
\* not remembered.
LooseFallbackUnfiltered(r, list) ==
  /\ req[r].step = "acquire"
  /\ req[r].index > Len(req[r].candidates)
  /\ req[r].phase = "strict" /\ req[r].kind.loose
  /\ req' = [req EXCEPT ![r].phase = "loose", ![r].index = 1, ![r].candidates = list]
  /\ UNCHANGED healthVars

LooseFallbackForgotten(r, list) ==
  /\ req[r].step = "acquire"
  /\ req[r].index > Len(req[r].candidates)
  /\ req[r].phase = "strict" /\ req[r].kind.loose
  /\ req' = [req EXCEPT ![r].index = 1,
                        ![r].candidates = ExcludeModels(list, req[r].failed)]
  /\ UNCHANGED healthVars

\* The loop ran out: strip the tools and replay on plain chat models, leaving
\* out those that already failed.
LooseFallback(r, list) ==
  /\ req[r].step = "acquire"
  /\ req[r].index > Len(req[r].candidates)
  /\ req[r].phase = "strict" /\ req[r].kind.loose
  /\ req' = [req EXCEPT ![r].phase = "loose", ![r].index = 1,
                        ![r].candidates = ExcludeModels(list, req[r].failed)]
  /\ UNCHANGED healthVars

\* summarizeAttempts, no_healthy_models or no_acquirable_models.
WriteFailure(r) ==
  /\ req[r].step = "acquire"
  /\ req[r].index > Len(req[r].candidates)
  /\ req[r].phase = "loose" \/ ~req[r].kind.loose
  /\ req' = [req EXCEPT ![r].step = "release", ![r].written = @ + 1]
  /\ UNCHANGED healthVars

\* What the strict loop remembers of a failure; the loose one keeps no such set.
FailedBy(r) == IF req[r].phase = "strict" THEN {Model(r)} ELSE {}

\* AttemptResult{Terminal: false}: the loop goes on.
Continue(r, sent) ==
  req' = [req EXCEPT ![r].step = "acquire", ![r].index = @ + 1,
                     ![r].failed = @ \cup FailedBy(r), ![r].sent = @ + sent]

\* Mutant of Terminal: the response is out, but the loop is not told.
TerminalForgotten(r, sent) ==
  req' = [req EXCEPT ![r].step = "acquire", ![r].index = @ + 1, ![r].written = @ + 1,
                     ![r].sent = @ + sent]

\* AttemptResult{Terminal: true}: the response, or what was copied of it, is out.
Terminal(r, sent) ==
  req' = [req EXCEPT ![r].step = "release", ![r].written = @ + 1, ![r].sent = @ + sent]

-----------------------------------------------------------------------------
(* Outcomes of one attempt: AttemptExecutor.Execute *)

\* The provider's own limiter is full: answered as it is, no fallback.
LocalLimit(r) ==
  /\ req[r].step = "attempt"
  /\ Terminal(r, 0)
  /\ UNCHANGED healthVars

\* forward returned an error.  Even a non-idempotent request falls back when
\* the body never left the machine.
ConnectionFailed(r, reached) ==
  /\ req[r].step = "attempt"
  /\ Failure(Target(r), 0, 0)
  /\ LET fallsBack == ~OnLast(r) /\ (ShouldRetry(r, 0) \/ ~reached)
         sent == IF reached THEN 1 ELSE 0
     IN IF fallsBack \/ Deferred(r) THEN Continue(r, sent) ELSE Terminal(r, sent)

\* The body of an error response could not be read.
ResponseUnreadable(r, code) ==
  /\ req[r].step = "attempt"
  /\ code >= 400
  /\ Failure(Target(r), code, 0)
  /\ IF Deferred(r) THEN Continue(r, 1) ELSE Terminal(r, 1)

\* An error response, classified by the adapter.  Only an attempt the loop
\* falls back from hands its Retry-After to the tracker.
ErrorResponse(r, code, retryable, retryAfter) ==
  /\ req[r].step = "attempt"
  /\ code >= 400
  /\ (ClassifyError(code) # "client" \/ code = 408) => retryable
  /\ LET fallsBack == retryable /\ ShouldRetry(r, code) /\ ~OnLast(r)
     IN /\ Failure(Target(r), code, IF fallsBack THEN retryAfter ELSE 0)
        /\ IF fallsBack \/ Deferred(r) THEN Continue(r, 1) ELSE Terminal(r, 1)

ResponseServed(r) ==
  /\ req[r].step = "attempt"
  /\ Success(Target(r))
  /\ Terminal(r, 1)

\* The 2xx body broke off or stalled after it had started.
ResponseBroken(r) ==
  /\ req[r].step = "attempt"
  /\ Failure(Target(r), 200, 0)
  /\ Terminal(r, 1)

\* The caller left during the copy: the tracker is not told.
CallerGone(r) ==
  /\ req[r].step = "attempt"
  /\ Terminal(r, 1)
  /\ UNCHANGED healthVars

\* The handler returns: deferred Releases run last-in first-out, one lock
\* acquisition each.
ReleaseHeld(r) ==
  /\ req[r].step = "release"
  /\ req[r].held # <<>>
  /\ Release(req[r].held[Len(req[r].held)])
  /\ req' = [req EXCEPT ![r].held = SubSeq(@, 1, Len(@) - 1)]

Return(r) ==
  /\ req[r].step = "release"
  /\ req[r].held = <<>>
  /\ req' = [req EXCEPT ![r] = Idle(req[r].kind)]
  /\ UNCHANGED healthVars

Execute(r) ==
  \/ LocalLimit(r)
  \/ \E reached \in BOOLEAN : ConnectionFailed(r, reached)
  \/ \E code \in Codes : ResponseUnreadable(r, code)
  \/ \E code \in Codes, retryable \in BOOLEAN, ra \in RetryAfters \cup {0} :
       ErrorResponse(r, code, retryable, ra)
  \/ ResponseServed(r)
  \/ ResponseBroken(r)
  \/ CallerGone(r)

Serve(r) ==
  \/ TryCandidate(r)
  \/ \E list \in CandidateLists : LooseFallback(r, list)
  \/ WriteFailure(r)
  \/ Execute(r)
  \/ ReleaseHeld(r)
  \/ Return(r)

-----------------------------------------------------------------------------
(* Probes and operators act on the tracker beside the requests. *)

Maintain ==
  /\ \E t \in Maintained : \/ ProbeSuccess(t)
                            \/ \E code \in Codes : ProbeFailure(t, code)
                            \/ ResetCapability(t)
                            \/ ResetModel(t[1])
  /\ UNCHANGED req

Elapsed == Tick /\ UNCHANGED req

GatewayNext ==
  \/ \E r \in Requests : \/ \E kind \in Kinds, list \in CandidateLists : Arrive(r, kind, list)
                         \/ Serve(r)
  \/ Maintain
  \/ Elapsed

GatewaySpec == GatewayInit /\ [][GatewayNext]_gatewayVars

\* A handler goroutine keeps running (its upstream calls have timeouts), and
\* the clock advances.  Nothing makes requests arrive or probes run.
GatewayFairness ==
  /\ \A r \in Requests : WF_gatewayVars(Serve(r))
  /\ WF_gatewayVars(Elapsed)

GatewayFairSpec == GatewaySpec /\ GatewayFairness
-----------------------------------------------------------------------------
(* Properties *)

Holds(r, t) == \E i \in 1..Len(req[r].held) : req[r].held[i] = t

\* "Release the in-flight slot on every exit path ... so a half-open model can
\* never wedge permanently" (gateway.go:404): a model's slot is never taken
\* without a request that still has its Release to run.
ModelSlotOwned ==
  \A t \in Targets : states[t].inFlight = 1 => \E r \in Requests : Holds(r, t)

\* The same promise for the slot TryAcquire takes on the provider.
ProviderSlotOwned ==
  \A p \in Providers : providerStates[p].inFlight = 1 =>
    \E r \in Requests, t \in Targets : ProviderFromModel(t) = p /\ Holds(r, t)

\* A generation (an image, a video, speech) without deferral: its body defines no
\* tools, or a model was asked for by name.
PlainGeneration(kind) == ~kind.idempotent /\ ~kind.deferAll

\* Such a request is never in a position to be generated twice: at most one of its
\* attempts can have reached an upstream, across retries, skipped candidates, a
\* candidate that is listed twice and connection failures.
PlainGenerationSentOnce ==
  \A r \in Requests : PlainGeneration(req[r].kind) => req[r].sent <= 1

\* "Non-idempotent requests such as image and video generation and TTS are not
\* replayed after an upstream may have received them" (README.md:53), whatever
\* their body says.  The code does: deferral hands an error response back to the
\* loop before anyone has asked whether the request may be sent again.
NonIdempotentSentOnce ==
  \A r \in Requests : ~req[r].kind.idempotent => req[r].sent <= 1

\* Every path out of the attempt loop writes exactly one response.
AnsweredOnce ==
  \A r \in Requests : req[r].written = (IF req[r].step = "release" THEN 1 ELSE 0)

\* "Models that were already attempted and failed in the strict pass must not be
\* retried by the loose pass" (gateway.go:395).
FailedModelNotRetried ==
  \A r \in Requests : req[r].step = "attempt" /\ req[r].phase = "loose" =>
    Model(r) \notin req[r].failed

\* A request that arrived is answered and gives back everything it held.
RequestsReturn == \A r \in Requests : req[r].step # "idle" ~> req[r].step = "idle"

\* Credential quarantine is "long, still self-healing" (tracker.go:35): with no
\* probe, reset or success to help, a quarantined provider's cooldown runs out,
\* although attempts in flight when it began may each extend it.
QuarantineExpires ==
  \A p \in Providers : ~CooldownPassed(providerStates[p]) ~> CooldownPassed(providerStates[p])
=============================================================================
