--------------------------- MODULE GatewayProofs ---------------------------
(***************************************************************************)
(* Proofs about the attempt loop for any number of requests, any models,   *)
(* candidate lists and retry budget.  A first invariant is per request: no *)
(* action writes another request's locals, and each keeps them sound,      *)
(* whatever candidates the tracker admits.  A second one relates requests  *)
(* to the tracker: who will give back a slot that is taken.  The tracker's *)
(* own invariant, Inv of HealthTrackerProofs, goes with it.                *)
(***************************************************************************)
EXTENDS Gateway, HealthTrackerProofs, ListProofs

\* Only a kind that may be stripped of its tools has a second pass.
Strict(h) == h.phase = "loose" => h.kind.loose

\* An attempt is of a candidate in the list, and a handler that waits for the
\* next request holds nothing.
InList(h) ==
  /\ h.index >= 1
  /\ h.step = "attempt" => h.index <= Len(h.candidates)
  /\ h.step = "idle" => h.held = <<>>

Answered(h) == h.written = (IF h.step = "release" THEN 1 ELSE 0)

\* Once a generation without deferral may have reached an upstream, its loop is
\* over or about to find its list exhausted.
Spent(h) ==
  PlainGeneration(h.kind) =>
    /\ h.phase = "strict" /\ h.sent <= 1
    /\ h.sent = 1 => /\ h.step # "attempt"
                     /\ h.step = "acquire" => h.index > Len(h.candidates)

SoundHandler(h) == Strict(h) /\ InList(h) /\ Answered(h) /\ Spent(h)

SoundHandlers == {h \in Handler : SoundHandler(h)}

ReqInv == req \in [Requests -> SoundHandlers]

-----------------------------------------------------------------------------
(* The loop's bookkeeping *)

\* A request that has just arrived, or not yet, is sound on a planned list.
LEMMA FreshSound ==
  ASSUME NEW kind \in Kinds, NEW list \in Seq(Models), NEW step \in {"idle", "acquire"}
  PROVE  Fresh(kind, step, list) \in SoundHandlers
<1> DEFINE h == Fresh(kind, step, list)
<1>1. <<>> \in Seq(Targets) /\ {} \in SUBSET Models
  OBVIOUS
<1>2. h \in Handler
  BY <1>1 DEF Fresh, Handler, Steps
<1>3. Strict(h) /\ InList(h) /\ Answered(h) /\ Spent(h)
  BY DEF Fresh, Strict, InList, Answered, Spent
<1> QED BY <1>2, <1>3 DEF SoundHandlers, SoundHandler

\* Before it arrives.
LEMMA IdleSound == ASSUME NEW kind \in Kinds PROVE Idle(kind) \in SoundHandlers
<1>1. <<>> \in Seq(Models)
  OBVIOUS
<1> QED BY <1>1, FreshSound DEF Idle

\* A handler's locals are sound, and inside its list its target is a real one.
LEMMA TargetReal ==
  ASSUME ReqInv, NEW r \in Requests
  PROVE  /\ req[r] \in Handler /\ SoundHandler(req[r])
         /\ req[r].index <= Len(req[r].candidates) =>
              Model(r) \in Models /\ Target(r) \in Targets
<1>1. req[r] \in Handler /\ SoundHandler(req[r])
  BY DEF ReqInv, SoundHandlers
<1>2. ASSUME req[r].index <= Len(req[r].candidates) PROVE Model(r) \in Models
  BY <1>1, <1>2 DEF SoundHandler, InList, Model, Handler
<1>3. Capability(r) \in Capabilities
  <2>1. req[r].kind \in Kind /\ (req[r].phase = "loose" => req[r].kind.loose)
    BY <1>1, KindAssumption DEF Handler, SoundHandler, Strict
  <2>2. req[r].kind.loose => ChatCapability \in Capabilities
    BY <1>1, KindAssumption DEF Handler
  <2> QED BY <2>1, <2>2 DEF Capability, Kind
<1> QED BY <1>1, <1>2, <1>3 DEF Target, Targets

\* So is the target of an attempt.
LEMMA AttemptReal ==
  ASSUME ReqInv, NEW r \in Requests, req[r].step = "attempt"
  PROVE  Model(r) \in Models /\ Target(r) \in Targets
BY TargetReal DEF SoundHandler, InList

\* Going on after a failed attempt is sound, provided a generation without deferral
\* that may have been sent was on its last candidate.
LEMMA ContinueSound ==
  ASSUME ReqInv, NEW r \in Requests, NEW sent \in 0..1, req[r].step = "attempt",
         Continue(r, sent), PlainGeneration(req[r].kind) /\ sent = 1 => OnLast(r)
  PROVE  ReqInv'
<1> DEFINE h == req[r]
           g == [h EXCEPT !.step = "acquire", !.index = @ + 1, !.failed = @ \cup FailedBy(r),
                          !.sent = @ + sent]
<1>1. h \in Handler /\ SoundHandler(h) /\ Model(r) \in Models
  BY TargetReal, AttemptReal
<1>2. h.sent + sent \in Nat /\ h.index + 1 \in Nat \ {0} /\ FailedBy(r) \in SUBSET Models
  BY <1>1 DEF Handler, FailedBy
<1>3. g \in Handler
  BY <1>1, <1>2 DEF Handler, Steps
<1>4. SoundHandler(g)
  <2>1. Strict(g) /\ InList(g) /\ Answered(g)
    BY <1>1 DEF SoundHandler, Strict, InList, Answered, Handler
  <2>2. ASSUME PlainGeneration(g.kind)
        PROVE  /\ g.phase = "strict" /\ g.sent <= 1
               /\ g.sent = 1 => g.index > Len(g.candidates)
    <3>1. h.phase = "strict" /\ h.sent = 0 /\ h.candidates \in Seq(Models)
      BY <1>1, <2>2 DEF SoundHandler, Spent, Strict, Handler
    <3>2. sent = 1 => h.index = Len(h.candidates)
      BY <1>1, <2>2 DEF OnLast, Handler
    <3> QED BY <1>1, <3>1, <3>2 DEF Handler
  <2> QED BY <1>1, <2>1, <2>2 DEF SoundHandler, Spent, Handler
<1>5. req' = [req EXCEPT ![r] = g]
  BY <1>1 DEF Continue, Handler, ReqInv
<1> QED BY <1>3, <1>4, <1>5 DEF ReqInv, SoundHandlers

\* Ending the loop with a response is sound.
LEMMA TerminalSound ==
  ASSUME ReqInv, NEW r \in Requests, NEW sent \in 0..1, req[r].step = "attempt",
         Terminal(r, sent)
  PROVE  ReqInv'
<1> DEFINE h == req[r]
           g == [h EXCEPT !.step = "release", !.written = @ + 1, !.sent = @ + sent]
<1>1. h \in Handler /\ SoundHandler(h)
  BY TargetReal
<1>2. h.sent + sent \in Nat /\ h.written + 1 \in Nat
  BY <1>1 DEF Handler
<1>3. g \in Handler
  BY <1>1, <1>2 DEF Handler, Steps
<1>4. SoundHandler(g)
  BY <1>1 DEF SoundHandler, Strict, InList, Answered, Spent, Handler
<1>5. req' = [req EXCEPT ![r] = g]
  BY <1>1 DEF Terminal, Handler, ReqInv
<1> QED BY <1>3, <1>4, <1>5 DEF ReqInv, SoundHandlers

-----------------------------------------------------------------------------
(* One action after the other *)

LEMMA ArriveSound ==
  ASSUME ReqInv, NEW r \in Requests, NEW kind \in Kinds, NEW list \in CandidateLists,
         Arrive(r, kind, list)
  PROVE  ReqInv'
<1>1. list \in Seq(Models)
  BY ListAssumption
<1>2. Fresh(kind, "acquire", list) \in SoundHandlers
  BY <1>1, FreshSound
<1> QED BY <1>2 DEF Arrive, ReqInv

LEMMA TryCandidateSound ==
  ASSUME ReqInv, NEW r \in Requests, TryCandidate(r)
  PROVE  ReqInv'
<1> DEFINE h == req[r]
<1>1. h \in Handler /\ SoundHandler(h)
  BY TargetReal
<1>2. h.step = "acquire" /\ h.index <= Len(h.candidates)
  BY DEF TryCandidate
<1>3. ASSUME req' = [req EXCEPT ![r].step = "attempt", ![r].held = Append(@, Target(r))]
      PROVE  ReqInv'
  <2> DEFINE g == [h EXCEPT !.step = "attempt", !.held = Append(@, Target(r))]
  <2>1. Target(r) \in Targets
    BY <1>2, TargetReal
  <2>2. Append(h.held, Target(r)) \in Seq(Targets)
    BY <1>1, <2>1 DEF Handler
  <2>3. g \in Handler
    BY <1>1, <2>2 DEF Handler, Steps
  <2>4. Strict(g) /\ InList(g) /\ Answered(g) /\ Spent(g)
    BY <1>1, <1>2 DEF SoundHandler, Strict, InList, Answered, Spent, Handler
  <2>5. req' = [req EXCEPT ![r] = g]
    BY <1>1, <1>3 DEF Handler, ReqInv
  <2> QED BY <2>3, <2>4, <2>5 DEF ReqInv, SoundHandlers, SoundHandler
<1>4. ASSUME req' = [req EXCEPT ![r].index = @ + 1]
      PROVE  ReqInv'
  <2> DEFINE g == [h EXCEPT !.index = @ + 1]
  <2>0. h.index + 1 \in Nat \ {0}
    BY <1>1 DEF Handler
  <2>1. g \in Handler
    BY <1>1, <2>0 DEF Handler
  <2>2. Strict(g) /\ InList(g) /\ Answered(g) /\ Spent(g)
    BY <1>1, <1>2 DEF SoundHandler, Strict, InList, Answered, Spent, Handler
  <2>3. req' = [req EXCEPT ![r] = g]
    BY <1>1, <1>4 DEF Handler, ReqInv
  <2> QED BY <2>1, <2>2, <2>3 DEF ReqInv, SoundHandlers, SoundHandler
<1> QED BY <1>3, <1>4 DEF TryCandidate

LEMMA ListExhaustedSound ==
  ASSUME ReqInv, NEW r \in Requests,
         (\E list \in CandidateLists : LooseFallback(r, list)) \/ WriteFailure(r)
  PROVE  ReqInv'
<1> DEFINE h == req[r]
<1>1. h \in Handler /\ SoundHandler(h)
  BY TargetReal
<1>2. ASSUME NEW list \in CandidateLists, LooseFallback(r, list) PROVE ReqInv'
  <2> DEFINE rest == ExcludeModels(list, h.failed)
             g == [h EXCEPT !.phase = "loose", !.index = 1, !.candidates = rest]
  <2>1. rest \in Seq(Models)
    <3>1. h.failed \in SUBSET Models /\ h.kind \in Kinds /\ h.kind.loose
      BY <1>1, <1>2 DEF Handler, LooseFallback
    <3> QED BY <3>1, ListAssumption, KeptMembers DEF ExcludeModels
  <2>2. req' = [req EXCEPT ![r] = g]
    BY <1>1, <1>2 DEF LooseFallback, Handler, ReqInv
  <2> HIDE DEF rest
  <2>0. 1 \in Nat \ {0}
    OBVIOUS
  <2>3. g \in Handler
    BY <1>1, <2>0, <2>1 DEF Handler
  <2>4. h.kind.loose /\ ~PlainGeneration(h.kind) /\ h.step = "acquire"
    BY <1>1, <1>2, KindAssumption DEF LooseFallback, Handler, PlainGeneration
  <2>5. Strict(g) /\ InList(g) /\ Answered(g) /\ Spent(g)
    BY <1>1, <2>4 DEF SoundHandler, Strict, InList, Answered, Spent, Handler
  <2> QED BY <2>2, <2>3, <2>5 DEF ReqInv, SoundHandlers, SoundHandler
<1>3. ASSUME WriteFailure(r) PROVE ReqInv'
  <2> DEFINE g == [h EXCEPT !.step = "release", !.written = @ + 1]
  <2>0. h.written + 1 \in Nat
    BY <1>1 DEF Handler
  <2>1. g \in Handler
    BY <1>1, <2>0 DEF Handler, Steps
  <2>2. Strict(g) /\ InList(g) /\ Answered(g) /\ Spent(g)
    BY <1>1, <1>3 DEF WriteFailure, SoundHandler, Strict, InList, Answered, Spent, Handler
  <2>3. req' = [req EXCEPT ![r] = g]
    BY <1>1, <1>3 DEF WriteFailure, Handler, ReqInv
  <2> QED BY <2>1, <2>2, <2>3 DEF ReqInv, SoundHandlers, SoundHandler
<1> QED BY <1>2, <1>3

\* A generation without deferral leaves its error response to the loop on its last
\* candidate only, and stays in the strict pass.
LEMMA DeferredOnLast ==
  ASSUME ReqInv, NEW r \in Requests, PlainGeneration(req[r].kind)
  PROVE  /\ Deferred(r) => OnLast(r)
         /\ ~Idempotent(r)
<1>1. req[r] \in Handler /\ Spent(req[r])
  BY TargetReal DEF SoundHandler
<1>2. req[r].phase = "strict"
  BY <1>1 DEF Spent
<1> QED BY <1>2 DEF Deferred, Idempotent, PlainGeneration

LEMMA ExecuteSound ==
  ASSUME ReqInv, NEW r \in Requests, Execute(r)
  PROVE  ReqInv'
<1>1. ASSUME NEW reached \in BOOLEAN, ConnectionFailed(r, reached) PROVE ReqInv'
  <2> DEFINE sent == IF reached THEN 1 ELSE 0
  <2>1. sent \in 0..1 /\ req[r].step = "attempt"
    BY <1>1 DEF ConnectionFailed
  <2>2. CASE Terminal(r, sent)
    BY <2>1, <2>2, TerminalSound
  <2>3. CASE Continue(r, sent) /\ (Deferred(r) \/ ShouldRetry(r, 0) \/ ~reached)
    <3>1. PlainGeneration(req[r].kind) /\ sent = 1 => OnLast(r)
      BY <2>3, DeferredOnLast DEF ShouldRetry
    <3> QED BY <2>1, <2>3, <3>1, ContinueSound
  <2> QED BY <1>1, <2>2, <2>3 DEF ConnectionFailed
<1>2. ASSUME NEW code \in Codes, ResponseUnreadable(r, code) PROVE ReqInv'
  BY <1>2, DeferredOnLast, ContinueSound, TerminalSound DEF ResponseUnreadable
<1>3. ASSUME NEW code \in Codes, NEW retryable \in BOOLEAN, NEW ra \in RetryAfters \cup {0},
             ErrorResponse(r, code, retryable, ra)
      PROVE  ReqInv'
  <2>1. req[r].step = "attempt"
    BY <1>3 DEF ErrorResponse
  <2>2. CASE Terminal(r, 1)
    BY <2>1, <2>2, TerminalSound
  <2>3. CASE Continue(r, 1) /\ (Deferred(r) \/ ShouldRetry(r, code))
    <3>1. PlainGeneration(req[r].kind) => OnLast(r)
      BY <2>3, DeferredOnLast DEF ShouldRetry
    <3> QED BY <2>1, <2>3, <3>1, ContinueSound
  <2> QED BY <1>3, <2>2, <2>3 DEF ErrorResponse
<1>4. CASE LocalLimit(r)
  BY <1>4, TerminalSound DEF LocalLimit
<1>5. CASE ResponseServed(r) \/ ResponseBroken(r) \/ CallerGone(r)
  BY <1>5, TerminalSound DEF ResponseServed, ResponseBroken, CallerGone
<1> QED BY <1>1, <1>2, <1>3, <1>4, <1>5 DEF Execute

LEMMA LeaveSound ==
  ASSUME ReqInv, NEW r \in Requests, ReleaseHeld(r) \/ Return(r)
  PROVE  ReqInv'
<1> DEFINE h == req[r]
<1>1. h \in Handler /\ SoundHandler(h)
  BY TargetReal
<1>2. CASE ReleaseHeld(r)
  <2> DEFINE g == [h EXCEPT !.held = SubSeq(@, 1, Len(@) - 1)]
  <2>1. SubSeq(h.held, 1, Len(h.held) - 1) \in Seq(Targets)
    BY <1>1, <1>2 DEF ReleaseHeld, Handler
  <2>2. g \in Handler
    BY <1>1, <2>1 DEF Handler
  <2>3. Strict(g) /\ InList(g) /\ Answered(g) /\ Spent(g)
    BY <1>1 DEF SoundHandler, Strict, InList, Answered, Spent, Handler
  <2>4. req' = [req EXCEPT ![r] = g]
    BY <1>1, <1>2 DEF ReleaseHeld, Handler, ReqInv
  <2> QED BY <2>2, <2>3, <2>4 DEF ReqInv, SoundHandlers, SoundHandler
<1>3. CASE Return(r)
  <2>1. h.kind \in Kinds
    BY <1>1 DEF Handler
  <2>2. Idle(h.kind) \in SoundHandlers
    BY <2>1, IdleSound
  <2> QED BY <1>3, <2>2 DEF Return, ReqInv
<1> QED BY <1>2, <1>3

-----------------------------------------------------------------------------
(* The tracker's entries beside the requests *)

\* An attempt's outcome reaches the tracker as one operation, or not at all.
LEMMA OutcomeOnTracker ==
  ASSUME ReqInv, NEW r \in Requests, Execute(r)
  PROVE  /\ Target(r) \in Targets
         /\ \/ UNCHANGED healthVars
            \/ Success(Target(r))
            \/ \E code : \E ra \in Nat : Failure(Target(r), code, ra)
<1>1. req[r].step = "attempt"
  BY DEF Execute, LocalLimit, ConnectionFailed, ResponseUnreadable, ErrorResponse,
         ResponseServed, ResponseBroken, CallerGone
<1>2. RetryAfters \cup {0} \subseteq Nat
  BY CooldownAssumption
<1>3. ASSUME NEW code, NEW retryable, NEW ra \in RetryAfters \cup {0},
             ErrorResponse(r, code, retryable, ra)
      PROVE  \E given \in Nat : Failure(Target(r), code, given)
  <2> DEFINE fallsBack == retryable /\ ShouldRetry(r, code) /\ ~OnLast(r)
  <2>1. Failure(Target(r), code, IF fallsBack THEN ra ELSE 0)
    BY <1>3 DEF ErrorResponse
  <2>2. (IF fallsBack THEN ra ELSE 0) \in Nat
    BY <1>2
  <2> HIDE DEF fallsBack
  <2> QED BY <2>1, <2>2
<1>4. ASSUME NEW code, ResponseUnreadable(r, code)
      PROVE  Failure(Target(r), code, 0)
  BY <1>4 DEF ResponseUnreadable
<1>5. ASSUME NEW reached, ConnectionFailed(r, reached) PROVE Failure(Target(r), 0, 0)
  BY <1>5 DEF ConnectionFailed
<1>6. ResponseBroken(r) => Failure(Target(r), 200, 0)
  BY DEF ResponseBroken
<1>7. LocalLimit(r) \/ CallerGone(r) => UNCHANGED healthVars
  BY DEF LocalLimit, CallerGone
<1>8. ResponseServed(r) => Success(Target(r))
  BY DEF ResponseServed
<1>9. 0 \in Nat
  OBVIOUS
<1> QED BY <1>1, <1>3, <1>4, <1>5, <1>6, <1>7, <1>8, <1>9, AttemptReal DEF Execute

\* Every step of a request, a probe, an operator or the clock is operations of
\* the tracker, on targets it has.
LEMMA ServeKeepsTracker ==
  ASSUME Inv, ReqInv, NEW r \in Requests, Serve(r)
  PROVE  Inv'
<1>1. req[r] \in Handler /\ SoundHandler(req[r])
  BY TargetReal
<1>2. ASSUME UNCHANGED healthVars PROVE Inv'
  BY <1>2 DEF Inv, healthVars
<1>3. CASE TryCandidate(r)
  <2>1. Target(r) \in Targets
    BY <1>3, TargetReal DEF TryCandidate
  <2> QED BY <1>3, <2>1, TryAcquireSound DEF TryCandidate
<1>4. CASE Execute(r)
  BY <1>2, <1>4, OutcomeOnTracker, SuccessSound, FailureSound
<1>5. CASE ReleaseHeld(r)
  <2>1. req[r].held[Len(req[r].held)] \in Targets
    BY <1>1, <1>5 DEF ReleaseHeld, Handler
  <2> QED BY <1>5, <2>1, ReleaseSound DEF ReleaseHeld
<1> QED BY <1>2, <1>3, <1>4, <1>5 DEF Serve, LooseFallback, WriteFailure, Return

LEMMA OthersKeepTracker ==
  ASSUME Inv, Maintain \/ Elapsed
  PROVE  Inv'
<1>1. CASE Maintain
  <2>1. ASSUME NEW t \in Targets, \/ ProbeSuccess(t)
                                   \/ \E code \in Codes : ProbeFailure(t, code)
                                   \/ ResetCapability(t)
        PROVE  Inv'
    BY <2>1, ProbeSuccessSound, ProbeFailureSound, ResetSound
  <2>2. ASSUME NEW t \in Targets, ResetModel(t[1]) PROVE Inv'
    BY <2>2, ResetSound DEF Targets
  <2> QED BY <1>1, <2>1, <2>2, KindAssumption DEF Maintain
<1>2. CASE Elapsed
  BY <1>2, LoadAndTickSound DEF Elapsed
<1> QED BY <1>1, <1>2

-----------------------------------------------------------------------------
(* Who takes a model's slot *)

NoSlotTaken == \A t \in Targets : states'[t].inFlight = 1 => states[t].inFlight = 1

\* Looking an entry up takes no slot.
LEMMA EntryTakesNone ==
  ASSUME NEW s \in SoundEntry
  PROVE  Entry(s).inFlight = 1 => s.inFlight = 1
BY DEF Entry, NoState

\* A granted candidate takes its own slot at most, a refused one none.
LEMMA AcquireTakesOwn ==
  ASSUME Inv, NEW t \in Targets, NEW granted \in BOOLEAN, TryAcquire(t, granted)
  PROVE  /\ \A u \in Targets \ {t} : states'[u] = states[u]
         /\ ~granted => NoSlotTaken
<1>1. \A u \in Targets \ {t} : states'[u] = states[u]
  BY DEF TryAcquire, Inv
<1>2. ASSUME ~granted PROVE NoSlotTaken
  <2>1. states'[t] = states[t] \/ states'[t] = Transition(states[t])
    BY <1>2 DEF TryAcquire, Enter, Inv
  <2>2. states[t] \in State
    BY DEF Inv, SoundEntry
  <2>3. states'[t].inFlight = states[t].inFlight
    BY <2>1, <2>2 DEF Transition, State
  <2> QED BY <1>1, <2>3 DEF NoSlotTaken
<1> QED BY <1>1, <1>2

\* An outcome clears the slot of its own target and touches no other.
LEMMA OutcomeTakesNone ==
  ASSUME Inv, NEW t \in Targets, NEW code, NEW ra, Success(t) \/ Failure(t, code, ra)
  PROVE  NoSlotTaken
<1>1. Entry(states[t]) \in State
  BY TouchedSound DEF SoundEntry
<1>2. states'[t].inFlight = 0 /\ \A u \in Targets \ {t} : states'[u] = states[u]
  <2>1. CASE Success(t)
    BY <1>1, <2>1 DEF Success, Inv, State
  <2>2. CASE FailureClient(t)
    BY <1>1, <2>2 DEF FailureClient, Inv, State
  <2>3. CASE FailureAuth(t, code)
    BY <1>1, <2>3 DEF FailureAuth, Inv, State
  <2>4. CASE FailureCooling(t, ra)
    BY <1>1, <2>4 DEF FailureCooling, Inv, State
  <2>5. CASE FailureCounted(t)
    BY <1>1, <2>5 DEF FailureCounted, Inv, State
  <2> QED BY <2>1, <2>2, <2>3, <2>4, <2>5 DEF Failure
<1> QED BY <1>2 DEF NoSlotTaken

\* Nor do probes, resets and the clock take a slot.
LEMMA OthersTakeNone ==
  ASSUME Inv, Maintain \/ Elapsed
  PROVE  NoSlotTaken
<1>0. \A t \in Targets : states[t] \in SoundEntry /\ states[t] \in State
  BY DEF Inv, SoundEntry
<1>1. ASSUME NEW t \in Targets, ProbeSuccess(t) PROVE NoSlotTaken
  <2>1. Entry(states[t]) \in State
    BY TouchedSound DEF SoundEntry
  <2>2. states'[t].inFlight = Entry(states[t]).inFlight
    BY <1>1, <2>1 DEF ProbeSuccess, Inv, State
  <2> QED BY <1>0, <1>1, <2>2, EntryTakesNone DEF ProbeSuccess, Inv, NoSlotTaken
<1>2. ASSUME NEW t \in Targets, NEW code, ProbeFailure(t, code) PROVE NoSlotTaken
  <2>1. Entry(states[t]) \in State
    BY TouchedSound DEF SoundEntry
  <2>2. /\ states'[t].inFlight = Entry(states[t]).inFlight
        /\ \A u \in Targets \ {t} : states'[u] = states[u]
    BY <1>2, <2>1 DEF ProbeFailure, Inv, State
  <2> QED BY <1>0, <2>2, EntryTakesNone DEF NoSlotTaken
<1>3. ASSUME NEW t \in Targets, ResetCapability(t) PROVE NoSlotTaken
  BY <1>3 DEF ResetCapability, Inv, NoSlotTaken, NoState
<1>4. ASSUME NEW m, ResetModel(m) PROVE NoSlotTaken
  BY <1>4 DEF ResetModel, NoSlotTaken, NoState
<1>5. ASSUME Tick PROVE NoSlotTaken
  BY <1>0, <1>5 DEF Tick, Elapse, NoSlotTaken, State
<1>6. CASE Maintain
  BY <1>1, <1>2, <1>3, <1>4, <1>6, KindAssumption DEF Maintain
<1> QED BY <1>5, <1>6 DEF Elapsed

-----------------------------------------------------------------------------
(* Who gives it back *)

\* Ownership survives a step that takes no slot and in which nobody forgets one.
LEMMA HeldKept ==
  ASSUME ReqInv, ModelSlotOwned, NoSlotTaken, \A r \in Requests : req'[r].held = req[r].held
  PROVE  ModelSlotOwned'
BY DEF ModelSlotOwned, NoSlotTaken, Holds

LEMMA ArriveOwned ==
  ASSUME Inv, ReqInv, ModelSlotOwned,
         NEW r \in Requests, NEW kind \in Kinds, NEW list \in CandidateLists,
         Arrive(r, kind, list)
  PROVE  ModelSlotOwned'
<1>1. req[r].step = "idle" /\ req[r].held = <<>>
  BY TargetReal DEF Arrive, SoundHandler, InList
<1>2. \A s \in Requests : req'[s].held = req[s].held
  BY <1>1 DEF Arrive, Fresh, ReqInv
<1> QED BY <1>2, HeldKept DEF Arrive, NoSlotTaken, healthVars

\* A granted candidate is held from the same step on.
LEMMA TryCandidateOwned ==
  ASSUME Inv, ReqInv, ModelSlotOwned, NEW r \in Requests, TryCandidate(r)
  PROVE  ModelSlotOwned'
<1> DEFINE h == req[r]
           t == Target(r)
<1>1. h \in Handler /\ t \in Targets
  BY TargetReal DEF TryCandidate
<1>2. CASE TryAcquire(t, FALSE) /\ req' = [req EXCEPT ![r].index = @ + 1]
  <2>1. \A s \in Requests : req'[s].held = req[s].held
    BY <1>1, <1>2 DEF ReqInv, Handler
  <2> QED BY <1>1, <1>2, <2>1, AcquireTakesOwn, HeldKept
<1>3. ASSUME TryAcquire(t, TRUE),
             req' = [req EXCEPT ![r].step = "attempt", ![r].held = Append(@, t)]
      PROVE  ModelSlotOwned'
  <2>1. /\ req'[r].held = Append(h.held, t)
        /\ \A s \in Requests \ {r} : req'[s] = req[s]
    BY <1>1, <1>3 DEF ReqInv, Handler
  <2>2. \A u \in Targets \ {t} : states'[u] = states[u]
    BY <1>1, <1>3, AcquireTakesOwn
  <2>3. \E i \in 1..Len(req'[r].held) : req'[r].held[i] = t
    <3>1. h.held \in Seq(Targets)
      BY <1>1 DEF Handler
    <3>2. /\ Len(h.held) + 1 \in 1..Len(Append(h.held, t))
          /\ Append(h.held, t)[Len(h.held) + 1] = t
      BY <1>1, <3>1
    <3> QED BY <2>1, <3>2
  <2>4. ASSUME NEW s \in Requests, NEW u \in Targets, Holds(s, u) PROVE Holds(s, u)'
    <3>1. h.held \in Seq(Targets)
      BY <1>1 DEF Handler
    <3>2. \A i \in 1..Len(h.held) : /\ i \in 1..Len(Append(h.held, t))
                                    /\ Append(h.held, t)[i] = h.held[i]
      BY <1>1, <3>1
    <3> QED BY <2>1, <2>4, <3>2 DEF Holds
  <2>5. \A u \in Targets : states'[u].inFlight = 1 => \E s \in Requests : Holds(s, u)'
    <3> HIDE DEF t
    <3> QED BY <2>2, <2>3, <2>4 DEF ModelSlotOwned, Holds
  <2> QED BY <2>5 DEF ModelSlotOwned
<1> QED BY <1>2, <1>3 DEF TryCandidate

\* Between acquiring and releasing, every step keeps what the handler holds.
LEMMA LoopOwned ==
  ASSUME Inv, ReqInv, ModelSlotOwned, NEW r \in Requests,
         Execute(r) \/ WriteFailure(r) \/ (\E list \in CandidateLists : LooseFallback(r, list))
  PROVE  ModelSlotOwned'
<1>1. req[r] \in Handler
  BY TargetReal
<1>2. ASSUME NEW sent, Continue(r, sent) \/ Terminal(r, sent)
      PROVE  \A s \in Requests : req'[s].held = req[s].held
  <2>1. CASE Continue(r, sent)
    BY <1>1, <2>1 DEF Continue, ReqInv, Handler
  <2>2. CASE Terminal(r, sent)
    BY <1>1, <2>2 DEF Terminal, ReqInv, Handler
  <2> QED BY <1>2, <2>1, <2>2
<1>3. \A s \in Requests : req'[s].held = req[s].held
  <2>1. CASE WriteFailure(r)
    BY <1>1, <2>1 DEF WriteFailure, ReqInv, Handler
  <2>2. ASSUME NEW list \in CandidateLists, LooseFallback(r, list)
        PROVE  \A s \in Requests : req'[s].held = req[s].held
    <3> DEFINE rest == ExcludeModels(list, req[r].failed)
    <3>1. req' = [req EXCEPT ![r].phase = "loose", ![r].index = 1, ![r].candidates = rest]
      BY <2>2 DEF LooseFallback
    <3> HIDE DEF rest
    <3> QED BY <1>1, <3>1 DEF ReqInv, Handler
  <2>3. CASE Execute(r)
    BY <1>2, <2>3, Zenon DEF Execute, LocalLimit, ConnectionFailed, ResponseUnreadable,
         ErrorResponse, ResponseServed, ResponseBroken, CallerGone
  <2> QED BY <2>1, <2>2, <2>3
<1>4. NoSlotTaken
  <2>1. CASE UNCHANGED healthVars
    BY <2>1 DEF NoSlotTaken, healthVars
  <2>2. CASE Execute(r) /\ ~UNCHANGED healthVars
    BY <2>2, OutcomeOnTracker, OutcomeTakesNone
  <2> QED BY <2>1, <2>2 DEF WriteFailure, LooseFallback
<1> QED BY <1>3, <1>4, HeldKept

\* A deferred Release forgets one target, whose slot is free from then on.
LEMMA LeaveOwned ==
  ASSUME Inv, ReqInv, ModelSlotOwned, NEW r \in Requests, ReleaseHeld(r) \/ Return(r)
  PROVE  ModelSlotOwned'
<1> DEFINE h == req[r]
<1>1. h \in Handler
  BY TargetReal
<1>2. CASE ReleaseHeld(r)
  <2> DEFINE n == Len(h.held)
             t == h.held[n]
  <2>1. n \in Nat \ {0} /\ h.held \in Seq(Targets) /\ t \in Targets
    BY <1>1, <1>2 DEF ReleaseHeld, Handler
  <2>2. /\ states'[t].inFlight = 0
        /\ \A u \in Targets \ {t} : states'[u] = states[u]
    <3>1. states \in [Targets -> State]
      BY DEF Inv, SoundEntry
    <3> QED BY <1>2, <2>1, <3>1 DEF ReleaseHeld, Release, State
  <2>3. /\ req'[r].held = SubSeq(h.held, 1, n - 1)
        /\ \A s \in Requests \ {r} : req'[s] = req[s]
    BY <1>1, <1>2 DEF ReleaseHeld, ReqInv, Handler
  <2>4. ASSUME NEW s \in Requests, NEW u \in Targets \ {t}, Holds(s, u) PROVE Holds(s, u)'
    <3>1. CASE s # r
      BY <2>3, <2>4, <3>1 DEF Holds
    <3>2. CASE s = r
      <4>1. PICK i \in 1..n : h.held[i] = u
        BY <2>4, <3>2 DEF Holds
      <4>2. i \in 1..n - 1
        BY <2>1, <4>1
      <4>3. i \in 1..Len(SubSeq(h.held, 1, n - 1)) /\ SubSeq(h.held, 1, n - 1)[i] = u
        BY <2>1, <4>1, <4>2
      <4> QED BY <2>3, <3>2, <4>3 DEF Holds
    <3> QED BY <3>1, <3>2
  <2> QED BY <2>2, <2>4 DEF ModelSlotOwned
<1>3. CASE Return(r)
  <2>1. \A s \in Requests : req'[s].held = req[s].held
    BY <1>1, <1>3 DEF Return, Idle, Fresh, ReqInv
  <2> QED BY <1>3, <2>1, HeldKept DEF Return, NoSlotTaken, healthVars
<1> QED BY <1>2, <1>3

LEMMA OthersOwned ==
  ASSUME Inv, ReqInv, ModelSlotOwned, Maintain \/ Elapsed
  PROVE  ModelSlotOwned'
<1>1. NoSlotTaken /\ req' = req
  BY OthersTakeNone DEF Maintain, Elapsed
<1> QED BY <1>1, HeldKept

-----------------------------------------------------------------------------
(* What follows for every reachable state *)

GatewayInv == Inv /\ ReqInv /\ ModelSlotOwned

LEMMA GatewayInitSound == GatewayInit => GatewayInv
<1> SUFFICES ASSUME GatewayInit PROVE GatewayInv
  OBVIOUS
<1>1. Inv /\ ReqInv
  BY InitSound, IdleSound DEF GatewayInit, ReqInv
<1>2. ModelSlotOwned
  BY DEF GatewayInit, Init, NoState, ModelSlotOwned
<1> QED BY <1>1, <1>2 DEF GatewayInv

LEMMA GatewayNextSound == GatewayInv /\ [GatewayNext]_gatewayVars => GatewayInv'
<1> SUFFICES ASSUME GatewayInv, [GatewayNext]_gatewayVars PROVE GatewayInv'
  OBVIOUS
<1> USE DEF GatewayInv
<1>1. ASSUME NEW r \in Requests, Serve(r) PROVE GatewayInv'
  <2>1. Inv'
    BY <1>1, ServeKeepsTracker
  <2>2. ReqInv'
    BY <1>1, TryCandidateSound, ListExhaustedSound, ExecuteSound, LeaveSound DEF Serve
  <2>3. ModelSlotOwned'
    BY <1>1, TryCandidateOwned, LoopOwned, LeaveOwned DEF Serve
  <2> QED BY <2>1, <2>2, <2>3
<1>2. ASSUME NEW r \in Requests, NEW kind \in Kinds, NEW list \in CandidateLists,
             Arrive(r, kind, list)
      PROVE  GatewayInv'
  <2>1. Inv'
    BY <1>2 DEF Arrive, healthVars, Inv
  <2> QED BY <1>2, <2>1, ArriveSound, ArriveOwned
<1>3. CASE Maintain \/ Elapsed
  <2>1. ReqInv'
    BY <1>3 DEF Maintain, Elapsed, ReqInv
  <2> QED BY <1>3, <2>1, OthersKeepTracker, OthersOwned
<1>4. CASE UNCHANGED gatewayVars
  BY <1>4 DEF gatewayVars, Inv, ReqInv, ModelSlotOwned, Holds
<1> QED BY <1>1, <1>2, <1>3, <1>4 DEF GatewayNext

LEMMA GatewayInvImplies ==
  GatewayInv => GatewayTypeOK /\ AnsweredOnce /\ PlainGenerationSentOnce /\ ModelSlotOwned
<1> SUFFICES ASSUME GatewayInv
             PROVE  GatewayTypeOK /\ AnsweredOnce /\ PlainGenerationSentOnce /\ ModelSlotOwned
  OBVIOUS
<1>1. GatewayTypeOK
  BY InvImplies DEF GatewayInv, ReqInv, SoundHandlers, GatewayTypeOK
<1>2. AnsweredOnce /\ PlainGenerationSentOnce
  BY DEF GatewayInv, ReqInv, SoundHandlers, SoundHandler, Answered, Spent, AnsweredOnce,
         PlainGenerationSentOnce
<1> QED BY <1>1, <1>2 DEF GatewayInv

-----------------------------------------------------------------------------
(* Failed models are not tried again *)

\* The loose pass has none of the models that failed in the strict one.
UntriedAhead(h) ==
  h.phase = "loose" => \A i \in 1..Len(h.candidates) : h.candidates[i] \notin h.failed

Ahead == \A r \in Requests : UntriedAhead(req[r])

\* The step of one handler is enough.
LEMMA AheadByHandler ==
  ASSUME ReqInv, Ahead, NEW r \in Requests, NEW h, req' = [req EXCEPT ![r] = h], UntriedAhead(h)
  PROVE  Ahead'
BY DEF Ahead, ReqInv, UntriedAhead

LEMMA ArriveAhead ==
  ASSUME ReqInv, Ahead, NEW r \in Requests, NEW kind \in Kinds, NEW list \in CandidateLists,
         Arrive(r, kind, list)
  PROVE  Ahead'
<1>1. UntriedAhead(Fresh(kind, "acquire", list))
  BY DEF UntriedAhead, Fresh
<1> QED BY <1>1, AheadByHandler DEF Arrive

LEMMA TryCandidateAhead ==
  ASSUME ReqInv, Ahead, NEW r \in Requests, TryCandidate(r)
  PROVE  Ahead'
<1> DEFINE h == req[r]
<1>1. h \in Handler /\ SoundHandler(h) /\ UntriedAhead(h) /\ h.step = "acquire"
  BY TargetReal DEF Ahead, TryCandidate
<1>2. CASE req' = [req EXCEPT ![r].step = "attempt", ![r].held = Append(@, Target(r))]
  <2> DEFINE g == [h EXCEPT !.step = "attempt", !.held = Append(@, Target(r))]
  <2>1. req' = [req EXCEPT ![r] = g]
    BY <1>1, <1>2 DEF ReqInv, Handler
  <2>2. UntriedAhead(g)
    BY <1>1 DEF UntriedAhead, Handler
  <2> HIDE DEF g
  <2> QED BY <2>1, <2>2, AheadByHandler
<1>3. CASE req' = [req EXCEPT ![r].index = @ + 1]
  <2> DEFINE g == [h EXCEPT !.index = @ + 1]
  <2>1. req' = [req EXCEPT ![r] = g]
    BY <1>1, <1>3 DEF ReqInv, Handler
  <2>2. UntriedAhead(g)
    BY <1>1 DEF UntriedAhead, Handler
  <2> HIDE DEF g
  <2> QED BY <2>1, <2>2, AheadByHandler
<1> QED BY <1>2, <1>3 DEF TryCandidate

\* The second pass starts from the start of a list without the failed models.
LEMMA LooseAhead ==
  ASSUME ReqInv, Ahead, NEW r \in Requests, NEW list \in CandidateLists, LooseFallback(r, list)
  PROVE  Ahead'
<1> DEFINE h == req[r]
           rest == ExcludeModels(list, h.failed)
           g == [h EXCEPT !.phase = "loose", !.index = 1, !.candidates = rest]
<1>1. h \in Handler /\ list \in Seq(Models)
  BY TargetReal, ListAssumption
<1>2. \A i \in 1..Len(rest) : rest[i] \notin h.failed
  BY <1>1, KeptMembers DEF ExcludeModels
<1>3. req' = [req EXCEPT ![r] = g]
  BY <1>1 DEF LooseFallback, Handler, ReqInv
<1> HIDE DEF rest
<1>4. UntriedAhead(g)
  BY <1>1, <1>2 DEF UntriedAhead, Handler
<1> HIDE DEF g
<1> QED BY <1>3, <1>4, AheadByHandler

\* A failure is remembered in the strict pass only.
LEMMA ContinueAhead ==
  ASSUME ReqInv, Ahead, NEW r \in Requests, NEW sent \in 0..1, req[r].step = "attempt",
         Continue(r, sent)
  PROVE  Ahead'
<1> DEFINE h == req[r]
           g == [h EXCEPT !.step = "acquire", !.index = @ + 1, !.failed = @ \cup FailedBy(r),
                          !.sent = @ + sent]
<1>1. h \in Handler /\ UntriedAhead(h)
  BY TargetReal DEF Ahead
<1>2. h.phase = "loose" => h.failed \cup FailedBy(r) = h.failed
  BY DEF FailedBy
<1>3. req' = [req EXCEPT ![r] = g]
  BY <1>1 DEF Continue, Handler, ReqInv
<1>4. UntriedAhead(g)
  BY <1>1, <1>2 DEF UntriedAhead, Handler
<1> HIDE DEF g
<1> QED BY <1>3, <1>4, AheadByHandler

\* Everything else leaves the pass, its list and its failures alone, or ends it.
LEMMA OverAhead ==
  ASSUME ReqInv, Ahead, NEW r \in Requests,
         \/ WriteFailure(r) \/ ReleaseHeld(r) \/ Return(r)
         \/ \E sent \in 0..1 : Terminal(r, sent)
  PROVE  Ahead'
<1> DEFINE h == req[r]
<1>1. h \in Handler
  BY TargetReal
<1>2. ASSUME \/ WriteFailure(r)
             \/ \E sent \in 0..1 : Terminal(r, sent)
             \/ ReleaseHeld(r)
      PROVE  /\ req'[r].phase = h.phase
             /\ req'[r].candidates = h.candidates
             /\ req'[r].failed = h.failed
             /\ \A s \in Requests \ {r} : req'[s] = req[s]
  BY <1>1, <1>2 DEF WriteFailure, Terminal, ReleaseHeld, ReqInv, Handler
<1>3. ASSUME Return(r)
      PROVE  req'[r].phase = "strict" /\ \A s \in Requests \ {r} : req'[s] = req[s]
  BY <1>3 DEF Return, Idle, Fresh, ReqInv
<1> QED BY <1>2, <1>3 DEF Ahead, UntriedAhead

LEMMA ExecuteAhead == ASSUME ReqInv, Ahead, NEW r \in Requests, Execute(r) PROVE Ahead'
<1>1. req[r].step = "attempt"
  BY Zenon DEF Execute, LocalLimit, ConnectionFailed, ResponseUnreadable, ErrorResponse,
         ResponseServed, ResponseBroken, CallerGone
<1>2. \E sent \in 0..1 : Continue(r, sent) \/ Terminal(r, sent)
  BY DEF Execute, LocalLimit, ConnectionFailed, ResponseUnreadable, ErrorResponse,
         ResponseServed, ResponseBroken, CallerGone
<1> QED BY <1>1, <1>2, ContinueAhead, OverAhead

LEMMA NextAhead == ASSUME ReqInv, Ahead, [GatewayNext]_gatewayVars PROVE Ahead'
<1>1. ASSUME NEW r \in Requests, Serve(r) PROVE Ahead'
  BY <1>1, TryCandidateAhead, LooseAhead, OverAhead, ExecuteAhead DEF Serve
<1>2. ASSUME NEW r \in Requests, NEW kind \in Kinds, NEW list \in CandidateLists,
             Arrive(r, kind, list)
      PROVE  Ahead'
  BY <1>2, ArriveAhead
<1>3. CASE UNCHANGED req
  BY <1>3 DEF Ahead
<1> QED BY <1>1, <1>2, <1>3 DEF GatewayNext, Maintain, Elapsed, gatewayVars

\* Requests and tracker are sound together in every run.
THEOREM GatewaySoundness == GatewaySpec => []GatewayInv
BY GatewayInitSound, GatewayNextSound, PTL DEF GatewaySpec

\* Handlers and breaker entries are well typed, for any number of requests.
THEOREM GatewayTypeCorrect == GatewaySpec => []GatewayTypeOK
BY GatewaySoundness, GatewayInvImplies, PTL

\* A model's half-open slot that is taken has a request that will release it, so
\* no way out of the handler wedges the model (gateway.go:404), for any number of
\* requests, probes and resets.
THEOREM ModelSlotsOwned == GatewaySpec => []ModelSlotOwned
BY GatewaySoundness, GatewayInvImplies, PTL

\* Every path out of the attempt loop has written exactly one response, for any
\* candidate lists, error codes and retry budget.
THEOREM RequestsAnsweredOnce == GatewaySpec => []AnsweredOnce
BY GatewaySoundness, GatewayInvImplies, PTL

\* An image, video or speech request whose errors are not deferred never reaches an
\* upstream twice, whatever fails in whatever order and however often the list names
\* a model (retry.go:53, adapter.go:310).
THEOREM PlainGenerationOnce == GatewaySpec => []PlainGenerationSentOnce
BY GatewaySoundness, GatewayInvImplies, PTL

LEMMA InitAhead == GatewayInit => Ahead
BY DEF GatewayInit, Ahead, UntriedAhead, Idle, Fresh

\* A model that failed in the strict pass is not tried in the loose one
\* (gateway.go:395), for any lists the planner may return for the two.
THEOREM FailedNotRetried == GatewaySpec => []FailedModelNotRetried
<1>1. ReqInv /\ Ahead => FailedModelNotRetried
  <2> SUFFICES ASSUME ReqInv, Ahead, NEW r \in Requests, req[r].step = "attempt",
                      req[r].phase = "loose"
               PROVE  Model(r) \notin req[r].failed
    BY DEF FailedModelNotRetried
  <2>1. req[r] \in Handler /\ SoundHandler(req[r]) /\ UntriedAhead(req[r])
    BY TargetReal DEF Ahead
  <2> QED BY <2>1 DEF SoundHandler, InList, UntriedAhead, Model, Handler
<1>2. GatewayInv => ReqInv
  BY DEF GatewayInv
<1> QED BY <1>1, <1>2, InitAhead, NextAhead, GatewaySoundness, PTL DEF GatewaySpec

=============================================================================
