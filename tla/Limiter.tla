------------------------------- MODULE Limiter -------------------------------
(***************************************************************************)
(* A provider's limiter (internal/transport/limiter.go) and the map of     *)
(* limiters that forward (internal/gateway/forward.go) takes it from.      *)
(* Callers are the goroutines inside forward for one provider.  The first  *)
(* ones may race to create the limiter; a limiter is named for the caller  *)
(* that made it.  Buffered channels are counters, and every select is a    *)
(* choice of the cases that are ready; deadlines and the caller's own      *)
(* cancellation are ready at any time.  Close has no caller outside tests. *)
(***************************************************************************)
EXTENDS Integers, FiniteSets

CONSTANTS
  Callers,         \* goroutines that forward requests of the provider
  MaxConcurrent,   \* RateLimitConfig.MaxConcurrentRequests
  QueueSize,       \* RateLimitConfig.QueueSize
  RateTenths,      \* RateLimitConfig.RateLimitPerSecond, in tenths
  NoLimiter        \* the map has no entry yet

\* What NewLimiter's defaults and the loader make sure of.
ASSUME LimiterAssumption ==
  /\ NoLimiter \notin Callers
  /\ IsFiniteSet(Callers)
  /\ MaxConcurrent \in Nat \ {0} /\ QueueSize \in Nat \ {0} /\ RateTenths \in Nat \ {0}

VARIABLES
  stored,    \* Gateway.limiters: the provider's limiter
  limiter,   \* limiter -> contents of its channels
  running,   \* limiters whose refill goroutine runs
  call       \* caller -> its locals

limiterVars == <<stored, limiter, running, call>>

\* math.Ceil of a number of tenths, and at least 1.
AtLeastOne(tenths) == IF tenths <= 10 THEN 1 ELSE (tenths + 9) \div 10

Capacity == AtLeastOne(2 * RateTenths)

Burst == AtLeastOne(RateTenths)

Waiting == {"token", "slot"}

Call == [step: {"idle", "create", "queue", "forward"} \cup Waiting,
         limiter: Callers \cup {NoLimiter}]

Channels == [sem: 0..MaxConcurrent, tokens: 0..Capacity, queue: 0..QueueSize]

Empty == [sem |-> 0, tokens |-> 0, queue |-> 0]

\* NewLimiter fills the bucket before anyone can take from it: a burst larger
\* than the bucket would block it forever.
NewLimiter == [Empty EXCEPT !.tokens = Burst]

LimiterTypeOK ==
  /\ stored \in Callers \cup {NoLimiter}
  /\ limiter \in [Callers -> Channels]
  /\ running \subseteq Callers
  /\ call \in [Callers -> Call]

LimiterInit ==
  /\ stored = NoLimiter
  /\ limiter = [c \in Callers |-> Empty]
  /\ running = {}
  /\ call = [c \in Callers |-> [step |-> "idle", limiter |-> NoLimiter]]

Goto(c, step) == call' = [call EXCEPT ![c].step = step]

Done(c) == call' = [call EXCEPT ![c] = [step |-> "idle", limiter |-> NoLimiter]]

Channel(c) == limiter[call[c].limiter]

-----------------------------------------------------------------------------
(* forward: find the limiter *)

Load(c) ==
  /\ call[c].step = "idle"
  /\ call' = [call EXCEPT ![c] =
       [step |-> IF stored = NoLimiter THEN "create" ELSE "queue", limiter |-> stored]]
  /\ UNCHANGED <<stored, limiter, running>>

\* Mutant of LoadOrStore: a plain Store.
StoreAlways(c) ==
  /\ call[c].step = "create"
  /\ limiter' = [limiter EXCEPT ![c] = NewLimiter]
  /\ running' = running \cup {c}
  /\ stored' = c
  /\ call' = [call EXCEPT ![c] = [step |-> "queue", limiter |-> c]]

\* newLimiter runs before LoadOrStore can look: the loser of the race keeps a
\* limiter, with its goroutine, that nobody uses.
LoadOrStore(c) ==
  /\ call[c].step = "create"
  /\ limiter' = [limiter EXCEPT ![c] = NewLimiter]
  /\ running' = running \cup {c}
  /\ stored' = IF stored = NoLimiter THEN c ELSE stored
  /\ call' = [call EXCEPT ![c] = [step |-> "queue", limiter |-> stored']]

-----------------------------------------------------------------------------
(* Acquire and Release *)

Enqueue(c) ==
  /\ call[c].step = "queue"
  /\ Channel(c).queue < QueueSize
  /\ limiter' = [limiter EXCEPT ![call[c].limiter].queue = @ + 1]
  /\ Goto(c, "token")
  /\ UNCHANGED <<stored, running>>

\* The queue is full, or the caller has gone.
Refuse(c) ==
  /\ call[c].step = "queue"
  /\ Done(c)
  /\ UNCHANGED <<stored, limiter, running>>

TakeToken(c) ==
  /\ call[c].step = "token"
  /\ Channel(c).tokens > 0
  /\ limiter' = [limiter EXCEPT ![call[c].limiter].tokens = @ - 1]
  /\ Goto(c, "slot")
  /\ UNCHANGED <<stored, running>>

\* Mutant of TokenTimeout: the place in the queue is kept.
TokenTimeoutKeepsPlace(c) ==
  /\ call[c].step = "token"
  /\ Done(c)
  /\ UNCHANGED <<stored, limiter, running>>

\* Cancelled, or 5 seconds without a token: leave the queue.
TokenTimeout(c) ==
  /\ call[c].step = "token"
  /\ limiter' = [limiter EXCEPT ![call[c].limiter].queue = @ - 1]
  /\ Done(c)
  /\ UNCHANGED <<stored, running>>

\* Acquire returns nil; its deferred receive leaves the queue.
TakeSlot(c) ==
  /\ call[c].step = "slot"
  /\ Channel(c).sem < MaxConcurrent
  /\ limiter' = [limiter EXCEPT ![call[c].limiter].sem = @ + 1,
                                ![call[c].limiter].queue = @ - 1]
  /\ Goto(c, "forward")
  /\ UNCHANGED <<stored, running>>

\* returnToken: a full bucket drops it.
Returned(tokens) == IF tokens < Capacity THEN tokens + 1 ELSE tokens

\* Mutants of SlotTimeout: the token is forgotten, and there is no deadline.
SlotTimeoutKeepsToken(c) ==
  /\ call[c].step = "slot"
  /\ limiter' = [limiter EXCEPT ![call[c].limiter].queue = @ - 1]
  /\ Done(c)
  /\ UNCHANGED <<stored, running>>

NoSlotTimeout(c) == call[c].step = "slot" /\ FALSE

\* Cancelled, or 2 seconds without a slot: return the token, leave the queue.
SlotTimeout(c) ==
  /\ call[c].step = "slot"
  /\ limiter' = [limiter EXCEPT ![call[c].limiter].tokens = Returned(@),
                                ![call[c].limiter].queue = @ - 1]
  /\ Done(c)
  /\ UNCHANGED <<stored, running>>

\* The upstream's headers are back, or the exchange failed: Release.
Release(c) ==
  /\ call[c].step = "forward"
  /\ limiter' = [limiter EXCEPT ![call[c].limiter].sem = @ - 1]
  /\ Done(c)
  /\ UNCHANGED <<stored, running>>

\* tokenRefill: a tick finds the bucket full, or adds a token.
Refill(l) ==
  /\ l \in running
  /\ limiter[l].tokens < Capacity
  /\ limiter' = [limiter EXCEPT ![l].tokens = @ + 1]
  /\ UNCHANGED <<stored, running, call>>

LimiterNext ==
  \/ \E c \in Callers : \/ Load(c) \/ LoadOrStore(c)
                        \/ Enqueue(c) \/ Refuse(c)
                        \/ TakeToken(c) \/ TokenTimeout(c)
                        \/ TakeSlot(c) \/ SlotTimeout(c)
                        \/ Release(c)
  \/ \E l \in Callers : Refill(l)

LimiterSpec == LimiterInit /\ [][LimiterNext]_limiterVars

\* The two deadlines of Acquire fire.  Nothing makes an upstream answer, so
\* Release is not fair, and Go does not promise which waiter a channel serves.
LimiterFairness == \A c \in Callers : WF_limiterVars(TokenTimeout(c)) /\ WF_limiterVars(SlotTimeout(c))

LimiterFairSpec == LimiterSpec /\ LimiterFairness

-----------------------------------------------------------------------------
(* Properties *)

Users(l, steps) == {c \in Callers : call[c].limiter = l /\ call[c].step \in steps}

\* Every slot and queue place in use belongs to a caller still entitled to it,
\* on every way out of Acquire and forward: none leaks, none is given twice.
ChannelsAccounted ==
  \A l \in Callers :
    /\ limiter[l].sem = Cardinality(Users(l, {"forward"}))
    /\ limiter[l].queue = Cardinality(Users(l, Waiting))

\* All callers of a provider share one limiter, however they raced to make it:
\* otherwise its concurrency bound would be multiplied.
OneLimiter ==
  \A c \in Callers : call[c].limiter # NoLimiter => call[c].limiter = stored

\* "a timed-out or cancelled Acquire does not permanently lose capacity"
\* (limiter.go:122): tokens in the bucket and in hand only go down when one is
\* spent on a slot, or was returned to a bucket refilled meanwhile.
TokensInPlay(l) == limiter[l].tokens + Cardinality(Users(l, {"slot"}))

NoTokenLost ==
  [][\A l \in Callers :
       TokensInPlay(l)' < TokensInPlay(l)
         => limiter'[l].sem > limiter[l].sem \/ limiter'[l].tokens = Capacity]_limiterVars

\* A caller in the queue gets through or is turned away, whatever the upstreams
\* and the other callers do.
AcquireReturns ==
  \A c \in Callers : call[c].step \in Waiting ~> call[c].step \notin Waiting
=============================================================================
