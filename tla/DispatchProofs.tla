--------------------------- MODULE DispatchProofs ---------------------------
(***************************************************************************)
(* Proofs about choosing models and sending to their providers: the        *)
(* provider limiter (Limiter), validate-models (Validation) and the        *)
(* planner (Planner), for every value of their constants.                  *)
(***************************************************************************)
EXTENDS Planner, Limiter, Validation, ListProofs, FiniteSetTheorems, SequenceTheorems, TLAPS

(* The limiter.  Which limiter a caller holds, and which limiters are made,  *)
(* decides whose slots and places the channels count.                        *)

\* A caller holds a limiter from the moment it found or stored one.
Attached ==
  \A c \in Callers : call[c].limiter = NoLimiter <=> call[c].step \in {"idle", "create"}

\* Only the first callers make limiters, each once, before anyone uses it.
MadeOnce ==
  /\ stored = NoLimiter => running = {}
  /\ stored # NoLimiter => stored \in running
  /\ \A c \in Callers : /\ c \notin running => limiter[c] = Empty
                        /\ call[c].step = "create" => c \notin running

LimiterInv ==
  /\ LimiterTypeOK /\ OneLimiter /\ Attached /\ MadeOnce /\ ChannelsAccounted

-----------------------------------------------------------------------------

\* Ceilings: the bucket holds a burst.
LEMMA BurstFits ==
  /\ Capacity \in Nat \ {0} /\ Burst \in Nat \ {0} /\ Burst <= Capacity
  /\ Empty \in Channels /\ NewLimiter \in Channels
  /\ NewLimiter.sem = 0 /\ NewLimiter.queue = 0 /\ NewLimiter.tokens = Burst
<1>1. /\ Capacity \in Nat \ {0} /\ Burst \in Nat \ {0} /\ Burst <= Capacity
  BY LimiterAssumption DEF Capacity, Burst, AtLeastOne
<1> QED BY <1>1, LimiterAssumption DEF Empty, NewLimiter, Channels

\* Two counters set at once.
LEMMA TwoCounters ==
  ASSUME NEW old \in Channels, NEW x, NEW y
  PROVE  /\ [old EXCEPT !.sem = x, !.queue = y] = [sem |-> x, tokens |-> old.tokens, queue |-> y]
         /\ [old EXCEPT !.tokens = x, !.queue = y] = [sem |-> old.sem, tokens |-> x, queue |-> y]
<1> DEFINE one == [old EXCEPT !.sem = x]
           two == [old EXCEPT !.tokens = x]
<1>1. /\ one = [sem |-> x, tokens |-> old.tokens, queue |-> old.queue]
      /\ two = [sem |-> old.sem, tokens |-> x, queue |-> old.queue]
  BY DEF Channels
<1> HIDE DEF one, two
<1>2. [one EXCEPT !.queue = y] = [sem |-> x, tokens |-> old.tokens, queue |-> y]
  BY <1>1
<1>3. [two EXCEPT !.queue = y] = [sem |-> old.sem, tokens |-> x, queue |-> y]
  BY <1>1
<1> QED BY <1>2, <1>3 DEF one, two

\* Users, of the callers' locals at any time.
UsersIn(f, l, steps) == {c \in Callers : f[c].limiter = l /\ f[c].step \in steps}

\* A user of a limiter is counted.
LEMMA UsersCounted ==
  ASSUME NEW f, NEW l, NEW steps
  PROVE  /\ IsFiniteSet(UsersIn(f, l, steps)) /\ Cardinality(UsersIn(f, l, steps)) \in Nat
         /\ \A c \in UsersIn(f, l, steps) : Cardinality(UsersIn(f, l, steps)) > 0
<1>1. IsFiniteSet(UsersIn(f, l, steps))
  BY LimiterAssumption, FS_Subset DEF UsersIn
<1>2. Cardinality(UsersIn(f, l, steps)) \in Nat
  BY <1>1, FS_CardinalityType
<1>3. Cardinality(UsersIn(f, l, steps)) = 0 => UsersIn(f, l, steps) = {}
  BY <1>1, FS_EmptySet
<1> QED BY <1>1, <1>2, <1>3

\* What a caller with the locals q counts for among them.
Uses(q, l, steps) == IF q.limiter = l /\ q.step \in steps THEN 1 ELSE 0

\* From the locals f to g one caller's went from q to r.
UsersFollow(f, g, q, r, l, steps) ==
  Cardinality(UsersIn(g, l, steps)) =
    Cardinality(UsersIn(f, l, steps)) - Uses(q, l, steps) + Uses(r, l, steps)

\* What one caller's move does to the number of users of a limiter.
LEMMA UsersMoved ==
  ASSUME NEW f \in [Callers -> Call], NEW c \in Callers, NEW r \in Call,
         NEW g, g = [f EXCEPT ![c] = r], NEW l, NEW steps
  PROVE  UsersFollow(f, g, f[c], r, l, steps)
<1> DEFINE U == UsersIn(f, l, steps)
           others == U \ {c}
<1>1. IsFiniteSet(U) /\ IsFiniteSet(others)
  BY UsersCounted, FS_Subset
<1>2. /\ UsersIn(g, l, steps) = others \cup (IF r.limiter = l /\ r.step \in steps THEN {c} ELSE {})
      /\ c \in U <=> f[c].limiter = l /\ f[c].step \in steps
      /\ c \notin others
  BY DEF UsersIn
<1>3. Cardinality(U) \in Nat /\ Cardinality(others) \in Nat
  BY <1>1, FS_CardinalityType
<1>4. c \in U => Cardinality(others) = Cardinality(U) - 1
  BY <1>1, FS_RemoveElement
<1>5. c \notin U => others = U
  OBVIOUS
<1>6. Cardinality(others \cup {c}) = Cardinality(others) + 1
  BY <1>1, <1>2, FS_AddElement
<1> HIDE DEF U, others
<1>7. CASE r.limiter = l /\ r.step \in steps
  <2>1. Cardinality(UsersIn(g, l, steps)) = Cardinality(others) + 1
    BY <1>2, <1>6, <1>7
  <2>2. CASE c \in U
    BY <1>2, <1>3, <1>4, <1>7, <2>1, <2>2 DEF U, Uses, UsersFollow
  <2>3. CASE c \notin U
    BY <1>2, <1>3, <1>5, <1>7, <2>1, <2>3 DEF U, Uses, UsersFollow
  <2> QED BY <2>2, <2>3
<1>8. CASE ~(r.limiter = l /\ r.step \in steps)
  <2>1. Cardinality(UsersIn(g, l, steps)) = Cardinality(others)
    BY <1>2, <1>8
  <2>2. CASE c \in U
    BY <1>2, <1>3, <1>4, <1>8, <2>1, <2>2 DEF U, Uses, UsersFollow
  <2>3. CASE c \notin U
    BY <1>2, <1>3, <1>5, <1>8, <2>1, <2>3 DEF U, Uses, UsersFollow
  <2> QED BY <2>2, <2>3
<1> QED BY <1>7, <1>8

\* ChannelsAccounted, of the channels and the callers' locals at any time.
Counts(ls, f) ==
  \A l \in Callers :
    /\ ls[l].sem = Cardinality(UsersIn(f, l, {"forward"}))
    /\ ls[l].queue = Cardinality(UsersIn(f, l, Waiting))

LEMMA CountsAccounted == ChannelsAccounted <=> Counts(limiter, call)
BY DEF ChannelsAccounted, Counts, Users, UsersIn

\* From the channels old of a limiter to new, as the move of a caller of it from q
\* to r asks: it gives back the slot or place of q and takes that of r.
Balances(new, old, q, r) ==
  /\ new.sem = old.sem - (IF q.step = "forward" THEN 1 ELSE 0)
                       + (IF r.step = "forward" THEN 1 ELSE 0)
  /\ new.queue = old.queue - (IF q.step \in Waiting THEN 1 ELSE 0)
                           + (IF r.step \in Waiting THEN 1 ELSE 0)

\* A token goes with the caller that took it or back to the bucket, unless it is
\* spent on a slot or the bucket is full.
NoneLost(new, old, q, r) ==
  new.tokens + (IF r.step = "slot" THEN 1 ELSE 0) < old.tokens + (IF q.step = "slot" THEN 1 ELSE 0)
    => new.sem > old.sem \/ new.tokens = Capacity

\* A caller that holds a limiter goes on to r, and the limiter's channels to ch.
CallerMoves(c, r, ch) ==
  LET k == call[c].limiter
  IN /\ call' = [call EXCEPT ![c] = r]
     /\ limiter' = [limiter EXCEPT ![k] = ch]
     /\ UNCHANGED <<stored, running>>
     /\ \/ r.limiter = k /\ r.step \notin {"idle", "create"}
        \/ r.limiter = NoLimiter /\ r.step = "idle"
     /\ Balances(ch, limiter[k], call[c], r)
     /\ NoneLost(ch, limiter[k], call[c], r)

\* A caller of limiter k that gives back and takes what it moves from and to.
LEMMA CountsMoved ==
  ASSUME NEW f \in [Callers -> Call], NEW ls \in [Callers -> Channels],
         NEW c \in Callers, NEW r \in Call, NEW k \in Callers, NEW ch \in Channels,
         NEW g, g = [f EXCEPT ![c] = r], NEW ms, ms = [ls EXCEPT ![k] = ch],
         f[c].limiter = k, r.limiter = k \/ r.step = "idle",
         Balances(ch, ls[k], f[c], r),
         Counts(ls, f)
  PROVE  Counts(ms, g)
<1> SUFFICES ASSUME NEW l \in Callers
             PROVE  /\ ms[l].sem = Cardinality(UsersIn(g, l, {"forward"}))
                    /\ ms[l].queue = Cardinality(UsersIn(g, l, Waiting))
  BY DEF Counts
<1> DEFINE n(steps) == Cardinality(UsersIn(f, l, steps))
           m(steps) == Cardinality(UsersIn(g, l, steps))
<1>1. ASSUME NEW steps PROVE m(steps) = n(steps) - Uses(f[c], l, steps) + Uses(r, l, steps)
  <2>1. UsersFollow(f, g, f[c], r, l, steps)
    BY ONLY f \in [Callers -> Call], c \in Callers, r \in Call, g = [f EXCEPT ![c] = r], UsersMoved
  <2> QED BY <2>1 DEF UsersFollow
<1>2. \A steps : n(steps) \in Nat
  BY UsersCounted
<1>3. ls[l].sem = n({"forward"}) /\ ls[l].queue = n(Waiting)
  BY DEF Counts
<1> HIDE DEF n, m
<1>4. r.step \notin {"forward"} \cup Waiting \/ r.limiter = k
  BY DEF Waiting
<1>5. CASE l = k
  <2>1. ms[l] = ch
    BY <1>5
  <2>2. ms[l].sem = m({"forward"})
    BY <1>1, <1>2, <1>3, <1>4, <1>5, <2>1 DEF Balances, Uses
  <2>3. ms[l].queue = m(Waiting)
    BY <1>1, <1>2, <1>3, <1>4, <1>5, <2>1 DEF Balances, Uses
  <2> QED BY <2>2, <2>3 DEF m
<1>6. CASE l # k
  <2>1. ms[l] = ls[l]
    BY <1>6
  <2>2. m({"forward"}) = n({"forward"}) /\ m(Waiting) = n(Waiting)
    BY <1>1, <1>2, <1>4, <1>6 DEF Uses
  <2> QED BY <1>3, <2>1, <2>2 DEF m
<1> QED BY <1>5, <1>6

\* A move of one caller that holds limiter k leaves k's channels as they should be
\* when they change by what the caller gives back and takes.
LEMMA MoveInv ==
  ASSUME LimiterInv, NEW c \in Callers, NEW r \in Call, NEW k \in Callers, NEW ch \in Channels,
         call[c].limiter = k, call' = [call EXCEPT ![c] = r],
         limiter' = [limiter EXCEPT ![k] = ch], UNCHANGED <<stored, running>>,
         \/ r.limiter = k /\ r.step \notin {"idle", "create"}
         \/ r.limiter = NoLimiter /\ r.step = "idle",
         Balances(ch, limiter[k], call[c], r)
  PROVE  LimiterInv'
<1>1. /\ limiter \in [Callers -> Channels] /\ call \in [Callers -> Call]
      /\ k # NoLimiter /\ stored = k /\ k \in running /\ call[c].step \notin {"idle", "create"}
  BY LimiterAssumption DEF LimiterInv, LimiterTypeOK, OneLimiter, Attached, MadeOnce
<1>2. LimiterTypeOK'
  BY <1>1 DEF LimiterInv, LimiterTypeOK
<1>3. OneLimiter' /\ Attached'
  BY <1>1 DEF LimiterInv, OneLimiter, Attached
<1>4. MadeOnce'
  BY <1>1 DEF LimiterInv, MadeOnce
<1>5. Counts(limiter', call')
  <2>1. Counts(limiter, call)
    BY CountsAccounted DEF LimiterInv
  <2>2. r.limiter = k \/ r.step = "idle"
    OBVIOUS
  <2> QED
    BY ONLY <1>1, <2>1, <2>2, c \in Callers, r \in Call, k \in Callers, ch \in Channels,
            call[c].limiter = k, call' = [call EXCEPT ![c] = r],
            limiter' = [limiter EXCEPT ![k] = ch], Balances(ch, limiter[k], call[c], r), CountsMoved
<1>6. ChannelsAccounted'
  BY <1>5 DEF ChannelsAccounted, Counts, Users, UsersIn
<1> QED BY <1>2, <1>3, <1>4, <1>6 DEF LimiterInv

\* The steps of the callers that hold a limiter.
Acquires(c) ==
  \/ Enqueue(c) \/ Refuse(c) \/ TakeToken(c) \/ TokenTimeout(c) \/ TakeSlot(c) \/ SlotTimeout(c)
  \/ Release(c)

LEMMA AcquireMoves ==
  ASSUME LimiterInv, NEW c \in Callers, Acquires(c)
  PROVE  /\ call[c].limiter \in Callers
         /\ \E r \in Call, ch \in Channels : CallerMoves(c, r, ch)
<1> DEFINE k == call[c].limiter
           old == limiter[k]
           Moved == \E r \in Call, ch \in Channels : CallerMoves(c, r, ch)
<1>1. /\ limiter \in [Callers -> Channels] /\ call \in [Callers -> Call]
      /\ call[c] \in Call /\ call[c].step \in {"queue", "token", "slot", "forward"}
      /\ k \in Callers
  <2>1. call[c].step \in {"queue", "token", "slot", "forward"}
    BY DEF Acquires, Enqueue, Refuse, TakeToken, TokenTimeout, TakeSlot, SlotTimeout, Release
  <2> QED BY <2>1 DEF LimiterInv, LimiterTypeOK, Attached, Call
<1>2. old \in Channels
  BY <1>1
<1> DEFINE goto(step) == [call[c] EXCEPT !.step = step]
           idle == [step |-> "idle", limiter |-> NoLimiter]
<1>3. /\ idle \in Call
      /\ \A step \in {"token", "slot", "forward"} :
           goto(step) \in Call /\ goto(step).step = step /\ goto(step).limiter = k
  BY <1>1 DEF Call, Waiting
\* Those who hold a place or a slot are counted, so there is one to give back.
<1>4. /\ call[c].step \in Waiting => old.queue > 0
      /\ call[c].step = "forward" => old.sem > 0
  <2>1. /\ call[c].step \in Waiting => c \in UsersIn(call, k, Waiting)
        /\ call[c].step = "forward" => c \in UsersIn(call, k, {"forward"})
    BY DEF UsersIn
  <2>2. /\ call[c].step \in Waiting => Cardinality(UsersIn(call, k, Waiting)) > 0
        /\ call[c].step = "forward" => Cardinality(UsersIn(call, k, {"forward"})) > 0
    BY <2>1, UsersCounted
  <2> QED BY <1>1, <2>2 DEF LimiterInv, ChannelsAccounted, Users, UsersIn
<1>5. k \in Callers /\ limiter \in [Callers -> Channels] /\ old = limiter[k]
  BY <1>1

<1>6. ASSUME NEW r \in Call, NEW ch \in Channels,
             call' = [call EXCEPT ![c] = r], limiter' = [limiter EXCEPT ![k] = ch],
             UNCHANGED <<stored, running>>,
             \/ r.limiter = k /\ r.step \notin {"idle", "create"}
             \/ r.limiter = NoLimiter /\ r.step = "idle",
             Balances(ch, old, call[c], r), NoneLost(ch, old, call[c], r)
      PROVE  Moved
  BY <1>6 DEF CallerMoves
<1> HIDE DEF Moved
<1> SUFFICES Moved
  BY <1>1 DEF Moved
<1>7. /\ Goto(c, "token") => call' = [call EXCEPT ![c] = goto("token")]
      /\ Goto(c, "slot") => call' = [call EXCEPT ![c] = goto("slot")]
      /\ Goto(c, "forward") => call' = [call EXCEPT ![c] = goto("forward")]
      /\ Done(c) => call' = [call EXCEPT ![c] = idle]
  BY DEF Goto, Done
<1>8. /\ idle.step = "idle" /\ idle.limiter = NoLimiter
      /\ old.sem \in 0..MaxConcurrent /\ old.tokens \in 0..Capacity /\ old.queue \in 0..QueueSize
      /\ Channel(c) = old /\ Capacity \in Nat
  BY <1>2, BurstFits DEF Channels, Channel
<1> HIDE DEF goto, idle
<1>9. CASE Enqueue(c)
  <2> DEFINE ch == [old EXCEPT !.queue = old.queue + 1]
  <2>1. limiter' = [limiter EXCEPT ![k] = ch]
    BY <1>1, <1>9 DEF Enqueue
  <2>2. /\ ch \in Channels /\ Balances(ch, old, call[c], goto("token"))
        /\ NoneLost(ch, old, call[c], goto("token"))
    BY <1>2, <1>3, <1>8, <1>9, LimiterAssumption DEF Enqueue, Balances, NoneLost, Channels, Waiting
  <2> HIDE DEF ch
  <2> QED BY <1>3, <1>6, <1>7, <1>9, <2>1, <2>2 DEF Enqueue
<1>10. CASE Refuse(c)
  <2>1. limiter' = [limiter EXCEPT ![k] = old]
    BY <1>1, <1>10 DEF Refuse
  <2>2. Balances(old, old, call[c], idle) /\ NoneLost(old, old, call[c], idle)
    BY <1>2, <1>3, <1>8, <1>10 DEF Refuse, Balances, NoneLost, Waiting
  <2> HIDE DEF k, old
  <2> QED BY <1>2, <1>3, <1>6, <1>7, <1>8, <1>10, <2>1, <2>2 DEF Refuse
<1>11. CASE TakeToken(c)
  <2> DEFINE ch == [old EXCEPT !.tokens = old.tokens - 1]
  <2>1. limiter' = [limiter EXCEPT ![k] = ch]
    BY <1>1, <1>11 DEF TakeToken
  <2>2. /\ ch \in Channels /\ Balances(ch, old, call[c], goto("slot"))
        /\ NoneLost(ch, old, call[c], goto("slot"))
    BY <1>2, <1>3, <1>8, <1>11, LimiterAssumption DEF TakeToken, Balances, NoneLost, Channels, Waiting
  <2> HIDE DEF ch
  <2> QED BY <1>3, <1>6, <1>7, <1>11, <2>1, <2>2 DEF TakeToken
<1>12. CASE TokenTimeout(c)
  <2> DEFINE ch == [old EXCEPT !.queue = old.queue - 1]
  <2>1. limiter' = [limiter EXCEPT ![k] = ch]
    BY <1>1, <1>12 DEF TokenTimeout
  <2>2. /\ ch \in Channels /\ Balances(ch, old, call[c], idle)
        /\ NoneLost(ch, old, call[c], idle)
    BY <1>2, <1>3, <1>4, <1>8, <1>12, LimiterAssumption DEF TokenTimeout, Balances, NoneLost, Channels, Waiting
  <2> HIDE DEF ch
  <2> QED BY <1>3, <1>6, <1>7, <1>8, <1>12, <2>1, <2>2 DEF TokenTimeout
<1>13. CASE TakeSlot(c)
  <2> DEFINE ch == [old EXCEPT !.sem = old.sem + 1, !.queue = old.queue - 1]
  <2>1. limiter' = [limiter EXCEPT ![k] = ch]
    BY <1>1, <1>13 DEF TakeSlot
  <2>2. call[c].step = "slot" /\ old.queue > 0 /\ old.sem < MaxConcurrent
    BY <1>4, <1>8, <1>13 DEF TakeSlot, Waiting
  <2>3. /\ ch = [sem |-> old.sem + 1, tokens |-> old.tokens, queue |-> old.queue - 1]
        /\ ch.sem = old.sem + 1 /\ ch.queue = old.queue - 1
    <3>1. ch = [sem |-> old.sem + 1, tokens |-> old.tokens, queue |-> old.queue - 1]
      BY <1>2, TwoCounters
    <3> HIDE DEF ch
    <3> QED BY <3>1
  <2>4. old.sem + 1 \in 0..MaxConcurrent /\ old.queue - 1 \in 0..QueueSize
    BY <1>8, <2>2, LimiterAssumption
  <2> HIDE DEF ch
  <2>5. ch \in Channels
    BY <1>8, <2>3, <2>4 DEF Channels
  <2>6. Balances(ch, old, call[c], goto("forward")) /\ NoneLost(ch, old, call[c], goto("forward"))
    BY <1>3, <1>8, <2>2, <2>3 DEF Balances, NoneLost, Returned, Waiting
  <2> QED BY <1>3, <1>6, <1>7, <1>13, <2>1, <2>5, <2>6 DEF TakeSlot
<1>14. CASE SlotTimeout(c)
  <2> DEFINE ch == [old EXCEPT !.tokens = Returned(old.tokens), !.queue = old.queue - 1]
  <2>1. limiter' = [limiter EXCEPT ![k] = ch]
    BY <1>1, <1>14 DEF SlotTimeout
  <2>2. call[c].step = "slot" /\ old.queue > 0 /\ Returned(old.tokens) \in 0..Capacity
    BY <1>4, <1>8, <1>14 DEF SlotTimeout, Waiting, Returned
  <2>3. /\ ch = [sem |-> old.sem, tokens |-> Returned(old.tokens), queue |-> old.queue - 1]
        /\ ch.sem = old.sem /\ ch.queue = old.queue - 1 /\ ch.tokens = Returned(old.tokens)
    <3>1. ch = [sem |-> old.sem, tokens |-> Returned(old.tokens), queue |-> old.queue - 1]
      BY <1>2, TwoCounters
    <3> HIDE DEF ch
    <3> QED BY <3>1
  <2>4. old.queue - 1 \in 0..QueueSize
    BY <1>8, <2>2, LimiterAssumption
  <2> HIDE DEF ch
  <2>5. ch \in Channels
    BY <1>8, <2>2, <2>3, <2>4 DEF Channels
  <2>6. ch.tokens = old.tokens + 1 \/ ch.tokens = Capacity
    BY <1>8, <2>3 DEF Returned
  <2>7. Balances(ch, old, call[c], idle)
    BY ONLY <1>8, <2>2, <2>3 DEF Balances, Waiting
  <2>8. NoneLost(ch, old, call[c], idle)
    BY ONLY <1>8, <2>2, <2>6 DEF NoneLost
  <2> QED BY <1>3, <1>6, <1>7, <1>8, <1>14, <2>1, <2>5, <2>7, <2>8 DEF SlotTimeout
<1>15. CASE Release(c)
  <2> DEFINE ch == [old EXCEPT !.sem = old.sem - 1]
  <2>1. limiter' = [limiter EXCEPT ![k] = ch]
    BY <1>1, <1>15 DEF Release
  <2>2. /\ ch \in Channels /\ Balances(ch, old, call[c], idle)
        /\ NoneLost(ch, old, call[c], idle)
    BY <1>2, <1>3, <1>4, <1>8, <1>15, LimiterAssumption DEF Release, Balances, NoneLost, Channels, Waiting
  <2> HIDE DEF ch
  <2> QED BY <1>3, <1>6, <1>7, <1>8, <1>15, <2>1, <2>2 DEF Release
<1> QED BY <1>9, <1>10, <1>11, <1>12, <1>13, <1>14, <1>15 DEF Acquires

LEMMA AcquireInv ==
  ASSUME LimiterInv, NEW c \in Callers, Acquires(c)
  PROVE  LimiterInv'
<1> DEFINE k == call[c].limiter
<1>1. k \in Callers
  BY AcquireMoves
<1>2. PICK r \in Call, ch \in Channels : CallerMoves(c, r, ch)
  BY AcquireMoves
<1>3. /\ call' = [call EXCEPT ![c] = r] /\ limiter' = [limiter EXCEPT ![k] = ch]
      /\ UNCHANGED <<stored, running>> /\ Balances(ch, limiter[k], call[c], r)
      /\ \/ r.limiter = k /\ r.step \notin {"idle", "create"}
         \/ r.limiter = NoLimiter /\ r.step = "idle"
  BY <1>2 DEF CallerMoves
<1> QED BY <1>1, <1>3, MoveInv

\* A caller that holds no limiter is in nobody's channels.
LEMMA Uncounted ==
  ASSUME LimiterInv, NEW c \in Callers, NEW r \in Call,
         call[c].step \in {"idle", "create"}, r.step \in {"idle", "create", "queue"},
         call' = [call EXCEPT ![c] = r],
         \A l \in Callers : limiter'[l].sem = limiter[l].sem /\ limiter'[l].queue = limiter[l].queue
  PROVE  ChannelsAccounted'
<1> SUFFICES ASSUME NEW l \in Callers
             PROVE  /\ limiter'[l].sem = Cardinality(UsersIn(call', l, {"forward"}))
                    /\ limiter'[l].queue = Cardinality(UsersIn(call', l, Waiting))
  BY DEF ChannelsAccounted, Users, UsersIn
<1>1. /\ UsersIn(call', l, {"forward"}) = UsersIn(call, l, {"forward"})
      /\ UsersIn(call', l, Waiting) = UsersIn(call, l, Waiting)
  BY DEF LimiterInv, LimiterTypeOK, UsersIn, Waiting
<1>2. Counts(limiter, call)
  BY CountsAccounted DEF LimiterInv
<1> QED BY <1>1, <1>2 DEF Counts

LEMMA LoadInv ==
  ASSUME LimiterInv, NEW c \in Callers, Load(c)
  PROVE  LimiterInv'
<1> DEFINE r == [step |-> IF stored = NoLimiter THEN "create" ELSE "queue", limiter |-> stored]
<1>1. /\ r \in Call /\ r.limiter = stored
      /\ r.step = IF stored = NoLimiter THEN "create" ELSE "queue"
  BY DEF LimiterInv, LimiterTypeOK, Call
<1>2. call' = [call EXCEPT ![c] = r] /\ call[c].step = "idle" /\ UNCHANGED <<stored, limiter, running>>
  BY DEF Load
<1> HIDE DEF r
<1>3. LimiterTypeOK'
  BY <1>1, <1>2 DEF LimiterInv, LimiterTypeOK
<1>4. OneLimiter' /\ Attached'
  BY <1>1, <1>2 DEF LimiterInv, LimiterTypeOK, OneLimiter, Attached
<1>5. MadeOnce'
  BY <1>1, <1>2 DEF LimiterInv, LimiterTypeOK, MadeOnce
<1>6. ChannelsAccounted'
  BY <1>1, <1>2, Uncounted
<1> QED BY <1>3, <1>4, <1>5, <1>6 DEF LimiterInv

\* The loser's limiter starts like the winner's, and stays so for nobody holds it.
LEMMA CreateInv ==
  ASSUME LimiterInv, NEW c \in Callers, LoadOrStore(c)
  PROVE  LimiterInv'
<1> DEFINE r == [step |-> "queue", limiter |-> stored']
<1>1. /\ stored' = IF stored = NoLimiter THEN c ELSE stored
      /\ call' = [call EXCEPT ![c] = r] /\ call[c].step = "create"
      /\ limiter' = [limiter EXCEPT ![c] = NewLimiter] /\ running' = running \cup {c}
  BY DEF LoadOrStore
<1>2. stored' \in Callers /\ stored' # NoLimiter
  BY <1>1, LimiterAssumption DEF LimiterInv, LimiterTypeOK
<1>3. r \in Call /\ r.limiter = stored' /\ r.step = "queue"
  BY <1>2 DEF Call
<1> HIDE DEF r
<1>4. LimiterTypeOK'
  BY <1>1, <1>2, <1>3, BurstFits DEF LimiterInv, LimiterTypeOK
<1>5. OneLimiter' /\ Attached'
  BY <1>1, <1>2, <1>3 DEF LimiterInv, LimiterTypeOK, OneLimiter, Attached
<1>6. c \notin running /\ limiter[c] = Empty
  BY <1>1 DEF LimiterInv, MadeOnce
<1>7. MadeOnce'
  <2>1. stored' \in running'
    BY <1>1 DEF LimiterInv, MadeOnce
  <2>2. ASSUME NEW d \in Callers
        PROVE  /\ d \notin running' => limiter'[d] = Empty
               /\ call'[d].step = "create" => d \notin running'
    BY <1>1, <1>3 DEF LimiterInv, LimiterTypeOK, MadeOnce
  <2> QED BY <1>2, <2>1, <2>2 DEF MadeOnce
<1>8. \A l \in Callers : limiter'[l].sem = limiter[l].sem /\ limiter'[l].queue = limiter[l].queue
  <2>1. Empty.sem = 0 /\ Empty.queue = 0
    BY DEF Empty
  <2> QED BY <1>1, <1>6, <2>1, BurstFits DEF LimiterInv, LimiterTypeOK
<1>9. ChannelsAccounted'
  BY <1>1, <1>3, <1>8, Uncounted
<1> QED BY <1>4, <1>5, <1>7, <1>9 DEF LimiterInv

LEMMA RefillInv ==
  ASSUME LimiterInv, NEW l \in Callers, Refill(l)
  PROVE  LimiterInv'
<1> DEFINE ch == [limiter[l] EXCEPT !.tokens = limiter[l].tokens + 1]
<1>1. limiter' = [limiter EXCEPT ![l] = ch] /\ l \in running /\ UNCHANGED <<stored, running, call>>
  BY DEF Refill
<1>2. ch \in Channels /\ ch.sem = limiter[l].sem /\ ch.queue = limiter[l].queue
  BY BurstFits DEF LimiterInv, LimiterTypeOK, Refill, Channels
<1> HIDE DEF ch
<1>3. LimiterTypeOK'
  BY <1>1, <1>2 DEF LimiterInv, LimiterTypeOK
<1>4. OneLimiter' /\ Attached'
  BY <1>1 DEF LimiterInv, OneLimiter, Attached
<1>5. MadeOnce'
  BY <1>1 DEF LimiterInv, LimiterTypeOK, MadeOnce
<1>6. ChannelsAccounted'
  <2>1. \A k \in Callers : limiter'[k].sem = limiter[k].sem /\ limiter'[k].queue = limiter[k].queue
    BY <1>1, <1>2 DEF LimiterInv, LimiterTypeOK
  <2>2. \A k \in Callers : UsersIn(call', k, {"forward"}) = UsersIn(call, k, {"forward"})
                           /\ UsersIn(call', k, Waiting) = UsersIn(call, k, Waiting)
    BY <1>1
  <2>3. Counts(limiter, call)
    BY CountsAccounted DEF LimiterInv
  <2>4. Counts(limiter', call')
    BY <2>1, <2>2, <2>3 DEF Counts
  <2> QED BY <2>4 DEF ChannelsAccounted, Counts, Users, UsersIn
<1> QED BY <1>3, <1>4, <1>5, <1>6 DEF LimiterInv

LEMMA LimiterInitInv == LimiterInit => LimiterInv
<1> SUFFICES ASSUME LimiterInit PROVE LimiterInv
  OBVIOUS
<1> DEFINE idle == [step |-> "idle", limiter |-> NoLimiter]
<1>1. idle \in Call /\ idle.step = "idle" /\ idle.limiter = NoLimiter
  BY DEF Call
<1>2. /\ stored = NoLimiter /\ running = {} /\ call = [c \in Callers |-> idle]
      /\ limiter = [c \in Callers |-> Empty]
  BY DEF LimiterInit
<1> HIDE DEF idle
<1>3. LimiterTypeOK
  BY <1>1, <1>2, BurstFits DEF LimiterTypeOK
<1>4. OneLimiter /\ Attached /\ MadeOnce
  BY <1>1, <1>2 DEF OneLimiter, Attached, MadeOnce
<1>5. ASSUME NEW l \in Callers, NEW steps, "idle" \notin steps PROVE Cardinality(UsersIn(call, l, steps)) = 0
  <2>1. UsersIn(call, l, steps) = {}
    BY <1>1, <1>2, <1>5 DEF UsersIn
  <2> QED BY <2>1, FS_EmptySet
<1>6. Empty.sem = 0 /\ Empty.queue = 0
  BY DEF Empty
<1>7. Counts(limiter, call)
  BY <1>2, <1>5, <1>6 DEF Counts, Waiting
<1> QED BY <1>3, <1>4, <1>7, CountsAccounted DEF LimiterInv

LEMMA LimiterNextInv == LimiterInv /\ [LimiterNext]_limiterVars => LimiterInv'
<1> SUFFICES ASSUME LimiterInv, [LimiterNext]_limiterVars PROVE LimiterInv'
  OBVIOUS
<1>1. CASE UNCHANGED limiterVars
  BY <1>1 DEF limiterVars, LimiterInv, LimiterTypeOK, OneLimiter, Attached, MadeOnce,
              ChannelsAccounted, Users
<1>2. ASSUME NEW c \in Callers, Load(c) PROVE LimiterInv'
  BY <1>2, LoadInv
<1>3. ASSUME NEW c \in Callers, LoadOrStore(c) PROVE LimiterInv'
  BY <1>3, CreateInv
<1>4. ASSUME NEW c \in Callers, Acquires(c) PROVE LimiterInv'
  BY <1>4, AcquireInv
<1>5. ASSUME NEW l \in Callers, Refill(l) PROVE LimiterInv'
  BY <1>5, RefillInv
<1> QED BY <1>1, <1>2, <1>3, <1>4, <1>5 DEF LimiterNext, Acquires

LEMMA LimiterInvariant == LimiterSpec => []LimiterInv
<1>1. LimiterInit => LimiterInv
  BY LimiterInitInv
<1>2. LimiterInv /\ [LimiterNext]_limiterVars => LimiterInv'
  BY LimiterNextInv
<1> QED BY <1>1, <1>2, PTL DEF LimiterSpec

\* However the first callers of a provider race in forward (forward.go), all of them
\* go through the limiter that the map keeps.
THEOREM LimiterIsShared == LimiterSpec => []OneLimiter
<1>1. LimiterInv => OneLimiter
  BY DEF LimiterInv
<1> QED BY <1>1, LimiterInvariant, PTL

\* The semaphore and the queue of a limiter hold one place for each caller that is
\* entitled to it, on every way out of Acquire and forward (limiter.go).
THEOREM LimiterAccounts == LimiterSpec => []ChannelsAccounted
<1>1. LimiterInv => ChannelsAccounted
  BY DEF LimiterInv
<1> QED BY <1>1, LimiterInvariant, PTL

\* The tokens in play of a limiter, of the channels and the callers' locals at any time.
InPlay(ls, f, l) == ls[l].tokens + Cardinality(UsersIn(f, l, {"slot"}))

LEMMA NoneLostStep ==
  ASSUME LimiterInv, [LimiterNext]_limiterVars, NEW l \in Callers,
         InPlay(limiter', call', l) < InPlay(limiter, call, l)
  PROVE  limiter'[l].sem > limiter[l].sem \/ limiter'[l].tokens = Capacity
<1> DEFINE U == UsersIn(call, l, {"slot"})
           V == UsersIn(call', l, {"slot"})
<1>1. /\ limiter \in [Callers -> Channels] /\ call \in [Callers -> Call]
      /\ limiter[l].tokens \in Nat /\ Cardinality(U) \in Nat
  BY UsersCounted, BurstFits DEF LimiterInv, LimiterTypeOK, Channels
<1>2. InPlay(limiter, call, l) = limiter[l].tokens + Cardinality(U)
      /\ InPlay(limiter', call', l) = limiter'[l].tokens + Cardinality(V)
  BY DEF InPlay
<1> HIDE DEF U, V
\* While the callers in hand of a token stay, the bucket can only have lost some.
<1>3. V = U /\ limiter'[l].tokens \in Nat => limiter'[l].tokens < limiter[l].tokens
  BY <1>1, <1>2
<1>4. CASE UNCHANGED limiterVars
  BY <1>1, <1>3, <1>4 DEF limiterVars, U, V
<1>5. ASSUME NEW c \in Callers, Load(c) PROVE FALSE
  <2>1. V = U /\ limiter' = limiter
    BY <1>1, <1>5 DEF Load, U, V, UsersIn
  <2> QED BY <1>1, <1>3, <2>1
<1>6. ASSUME NEW c \in Callers, LoadOrStore(c) PROVE FALSE
  <2>1. /\ call[c].step = "create" /\ limiter' = [limiter EXCEPT ![c] = NewLimiter]
        /\ call' = [call EXCEPT ![c] = [step |-> "queue", limiter |-> stored']]
    BY <1>6 DEF LoadOrStore
  <2>2. V = U
    BY <1>1, <2>1 DEF U, V, UsersIn
  <2>3. limiter[c] = Empty /\ Empty.tokens = 0
    BY <2>1 DEF LimiterInv, MadeOnce, Empty
  <2>4. limiter'[l].tokens \in Nat /\ ~(limiter'[l].tokens < limiter[l].tokens)
    BY <1>1, <2>1, <2>3, BurstFits
  <2> QED BY <1>3, <2>2, <2>4
<1>7. ASSUME NEW k \in Callers, Refill(k) PROVE FALSE
  <2>1. V = U
    BY <1>7 DEF Refill, U, V
  <2>2. limiter'[l].tokens = limiter[l].tokens \/ limiter'[l].tokens = limiter[l].tokens + 1
    BY <1>1, <1>7 DEF Refill, Channels
  <2> QED BY <1>1, <1>3, <2>1, <2>2
<1>8. ASSUME NEW c \in Callers, Acquires(c)
      PROVE  limiter'[l].sem > limiter[l].sem \/ limiter'[l].tokens = Capacity
  <2> DEFINE k == call[c].limiter
  <2>1. k \in Callers
    BY <1>8, AcquireMoves
  <2>2. PICK r \in Call, ch \in Channels : CallerMoves(c, r, ch)
    BY <1>8, AcquireMoves
  <2>3. /\ call' = [call EXCEPT ![c] = r] /\ limiter' = [limiter EXCEPT ![k] = ch]
        /\ NoneLost(ch, limiter[k], call[c], r)
        /\ (r.limiter = k \/ r.step = "idle")
    BY <2>2 DEF CallerMoves
  <2>4. UsersFollow(call, call', call[c], r, l, {"slot"})
    BY ONLY <1>1, <2>3, c \in Callers, r \in Call, UsersMoved
  <2>5. Cardinality(V) = Cardinality(U) - Uses(call[c], l, {"slot"}) + Uses(r, l, {"slot"})
    BY <2>4 DEF U, V, UsersFollow
  <2>6. CASE l # k
    <3>1. limiter'[l] = limiter[l] /\ Uses(call[c], l, {"slot"}) = 0 /\ Uses(r, l, {"slot"}) = 0
      BY <1>1, <2>3, <2>6 DEF Uses
    <3> QED BY <1>1, <1>2, <2>5, <3>1
  <2>7. CASE l = k
    <3>1. /\ limiter'[l] = ch /\ ch.tokens \in Nat
          /\ Uses(call[c], l, {"slot"}) = IF call[c].step = "slot" THEN 1 ELSE 0
          /\ Uses(r, l, {"slot"}) = IF r.step = "slot" THEN 1 ELSE 0
      BY <1>1, <2>1, <2>3, <2>7, BurstFits DEF Uses, Channels
    <3>2. ch.tokens + Uses(r, l, {"slot"}) < limiter[l].tokens + Uses(call[c], l, {"slot"})
      BY <1>1, <1>2, <2>5, <3>1
    <3> QED BY <2>3, <2>7, <3>1, <3>2 DEF NoneLost
  <2> QED BY <2>6, <2>7
<1> QED BY <1>4, <1>5, <1>6, <1>7, <1>8 DEF LimiterNext, Acquires

\* "a timed-out or cancelled Acquire does not permanently lose capacity"
\* (limiter.go:122): the tokens in the bucket and in hand only go down when one is
\* spent on a slot, or came back to a bucket that was full.
THEOREM TokensAreKept == LimiterSpec => NoTokenLost
<1>1. LimiterInv /\ [LimiterNext]_limiterVars
        => [\A l \in Callers :
              TokensInPlay(l)' < TokensInPlay(l)
                => limiter'[l].sem > limiter[l].sem \/ limiter'[l].tokens = Capacity]_limiterVars
  <2> SUFFICES ASSUME LimiterInv, [LimiterNext]_limiterVars, NEW l \in Callers,
                      TokensInPlay(l)' < TokensInPlay(l)
               PROVE  limiter'[l].sem > limiter[l].sem \/ limiter'[l].tokens = Capacity
    OBVIOUS
  <2>1. InPlay(limiter', call', l) < InPlay(limiter, call, l)
    BY DEF TokensInPlay, InPlay, Users, UsersIn
  <2> QED BY <2>1, NoneLostStep
<1> QED BY <1>1, LimiterInvariant, PTL DEF LimiterSpec, NoTokenLost

-----------------------------------------------------------------------------
(* validate-models.  A report is printed once, from probes that no longer move, *)
(* so what it says is a matter of the sets it is made of.                       *)

ProbeTypeOK ==
  /\ keyed \subseteq Providers /\ filter \subseteq Providers
  /\ probe \in [AllJobs -> [step : {"start", "entered", "pacing", "asking", "backoff", "ended"},
                            attempt : Nat, outcome : Result]]

\* The record that Report prints.
Reported ==
  LET outcomes == Probed \cup Clones
      failures == Failures(outcomes)
  IN [printed |-> TRUE, models |-> CheckedModels, outcomes |-> outcomes,
      listed |-> Cardinality({r \in failures : Issue(r.result) \in Summarized}),
      ok |-> Cardinality(outcomes \ failures), failed |-> Cardinality(failures),
      okModels |-> Cardinality({m \in CheckedModels : \A r \in failures : r.model # m}),
      error |-> CheckedModels = {} \/ failures # {}]

\* What was printed is what the probes ended with.
ReportStands ==
  report.printed => report = Reported /\ \A j \in Jobs : probe[j].step = "ended"

ValidationInv == ProbeTypeOK /\ ReportStands

LEMMA ValidationInitInv == ValidationInit => ValidationInv
<1> SUFFICES ASSUME ValidationInit PROVE ValidationInv
  OBVIOUS
<1>1. NotAsked \in Result
  BY DEF NotAsked, Result, ReplyKinds
<1>2. ProbeTypeOK
  BY <1>1 DEF ValidationInit, ProbeTypeOK
<1>3. ~report.printed
  BY DEF ValidationInit, NoReport
<1> QED BY <1>2, <1>3 DEF ValidationInv, ReportStands

LEMMA ValidationNextInv == ValidationInv /\ [ValidationNext]_validationVars => ValidationInv'
<1> SUFFICES ASSUME ValidationInv, [ValidationNext]_validationVars PROVE ValidationInv'
  OBVIOUS
<1> USE DEF ValidationInv
<1>1. CASE UNCHANGED validationVars
  <2>1. UNCHANGED <<keyed, filter, probe, report>>
    BY <1>1 DEF validationVars
  <2>2. ProbeTypeOK'
    BY <2>1 DEF ProbeTypeOK
  <2>3. Reported' = Reported /\ Jobs' = Jobs
    BY <2>1 DEF Reported, Probed, Clones, Jobs, CheckedModels, Checked
  <2>4. ReportStands'
    BY <2>1, <2>3 DEF ReportStands
  <2> QED BY <2>2, <2>4
<1>2. CASE Report
  <2>1. UNCHANGED <<keyed, filter, probe>> /\ report' = Reported
    BY <1>2 DEF Report, Reported
  <2>2. ProbeTypeOK'
    BY <2>1 DEF ProbeTypeOK
  <2>3. report' = Reported'
    BY <2>1 DEF Reported, Probed, Clones, Jobs, CheckedModels, Checked
  <2>4. \A j \in Jobs' : probe'[j].step = "ended"
    BY <1>2, <2>1 DEF Report, Jobs, CheckedModels, Checked
  <2> QED BY <2>2, <2>3, <2>4 DEF ReportStands
<1>3. ASSUME NEW j \in AllJobs, Step(j) PROVE ValidationInv'
  <2>1. UNCHANGED <<keyed, filter, report>>
    BY <1>3 DEF Step, Enter, Lock, Paced, Replied, Retry
  <2>2. ProbeTypeOK'
    <3>1. ASSUME NEW from, NEW to \in {"entered", "pacing", "asking"}, Moves(j, from, to)
          PROVE  ProbeTypeOK'
      BY <2>1, <3>1 DEF Moves, ProbeTypeOK
    <3>2. CASE Enter(j)
      BY <3>1, <3>2 DEF Enter
    <3>3. CASE Lock(j)
      BY <3>1, <3>3 DEF Lock
    <3>4. CASE Paced(j)
      BY <3>1, <3>4 DEF Paced
    <3>5. CASE Retry(j)
      BY <2>1, <3>5 DEF Retry, ProbeTypeOK
    <3>6. ASSUME NEW reply \in Replies, Replied(j, reply) PROVE ProbeTypeOK'
      <4>1. reply \in Reply /\ probe[j].outcome \in Result
        BY ValidationAssumption DEF ProbeTypeOK
      <4>2. After(probe[j].outcome, reply) \in Result
        BY <4>1 DEF After, Reply, Result
      <4> QED BY <2>1, <3>6, <4>2 DEF Replied, ProbeTypeOK
    <3> QED BY <1>3, <3>2, <3>3, <3>4, <3>5, <3>6 DEF Step
\* A job whose probe ended has no step, so nothing is printed yet.
  <2>3. j \in Jobs /\ probe[j].step # "ended"
    BY <1>3 DEF Step, Enter, Lock, Paced, Replied, Retry, Moves
  <2>4. ~report'.printed
    BY <2>1, <2>3 DEF ReportStands
  <2> QED BY <2>2, <2>4 DEF ReportStands
<1> QED BY <1>1, <1>2, <1>3 DEF ValidationNext

\* The outcome that stands for a function of a model.
OutcomeOf(m, f) ==
  Outcome(m, f, probe[IF Inferred(m, f) THEN <<m, "chat">> ELSE <<m, f>>].outcome)

\* Where chat-tools is inferred chat is probed, and nothing else is inferred.
LEMMA JobOf ==
  ASSUME NEW m \in CheckedModels, NEW f \in Functions[m]
  PROVE  (IF Inferred(m, f) THEN <<m, "chat">> ELSE <<m, f>>) \in Jobs
<1>1. m \in ValidationModels
  BY DEF CheckedModels
<1>2. ASSUME NEW g \in Functions[m], ~Inferred(m, g) PROVE <<m, g>> \in Jobs
  <2>1. <<m, g>> \in Pairs(ValidationModels)
    BY <1>1 DEF Pairs
  <2> QED BY <1>2, <2>1 DEF Jobs, AllJobs
<1>3. ~Inferred(m, "chat")
  BY DEF Inferred
<1> QED BY <1>2, <1>3 DEF Inferred

LEMMA OutcomesOf ==
  Probed \cup Clones = {OutcomeOf(p[1], p[2]) : p \in Pairs(CheckedModels)}
<1> DEFINE R == {OutcomeOf(p[1], p[2]) : p \in Pairs(CheckedModels)}
<1>1. ASSUME NEW j \in Jobs PROVE Outcome(j[1], j[2], probe[j].outcome) \in R
  <2>1. j = <<j[1], j[2]>> /\ j \in Pairs(CheckedModels) /\ ~Inferred(j[1], j[2])
    BY DEF Jobs, AllJobs, Pairs
  <2>2. Outcome(j[1], j[2], probe[j].outcome) = OutcomeOf(j[1], j[2])
    BY <2>1 DEF OutcomeOf
  <2> QED BY <2>1, <2>2
<1>2. ASSUME NEW q \in Probed, q.function = "chat", "chat-tools" \in Functions[q.model]
      PROVE  Outcome(q.model, "chat-tools", q.result) \in R
  <2>1. PICK j \in Jobs : q = Outcome(j[1], j[2], probe[j].outcome)
    BY DEF Probed
  <2>2. j = <<j[1], "chat">> /\ j[1] \in CheckedModels /\ "chat" \in Functions[j[1]]
    BY <1>2, <2>1 DEF Jobs, AllJobs, Pairs, Outcome
  <2>3. q.model = j[1] /\ q.result = probe[<<j[1], "chat">>].outcome
    BY <2>1, <2>2 DEF Outcome
  <2>4. Inferred(j[1], "chat-tools")
    BY <2>2 DEF Inferred
  <2>5. Outcome(q.model, "chat-tools", q.result) = OutcomeOf(j[1], "chat-tools")
    BY <2>3, <2>4 DEF OutcomeOf
  <2>6. <<j[1], "chat-tools">> \in Pairs(CheckedModels)
    BY <1>2, <2>2, <2>3 DEF Pairs
  <2>7. OutcomeOf(j[1], "chat-tools") \in R
    <3> DEFINE p == <<j[1], "chat-tools">>
    <3>1. p[1] = j[1] /\ p[2] = "chat-tools"
      OBVIOUS
    <3> HIDE DEF p
    <3> QED BY <2>6, <3>1 DEF p
  <2> QED BY <2>5, <2>7
<1>3. ASSUME NEW p \in Pairs(CheckedModels) PROVE OutcomeOf(p[1], p[2]) \in Probed \cup Clones
  <2>1. p[1] \in CheckedModels /\ p[2] \in Functions[p[1]]
    BY DEF Pairs
  <2>2. CASE ~Inferred(p[1], p[2])
    <3> DEFINE j == <<p[1], p[2]>>
    <3>1. j \in Jobs /\ j[1] = p[1] /\ j[2] = p[2]
      BY <2>1, <2>2, JobOf
    <3>2. OutcomeOf(p[1], p[2]) = Outcome(p[1], p[2], probe[j].outcome)
      BY <2>2 DEF OutcomeOf
    <3> HIDE DEF j
    <3> QED BY <3>1, <3>2 DEF Probed
  <2>3. CASE Inferred(p[1], p[2])
    <3> DEFINE j == <<p[1], "chat">>
               q == Outcome(p[1], "chat", probe[j].outcome)
    <3>1. j \in Jobs /\ j[1] = p[1] /\ j[2] = "chat"
      BY <2>1, <2>3, JobOf
    <3>2. q.model = p[1] /\ q.function = "chat" /\ q.result = probe[j].outcome
      BY DEF Outcome
    <3>3. OutcomeOf(p[1], p[2]) = Outcome(p[1], "chat-tools", probe[j].outcome)
      BY <2>3 DEF OutcomeOf, Inferred
    <3>4. p[2] = "chat-tools"
      BY <2>3 DEF Inferred
    <3> HIDE DEF j
    <3>5. q \in Probed
      BY <3>1 DEF Probed
    <3> HIDE DEF q
    <3> QED BY <2>1, <3>2, <3>3, <3>4, <3>5 DEF Clones
  <2> QED BY <2>2, <2>3
<1> HIDE DEF R
<1>4. Probed \subseteq R
  BY <1>1 DEF Probed
<1>5. Clones \subseteq R
  BY <1>2 DEF Clones
<1>6. R \subseteq Probed \cup Clones
  BY <1>3 DEF R
<1> QED BY <1>4, <1>5, <1>6 DEF R

LEMMA ValidationInvariant == ValidationSpec => []ValidationInv
<1>1. ValidationInit => ValidationInv
  BY ValidationInitInv
<1>2. ValidationInv /\ [ValidationNext]_validationVars => ValidationInv'
  BY ValidationNextInv
<1> QED BY <1>1, <1>2, PTL DEF ValidationSpec

LEMMA PairsFinite == IsFiniteSet(CheckedModels) /\ IsFiniteSet(Pairs(CheckedModels))
<1> DEFINE of == [m \in CheckedModels |-> {m} \X Functions[m]]
           T == {{m} \X Functions[m] : m \in CheckedModels}
<1>1. IsFiniteSet(CheckedModels)
  BY ValidationAssumption, FS_Subset DEF CheckedModels
<1>2. of \in Surjection(CheckedModels, T)
  BY DEF Surjection
<1>3. IsFiniteSet(T)
  BY <1>1, <1>2, FS_Surjection
<1>4. ASSUME NEW t \in T PROVE IsFiniteSet(t)
  <2>1. PICK m \in CheckedModels : t = {m} \X Functions[m]
    OBVIOUS
  <2>2. IsFiniteSet({m}) /\ IsFiniteSet(Functions[m])
    BY ValidationAssumption, FS_Singleton DEF CheckedModels
  <2> QED BY <2>1, <2>2, FS_Product
<1> HIDE DEF T
<1>5. IsFiniteSet(UNION T)
  BY <1>3, <1>4, FS_UNION
<1> QED BY <1>1, <1>5 DEF T, Pairs

\* Every failed outcome has an issue that summarizeIssues prints.
LEMMA IssueSummarized ==
  ASSUME NEW result \in Result
  PROVE  Issue(result) \in Summarized
<1> DEFINE s == result.status
           k == result.kind
           h == result.error
<1>1. s \in Nat /\ k \in {"http", "timeout", "network", "unknown"}
  BY DEF Result, ReplyKinds
<1> HIDE DEF s, k, h
<1>2. CASE s = 403
  <2>1. Issue(result) \in {"rate-limit", "timeout", "network", "unavailable", "model-disabled",
                          "deprecated", "no-longer-free", "auth", "forbidden"}
    BY <1>1, <1>2 DEF Issue, s, k, h
  <2> QED BY <2>1 DEF Summarized
<1>3. CASE s # 403
  <2>1. Issue(result) \in {"rate-limit", "timeout", "network", "unavailable", "auth", "upstream",
                          "model-disabled", "tool-unsupported", "deprecated", "no-longer-free",
                          "error"}
    BY <1>1, <1>3 DEF Issue, s, k, h
  <2> QED BY <2>1 DEF Summarized
<1> QED BY <1>2, <1>3

\* What the report says, of a report as Report makes it.
LEMMA ReportedIsComplete ==
  ASSUME ProbeTypeOK, report = Reported
  PROVE  ReportIsComplete
<1> DEFINE models == CheckedModels
           outcomes == Probed \cup Clones
           failures == Failures(outcomes)
           of(m, f) == {r \in outcomes : r.model = m /\ r.function = f}
           failing == {m \in models : \E r \in outcomes : r.model = m /\ ~r.result.ok}
<1>1. /\ report.models = models /\ report.outcomes = outcomes
      /\ report.listed = Cardinality({r \in failures : Issue(r.result) \in Summarized})
      /\ report.failed = Cardinality(failures)
      /\ report.okModels = Cardinality({m \in models : \A r \in failures : r.model # m})
      /\ report.error <=> models = {} \/ failures # {}
  BY DEF Reported
<1> HIDE DEF models, outcomes, failures, of, failing
<1>2. outcomes = {OutcomeOf(p[1], p[2]) : p \in Pairs(models)}
  BY OutcomesOf DEF outcomes, models
<1>3. ASSUME NEW p \in Pairs(models)
      PROVE  /\ p = <<p[1], p[2]>> /\ p[1] \in models /\ p[2] \in Functions[p[1]]
             /\ OutcomeOf(p[1], p[2]).model = p[1] /\ OutcomeOf(p[1], p[2]).function = p[2]
             /\ OutcomeOf(p[1], p[2]).result \in Result
  <2>1. p = <<p[1], p[2]>> /\ p[1] \in models /\ p[2] \in Functions[p[1]]
    BY DEF Pairs
  <2> DEFINE j == IF Inferred(p[1], p[2]) THEN <<p[1], "chat">> ELSE <<p[1], p[2]>>
  <2>2. j \in AllJobs
    BY <2>1, JobOf DEF models, Jobs
  <2> HIDE DEF j
  <2>3. probe[j].outcome \in Result
    BY <2>2 DEF ProbeTypeOK
  <2>4. OutcomeOf(p[1], p[2]) = [model |-> p[1], function |-> p[2], result |-> probe[j].outcome]
    BY DEF OutcomeOf, Outcome, j
  <2> QED BY <2>1, <2>3, <2>4
<1>4. ASSUME NEW m \in models, NEW f \in Functions[m]
      PROVE  <<m, f>> \in Pairs(models) /\ of(m, f) = {OutcomeOf(m, f)}
  <2> DEFINE p == <<m, f>>
  <2>1. p \in Pairs(models) /\ p[1] = m /\ p[2] = f
    BY DEF Pairs
  <2> HIDE DEF p
  <2>2. OutcomeOf(m, f) \in of(m, f)
    BY <1>2, <1>3, <2>1 DEF of
  <2>3. ASSUME NEW r \in of(m, f) PROVE r = OutcomeOf(m, f)
    BY <1>2, <1>3 DEF of
  <2> QED BY <2>1, <2>2, <2>3 DEF p
<1>5. ASSUME NEW j \in Pairs(models) PROVE Cardinality(of(j[1], j[2])) = 1
  <2>1. of(j[1], j[2]) = {OutcomeOf(j[1], j[2])}
    BY <1>3, <1>4
  <2> QED BY <2>1, FS_Singleton
<1>6. Cardinality(outcomes) = Cardinality(Pairs(models))
  <2> DEFINE g == [p \in Pairs(models) |-> OutcomeOf(p[1], p[2])]
  <2>1. g \in [Pairs(models) -> outcomes] /\ \A r \in outcomes : \E p \in Pairs(models) : g[p] = r
    BY <1>2
  <2>2. ASSUME NEW p \in Pairs(models), NEW q \in Pairs(models), g[p] = g[q] PROVE p = q
    <3>1. g[p].model = p[1] /\ g[p].function = p[2] /\ g[q].model = q[1] /\ g[q].function = q[2]
      BY <1>3
    <3>2. p[1] = q[1] /\ p[2] = q[2]
      BY <2>2, <3>1
    <3>3. p = <<p[1], p[2]>> /\ q = <<q[1], q[2]>>
      BY <1>3
    <3> HIDE DEF g
    <3> QED BY <3>2, <3>3
  <2> HIDE DEF g
  <2>3. g \in Bijection(Pairs(models), outcomes)
    BY <2>1, <2>2 DEF Bijection, Injection, Surjection, IsInjective
  <2>4. ExistsBijection(Pairs(models), outcomes)
    BY <2>3 DEF ExistsBijection
  <2> QED BY <2>4, PairsFinite, FS_Bijection DEF models
<1>7. ASSUME NEW m \in models, {"chat", "chat-tools"} \subseteq Functions[m]
      PROVE  {r.result : r \in of(m, "chat")} = {r.result : r \in of(m, "chat-tools")}
  <2>1. of(m, "chat") = {OutcomeOf(m, "chat")} /\ of(m, "chat-tools") = {OutcomeOf(m, "chat-tools")}
    BY <1>4, <1>7
  <2>2. Inferred(m, "chat-tools") /\ ~Inferred(m, "chat")
    BY <1>7 DEF Inferred
  <2>3. OutcomeOf(m, "chat").result = OutcomeOf(m, "chat-tools").result
    BY <2>2 DEF OutcomeOf, Outcome
  <2> QED BY <2>1, <2>3
<1>8. report.listed = report.failed
  <2>1. \A r \in failures : r.result \in Result
    BY <1>2, <1>3 DEF failures, Failures
  <2>2. {r \in failures : Issue(r.result) \in Summarized} = failures
    BY <2>1, IssueSummarized
  <2> QED BY <1>1, <2>2
<1>9. report.okModels = Cardinality(models \ failing)
  <2>1. {m \in models : \A r \in failures : r.model # m} = models \ failing
    BY DEF failing, failures, Failures
  <2> QED BY <1>1, <2>1
<1>10. report.error <=> failing # {} \/ models = {}
  <2>1. failures # {} => failing # {}
    <3>1. ASSUME NEW r \in failures PROVE r.model \in failing
      <4>1. r \in outcomes /\ ~r.result.ok
        BY DEF failures, Failures
      <4>2. r.model \in models
        BY <1>2, <1>3, <4>1
      <4> QED BY <4>1, <4>2 DEF failing
    <3> QED BY <3>1
  <2>2. failing # {} => failures # {}
    BY DEF failing, failures, Failures
  <2> QED BY <1>1, <2>1, <2>2
<1> QED BY <1>1, <1>5, <1>6, <1>7, <1>8, <1>9, <1>10 DEF ReportIsComplete, of, failing

\* However its probes interleave and retry, validate-models (validate_models.go)
\* reports one outcome for every function of every model it checks, classes every
\* failure under an issue it prints, and calls models callable and itself successful
\* only if nothing failed.
THEOREM ReportsAreComplete == ValidationSpec => []ReportIsComplete
<1>1. ValidationInv => ReportIsComplete
  <2>1. ~report.printed => ReportIsComplete
    BY DEF ReportIsComplete
  <2> QED BY <2>1, ReportedIsComplete DEF ValidationInv, ReportStands
<1> QED BY <1>1, ValidationInvariant, PTL

-----------------------------------------------------------------------------
(* The planner.  First what its operators do to the list they are given:   *)
(* which models are in it, that none comes twice, and in what order.       *)

\* Min of a length and the budget.
LEMMA LimitIs ==
  ASSUME NEW s \in Seq(Models)
  PROVE  LET n == IF Len(s) <= MaxAttempts THEN Len(s) ELSE MaxAttempts
         IN /\ Limit(s) = SubSeq(s, 1, n) /\ n \in 0..Len(s)
            /\ Limit(s) \in Seq(Models) /\ Len(Limit(s)) = n
            /\ ToSet(Limit(s)) = {s[i] : i \in 1..n}
            /\ IsInjective(s) => IsInjective(Limit(s))
            /\ s # <<>> => Limit(s) # <<>>
<1> DEFINE n == IF Len(s) <= MaxAttempts THEN Len(s) ELSE MaxAttempts
<1>1. Len(s) \in Nat /\ MaxAttempts \in Nat \ {0}
  BY ListIs, PlannerAssumption
<1>2. Min({Len(s), MaxAttempts}) = n
  <2>1. n \in {Len(s), MaxAttempts} /\ \A y \in {Len(s), MaxAttempts} : n <= y
    BY <1>1
  <2>2. \A x \in {Len(s), MaxAttempts} :
          (\A y \in {Len(s), MaxAttempts} : x <= y) => x = n
    BY <1>1
  <2> HIDE DEF n
  <2> QED BY <2>1, <2>2 DEF Min
<1>3. n \in 0..Len(s) /\ 1 \in 1..(Len(s) + 1)
  BY <1>1
<1>4. Limit(s) = SubSeq(s, 1, n)
  BY <1>2 DEF Limit
<1> HIDE DEF n
<1>5. LET p == SubSeq(s, 1, n)
      IN /\ p \in Seq(Models)
         /\ Len(p) = IF 1 <= n THEN n - 1 + 1 ELSE 0
         /\ ToSet(p) = {s[i] : i \in 1..n}
         /\ IsInjective(s) => IsInjective(p)
  BY <1>3, PartSet
<1>6. Len(Limit(s)) = n
  BY <1>3, <1>4, <1>5
<1>7. ASSUME s # <<>> PROVE Limit(s) # <<>>
  <2>1. Len(s) # 0
    BY <1>7
  <2>2. n # 0
    BY <1>1, <2>1 DEF n
  <2>3. Len(Limit(s)) # 0
    BY <1>6, <2>2
  <2> QED BY <2>3
<1> QED BY <1>3, <1>4, <1>5, <1>6, <1>7 DEF n

LEMMA RotateSet ==
  ASSUME NEW s \in Seq(Models), NEW offset \in Nat
  PROVE  /\ Rotate(s, offset) \in Seq(Models)
         /\ ToSet(Rotate(s, offset)) = ToSet(s)
         /\ IsInjective(s) => IsInjective(Rotate(s, offset))
<1>1. Len(s) \in Nat
  BY ListIs
<1>2. CASE Len(s) < 2
  BY <1>2 DEF Rotate
<1>3. CASE ~(Len(s) < 2)
  <2> DEFINE n == Len(s)
             start == offset % n
             p == SubSeq(s, start + 1, n)
             q == SubSeq(s, 1, start)
  <2>1. n \in Nat \ {0} /\ start \in 0..(n - 1)
    BY <1>1, <1>3
  <2>2. Rotate(s, offset) = p \o q
    BY <1>3 DEF Rotate
  <2> HIDE DEF start
  <2>3. p \in Seq(Models) /\ ToSet(p) = {s[i] : i \in (start + 1)..n} /\ (IsInjective(s) => IsInjective(p))
    <3>1. start + 1 \in 1..(Len(s) + 1) /\ n \in 0..Len(s)
      BY <2>1
    <3> QED BY <3>1, PartSet
  <2>4. q \in Seq(Models) /\ ToSet(q) = {s[i] : i \in 1..start} /\ (IsInjective(s) => IsInjective(q))
    <3>1. 1 \in 1..(Len(s) + 1) /\ start \in 0..Len(s)
      BY <2>1
    <3> QED BY <3>1, PartSet
  <2>5. /\ ToSet(s) = {s[i] : i \in 1..n}
        /\ IsInjective(s) <=> \A i, j \in 1..n : s[i] = s[j] => i = j
    BY ListIs
  <2> HIDE DEF p, q, n
  <2>6. 1..n = (1..start) \cup ((start + 1)..n) /\ (1..start) \cap ((start + 1)..n) = {}
    BY <2>1
  <2>7. ToSet(p) \cup ToSet(q) = ToSet(s)
    <3> HIDE <2>1
    <3> QED BY ONLY <2>3, <2>4, <2>5, <2>6
  <2>8. ASSUME IsInjective(s) PROVE ToSet(p) \cap ToSet(q) = {}
    <3>1. \A i \in (start + 1)..n, j \in 1..start : s[i] # s[j]
      BY <2>1, <2>5, <2>8
    <3> QED BY <2>3, <2>4, <3>1
  <2>9. /\ p \o q \in Seq(Models) /\ ToSet(p \o q) = ToSet(p) \cup ToSet(q)
        /\ IsInjective(p) /\ IsInjective(q) /\ ToSet(p) \cap ToSet(q) = {} => IsInjective(p \o q)
    <3>1. p \in Seq(Models) /\ q \in Seq(Models)
      BY <2>3, <2>4
    <3> QED BY ONLY <3>1, ConcatSet
  <2> QED BY <2>2, <2>3, <2>4, <2>7, <2>8, <2>9
<1> QED BY <1>2, <1>3

-----------------------------------------------------------------------------

\* No later score is higher.
Falling(s) == \A i, j \in 1..Len(s) : i < j => Score[s[j]] <= Score[s[i]]

LEMMA BeforeScores ==
  ASSUME NEW m \in Models, NEW x \in Models
  PROVE  /\ Score[m] \in Nat /\ Score[x] \in Nat
         /\ Before(m, x) => Score[x] <= Score[m]
         /\ ~Before(m, x) => Score[m] <= Score[x]
BY PlannerAssumption DEF Before

\* One step of the sort.
LEMMA InsertStep ==
  ASSUME NEW s \in Seq(Models), NEW m \in Models
  PROVE  /\ Insert(s, m) \in Seq(Models)
         /\ ToSet(Insert(s, m)) = ToSet(s) \cup {m}
         /\ IsInjective(s) /\ m \notin ToSet(s) => IsInjective(Insert(s, m))
         /\ Falling(s) => Falling(Insert(s, m))
<1> DEFINE B == {0} \cup {i \in 1..Len(s) : ~Before(m, s[i])}
           k == Max(B)
           u == Insert(s, m)
<1>1. Len(s) \in Nat /\ \A i \in 1..Len(s) : s[i] \in Models
  BY LenProperties
<1>2. k \in B /\ \A y \in B : y <= k
  <2>1. B \in SUBSET (0..Len(s)) /\ B # {}
    BY <1>1
  <2> HIDE DEF B
  <2> QED BY <1>1, <2>1, GreatestNumber
<1>3. /\ k \in 0..Len(s)
      /\ k # 0 => ~Before(m, s[k])
      /\ \A i \in 1..Len(s) : i > k => Before(m, s[i])
  <2>1. k \in 0..Len(s) /\ (k # 0 => ~Before(m, s[k]))
    BY <1>1, <1>2
  <2>2. \A i \in 1..Len(s) : ~Before(m, s[i]) => i \in B
    OBVIOUS
  <2> HIDE DEF k, B
  <2>3. \A i \in 1..Len(s) : i > k => i \notin B
    BY <1>2, <2>1
  <2> QED BY <2>1, <2>2, <2>3
<1>4. u = InsertAt(s, k + 1, m)
  BY DEF Insert
<1> HIDE DEF k
<1>5. LET v == InsertAt(s, k + 1, m)
      IN /\ v \in Seq(Models) /\ Len(v) = Len(s) + 1
         /\ \A i \in 1..Len(v) : v[i] = IF i <= k THEN s[i] ELSE IF i = k + 1 THEN m ELSE s[i - 1]
         /\ ToSet(v) = ToSet(s) \cup {m}
         /\ IsInjective(s) /\ m \notin ToSet(s) => IsInjective(v)
  BY <1>3, InsertedSet
<1> HIDE DEF u
<1>6. /\ Len(u) = Len(s) + 1
      /\ \A i \in 1..Len(u) : u[i] = IF i <= k THEN s[i] ELSE IF i = k + 1 THEN m ELSE s[i - 1]
  BY <1>4, <1>5
<1>7. ASSUME Falling(s) PROVE Falling(u)
  <2>1. \A i \in 1..Len(s) : i <= k => Score[m] <= Score[s[i]]
    <3> SUFFICES ASSUME NEW i \in 1..Len(s), i <= k PROVE Score[m] <= Score[s[i]]
      OBVIOUS
    <3>1. k \in 1..Len(s) /\ ~Before(m, s[k]) /\ s[k] \in Models /\ s[i] \in Models
      BY <1>1, <1>3
    <3>2. Score[m] <= Score[s[k]] /\ Score[m] \in Nat /\ Score[s[k]] \in Nat /\ Score[s[i]] \in Nat
      BY <3>1, BeforeScores
    <3>3. Score[s[k]] <= Score[s[i]]
      <4>1. CASE i = k
        BY <3>2, <4>1
      <4>2. CASE i # k
        <5>1. i < k
          BY <3>1, <4>2
        <5> QED BY <1>7, <3>1, <5>1 DEF Falling
      <4> QED BY <4>1, <4>2
    <3> QED BY <3>2, <3>3
  <2>2. \A i \in 1..Len(s) : i > k => Score[s[i]] <= Score[m]
    BY <1>1, <1>3, BeforeScores
  <2>3. \A i \in 1..Len(s) : Score[s[i]] \in Nat
    BY <1>1, BeforeScores
  <2>4. ASSUME NEW i \in 1..Len(u), NEW j \in 1..Len(u), i < j
        PROVE  Score[u[j]] <= Score[u[i]]
    <3>1. CASE j <= k
      <4>1. i \in 1..Len(s) /\ j \in 1..Len(s) /\ u[i] = s[i] /\ u[j] = s[j]
        BY <1>1, <1>3, <1>6, <2>4, <3>1
      <4> QED BY <1>7, <2>4, <4>1 DEF Falling
    <3>2. CASE j = k + 1
      <4>1. i \in 1..Len(s) /\ i <= k /\ u[i] = s[i] /\ u[j] = m
        BY <1>1, <1>3, <1>6, <2>4, <3>2
      <4> QED BY <2>1, <4>1
    <3>3. CASE j > k + 1
      <4>1. j - 1 \in 1..Len(s) /\ j - 1 > k /\ u[j] = s[j - 1]
        BY <1>1, <1>3, <1>6, <3>3
      <4>2. CASE i <= k
        <5>1. i \in 1..Len(s) /\ i < j - 1 /\ u[i] = s[i]
          BY <1>1, <1>3, <1>6, <3>3, <4>2
        <5> QED BY <1>7, <4>1, <5>1 DEF Falling
      <4>3. CASE i = k + 1
        <5>1. u[i] = m
          BY <1>3, <1>6, <4>3
        <5> QED BY <2>2, <4>1, <5>1
      <4>4. CASE i > k + 1
        <5>1. i - 1 \in 1..Len(s) /\ i - 1 < j - 1 /\ u[i] = s[i - 1]
          BY <1>1, <1>3, <1>6, <2>4, <4>4
        <5> QED BY <1>7, <4>1, <5>1 DEF Falling
      <4> QED BY <1>3, <4>2, <4>3, <4>4
    <3> QED BY <1>1, <1>3, <1>6, <3>1, <3>2, <3>3
  <2> QED BY <2>4 DEF Falling
<1> QED BY <1>4, <1>5, <1>7 DEF u

\* The function within Sorted.
SortedPrefix(s) ==
  CHOOSE sorted : sorted = [i \in 0..Len(s) |->
    IF i = 0 THEN <<>> ELSE Insert(sorted[i - 1], s[i])]

LEMMA SortedSteps ==
  ASSUME NEW s \in Seq(Models)
  PROVE  LET f == SortedPrefix(s)
         IN f[0] = <<>> /\ \A i \in 1..Len(s) : f[i] = Insert(f[i - 1], s[i])
<1> DEFINE n == Len(s)
           Body(f) == [i \in 0..n |-> IF i = 0 THEN <<>> ELSE Insert(f[i - 1], s[i])]
           step == [i \in 1..n |-> [k \in Seq(Models) |-> Insert(k, s[i])]]
<1>1. n \in Nat /\ \A i \in 1..n : s[i] \in Models
  BY LenProperties
<1>2. step \in [1..n -> [Seq(Models) -> Seq(Models)]]
  <2>1. ASSUME NEW i \in 1..n, NEW k \in Seq(Models) PROVE Insert(k, s[i]) \in Seq(Models)
    BY <1>1, InsertStep
  <2> HIDE DEF n
  <2> QED BY <2>1
<1>3. PICK f : LoopRun(f, Seq(Models), <<>>, n, step)
  <2>1. n \in Nat /\ <<>> \in Seq(Models)
    BY <1>1
  <2> HIDE DEF n, step
  <2>2. \E f : LoopRun(f, Seq(Models), <<>>, n, step)
    BY <1>2, <2>1, HasRun
  <2> QED BY <2>2
<1>4. f \in [0..n -> Seq(Models)] /\ f[0] = <<>>
  BY <1>3 DEF LoopRun
<1>5. ASSUME NEW i \in 1..n PROVE f[i] = Insert(f[i - 1], s[i])
  <2>1. i - 1 \in 0..n
    BY <1>1
  <2>2. f[i - 1] \in Seq(Models)
    BY <1>4, <2>1
  <2>3. f[i] = step[i][f[i - 1]]
    <3> HIDE DEF step
    <3> QED BY <1>3 DEF LoopRun
  <2> QED BY <2>2, <2>3
<1>6. f = Body(f)
  <2>1. ASSUME NEW i \in 0..n PROVE f[i] = Body(f)[i]
    <3>1. CASE i = 0
      BY <1>4, <3>1
    <3>2. CASE i # 0
      <4>1. i \in 1..n
        BY <1>1, <3>2
      <4>2. f[i] = Insert(f[i - 1], s[i])
        BY <1>5, <4>1
      <4> QED BY <3>2, <4>2
    <3> QED BY <3>1, <3>2
  <2> HIDE DEF n
  <2> QED BY <1>4, <2>1
<1> DEFINE g == SortedPrefix(s)
<1>7. g = Body(g)
  BY <1>6 DEF SortedPrefix
<1>8. g[0] = <<>> /\ \A i \in 1..n : g[i] = Insert(g[i - 1], s[i])
  <2> HIDE DEF g, n
  <2>1. \A i \in 0..n : g[i] = Body(g)[i]
    BY <1>7
  <2>2. 0 \in 0..n /\ \A i \in 1..n : i \in 0..n /\ i # 0
    BY <1>1
  <2> QED BY <2>1, <2>2
<1> QED BY <1>8

LEMMA SortedSet ==
  ASSUME NEW s \in Seq(Models)
  PROVE  /\ Sorted(s) \in Seq(Models)
         /\ ToSet(Sorted(s)) = ToSet(s)
         /\ IsInjective(s) => IsInjective(Sorted(s))
         /\ Falling(Sorted(s))
<1> DEFINE n == Len(s)
           f == SortedPrefix(s)
           Sort(k, m) == /\ k \in Seq(Models)
                         /\ ToSet(k) = {s[i] : i \in 1..m}
                         /\ IsInjective(s) => IsInjective(k)
                         /\ Falling(k)
           T == {m \in 0..n : Sort(f[m], m)}
<1>1. /\ n \in Nat /\ \A i \in 1..n : s[i] \in Models
      /\ ToSet(s) = {s[i] : i \in 1..n}
      /\ IsInjective(s) <=> \A i, j \in 1..n : s[i] = s[j] => i = j
  BY LenProperties, ListIs
<1>2. f[0] = <<>> /\ \A i \in 1..n : f[i] = Insert(f[i - 1], s[i])
  BY SortedSteps
<1>3. Sorted(s) = f[n]
  BY DEF Sorted, SortedPrefix
<1> HIDE DEF n, f
<1>4. 0 \in T
  <2>1. <<>> \in Seq(Models) /\ ToSet(<<>>) = {} /\ IsInjective(<<>>) /\ Falling(<<>>)
    BY DEF ToSet, IsInjective, Falling
  <2>2. {s[i] : i \in 1..0} = {}
    OBVIOUS
  <2>3. Sort(f[0], 0)
    BY <1>2, <2>1, <2>2
  <2> HIDE DEF Sort
  <2> QED BY <1>1, <2>3
<1>5. ASSUME NEW m \in 1..n, m - 1 \in T PROVE m \in T
  <2> DEFINE k == f[m - 1]
  <2>1. Sort(k, m - 1)
    <3> HIDE DEF Sort
    <3> QED BY <1>5
  <2>2. f[m] = Insert(k, s[m]) /\ s[m] \in Models
    BY <1>1, <1>2
  <2> HIDE DEF k
  <2>3. k \in Seq(Models)
    BY <2>1
  <2>4. /\ Insert(k, s[m]) \in Seq(Models)
        /\ ToSet(Insert(k, s[m])) = ToSet(k) \cup {s[m]}
        /\ IsInjective(k) /\ s[m] \notin ToSet(k) => IsInjective(Insert(k, s[m]))
        /\ Falling(k) => Falling(Insert(k, s[m]))
    BY ONLY <2>2, <2>3, InsertStep
  <2>5. {s[i] : i \in 1..m} = {s[i] : i \in 1..(m - 1)} \cup {s[m]}
    <3>1. 1..m = 1..(m - 1) \cup {m}
      BY <1>1
    <3> QED BY <3>1
  <2>6. ASSUME IsInjective(s) PROVE s[m] \notin ToSet(k)
    <3>1. \A i \in 1..(m - 1) : s[i] # s[m]
      <4>1. \A i \in 1..(m - 1) : i \in 1..n /\ i # m
        BY <1>1
      <4> QED BY <1>1, <2>6, <4>1
    <3> QED BY <2>1, <3>1
  <2>7. Sort(f[m], m)
    BY <2>1, <2>2, <2>4, <2>5, <2>6
  <2> HIDE DEF Sort
  <2> QED BY <1>1, <2>7
<1>6. Sort(f[n], n)
  <2> HIDE DEF T
  <2>1. \A m \in 0..n : m \in T
    BY <1>1, <1>4, <1>5, StepInduction
  <2>2. n \in T
    BY <1>1, <2>1
  <2> HIDE DEF Sort
  <2> QED BY <2>2 DEF T
<1> QED BY <1>1, <1>3, <1>6

\* The models with a score before those without one.
LEMMA SortByQualitySet ==
  ASSUME NEW s \in Seq(Models)
  PROVE  /\ SortByQuality(s) \in Seq(Models)
         /\ ToSet(SortByQuality(s)) = ToSet(s)
         /\ IsInjective(s) => IsInjective(SortByQuality(s))
         /\ Falling(SortByQuality(s))
<1> DEFINE P == {m \in Models : Score[m] > 0}
           Z == {m \in Models : Score[m] = 0}
           k == Kept(s, P)
           p == Sorted(k)
           q == Kept(s, Z)
           u == p \o q
<1>1. Models = P \cup Z /\ P \cap Z = {}
  <2>1. \A m \in Models : Score[m] > 0 \/ Score[m] = 0
    BY PlannerAssumption
  <2> QED BY <2>1
<1>2. k \in Seq(Models) /\ ToSet(k) = ToSet(s) \cap P /\ (IsInjective(s) => IsInjective(k))
  <2> HIDE DEF P
  <2> QED BY KeptSet
<1>3. q \in Seq(Models) /\ ToSet(q) = ToSet(s) \cap Z /\ (IsInjective(s) => IsInjective(q))
  <2> HIDE DEF Z
  <2> QED BY KeptSet
<1>4. SortByQuality(s) = u
  BY DEF SortByQuality
<1>5. ToSet(s) \subseteq Models
  BY ListIs
<1> HIDE DEF k, q
<1>6. /\ p \in Seq(Models) /\ ToSet(p) = ToSet(k)
      /\ (IsInjective(k) => IsInjective(p)) /\ Falling(p)
  BY <1>2, SortedSet
<1> HIDE DEF p
<1>7. /\ u \in Seq(Models) /\ ToSet(u) = ToSet(p) \cup ToSet(q)
      /\ IsInjective(p) /\ IsInjective(q) /\ ToSet(p) \cap ToSet(q) = {} => IsInjective(u)
  <2>1. p \in Seq(Models) /\ q \in Seq(Models)
    BY <1>3, <1>6
  <2> QED BY ONLY <2>1, ConcatSet DEF u
<1>8. /\ Len(u) = Len(p) + Len(q) /\ Len(p) \in Nat /\ Len(q) \in Nat
      /\ \A i \in 1..Len(u) : u[i] = IF i <= Len(p) THEN p[i] ELSE q[i - Len(p)]
  <2>1. p \in Seq(Models) /\ q \in Seq(Models)
    BY <1>3, <1>6
  <2> QED BY ONLY <2>1, ConcatProperties, LenProperties DEF u
<1> HIDE DEF u
<1>9. /\ \A i \in 1..Len(p) : Score[p[i]] \in Nat
      /\ \A i \in 1..Len(q) : Score[q[i]] = 0
  <2>1. /\ \A i \in 1..Len(p) : p[i] \in ToSet(p) /\ p[i] \in Models
        /\ \A i \in 1..Len(q) : q[i] \in ToSet(q)
    BY <1>3, <1>6, ListIs
  <2>2. \A m \in Models : Score[m] \in Nat
    BY PlannerAssumption
  <2> QED BY <1>3, <2>1, <2>2
<1>10. Falling(u)
  <2>1. ASSUME NEW i \in 1..Len(u), NEW j \in 1..Len(u), i < j
        PROVE  Score[u[j]] <= Score[u[i]]
    <3>1. CASE j <= Len(p)
      <4>1. i \in 1..Len(p) /\ j \in 1..Len(p) /\ u[i] = p[i] /\ u[j] = p[j]
        BY <1>8, <2>1, <3>1
      <4> QED BY <1>6, <2>1, <4>1 DEF Falling
    <3>2. CASE ~(j <= Len(p))
      <4>1. j - Len(p) \in 1..Len(q) /\ u[j] = q[j - Len(p)]
        BY <1>8, <3>2
      <4>2. Score[u[j]] = 0
        BY <1>9, <4>1
      <4>3. CASE i <= Len(p)
        <5>1. i \in 1..Len(p) /\ u[i] = p[i]
          BY <1>8, <4>3
        <5>2. Score[u[i]] \in Nat
          BY <1>9, <5>1
        <5> QED BY <4>2, <5>2
      <4>4. CASE ~(i <= Len(p))
        <5>1. i - Len(p) \in 1..Len(q) /\ u[i] = q[i - Len(p)]
          BY <1>8, <4>4
        <5>2. Score[u[i]] = 0
          BY <1>9, <5>1
        <5> QED BY <4>2, <5>2
      <4> QED BY <4>3, <4>4
    <3> QED BY <3>1, <3>2
  <2> QED BY <2>1 DEF Falling
<1>11. ToSet(u) = ToSet(s) /\ ToSet(p) \cap ToSet(q) = {}
  <2> HIDE DEF P, Z
  <2> QED BY <1>1, <1>2, <1>3, <1>5, <1>6, <1>7
<1> QED BY <1>2, <1>3, <1>4, <1>6, <1>7, <1>10, <1>11

LEMMA OrderSet ==
  ASSUME NEW s \in Seq(Models), NEW route
  PROVE  LET o == OrderByStrategy(route, s)
         IN /\ o \in Seq(Models) /\ ToSet(o) = ToSet(s) /\ (IsInjective(s) => IsInjective(o))
            /\ route.strategy = "best-quality" => Falling(o)
BY SortByQualitySet DEF OrderByStrategy
-----------------------------------------------------------------------------
(* The rounds over the groups.                                             *)

\* Whose turn it is at this offset, and which of a group's models at this round.
Turn(seed, x, n) == (((seed + x) % SeedSpan) % n) + 1

LEMMA SpanPositive ==
  SeedSpan \in Nat \ {0} /\ Len(Catalog) \in Nat /\ NextPeriod + Len(Catalog) <= SeedSpan
<1>1. Len(Catalog) \in Nat
  BY PlannerAssumption, LenProperties
<1> QED BY <1>1, PlannerAssumption

LEMMA TurnType ==
  ASSUME NEW seed \in Nat, NEW x \in Nat, NEW n \in Nat \ {0}
  PROVE  Turn(seed, x, n) \in 1..n
<1> DEFINE a == (seed + x) % SeedSpan
<1>1. a \in Nat
  BY SpanPositive
<1> HIDE DEF a
<1>2. a % n \in 0..(n - 1)
  BY <1>1
<1> QED BY <1>2 DEF Turn, a

\* As long as the sums stay below the span, every place has its turn, once.
LEMMA TurnsClear ==
  ASSUME NEW seed \in Nat, NEW n \in Nat \ {0}, seed + n <= SeedSpan
  PROVE  /\ \A x, y \in 0..(n - 1) : Turn(seed, x, n) = Turn(seed, y, n) => x = y
         /\ \A h \in 1..n : \E x \in 0..(n - 1) : Turn(seed, x, n) = h
<1>1. ASSUME NEW x \in 0..(n - 1) PROVE Turn(seed, x, n) = ((seed + x) % n) + 1
  <2>1. seed + x \in 0..(SeedSpan - 1)
    BY SpanPositive
  <2>2. (seed + x) % SeedSpan = seed + x
    BY <2>1, SpanPositive
  <2> QED BY <2>2 DEF Turn
<1>2. /\ \A x \in 0..(n - 1) : (seed + x) % n \in 0..(n - 1)
      /\ \A x, y \in 0..(n - 1) : (seed + x) % n = (seed + y) % n => x = y
      /\ \A k \in 0..(n - 1) : \E x \in 0..(n - 1) : (seed + x) % n = k
  BY Turns
<1> DEFINE at(x) == (seed + x) % n
<1>3. /\ \A x \in 0..(n - 1) : at(x) \in 0..(n - 1)
      /\ \A x, y \in 0..(n - 1) : at(x) = at(y) => x = y
      /\ \A k \in 0..(n - 1) : \E x \in 0..(n - 1) : at(x) = k
  BY <1>2
<1>4. \A x \in 0..(n - 1) : Turn(seed, x, n) = at(x) + 1
  BY <1>1
<1> HIDE DEF at
<1>5. \A x, y \in 0..(n - 1) : Turn(seed, x, n) = Turn(seed, y, n) => x = y
  BY <1>3, <1>4
<1>6. ASSUME NEW h \in 1..n PROVE \E x \in 0..(n - 1) : Turn(seed, x, n) = h
  <2>1. h - 1 \in 0..(n - 1)
    OBVIOUS
  <2>2. PICK x \in 0..(n - 1) : at(x) = h - 1
    BY <1>3, <2>1
  <2>3. Turn(seed, x, n) = h
    BY <1>4, <2>2
  <2> QED BY <2>3
<1> QED BY <1>5, <1>6

LEMMA PickIs ==
  ASSUME NEW groups \in Seq(Seq(Models)), groups # <<>>,
         NEW seed \in Nat, NEW round \in Nat, NEW offset \in Nat
  PROVE  LET h == Turn(seed, offset, Len(groups))
             models == groups[h]
             at == Turn(seed, round, Len(models))
             pick == Pick(groups, seed, round, offset)
         IN /\ h \in 1..Len(groups) /\ models \in Seq(Models)
            /\ round < Len(models) => at \in 1..Len(models)
            /\ pick \in Seq(Models) /\ IsInjective(pick)
            /\ ToSet(pick) = IF round < Len(models) THEN {models[at]} ELSE {}
<1> DEFINE h == Turn(seed, offset, Len(groups))
           models == groups[h]
           at == Turn(seed, round, Len(models))
           pick == Pick(groups, seed, round, offset)
<1>1. Len(groups) \in Nat \ {0} /\ \A i \in 1..Len(groups) : groups[i] \in Seq(Models)
  <2>1. Len(groups) # 0
    OBVIOUS
  <2> QED BY <2>1, LenProperties
<1>2. h \in 1..Len(groups)
  BY <1>1, TurnType
<1>3. pick = IF round < Len(models) THEN <<models[at]>> ELSE <<>>
  BY DEF Pick, Turn
<1> HIDE DEF h, pick
<1>4. models \in Seq(Models)
  BY <1>1, <1>2
<1> HIDE DEF models
<1>5. Len(models) \in Nat /\ \A i \in 1..Len(models) : models[i] \in Models
  BY <1>4, LenProperties
<1>6. ASSUME round < Len(models) PROVE at \in 1..Len(models)
  <2>1. Len(models) \in Nat \ {0}
    BY <1>5, <1>6
  <2> QED BY <2>1, TurnType
<1> HIDE DEF at
<1>7. CASE round < Len(models)
  <2> DEFINE m == models[at]
  <2>1. pick = <<m>> /\ m \in Models
    BY <1>3, <1>5, <1>6, <1>7
  <2> HIDE DEF m
  <2>2. <<m>> \in Seq(Models) /\ ToSet(<<m>>) = {m} /\ IsInjective(<<m>>)
    BY <2>1 DEF ToSet, IsInjective
  <2> QED BY <1>2, <1>4, <1>6, <1>7, <2>1, <2>2 DEF h, models, at, pick, m
<1>8. CASE ~(round < Len(models))
  <2>1. pick = <<>> /\ <<>> \in Seq(Models) /\ ToSet(<<>>) = {} /\ IsInjective(<<>>)
    BY <1>3, <1>8 DEF ToSet, IsInjective
  <2> QED BY <1>2, <1>4, <1>6, <1>8, <2>1 DEF h, models, at, pick
<1> QED BY <1>7, <1>8

\* What the groups give in one round, and the rounds.
Picks(groups, seed, round) == [j \in 1..Len(groups) |-> Pick(groups, seed, round, j - 1)]

LastRound(groups) == Max({Len(groups[j]) : j \in 1..Len(groups)})

RoundLists(groups, seed) ==
  [i \in 1..LastRound(groups) |-> FlattenSeq(Picks(groups, seed, i - 1))]

LEMMA PicksAre ==
  ASSUME NEW groups \in Seq(Seq(Models)), groups # <<>>, NEW seed \in Nat, NEW round \in Nat
  PROVE  LET picks == Picks(groups, seed, round)
         IN /\ picks \in Seq(Seq(Models)) /\ Len(picks) = Len(groups)
            /\ \A j \in 1..Len(groups) : /\ picks[j] = Pick(groups, seed, round, j - 1)
                                         /\ IsInjective(picks[j])
            /\ FlattenSeq(picks) \in Seq(Models)
            /\ ToSet(FlattenSeq(picks)) = UNION {ToSet(picks[j]) : j \in 1..Len(groups)}
<1> DEFINE picks == Picks(groups, seed, round)
           n == Len(groups)
<1>1. n \in Nat
  BY LenProperties
<1>2. ASSUME NEW j \in 1..n
      PROVE  Pick(groups, seed, round, j - 1) \in Seq(Models) /\ IsInjective(Pick(groups, seed, round, j - 1))
  <2>1. j - 1 \in Nat
    BY <1>1
  <2> QED BY <2>1, PickIs
<1>3. picks \in [1..n -> Seq(Models)] /\ \A j \in 1..n : picks[j] = Pick(groups, seed, round, j - 1)
  BY <1>2 DEF Picks
<1> HIDE DEF picks
<1>4. picks \in Seq(Seq(Models)) /\ Len(picks) = n
  <2> HIDE DEF n
  <2> QED BY <1>1, <1>3, FunctionIsList
<1>5. /\ FlattenSeq(picks) \in Seq(Models)
      /\ ToSet(FlattenSeq(picks)) = UNION {ToSet(picks[j]) : j \in 1..Len(picks)}
  BY <1>4, FlatMembers
<1>6. \A j \in 1..n : picks[j] = Pick(groups, seed, round, j - 1) /\ IsInjective(picks[j])
  BY <1>2, <1>3
<1> QED BY <1>4, <1>5, <1>6 DEF picks, n

LEMMA RoundsAre ==
  ASSUME NEW groups \in Seq(Seq(Models)), groups # <<>>, NEW seed \in Nat
  PROVE  LET lists == RoundLists(groups, seed)
             last == LastRound(groups)
         IN /\ last \in Nat /\ \A h \in 1..Len(groups) : Len(groups[h]) <= last
            /\ lists \in Seq(Seq(Models)) /\ Len(lists) = last
            /\ \A i \in 1..last : lists[i] = FlattenSeq(Picks(groups, seed, i - 1))
            /\ Rounds(groups, seed) = FlattenSeq(lists)
            /\ Rounds(groups, seed) \in Seq(Models)
            /\ ToSet(Rounds(groups, seed)) = UNION {ToSet(lists[i]) : i \in 1..last}
<1> DEFINE lists == RoundLists(groups, seed)
           last == LastRound(groups)
<1>1. last \in Nat /\ \A h \in 1..Len(groups) : Len(groups[h]) <= last
  BY Longest DEF LastRound
<1>2. Rounds(groups, seed) = FlattenSeq(lists)
  BY DEF Rounds, RoundLists, Picks, LastRound
<1> HIDE DEF last
<1>3. ASSUME NEW i \in 1..last PROVE FlattenSeq(Picks(groups, seed, i - 1)) \in Seq(Models)
  <2>1. i - 1 \in Nat
    BY <1>1
  <2> QED BY <2>1, PicksAre
<1>4. /\ lists \in [1..last -> Seq(Models)]
      /\ \A i \in 1..last : lists[i] = FlattenSeq(Picks(groups, seed, i - 1))
  BY <1>3 DEF RoundLists, last
<1> HIDE DEF lists
<1>5. lists \in Seq(Seq(Models)) /\ Len(lists) = last
  BY <1>1, <1>4, FunctionIsList
<1>6. /\ FlattenSeq(lists) \in Seq(Models)
      /\ ToSet(FlattenSeq(lists)) = UNION {ToSet(lists[i]) : i \in 1..Len(lists)}
  BY <1>5, FlatMembers
<1> QED BY <1>1, <1>2, <1>4, <1>5, <1>6 DEF lists, last

\* The groups are short, share no model, and none lists a model twice.
Apart(groups, n) ==
  /\ groups \in Seq(Seq(Models)) /\ groups # <<>> /\ Len(groups) <= n
  /\ \A h \in 1..Len(groups) : Len(groups[h]) <= n /\ IsInjective(groups[h])
  /\ \A h, i \in 1..Len(groups) : h # i => ToSet(groups[h]) \cap ToSet(groups[i]) = {}

\* m is what the group of this offset has its turn for in this round.
GivenAt(groups, seed, round, offset, m) ==
  LET h == Turn(seed, offset, Len(groups))
  IN /\ round < Len(groups[h])
     /\ m = groups[h][Turn(seed, round, Len(groups[h]))]

LEMMA PickGives ==
  ASSUME NEW groups \in Seq(Seq(Models)), groups # <<>>, NEW seed \in Nat,
         NEW round \in Nat, NEW offset \in Nat, NEW m
  PROVE  m \in ToSet(Pick(groups, seed, round, offset)) <=> GivenAt(groups, seed, round, offset, m)
<1> DEFINE h == Turn(seed, offset, Len(groups))
<1>1. ToSet(Pick(groups, seed, round, offset))
        = IF round < Len(groups[h]) THEN {groups[h][Turn(seed, round, Len(groups[h]))]} ELSE {}
  BY PickIs
<1> HIDE DEF h
<1>2. m \in ToSet(Pick(groups, seed, round, offset))
        <=> round < Len(groups[h]) /\ m = groups[h][Turn(seed, round, Len(groups[h]))]
  BY <1>1
<1> QED BY <1>2 DEF GivenAt, h

\* A model is given at one offset of one round at most.
LEMMA GivenOnce ==
  ASSUME NEW groups, NEW n \in Nat, Apart(groups, n), NEW seed \in Nat, seed + n <= SeedSpan,
         NEW m, NEW round \in Nat, NEW later \in Nat,
         NEW x \in 0..(Len(groups) - 1), NEW y \in 0..(Len(groups) - 1),
         GivenAt(groups, seed, round, x, m), GivenAt(groups, seed, later, y, m)
  PROVE  x = y /\ round = later
<1> DEFINE g == Len(groups)
           h == Turn(seed, x, g)
           i == Turn(seed, y, g)
<1>1. g \in Nat \ {0} /\ g <= n /\ \A k \in 1..g : groups[k] \in Seq(Models)
  <2>1. groups \in Seq(Seq(Models)) /\ groups # <<>> /\ g <= n
    BY DEF Apart
  <2>2. g # 0
    BY <2>1
  <2> QED BY <2>1, <2>2, LenProperties
<1>2. h \in 1..g /\ i \in 1..g
  <2>1. x \in Nat /\ y \in Nat
    BY <1>1
  <2> QED BY <1>1, <2>1, TurnType
<1>3. /\ round < Len(groups[h]) /\ m = groups[h][Turn(seed, round, Len(groups[h]))]
      /\ later < Len(groups[i]) /\ m = groups[i][Turn(seed, later, Len(groups[i]))]
  BY DEF GivenAt
<1> HIDE DEF h, i, g
<1>4. ASSUME NEW k \in 1..g, NEW r \in Nat, r < Len(groups[k])
      PROVE  /\ Len(groups[k]) \in Nat \ {0}
             /\ Turn(seed, r, Len(groups[k])) \in 1..Len(groups[k])
             /\ groups[k][Turn(seed, r, Len(groups[k]))] \in ToSet(groups[k])
  <2>1. groups[k] \in Seq(Models)
    BY <1>1
  <2>2. Len(groups[k]) \in Nat \ {0}
    BY <1>4, <2>1, ListIs
  <2>3. Turn(seed, r, Len(groups[k])) \in 1..Len(groups[k])
    BY <2>2, TurnType
  <2> QED BY <2>1, <2>2, <2>3, ListIs
<1>5. h = i
  <2>1. m \in ToSet(groups[h]) /\ m \in ToSet(groups[i])
    BY <1>2, <1>3, <1>4
  <2> QED BY <1>2, <2>1 DEF Apart, g
<1>6. x = y
  <2>1. seed + g <= SeedSpan
    BY <1>1, SpanPositive
  <2>2. \A a, b \in 0..(g - 1) : Turn(seed, a, g) = Turn(seed, b, g) => a = b
    BY <1>1, <2>1, TurnsClear
  <2>3. x \in 0..(g - 1) /\ y \in 0..(g - 1)
    BY DEF g
  <2> QED BY <1>5, <2>2, <2>3 DEF h, i
<1>7. round = later
  <2> DEFINE s == groups[h]
             k == Len(s)
  <2>1. s \in Seq(Models) /\ k \in Nat \ {0}
    BY <1>1, <1>2, <1>3, <1>4
  <2>2. k <= n /\ IsInjective(s)
    BY <1>2 DEF Apart, g
  <2>3. /\ round < k /\ later < k
        /\ s[Turn(seed, round, k)] = s[Turn(seed, later, k)]
        /\ Turn(seed, round, k) \in 1..k /\ Turn(seed, later, k) \in 1..k
    BY <1>2, <1>3, <1>4, <1>5
  <2> HIDE DEF s
  <2>4. Turn(seed, round, k) = Turn(seed, later, k)
    BY <2>1, <2>2, <2>3, ListIs
  <2> HIDE DEF k
  <2>5. seed + k <= SeedSpan
    BY <2>1, <2>2, SpanPositive
  <2>6. \A a, b \in 0..(k - 1) : Turn(seed, a, k) = Turn(seed, b, k) => a = b
    BY <2>1, <2>5, TurnsClear
  <2>7. round \in 0..(k - 1) /\ later \in 0..(k - 1)
    BY <2>1, <2>3
  <2> QED BY <2>4, <2>6, <2>7
<1> QED BY <1>6, <1>7

\* Whatever the number drawn, the rounds give every model of the groups, once.
LEMMA RoundsCover ==
  ASSUME NEW groups, NEW n \in Nat, Apart(groups, n), NEW seed \in Nat, seed + n <= SeedSpan
  PROVE  /\ Rounds(groups, seed) \in Seq(Models)
         /\ \A h \in 1..Len(groups) : ToSet(groups[h]) \subseteq ToSet(Rounds(groups, seed))
         /\ \A m \in ToSet(Rounds(groups, seed)) : \E h \in 1..Len(groups) : m \in ToSet(groups[h])
         /\ IsInjective(Rounds(groups, seed))
<1> DEFINE g == Len(groups)
           lists == RoundLists(groups, seed)
           last == LastRound(groups)
           picks(r) == Picks(groups, seed, r)
<1>1. /\ groups \in Seq(Seq(Models)) /\ groups # <<>>
      /\ g \in Nat \ {0} /\ g <= n /\ \A k \in 1..g : groups[k] \in Seq(Models)
  <2>1. groups \in Seq(Seq(Models)) /\ groups # <<>> /\ g <= n
    BY DEF Apart
  <2>2. g # 0
    BY <2>1
  <2> QED BY <2>1, <2>2, LenProperties
<1>2. /\ last \in Nat /\ \A h \in 1..g : Len(groups[h]) <= last
      /\ lists \in Seq(Seq(Models)) /\ Len(lists) = last
      /\ \A i \in 1..last : lists[i] = FlattenSeq(picks(i - 1))
      /\ Rounds(groups, seed) = FlattenSeq(lists)
      /\ Rounds(groups, seed) \in Seq(Models)
      /\ ToSet(Rounds(groups, seed)) = UNION {ToSet(lists[i]) : i \in 1..last}
  BY <1>1, RoundsAre
<1>3. ASSUME NEW i \in 1..last
      PROVE  LET ps == picks(i - 1)
             IN /\ ps \in Seq(Seq(Models)) /\ Len(ps) = g
                /\ \A j \in 1..g : ps[j] = Pick(groups, seed, i - 1, j - 1) /\ IsInjective(ps[j])
                /\ lists[i] \in Seq(Models) /\ lists[i] = FlattenSeq(ps)
                /\ ToSet(lists[i]) = UNION {ToSet(ps[j]) : j \in 1..g}
  <2>1. i - 1 \in Nat
    BY <1>2
  <2> HIDE DEF last, lists
  <2>2. lists[i] = FlattenSeq(picks(i - 1))
    BY <1>2
  <2> DEFINE ps == picks(i - 1)
  <2>3. /\ ps \in Seq(Seq(Models)) /\ Len(ps) = g
        /\ \A j \in 1..g : ps[j] = Pick(groups, seed, i - 1, j - 1) /\ IsInjective(ps[j])
        /\ FlattenSeq(ps) \in Seq(Models)
        /\ ToSet(FlattenSeq(ps)) = UNION {ToSet(ps[j]) : j \in 1..g}
    <3> DEFINE r == i - 1
    <3>1. groups \in Seq(Seq(Models)) /\ groups # <<>> /\ r \in Nat
      BY <1>1, <2>1
    <3> HIDE DEF r
    <3>2. LET all == Picks(groups, seed, r)
          IN /\ all \in Seq(Seq(Models)) /\ Len(all) = Len(groups)
             /\ \A j \in 1..Len(groups) : all[j] = Pick(groups, seed, r, j - 1) /\ IsInjective(all[j])
             /\ FlattenSeq(all) \in Seq(Models)
             /\ ToSet(FlattenSeq(all)) = UNION {ToSet(all[j]) : j \in 1..Len(groups)}
      BY <3>1, PicksAre
    <3> QED BY ONLY <3>2 DEF r, ps, picks, g
  <2> HIDE DEF ps
  <2>4. /\ lists[i] = FlattenSeq(ps) /\ lists[i] \in Seq(Models)
        /\ ToSet(lists[i]) = UNION {ToSet(ps[j]) : j \in 1..g}
    BY <2>2, <2>3 DEF ps
  <2> QED BY <2>3, <2>4 DEF ps
<1>0. last \in Nat /\ g \in Nat \ {0}
  BY <1>1, <1>2
<1> HIDE DEF last, lists, picks, g
<1>4. ASSUME NEW i \in 1..last, NEW m
      PROVE  m \in ToSet(lists[i]) <=> \E j \in 1..g : GivenAt(groups, seed, i - 1, j - 1, m)
  <2>1. \A j \in 1..g : m \in ToSet(picks(i - 1)[j]) <=> GivenAt(groups, seed, i - 1, j - 1, m)
    <3> SUFFICES ASSUME NEW j \in 1..g
                 PROVE  m \in ToSet(picks(i - 1)[j]) <=> GivenAt(groups, seed, i - 1, j - 1, m)
      OBVIOUS
    <3>1. i - 1 \in Nat /\ j - 1 \in Nat
      BY <1>1, <1>2
    <3> QED BY <1>1, <1>3, <3>1, PickGives
  <2>2. m \in ToSet(lists[i]) <=> \E j \in 1..g : m \in ToSet(picks(i - 1)[j])
    <3>1. ToSet(lists[i]) = UNION {ToSet(picks(i - 1)[j]) : j \in 1..g}
      BY <1>3
    <3> QED BY ONLY <3>1
  <2> QED BY <2>1, <2>2
<1>5. ASSUME NEW h \in 1..g, NEW m \in ToSet(groups[h])
      PROVE  m \in ToSet(Rounds(groups, seed))
  <2> DEFINE s == groups[h]
             k == Len(s)
  <2>1. s \in Seq(Models) /\ k \in Nat /\ k <= n /\ k <= last
    BY <1>1, <1>2, ListIs DEF Apart, g
  <2>2. PICK p \in 1..k : s[p] = m
    BY <2>1, ListIs
  <2>3. PICK r \in 0..(k - 1) : Turn(seed, r, k) = p
    <3>1. k \in Nat \ {0} /\ seed + k <= SeedSpan
      BY <2>1, <2>2, SpanPositive
    <3> HIDE DEF k
    <3> QED BY <3>1, TurnsClear
  <2>4. PICK x \in 0..(g - 1) : Turn(seed, x, g) = h
    <3>1. seed + g <= SeedSpan
      BY <1>1, SpanPositive
    <3> QED BY <1>1, <3>1, TurnsClear
  <2>5. GivenAt(groups, seed, r, x, m)
    BY <2>1, <2>2, <2>3, <2>4 DEF GivenAt, g
  <2>6. r + 1 \in 1..last /\ x + 1 \in 1..g /\ (r + 1) - 1 = r /\ (x + 1) - 1 = x
    <3>1. k \in Nat /\ k <= last
      BY <2>1
    <3> HIDE DEF k
    <3> QED BY <1>0, <3>1
  <2>7. m \in ToSet(lists[r + 1])
    BY <1>4, <2>5, <2>6
  <2> QED BY <1>2, <2>6, <2>7
<1>6. ASSUME NEW i \in 1..last, NEW j \in 1..last, NEW m,
             m \in ToSet(lists[i]), m \in ToSet(lists[j])
      PROVE  i = j
  <2>1. PICK x \in 1..g : GivenAt(groups, seed, i - 1, x - 1, m)
    BY <1>4, <1>6
  <2>2. PICK y \in 1..g : GivenAt(groups, seed, j - 1, y - 1, m)
    BY <1>4, <1>6
  <2>3. i - 1 \in Nat /\ j - 1 \in Nat /\ x - 1 \in 0..(g - 1) /\ y - 1 \in 0..(g - 1)
    BY <1>0
  <2>4. i - 1 = j - 1
    BY <2>1, <2>2, <2>3, GivenOnce DEF g
  <2> QED BY <1>2, <2>4
<1>7. ASSUME NEW i \in 1..last PROVE IsInjective(lists[i])
  <2>1. ASSUME NEW x \in 1..g, NEW y \in 1..g, x # y
        PROVE  ToSet(picks(i - 1)[x]) \cap ToSet(picks(i - 1)[y]) = {}
    <3> SUFFICES ASSUME NEW m, m \in ToSet(picks(i - 1)[x]), m \in ToSet(picks(i - 1)[y])
                 PROVE  FALSE
      OBVIOUS
    <3>1. i - 1 \in Nat /\ x - 1 \in 0..(g - 1) /\ y - 1 \in 0..(g - 1) /\ x - 1 \in Nat /\ y - 1 \in Nat
      BY <1>0
    <3>2. GivenAt(groups, seed, i - 1, x - 1, m) /\ GivenAt(groups, seed, i - 1, y - 1, m)
      BY <1>1, <1>3, <3>1, PickGives
    <3>3. x - 1 = y - 1
      BY <3>1, <3>2, GivenOnce DEF g
    <3> QED BY <1>1, <2>1, <3>3
  <2> DEFINE ps == picks(i - 1)
  <2>2. /\ ps \in Seq(Seq(Models)) /\ Len(ps) = g /\ lists[i] = FlattenSeq(ps)
        /\ \A j \in 1..g : IsInjective(ps[j])
    BY <1>3
  <2>3. \A x, y \in 1..g : x # y => ToSet(ps[x]) \cap ToSet(ps[y]) = {}
    BY <2>1
  <2> HIDE DEF ps
  <2> QED BY <2>2, <2>3, FlatMembers
<1>8. IsInjective(Rounds(groups, seed))
  <2>1. \A i, j \in 1..last : i # j => ToSet(lists[i]) \cap ToSet(lists[j]) = {}
    BY <1>6
  <2>2. \A i \in 1..last : IsInjective(lists[i])
    BY <1>7
  <2>3. /\ lists \in Seq(Seq(Models)) /\ Len(lists) = last
        /\ Rounds(groups, seed) = FlattenSeq(lists)
    BY <1>2
  <2> QED BY ONLY <2>1, <2>2, <2>3, FlatMembers
<1>9. ASSUME NEW m \in ToSet(Rounds(groups, seed)) PROVE \E h \in 1..g : m \in ToSet(groups[h])
  <2>1. PICK i \in 1..last : m \in ToSet(lists[i])
    <3>1. ToSet(Rounds(groups, seed)) = UNION {ToSet(lists[i]) : i \in 1..last}
      BY <1>2
    <3> QED BY <3>1
  <2>2. PICK j \in 1..g : GivenAt(groups, seed, i - 1, j - 1, m)
    BY <1>4, <2>1
  <2>3. i - 1 \in Nat /\ j - 1 \in Nat
    BY <1>0
  <2> DEFINE h == Turn(seed, j - 1, g)
             k == Len(groups[h])
  <2>4. h \in 1..g
    BY <1>0, <2>3, TurnType
  <2>5. i - 1 < k /\ m = groups[h][Turn(seed, i - 1, k)]
    BY <2>2 DEF GivenAt, g
  <2> HIDE DEF h
  <2>6. groups[h] \in Seq(Models)
    BY <1>1, <2>4
  <2>7. k \in Nat \ {0}
    BY <2>3, <2>5, <2>6, ListIs
  <2>8. Turn(seed, i - 1, k) \in 1..k
    BY <2>3, <2>7, TurnType
  <2>9. m \in ToSet(groups[h])
    BY <2>5, <2>6, <2>8, ListIs
  <2> QED BY <2>4, <2>9
<1> QED BY <1>2, <1>5, <1>8, <1>9 DEF g

-----------------------------------------------------------------------------
(* What the planner finds in a snapshot.                                   *)

\* A model a request for a tool route may try, or is padded with.
LEMMA ConditionSays ==
  ASSUME NEW v \in [Models -> Conditions], NEW m \in Models, NEW route
  PROVE  /\ Available(v, m) => Eligible(v, m, TRUE, FALSE)
         /\ Eligible(v, m, TRUE, TRUE) <=> Healthy(v, m)
         /\ Healthy(v, m) => Available(v, m) /\ Selectable(v, route, m)
         /\ Selectable(v, route, m) => Available(v, m) /\ Eligible(v, m, FALSE, FALSE)
         /\ Selectable(v, route, m) /\ ~route.tools => Healthy(v, m)
BY DEF Conditions, Available, Eligible, Healthy, Selectable, Verified

LEMMA CatalogIs ==
  /\ Catalog \in Seq(Models) /\ IsInjective(Catalog) /\ ToSet(Catalog) = Models
  /\ Len(Catalog) \in Nat
BY PlannerAssumption, LenProperties DEF Models

LEMMA SelectableSet ==
  ASSUME NEW v, NEW route, NEW s \in Seq(Models)
  PROVE  LET t == SelectableOf(v, route, s)
         IN /\ t \in Seq(Models) /\ ToSet(t) = {m \in ToSet(s) : Selectable(v, route, m)}
            /\ IsInjective(s) => IsInjective(t)
<1> DEFINE S == {m \in Models : Selectable(v, route, m)}
           t == SelectableOf(v, route, s)
<1>1. t = Kept(s, S)
  BY DEF SelectableOf
<1>2. ToSet(s) \cap S = {m \in ToSet(s) : Selectable(v, route, m)}
  <2>1. ToSet(s) \subseteq Models
    BY ListIs
  <2> QED BY <2>1
<1> HIDE DEF S, t
<1>3. t \in Seq(Models) /\ ToSet(t) = ToSet(s) \cap S /\ (IsInjective(s) => IsInjective(t))
  BY <1>1, KeptSet
<1> QED BY <1>2, <1>3 DEF t

LEMMA MembersSet ==
  ASSUME NEW v \in [Models -> Conditions]
  PROVE  /\ Members(v) \in Seq(Models) /\ IsInjective(Members(v)) /\ Len(Members(v)) <= Len(Catalog)
         /\ ToSet(Members(v)) = {m \in Models \ {Preferred} : Available(v, m)}
<1> DEFINE S == {m \in Models \ {Preferred} : Eligible(v, m, TRUE, FALSE) /\ Available(v, m)}
           k == Members(v)
<1>1. k = Kept(Catalog, S)
  BY DEF Members
<1>2. Models \cap S = {m \in Models \ {Preferred} : Available(v, m)}
  BY ConditionSays
<1> HIDE DEF S, k
<1>3. /\ k \in Seq(Models) /\ ToSet(k) = Models \cap S
      /\ Len(k) <= Len(Catalog) /\ IsInjective(k)
  BY <1>1, KeptSet, CatalogIs
<1> QED BY <1>2, <1>3 DEF k

\* The groups hold the members, and what RoundsCover asks of groups.
LEMMA GroupsApart ==
  ASSUME NEW v \in [Models -> Conditions], Members(v) # <<>>
  PROVE  /\ Apart(Groups(v), Len(Catalog))
         /\ \A m \in ToSet(Members(v)) : \E h \in 1..Len(Groups(v)) : m \in ToSet(Groups(v)[h])
         /\ \A h \in 1..Len(Groups(v)) : ToSet(Groups(v)[h]) \subseteq ToSet(Members(v))
<1> DEFINE members == Members(v)
           M == ToSet(members)
           O == {ProviderOf[m] : m \in M}
           P == ToSet(ProviderIDs)
           owners == Kept(ProviderIDs, O)
           group(i) == Kept(members, {m \in Models : ProviderOf[m] = owners[i]})
           groups == Groups(v)
           n == Len(Catalog)
<1>1. /\ members \in Seq(Models) /\ IsInjective(members) /\ Len(members) <= n /\ Len(members) \in Nat
      /\ M \subseteq Models /\ M # {}
  BY MembersSet, ListIs
<1>2. /\ ProviderIDs \in Seq(P) /\ IsInjective(ProviderIDs) /\ ProviderOf \in [Models -> P]
      /\ n \in Nat
  BY PlannerAssumption, CatalogIs
<1>3. groups = [i \in 1..Len(owners) |-> group(i)]
  BY DEF Groups
<1> HIDE DEF members, M, groups, n
<1>4. O \subseteq P /\ O # {}
  BY <1>1, <1>2
<1>5. /\ owners \in Seq(P) /\ ToSet(owners) = O /\ IsInjective(owners)
      /\ Len(owners) \in Nat /\ owners # <<>>
  <2> HIDE DEF O, P
  <2>1. owners \in Seq(P) /\ ToSet(owners) = ToSet(ProviderIDs) \cap O /\ IsInjective(owners)
    BY <1>2, KeptSet
  <2>2. ToSet(owners) = O
    BY <1>4, <2>1 DEF P
  <2> HIDE DEF owners
  <2> QED BY <1>4, <2>1, <2>2, ListIs
<1>6. /\ ToSet(owners) = {owners[i] : i \in 1..Len(owners)}
      /\ \A i, j \in 1..Len(owners) : owners[i] = owners[j] => i = j
  BY <1>5, ListIs
<1>7. ASSUME NEW i \in 1..Len(owners)
      PROVE  /\ group(i) \in Seq(Models) /\ ToSet(group(i)) = {m \in M : ProviderOf[m] = owners[i]}
             /\ Len(group(i)) <= n /\ IsInjective(group(i))
  <2> DEFINE S == {m \in Models : ProviderOf[m] = owners[i]}
  <2>1. M \cap S = {m \in M : ProviderOf[m] = owners[i]}
    BY <1>1
  <2> HIDE DEF S
  <2> DEFINE k == Kept(members, S)
  <2>2. /\ k \in Seq(Models) /\ ToSet(k) = ToSet(members) \cap S
        /\ Len(k) <= Len(members) /\ IsInjective(k)
    BY <1>1, KeptSet
  <2> HIDE DEF k
  <2>3. Len(k) <= n
    BY <1>1, <1>2, <2>2, ListIs
  <2>4. ToSet(k) = {m \in M : ProviderOf[m] = owners[i]}
    BY <2>1, <2>2 DEF M
  <2> QED BY <2>2, <2>3, <2>4 DEF k, S
<1> HIDE DEF group, owners, O
<1>8. groups \in Seq(Seq(Models)) /\ Len(groups) = Len(owners) /\ groups # <<>>
  <2>1. groups \in [1..Len(owners) -> Seq(Models)]
    BY <1>3, <1>7
  <2>2. groups \in Seq(Seq(Models)) /\ Len(groups) = Len(owners)
    BY <1>5, <2>1, FunctionIsList
  <2>3. Len(owners) # 0
    BY <1>5
  <2>4. groups # <<>>
    BY <2>2, <2>3
  <2> QED BY <2>2, <2>4
<1>9. \A i \in 1..Len(owners) : groups[i] = group(i)
  BY <1>3
<1>10. Len(owners) <= n
  <2>1. ASSUME NEW i \in 1..Len(owners)
        PROVE  \E c \in 1..n : ProviderOf[Catalog[c]] = owners[i]
    <3>1. PICK m \in M : ProviderOf[m] = owners[i]
      BY <1>5, <1>6 DEF O
    <3>2. PICK c \in 1..n : Catalog[c] = m
      <4>1. Models = {Catalog[c] : c \in 1..n}
        <5>1. Catalog \in Seq(Models) /\ ToSet(Catalog) = Models
          BY CatalogIs
        <5> QED BY ONLY <5>1, ListIs DEF n
      <4> QED BY <1>1, <4>1
    <3> QED BY <3>1, <3>2
  <2> DEFINE f == [i \in 1..Len(owners) |-> CHOOSE c \in 1..n : ProviderOf[Catalog[c]] = owners[i]]
  <2>2. \A i \in 1..Len(owners) : f[i] \in 1..n /\ ProviderOf[Catalog[f[i]]] = owners[i]
    BY <2>1
  <2>3. f \in [1..Len(owners) -> 1..n]
    BY <2>2
  <2> HIDE DEF f
  <2>4. \A i, j \in 1..Len(owners) : f[i] = f[j] => i = j
    BY <1>6, <2>2
  <2> QED BY <1>2, <1>5, <2>3, <2>4, NoLonger
<1>11. Apart(groups, n)
  <2>1. \A h \in 1..Len(groups) : Len(groups[h]) <= n /\ IsInjective(groups[h])
    BY <1>7, <1>8, <1>9
  <2>2. \A h, i \in 1..Len(groups) : h # i => ToSet(groups[h]) \cap ToSet(groups[i]) = {}
    <3> SUFFICES ASSUME NEW h \in 1..Len(owners), NEW i \in 1..Len(owners), h # i,
                        NEW m, m \in ToSet(group(h)), m \in ToSet(group(i))
                 PROVE  FALSE
      BY <1>8, <1>9
    <3>1. owners[h] = owners[i]
      BY <1>7
    <3> QED BY <1>6, <3>1
  <2> QED BY <1>8, <1>10, <2>1, <2>2 DEF Apart
<1>12. ASSUME NEW m \in M PROVE \E h \in 1..Len(groups) : m \in ToSet(groups[h])
  <2>1. ProviderOf[m] \in O
    BY DEF O
  <2>2. PICK h \in 1..Len(owners) : owners[h] = ProviderOf[m]
    BY <1>5, <1>6, <2>1
  <2>3. m \in ToSet(groups[h])
    BY <1>7, <1>9, <2>2
  <2> QED BY <1>8, <2>3
<1>13. \A h \in 1..Len(groups) : ToSet(groups[h]) \subseteq M
  BY <1>7, <1>8, <1>9
<1> QED BY <1>11, <1>12, <1>13 DEF groups, n, M, members

LEMMA PreferredSet ==
  ASSUME NEW v \in [Models -> Conditions]
  PROVE  /\ PreferredFirst(v) \in Seq(Models) /\ IsInjective(PreferredFirst(v))
         /\ Len(PreferredFirst(v)) <= 1 /\ Len(PreferredFirst(v)) \in Nat
         /\ ToSet(PreferredFirst(v)) = {m \in Models : m = Preferred /\ Available(v, m)}
<1> DEFINE p == PreferredFirst(v)
           S == {m \in Models : m = Preferred /\ Available(v, m)}
<1>1. CASE Preferred \in Models /\ Available(v, Preferred)
  <2>1. p = <<Preferred>>
    BY <1>1, ConditionSays DEF PreferredFirst
  <2>2. S = {Preferred}
    BY <1>1
  <2> HIDE DEF p, S
  <2>3. /\ <<Preferred>> \in Seq(Models) /\ IsInjective(<<Preferred>>) /\ Len(<<Preferred>>) = 1
        /\ ToSet(<<Preferred>>) = {Preferred}
    BY <1>1 DEF IsInjective, ToSet
  <2> QED BY <2>1, <2>2, <2>3 DEF p, S
<1>2. CASE ~(Preferred \in Models /\ Available(v, Preferred))
  <2>1. p = <<>>
    BY <1>2 DEF PreferredFirst
  <2>2. S = {}
    BY <1>2
  <2> HIDE DEF p, S
  <2>3. /\ <<>> \in Seq(Models) /\ IsInjective(<<>>) /\ Len(<<>>) = 0 /\ ToSet(<<>>) = {}
    BY DEF IsInjective, ToSet
  <2> QED BY <2>1, <2>2, <2>3 DEF p, S
<1> QED BY <1>1, <1>2

\* What dynamicCandidatesSeeded has before the filters: no model twice and, unless
\* the budget is spent on the preferred one, every model that is available.
LEMMA FoundSet ==
  ASSUME NEW v \in [Models -> Conditions], NEW seed \in Nat
  PROVE  /\ Found(v, seed) \in Seq(Models)
         /\ seed + Len(Catalog) <= SeedSpan => IsInjective(Found(v, seed))
         /\ seed + Len(Catalog) <= SeedSpan /\ RoomBesidePreferred(v) =>
              \A m \in Models : Available(v, m) => m \in ToSet(Found(v, seed))
<1> DEFINE p == PreferredFirst(v)
           r == Rounds(Groups(v), seed)
           found == Found(v, seed)
           Members2 == {m \in Models \ {Preferred} : Available(v, m)}
           Clear == seed + Len(Catalog) <= SeedSpan
<1>1. /\ p \in Seq(Models) /\ IsInjective(p) /\ Len(p) <= 1 /\ Len(p) \in Nat
      /\ ToSet(p) = {m \in Models : m = Preferred /\ Available(v, m)}
  BY PreferredSet
<1>2. Members(v) \in Seq(Models) /\ ToSet(Members(v)) = Members2
  BY MembersSet
<1>3. found = p \o (IF Draws(v) THEN r ELSE <<>>)
  BY DEF Found
<1>4. MaxAttempts \in Nat
  BY PlannerAssumption
<1> HIDE DEF p, r, found
<1>5. CASE Draws(v)
  <2>1. Members(v) # <<>> /\ found = p \o r
    BY <1>3, <1>5 DEF Draws
  <2>2. /\ Apart(Groups(v), Len(Catalog))
        /\ \A m \in Members2 : \E h \in 1..Len(Groups(v)) : m \in ToSet(Groups(v)[h])
        /\ \A h \in 1..Len(Groups(v)) : ToSet(Groups(v)[h]) \subseteq Members2
    BY <1>2, <2>1, GroupsApart
  <2>3. r \in Seq(Models)
    <3>1. Groups(v) \in Seq(Seq(Models)) /\ Groups(v) # <<>>
      BY <2>2 DEF Apart
    <3> QED BY <3>1, RoundsAre DEF r
  <2>4. ASSUME Clear PROVE IsInjective(r) /\ ToSet(r) = Members2
    <3>1. /\ \A h \in 1..Len(Groups(v)) : ToSet(Groups(v)[h]) \subseteq ToSet(r)
          /\ \A m \in ToSet(r) : \E h \in 1..Len(Groups(v)) : m \in ToSet(Groups(v)[h])
          /\ IsInjective(r)
      BY <2>2, <2>4, CatalogIs, RoundsCover DEF r
    <3> HIDE DEF Members2
    <3> QED BY <2>2, <3>1
  <2>5. /\ p \o r \in Seq(Models) /\ ToSet(p \o r) = ToSet(p) \cup ToSet(r)
        /\ IsInjective(p) /\ IsInjective(r) /\ ToSet(p) \cap ToSet(r) = {} => IsInjective(p \o r)
    <3>1. p \in Seq(Models)
      BY <1>1
    <3> QED BY ONLY <2>3, <3>1, ConcatSet
  <2>6. ToSet(p) \cap Members2 = {}
    BY <1>1
  <2>7. \A m \in Models : Available(v, m) => m \in ToSet(p) \cup Members2
    BY <1>1
  <2> QED BY <1>1, <2>1, <2>4, <2>5, <2>6, <2>7 DEF found
<1>6. CASE ~Draws(v)
  <2>1. found = p
    <3>1. p \o <<>> = p
      BY <1>1
    <3> QED BY <1>3, <1>6, <3>1
  <2>2. ASSUME RoomBesidePreferred(v), NEW m \in Models, Available(v, m) PROVE m \in ToSet(p)
    <3>1. Len(p) # MaxAttempts
      BY <1>1, <1>4, <2>2 DEF RoomBesidePreferred, p
    <3>2. Members(v) = <<>>
      BY <1>6, <3>1 DEF Draws, p
    <3>3. ToSet(Members(v)) = {}
      BY <1>2, <3>2, ListIs
    <3> QED BY <1>1, <1>2, <2>2, <3>3
  <2> QED BY <1>1, <2>1, <2>2 DEF found
<1> QED BY <1>5, <1>6

\* The result for one seed.
LEMMA DynamicSet ==
  ASSUME NEW v \in [Models -> Conditions], NEW route, NEW seed \in Nat
  PROVE  LET o == OrderByStrategy(route, SelectableOf(v, route, Found(v, seed)))
         IN /\ o \in Seq(Models) /\ DynamicCandidates(v, route, seed) = Limit(o)
            /\ ToSet(o) = {m \in ToSet(Found(v, seed)) : Selectable(v, route, m)}
            /\ seed + Len(Catalog) <= SeedSpan => IsInjective(o)
            /\ route.strategy = "best-quality" => Falling(o)
            /\ seed + Len(Catalog) <= SeedSpan /\ RoomBesidePreferred(v) =>
                 ToSet(o) = {m \in Models : Selectable(v, route, m)}
<1> DEFINE found == Found(v, seed)
           t == SelectableOf(v, route, found)
           o == OrderByStrategy(route, t)
<1>1. /\ found \in Seq(Models)
      /\ seed + Len(Catalog) <= SeedSpan => IsInjective(found)
      /\ seed + Len(Catalog) <= SeedSpan /\ RoomBesidePreferred(v) =>
           \A m \in Models : Available(v, m) => m \in ToSet(found)
  BY FoundSet
<1>2. DynamicCandidates(v, route, seed) = Limit(o)
  BY DEF DynamicCandidates
<1> HIDE DEF found
<1>3. /\ t \in Seq(Models) /\ ToSet(t) = {m \in ToSet(found) : Selectable(v, route, m)}
      /\ IsInjective(found) => IsInjective(t)
  BY <1>1, SelectableSet
<1> HIDE DEF t
<1>4. /\ o \in Seq(Models) /\ ToSet(o) = ToSet(t) /\ (IsInjective(t) => IsInjective(o))
      /\ route.strategy = "best-quality" => Falling(o)
  BY <1>3, OrderSet
<1>5. ASSUME seed + Len(Catalog) <= SeedSpan, RoomBesidePreferred(v)
      PROVE  ToSet(t) = {m \in Models : Selectable(v, route, m)}
  <2>1. ToSet(found) \subseteq Models
    BY <1>1, ListIs
  <2>2. \A m \in Models : Selectable(v, route, m) => m \in ToSet(found)
    BY <1>1, <1>5, ConditionSays
  <2> QED BY <1>3, <2>1, <2>2
<1> QED BY <1>1, <1>2, <1>3, <1>4, <1>5 DEF t, found

\* A name that some model answers to finds one of them.
LEMMA FindIs ==
  ASSUME NEW name, Answers(name) # {}
  PROVE  Find(name) \in Models /\ Find(name) \in Answers(name)
<1> DEFINE A == Answers(name)
           k == Kept(Catalog, A)
<1>1. A \subseteq Models /\ A # {}
  BY DEF Answers
<1>2. Find(name) = k[1]
  BY DEF Find
<1> HIDE DEF A
<1>3. k \in Seq(Models) /\ ToSet(k) = A
  <2>1. Catalog \in Seq(Models) /\ ToSet(Catalog) = Models
    BY CatalogIs
  <2>2. k \in Seq(Models) /\ ToSet(k) = ToSet(Catalog) \cap A
    BY <2>1, KeptSet
  <2> QED BY <1>1, <2>1, <2>2
<1> HIDE DEF k
<1>4. Len(k) \in Nat /\ ToSet(k) = {k[i] : i \in 1..Len(k)}
  BY <1>3, ListIs
<1>5. Len(k) # 0
  BY <1>1, <1>3, <1>4
<1>6. k[1] \in A
  BY <1>3, <1>4, <1>5
<1> QED BY <1>1, <1>2, <1>6 DEF A

\* The entries that can serve, and what they find.
LEMMA UsableSet ==
  ASSUME NEW v \in [Models -> Conditions], NEW route \in Route
  PROVE  LET u == Usable(v, route)
         IN /\ u \in Seq(Models)
            /\ ToSet(u) = {m \in Configured(route) : Selectable(v, route, m)}
            /\ ByID(route) => IsInjective(u)
<1> DEFINE S == {n \in Names : /\ Answers(n) # {}
                               /\ Eligible(v, Find(n), FALSE, FALSE)
                               /\ Selectable(v, route, Find(n))}
           names == UsableNames(v, route)
           u == Usable(v, route)
           Q == {m \in Configured(route) : Selectable(v, route, m)}
<1>1. route.models \in Seq(Names) /\ IsInjective(route.models)
  BY DEF Route
<1>2. names = Kept(route.models, S)
  BY DEF UsableNames
<1>3. u = [i \in 1..Len(names) |-> Find(names[i])]
  BY DEF Usable
<1>4. \A n \in S : Find(n) \in Models
  BY FindIs
<1> HIDE DEF names, u
<1>5. names \in Seq(Names) /\ ToSet(names) = ToSet(route.models) \cap S /\ IsInjective(names)
  <2> HIDE DEF S
  <2> QED BY <1>1, <1>2, KeptSet
<1>6. /\ Len(names) \in Nat /\ ToSet(names) = {names[i] : i \in 1..Len(names)}
      /\ \A i, j \in 1..Len(names) : names[i] = names[j] => i = j
  BY <1>5, ListIs
<1>7. \A i \in 1..Len(names) : names[i] \in ToSet(route.models) /\ names[i] \in S
  <2> HIDE DEF S
  <2> QED BY <1>5, <1>6
<1>8. u \in Seq(Models) /\ Len(u) = Len(names)
  <2>1. u \in [1..Len(names) -> Models]
    <3> HIDE DEF S
    <3> QED BY <1>3, <1>4, <1>7
  <2> QED BY <1>6, <2>1, FunctionIsList
<1>9. ToSet(u) = {u[i] : i \in 1..Len(u)}
  BY <1>8, ListIs
<1>10. ToSet(u) \subseteq Q
  <2> SUFFICES ASSUME NEW i \in 1..Len(names) PROVE Find(names[i]) \in Q
    BY <1>3, <1>8, <1>9
  <2> QED BY <1>7 DEF Configured
<1>11. Q \subseteq ToSet(u)
  <2> SUFFICES ASSUME NEW n \in ToSet(route.models), Answers(n) # {},
                      Selectable(v, route, Find(n))
               PROVE  Find(n) \in ToSet(u)
    BY DEF Configured
  <2>1. n \in Names
    BY <1>1, ListIs
  <2>2. Eligible(v, Find(n), FALSE, FALSE)
    BY FindIs, ConditionSays
  <2>3. n \in S
    BY <2>1, <2>2
  <2>4. PICK i \in 1..Len(names) : names[i] = n
    <3> HIDE DEF S
    <3> QED BY <1>5, <1>6, <2>3
  <2> QED BY <1>3, <1>8, <1>9, <2>4
<1>12. ASSUME ByID(route) PROVE IsInjective(u)
  <2>1. ASSUME NEW i \in 1..Len(names) PROVE u[i] = names[i]
    BY <1>3, <1>7, <1>12 DEF ByID
  <2>2. \A i, j \in 1..Len(u) : u[i] = u[j] => i = j
    BY <1>6, <1>8, <2>1
  <2> QED BY <1>8, <2>2, ListIs
<1> HIDE DEF Q
<1>13. ToSet(u) = Q
  BY <1>10, <1>11
<1> QED BY <1>8, <1>12, <1>13 DEF u, Q

\* The configured models that can serve, and the others.
LEMMA PrioritySet ==
  ASSUME NEW v \in [Models -> Conditions], NEW route \in Route, NEW offset \in Nat
  PROVE  /\ Priority(v, route, offset) \in Seq(Models)
         /\ ByID(route) => IsInjective(Priority(v, route, offset))
         /\ ToSet(Priority(v, route, offset))
              = {m \in Configured(route) : Selectable(v, route, m)}
         /\ Usable(v, route) # <<>> => Priority(v, route, offset) # <<>>
<1> DEFINE u == Usable(v, route)
           p == Priority(v, route, offset)
           Q == {m \in Configured(route) : Selectable(v, route, m)}
<1>1. u \in Seq(Models) /\ ToSet(u) = Q /\ (ByID(route) => IsInjective(u))
  BY UsableSet
<1> HIDE DEF u, Q
<1>2. p \in Seq(Models) /\ ToSet(p) = ToSet(u) /\ (IsInjective(u) => IsInjective(p))
  <2>1. CASE route.strategy = "round-robin"
    <3>1. p = Rotate(u, offset)
      BY <2>1 DEF Priority, u
    <3> QED BY <1>1, <3>1, RotateSet
  <2>2. CASE route.strategy # "round-robin"
    <3>1. p = OrderByStrategy(route, u)
      BY <2>2 DEF Priority, u
    <3> QED BY <1>1, <3>1, OrderSet
  <2> QED BY <2>1, <2>2
<1> HIDE DEF p
<1>3. u # <<>> => p # <<>>
  BY <1>1, <1>2, ListIs
<1> QED BY <1>1, <1>2, <1>3 DEF p, u, Q

LEMMA TailSet ==
  ASSUME NEW v \in [Models -> Conditions], NEW route, NEW shift \in Nat
  PROVE  LET r == Rotate(Remaining(v, route), shift)
         IN /\ r \in Seq(Models) /\ IsInjective(r)
            /\ ToSet(r) = {m \in Models \ ToSet(route.models) : Healthy(v, m)}
<1> DEFINE S == {m \in Models \ ToSet(route.models) : Eligible(v, m, TRUE, TRUE)}
           k == Remaining(v, route)
<1>1. k = Kept(Catalog, S)
  BY DEF Remaining
<1>2. Models \cap S = {m \in Models \ ToSet(route.models) : Healthy(v, m)}
  BY ConditionSays
<1> HIDE DEF S, k
<1>3. k \in Seq(Models) /\ ToSet(k) = Models \cap S /\ IsInjective(k)
  BY <1>1, KeptSet, CatalogIs
<1>4. /\ Rotate(k, shift) \in Seq(Models) /\ ToSet(Rotate(k, shift)) = ToSet(k)
      /\ IsInjective(Rotate(k, shift))
  BY <1>3, RotateSet
<1> QED BY <1>2, <1>3, <1>4 DEF k

-----------------------------------------------------------------------------
(* Plans                                                                   *)

\* What a plan was made from: a session's seed, or the counters of the moment.
FromSeed(p, v) ==
  \E seed \in Nat : /\ IF p.seed = 0 THEN seed < NextPeriod ELSE seed = p.seed
                    /\ p.list = DynamicCandidates(v, p.route, seed)

FromConfigured(p, v) ==
  \E offset, shift \in Nat :
    /\ p.seed # 0 => offset = p.seed
    /\ p.list = Priority(v, p.route, offset) \o Limit(Rotate(Remaining(v, p.route), shift))

MadeFrom(p, v) == IF p.route.models = <<>> THEN FromSeed(p, v) ELSE FromConfigured(p, v)

PlannerInv == TypeOK /\ (Made => MadeFrom(plan, view))

LEMMA ConstantsAre ==
  /\ NextPeriod \in Nat \ {0} /\ MaxAttempts \in Nat \ {0}
  /\ \A route \in Routes : route \in Route
  /\ \A seed \in Seeds : seed \in Nat
  /\ \A c \in 0..(NextPeriod - 1) : Advanced(c) \in 0..(NextPeriod - 1)
<1>1. /\ NextPeriod \in Nat \ {0} /\ MaxAttempts \in Nat \ {0}
      /\ \A route \in Routes : route \in Route
      /\ \A seed \in Seeds : seed \in Nat
  BY PlannerAssumption, SpanPositive
<1>2. \A c \in 0..(NextPeriod - 1) : Advanced(c) \in 0..(NextPeriod - 1)
  <2> SUFFICES ASSUME NEW c \in 0..(NextPeriod - 1) PROVE Advanced(c) \in 0..(NextPeriod - 1)
    OBVIOUS
  <2>1. c + 1 \in Nat
    BY <1>1
  <2> QED BY <1>1, <2>1 DEF Advanced
<1> QED BY <1>1, <1>2

LEMMA DynamicType ==
  ASSUME NEW v \in [Models -> Conditions], NEW route, NEW seed \in Nat
  PROVE  DynamicCandidates(v, route, seed) \in Seq(Models)
BY DynamicSet, LimitIs

\* A configured plan: the configured models that can serve, then at most the
\* budget of others.
Parts(p, l, v, route) ==
  /\ p \in Seq(Models) /\ l \in Seq(Models) /\ p \o l \in Seq(Models)
  /\ ToSet(p \o l) = ToSet(p) \cup ToSet(l)
  /\ ByID(route) => IsInjective(p \o l)
  /\ ToSet(p) = {m \in Configured(route) : Selectable(v, route, m)}
  /\ ToSet(l) \subseteq {m \in Models \ ToSet(route.models) : Healthy(v, m)}
  /\ Len(l) <= MaxAttempts
  /\ l = <<>> => \A m \in Models \ ToSet(route.models) : ~Healthy(v, m)
  /\ Usable(v, route) # <<>> => p # <<>>

LEMMA ConfiguredSet ==
  ASSUME NEW v \in [Models -> Conditions], NEW route \in Route,
         NEW offset \in Nat, NEW shift \in Nat
  PROVE  Parts(Priority(v, route, offset), Limit(Rotate(Remaining(v, route), shift)), v, route)
<1> DEFINE p == Priority(v, route, offset)
           r == Rotate(Remaining(v, route), shift)
           l == Limit(r)
           H == {m \in Models \ ToSet(route.models) : Healthy(v, m)}
           C == {m \in Configured(route) : Selectable(v, route, m)}
<1>1. /\ p \in Seq(Models) /\ (ByID(route) => IsInjective(p)) /\ ToSet(p) = C
      /\ Usable(v, route) # <<>> => p # <<>>
  BY PrioritySet
<1>2. r \in Seq(Models) /\ IsInjective(r) /\ ToSet(r) = H
  BY TailSet
<1> HIDE DEF p, r, H, C
<1>3. /\ l \in Seq(Models) /\ IsInjective(l) /\ ToSet(l) \subseteq H
      /\ Len(l) <= MaxAttempts /\ (r # <<>> => l # <<>>)
  <2> DEFINE n == IF Len(r) <= MaxAttempts THEN Len(r) ELSE MaxAttempts
  <2>1. /\ n \in 0..Len(r) /\ l \in Seq(Models) /\ Len(l) = n
        /\ ToSet(l) = {r[i] : i \in 1..n} /\ IsInjective(l)
        /\ r # <<>> => l # <<>>
    BY <1>2, LimitIs
  <2>2. Len(r) \in Nat /\ ToSet(r) = {r[i] : i \in 1..Len(r)}
    BY <1>2, ListIs
  <2>3. n <= MaxAttempts
    BY <2>2, ConstantsAre
  <2> HIDE DEF n
  <2>4. ToSet(l) \subseteq ToSet(r)
    BY <2>1, <2>2
  <2> QED BY <1>2, <2>1, <2>3, <2>4
<1> HIDE DEF l
<1>4. p \o l \in Seq(Models) /\ ToSet(p \o l) = ToSet(p) \cup ToSet(l)
  <2>1. p \in Seq(Models) /\ l \in Seq(Models)
    BY <1>1, <1>3
  <2> QED BY ONLY <2>1, ConcatSet
<1>5. ASSUME ByID(route) PROVE IsInjective(p \o l)
  <2>1. p \in Seq(Models) /\ l \in Seq(Models) /\ IsInjective(p) /\ IsInjective(l)
    BY <1>1, <1>3, <1>5
  <2>2. C \subseteq ToSet(route.models)
    BY <1>5 DEF C, Configured, ByID
  <2>3. ToSet(p) \cap ToSet(l) = {}
    BY <1>1, <1>3, <2>2 DEF H
  <2> QED BY ONLY <2>1, <2>3, ConcatSet
<1>6. ASSUME l = <<>> PROVE H = {}
  <2>1. r = <<>>
    BY <1>3, <1>6
  <2> QED BY <1>2, <2>1, ListIs
<1>7. l = <<>> => \A m \in Models \ ToSet(route.models) : ~Healthy(v, m)
  BY <1>6 DEF H
<1> QED BY <1>1, <1>3, <1>4, <1>5, <1>7 DEF Parts, p, l, r, H, C

\* What every plan was made from (planner.go:177-245): the seed of its session or the
\* counters of the moment, by the route it names, from the view that still holds.
THEOREM PlannerInvariant == Spec => []PlannerInv
<1>1. Init => PlannerInv
  BY ConstantsAre DEF Init, PlannerInv, TypeOK, Made, Conditions
<1>2. PlannerInv /\ [Next]_vars => PlannerInv'
  <2> SUFFICES ASSUME PlannerInv, [Next]_vars PROVE PlannerInv'
    OBVIOUS
  <2> USE ConstantsAre DEF PlannerInv, TypeOK
  <2>1. ASSUME NEW m \in Models, NEW condition \in Conditions, Observe(m, condition)
        PROVE  PlannerInv'
    BY <2>1 DEF Observe, Made
  <2>2. ASSUME NEW route \in Routes, NEW seed \in Seeds, PlanConfigured(route, seed)
        PROVE  PlannerInv'
    <3> DEFINE offset == IF seed = 0 THEN routeNext[route] ELSE seed
               list == Priority(view, route, offset) \o Limit(Rotate(Remaining(view, route), next))
               p == [route |-> route, seed |-> seed, list |-> list]
    <3>1. /\ plan' = p /\ view' = view /\ route.models # <<>>
          /\ next' \in {next, Advanced(next)}
          /\ \E c \in {routeNext[route], Advanced(routeNext[route])} :
               routeNext' = [routeNext EXCEPT ![route] = c]
      BY <2>2 DEF PlanConfigured, Planned
    <3>2. offset \in Nat /\ next \in Nat /\ (seed # 0 => offset = seed)
      <4>1. routeNext[route] \in 0..(NextPeriod - 1)
        OBVIOUS
      <4> QED BY <4>1
    <3>3. list \in Seq(Models)
      <4> HIDE DEF offset
      <4> QED BY <3>2, ConfiguredSet DEF Parts
    <3>4. FromConfigured(p, view)
      <4> HIDE DEF offset
      <4> QED BY <3>2 DEF FromConfigured
    <3> HIDE DEF list
    <3>5. p \in Plan
      BY <3>3 DEF Plan
    <3>6. TypeOK'
      <4>1. PICK c \in {routeNext[route], Advanced(routeNext[route])} :
              routeNext' = [routeNext EXCEPT ![route] = c]
        BY <3>1
      <4>2. c \in 0..(NextPeriod - 1) /\ next' \in 0..(NextPeriod - 1)
        <5>1. routeNext[route] \in 0..(NextPeriod - 1)
          OBVIOUS
        <5> QED BY <3>1, <5>1
      <4>3. routeNext' \in [Routes -> 0..(NextPeriod - 1)]
        BY <4>1, <4>2
      <4> QED BY <3>1, <3>5, <4>2, <4>3
    <3>7. MadeFrom(p, view)
      BY <3>1, <3>4 DEF MadeFrom
    <3> HIDE DEF p
    <3> QED BY <3>1, <3>6, <3>7
  <2>3. ASSUME NEW route \in Routes, NEW seed \in Seeds, PlanDynamic(route, seed)
        PROVE  PlannerInv'
    <3> DEFINE from == IF seed = 0 THEN next ELSE seed
               list == DynamicCandidates(view, route, from)
               p == [route |-> route, seed |-> seed, list |-> list]
    <3>1. /\ plan' = p /\ view' = view /\ routeNext' = routeNext /\ route.models = <<>>
          /\ next' \in {next, Advanced(next)}
      BY <2>3 DEF PlanDynamic, Planned
    <3>2. from \in Nat /\ (IF seed = 0 THEN from < NextPeriod ELSE from = seed)
      OBVIOUS
    <3> HIDE DEF from
    <3>3. list \in Seq(Models)
      BY DynamicType, <3>2
    <3>4. FromSeed(p, view)
      BY <3>2 DEF FromSeed
    <3> HIDE DEF list
    <3>5. p \in Plan
      BY <3>3 DEF Plan
    <3>6. TypeOK'
      BY <3>1, <3>5
    <3>7. MadeFrom(p, view)
      BY <3>1, <3>4 DEF MadeFrom
    <3> HIDE DEF p
    <3> QED BY <3>1, <3>6, <3>7
  <2>4. CASE UNCHANGED vars
    BY <2>4 DEF vars, Made
  <2> QED BY <2>1, <2>2, <2>3, <2>4 DEF Next
<1> QED BY <1>1, <1>2, PTL DEF Spec

-----------------------------------------------------------------------------

\* A plan's seed and list, in the two cases.
LEMMA DynamicPlan ==
  ASSUME PlannerInv, Made, plan.route.models = <<>>
  PROVE  \E seed \in Nat : /\ SeedClear => seed + Len(Catalog) <= SeedSpan
                           /\ plan.seed # 0 => seed = plan.seed
                           /\ plan.list = DynamicCandidates(view, plan.route, seed)
<1>1. PICK seed \in Nat : /\ IF plan.seed = 0 THEN seed < NextPeriod ELSE seed = plan.seed
                          /\ plan.list = DynamicCandidates(view, plan.route, seed)
  BY DEF PlannerInv, MadeFrom, FromSeed
<1>2. SeedClear => seed + Len(Catalog) <= SeedSpan
  <2>1. CASE plan.seed = 0
    BY <1>1, <2>1, SpanPositive, ConstantsAre
  <2>2. CASE plan.seed # 0
    BY <1>1, <2>2, SpanPositive DEF SeedClear
  <2> QED BY <2>1, <2>2
<1> QED BY <1>1, <1>2

LEMMA PlanIs ==
  ASSUME PlannerInv, Made
  PROVE  /\ view \in [Models -> Conditions] /\ plan.route \in Route /\ plan.list \in Seq(Models)
         /\ MaxAttempts \in Nat \ {0}
BY ConstantsAre DEF PlannerInv, TypeOK, Made, Plan

LEMMA ConfiguredPlan ==
  ASSUME PlannerInv, Made, plan.route.models # <<>>
  PROVE  \E offset, shift \in Nat :
           LET p == Priority(view, plan.route, offset)
               l == Limit(Rotate(Remaining(view, plan.route), shift))
           IN /\ plan.seed # 0 => offset = plan.seed
              /\ plan.list = p \o l /\ Parts(p, l, view, plan.route)
<1>1. PICK offset \in Nat, shift \in Nat :
        /\ plan.seed # 0 => offset = plan.seed
        /\ plan.list = Priority(view, plan.route, offset)
                         \o Limit(Rotate(Remaining(view, plan.route), shift))
  BY DEF PlannerInv, MadeFrom, FromConfigured
<1>2. Parts(Priority(view, plan.route, offset), Limit(Rotate(Remaining(view, plan.route), shift)),
            view, plan.route)
  BY PlanIs, ConfiguredSet
<1> QED BY <1>1, <1>2

LEMMA SelectableHolds ==
  ASSUME PlannerInv
  PROVE  PlannedAreSelectable
<1> SUFFICES ASSUME Made, NEW m \in Listed PROVE Selectable(view, plan.route, m)
  BY DEF PlannedAreSelectable
<1>1. view \in [Models -> Conditions] /\ plan.route \in Route /\ plan.list \in Seq(Models)
  BY PlanIs
<1>2. CASE plan.route.models = <<>>
  <2>1. PICK seed \in Nat : plan.list = DynamicCandidates(view, plan.route, seed)
    BY <1>2, DynamicPlan
  <2> DEFINE o == OrderByStrategy(plan.route, SelectableOf(view, plan.route, Found(view, seed)))
  <2>2. /\ o \in Seq(Models) /\ plan.list = Limit(o)
        /\ ToSet(o) = {x \in ToSet(Found(view, seed)) : Selectable(view, plan.route, x)}
    BY <1>1, <2>1, DynamicSet
  <2> HIDE DEF o
  <2>3. ToSet(plan.list) \subseteq ToSet(o)
    <3> DEFINE n == IF Len(o) <= MaxAttempts THEN Len(o) ELSE MaxAttempts
    <3>1. n \in 0..Len(o) /\ ToSet(Limit(o)) = {o[i] : i \in 1..n}
      BY <2>2, LimitIs
    <3>2. Len(o) \in Nat /\ ToSet(o) = {o[i] : i \in 1..Len(o)}
      BY <2>2, ListIs
    <3> HIDE DEF n
    <3> QED BY <2>2, <3>1, <3>2
  <2> QED BY <2>2, <2>3 DEF Listed
<1>3. CASE plan.route.models # <<>>
  <2>1. PICK p, l : plan.list = p \o l /\ Parts(p, l, view, plan.route)
    BY <1>3, ConfiguredPlan
  <2>2. /\ ToSet(p \o l) = ToSet(p) \cup ToSet(l)
        /\ ToSet(p) = {x \in Configured(plan.route) : Selectable(view, plan.route, x)}
        /\ ToSet(l) \subseteq {x \in Models \ ToSet(plan.route.models) : Healthy(view, x)}
    BY <2>1 DEF Parts
  <2>3. m \in ToSet(p) \/ m \in ToSet(l)
    BY <2>1, <2>2 DEF Listed
  <2>4. m \in ToSet(l) => m \in Models /\ Healthy(view, m)
    BY <2>2
  <2> QED BY <1>1, <2>2, <2>3, <2>4, ConditionSays
<1> QED BY <1>2, <1>3

LEMMA OnceHolds ==
  ASSUME PlannerInv
  PROVE  PlannedOnce
<1> SUFFICES ASSUME Made, SeedClear, ByID(plan.route) PROVE IsInjective(plan.list)
  BY DEF PlannedOnce
<1>1. view \in [Models -> Conditions] /\ plan.route \in Route
  BY PlanIs
<1>2. CASE plan.route.models = <<>>
  <2>1. PICK seed \in Nat : /\ seed + Len(Catalog) <= SeedSpan
                            /\ plan.list = DynamicCandidates(view, plan.route, seed)
    BY <1>2, DynamicPlan
  <2> DEFINE o == OrderByStrategy(plan.route, SelectableOf(view, plan.route, Found(view, seed)))
  <2>2. o \in Seq(Models) /\ plan.list = Limit(o) /\ IsInjective(o)
    BY <1>1, <2>1, DynamicSet
  <2> HIDE DEF o
  <2> QED BY <2>2, LimitIs
<1>3. CASE plan.route.models # <<>>
  <2> QED BY <1>3, ConfiguredPlan DEF Parts
<1> QED BY <1>2, <1>3

LEMMA AdvertisedHolds ==
  ASSUME PlannerInv
  PROVE  AdvertisedIsServed
<1> SUFFICES ASSUME Made PROVE AdvertisedIsServed
  BY DEF AdvertisedIsServed
<1>1. /\ view \in [Models -> Conditions] /\ plan.route \in Route /\ plan.list \in Seq(Models)
      /\ MaxAttempts \in Nat \ {0}
  BY PlanIs
<1>2. ASSUME plan.list # <<>>, ~plan.route.tools PROVE RouteAvailable(view)
  <2>1. PICK m \in Models : m \in Listed
    BY <1>1, <1>2, ListIs DEF Listed
  <2>2. Selectable(view, plan.route, m)
    BY <2>1, SelectableHolds DEF PlannedAreSelectable
  <2>3. Eligible(view, m, TRUE, TRUE)
    BY <1>1, <1>2, <2>2, ConditionSays
  <2> QED BY <2>3 DEF RouteAvailable
<1>3. ASSUME RouteAvailable(view),
             IF plan.route.models = <<>> THEN SeedClear /\ RoomBesidePreferred(view)
                                         ELSE Unshadowed(plan.route)
      PROVE  plan.list # <<>>
  <2>1. PICK m \in Models : Healthy(view, m) /\ Selectable(view, plan.route, m)
    BY <1>1, <1>3, ConditionSays DEF RouteAvailable
  <2>2. CASE plan.route.models = <<>>
    <3>1. PICK seed \in Nat : /\ seed + Len(Catalog) <= SeedSpan
                              /\ plan.list = DynamicCandidates(view, plan.route, seed)
      BY <1>3, <2>2, DynamicPlan
    <3> DEFINE o == OrderByStrategy(plan.route, SelectableOf(view, plan.route, Found(view, seed)))
    <3>2. /\ o \in Seq(Models) /\ plan.list = Limit(o)
          /\ ToSet(o) = {x \in Models : Selectable(view, plan.route, x)}
      BY <1>1, <1>3, <2>2, <3>1, DynamicSet
    <3> HIDE DEF o
    <3>3. m \in ToSet(o)
      BY <2>1, <3>2
    <3>4. o # <<>>
      BY <3>2, <3>3, ListIs
    <3> QED BY <3>2, <3>4, LimitIs
  <2>3. CASE plan.route.models # <<>>
    <3>1. PICK p, l : plan.list = p \o l /\ Parts(p, l, view, plan.route)
      BY <2>3, ConfiguredPlan
    <3>2. /\ p \in Seq(Models) /\ l \in Seq(Models)
          /\ ToSet(p \o l) = ToSet(p) \cup ToSet(l)
          /\ ToSet(p) = {x \in Configured(plan.route) : Selectable(view, plan.route, x)}
          /\ l = <<>> => \A x \in Models \ ToSet(plan.route.models) : ~Healthy(view, x)
      BY <3>1 DEF Parts
    <3>3. ToSet(p) # {} \/ ToSet(l) # {}
      <4>1. CASE m \in ToSet(plan.route.models)
        <5>1. Find(m) = m /\ m \in Answers(m)
          BY <1>3, <2>3, <4>1 DEF Unshadowed, Answers
        <5>2. m \in Configured(plan.route)
          BY <4>1, <5>1 DEF Configured
        <5> QED BY <2>1, <3>2, <5>2
      <4>2. CASE m \notin ToSet(plan.route.models)
        <5>1. l # <<>>
          BY <2>1, <3>2, <4>2
        <5> QED BY <3>2, <5>1, ListIs
      <4> QED BY <4>1, <4>2
    <3>4. ToSet(plan.list) # {}
      BY <3>1, <3>2, <3>3
    <3> QED BY <1>1, <3>4, ListIs
  <2> QED BY <2>2, <2>3
<1>4. \/ ~IF plan.route.models = <<>> THEN SeedClear /\ RoomBesidePreferred(view)
                                     ELSE Unshadowed(plan.route)
      \/ RouteAvailable(view) => plan.list # <<>>
  BY <1>3
<1> QED BY <1>2, <1>4 DEF AdvertisedIsServed

LEMMA BestHolds ==
  ASSUME PlannerInv
  PROVE  BestScoredKept
<1> SUFFICES ASSUME Made, SeedClear, RoomBesidePreferred(view), plan.route.models = <<>>,
                    plan.route.strategy = "best-quality",
                    NEW m \in Models \ Listed, NEW n \in Listed, Selectable(view, plan.route, m)
             PROVE  Score[m] <= Score[n]
  BY DEF BestScoredKept
<1>1. view \in [Models -> Conditions]
  BY PlanIs
<1>2. PICK seed \in Nat : /\ seed + Len(Catalog) <= SeedSpan
                          /\ plan.list = DynamicCandidates(view, plan.route, seed)
  BY DynamicPlan
<1> DEFINE o == OrderByStrategy(plan.route, SelectableOf(view, plan.route, Found(view, seed)))
           k == IF Len(o) <= MaxAttempts THEN Len(o) ELSE MaxAttempts
<1>3. /\ o \in Seq(Models) /\ plan.list = Limit(o) /\ Falling(o)
      /\ ToSet(o) = {x \in Models : Selectable(view, plan.route, x)}
  BY <1>1, <1>2, DynamicSet
<1> HIDE DEF o
<1>4. k \in 0..Len(o) /\ Listed = {o[i] : i \in 1..k}
  BY <1>3, LimitIs DEF Listed
<1>5. Len(o) \in Nat /\ ToSet(o) = {o[i] : i \in 1..Len(o)}
  BY <1>3, ListIs
<1> HIDE DEF k
<1>6. PICK i \in 1..k : o[i] = n
  BY <1>4
<1>7. PICK j \in 1..Len(o) : o[j] = m
  <2>1. m \in ToSet(o)
    BY <1>3
  <2> QED BY <1>5, <2>1
<1>8. j \notin 1..k
  BY <1>4, <1>7
<1>9. i \in 1..Len(o) /\ i < j
  BY <1>4, <1>5, <1>8
<1> QED BY <1>3, <1>6, <1>7, <1>9 DEF Falling

LEMMA ReachableHolds ==
  ASSUME PlannerInv
  PROVE  ConfiguredReachable
<1> DEFINE usable == {m \in Configured(plan.route) : Selectable(view, plan.route, m)}
<1> SUFFICES ASSUME Made, plan.route.models # <<>>
             PROVE  \E n \in 0..Len(plan.list) : /\ Len(plan.list) <= n + MaxAttempts
                                                 /\ usable = ToSet(SubSeq(plan.list, 1, n))
  BY DEF ConfiguredReachable
<1>1. PICK p, l : plan.list = p \o l /\ Parts(p, l, view, plan.route)
  BY ConfiguredPlan
<1>2. /\ p \in Seq(Models) /\ l \in Seq(Models) /\ p \o l \in Seq(Models)
      /\ ToSet(p) = usable /\ Len(l) <= MaxAttempts
  BY <1>1 DEF Parts
<1> HIDE DEF usable
<1>3. /\ Len(p) \in Nat /\ Len(l) \in Nat /\ MaxAttempts \in Nat
      /\ Len(p \o l) = Len(p) + Len(l)
      /\ \A i \in 1..Len(p) + Len(l) : (p \o l)[i] = IF i <= Len(p) THEN p[i] ELSE l[i - Len(p)]
  BY <1>2, ConcatProperties, ListIs, ConstantsAre
<1> DEFINE u == p \o l
<1>4. u \in Seq(Models) /\ Len(u) = Len(p) + Len(l) /\ \A i \in 1..Len(p) : u[i] = p[i]
  BY <1>2, <1>3
<1> HIDE DEF u
<1>5. usable = ToSet(SubSeq(u, 1, Len(p)))
  <2>1. 1 \in 1..(Len(u) + 1) /\ Len(p) \in 0..Len(u)
    BY <1>3, <1>4
  <2>2. ToSet(SubSeq(u, 1, Len(p))) = {u[i] : i \in 1..Len(p)}
    BY <1>4, <2>1, PartSet
  <2>3. ToSet(p) = {p[i] : i \in 1..Len(p)}
    BY <1>2, ListIs
  <2>4. {u[i] : i \in 1..Len(p)} = {p[i] : i \in 1..Len(p)}
    BY <1>4
  <2> QED BY <1>2, <2>2, <2>3, <2>4
<1>6. plan.list = u
  BY <1>1 DEF u
<1>7. Len(p) \in 0..Len(u) /\ Len(u) <= Len(p) + MaxAttempts
  BY <1>2, <1>3, <1>4
<1> QED BY <1>5, <1>6, <1>7

\* Plans of one conversation, on one route and one view, start alike.
LEMMA SamePrimaryHolds ==
  ASSUME PlannerInv, PlannerInv', SameSession,
         plan.route.models = <<>> \/ Usable(view, plan.route) # <<>>
  PROVE  SamePrimary
<1>1. /\ Made /\ Made' /\ view' = view /\ plan'.seed = plan.seed /\ plan.seed # 0
      /\ plan'.route = plan.route
  BY DEF SameSession, Made
<1>2. MadeFrom(plan, view) /\ MadeFrom(plan', view')
  BY <1>1 DEF PlannerInv
<1>3. CASE plan.route.models = <<>>
  <2>1. plan.list = DynamicCandidates(view, plan.route, plan.seed)
    BY <1>1, <1>2, <1>3 DEF MadeFrom, FromSeed
  <2>2. plan'.list = DynamicCandidates(view, plan.route, plan.seed)
    <3> DEFINE p == plan'
    <3>1. MadeFrom(p, view) /\ p.seed = plan.seed /\ p.route = plan.route
      BY <1>1, <1>2
    <3> HIDE DEF p
    <3>2. p.list = DynamicCandidates(view, plan.route, plan.seed)
      BY <1>1, <1>3, <3>1 DEF MadeFrom, FromSeed
    <3> QED BY <3>2 DEF p
  <2> QED BY <2>1, <2>2 DEF SamePrimary
<1>4. CASE plan.route.models # <<>>
  <2> DEFINE primary == Priority(view, plan.route, plan.seed)
  <2>1. ASSUME NEW q, MadeFrom(q, view), q.seed = plan.seed, q.route = plan.route
        PROVE  \E shift \in Nat :
                 q.list = primary \o Limit(Rotate(Remaining(view, plan.route), shift))
    BY <1>1, <1>4, <2>1 DEF MadeFrom, FromConfigured
  <2>2. view \in [Models -> Conditions] /\ plan.route \in Route /\ plan.seed \in Nat
    BY <1>1, PlanIs, ConstantsAre DEF PlannerInv, TypeOK, Plan, Made
  <2>3. ASSUME NEW q, MadeFrom(q, view), q.seed = plan.seed, q.route = plan.route
        PROVE  q.list[1] = primary[1]
    <3>1. PICK shift \in Nat :
            q.list = primary \o Limit(Rotate(Remaining(view, plan.route), shift))
      BY <2>1, <2>3
    <3> DEFINE l == Limit(Rotate(Remaining(view, plan.route), shift))
    <3>2. Parts(primary, l, view, plan.route)
      BY <2>2, ConfiguredSet
    <3> HIDE DEF primary, l
    <3>3. primary \in Seq(Models) /\ l \in Seq(Models) /\ primary # <<>>
      BY <1>4, <3>2 DEF Parts
    <3>4. /\ Len(primary) \in Nat /\ Len(primary) # 0 /\ Len(l) \in Nat
          /\ \A i \in 1..Len(primary) + Len(l) :
               (primary \o l)[i] = IF i <= Len(primary) THEN primary[i] ELSE l[i - Len(primary)]
      BY <3>3, ConcatProperties, ListIs
    <3>5. (primary \o l)[1] = primary[1]
      BY <3>4
    <3> QED BY <3>1, <3>5 DEF l
  <2> HIDE DEF primary
  <2>4. plan.list[1] = primary[1]
    BY <1>2, <2>3
  <2> DEFINE p == plan'
  <2>5. MadeFrom(p, view) /\ p.seed = plan.seed /\ p.route = plan.route
    BY <1>1, <1>2
  <2> HIDE DEF p
  <2>6. p.list[1] = primary[1]
    BY <2>3, <2>5
  <2> QED BY <2>4, <2>6 DEF SamePrimary, p
<1> QED BY <1>3, <1>4

-----------------------------------------------------------------------------

\* No plan names a model its snapshot would not select for the route: every way
\* onto the list, configured, padded or drawn, ends in availableCandidates or in a
\* filter that asks as much (planner.go:91-175).
THEOREM PlansAreSelectable == Spec => []PlannedAreSelectable
BY PlannerInvariant, SelectableHolds, PTL

\* A plan of a route without models, or of one that names them by their ids, names
\* no model twice, whatever the catalog's upstream ids, the groups, the seed and the
\* budget, as long as the sums of the rotation stay below 2^64 (planner.go:104, 222-238).
THEOREM PlansNameOnce == Spec => []PlannedOnce
BY PlannerInvariant, OnceHolds, PTL

\* A configured route's plan begins with all usable models its entries find, by id or
\* upstream id, and adds at most the attempt budget of others (planner.go:350).
THEOREM ConfiguredAreReachable == Spec => []ConfiguredReachable
BY PlannerInvariant, ReachableHolds, PTL

\* A route that /v1/models calls available has a candidate, unless openrouter/free
\* takes all the budget or an id in the route finds another model (planner.go:42, 214).
THEOREM AdvertisedAreServed == Spec => []AdvertisedIsServed
BY PlannerInvariant, AdvertisedHolds, PTL

\* What the budget cuts off a best-quality plan never scores higher than what it
\* keeps, whichever models the rounds put first (planner.go:242-281).
THEOREM BestScoresAreKept == Spec => []BestScoredKept
BY PlannerInvariant, BestHolds, PTL

\* While the view holds, the plans of one conversation begin with one model,
\* whatever other requests do to the counters between them (planner.go:217-219).
THEOREM SessionsKeepPrimary == Spec => SessionKeepsPrimary
<1>1. PlannerInv /\ PlannerInv' /\ [Next]_vars
        => [SameSession /\ (plan.route.models = <<>> \/ Usable(view, plan.route) # <<>>)
             => SamePrimary]_vars
  BY SamePrimaryHolds
<1> QED BY <1>1, PlannerInvariant, PTL DEF Spec, SessionKeepsPrimary
=============================================================================
