------------------------------- MODULE Planner -------------------------------
(***************************************************************************)
(* Which models a request may try, and in what order: CandidatePlanner     *)
(* (internal/gateway/planner.go) over an eligibility snapshot              *)
(* (internal/eligibility).  A plan is computed from one snapshot; the only *)
(* state the planner keeps is its round-robin counters.                    *)
(*                                                                         *)
(* What the snapshot says of a model for the route's capability is one     *)
(* condition: out (not configured, disabled, or a capability mismatch),    *)
(* unverified, down (cooling, or its provider is), shaky (available but    *)
(* not healthy) or healthy.  Healthy implies available: HealthTracker.     *)
(***************************************************************************)
EXTENDS Integers, SequencesExt, Lists

CONSTANTS
  Catalog,       \* the models in catalog order, a sequence of distinct ids
  Names,         \* what a configured route may hold: ids, upstream ids, others
  UpstreamID,    \* model -> the name its provider gives it
  ProviderIDs,   \* the providers in the order of their ids, a sequence
  ProviderOf,    \* model -> provider
  Score,         \* model -> maintained quality score, 0 for none
  Rank,          \* model -> rank behind the score, 0 for none
  Preferred,     \* openrouter/free, or no model at all
  MaxAttempts,   \* CandidatePlanner.maxAttempts
  Routes,        \* the routes requests ask for
  Seeds,         \* session seeds, 0 for a request without a session
  SeedSpan,      \* 2^64, the modulus of seed arithmetic
  NoPlan,        \* no plan made since the world last changed
  NextPeriod     \* bound: the counters count modulo this many plans

Models == ToSet(Catalog)

Strategies == {"ordered", "round-robin", "best-quality"}

\* tools: the capability is chat-tools.  A route holds no string twice, which the
\* configuration store sees to (routing/store.go:450); two may name one model.
Route == {r \in [models: Seq(Names), strategy: Strategies, tools: BOOLEAN] : IsInjective(r.models)}

\* The catalog lists a model once (provider.go:308, catalog.go:1122); a counter
\* never gets to 2^64.
ASSUME PlannerAssumption ==
  /\ Catalog \in Seq(Models) /\ IsInjective(Catalog)
  /\ Models \subseteq Names /\ UpstreamID \in [Models -> Names]
  /\ ProviderIDs \in Seq(ToSet(ProviderIDs)) /\ IsInjective(ProviderIDs)
  /\ ProviderOf \in [Models -> ToSet(ProviderIDs)]
  /\ Score \in [Models -> Nat] /\ Rank \in [Models -> Nat]
  /\ MaxAttempts \in Nat \ {0} /\ NextPeriod \in Nat \ {0} /\ SeedSpan \in Nat
  /\ NextPeriod + Len(Catalog) <= SeedSpan
  /\ Routes \subseteq Route /\ Seeds \subseteq 0..(SeedSpan - 1)

VARIABLES
  view,        \* what the next snapshot will show, per model
  next,        \* CandidatePlanner.next
  routeNext,   \* CandidatePlanner.routeNext, per route
  plan         \* history: the last plan, while the view it was made from holds

vars == <<view, next, routeNext, plan>>

Conditions == {"out", "unverified", "down", "shaky", "healthy"}

Plan == [route: Routes, seed: Seeds, list: Seq(Models)]

TypeOK ==
  /\ view \in [Models -> Conditions]
  /\ next \in 0..(NextPeriod - 1)
  /\ routeNext \in [Routes -> 0..(NextPeriod - 1)]
  /\ plan \in Plan \cup {NoPlan}

-----------------------------------------------------------------------------
(* The snapshot's answers *)

Verified(v, m) == v[m] \in {"down", "shaky", "healthy"}

Available(v, m) == v[m] \in {"shaky", "healthy"}

Healthy(v, m) == v[m] = "healthy"

\* Mutant of Eligible: health is not asked for.
EligibleUnhealthy(v, m, requireVerified, requireHealthy) ==
  v[m] # "out" /\ (requireVerified => Verified(v, m))

\* Eligible: the empty reason.
Eligible(v, m, requireVerified, requireHealthy) ==
  /\ v[m] # "out"
  /\ requireVerified => Verified(v, m)
  /\ requireHealthy => Healthy(v, m)

\* Tool routes take what is available, so that one 429 does not empty them.
Selectable(v, route, m) ==
  Verified(v, m) /\ IF route.tools THEN Available(v, m) ELSE Healthy(v, m)

SelectableOf(v, route, models) == Kept(models, {m \in Models : Selectable(v, route, m)})

\* routeState: what /v1/models and /healthz say of a route.
RouteAvailable(v) == \E m \in Models : Eligible(v, m, TRUE, TRUE)

-----------------------------------------------------------------------------
(* Orders *)

Rotate(models, offset) ==
  IF Len(models) < 2 THEN models
  ELSE LET start == offset % Len(models)
       IN SubSeq(models, start + 1, Len(models)) \o SubSeq(models, 1, start)

\* The less function of sortByQuality.  A rank counts only against a rank.
Before(m, n) ==
  \/ Score[m] > Score[n]
  \/ Score[m] = Score[n] /\ Rank[m] # 0 /\ Rank[n] # 0 /\ Rank[m] < Rank[n]

\* One step of sort.SliceStable on a short slice: m moves left past everything
\* it is before, and stops at the first model it is not.
Insert(sorted, m) ==
  LET k == Max({0} \cup {i \in 1..Len(sorted) : ~Before(m, sorted[i])})
  IN InsertAt(sorted, k + 1, m)

Sorted(models) ==
  LET sorted[i \in 0..Len(models)] ==
        IF i = 0 THEN <<>> ELSE Insert(sorted[i - 1], models[i])
  IN sorted[Len(models)]

SortByQuality(models) ==
  Sorted(Kept(models, {m \in Models : Score[m] > 0})) \o Kept(models, {m \in Models : Score[m] = 0})

OrderByStrategy(route, models) ==
  IF route.strategy = "best-quality" THEN SortByQuality(models) ELSE models

\* limitCandidates and limitAdditional
Limit(models) == SubSeq(models, 1, Min({Len(models), MaxAttempts}))

-----------------------------------------------------------------------------
(* Plans *)

\* Mutant of Members: the preferred model stays in its provider's group.
MembersWithPreferred(v) ==
  Kept(Catalog, {m \in Models : Eligible(v, m, TRUE, FALSE) /\ Available(v, m)})

Members(v) ==
  Kept(Catalog, {m \in Models \ {Preferred} : Eligible(v, m, TRUE, FALSE) /\ Available(v, m)})

\* groups, in the order of the sorted ids of their providers
Groups(v) ==
  LET members == Members(v)
      owners == Kept(ProviderIDs, {ProviderOf[m] : m \in ToSet(members)})
  IN [i \in 1..Len(owners) |-> Kept(members, {m \in Models : ProviderOf[m] = owners[i]})]

\* The model the provider at this offset gives in this round, if it has one left.
Pick(groups, seed, round, offset) ==
  LET models == groups[(((seed + offset) % SeedSpan) % Len(groups)) + 1]
  IN IF round < Len(models)
     THEN <<models[(((seed + round) % SeedSpan) % Len(models)) + 1]>>
     ELSE <<>>

Rounds(groups, seed) ==
  LET round(i) == FlattenSeq([j \in 1..Len(groups) |-> Pick(groups, seed, i, j - 1)])
      last == Max({Len(groups[j]) : j \in 1..Len(groups)})
  IN FlattenSeq([i \in 1..last |-> round(i - 1)])

PreferredFirst(v) ==
  IF Preferred \in Models /\ Eligible(v, Preferred, TRUE, FALSE) /\ Available(v, Preferred)
  THEN <<Preferred>>
  ELSE <<>>

\* dynamicCandidatesSeeded: whether it gets as far as drawing a number, and the
\* result for the seed it then has.
Draws(v) == Members(v) # <<>> /\ Len(PreferredFirst(v)) # MaxAttempts

Found(v, seed) == PreferredFirst(v) \o (IF Draws(v) THEN Rounds(Groups(v), seed) ELSE <<>>)

\* Mutants of DynamicCandidates: the budget is spent before the health filter,
\* or before the scores are looked at.
LimitedUnfiltered(v, route, seed) ==
  OrderByStrategy(route, SelectableOf(v, route, Limit(Found(v, seed))))

LimitedUnsorted(v, route, seed) ==
  OrderByStrategy(route, Limit(SelectableOf(v, route, Found(v, seed))))

DynamicCandidates(v, route, seed) ==
  Limit(OrderByStrategy(route, SelectableOf(v, route, Found(v, seed))))

\* Find: the first model in the catalog with this id or upstream id, if any.
Answers(name) == {m \in Models : m = name \/ UpstreamID[m] = name}

Find(name) == Kept(Catalog, Answers(name))[1]

\* pickRemaining, before its rotation.  The strings of the route are compared with
\* ids only: a model it names by its upstream id is not left out.
Remaining(v, route) ==
  Kept(Catalog, {m \in Models \ ToSet(route.models) : Eligible(v, m, TRUE, TRUE)})

\* The entries that find a model which can serve, and those models: one for each
\* entry, also where two entries find the same one.
UsableNames(v, route) ==
  Kept(route.models, {n \in Names : /\ Answers(n) # {}
                                    /\ Eligible(v, Find(n), FALSE, FALSE)
                                    /\ Selectable(v, route, Find(n))})

Usable(v, route) ==
  LET names == UsableNames(v, route) IN [i \in 1..Len(names) |-> Find(names[i])]

\* Mutant of Priority: the budget cuts the configured list too.
PriorityLimited(v, route, offset) == Limit(Rotate(Usable(v, route), offset))

\* The configured models that can serve, in the order the strategy gives them.
Priority(v, route, offset) ==
  IF route.strategy = "round-robin" THEN Rotate(Usable(v, route), offset)
  ELSE OrderByStrategy(route, Usable(v, route))

Advanced(counter) == (counter + 1) % NextPeriod

-----------------------------------------------------------------------------

Init ==
  /\ view = [m \in Models |-> "unverified"]
  /\ next = 0
  /\ routeNext = [r \in Routes |-> 0]
  /\ plan = NoPlan

\* Probes, traffic, an operator and the catalog change what a snapshot sees.
Observe(m, condition) ==
  /\ condition # view[m]
  /\ view' = [view EXCEPT ![m] = condition]
  /\ plan' = NoPlan
  /\ UNCHANGED <<next, routeNext>>

Planned(route, seed, list) ==
  plan' = [route |-> route, seed |-> seed, list |-> list]

\* A route with configured models: those, then a bounded tail of the others.
PlanConfigured(route, seed) ==
  LET rotates == route.strategy = "round-robin" /\ seed = 0
      offset == IF seed = 0 THEN routeNext[route] ELSE seed
      remaining == Remaining(view, route)
  IN /\ route.models # <<>>
     /\ Planned(route, seed, Priority(view, route, offset) \o Limit(Rotate(remaining, next)))
     /\ routeNext' = [routeNext EXCEPT ![route] = IF rotates THEN Advanced(@) ELSE @]
     /\ next' = IF remaining # <<>> THEN Advanced(next) ELSE next
     /\ UNCHANGED view

\* Mutant of PlanDynamic: a session's seed is forgotten.
PlanUnseeded(route, seed) ==
  /\ route.models = <<>>
  /\ Planned(route, seed, DynamicCandidates(view, route, next))
  /\ next' = IF Draws(view) THEN Advanced(next) ELSE next
  /\ UNCHANGED <<view, routeNext>>

\* A route without: the whole pool, provider by provider.
PlanDynamic(route, seed) ==
  /\ route.models = <<>>
  /\ Planned(route, seed, DynamicCandidates(view, route, IF seed = 0 THEN next ELSE seed))
  /\ next' = IF seed = 0 /\ Draws(view) THEN Advanced(next) ELSE next
  /\ UNCHANGED <<view, routeNext>>

Next ==
  \/ \E m \in Models, condition \in Conditions : Observe(m, condition)
  \/ \E route \in Routes, seed \in Seeds : PlanConfigured(route, seed) \/ PlanDynamic(route, seed)

Spec == Init /\ [][Next]_vars

-----------------------------------------------------------------------------
(* Properties *)

Made == plan # NoPlan

Listed == ToSet(plan.list)

\* Session seeds are hashes and use all 64 bits.  The rotations add to them
\* modulo 2^64, where the remainders jump: properties about how a plan covers
\* its groups are stated for the seeds that stay clear of that point.
SeedClear == plan.seed + Len(Catalog) < SeedSpan

\* openrouter/free, when it is available, is on the list before anything else and
\* before its health is looked at: a budget of one is then spent (planner.go:214).
RoomBesidePreferred(v) == Len(PreferredFirst(v)) < MaxAttempts

\* No plan names a model the snapshot would not select, whichever of the
\* filters let it in (a padded model passes another one than a listed one).
PlannedAreSelectable == Made => \A m \in Listed : Selectable(view, plan.route, m)

\* What a route's entries find.
Configured(route) == {Find(n) : n \in {x \in ToSet(route.models) : Answers(x) # {}}}

\* Every entry that finds a model is the id of that model.
ByID(route) == \A n \in ToSet(route.models) : Answers(n) # {} => Find(n) = n

\* No entry that is the id of a model finds another one, whose upstream id it is.
Unshadowed(route) == \A m \in Models \cap ToSet(route.models) : Find(m) = m

\* A plan tries no model twice, which would spend attempts and quota on a model
\* that has just failed, unless its route names models by their upstream ids: such
\* a model is listed once for each of its names, and once more in the tail.
PlannedOnce == Made /\ SeedClear /\ ByID(plan.route) => IsInjective(plan.list)

\* "A configured model list ... is never truncated: every entry stays reachable"
\* (planner.go:350), before the padded tail, which the attempt budget bounds.
ConfiguredReachable ==
  Made /\ plan.route.models # <<>> =>
    LET usable == {m \in Configured(plan.route) : Selectable(view, plan.route, m)}
    IN \E n \in 0..Len(plan.list) : /\ Len(plan.list) <= n + MaxAttempts
                                    /\ usable = ToSet(SubSeq(plan.list, 1, n))

\* For requests that ask no more of a model than their route does: what
\* /v1/models and /healthz call available ("can the gateway serve it right
\* now", planner.go:42) has a candidate, unless openrouter/free takes all there
\* is, or an id in the route finds another model and hides its own.  Outside tool
\* routes, which also try degraded models, nothing else has one.
AdvertisedIsServed ==
  LET excepted == IF plan.route.models = <<>> THEN ~(SeedClear /\ RoomBesidePreferred(view))
                                              ELSE ~Unshadowed(plan.route)
  IN Made => /\ RouteAvailable(view) /\ ~excepted => plan.list # <<>>
             /\ plan.list # <<>> /\ ~plan.route.tools => RouteAvailable(view)

\* What the attempt budget cuts off a best-quality plan never scores higher
\* than what it keeps (planner.go:242-245), unless openrouter/free takes all there
\* is before the scores are looked at.
BestScoredKept ==
  Made /\ SeedClear /\ RoomBesidePreferred(view)
    /\ plan.route.models = <<>> /\ plan.route.strategy = "best-quality" =>
      \A m \in Models \ Listed, n \in Listed :
        Selectable(view, plan.route, m) => Score[m] <= Score[n]

\* The next request of one conversation, on the same route and view.
SameSession ==
  /\ Made /\ plan' # NoPlan /\ view' = view
  /\ plan'.seed # 0 /\ plan'.seed = plan.seed /\ plan'.route = plan.route

SamePrimary == plan'.list # <<>> => plan'.list[1] = plan.list[1]

\* Whatever other requests did to the counters, a conversation stays on its
\* primary model as long as the view does not change, provided its route has no
\* configured models or one of them is usable.
SessionKeepsPrimary ==
  [][SameSession /\ (plan.route.models = <<>> \/ Usable(view, plan.route) # <<>>)
       => SamePrimary]_vars
=============================================================================
