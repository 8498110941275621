# free-router: a TLA+ verification project

free-router is a local OpenAI-compatible gateway in Go. It collects free models
from several providers, probes them, and serves each downstream request from
whichever model can take it, falling back to another one when an upstream
fails. This directory holds TLA+ modules for the parts whose correctness depends
on order, overlap and failure, the TLC configurations that check them on small
instances, and TLAPS proofs of the results that hold for every instance.

    tlc -config MCGateway.cfg MCGateway      # any run of the table below
    tlapm GatewayProofs.tla                  # any of the *Proofs modules

## The system

| component (src/) | state it keeps | operations | modelled in |
|---|---|---|---|
| health tracker (`internal/health`) | a breaker state per (model, capability) and per provider, one mutex | TryAcquire, Release, Success, Failure, ProbeSuccess, RestoreProbeSuccess, ProbeFailure, Reset, load | `HealthTracker` |
| its persistence (`internal/health`) | sequence number, last saved number, the file | persist, snapshotLocked, writeSnapshot, load | `HealthPersist`, `DurableState` |
| attempt loop (`internal/gateway`: proxyJSON, proxyMultipart, AttemptExecutor, RetryPolicy) | per request: candidate list, position, deferred releases, failures so far | try a candidate, send one attempt, classify its outcome, fall back or answer, loose pass, release | `Gateway` |
| candidate planner and eligibility (`internal/gateway/planner.go`, `internal/eligibility`) | round-robin counters | candidates for a route and a session seed, from one snapshot | `Planner` |
| provider limiter (`internal/transport/limiter.go`, `forward`) | three buffered channels per provider, a map of limiters | LoadOrStore, Acquire, Release, refill | `Limiter` |
| catalog (`internal/catalog/catalog.go`) | models, quarantine, verified-tools marks, capability evidence, cache file | bootstrap, refresh, remove and restore models, record, reset, prune, persist | `Catalog` (inventory and file), `Evidence` (capability evidence) |
| probe runner (`internal/catalog/probe_runner.go`) | none | build and judge one upstream probe | its outcome, in `Evidence` and `Heartbeat` |
| probe manager (`internal/admin/probe.go`) | the one running probe, its results, the daily budget | start, run, hook | `Heartbeat`, `Evidence`, `ProbeBudget` |
| heartbeat (`internal/admin/heartbeat.go`) | timer, current round and its counters, backoff per target | select, begin or defer, observe | `Heartbeat` |
| configuration store (`internal/routing`) | the published configuration and its revision, `config.json` | UpdateTransactional, Apply, load | `Administration`; overrides in `Evidence` |
| admin services (`internal/admin/services.go`, `oauth.go`) | `updateMu` over the stores below them | update a configuration, save and delete a credential, finish an OAuth login, with compensation | `Administration`; effects on evidence in `Evidence` |
| credential vault, provider registry (`internal/credentials`, `internal/provider`) | secrets in the Keychain or a file; formulas and user providers with their keys | Get, Set, Delete; ReloadWithManifest, Backup and its rollback | `Administration` |
| adapters, streaming, multipart parsing, responses, metrics | none the loop decides on | formatting, parsing, copying | as inputs of `Gateway` |
| statistics store (`internal/statistics`) | counters per (model, capability), the file, one mutex | New with load, Record with its save | `Statistics`, `DurableState` |
| service installer (`internal/service`) | binary, environment snapshot, unit files; what launchd or systemd knows | Install, Start, Stop, Restart, Uninstall | `Daemon` |
| validate-models (`cmd/validate_models.go`) | one goroutine per probe, a semaphore, a mutex per provider, the results | select probes, pace, ask, retry, infer, report | `Validation` |
| transport, doctor, landing, tray, logging, the rest of the CLI, admin HTTP, web UI | wiring, presentation | | not modelled |

### How the parts meet

A request enters `proxyJSON`. The planner takes an eligibility snapshot (catalog,
configuration, tracker) and returns a list. The loop asks the tracker for each
candidate (`TryAcquire`), defers a `Release`, builds the upstream request with an
adapter, sends it through the provider's limiter and reports what happened
(`Success`, `Failure`). The tracker saves itself after each change that matters.
Beside the requests, probes record their success in the catalog and report
`ProbeSuccess` or `ProbeFailure` to the same tracker; the heartbeat and the
operator start them through one run slot. Operators reset the tracker and change
the configuration, a refresh rebuilds the catalog and then brings tracker and
catalog together (`syncVerifiedHealth`): all of that changes what the next
snapshot shows. Nothing holds one lock across these steps: the
interesting behaviour is in the gaps.

### What is hard, and what makes each part correct

* **Tracker.** Three breaker levels interact (model, capability, provider) and
  any operation may follow any other. A target shown as healthy must be one the
  breaker admits; a target that used up its failures must stay gated until
  something proves it recovered; a half-open state must admit one trial.
* **Persistence.** Savers overlap between two locks, a write may fail or break
  off, the process may die. The file must never go back to an older state, and
  what an operation returned must be in it unless its write failed.
* **Attempt loop.** Every exit path must answer once and give back each slot. A
  generation request must not reach two upstreams. A second pass must not retry
  what failed, and everything must end.
* **Planner.** A plan goes through filters, orders, rotations and cuts in a
  particular sequence; each is simple, and the order they come in decides
  whether a usable model is lost or a conversation jumps between models.
* **Limiter.** Three selects with deadlines in a row; each way out must undo
  exactly what was done, and the first callers race to create the limiter.
* **Catalog and probes.** The answer of a probe comes back to a world that has
  changed: the override, the manifest, the record it replaces. Catalog and
  tracker hold two views of the same fact under two locks. What a stable route
  takes must have been proven as it is now, and a refresh must not lose it.
* **Heartbeat.** Rounds, manual runs and traffic overlap; results arrive in later
  rounds than the one that sent them. One run at a time, honest counters, and
  every model must get its turn however many dead ones queue ahead of it.
* **Configuration, credentials, registry.** One change spans several stores that
  can each fail, and compensation may fail too; pages are old, the command line
  writes the same files, and the server may die between a save and a publish.
  What the stores hold must fit together afterwards, and the answer must say
  what they hold.
* **Inventory cache.** The file carries models of one manifest and the mark of
  another; a process that starts must take it as it is or rebuild, must not lose
  models, and must not publish what it could not save.
* **Budget of expensive probes.** It is charged before the run, the requests go
  out later, perhaps after midnight, after a crash or never. A day must not send
  more than its limit.
* **Statistics.** Every save may fail and the file may be unreadable at the next
  start; what was counted and saved must stay counted.
* **Service.** Each command is a list of external commands, some of whose
  failures are ignored, against a service manager that restarts crashed jobs and
  starts installed ones at login. Success must mean that the right binary runs,
  and uninstalled must stay uninstalled: no login starts the job again, which is
  not to say that no process of it is left running.
* **Validation.** Goroutines hold a slot of the semaphore while they wait for a
  provider's mutex; the command must end, and its report must leave nothing out.

`PROJECT.json` lists the hazards one by one with the line where each bites and
the properties that watch it.

## The modules

**HealthTracker** is `Tracker`. `states[<<model, capability>>]` and
`providerStates[provider]` are the two maps; `"absent"` is a key a map does not
have. One exported method is one action, since each runs under one lock. Times
are relative: `cool` is the number of clock ticks until `now()` is after
`CooldownUntil`, and `Tick` brings every cooldown nearer. Cooldowns are sets
because the code adds jitter. `ConsecutiveFailures` saturates at `MaxFailures`,
at or above the threshold, where the code no longer tells counts apart. Fields
that no decision reads (latency, messages, totals) are left out.

**HealthPersist** is the same tracker seen as a saver. The maps are one version
number; `Change` makes the next version, `Snapshot` copies it under the read
lock with a number, `Lock` takes `persistMu` and drops a stale snapshot,
`WriteSnapshot` renames, fails, or renames a file that was not written to its
end (`Lost`), which it takes for a success: `damaged` is such a file, that holds
no version and that `Restart` puts aside. Otherwise `Restart` loses memory and
loads the file. Three history variables (`fileSeq`, `broken`, `acked`) state the properties and
carry the proof; no guard reads them, `Restart` only uses `broken` to say what
nobody may rely on any more.

**DurableState** is what that promises: memory moves ahead, the file jumps to
any version memory has reached and never back, a restart resumes from the file;
a write may also spoil the file, and it then holds nothing rather than something
old. `HealthPersist` implements it with the identity mapping of `memory` and `file`
(`Durable`), `Statistics` target by target with its counted requests and a file
that is always whole (`Ledger`): both
instantiate it and state its specification as a property.

**Statistics** has one step for a request's `Record`, whose mutex covers the
count and the save; a failed save leaves the counters ahead of the file until
the next one. `Start` is `New` with `load`: a file that cannot be decoded keeps
the server from starting.

**Gateway** EXTENDS `HealthTracker` and adds concurrent handlers. A handler's
record holds the locals of `proxyJSON`: the candidate list and index, the strict
or loose phase, the targets whose `Release` is deferred (`held`), the models that
failed. `TryCandidate` is one turn of the loop up to the acquired slot, the
actions under `Execute` are the ways one attempt can end, `WriteFailure` is the
summary after the loop, `ReleaseHeld` runs the deferred calls one at a time, as
each takes the lock on its own. The request kinds are what the loop asks of a
request (capability, idempotent, defers its errors, has a loose pass); any of
these go together, except that a loose pass needs the deferral: tools are looked
for in the body of every JSON endpoint, an image generation's included. A list
the planner returned may be any list: it was made from an older snapshot, and a
model asked for by name is not filtered by health. The limiter's outcome is one
action (`LocalLimit`), its inside is the next module.

**Limiter** is one provider's limiter and the map entry it hangs from. Channels
are counters; a `select` is a choice between its ready cases; cancellation and
deadlines are ready at any time. Limiters are named for the caller that made
them, so a lost creation race leaves a visible second one.

**Heartbeat** is the loop of `heartbeatManager` and the slot of `probeManager`.
`SelectRound` is `runRound` up to `beginJobs`, `BeginRound` takes the slot or
defers, and between the two an operator's `ManualStart` may come first.
`ProbeFinished` is a worker's probe with what catalog and tracker make of it,
`Observe` is the hook that runs after it, so a result and its bookkeeping can be
apart. `report` is the status of the last round; its `current` says whether the
round number a worker carries is the one reported. Selection is by rank: a job
is in when fewer than `MaxProbesPerRound` jobs are ahead of it, which is what
sorting, interleaving providers, promoting and cutting amount to. Time is
relative, as in the tracker; a failure count is kept as the factor
`heartbeatBackoff` makes of it.

**Evidence** is what makes a target routable: `models` and `verified` are the
catalog's, `overrides` the configuration store's, `health` the tracker's verdict
reduced to what `Eligible` and the sync ask. A definition is its own
fingerprint; its revision stands for what a probe depends on. Scores are no part
of it, although README.md:284 counts a change of them as one that voids evidence:
`modelFingerprint` leaves them out, which `Catalog` keeps. A worker carries
the model of its candidate, which the record will name, and calls the model that
the catalog has when the probe is sent (`sent`): two refreshes may lie between
the one and the other. A probe's worker goes through `Send`, `ProbeReturned`, `Record` or
`ResetEvidence`, and `Conclude`, one lock at a time; `UpdateConfig` and
`ResetHealth` start a cleaner that removes evidence and then the verdict;
`Refresh` starts the sync, whose loops look at one target at a time and act on
it in a later step. Any save may fail. `Restart` is bootstrap and the sync that
`New` runs before anything is served. `proven`, `last`, `returned`, `disturbed` and
the field `crossed` of a job are history that no guard reads. Left out: two overlapping refreshes, and
what a kill loses of the tracker's own file, which is `HealthPersist`; which
models there are at all is `Catalog`.

**Catalog** is the inventory and its cache. `manifest` is what the registry
holds, `store` the published models, quarantine and verified-tools marks,
`cache` the file. A definition in the manifest is reduced to a revision, what it
can do, what it says of tool calls and its score; `Fingerprint` leaves the score
out, as `modelFingerprint` does. Every change goes through `Commit`: saved, then
published, or neither, in one step because `refreshMu` covers both. The file is
marked with the registry's manifest of that moment, whichever manifest the
models came from, and `Reload` may change the manifest between any two commits.
`CatalogRestart` starts a process with the same manifest or another and runs
`Bootstrap`, which takes the file or rebuilds. `DamageCache` stands for a file
that is missing, damaged or of another schema.

**ProbeBudget** is the other side of the probe manager: `StartModel` charges the
expensive jobs of a run to the budget file and starts it, `StartCheap` is every
other start, which leaves those jobs out; `Send` and `Answered` are its workers,
`Midnight` changes the day at any moment, `BudgetRestart` drops the run,
`DamageBudget` makes the file undecodable. `charged` and `sent` are history.

**Planner** computes plans from a `view`, which gives each model one of the five
conditions a snapshot can show for the route's capability. `Observe` changes the
view, `PlanConfigured` and `PlanDynamic` are the two branches of `candidates`,
and `plan` remembers the last list while the view it came from still holds. A
configured route is a list of strings. `Find` looks one up as the snapshot does,
by id or by upstream id, and what `Remaining` leaves out are the strings, which
is not the same when one of them is an upstream id.
Rotations, the stable sort by score and rank, the provider groups and the
attempt budget are operators named as in the code. Seeds are arithmetic modulo
`SeedSpan`, which stands for 2^64.

**Administration** follows one provider's credential and the configuration
through the operations that take `updateMu`. `file` and `keychain` are what the
vault keeps of it, `registry` the key requests would use, `config` and `disk`
the configuration in memory and in `config.json`, cut down to its revision and
whether it names a variable that is set (`env`). `job` says where the server's
operation is, and where the command line's is: both go through the same vault
steps, in processes of their own (`SetKey`, `Readback`, `RemoveKey`, `StoreFile`
and their failures). A server operation goes on with `Reload` or `ReloadFails`,
and the latter sends it through the vault once more with the old key
(`Compensation`). A configuration update is `Accept` or `Conflict`, the reload
with its backup, the save, the publication and the loop that invalidates
evidence, in that order. A page may be read at any time and sent any number of
times. `Restart` may come anywhere and builds memory from the stores. `answer`,
`faults`, `before` and `astray` are history: how the operation ended, which
faults it met that the code does not undo, what held when it began, and whether
the registry was left apart from the stores. No guard reads them.

**Daemon** writes each command of the service installer down as the script of
its steps, for launchd and for systemd, with what the code does when a step
fails: give up (`Must`), go on (`Try`), or go on if launchd has the job
nevertheless. `Proceed` runs the next step, which may fail; `Interrupt` ends the
command between two steps; `Crash`, `Quit` and `Login` are the service manager
and the user. What launchctl and systemctl do is external and reduced to the
effect each use has (`Can`, `Effect`). A running server is the pair of binary
and environment it was started with.

**Validation** is `validate-models` from the choice of providers to the exit
status. Each probe's goroutine goes through the semaphore (`Enter`), the
provider's mutex (`Lock`), its pause (`Paced`), the request (`Replied`) and
maybe a retry, which keeps the slot and takes no mutex. `After` is what a reply
makes of an outcome: a success leaves the error text of the attempts before it.
`Report` clones the
outcomes of chat for chat-tools, classifies the failures and counts.

**Lists** has the one loop several of these share, which goes through a list and
keeps some of its members (`Kept`): `excludeModels`, the health filters, the
provider groups. It is a recursive function in place of the library's
`SelectSeq`, so that what it keeps can be proved.

The `MC*` modules give constants their values. `MCDurable` and `MCDispatch` hold
several modules that share no state (each has variables and locks of its own in
the code): a behaviour picks a subject at the start and follows that module, so
that one run asks the questions of all of them without a product of their state
spaces. The tracker's maps (`HealthTracker`) are one of these subjects,
`breaker`; how they get into their file, with one version number in their place
(`HealthPersist`), is another, `health`. Definitions whose comment begins
"Mutant of ..." are plausible bugs of the operator they name; each property is
known to fail when one of them takes its operator's place.

## The runs

| run | instance | distinct states | what it shows |
|---|---|---|---|
| gateway | 2 concurrent requests over 2 models of 1 provider, both chats, both images or both images that name tools, with probes and resets of a chat target beside them | 1 233 388 | a model's half-open slot is always owned by a request that will release it; one answer per request; a non-idempotent request that defers no errors reaches at most one upstream |
| gateway_tools | 1 tool request with its loose pass, or 2 chats at once; lists that are empty, of two models, or of one model twice; fairness | 392 626 | the loose pass retries no failed model; every request returns; a credential quarantine runs out, also one that two attempts extend |
| durable | one of: a breaker of 1 provider, 2 models, 1 capability, threshold 2, 7 status codes; 3 overlapping saves and 5 changes of the tracker; an inventory of 2 models and 2 new manifests; counters of 2 targets; a budget of 3 over 2 days; 2 installations on either platform | 173 129 | every order of operations keeps healthy within available, and exhausted targets gated; tracker and statistics implement `DurableState`, what returned is in the file; the pool is complete and the cache agrees with the store; the budget holds; commands do what they answer |
| dispatch | one of: plans over 4 models of 2 providers, 4 routes, every view, 3 seeds; a limiter with 3 callers, 1 slot, 2 queue places, a bucket of 2; a validation of 3 models with 2 slots, fairness | 68 197 | plans select, cover, order and stick as the code says; channels match their owners, one limiter survives, no token is lost, waiting ends; the report is complete and the command ends |
| heartbeat | 3 targets of 2 providers, 2 probes a round, a manual run of two of them, backoff up to 2 intervals, fairness | 43 500 | one run at a time; counters belong to their round; reports close; rounds spread over providers; all recover when it is quiet |
| evidence | 1 model, 2 definitions or none, 3 overrides, 2 interventions | 530 482 | what is eligible was called as it is now, or its definition changed and came back during its probe; refreshes and restarts keep it; an undisturbed sync reconciles catalog and tracker |
| administration | 2 keys, 1 page that may be sent again, 3 revisions, the command line beside the server, with and without a Keychain | 902 501 | registry, vault and configuration stay in step; no update is lost; success means stored, failure means unchanged |

Five more runs end in a counterexample, each against a sentence of the
repository:

| run | sentence | what happens |
|---|---|---|
| provider_slot | "a half-open model can never wedge permanently" (`gateway.go:404`) | `TryAcquire` takes the provider's half-open slot, the model then refuses, and nobody releases the provider: all its models are refused until some other attempt, a reset or a restart clears the slot |
| replayed_generation | image and video generation "are not replayed automatically once an upstream may have received them" (`README.md:53`, in Chinese); "normally never replayed" (`attempt_executor.go:77`) | an image generation whose body names tools and that asks for a route defers its errors (`gateway.go:358`, `gateway.go:417`): an upstream answers 500, `attempt_executor.go:183` leaves the answer to the loop, and the next candidate gets the generation |
| revived | "until a manual check or a reset" (`README.md:722`, in Chinese); only targets "not isolated by the health check" are routed (`README.md:37`) | a failed provider test isolates a provider's models but leaves their records; the next refresh or restart finds the records and makes the models healthy again without a probe |
| stale_scores | "a score change must rebuild the catalog (so the new order is used)" (`catalog.go:1398`) | `persist` marks the file with the registry's manifest of the moment (`catalog.go:1071`). After a reload of a changed manifest the next recorded verification saves the old models under the new mark; the next start finds the mark current and the fingerprints, which leave scores out, equal, and keeps the old scores |
| install_restarts | running the installation again "updates the snapshot and restarts" (`README.md:147`, in Chinese) | under systemd the script ends in `enable --now` (`service.go:326`), which leaves an active unit alone: the old binary goes on with the old environment |

More places where the code parts from a comment, or from what one would expect,
were met while modelling and have no run of their own:

* With `--max-attempts 1` a degraded `openrouter/free` fills the plan before the
  health filter and empties it (`planner.go:214`): the proof of
  `AdvertisedIsServed` fails at that step, and goes through with the condition
  that room is left beside it (`RoomBesidePreferred`), under which the property
  is stated. `BestScoredKept` has the same condition, because that early return
  also comes before the scores. A padded tail rotates with the shared counter
  even for a request with a session seed (`planner.go:327` against
  `planner.go:90`); `SessionKeepsPrimary` is stated for the routes where it
  holds.
* `writeSnapshot` declares another `err` in the `if` around `Chmod` and `Write`
  (`tracker.go:662`): when one of them fails, a full disk for example, the outer
  one stays nil, the unfinished file is renamed over `health.json` and nothing is
  logged. The next start puts it aside and begins with empty maps, so that
  models isolated before come back, against "until a manual check or a reset"
  (`README.md:722`). `SavedInOrder` admits a file that holds nothing; that an
  older state never comes back is what it claims.
* A configured route may name a model by its upstream id (`catalog.go:848`), but
  `pickRemaining` leaves out ids only (`planner.go:316`): such a model is planned
  a second time in the tail, and twice among the configured ones when its id, or
  another model's entry that `Find` answers with it, is there too. Where an
  upstream id equals another model's id, the first of the two in the catalog
  hides the other. `PlannedOnce` and `AdvertisedIsServed` except these routes
  (`ByID`, `Unshadowed`).
* A probe calls the definition that the catalog has when it is sent
  (`probe.go:570`), and its record names the one of its candidate
  (`probe.go:575`). When a refresh changes the definition in between and another
  changes it back before the record is made, the target is eligible with a
  definition no probe has called, against "preventing stale verification"
  (`catalog.go:1188`). `EligibleWasProven` excepts exactly that (`returned`).
* A validation probe that succeeds after a retry keeps the error text of the
  attempt before it (`validate_models.go:250`), so that the report has outcomes
  that are ok and have an error. The counts and the exit status do not look at it.
* The rounds over the groups cover them once only while `seed + offset` and
  `seed + round` stay below 2^64; for a seed closer to it than the catalog is
  long, a plan may repeat a model or leave one out. The proofs need exactly that
  (`SeedClear`).
* An error response whose body cannot be read ends an ordinary chat request
  although candidates remain (`attempt_executor.go:122` against its comment at
  118).
* `Release` frees the slot of the model it is called for, whoever took it. The
  deferred release of a request that used the model earlier may clear the slot
  of another request's half-open trial, and a second trial is let in
  (`tracker.go:228`); `tracker_test.go:554` wants one at a time.
* `loadCache` keeps evidence of another manifest "for future rollbacks"
  (`catalog.go:1012`) that the `Refresh` it is followed by prunes at once.
* `Vault.Set` overwrites the Keychain item before it saves the file, and deletes
  it when the save fails: the old secret is gone although the call failed
  (`vault.go:99`, `vault.go:114`). `Vault.Delete` removes the item before the
  save (`vault.go:134`). `FailureLeavesNoTrace` excepts failed saves for that.
* The old key that compensation would put back is read with its errors ignored
  (`services.go:116`). If that read fails and then the reload does, the
  compensation of a save deletes the credential.
* An update whose evidence cannot be invalidated is answered as failed although
  it is saved and in force (`services.go:75`), and an OAuth login whose reload
  failed is answered "credentials saved" (in Chinese, `oauth.go:151`) although
  they were put back.
* A session's seed hashes the system and user messages among the first six of a
  request (`gateway.go:517`), so that it changes with the second and third user
  turn, although "All requests in the same multi-turn dialog hash to the same
  seed" (`gateway.go:504`). `SessionKeepsPrimary` speaks of requests with one seed.
* A `Retry-After` cooldown may be shortened by a failure of a request that began
  before it and ends after it (`tracker.go:370`).
* The command line and the server rewrite `credentials.json` under locks of
  their own; each may overwrite what the other wrote in between.

### Bounds, and why they are enough

* Two models of one provider are the smallest case in which a model's and its
  provider's breaker disagree; the sibling shows what a provider's state does to
  a model that did nothing. One capability is enough for the tracker, since
  capabilities of one model share nothing but the provider.
* `FailureThreshold` is 2 for the subject `breaker`, so that below, at and above
  it differ, and 1 in the gateway runs, where opening quickly is what matters.
  Cooldowns last one or two ticks, so that a transient and a credential
  quarantine are told apart.
* Two handlers are enough for every conflict over one slot: its taker and one
  other. Handlers and savers that are alike are declared symmetric, in runs
  without liveness properties only.
* Candidate lists have up to two models (first and last differ), and the retry
  budget is 1, so lists that exhaust the budget occur. Image requests come with
  two candidates, so that there is always one to send them to again; those that
  name tools get one model twice, which only their deferral brings to a second
  attempt.
* Two chats of `gateway_tools` may both be at an upstream when one of them
  is answered 401: the other's answer extends the quarantine.
* `MaxVersion` 5 lets three savers overlap after two earlier changes; the proofs
  do not need it.
* The inventory has one model that changes its score and then its definition,
  and one that comes and goes; two new manifests (`MaxReloads`) are a reload and
  a change back, or a reload and a different one at the restart. The proofs need
  no bound. Statistics count up to 2 requests of a target: one saved and one not.
* A budget of 3 for three expensive functions of two models: one model costs 2,
  the other 1, so that two runs fill it and a third is refused; after `Forget`
  and on the second day (`LastDay`) there is a next one. The theorem needs none.
* Two installations (`MaxInstalls`) tell an old binary and environment from new
  ones; crashes, logins, commands and interruptions are not counted.
* Validation has three probes, two of one provider, and two slots: one probe
  waits for a slot, and one in a slot may wait for the other's mutex. Its five
  replies take each branch of the retry; one model lists chat-tools with chat,
  one without.
* Three callers with one slot and two queue places fill each channel and leave
  one caller outside. `RateTenths` 6 makes the bucket's capacity 2 and its first
  fill 1, so both a full and an empty bucket occur.
* Three targets of two providers with two probes a round: one target always
  waits, and which one depends on the interleaving. One of them answers either
  way and is tripped by traffic, one is dead, one is well. A run may outlast the
  gap between two rounds (`MaxRunTicks` 1), so rounds are deferred and results
  arrive late. `MaxBackoffRate` 2 lets the factor grow and reach its cap.
* One model with one probed capability is enough for the evidence: targets share
  nothing but the steps that touch all of them. Two interventions allow a change
  and its return while a probe runs: without its exception `EligibleWasProven`
  fails in this run. Refreshes, probes and traffic are not counted; the proofs
  need no bound.
* Two keys tell an old credential from a new one and from the environment's.
  Three revisions let a page be stale by one and by two, and a further update
  follow a restart. One page is enough to be stale, since it may be sent again
  after it was accepted; the theorems are for any number of pages and revisions.
* The planner's four models have three upstream ids besides their own: two share
  one. One configured route has ids only; the other has an id that is gone, the
  shared upstream id and the id of one of the two models, so that without `ByID`
  `PlannedOnce` fails.
* The planner's `SeedSpan` is 16 in place of 2^64, with seeds on both sides of
  the wrap. Seeds within the catalog's length of the wrap are excluded from the
  properties about covering the groups (`SeedClear`): there the code's remainders
  jump. With a 64-bit hash nobody will meet it. Counters count modulo
  `NextPeriod`, 2 in the run, which stands for a number of requests that never gets to 2^64.
  The run has a budget of two, so that it is spent with and without
  `openrouter/free`; the theorems are for every budget, one included.

### Fairness

`gateway_tools` assumes that a handler keeps running (`WF` of `Serve` for each
request: it is a goroutine whose upstream calls have timeouts) and that the clock
advances (`WF` of `Elapsed`). Arrivals, probes and resets are not fair: a
quarantine must end without them. Of the limiter, `dispatch` assumes only that
the two deadlines of `Acquire` fire. `Release` is not fair, because an upstream
may never answer, and taking a token or a slot is not, because Go does not
promise which waiter a channel serves. Of the validation it assumes that each
probe's goroutine goes on when it can and a request ends at its timeout (`WF` of
`Step` for each probe), and that the report is written; every probe ends after
at most three attempts, so that it does not matter whom a slot or a mutex is
given to. Each of these conditions names the subject it belongs to, since its
steps are not enabled in the behaviours of the others.

`heartbeat` assumes that the clock advances, that the loop goroutine takes its
turns, that every probe returns and is observed (each has a timeout), and that
the run's goroutine then frees the slot. Manual runs and traffic are not fair.
Recovery is claimed under the condition that both are quiet from some point on
and that runs end before the next round is due: without it a manual run may hold
the slot at every round, or a model may be tripped again each time.

## The proofs

| theorem | for every |
|---|---|
| `TrackerTypeCorrect`, `HealthyIsAvailable`, `ExhaustedIsGated` (`HealthTrackerProofs`) | providers, models, thresholds, cooldowns |
| `GatewayTypeCorrect`, `ModelSlotsOwned`, `RequestsAnsweredOnce`, `PlainGenerationOnce`, `FailedNotRetried` (`GatewayProofs`) | requests, kinds, candidate lists, retry budget |
| `PlansAreSelectable`, `PlansNameOnce`, `ConfiguredAreReachable`, `AdvertisedAreServed`, `BestScoresAreKept`, `SessionsKeepPrimary` (`DispatchProofs`) | catalogs, providers, routes, scores, budgets, seeds, views |
| `LimiterIsShared`, `LimiterAccounts`, `TokensAreKept` (`DispatchProofs`) | callers, rates, slots, queues |
| `ReportsAreComplete` (`DispatchProofs`) | models, functions, replies, concurrency |
| `HeartbeatTypeCorrect`, `RunsNeverStacked`, `CountsInRound`, `RoundsSettle`, `RoundsSpread`, `RoundsAreFull` (`HeartbeatProofs`) | targets, settings, answers, manual runs |
| `EvidenceTypeCorrect`, `EligibleTargetsProven`, `EvidenceIsKept`, `SyncsReconcile` (`EvidenceProofs`) | models, definitions, overrides, interventions |
| `AdministrationTypeCorrect`, `RegistryInStep`, `LostUpdateFree`, `AnswersAreStored`, `FailuresLeaveNoTrace` (`AdministrationProofs`) | keys, pages, revisions |
| `PersistTypeCorrect`, `PersistSavesReturned`, `PersistImplementsDurable` (`DurableProofs`) | operations and changes |
| `CatalogCacheIsStore`, `CatalogPoolIsComplete` (`DurableProofs`) | models, definitions, manifests |
| `StatisticsAreDurable` (`DurableProofs`) | targets, usages, number of requests |
| `BudgetHolds` (`DurableProofs`) | models, functions, limit, days |
| `CommandsTakeEffect`, `UninstallLasts` (`DurableProofs`) | failures, crashes, logins and interruptions, in any order, on either platform |

With that every invariant and every action property that a run checks, and
both refinements, are theorems; `RoundsAreFull` is one that no run states.

The theorems rest on the named assumptions of the modules. Most say how the
constants are typed (`ProviderAssumption`, `ThresholdAssumption`,
`CooldownAssumption`, `KindAssumption`, `NoOneAssumption`, `TargetAssumption`,
`SettingsAssumption`, `InputAssumption`, `KeyAssumption`, `RevisionAssumption`,
`LimiterAssumption`, `ValidationAssumption`, `BudgetAssumption`), finite sets
included where the code counts them; the parts about the inventory, the
statistics and the service assume nothing. `ListAssumption` is a typing too: the
planner's lists may name a model twice, and no theorem about requests needs that
they do not. `KindAssumption` adds to the types only that a request with a loose
pass defers its errors (`gateway.go:385` against `gateway.go:417`). One says more:

* `PlannerAssumption`: the catalog lists a model once, because a manifest
  that repeats one is refused (`provider.go:308`) and a cache that does is not
  taken (`catalog.go:1122`); a route has no string twice, because the
  configuration store drops repeats (`routing/store.go:450`), though two strings
  may find one model; the ids that
  are sorted come from a map and differ; and a counter and the length of the
  catalog together stay below 2^64.

The library's induction theorems take a predicate as a parameter, which the
installed provers cannot instantiate. `ListProofs` states induction over the
numbers for a set in its place (`SetInduction`), and from it that the recursive
function of a loop exists and what one step of it is (`LoopRuns`, `HasRun`). All
facts about lists follow: which members a loop keeps and in what order, that a
sort keeps them all, that what is put together from lists without a repetition
has none, that a list without a repetition is as long as its set is large.

* **Tracker.** Neither safety property is inductive: that a healthy target is
  available depends on a healthy state having no cooldown left, and that an
  exhausted target is gated on what its status says of its count. The invariant
  is one statement per map entry, `SoundEntry`, that every operation on an entry
  keeps; a lemma per entry operation proves that, and each action maps lemmas
  over the entries it changes. The type invariant needs it as well: that
  `inFlight` stays at most 1 follows from `SlotFree`, not from the assignment.
* **Persistence.** The invariant orders what every saver carries: a snapshot
  with a smaller number holds an older version; the file holds the version of
  the last number saved; no operation in the critical section has a number at or
  below `persistSeq` except its own; and a change that returned is in the
  snapshot of the last number that reached the lock. The comment at
  `tracker.go:91`, that `persistSeq` is the last sequence number written, is true
  only while the latest write succeeded (`LastWriteOnDisk`). Refinement follows:
  `Change` and `VolatileChange` are the abstract `Change`, `WriteSnapshot` is
  `Save`, `Spoil` or a stutter, `Restart` is `Restart`, the rest stutters.
* **Attempt loop.** The invariant has three parts. The tracker's `Inv` is kept
  because every step of a request, a probe or an operator is operations of the
  tracker on real targets (`OutcomeOnTracker`). `ReqInv` is per handler:
  `written` is 1 exactly when the handler is releasing, an attempt is of a
  candidate inside the list, an idle handler holds nothing, and a non-idempotent
  request that defers no errors and whose attempt may have reached an upstream is
  either releasing or past its last candidate; there the retry policy, the "reached the upstream" flag and
  the deferral on the last candidate have to agree. `ModelSlotOwned` relates the
  two: only a granted `TryAcquire` takes a model's slot, in the step that adds
  the target to `held`; a step that takes none keeps what is held; a `Release`
  forgets the target whose slot it frees. The same argument fails for the
  provider's slot, where a refused `TryAcquire` can take it: that is the finding
  `provider_slot`. `FailedModelNotRetried` looks at the candidate in hand of a
  loose pass; what is inductive is that no candidate of that pass is one that
  failed in the strict pass (`UntriedAhead`), because the list is what
  `excludeModels` keeps and nothing is added to the failed ones afterwards.
* **Planner.** A plan is history: it must be tied to the counters it was made
  from, which move on. The invariant says of the last plan that it is what its
  route, the view and its seed, or some value of the counters, give
  (`MadeFrom`); five of the six theorems are then about the operators, for any
  value of the counters, and the sixth (`SessionsKeepPrimary`) about two plans
  of one seed. The operators go in three steps. Each filter, rotation and cut
  has a lemma that says which models it leaves and that it repeats none;
  `Insert` keeps the scores falling because `Before` never puts a lower score
  first, although it is not transitive among equal scores. What the entries of a
  route find is the image of those that are kept under `Find` (`UsableSet`), and
  repeats no model when each finds the model it is the id of. The rounds come to
  each place of each group exactly once when no sum wraps (`Turns`,
  `RoundsCover`): within a round the offsets visit the groups, and over the
  rounds a group visits its own models. `Groups` partitions the members, so that
  no model is met in two of them.
* **Limiter.** `ChannelsAccounted` says that a counter is the number of its
  users, which is inductive only when it is known whose limiter each caller uses
  and that a limiter nobody has is empty (`Attached`, `MadeOnce`). The callers'
  steps are moves of one user from one channel to another (`CallerMoves`): one
  lemma shows that such a move changes counters and sets of users alike, and
  another what it does to the tokens.
* **Validation.** The report is written once and nothing moves after it
  (`ReportStands`): it is enough to look at the sets it is made of.
* **Heartbeat.** The invariant counts. While results of the reported round count,
  its counters and the probes under way add up to the round (`RoundAddsUp`); a
  free slot means nothing is under way (`SlotCoversRuns`); an open round is about
  to start or has probes to wait for (`OpenRound`). `NeverStacked` needs
  `SlotCoversRuns` at the moment a run takes the slot, `RoundSettles` is the sum
  at the moment nothing is under way. The selection is a matter of order: both
  kinds of jobs are strictly ordered, promotion of the chat-tools jobs included
  (`AheadOrders`), so that counting those ahead of a job and cutting a sorted
  list are the same (`RoundSize`). That `Ahead` models `sort`, `interleave`,
  `promote` and the cut rests on this.
* **Evidence.** `EligibleWasProven` is not inductive: it speaks of eligible
  targets only, and a target becomes eligible by a change of override long after
  its record was written. The invariant says of every record, eligible or not,
  that a probe called and passed with its definition, or the definition came back
  during the probe, or the record's two definitions differ, so that nothing in
  force can match it (`RecordsProven`). It says of a worker that as long as its
  definition has not changed the catalog's is its candidate's, so that this is
  what it calls, and about to write a record has seen pass (`WritersProven`). A
  refresh that changes the definition ends that; one that brings it back is what
  the property excepts. Steps that only remove records and leave definitions
  alone, or stop all workers, are settled by one lemma (`RemovalInv`).
  `EvidenceIsKept` needs no invariant: an eligible target's record survives
  `Pruned` and a healthy verdict survives `Synced`. `SyncReconciles` needs to
  know, at each step of a sync that is alone, what its loops have looked at: in
  the first one, that what is neither left nor picked has evidence, in the
  second, that no verdict is without evidence and no evidence without a verdict
  but for what is left (`SyncTracks`). Traffic may go on, since it turns verdicts
  a probe gave into one another only.
* **Administration.** The invariant says, for each point an operation can be at,
  what it has done and what it can still undo. `Writing`: while the server is
  about to replace the file, the Keychain holds the key, or the record does, so
  that success means stored, provided nobody interfered. `Undoing`: from the
  first step to the last, either a fault was met that nothing undoes, or the old
  key is known and the registry is what it was. `Revisions`: a page is of the
  configuration in force or of an older revision, and an update under way is of
  the one on disk; that is what makes equal revision numbers mean equal
  contents, and `NoLostUpdate` hold across a restart between `SaveConfig` and
  `Publish`. `InStep` is `RegistryFollowsStores` carried through the steps at
  which it does not hold yet.
* **Inventory.** Both properties are inductive once it is known that the store and
  the saved state are records of three fields, which is all `Shape` says: a
  commit that changes one of them leaves the others alone (`CommitAgrees`). The
  substance is `BootstrapComplete`: a process either takes a file whose models
  match what its manifest stands for, with what it remembers of the file, or
  builds exactly those models; what it remembers is what the file holds
  (`RememberedIsState`). That a rebuild without a save ends the process is what
  keeps file and memory together.
* **Statistics.** Each target's counter is a `DurableState`: that a save never
  lowers it needs that a server that has loaded the file counts at least what
  the file holds.
* **Service.** What a command still has to do is its remaining script. A script
  that starts the service has one decisive step that must succeed, and after it
  only steps about the tray (`ScriptSound`), which each of the code's scripts
  satisfies and each tail of it. Then a command on its way has its decisive step
  ahead of it or a server that runs what is installed (`CommandOnTrack`), and
  after an uninstallation no job has a file (`RemovedIsGone`).
* **Budget.** That the requests sent stay within the limit says nothing of those
  a run has still to send. The invariant counts both: what a day owes, sent and
  waiting, is covered by what the file holds for that day and is nothing for a
  day the file has not reached (`OwedIsCovered`). A new run on the day of the
  file adds its cost to both sides, a run on a later day starts from zero, and a
  run that is lost only lowers what is owed.

### Only model-checked

Liveness is beyond the prover, and with it `RequestsReturn`, `QuarantineExpires`,
`AcquireReturns`, `CommandEnds` and `RecoversWhenQuiet`: TLC checks them on the
instances above. The five findings are counterexamples of TLC.

The theorem about best scores is about insertion, which is what
`sort.SliceStable` does to a slice of up to twenty models; for a longer one Go
merges blocks that are sorted so, and the order among equal scores may be
another. Scores fall either way.

### Not modelled

Bytes: request building, stream copying, tool-call repair, usage parsing, form
parsing; what the loop decides from them is an input of `Gateway`. Outcomes of an
upstream are any status code of a small set. Metrics, logs, pages and the rest of
the CLI carry no state the modules read; doctor and tray only look or ask the
service. Of the catalog, the discovery of models from providers (a maintainer's
command that writes a new manifest) and the inference of functions for caches of
other versions; of the service installer, Logs and the wording of Status; of the
validation, how long pauses last and the env file it may read; of the statistics,
latencies and rates. A conversation's seed is an input of the planner.

Four hazards of `PROJECT.json` have no property, because no code guards against
them and nothing the repository says of them could be checked to hold: the late
deferred release (`tracker.go:228`), the late failure that shortens a cooldown
(`tracker.go:370`), the unreadable error body (`attempt_executor.go:122`) and the
command line that writes beside the server (`cmd/auth.go:107`). The steps
themselves are in the models.

## Plan

What is left, in the order of what it would add:

1. `Conversations`: how the seed follows a growing dialog, composed with
   `Planner`.
2. An abstract specification for `Administration`, a credential and a
   configuration that change in one step or not at all, and the refinement on
   behaviours without faults; several providers in one `credentials.json`.
3. Two overlapping refreshes in `Evidence`, and a composition of it with
   `Catalog` over one cache file.
4. Proofs: what the fair runs of a request and of a round may rely on (a bound on
   the attempts a request still has, one on the ticks until a round).
