------------------------------- MODULE Catalog -------------------------------
(***************************************************************************)
(* The model inventory and its cache (internal/catalog: Bootstrap,         *)
(* loadCache, Refresh, RefreshProvider, RemoveModel, RestoreModel,         *)
(* RecordToolSupport and the verification records' saves).  The registry   *)
(* holds the maintained manifest; the store holds the models built from    *)
(* it, less the quarantined ones, plus what tool probes have proved; and   *)
(* every change is saved before it is published.                           *)
(*                                                                         *)
(* refreshMu is held from the snapshot to the publication of a change, so  *)
(* a commit is one step that a failed save leaves out.  A reload of the    *)
(* registry takes another lock: the manifest may change between any two    *)
(* commits, and the server refreshes the inventory only when an operator   *)
(* asks or a configuration update needs it.  The records themselves are    *)
(* module Evidence.  RefreshProvider, RemoveModel and RecordToolSupport    *)
(* have no caller yet outside the package's tests.                         *)
(***************************************************************************)
EXTENDS Naturals

CONSTANTS
  Listed,      \* model ids
  Candidates,  \* model -> the definitions a manifest may have of it
  Owner,       \* model -> its provider
  MaxReloads   \* bound on the manifests that are read

\* A definition in the manifest.  rev stands for the metadata a fingerprint
\* covers; tools says what supported_parameters, which it covers as well, say
\* of tool calls; score is the quality, which it does not cover.
Candidate == [rev : Nat, functions : SUBSET {"chat", "image", "chat-tools"},
              tools : {"listed", "denied", "silent"}, score : Nat]

Missing == [rev |-> 0, functions |-> {}, tools |-> "silent", score |-> 0]

\* What the store makes of one.
Model == [rev : Nat, functions : SUBSET {"chat", "image", "chat-tools"}, score : Nat]

Gone == [rev |-> 0, functions |-> {}, score |-> 0]

VARIABLES
  manifest,  \* model -> its definition in the registry
  serving,   \* Bootstrap has returned without an error
  store,     \* catalog.Store: models, quarantine and verifiedTools
  cache,     \* the cache file; an unusable one is missing, damaged or of another schema
  fresh,     \* history: nothing has happened since the process started
  reloads    \* bound

catalogVars == <<manifest, serving, store, cache, fresh, reloads>>

-----------------------------------------------------------------------------
(* From a definition to a model *)

\* modelFingerprint
Fingerprint(model) == [rev |-> model.rev, functions |-> model.functions]

NotQuarantined == [m \in Listed |-> Fingerprint(Gone)]

Empty == [models |-> [m \in Listed |-> Gone], quarantine |-> NotQuarantined, tools |-> {}]

\* discoveredToolCapability and advertisesToolCandidate: a chat model is a tool
\* candidate unless its parameters are known and leave tools out.
Advertises(candidate, functions) ==
  /\ "chat" \in functions
  /\ candidate.tools # "denied" \/ "chat-tools" \in candidate.functions

WithTools(candidate, functions) ==
  IF Advertises(candidate, functions) THEN functions \cup {"chat-tools"} ELSE functions

\* modelsFromDiscovery
Built(candidate) ==
  IF candidate = Missing THEN Gone
  ELSE LET listed == IF candidate.functions = {} THEN {"chat"} ELSE candidate.functions
       IN [rev |-> candidate.rev, functions |-> WithTools(candidate, listed),
           score |-> candidate.score]

\* applyVerifiedTools for one of the models
Promoted(model) ==
  IF "chat" \in model.functions THEN [model EXCEPT !.functions = @ \cup {"chat-tools"}] ELSE model

\* applyQuarantine: the same broken model stays out, a changed one may come back.
Admitted(model, fingerprint) == IF fingerprint = Fingerprint(model) THEN Gone ELSE model

\* The models a manifest stands for, given what the store knows beside it.
Routable(definitions, state) ==
  [m \in Listed |->
     LET built == Built(definitions[m])
     IN Admitted(IF m \in state.tools THEN Promoted(built) ELSE built, state.quarantine[m])]

\* catalogFingerprint: the fingerprints and scores of the registry's definitions.
CatalogFingerprint(definitions) == [m \in Listed |-> Built(definitions[m])]

NoCache == [usable |-> FALSE, catalog |-> CatalogFingerprint([m \in Listed |-> Missing]),
            state |-> Empty]

-----------------------------------------------------------------------------
(* Saving and loading *)

\* Mutant of Commit: the change is published whether or not it was saved.
CommitPublished(next, saved) ==
  /\ cache' = IF saved THEN [usable |-> TRUE, catalog |-> CatalogFingerprint(manifest), state |-> next]
              ELSE cache
  /\ store' = next

\* persist, which may fail, and only then publish.  The file is marked with the
\* registry's manifest, whichever manifest the models came from.
Commit(next, saved) ==
  IF saved
  THEN /\ cache' = [usable |-> TRUE, catalog |-> CatalogFingerprint(manifest), state |-> next]
       /\ store' = next
  ELSE UNCHANGED <<store, cache>>

\* loadCache reads a model: what it can do with tools is taken from the manifest.
Reread(model, candidate) ==
  IF model = Gone \/ candidate = Missing THEN Gone
  ELSE [model EXCEPT !.functions = WithTools(candidate, @ \ {"chat-tools"})]

\* What a new process knows of the cache before it looks at its models: the
\* marks of tool probes, which have no fingerprint, only under the same manifest.
Remembered(definitions) ==
  [Empty EXCEPT
     !.quarantine = IF cache.usable THEN cache.state.quarantine ELSE @,
     !.tools = IF cache.usable /\ cache.catalog = CatalogFingerprint(definitions)
               THEN cache.state.tools ELSE @]

CachedModels(definitions, known) ==
  [m \in Listed |->
     LET model == Reread(cache.state.models[m], definitions[m])
     IN IF m \in known.tools THEN Promoted(model) ELSE model]

\* Mutant of MatchesManifest: every cached model is in the manifest, but a model
\* of the manifest may be missing.
MatchesManifestPartly(models, expected) ==
  \A m \in Listed : models[m] # Gone => Fingerprint(models[m]) = Fingerprint(expected[m])

\* cachedModelsMatchManifest
MatchesManifest(models, expected) ==
  \A m \in Listed : Fingerprint(models[m]) = Fingerprint(expected[m])

\* Bootstrap in a new process: the cache if it can be used as it is, otherwise a
\* rebuild.  A rebuild that cannot be saved ends the process.
Bootstrap(definitions, saved) ==
  LET known == Remembered(definitions)
      expected == Routable(definitions, known)
      cached == CachedModels(definitions, known)
      loaded == /\ cache.usable
                /\ cache.catalog = CatalogFingerprint(definitions)
                /\ MatchesManifest(cached, expected)
      rebuilt == [known EXCEPT !.models = expected]
  IN IF loaded
     THEN /\ serving' = TRUE
          /\ store' = [known EXCEPT !.models = cached]
          /\ UNCHANGED cache
     ELSE /\ serving' = saved
          /\ store' = IF saved THEN rebuilt ELSE known
          /\ cache' = IF saved
                      THEN [usable |-> TRUE, catalog |-> CatalogFingerprint(definitions),
                            state |-> rebuilt]
                      ELSE cache

-----------------------------------------------------------------------------
(* The operations *)

Manifests == {d \in [Listed -> UNION {Candidates[m] : m \in Listed}] :
                \A m \in Listed : d[m] \in Candidates[m]}

CatalogInit ==
  /\ manifest \in Manifests
  /\ serving = FALSE /\ store = Empty /\ cache = NoCache /\ fresh = TRUE /\ reloads = 0

\* The process ends and a new one starts, maybe a new release or another file
\* behind --free-models.
CatalogRestart(definitions, saved) ==
  /\ definitions # manifest => reloads < MaxReloads
  /\ reloads' = IF definitions = manifest THEN reloads ELSE reloads + 1
  /\ manifest' = definitions
  /\ fresh' = TRUE
  /\ Bootstrap(definitions, saved)

\* A cache that another version or a failing disk left behind.
DamageCache ==
  /\ ~serving /\ cache.usable
  /\ cache' = NoCache
  /\ UNCHANGED <<manifest, serving, store, fresh, reloads>>

\* ReloadWithManifest: a saved credential has the manifest read again.
Reload(definitions) ==
  /\ serving /\ definitions # manifest /\ reloads < MaxReloads
  /\ manifest' = definitions
  /\ reloads' = reloads + 1
  /\ fresh' = FALSE
  /\ UNCHANGED <<serving, store, cache>>

Operated == fresh' = FALSE /\ UNCHANGED <<manifest, serving, reloads>>

Refresh(saved) ==
  /\ serving
  /\ Commit([store EXCEPT !.models = Routable(manifest, store)], saved)
  /\ Operated

RefreshProvider(m, saved) ==
  /\ serving
  /\ Commit([store EXCEPT !.models = [n \in Listed |->
               IF Owner[n] = Owner[m] THEN Routable(manifest, store)[n] ELSE @[n]]],
            saved)
  /\ Operated

RemoveModel(m, saved) ==
  /\ serving /\ store.models[m] # Gone
  /\ Commit([store EXCEPT !.models[m] = Gone,
                          !.quarantine[m] = Fingerprint(store.models[m])], saved)
  /\ Operated

\* Only a quarantined model that is not listed comes back; one that is listed
\* again, because it has changed, keeps its entry.
RestoreModel(m, saved) ==
  /\ serving
  /\ store.quarantine[m] # Fingerprint(Gone)
  /\ manifest[m] # Missing /\ store.models[m] = Gone
  /\ Commit([store EXCEPT !.models[m] = Built(manifest[m]),
                          !.quarantine[m] = Fingerprint(Gone)], saved)
  /\ Operated

RecordToolSupport(m, saved) ==
  /\ serving /\ store.models[m] # Gone
  /\ Commit([store EXCEPT !.models[m] = Promoted(@), !.tools = @ \cup {m}], saved)
  /\ Operated

\* A verification is recorded or reset: the whole state is saved as it is.
SaveRecords(saved) ==
  /\ serving
  /\ Commit(store, saved)
  /\ Operated

CatalogNext ==
  \/ \E definitions \in Manifests : Reload(definitions)
  \/ DamageCache
  \/ \E saved \in BOOLEAN :
       \/ \E definitions \in Manifests : CatalogRestart(definitions, saved)
       \/ Refresh(saved) \/ SaveRecords(saved)
       \/ \E m \in Listed : \/ RefreshProvider(m, saved) \/ RemoveModel(m, saved)
                            \/ RestoreModel(m, saved) \/ RecordToolSupport(m, saved)

CatalogSpec == CatalogInit /\ [][CatalogNext]_catalogVars

-----------------------------------------------------------------------------
(* Properties *)

\* "an unexplained partial cache must be rebuilt instead of silently shrinking the
\* fallback pool" (catalog.go:1104): a process that starts serves exactly the models
\* its manifest stands for, although the file may hold models of one manifest
\* under the mark of another.
PoolIsComplete ==
  fresh /\ serving =>
    \A m \in Listed : Fingerprint(store.models[m]) = Fingerprint(Routable(manifest, store)[m])

\* A change that could not be saved is not in force either: what the running
\* server knows of failures and tool probes is what the next one will know.
CacheIsStore ==
  serving => /\ cache.state.quarantine = store.quarantine
             /\ cache.state.tools = store.tools

\* "a score change must rebuild the catalog (so the new order is used)"
\* (catalog.go:1398): the server starts with the scores of its manifest.
ScoresAreCurrent ==
  fresh /\ serving =>
    \A m \in Listed : store.models[m] # Gone => store.models[m].score = manifest[m].score
=============================================================================
