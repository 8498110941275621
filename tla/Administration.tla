--------------------------- MODULE Administration ---------------------------
(***************************************************************************)
(* The administrative operations of internal/admin over the stores they    *)
(* keep in step: the credential vault (a file, and the macOS Keychain when *)
(* there is one), the provider registry, and the route configuration in    *)
(* memory and on disk.                                                     *)
(*                                                                         *)
(* Two processes use the vault: the server, whose operations take updateMu *)
(* one at a time, and the command line (auth add, auth remove), which has  *)
(* a Vault of its own and takes no lock of the server's.  Each step of the *)
(* vault may fail, the server may be killed between any two steps, and an  *)
(* editor may send a configuration it read long ago.                       *)
(*                                                                         *)
(* One provider is followed; every operation names one, and the others'    *)
(* entries are copied along.  Its key comes from the environment when the  *)
(* configuration maps a variable that is set (config.env), and from the    *)
(* vault otherwise.                                                        *)
(***************************************************************************)
EXTENDS Naturals

CONSTANTS
  Keys,         \* API keys an operator may save
  EnvKey,       \* the key in the environment
  NoKey,        \* no key, no record, no Keychain item
  InKeychain,   \* a record with backend "keychain"
  Hidden,       \* a Keychain item this security context cannot read
  Editors,      \* open pages that may send a configuration
  NoPut,        \* no page is open
  MaxRevision   \* bound: the highest revision of the configuration

ASSUME KeyAssumption ==
  /\ EnvKey \notin Keys /\ NoKey \notin Keys \cup {EnvKey}
  /\ InKeychain \notin Keys \cup {NoKey}
  /\ Hidden \notin Keys \cup {NoKey}

ASSUME RevisionAssumption == MaxRevision \in Nat \ {0}

VARIABLES
  useKeychain,  \* Vault.useKeychain: the server runs on a Mac
  file,         \* the provider's record in credentials.json
  keychain,     \* the provider's item in the Keychain
  registry,     \* the key of the provider in the registry
  config,       \* routing.Store.config
  disk,         \* config.json
  put,          \* editor -> the configuration it has edited and may send
  job,          \* process -> the operation it is in
  update,       \* the configuration update under way
  answer,       \* how the server's last operation ended
  faults,       \* history: what the server's operation met that nothing undoes
  before,       \* history: key and registry when the operation under way began
  astray        \* history: registry and stores may have parted

vault == <<useKeychain, file, keychain>>
settings == <<config, disk, put, update>>
history == <<answer, faults, before, astray>>
vars == <<vault, registry, settings, job, history>>

Processes == {"server", "cli"}
Secrets == Keys \cup {NoKey}
Records == Keys \cup {NoKey, InKeychain}
Steps == {"idle", "set", "readback", "remove", "store", "reload",
          "reload-config", "save-config", "publish", "invalidate"}

Configs == [revision : Nat, env : BOOLEAN]
Updates == [next : Configs, base : Configs, reloaded : BOOLEAN,
            backup : Secrets \cup {EnvKey}]
Jobs == [pc : Steps, kind : {"none", "save", "delete", "config"},
         key : Secrets, record : Records, old : Secrets, undo : BOOLEAN]

NoBase == [revision |-> 0, env |-> FALSE]
NoUpdate == [next |-> NoBase, base |-> NoBase, reloaded |-> FALSE, backup |-> NoKey]
Nothing == [secret |-> NoKey, registry |-> NoKey]
Idle == [pc |-> "idle", kind |-> "none", key |-> NoKey, record |-> NoKey,
         old |-> NoKey, undo |-> FALSE]

TypeOK ==
  /\ useKeychain \in BOOLEAN
  /\ file \in Records
  /\ keychain \in Keys \cup {NoKey, Hidden}
  /\ registry \in Secrets \cup {EnvKey}
  /\ config \in Configs /\ disk \in Configs
  /\ put \in [Editors -> [base : Configs, env : BOOLEAN] \cup {NoPut}]
  /\ job \in [Processes -> Jobs]
  /\ update \in Updates
  /\ answer \in {"none", "ok", "failed"}
  /\ faults \in SUBSET {"read", "save", "race"}
  /\ before \in [secret : Secrets, registry : Secrets \cup {EnvKey}]
  /\ astray \in BOOLEAN

-----------------------------------------------------------------------------
(* Reading the stores *)

\* Vault.Get when nothing fails.
Stored == IF file # InKeychain THEN file
          ELSE IF keychain \in Keys THEN keychain ELSE NoKey

\* Vault.Get: a failed read of the file or of the Keychain is "no key".
Got(secret) == secret \in {Stored, NoKey}
ReadFaults(secret) == IF secret = Stored THEN {} ELSE {"read"}

\* addIfConfigured: the environment first, then the vault.
Resolved(env, secret) == IF env THEN EnvKey ELSE secret

Busy == job["server"].pc # "idle"

\* No file yet, or one left by earlier use; the registry was just built.
Init ==
  /\ useKeychain \in BOOLEAN
  /\ \E k \in Secrets :
       /\ file = (IF useKeychain /\ k # NoKey THEN InKeychain ELSE k)
       /\ keychain = (IF useKeychain THEN k ELSE NoKey)
       /\ registry = k
  /\ config = [revision |-> 1, env |-> FALSE]
  /\ disk = config
  /\ put = [e \in Editors |-> NoPut]
  /\ job = [a \in Processes |-> Idle]
  /\ update = NoUpdate
  /\ answer = "none"
  /\ faults = {}
  /\ before = Nothing
  /\ astray = FALSE

-----------------------------------------------------------------------------
(* How an operation goes on, and how it ends *)

At(a, pc) == job[a].pc = pc

Goto(a, pc, record) == job' = [job EXCEPT ![a] = [@ EXCEPT !.pc = pc, !.record = record]]

\* What the command line does to the stores while the server runs.
Interfere ==
  /\ faults' = IF Busy THEN faults \cup {"race"} ELSE faults
  /\ astray' = TRUE
  /\ UNCHANGED <<answer, before>>

\* A step of a vault operation that is not its last.
Proceed(a) ==
  IF a = "server" THEN UNCHANGED history ELSE Interfere

\* Compensation covers what is not in faults; after anything else the stores
\* and the registry may disagree.
Answer(result, met) ==
  /\ answer' = result
  /\ faults' = faults \cup met
  /\ astray' = (astray \/ faults' # {})
  /\ job' = [job EXCEPT !["server"] = Idle]
  /\ update' = NoUpdate
  /\ before' = Nothing

\* Set or Delete returned an error: the command line gives up, and so does the
\* server, whose compensation ignores errors.
VaultError(a, met) ==
  IF a = "server"
  THEN Answer("failed", met)
  ELSE /\ job' = [job EXCEPT ![a] = Idle]
       /\ Interfere
       /\ UNCHANGED update

-----------------------------------------------------------------------------
(* Vault.Set and Vault.Delete, of either process *)

\* Loading the file failed; nothing was changed by this call.
LoadFails(a) ==
  /\ At(a, "set") \/ At(a, "remove")
  /\ VaultError(a, IF job[a].undo THEN {"read"} ELSE {})
  /\ UNCHANGED <<vault, registry, config, disk, put>>

\* A mutant of SetKey: a write that reports success is believed.
SetKeyTrusting(a) ==
  /\ At(a, "set")
  /\ IF useKeychain
     THEN \/ keychain' \in {job[a].key, Hidden} /\ Goto(a, "store", InKeychain)
          \/ keychain' \in {job[a].key, keychain} /\ Goto(a, "store", job[a].key)
     ELSE UNCHANGED keychain /\ Goto(a, "store", job[a].key)
  /\ Proceed(a)
  /\ UNCHANGED <<useKeychain, file, registry, settings>>

\* Set up to keychainSet: success, perhaps of an item that cannot be read back,
\* or failure, perhaps of a command that was killed after it had written.
SetKey(a) ==
  /\ At(a, "set")
  /\ IF useKeychain
     THEN \/ keychain' \in {job[a].key, Hidden} /\ Goto(a, "readback", NoKey)
          \/ keychain' \in {job[a].key, keychain} /\ Goto(a, "store", job[a].key)
     ELSE UNCHANGED keychain /\ Goto(a, "store", job[a].key)
  /\ Proceed(a)
  /\ UNCHANGED <<useKeychain, file, registry, settings>>

\* Set's check of its write; after a read that fails or shows another key the
\* item is deleted, if that works, and the file takes the secret.
Readback(a) ==
  /\ At(a, "readback")
  /\ \/ keychain = job[a].key /\ UNCHANGED keychain /\ Goto(a, "store", InKeychain)
     \/ keychain' \in {NoKey, keychain} /\ Goto(a, "store", job[a].key)
  /\ Proceed(a)
  /\ UNCHANGED <<useKeychain, file, registry, settings>>

\* Delete up to keychainDelete, whose failure is ignored.
RemoveKey(a) ==
  /\ At(a, "remove")
  /\ file # NoKey
  /\ keychain' \in IF file = InKeychain THEN {NoKey, keychain} ELSE {keychain}
  /\ Goto(a, "store", NoKey)
  /\ Proceed(a)
  /\ UNCHANGED <<useKeychain, file, registry, settings>>

\* Delete of a credential that has no record.
RemoveMissing(a) ==
  /\ At(a, "remove")
  /\ file = NoKey
  /\ VaultError(a, {})
  /\ UNCHANGED <<vault, registry, config, disk, put>>

\* save: the file is replaced.  Compensation ends the server's operation, and
\* the command line does not tell the server to reload.
StoreFile(a) ==
  /\ At(a, "store")
  /\ file' = job[a].record
  /\ IF a = "server" /\ ~job[a].undo
     THEN Goto(a, "reload", NoKey) /\ UNCHANGED <<history, update>>
     ELSE VaultError(a, {})
  /\ UNCHANGED <<useKeychain, keychain, registry, config, disk, put>>

\* save fails before or, in its last chmod, after the rename; Set then takes its
\* Keychain item back.
StoreFails(a) ==
  /\ At(a, "store")
  /\ file' \in {file, job[a].record}
  /\ keychain' \in IF job[a].record = InKeychain THEN {NoKey, keychain} ELSE {keychain}
  /\ VaultError(a, {"save"})
  /\ UNCHANGED <<useKeychain, registry, config, disk, put>>

-----------------------------------------------------------------------------
(* The server: CredentialService.Save and Delete, finishOpenRouterOAuth *)

\* Takes updateMu and reads the old key, for the case that the reload fails.
Begin(kind, key) ==
  /\ ~Busy
  /\ \E old \in Secrets :
       /\ Got(old)
       /\ job' = [job EXCEPT !["server"] =
            [pc |-> IF kind = "save" THEN "set" ELSE "remove", kind |-> kind,
             key |-> key, record |-> NoKey, old |-> old, undo |-> FALSE]]
       /\ faults' = ReadFaults(old)
  /\ before' = [secret |-> Stored, registry |-> registry]
  /\ answer' = "none"
  /\ UNCHANGED <<vault, registry, settings, astray>>

\* The reload: the registry is built anew, from what the vault lets it read.
Reload ==
  /\ At("server", "reload")
  /\ \E secret \in Secrets :
       /\ Got(secret)
       /\ registry' = Resolved(config.env, secret)
       /\ faults' = faults \cup ReadFaults(secret)
       /\ astray' = (secret # Stored)
  /\ answer' = "ok"
  /\ before' = Nothing
  /\ job' = [job EXCEPT !["server"] = Idle]
  /\ UNCHANGED <<vault, settings>>

\* A mutant of Compensation: the old key is forgotten.
CompensationDeletes(j) == [j EXCEPT !.pc = "remove", !.undo = TRUE]

\* What is done after a failed reload: the old key is set again, or, when there
\* was none, the new one is deleted.
Compensation(j) ==
  IF j.old # NoKey
  THEN [j EXCEPT !.pc = "set", !.key = j.old, !.undo = TRUE]
  ELSE [j EXCEPT !.pc = "remove", !.undo = TRUE]

\* The manifest or the custom providers do not parse: ReloadWithManifest changes
\* nothing, and the vault is to be put back.
ReloadFails ==
  /\ At("server", "reload")
  /\ IF job["server"].kind = "delete" /\ job["server"].old = NoKey
     THEN Answer("failed", {})
     ELSE /\ job' = [job EXCEPT !["server"] = Compensation(@)]
          /\ UNCHANGED <<history, update>>
  /\ UNCHANGED <<vault, registry, config, disk, put>>

-----------------------------------------------------------------------------
(* ConfigService.Update and Store.UpdateTransactional *)

\* A page reads the configuration, perhaps again, and edits it; or the sender
\* names no revision, which mergeDefaults makes revision 1.  Reading waits while
\* an update holds the store's lock.
Compose(e, env) ==
  /\ job["server"].kind # "config"
  /\ \E base \in {config, NoBase} :
       put' = [put EXCEPT ![e] = [base |-> base, env |-> env]]
  /\ UNCHANGED <<vault, registry, config, disk, update, job, history>>

\* A mutant of IsCurrent: the check is left out.
IsCurrentAlways(base) == TRUE

\* mergeDefaults, then the comparison of revisions.
IsCurrent(base) ==
  config.revision = IF base.revision = 0 THEN 1 ELSE base.revision

\* ErrConfigConflict: nothing happens, and the page is given up.
Conflict(e) ==
  /\ ~Busy
  /\ put[e] # NoPut /\ ~IsCurrent(put[e].base)
  /\ put' = [put EXCEPT ![e] = NoPut]
  /\ UNCHANGED <<vault, registry, config, disk, update, job, history>>

\* The page stays open and may be sent again.  Providers are reloaded only when
\* ProviderEnv changes.
Accept(e) ==
  /\ ~Busy
  /\ put[e] # NoPut /\ IsCurrent(put[e].base)
  /\ config.revision < MaxRevision
  /\ update' = [NoUpdate EXCEPT
                  !.next = [revision |-> config.revision + 1, env |-> put[e].env],
                  !.base = put[e].base]
  /\ job' = [job EXCEPT !["server"] =
               [Idle EXCEPT !.kind = "config",
                            !.pc = IF put[e].env = config.env THEN "save-config"
                                                              ELSE "reload-config"]]
  /\ before' = [secret |-> Stored, registry |-> registry]
  /\ answer' = "none" /\ faults' = {}
  /\ UNCHANGED <<vault, registry, config, disk, put, astray>>

\* Backup, then the reload with the new variables, all before the save.
ReloadForConfig ==
  /\ At("server", "reload-config")
  /\ \E secret \in Secrets :
       /\ Got(secret)
       /\ registry' = Resolved(update.next.env, secret)
       /\ faults' = faults \cup ReadFaults(secret)
  /\ update' = [update EXCEPT !.reloaded = TRUE, !.backup = registry]
  /\ Goto("server", "save-config", NoKey)
  /\ UNCHANGED <<vault, config, disk, put, answer, before, astray>>

ReloadForConfigFails ==
  /\ At("server", "reload-config")
  /\ Answer("failed", {})
  /\ UNCHANGED <<vault, registry, config, disk, put>>

SaveConfig ==
  /\ At("server", "save-config")
  /\ disk' = update.next
  /\ Goto("server", "publish", NoKey)
  /\ UNCHANGED <<vault, registry, config, put, update, history>>

\* A mutant of RolledBack: the registry keeps what the reload gave it.
RolledBackNever == registry

\* The closure of Backup, called when there was a reload.
RolledBack == IF update.reloaded THEN update.backup ELSE registry

\* The rename is the last step of save: a failure leaves the old file.  A failed
\* read of the reload went with the registry it had given.
SaveConfigFails ==
  /\ At("server", "save-config")
  /\ registry' = RolledBack
  /\ faults' = faults \ {"read"}
  /\ astray' = (astray \/ faults' # {})
  /\ answer' = "failed"
  /\ job' = [job EXCEPT !["server"] = Idle]
  /\ update' = NoUpdate
  /\ before' = Nothing
  /\ UNCHANGED <<vault, config, disk, put>>

Publish ==
  /\ At("server", "publish")
  /\ config' = update.next
  /\ Goto("server", "invalidate", NoKey)
  /\ UNCHANGED <<vault, registry, disk, put, update, history>>

\* The loop over the changed models; an update whose loop failed is answered as
\* failed, although it is in force.
Invalidate ==
  /\ At("server", "invalidate")
  /\ answer' \in {"ok", "failed"}
  /\ astray' = IF update.reloaded THEN faults # {} ELSE astray
  /\ job' = [job EXCEPT !["server"] = Idle]
  /\ update' = NoUpdate
  /\ before' = Nothing
  /\ UNCHANGED <<vault, registry, config, disk, put, faults>>

-----------------------------------------------------------------------------
(* The command line, and the end of a process *)

CliStart(kind, key) ==
  /\ At("cli", "idle")
  /\ job' = [job EXCEPT !["cli"] =
               [Idle EXCEPT !.pc = IF kind = "save" THEN "set" ELSE "remove",
                            !.kind = kind, !.key = key]]
  /\ UNCHANGED <<vault, registry, settings, history>>

CliKilled ==
  /\ ~At("cli", "idle")
  /\ job' = [job EXCEPT !["cli"] = Idle]
  /\ UNCHANGED <<vault, registry, settings, history>>

\* The server is killed and started: memory is rebuilt from the stores.
Restart ==
  /\ config' = disk
  /\ \E secret \in Secrets :
       /\ Got(secret)
       /\ registry' = Resolved(disk.env, secret)
       /\ astray' = (secret # Stored)
  /\ job' = [job EXCEPT !["server"] = Idle]
  /\ update' = NoUpdate
  /\ answer' = "none" /\ faults' = {} /\ before' = Nothing
  /\ UNCHANGED <<vault, disk, put>>

VaultStep(a) ==
  \/ LoadFails(a) \/ SetKey(a) \/ Readback(a)
  \/ RemoveKey(a) \/ RemoveMissing(a)
  \/ StoreFile(a) \/ StoreFails(a)

ServerStep ==
  \/ VaultStep("server")
  \/ Reload \/ ReloadFails
  \/ ReloadForConfig \/ ReloadForConfigFails
  \/ SaveConfig \/ SaveConfigFails \/ Publish \/ Invalidate

Next ==
  \/ ServerStep
  \/ VaultStep("cli")
  \/ \E k \in Keys : Begin("save", k) \/ CliStart("save", k)
  \/ Begin("delete", NoKey) \/ CliStart("delete", NoKey)
  \/ \E e \in Editors :
       \/ \E env \in BOOLEAN : Compose(e, env)
       \/ Conflict(e) \/ Accept(e)
  \/ CliKilled
  \/ Restart

Spec == Init /\ [][Next]_vars

-----------------------------------------------------------------------------
(* Correctness *)

\* An operation of the server ends, and not because the server is killed.
Ends(result) == Busy /\ ~Busy' /\ answer' = result

\* The configuration file is only ever replaced by someone who had read what it
\* holds, or while it still is the first revision, which nobody has written:
\* however old the page, however the server was killed in between.
NoLostUpdate ==
  [][disk' # disk => update.base = disk \/ disk.revision = 1]_vars

\* A save that is answered with success can be read back, and a deletion leaves
\* nothing to read, whatever the Keychain did: a write that failed, succeeded
\* without being readable, or was killed half way (vault.go:94).
AnsweredIsStored ==
  [][Ends("ok") /\ "race" \notin faults' /\ job["server"].kind # "config"
       => Stored' = job["server"].key]_vars

\* A failed operation leaves the credential and the registry as they were, as
\* long as the vault could be read and the file written: the promise of
\* TestCredentialMutationsRollBackWhenReloadFails, whatever the Keychain does.
FailureLeavesNoTrace ==
  [][Ends("failed") /\ faults' = {} /\ ~At("server", "invalidate")
       => Stored' = before.secret /\ registry' = before.registry]_vars

\* Between operations the registry holds the key that the stores and the
\* configuration give the provider: after every order of saves, deletions,
\* updates, failed reloads, failed config saves and restarts.
RegistryFollowsStores ==
  ~Busy /\ ~astray => registry = Resolved(config.env, Stored) /\ config = disk
=============================================================================
