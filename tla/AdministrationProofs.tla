------------------------ MODULE AdministrationProofs ------------------------
(***************************************************************************)
(* Proofs about Administration, for every set of keys and editors and every *)
(* bound on the revision.                                                  *)
(***************************************************************************)
EXTENDS Administration, TLAPS

Server == job["server"]

LEMMA IdleTyped == Idle \in Jobs
  BY DEF Idle, Jobs, Steps, Secrets, Records

LEMMA StoredTyped == TypeOK => Stored \in Secrets
  BY KeyAssumption DEF TypeOK, Stored, Secrets, Records

LEMMA ResolvedTyped ==
  ASSUME NEW env \in BOOLEAN, NEW secret \in Secrets
  PROVE  Resolved(env, secret) \in Secrets \cup {EnvKey}
  BY DEF Resolved

LEMMA NoUpdateTyped ==
  NoUpdate \in Updates
  BY DEF NoUpdate, NoBase, Configs, Secrets, Updates

LEMMA NothingTyped ==
  Nothing \in [secret : Secrets, registry : Secrets \cup {EnvKey}]
  BY DEF Nothing, Secrets

\* Ends of operations keep the types of what they set.
LEMMA AnswerTyped ==
  ASSUME TypeOK, NEW result \in {"ok", "failed"}, NEW met \in SUBSET {"read", "save", "race"},
         Answer(result, met)
  PROVE  /\ job' \in [Processes -> Jobs]
         /\ update' \in Updates
         /\ answer' \in {"none", "ok", "failed"}
         /\ faults' \in SUBSET {"read", "save", "race"}
         /\ before' \in [secret : Secrets, registry : Secrets \cup {EnvKey}]
         /\ astray' \in BOOLEAN
  BY IdleTyped, NoUpdateTyped, NothingTyped DEF Answer, TypeOK, Jobs, Processes

LEMMA VaultErrorTyped ==
  ASSUME TypeOK, NEW a \in Processes, NEW met \in SUBSET {"read", "save", "race"},
         VaultError(a, met)
  PROVE  /\ job' \in [Processes -> Jobs]
         /\ update' \in Updates
         /\ answer' \in {"none", "ok", "failed"}
         /\ faults' \in SUBSET {"read", "save", "race"}
         /\ before' \in [secret : Secrets, registry : Secrets \cup {EnvKey}]
         /\ astray' \in BOOLEAN
<1>1. CASE a = "server"
  BY <1>1, AnswerTyped DEF VaultError
<1>2. CASE a # "server"
  BY <1>2, IdleTyped DEF VaultError, Interfere, Busy, TypeOK
<1> QED BY <1>1, <1>2

LEMMA ProceedTyped ==
  ASSUME TypeOK, NEW a \in Processes, Proceed(a)
  PROVE  /\ answer' \in {"none", "ok", "failed"}
         /\ faults' \in SUBSET {"read", "save", "race"}
         /\ before' \in [secret : Secrets, registry : Secrets \cup {EnvKey}]
         /\ astray' \in BOOLEAN
  BY DEF Proceed, Interfere, Busy, history, TypeOK

LEMMA GotoTyped ==
  ASSUME TypeOK, NEW a \in Processes, NEW pc \in Steps, NEW record \in Records,
         Goto(a, pc, record)
  PROVE  job' \in [Processes -> Jobs]
<1>1. job[a] \in Jobs
  BY DEF TypeOK
<1>2. [job[a] EXCEPT !.pc = pc, !.record = record] \in Jobs
  BY <1>1 DEF Jobs
<1> QED BY <1>2 DEF Goto, TypeOK

LEMMA VaultStepTyped ==
  ASSUME TypeOK, NEW a \in Processes, VaultStep(a)
  PROVE  TypeOK'
<1> USE KeyAssumption
<1>0. job[a] \in Jobs
  BY DEF TypeOK, Jobs
<1>1. CASE LoadFails(a)
  BY <1>1, VaultErrorTyped DEF LoadFails, vault, TypeOK, Jobs
<1>2. CASE SetKey(a)
  <2>1. job' \in [Processes -> Jobs]
    BY <1>0, <1>2, GotoTyped DEF SetKey, Steps, Records, Secrets, Jobs
  <2>2. keychain' \in Keys \cup {NoKey, Hidden}
    BY <1>0, <1>2 DEF SetKey, TypeOK, Secrets, Jobs
  <2> QED BY <2>1, <2>2, <1>2, ProceedTyped DEF SetKey, settings, TypeOK, Jobs
<1>3. CASE Readback(a)
  <2>1. job' \in [Processes -> Jobs]
    BY <1>0, <1>3, GotoTyped DEF Readback, Steps, Records, Secrets, Jobs
  <2>2. keychain' \in Keys \cup {NoKey, Hidden}
    BY <1>3 DEF Readback, TypeOK
  <2> QED BY <2>1, <2>2, <1>3, ProceedTyped DEF Readback, settings, TypeOK, Jobs
<1>4. CASE RemoveKey(a)
  <2>1. job' \in [Processes -> Jobs]
    BY <1>4, GotoTyped DEF RemoveKey, Steps, Records
  <2>2. keychain' \in Keys \cup {NoKey, Hidden}
    BY <1>4 DEF RemoveKey, TypeOK
  <2> QED BY <2>1, <2>2, <1>4, ProceedTyped DEF RemoveKey, settings, TypeOK, Jobs
<1>5. CASE RemoveMissing(a)
  BY <1>5, VaultErrorTyped DEF RemoveMissing, vault, TypeOK, Jobs
<1>6. CASE StoreFile(a)
  <2>1. file' \in Records
    BY <1>0, <1>6 DEF StoreFile, Jobs
  <2>2. CASE a = "server" /\ ~job[a].undo
    <3>1. Goto(a, "reload", NoKey) /\ UNCHANGED <<history, update>>
      BY <1>6, <2>2 DEF StoreFile
    <3>2. job' \in [Processes -> Jobs]
      BY <3>1, GotoTyped DEF Steps, Records
    <3> QED BY <2>1, <3>1, <3>2, <1>6 DEF StoreFile, history, TypeOK, Jobs
  <2>3. CASE ~(a = "server" /\ ~job[a].undo)
    <3>1. VaultError(a, {})
      BY <1>6, <2>3 DEF StoreFile
    <3> QED BY <2>1, <3>1, <1>6, VaultErrorTyped DEF StoreFile, TypeOK, Jobs
  <2> QED BY <2>2, <2>3
<1>7. CASE StoreFails(a)
  <2>1. file' \in Records /\ keychain' \in Keys \cup {NoKey, Hidden}
    BY <1>0, <1>7 DEF StoreFails, TypeOK, Jobs
  <2> QED BY <2>1, <1>7, VaultErrorTyped DEF StoreFails, TypeOK, Jobs
<1> QED BY <1>1, <1>2, <1>3, <1>4, <1>5, <1>6, <1>7 DEF VaultStep

LEMMA InitTyped == Init => TypeOK
<1> SUFFICES ASSUME Init PROVE TypeOK
  OBVIOUS
<1>1. job \in [Processes -> Jobs]
  BY IdleTyped DEF Init
<1>2. config \in Configs
  BY DEF Init, Configs
<1>3. file \in Records /\ keychain \in Keys \cup {NoKey, Hidden} /\ registry \in Secrets \cup {EnvKey}
  BY DEF Init, Records, Secrets
<1> QED BY <1>1, <1>2, <1>3, NoUpdateTyped, NothingTyped DEF Init, TypeOK, Jobs

LEMMA NextTyped == TypeOK /\ [Next]_vars => TypeOK'
<1> SUFFICES ASSUME TypeOK, [Next]_vars PROVE TypeOK'
  OBVIOUS
<1>0. /\ "server" \in Processes /\ "cli" \in Processes
      /\ job["server"] \in Jobs /\ job["cli"] \in Jobs
  BY DEF Processes, TypeOK, Jobs
<1>1. ASSUME NEW a \in Processes, VaultStep(a) PROVE TypeOK'
  BY <1>1, VaultStepTyped
<1>2. CASE Reload
  <2>1. registry' \in Secrets \cup {EnvKey}
    BY <1>2, ResolvedTyped DEF Reload, TypeOK, Configs
  <2> QED BY <2>1, <1>2, IdleTyped, NothingTyped
          DEF Reload, ReadFaults, vault, settings, TypeOK, Jobs
<1>3. CASE ReloadFails
  <2>1. CASE job["server"].kind = "delete" /\ job["server"].old = NoKey
    BY <1>3, <2>1, AnswerTyped DEF ReloadFails, vault, TypeOK, Jobs
  <2>2. CASE ~(job["server"].kind = "delete" /\ job["server"].old = NoKey)
    <3>1. Compensation(job["server"]) \in Jobs
      BY <1>0 DEF Compensation, Jobs, Steps
    <3>2. job' \in [Processes -> Jobs]
      BY <3>1, <1>3, <2>2 DEF ReloadFails, TypeOK
    <3> QED BY <3>2, <1>3, <2>2 DEF ReloadFails, vault, history, TypeOK
  <2> QED BY <2>1, <2>2
<1>4. CASE ReloadForConfig
  <2>1. job' \in [Processes -> Jobs]
    BY <1>0, <1>4, GotoTyped DEF ReloadForConfig, Steps, Records
  <2>2. registry' \in Secrets \cup {EnvKey}
    BY <1>4, ResolvedTyped DEF ReloadForConfig, TypeOK, Configs, Updates
  <2>3. faults' \in SUBSET {"read", "save", "race"}
    BY <1>4 DEF ReloadForConfig, ReadFaults, TypeOK
  <2>4. update' \in Updates
    BY <1>4 DEF ReloadForConfig, TypeOK, Updates
  <2> QED BY <2>1, <2>2, <2>3, <2>4, <1>4 DEF ReloadForConfig, vault, TypeOK, Jobs
<1>5. CASE ReloadForConfigFails
  BY <1>5, AnswerTyped DEF ReloadForConfigFails, vault, TypeOK, Jobs
<1>6. CASE SaveConfig
  <2>1. job' \in [Processes -> Jobs]
    BY <1>0, <1>6, GotoTyped DEF SaveConfig, Steps, Records
  <2> QED BY <2>1, <1>6 DEF SaveConfig, vault, history, TypeOK, Updates
<1>7. CASE SaveConfigFails
  <2>1. registry' \in Secrets \cup {EnvKey}
    BY <1>7 DEF SaveConfigFails, RolledBack, TypeOK, Updates
  <2> QED BY <2>1, <1>7, IdleTyped, NoUpdateTyped, NothingTyped
          DEF SaveConfigFails, vault, TypeOK, Jobs
<1>8. CASE Publish
  <2>1. job' \in [Processes -> Jobs]
    BY <1>0, <1>8, GotoTyped DEF Publish, Steps, Records
  <2> QED BY <2>1, <1>8 DEF Publish, vault, history, TypeOK, Updates
<1>9. CASE Invalidate
  BY <1>9, IdleTyped, NoUpdateTyped, NothingTyped DEF Invalidate, vault, TypeOK, Jobs
<1>10. ASSUME NEW kind \in {"save", "delete"}, NEW key \in Secrets, Begin(kind, key)
       PROVE  TypeOK'
  <2>1. job' \in [Processes -> Jobs]
    BY <1>0, <1>10 DEF Begin, TypeOK, Jobs, Steps, Records
  <2>2. before' \in [secret : Secrets, registry : Secrets \cup {EnvKey}]
    BY <1>10, StoredTyped DEF Begin, TypeOK
  <2> QED BY <2>1, <2>2, <1>10 DEF Begin, ReadFaults, vault, settings, TypeOK, Jobs
<1>11. ASSUME NEW kind \in {"save", "delete"}, NEW key \in Secrets, CliStart(kind, key)
       PROVE  TypeOK'
  <2>1. job' \in [Processes -> Jobs]
    BY <1>0, <1>11, IdleTyped DEF CliStart, TypeOK, Jobs, Steps, Idle, Secrets, Records
  <2> QED BY <2>1, <1>11 DEF CliStart, vault, settings, history, TypeOK, Jobs
<1>12. ASSUME NEW e \in Editors, NEW env \in BOOLEAN, Compose(e, env) PROVE TypeOK'
  <2>1. put' \in [Editors -> [base : Configs, env : BOOLEAN] \cup {NoPut}]
    <3>1. PICK base \in {config, NoBase} : put' = [put EXCEPT ![e] = [base |-> base, env |-> env]]
      BY <1>12 DEF Compose
    <3>2. NoBase \in Configs
      BY DEF NoBase, Configs
    <3>3. base \in Configs
      BY <3>1, <3>2 DEF TypeOK
    <3> QED BY <3>1, <3>3 DEF TypeOK
  <2> QED BY <2>1, <1>12 DEF Compose, vault, history, TypeOK
<1>13. ASSUME NEW e \in Editors, Conflict(e) PROVE TypeOK'
  BY <1>13 DEF Conflict, vault, history, TypeOK
<1>14. ASSUME NEW e \in Editors, Accept(e) PROVE TypeOK'
  <2>1. put[e] \in [base : Configs, env : BOOLEAN]
    BY <1>14 DEF Accept, TypeOK
  <2>2. update' \in Updates
    <3>1. [revision |-> config.revision + 1, env |-> put[e].env] \in Configs
      BY <2>1 DEF Configs, TypeOK
    <3> QED BY <2>1, <3>1, <1>14, NoUpdateTyped DEF Accept, Updates
  <2>3. job' \in [Processes -> Jobs]
    BY <1>14, IdleTyped DEF Accept, TypeOK, Jobs, Steps
  <2>4. before' \in [secret : Secrets, registry : Secrets \cup {EnvKey}]
    BY <1>14, StoredTyped DEF Accept, TypeOK
  <2> QED BY <2>2, <2>3, <2>4, <1>14 DEF Accept, vault, TypeOK, Jobs
<1>15. CASE CliKilled
  BY <1>15, IdleTyped DEF CliKilled, vault, settings, history, TypeOK, Jobs
<1>16. CASE Restart
  <2>1. registry' \in Secrets \cup {EnvKey}
    BY <1>16, ResolvedTyped DEF Restart, TypeOK, Configs
  <2> QED BY <2>1, <1>16, IdleTyped, NoUpdateTyped, NothingTyped
          DEF Restart, vault, TypeOK, Jobs
<1>17. CASE UNCHANGED vars
  BY <1>17 DEF vars, vault, settings, history, TypeOK
<1> QED BY <1>0, <1>1, <1>2, <1>3, <1>4, <1>5, <1>6, <1>7, <1>8, <1>9, <1>10, <1>11,
           <1>12, <1>13, <1>14, <1>15, <1>16, <1>17
        DEF Next, ServerStep, Secrets

\* Every step keeps to the types: in particular no step hands out a Keychain item
\* it could not read as a key.
THEOREM AdministrationTypeCorrect == Spec => []TypeOK
  BY InitTyped, NextTyped, PTL DEF Spec

-----------------------------------------------------------------------------
(* The inductive invariant *)

VaultSteps == {"set", "readback", "remove", "store", "reload"}
ConfigSteps == {"reload-config", "save-config", "publish", "invalidate"}

\* The operation and its step belong together.
JobShape ==
  /\ Server.kind = "none" <=> Server.pc = "idle"
  /\ Server.kind \in {"save", "delete"} <=> Server.pc \in VaultSteps
  /\ Server.kind = "config" <=> Server.pc \in ConfigSteps

\* The file is ahead of memory only between the save and the publication, and no
\* revision was ever given to two configurations.
Revisions ==
  /\ config.revision >= 1
  /\ disk = IF Server.pc = "publish" THEN update.next ELSE config
  /\ \A e \in Editors : put[e] # NoPut =>
       put[e].base.revision < config.revision \/ put[e].base = config
  /\ Server.pc \in {"reload-config", "save-config", "publish"} =>
       /\ update.next.revision = config.revision + 1
       /\ update.base = config \/ config.revision = 1

\* What a vault operation is about to write, and what it has written.
Writing ==
  /\ Server.kind = "delete" /\ ~Server.undo => Server.key = NoKey
  /\ Server.pc \in {"set", "readback"} =>
       Server.key \in Keys /\ (Server.kind = "save" \/ Server.undo)
  /\ Server.pc = "remove" => Server.undo \/ Server.kind = "delete"
  /\ Server.undo /\ Server.pc \in {"set", "readback"} =>
       Server.key = Server.old
  /\ Server.undo /\ Server.pc = "remove" => Server.old = NoKey
  /\ Server.pc = "store" =>
       /\ Server.record \in {NoKey, InKeychain, Server.key}
       /\ ~Server.undo => (Server.record = NoKey <=> Server.kind = "delete")
       /\ Server.undo /\ Server.record = NoKey => Server.old = NoKey
       /\ Server.undo /\ Server.record # NoKey => Server.key = Server.old
       /\ Server.record = InKeychain => Server.key \in Keys
       /\ Server.record = InKeychain /\ "race" \notin faults => keychain = Server.key
  /\ Server.pc = "reload" =>
       ~Server.undo /\ ("race" \notin faults => Stored = Server.key)
  /\ Server.undo => Server.pc \in {"set", "readback", "remove", "store"}

\* What compensation will put back is what was there.
Undoing ==
  /\ Server.pc \in VaultSteps =>
       registry = before.registry /\ ("read" \notin faults => Server.old = before.secret)
  /\ Server.pc \in {"set", "remove"} /\ ~Server.undo /\ "race" \notin faults =>
       Stored = before.secret
  /\ Server.pc \in ConfigSteps =>
       /\ "race" \notin faults => Stored = before.secret
       /\ IF update.reloaded THEN update.backup = before.registry
                             ELSE registry = before.registry
  /\ Server.pc = "reload-config" => ~update.reloaded /\ faults \subseteq {"race"}

\* When memory and stores agreed at the start, they will at the end.
InStep ==
  /\ "race" \in faults /\ Busy => astray
  /\ ~Busy /\ ~astray => registry = Resolved(config.env, Stored)
  /\ Busy /\ ~astray /\ Server.pc # "invalidate" =>
       before.registry = Resolved(config.env, before.secret)
  /\ Server.pc \in {"save-config", "publish"} /\ ~update.reloaded =>
       update.next.env = config.env
  /\ Server.pc \in {"save-config", "publish"} /\ update.reloaded /\ faults = {} =>
       registry = Resolved(update.next.env, Stored)
  /\ Server.pc = "invalidate" /\ update.reloaded /\ faults = {} =>
       registry = Resolved(config.env, Stored)
  /\ Server.pc = "invalidate" /\ ~update.reloaded /\ ~astray =>
       registry = Resolved(config.env, Stored)

Inv == TypeOK /\ JobShape /\ Revisions /\ Writing /\ Undoing /\ InStep

LEMMA ServerTyped == TypeOK => Server \in Jobs
  BY DEF TypeOK, Processes, Server

LEMMA ServerGoes ==
  ASSUME TypeOK, NEW pc, NEW record, Goto("server", pc, record)
  PROVE  Server' = [Server EXCEPT !.pc = pc, !.record = record]
  BY DEF Goto, TypeOK, Processes, Server

\* The operation goes on at another step, with what it will write.
Moves(pc, record) ==
  /\ Server'.pc = pc /\ Server'.record = record
  /\ Server'.kind = Server.kind /\ Server'.key = Server.key
  /\ Server'.old = Server.old /\ Server'.undo = Server.undo

LEMMA ServerMoves ==
  ASSUME TypeOK, NEW pc, NEW record, Goto("server", pc, record)
  PROVE  Moves(pc, record)
<1>1. Server' = [Server EXCEPT !.pc = pc, !.record = record]
  BY ServerGoes
<1>2. Server \in Jobs
  BY ServerTyped
<1> QED BY <1>1, <1>2 DEF Moves, Jobs

LEMMA InitInv == Init => Inv
<1> SUFFICES ASSUME Init PROVE Inv
  OBVIOUS
<1>1. TypeOK
  BY InitTyped
<1>2. Server = Idle
  BY DEF Init, Server, Processes
<1>3. registry = Resolved(config.env, Stored)
  BY KeyAssumption DEF Init, Resolved, Stored, Secrets
<1>4. ~Busy /\ Server.pc = "idle" /\ Server.kind = "none" /\ Server.undo = FALSE
  BY <1>2 DEF Idle, Busy, Server
<1>5. JobShape /\ Writing /\ Undoing
  BY <1>4 DEF JobShape, Writing, Undoing, VaultSteps, ConfigSteps
<1>6. Revisions
  BY <1>4 DEF Init, Revisions
<1>7. InStep
  BY <1>3, <1>4 DEF InStep
<1> QED BY <1>1, <1>5, <1>6, <1>7 DEF Inv

\* What the command line can do to the server: nothing but the stores, and then
\* the server's operation is marked as raced.
LEMMA CliKeeps ==
  ASSUME TypeOK,
         \/ VaultStep("cli")
         \/ \E kind \in {"save", "delete"}, key \in Secrets : CliStart(kind, key)
         \/ CliKilled
  PROVE  /\ Server' = Server
         /\ UNCHANGED <<registry, config, disk, put, update, answer, before>>
         /\ \/ UNCHANGED <<file, keychain, faults, astray>>
            \/ astray' = TRUE /\ faults' = IF Busy THEN faults \cup {"race"} ELSE faults
<1> USE DEF Server, TypeOK, Processes
<1>1. CASE VaultStep("cli")
  <2>1. CASE LoadFails("cli")
    BY <2>1 DEF LoadFails, VaultError, Interfere
  <2>2. CASE SetKey("cli")
    BY <2>2 DEF SetKey, Goto, Proceed, Interfere, settings
  <2>3. CASE Readback("cli")
    BY <2>3 DEF Readback, Goto, Proceed, Interfere, settings
  <2>4. CASE RemoveKey("cli")
    BY <2>4 DEF RemoveKey, Goto, Proceed, Interfere, settings
  <2>5. CASE RemoveMissing("cli")
    BY <2>5 DEF RemoveMissing, VaultError, Interfere
  <2>6. CASE StoreFile("cli")
    BY <2>6 DEF StoreFile, VaultError, Interfere
  <2>7. CASE StoreFails("cli")
    BY <2>7 DEF StoreFails, VaultError, Interfere
  <2> QED BY <1>1, <2>1, <2>2, <2>3, <2>4, <2>5, <2>6, <2>7 DEF VaultStep
<1>2. ASSUME NEW kind \in {"save", "delete"}, NEW key \in Secrets, CliStart(kind, key)
      PROVE  /\ Server' = Server
             /\ UNCHANGED <<registry, config, disk, put, update, answer, before>>
             /\ UNCHANGED <<file, keychain, faults, astray>>
  BY <1>2 DEF CliStart, vault, settings, history
<1>3. CASE CliKilled
  BY <1>3 DEF CliKilled, vault, settings, history
<1> QED BY <1>1, <1>2, <1>3

LEMMA CliInv ==
  ASSUME Inv, Server' = Server,
         UNCHANGED <<registry, config, disk, put, update, answer, before>>,
         \/ UNCHANGED <<file, keychain, faults, astray>>
         \/ astray' = TRUE /\ faults' = IF Busy THEN faults \cup {"race"} ELSE faults
  PROVE  JobShape' /\ Revisions' /\ Writing' /\ Undoing' /\ InStep'
<1>1. JobShape' /\ Revisions'
  BY DEF Inv, JobShape, Revisions
<1>2. Busy' <=> Busy
  BY DEF Busy, Server
<1>3. CASE UNCHANGED <<file, keychain, faults, astray>>
  <2>1. Stored' = Stored
    BY <1>3 DEF Stored
  <2> QED BY <1>1, <1>2, <1>3, <2>1 DEF Inv, Writing, Undoing, InStep
<1>4. CASE astray' = TRUE /\ faults' = IF Busy THEN faults \cup {"race"} ELSE faults
  <2>1. Server.pc = "idle" <=> ~Busy
    BY DEF Busy, Server
  <2>2. Writing'
    BY <1>4, <2>1 DEF Inv, Writing
  <2>3. Undoing'
    BY <1>4, <2>1 DEF Inv, Undoing, VaultSteps, ConfigSteps
  <2>4. InStep'
    BY <1>2, <1>4, <2>1 DEF Inv, InStep
  <2> QED BY <1>1, <2>2, <2>3, <2>4
<1> QED BY <1>3, <1>4

\* The end of an operation: memory and disk hold the same configuration, and
\* either the registry follows or it is known not to.
LEMMA EndInv ==
  ASSUME Server' = Idle, UNCHANGED put,
         disk' = config',
         config'.revision >= 1,
         \A e \in Editors : put[e] # NoPut =>
           put[e].base.revision < config'.revision \/ put[e].base = config',
         ~astray' => registry' = Resolved(config'.env, Stored')
  PROVE  JobShape' /\ Revisions' /\ Writing' /\ Undoing' /\ InStep'
<1>1. ~Busy' /\ Server'.pc = "idle" /\ Server'.kind = "none" /\ Server'.undo = FALSE
  BY DEF Busy, Server, Idle
<1>2. JobShape' /\ Writing' /\ Undoing'
  BY <1>1 DEF JobShape, Writing, Undoing, VaultSteps, ConfigSteps
<1>3. Revisions'
  BY <1>1 DEF Revisions
<1>4. InStep'
  BY <1>1 DEF InStep
<1> QED BY <1>2, <1>3, <1>4

\* What is true of a failed operation's end, from the invariant.
LEMMA FailedInv ==
  ASSUME Inv, NEW met, Answer("failed", met), Server.pc \in VaultSteps \cup {"reload-config"},
         UNCHANGED <<config, disk, put, registry>>,
         met = {} /\ faults = {} => Stored' = before.secret
  PROVE  /\ JobShape' /\ Revisions' /\ Writing' /\ Undoing' /\ InStep'
         /\ faults' = {} => Stored' = before.secret /\ registry' = before.registry
<1>1. Server' = Idle /\ (~astray' => ~astray /\ faults = {} /\ met = {} /\ faults' = {})
  BY DEF Answer, Server, Inv, TypeOK, Processes
<1>2. Server.pc # "publish" /\ Server.pc # "invalidate" /\ Busy
  BY DEF VaultSteps, Busy, Server
<1>3. registry = before.registry
  BY DEF Inv, Undoing, ConfigSteps
<1>4. disk' = config'
  BY <1>2 DEF Inv, Revisions
<1>5. ~astray' => registry' = Resolved(config'.env, Stored')
  BY <1>1, <1>2, <1>3 DEF Inv, InStep
<1>6. JobShape' /\ Revisions' /\ Writing' /\ Undoing' /\ InStep'
  BY <1>1, <1>4, <1>5, EndInv DEF Inv, Revisions
<1>7. faults' = {} => Stored' = before.secret
  BY DEF Answer
<1> QED BY <1>3, <1>6, <1>7

\* A step of Set or Delete that is not its last.
LEMMA MidInv ==
  ASSUME Inv, NEW pc \in {"readback", "store"}, NEW record,
         Server.pc \in {"set", "readback", "remove"},
         Moves(pc, record),
         UNCHANGED <<file, registry, config, disk, put, update, faults, before, astray>>,
         pc = "readback" => Server.pc = "set",
         pc = "store" /\ Server.pc = "remove" => record = NoKey,
         pc = "store" /\ Server.pc # "remove" =>
           \/ record = Server.key
           \/ record = InKeychain /\ keychain' = Server.key
  PROVE  JobShape' /\ Revisions' /\ Writing' /\ Undoing' /\ InStep'
<1>0. Server \in Jobs
  BY ServerTyped DEF Inv
<1>1. /\ Server'.pc = pc /\ Server'.record = record
      /\ Server'.kind = Server.kind /\ Server'.key = Server.key
      /\ Server'.old = Server.old /\ Server'.undo = Server.undo
  BY DEF Moves
<1>2. UNCHANGED <<registry, config, disk, put, update, faults, before, astray>>
  OBVIOUS
<1>3. JobShape'
  BY <1>1 DEF Inv, JobShape, VaultSteps, ConfigSteps
<1>4. Revisions'
  BY <1>1, <1>2 DEF Inv, Revisions
<1>5. Writing'
  <2>1. Server.pc # "remove" => Server.key \in Keys /\ (Server.kind = "save" \/ Server.undo)
    BY DEF Inv, Writing
  <2>2. Server.pc = "remove" => (Server.undo \/ Server.kind = "delete")
                                /\ (Server.undo => Server.old = NoKey)
    BY DEF Inv, Writing
  <2>3. Server.kind \in {"save", "delete"}
    BY DEF Inv, JobShape, VaultSteps
  <2>4. Server.undo \in BOOLEAN
    BY <1>0 DEF Jobs
  <2>5. Server.undo /\ Server.pc # "remove" => Server.key = Server.old
    BY DEF Inv, Writing
  <2>6. CASE pc = "readback"
    BY <1>1, <1>2, <2>1, <2>4, <2>5, <2>6 DEF Inv, Writing
  <2>7. CASE pc = "store" /\ Server.pc = "remove"
    BY <1>1, <1>2, <2>2, <2>3, <2>4, <2>7, KeyAssumption DEF Inv, Writing
  <2>8. CASE pc = "store" /\ Server.pc # "remove"
    <3>1. Server.kind = "save" \/ Server.undo
      BY <2>1, <2>8
    <3>2. record # NoKey
      BY <2>1, <2>8, KeyAssumption
    <3> QED BY <1>1, <1>2, <2>1, <2>3, <2>4, <2>5, <2>8, <3>1, <3>2, KeyAssumption
            DEF Inv, Writing
  <2> QED BY <2>6, <2>7, <2>8
<1>6. Undoing'
  BY <1>1, <1>2 DEF Inv, Undoing, VaultSteps, ConfigSteps
<1>7. InStep'
  <2>1. Busy /\ Busy' /\ Server.pc # "invalidate"
    BY <1>1 DEF Busy, Server
  <2> QED BY <1>1, <1>2, <2>1 DEF Inv, InStep
<1> QED BY <1>3, <1>4, <1>5, <1>6, <1>7

\* A step of the vault inside the server's operation: what it writes is what the
\* operation is about.
LEMMA VaultStepInv ==
  ASSUME Inv, VaultStep("server")
  PROVE  JobShape' /\ Revisions' /\ Writing' /\ Undoing' /\ InStep'
<1>0. Server \in Jobs /\ Server = job["server"]
  BY ServerTyped DEF Inv, Server
<1>1. CASE LoadFails("server")
  <2>1. Answer("failed", IF Server.undo THEN {"read"} ELSE {})
    BY <1>1 DEF LoadFails, VaultError, Server
  <2>2. Stored' = Stored /\ UNCHANGED <<config, disk, put, registry>>
    BY <1>1 DEF LoadFails, vault, Stored
  <2>3. Server.pc \in {"set", "remove"}
    BY <1>1 DEF LoadFails, At, Server
  <2> QED BY <1>0, <2>1, <2>2, <2>3, FailedInv DEF Inv, Undoing, VaultSteps, Jobs
<1>2. CASE SetKey("server")
  <2>1. Server.pc = "set"
        /\ UNCHANGED <<file, registry, config, disk, put, update, faults, before, astray>>
    BY <1>2 DEF SetKey, At, Proceed, Server, settings, history
  <2>2. \/ Goto("server", "readback", NoKey)
        \/ Goto("server", "store", Server.key)
    BY <1>2 DEF SetKey, Server
  <2>3. \/ Moves("readback", NoKey)
        \/ Moves("store", Server.key)
    BY <2>2, ServerMoves DEF Inv
  <2>4. CASE Moves("readback", NoKey)
    BY <2>1, <2>4, MidInv
  <2>5. CASE Moves("store", Server.key)
    BY <2>1, <2>5, MidInv
  <2> QED BY <2>3, <2>4, <2>5
<1>3. CASE Readback("server")
  <2>1. Server.pc = "readback"
        /\ UNCHANGED <<file, registry, config, disk, put, update, faults, before, astray>>
    BY <1>3 DEF Readback, At, Proceed, Server, settings, history
  <2>2. \/ /\ Moves("store", InKeychain)
           /\ keychain = Server.key /\ keychain' = keychain
        \/ Moves("store", Server.key)
    BY <1>3, ServerMoves DEF Readback, Inv, Server
  <2> QED BY <2>1, <2>2, MidInv
<1>4. CASE RemoveKey("server")
  <2>1. Server.pc = "remove"
        /\ UNCHANGED <<file, registry, config, disk, put, update, faults, before, astray>>
    BY <1>4 DEF RemoveKey, At, Proceed, Server, settings, history
  <2>2. Moves("store", NoKey)
    BY <1>4, ServerMoves DEF RemoveKey, Inv
  <2> QED BY <2>1, <2>2, MidInv
<1>5. CASE RemoveMissing("server")
  <2>1. Answer("failed", {})
    BY <1>5 DEF RemoveMissing, VaultError
  <2>2. Stored' = Stored /\ UNCHANGED <<config, disk, put, registry>> /\ Stored = NoKey
    BY <1>5, KeyAssumption DEF RemoveMissing, vault, Stored
  <2>3. Server.pc = "remove"
    BY <1>5 DEF RemoveMissing, At, Server
  <2>4. faults = {} => Stored' = before.secret
    BY <1>0, <2>2, <2>3 DEF Inv, Undoing, Writing, VaultSteps, Jobs
  <2> QED BY <2>1, <2>2, <2>3, <2>4, FailedInv DEF VaultSteps
<1>6. CASE StoreFile("server")
  <2>1. Server.pc = "store" /\ file' = Server.record
        /\ UNCHANGED <<useKeychain, keychain, registry, config, disk, put>>
    BY <1>6 DEF StoreFile, At, Server
  <2>2. "race" \notin faults =>
          Stored' = IF Server.record = NoKey THEN NoKey ELSE Server.key
    BY <1>0, <2>1, KeyAssumption DEF Inv, Writing, Stored
  <2>3. CASE Server.undo
    <3>1. Answer("failed", {})
      BY <1>6, <2>3 DEF StoreFile, VaultError, Server
    <3>2. faults = {} => Stored' = before.secret
      BY <2>1, <2>2, <2>3 DEF Inv, Writing, Undoing, VaultSteps
    <3> QED BY <2>1, <3>1, <3>2, FailedInv DEF VaultSteps
  <2>4. CASE ~Server.undo
    <3>1. Goto("server", "reload", NoKey) /\ UNCHANGED <<history, update>>
      BY <1>6, <2>4 DEF StoreFile, Server
    <3>2. Moves("reload", NoKey)
      BY <3>1, ServerMoves DEF Inv
    <3>3. "race" \notin faults => Stored' = Server.key
      BY <2>1, <2>2, <2>4 DEF Inv, Writing, JobShape, VaultSteps
    <3> QED BY <1>0, <2>1, <2>4, <3>1, <3>2, <3>3
            DEF Inv, JobShape, Revisions, Writing, Undoing, InStep, Busy, Server, Moves,
                history, Jobs, VaultSteps, ConfigSteps
  <2> QED BY <2>3, <2>4
<1>7. CASE StoreFails("server")
  <2>1. Answer("failed", {"save"})
    BY <1>7 DEF StoreFails, VaultError
  <2>2. UNCHANGED <<config, disk, put, registry>> /\ Server.pc = "store"
    BY <1>7 DEF StoreFails, At, Server
  <2> QED BY <2>1, <2>2, FailedInv DEF VaultSteps
<1> QED BY <1>1, <1>2, <1>3, <1>4, <1>5, <1>6, <1>7 DEF VaultStep

LEMMA BeginInv ==
  ASSUME Inv, NEW kind \in {"save", "delete"}, NEW key \in Secrets, Begin(kind, key),
         IF kind = "save" THEN key \in Keys ELSE key = NoKey
  PROVE  JobShape' /\ Revisions' /\ Writing' /\ Undoing' /\ InStep'
<1>1. PICK old \in Secrets :
        /\ Got(old)
        /\ job' = [job EXCEPT !["server"] =
             [pc |-> IF kind = "save" THEN "set" ELSE "remove", kind |-> kind,
              key |-> key, record |-> NoKey, old |-> old, undo |-> FALSE]]
        /\ faults' = ReadFaults(old)
  BY DEF Begin
<1>2. /\ Server'.pc = IF kind = "save" THEN "set" ELSE "remove"
      /\ Server'.kind = kind /\ Server'.key = key
      /\ Server'.old = old /\ Server'.undo = FALSE
  BY <1>1 DEF Server, Inv, TypeOK, Processes
<1>3. /\ UNCHANGED <<file, keychain, registry, config, disk, put, update, astray>>
      /\ before' = [secret |-> Stored, registry |-> registry]
      /\ ~Busy /\ Server.pc = "idle"
  BY DEF Begin, vault, settings, Busy, Server
<1>4. faults' \subseteq {"read"} /\ ("read" \notin faults' => old = Stored)
  BY <1>1 DEF ReadFaults
<1>5. Stored' = Stored
  BY <1>3 DEF Stored
<1>6. Busy'
  BY <1>2 DEF Busy, Server
<1>7. JobShape'
  BY <1>2 DEF JobShape, VaultSteps, ConfigSteps
<1>8. Revisions'
  BY <1>2, <1>3 DEF Inv, Revisions
<1>9. Writing'
  BY <1>2 DEF Writing
<1>10. Undoing'
  BY <1>2, <1>3, <1>4, <1>5 DEF Undoing, VaultSteps, ConfigSteps
<1>11. InStep'
  BY <1>2, <1>3, <1>4, <1>5, <1>6 DEF Inv, InStep
<1> QED BY <1>7, <1>8, <1>9, <1>10, <1>11

LEMMA ReloadInv ==
  ASSUME Inv, Reload
  PROVE  JobShape' /\ Revisions' /\ Writing' /\ Undoing' /\ InStep'
<1>1. PICK secret \in Secrets :
        /\ registry' = Resolved(config.env, secret)
        /\ astray' = (secret # Stored)
  BY DEF Reload
<1>2. Server' = Idle /\ UNCHANGED <<file, keychain, config, disk, put>> /\ Server.pc = "reload"
  BY DEF Reload, At, Server, vault, settings, Inv, TypeOK, Processes
<1>3. Stored' = Stored
  BY <1>2 DEF Stored
<1>4. disk' = config' /\ config'.revision >= 1
  BY <1>2 DEF Inv, Revisions
<1> QED BY <1>1, <1>2, <1>3, <1>4, EndInv DEF Inv, Revisions

LEMMA ReloadFailsInv ==
  ASSUME Inv, ReloadFails
  PROVE  JobShape' /\ Revisions' /\ Writing' /\ Undoing' /\ InStep'
<1>1. /\ Server.pc = "reload"
      /\ UNCHANGED <<file, keychain, registry, config, disk, put>>
  BY DEF ReloadFails, At, Server, vault
<1>2. Stored' = Stored
  BY <1>1 DEF Stored
<1>3. Server \in Jobs /\ Server.kind \in {"save", "delete"} /\ ~Server.undo
  BY <1>1, ServerTyped DEF Inv, JobShape, Writing, VaultSteps
<1>4. CASE Server.kind = "delete" /\ Server.old = NoKey
  <2>1. Answer("failed", {})
    BY <1>4 DEF ReloadFails, Server
  <2>2. faults = {} => Stored' = before.secret
    BY <1>1, <1>2, <1>3, <1>4 DEF Inv, Writing, Undoing, VaultSteps
  <2> QED BY <1>1, <2>1, <2>2, FailedInv DEF VaultSteps
<1>5. CASE ~(Server.kind = "delete" /\ Server.old = NoKey)
  <2>1. Server' = Compensation(Server) /\ UNCHANGED <<update, faults, before, astray>>
    BY <1>5 DEF ReloadFails, history, Server, Inv, TypeOK, Processes
  <2>2. /\ Server'.kind = Server.kind /\ Server'.old = Server.old /\ Server'.undo = TRUE
        /\ Server'.pc = IF Server.old # NoKey THEN "set" ELSE "remove"
        /\ Server.old # NoKey => Server'.key = Server.old
    BY <1>3, <2>1 DEF Compensation, Jobs
  <2>3. Server.old # NoKey => Server.old \in Keys
    BY <1>3 DEF Jobs, Secrets
  <2>4. Busy /\ Busy'
    BY <1>1, <2>2 DEF Busy, Server
  <2>5. JobShape'
    BY <1>3, <2>2 DEF JobShape, VaultSteps, ConfigSteps
  <2>6. Revisions'
    BY <1>1, <2>1, <2>2 DEF Inv, Revisions
  <2>7. Writing'
    BY <2>2, <2>3 DEF Writing
  <2>8. Undoing'
    BY <1>1, <2>1, <2>2 DEF Inv, Undoing, VaultSteps, ConfigSteps
  <2>9. InStep'
    BY <1>1, <2>1, <2>2, <2>4 DEF Inv, InStep
  <2> QED BY <2>5, <2>6, <2>7, <2>8, <2>9
<1> QED BY <1>4, <1>5

-----------------------------------------------------------------------------
(* Updates of the configuration *)

LEMMA ComposeInv ==
  ASSUME Inv, NEW e \in Editors, NEW env \in BOOLEAN, Compose(e, env)
  PROVE  JobShape' /\ Revisions' /\ Writing' /\ Undoing' /\ InStep'
<1>1. PICK base \in {config, NoBase} : put' = [put EXCEPT ![e] = [base |-> base, env |-> env]]
  BY DEF Compose
<1>2. /\ Server' = Server /\ Busy' = Busy
      /\ UNCHANGED <<file, keychain, registry, config, disk, update, faults, before, astray>>
  BY DEF Compose, Server, Busy, vault, history
<1>3. Stored' = Stored
  BY <1>2 DEF Stored
<1>4. base.revision < config.revision \/ base = config
  BY <1>1 DEF NoBase, Inv, Revisions, TypeOK, Configs
<1>5. \A f \in Editors : put'[f] # NoPut =>
        put'[f].base.revision < config.revision \/ put'[f].base = config
  BY <1>1, <1>4 DEF Inv, Revisions, TypeOK
<1>6. Revisions'
  BY <1>2, <1>5 DEF Inv, Revisions
<1> QED BY <1>2, <1>3, <1>6 DEF Inv, JobShape, Writing, Undoing, InStep

LEMMA ConflictInv ==
  ASSUME Inv, NEW e \in Editors, Conflict(e)
  PROVE  JobShape' /\ Revisions' /\ Writing' /\ Undoing' /\ InStep'
<1>1. /\ Server' = Server /\ Busy' = Busy /\ put' = [put EXCEPT ![e] = NoPut]
      /\ UNCHANGED <<file, keychain, registry, config, disk, update, faults, before, astray>>
  BY DEF Conflict, Server, Busy, vault, history
<1>2. Stored' = Stored
  BY <1>1 DEF Stored
<1>3. Revisions'
  BY <1>1 DEF Inv, Revisions, TypeOK
<1> QED BY <1>1, <1>2, <1>3 DEF Inv, JobShape, Writing, Undoing, InStep

LEMMA AcceptInv ==
  ASSUME Inv, NEW e \in Editors, Accept(e)
  PROVE  JobShape' /\ Revisions' /\ Writing' /\ Undoing' /\ InStep'
<1>0. put[e] \in [base : Configs, env : BOOLEAN]
  BY DEF Accept, Inv, TypeOK
<1>1. /\ UNCHANGED <<file, keychain, registry, config, disk, put, astray>>
      /\ before' = [secret |-> Stored, registry |-> registry] /\ faults' = {}
      /\ ~Busy /\ Server.pc = "idle"
  BY DEF Accept, vault, Busy, Server
<1>2. /\ Server'.kind = "config" /\ Server'.undo = FALSE
      /\ Server'.pc = IF put[e].env = config.env THEN "save-config" ELSE "reload-config"
  BY DEF Accept, Idle, Server, Inv, TypeOK, Processes
<1>3. /\ update'.next.revision = config.revision + 1 /\ update'.next.env = put[e].env
      /\ update'.base = put[e].base /\ update'.reloaded = FALSE
  BY DEF Accept, NoUpdate
<1>4. put[e].base = config \/ config.revision = 1
  <2>1. put[e].base.revision < config.revision \/ put[e].base = config
    BY DEF Accept, Inv, Revisions
  <2>2. config.revision = IF put[e].base.revision = 0 THEN 1 ELSE put[e].base.revision
    BY DEF Accept, IsCurrent
  <2> QED BY <1>0, <2>1, <2>2 DEF Inv, TypeOK, Configs
<1>5. Stored' = Stored
  BY <1>1 DEF Stored
<1>6. Busy'
  BY <1>2 DEF Busy, Server
<1>7. JobShape'
  BY <1>2 DEF JobShape, VaultSteps, ConfigSteps
<1>8. Revisions'
  BY <1>1, <1>2, <1>3, <1>4 DEF Inv, Revisions, TypeOK
<1>9. Writing'
  BY <1>2 DEF Writing
<1>10. Undoing'
  BY <1>1, <1>2, <1>3, <1>5 DEF Undoing, VaultSteps, ConfigSteps
<1>11. InStep'
  BY <1>1, <1>2, <1>3, <1>5, <1>6 DEF Inv, InStep
<1> QED BY <1>7, <1>8, <1>9, <1>10, <1>11

LEMMA ReloadForConfigInv ==
  ASSUME Inv, ReloadForConfig
  PROVE  JobShape' /\ Revisions' /\ Writing' /\ Undoing' /\ InStep'
<1>1. PICK secret \in Secrets :
        /\ registry' = Resolved(update.next.env, secret)
        /\ faults' = faults \cup ReadFaults(secret)
  BY DEF ReloadForConfig
<1>2. /\ Server.pc = "reload-config" /\ Moves("save-config", NoKey)
      /\ UNCHANGED <<file, keychain, config, disk, put, before, astray>>
  BY ServerMoves DEF ReloadForConfig, At, Server, vault, Inv
<1>3. /\ update'.next = update.next /\ update'.base = update.base
      /\ update'.reloaded = TRUE /\ update'.backup = registry
  BY DEF ReloadForConfig, Inv, TypeOK, Updates
<1>4. Stored' = Stored
  BY <1>2 DEF Stored
<1>5. /\ Server.kind = "config" /\ ~Server.undo
      /\ ~update.reloaded /\ registry = before.registry
      /\ "race" \notin faults => Stored = before.secret
  <2>1. Server \in Jobs
    BY ServerTyped DEF Inv
  <2> QED BY <1>2, <2>1 DEF Inv, JobShape, Writing, Undoing, ConfigSteps, Jobs
<1>6. /\ "race" \in faults' => "race" \in faults
      /\ faults' = {} => faults = {} /\ secret = Stored
  BY <1>1 DEF ReadFaults
<1>7. Busy /\ Busy'
  BY <1>2 DEF Busy, Server, Moves
<1>8. JobShape'
  BY <1>2, <1>5 DEF JobShape, VaultSteps, ConfigSteps, Moves
<1>9. Revisions'
  BY <1>2, <1>3 DEF Inv, Revisions, Moves
<1>10. Writing'
  BY <1>2, <1>5 DEF Writing, Moves
<1>11. Undoing'
  <2>1. "race" \notin faults' => Stored' = before'.secret
    BY <1>1, <1>2, <1>4, <1>5
  <2> QED BY <1>2, <1>3, <1>5, <2>1 DEF Undoing, VaultSteps, ConfigSteps, Moves
<1>12. InStep'
  BY <1>1, <1>2, <1>3, <1>4, <1>6, <1>7 DEF Inv, InStep, Moves
<1> QED BY <1>8, <1>9, <1>10, <1>11, <1>12

LEMMA ReloadForConfigFailsInv ==
  ASSUME Inv, ReloadForConfigFails
  PROVE  JobShape' /\ Revisions' /\ Writing' /\ Undoing' /\ InStep'
<1>1. /\ Server.pc = "reload-config" /\ Answer("failed", {})
      /\ UNCHANGED <<file, keychain, registry, config, disk, put>>
  BY DEF ReloadForConfigFails, At, Server, vault
<1>2. Stored' = Stored
  BY <1>1 DEF Stored
<1>3. faults = {} => Stored' = before.secret
  BY <1>1, <1>2 DEF Inv, Undoing, ConfigSteps
<1> QED BY <1>1, <1>3, FailedInv

LEMMA SaveConfigInv ==
  ASSUME Inv, SaveConfig
  PROVE  JobShape' /\ Revisions' /\ Writing' /\ Undoing' /\ InStep'
<1>1. /\ Server.pc = "save-config" /\ Moves("publish", NoKey) /\ disk' = update.next
      /\ UNCHANGED <<file, keychain, registry, config, put, update, faults, before, astray>>
  BY ServerMoves DEF SaveConfig, At, Server, vault, history, Inv
<1>2. Stored' = Stored
  BY <1>1 DEF Stored
<1>3. Busy /\ Busy'
  BY <1>1 DEF Busy, Server, Moves
<1>4. JobShape'
  BY <1>1 DEF Inv, JobShape, VaultSteps, ConfigSteps, Moves
<1>5. Revisions'
  BY <1>1 DEF Inv, Revisions, Moves
<1>6. Writing'
  BY <1>1 DEF Inv, Writing, Moves
<1>7. Undoing'
  BY <1>1, <1>2 DEF Inv, Undoing, VaultSteps, ConfigSteps, Moves
<1>8. InStep'
  BY <1>1, <1>2, <1>3 DEF Inv, InStep, Moves
<1> QED BY <1>4, <1>5, <1>6, <1>7, <1>8

LEMMA SaveConfigFailsInv ==
  ASSUME Inv, SaveConfigFails
  PROVE  /\ JobShape' /\ Revisions' /\ Writing' /\ Undoing' /\ InStep'
         /\ faults' = {} => Stored' = before.secret /\ registry' = before.registry
<1>1. /\ Server.pc = "save-config" /\ Server' = Idle
      /\ UNCHANGED <<file, keychain, config, disk, put>>
      /\ registry' = RolledBack /\ faults' = faults \ {"read"}
      /\ ~astray' => ~astray /\ faults' = {}
  BY DEF SaveConfigFails, At, Server, vault, Inv, TypeOK, Processes
<1>2. Stored' = Stored
  BY <1>1 DEF Stored
<1>3. Busy
  BY <1>1 DEF Busy, Server
<1>4. registry' = before.registry
  BY <1>1 DEF Inv, Undoing, ConfigSteps, RolledBack
<1>5. faults' = {} => Stored' = before.secret
  <2>1. "race" \in faults => "race" \in faults'
    BY <1>1
  <2> QED BY <1>1, <1>2, <2>1 DEF Inv, Undoing, ConfigSteps
<1>6. ~astray' => registry' = Resolved(config'.env, Stored')
  BY <1>1, <1>3, <1>4, <1>5 DEF Inv, InStep
<1>7. disk' = config'
  BY <1>1 DEF Inv, Revisions
<1>8. JobShape' /\ Revisions' /\ Writing' /\ Undoing' /\ InStep'
  BY <1>1, <1>6, <1>7, EndInv DEF Inv, Revisions
<1> QED BY <1>4, <1>5, <1>8

LEMMA PublishInv ==
  ASSUME Inv, Publish
  PROVE  JobShape' /\ Revisions' /\ Writing' /\ Undoing' /\ InStep'
<1>1. /\ Server.pc = "publish" /\ Moves("invalidate", NoKey) /\ config' = update.next
      /\ UNCHANGED <<file, keychain, registry, disk, put, update, faults, before, astray>>
  BY ServerMoves DEF Publish, At, Server, vault, history, Inv
<1>2. Stored' = Stored
  BY <1>1 DEF Stored
<1>3. Busy /\ Busy'
  BY <1>1 DEF Busy, Server, Moves
<1>4. JobShape'
  BY <1>1 DEF Inv, JobShape, VaultSteps, ConfigSteps, Moves
<1>5. Revisions'
  <2>1. /\ config'.revision = config.revision + 1 /\ disk' = config'
        /\ config.revision \in Nat /\ config.revision >= 1
    BY <1>1 DEF Inv, Revisions, TypeOK, Configs
  <2>2. ASSUME NEW e \in Editors, put[e] # NoPut
        PROVE  put[e].base.revision < config'.revision
    <3>1. put[e].base \in Configs
      BY <2>2 DEF Inv, TypeOK
    <3> QED BY <2>1, <2>2, <3>1 DEF Inv, Revisions, Configs
  <2> QED BY <1>1, <2>1, <2>2 DEF Revisions, Moves
<1>6. Writing'
  BY <1>1 DEF Inv, Writing, Moves
<1>7. Undoing'
  BY <1>1, <1>2 DEF Inv, Undoing, VaultSteps, ConfigSteps, Moves
<1>8. InStep'
  <2>1. registry = before.registry \/ update.reloaded
    BY <1>1 DEF Inv, Undoing, ConfigSteps
  <2>2. "race" \in faults => astray
    BY <1>3 DEF Inv, InStep
  <2>3. ~update.reloaded /\ ~astray => registry = Resolved(config'.env, Stored')
    <3>1. "race" \notin faults => Stored = before.secret
      BY <1>1 DEF Inv, Undoing, ConfigSteps
    <3> QED BY <1>1, <1>2, <1>3, <2>1, <2>2, <3>1 DEF Inv, InStep
  <2> QED BY <1>1, <1>2, <1>3, <2>2, <2>3 DEF Inv, InStep, Moves
<1> QED BY <1>4, <1>5, <1>6, <1>7, <1>8

LEMMA InvalidateInv ==
  ASSUME Inv, Invalidate
  PROVE  JobShape' /\ Revisions' /\ Writing' /\ Undoing' /\ InStep'
<1>1. /\ Server.pc = "invalidate" /\ Server' = Idle
      /\ UNCHANGED <<file, keychain, registry, config, disk, put>>
      /\ astray' = IF update.reloaded THEN faults # {} ELSE astray
  BY DEF Invalidate, At, Server, vault, Inv, TypeOK, Processes
<1>2. Stored' = Stored
  BY <1>1 DEF Stored
<1>3. ~astray' => registry' = Resolved(config'.env, Stored')
  BY <1>1, <1>2 DEF Inv, InStep
<1>4. disk' = config'
  BY <1>1 DEF Inv, Revisions
<1> QED BY <1>1, <1>3, <1>4, EndInv DEF Inv, Revisions

LEMMA RestartInv ==
  ASSUME Inv, Restart
  PROVE  JobShape' /\ Revisions' /\ Writing' /\ Undoing' /\ InStep'
<1>1. /\ Server' = Idle /\ config' = disk
      /\ UNCHANGED <<file, keychain, disk, put>>
  BY DEF Restart, vault, Server, Inv, TypeOK, Processes
<1>2. Stored' = Stored
  BY <1>1 DEF Stored
<1>3. ~astray' => registry' = Resolved(config'.env, Stored')
  BY <1>1, <1>2 DEF Restart
<1>4. disk.revision >= config.revision /\ (disk = config \/ disk.revision = config.revision + 1)
  BY DEF Inv, Revisions, TypeOK, Configs
<1>5. ASSUME NEW e \in Editors, put[e] # NoPut
      PROVE  put[e].base.revision < config'.revision \/ put[e].base = config'
  <2>1. put[e].base \in Configs /\ config.revision \in Nat
    BY <1>5 DEF Inv, TypeOK, Configs
  <2> QED BY <1>1, <1>4, <1>5, <2>1 DEF Inv, Revisions, Configs
<1>6. config'.revision >= 1
  BY <1>1, <1>4 DEF Inv, Revisions, TypeOK, Configs
<1> QED BY <1>1, <1>3, <1>5, <1>6, EndInv

LEMMA NextInv == Inv /\ [Next]_vars => Inv'
<1> SUFFICES ASSUME Inv, [Next]_vars
             PROVE  JobShape' /\ Revisions' /\ Writing' /\ Undoing' /\ InStep'
  BY NextTyped DEF Inv
<1>0. TypeOK
  BY DEF Inv
<1>1. CASE ServerStep
  BY <1>1, VaultStepInv, ReloadInv, ReloadFailsInv, ReloadForConfigInv, ReloadForConfigFailsInv,
     SaveConfigInv, SaveConfigFailsInv, PublishInv, InvalidateInv DEF ServerStep
<1>2. ASSUME \/ VaultStep("cli")
             \/ \E kind \in {"save", "delete"}, key \in Secrets : CliStart(kind, key)
             \/ CliKilled
      PROVE  JobShape' /\ Revisions' /\ Writing' /\ Undoing' /\ InStep'
  BY <1>0, <1>2, CliKeeps, CliInv
<1>3. ASSUME NEW k \in Keys, Begin("save", k)
      PROVE  JobShape' /\ Revisions' /\ Writing' /\ Undoing' /\ InStep'
  BY <1>3, BeginInv DEF Secrets
<1>4. CASE Begin("delete", NoKey)
  BY <1>4, BeginInv DEF Secrets
<1>5. ASSUME NEW e \in Editors,
             (\E env \in BOOLEAN : Compose(e, env)) \/ Conflict(e) \/ Accept(e)
      PROVE  JobShape' /\ Revisions' /\ Writing' /\ Undoing' /\ InStep'
  BY <1>5, ComposeInv, ConflictInv, AcceptInv
<1>6. CASE Restart
  BY <1>6, RestartInv
<1>7. CASE UNCHANGED vars
  BY <1>7 DEF vars, vault, settings, history, Inv, JobShape, Revisions, Writing, Undoing,
              InStep, Busy, Server, Stored
<1>8. ASSUME NEW k \in Keys, CliStart("save", k)
      PROVE  JobShape' /\ Revisions' /\ Writing' /\ Undoing' /\ InStep'
  BY <1>2, <1>8 DEF Secrets
<1>9. CASE CliStart("delete", NoKey)
  BY <1>2, <1>9 DEF Secrets
<1>10. CASE Next
  BY <1>1, <1>2, <1>3, <1>4, <1>5, <1>6, <1>8, <1>9, <1>10 DEF Next
<1> QED BY <1>7, <1>10

LEMMA Invariance == Spec => []Inv
  BY InitInv, NextInv, PTL DEF Spec

-----------------------------------------------------------------------------
(* How operations end *)

\* A step of the vault ends the server's operation only as a failure, and if no
\* fault was met that nothing undoes, credential and registry are the old ones.
LEMMA VaultStepEnds ==
  ASSUME Inv, VaultStep("server"), ~Busy'
  PROVE  /\ answer' = "failed"
         /\ faults' = {} => Stored' = before.secret /\ registry' = before.registry
<1>0. /\ Server \in Jobs /\ Server = job["server"] /\ Server'.pc = "idle"
      /\ TypeOK
  BY ServerTyped DEF Inv, Server, Busy
<1>1. CASE LoadFails("server")
  <2>1. Answer("failed", IF Server.undo THEN {"read"} ELSE {})
    BY <1>1 DEF LoadFails, VaultError, Server
  <2>2. Stored' = Stored /\ UNCHANGED <<config, disk, put, registry>>
    BY <1>1 DEF LoadFails, vault, Stored
  <2>3. Server.pc \in {"set", "remove"}
    BY <1>1 DEF LoadFails, At, Server
  <2>4. (IF Server.undo THEN {"read"} ELSE {}) = {} /\ faults = {} => Stored' = before.secret
    BY <1>0, <2>2, <2>3 DEF Inv, Undoing, Jobs
  <2> QED BY <2>1, <2>2, <2>3, <2>4, FailedInv DEF VaultSteps, Answer
<1>2. CASE SetKey("server")
  <2>1. Moves("readback", NoKey) \/ Moves("store", Server.key)
    BY <1>0, <1>2, ServerMoves DEF SetKey, Server
  <2> QED BY <1>0, <2>1 DEF Moves
<1>3. CASE Readback("server")
  <2>1. Moves("store", InKeychain) \/ Moves("store", Server.key)
    BY <1>0, <1>3, ServerMoves DEF Readback, Server
  <2> QED BY <1>0, <2>1 DEF Moves
<1>4. CASE RemoveKey("server")
  <2>1. Moves("store", NoKey)
    BY <1>0, <1>4, ServerMoves DEF RemoveKey
  <2> QED BY <1>0, <2>1 DEF Moves
<1>5. CASE RemoveMissing("server")
  <2>1. Answer("failed", {}) /\ Server.pc = "remove"
    BY <1>5 DEF RemoveMissing, VaultError, At, Server
  <2>2. Stored' = Stored /\ UNCHANGED <<config, disk, put, registry>> /\ Stored = NoKey
    BY <1>5, KeyAssumption DEF RemoveMissing, vault, Stored
  <2>3. faults = {} => Stored' = before.secret
    BY <1>0, <2>1, <2>2 DEF Inv, Undoing, Writing, VaultSteps, Jobs
  <2> QED BY <2>1, <2>2, <2>3, FailedInv DEF VaultSteps, Answer
<1>6. CASE StoreFile("server")
  <2>1. Server.pc = "store" /\ file' = Server.record
        /\ UNCHANGED <<useKeychain, keychain, registry, config, disk, put>>
    BY <1>6 DEF StoreFile, At, Server
  <2>2. CASE Server.undo
    <3>1. Answer("failed", {})
      BY <1>6, <2>2 DEF StoreFile, VaultError, Server
    <3>2. "race" \notin faults =>
            Stored' = IF Server.record = NoKey THEN NoKey ELSE Server.key
      BY <1>0, <2>1, KeyAssumption DEF Inv, Writing, Stored
    <3>3. faults = {} => Stored' = before.secret
      BY <2>1, <2>2, <3>2 DEF Inv, Writing, Undoing, VaultSteps
    <3> QED BY <2>1, <3>1, <3>3, FailedInv DEF VaultSteps, Answer
  <2>3. CASE ~Server.undo
    <3>1. Goto("server", "reload", NoKey)
      BY <1>6, <2>3 DEF StoreFile, Server
    <3> QED BY <1>0, <3>1, ServerMoves DEF Moves
  <2> QED BY <2>2, <2>3
<1>7. CASE StoreFails("server")
  BY <1>7 DEF StoreFails, VaultError, Answer
<1> QED BY <1>1, <1>2, <1>3, <1>4, <1>5, <1>6, <1>7, VaultStepInv DEF VaultStep

LEMMA ReloadFailsEnds ==
  ASSUME Inv, ReloadFails, ~Busy'
  PROVE  /\ answer' = "failed"
         /\ faults' = {} => Stored' = before.secret /\ registry' = before.registry
<1>1. /\ Server.pc = "reload" /\ Server'.pc = "idle"
      /\ UNCHANGED <<file, keychain, registry, config, disk, put>>
  BY DEF ReloadFails, At, Server, Busy, vault
<1>2. Stored' = Stored
  BY <1>1 DEF Stored
<1>3. Server \in Jobs /\ ~Server.undo
  BY <1>1, ServerTyped DEF Inv, Writing
<1>4. Server.kind = "delete" /\ Server.old = NoKey
  <2> SUFFICES ASSUME ~(Server.kind = "delete" /\ Server.old = NoKey) PROVE FALSE
    OBVIOUS
  <2>1. Server' = Compensation(Server)
    BY DEF ReloadFails, Server, Inv, TypeOK, Processes
  <2> QED BY <1>1, <1>3, <2>1 DEF Compensation, Jobs
<1>5. Answer("failed", {})
  BY <1>4 DEF ReloadFails, Server
<1>6. faults = {} => Stored' = before.secret
  BY <1>1, <1>2, <1>3, <1>4 DEF Inv, Writing, Undoing, VaultSteps
<1> QED BY <1>1, <1>5, <1>6, FailedInv DEF VaultSteps, Answer

\* Which steps end an operation of the server.
LEMMA EndingSteps ==
  ASSUME Inv, [Next]_vars, Busy, ~Busy'
  PROVE  VaultStep("server") \/ Reload \/ ReloadFails \/ ReloadForConfigFails
         \/ SaveConfigFails \/ Invalidate \/ Restart
<1>0. TypeOK /\ Server'.pc = "idle" /\ Server.pc # "idle"
  BY DEF Inv, Server, Busy
<1>1. ~ReloadForConfig /\ ~SaveConfig /\ ~Publish
  BY <1>0, ServerMoves DEF ReloadForConfig, SaveConfig, Publish, Moves
<1>2. ~( \/ VaultStep("cli")
         \/ \E kind \in {"save", "delete"}, key \in Secrets : CliStart(kind, key)
         \/ CliKilled)
  BY <1>0, CliKeeps
<1>3. /\ \A kind, key : ~Begin(kind, key)
      /\ \A e \in Editors : ~Conflict(e) /\ ~Accept(e)
  BY DEF Begin, Conflict, Accept
<1>4. \A e \in Editors, env \in BOOLEAN : ~Compose(e, env)
  BY <1>0 DEF Compose, Server
<1>5. ~UNCHANGED vars
  BY <1>0 DEF vars, Server
<1>6. \A k \in Keys : ~CliStart("save", k)
  BY <1>2 DEF Secrets
<1>7. ~CliStart("delete", NoKey)
  BY <1>2 DEF Secrets
<1> QED BY <1>1, <1>2, <1>3, <1>4, <1>5, <1>6, <1>7 DEF Next, ServerStep

-----------------------------------------------------------------------------
(* The theorems *)

\* Between operations the registry holds what the stores and the configuration
\* give the provider, unless something happened that nothing undoes: an unread
\* vault, an unwritten file, or the command line at work.
THEOREM RegistryInStep == Spec => []RegistryFollowsStores
<1>1. Inv => RegistryFollowsStores
  BY DEF Inv, InStep, Revisions, RegistryFollowsStores, Busy, Server
<1> QED BY <1>1, Invariance, PTL

\* config.json is never replaced by someone who had not read what it holds, once
\* anyone has written it.
THEOREM LostUpdateFree == Spec => NoLostUpdate
<1>1. Inv /\ [Next]_vars => (disk' # disk => update.base = disk \/ disk.revision = 1)
  <2> SUFFICES ASSUME Inv, [Next]_vars, disk' # disk
               PROVE  update.base = disk \/ disk.revision = 1
    OBVIOUS
  <2>1. SaveConfig
    <3>1. TypeOK
      BY DEF Inv
    <3>2. \A a \in Processes : ~VaultStep(a)
      BY DEF VaultStep, LoadFails, SetKey, Readback, RemoveKey, RemoveMissing,
             StoreFile, StoreFails, settings
    <3>3. /\ ~Reload /\ ~ReloadFails /\ ~ReloadForConfig /\ ~ReloadForConfigFails
          /\ ~SaveConfigFails /\ ~Publish /\ ~Invalidate /\ ~CliKilled /\ ~Restart
      BY DEF Reload, ReloadFails, ReloadForConfig, ReloadForConfigFails, SaveConfigFails,
             Publish, Invalidate, CliKilled, Restart, settings
    <3>4. \A kind, key : ~Begin(kind, key) /\ ~CliStart(kind, key)
      BY DEF Begin, CliStart, settings
    <3>5. \A e \in Editors : ~Conflict(e) /\ ~Accept(e) /\ \A env \in BOOLEAN : ~Compose(e, env)
      BY DEF Conflict, Accept, Compose
    <3>6. Next
      BY DEF vars, settings
    <3> QED BY <3>2, <3>3, <3>4, <3>5, <3>6 DEF Next, ServerStep, Processes
  <2>2. Server.pc = "save-config"
    BY <2>1 DEF SaveConfig, At, Server
  <2> QED BY <2>2 DEF Inv, Revisions
<1> QED BY <1>1, Invariance, PTL DEF Spec, NoLostUpdate

\* A save answered with success can be read back, and a deletion leaves nothing.
THEOREM AnswersAreStored == Spec => AnsweredIsStored
<1>1. Inv /\ [Next]_vars =>
        (Ends("ok") /\ "race" \notin faults' /\ job["server"].kind # "config"
           => Stored' = job["server"].key)
  <2> SUFFICES ASSUME Inv, [Next]_vars, Ends("ok"), "race" \notin faults',
                      job["server"].kind # "config"
               PROVE  Stored' = job["server"].key
    OBVIOUS
  <2>1. Busy /\ ~Busy' /\ answer' = "ok"
    BY DEF Ends
  <2>2. Reload
    <3>1. ~Invalidate
      BY DEF Invalidate, At, Inv, JobShape, ConfigSteps, Server
    <3>2. ~VaultStep("server") /\ ~ReloadFails
      BY <2>1, VaultStepEnds, ReloadFailsEnds
    <3>3. ~ReloadForConfigFails /\ ~SaveConfigFails /\ ~Restart
      BY <2>1 DEF ReloadForConfigFails, Answer, SaveConfigFails, Restart
    <3> QED BY <2>1, <3>1, <3>2, <3>3, EndingSteps
  <2>3. Server.pc = "reload" /\ "race" \notin faults /\ Stored' = Stored
    BY <2>2 DEF Reload, At, Server, vault, Stored
  <2> QED BY <2>3 DEF Inv, Writing, Server
<1> QED BY <1>1, Invariance, PTL DEF Spec, AnsweredIsStored

\* A failed operation leaves the credential and the registry as they were.
THEOREM FailuresLeaveNoTrace == Spec => FailureLeavesNoTrace
<1>1. Inv /\ [Next]_vars =>
        (Ends("failed") /\ faults' = {} /\ ~At("server", "invalidate")
           => Stored' = before.secret /\ registry' = before.registry)
  <2> SUFFICES ASSUME Inv, [Next]_vars, Ends("failed"), faults' = {},
                      ~At("server", "invalidate")
               PROVE  Stored' = before.secret /\ registry' = before.registry
    OBVIOUS
  <2>1. Busy /\ ~Busy' /\ answer' = "failed"
    BY DEF Ends
  <2>2. CASE VaultStep("server")
    BY <2>1, <2>2, VaultStepEnds
  <2>3. CASE ReloadFails
    BY <2>1, <2>3, ReloadFailsEnds
  <2>4. CASE ReloadForConfigFails
    <3>1. /\ Server.pc = "reload-config" /\ Answer("failed", {})
          /\ UNCHANGED <<file, keychain, registry, config, disk, put>>
      BY <2>4 DEF ReloadForConfigFails, At, Server, vault
    <3>2. Stored' = Stored
      BY <3>1 DEF Stored
    <3>3. faults = {} => Stored' = before.secret
      BY <3>1, <3>2 DEF Inv, Undoing, ConfigSteps
    <3> QED BY <3>1, <3>3, FailedInv
  <2>5. CASE SaveConfigFails
    BY <2>5, SaveConfigFailsInv
  <2>6. ~Reload /\ ~Restart /\ ~Invalidate
    BY <2>1 DEF Reload, Restart, Invalidate
  <2> QED BY <2>1, <2>2, <2>3, <2>4, <2>5, <2>6, EndingSteps
<1> QED BY <1>1, Invariance, PTL DEF Spec, FailureLeavesNoTrace
=============================================================================
