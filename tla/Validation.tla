------------------------------ MODULE Validation ------------------------------
(***************************************************************************)
(* The command validate-models (cmd/validate_models.go): one goroutine per *)
(* probe, a semaphore over all of them, a mutex per provider that is held  *)
(* while a probe waits for its turn, retries with a pause, and a report of *)
(* what was found once all have ended.  How long the waits are is left     *)
(* out: a pause ends.                                                      *)
(***************************************************************************)
EXTENDS Integers, FiniteSets, FiniteSetsExt

CONSTANTS
  ValidationModels,  \* model ids
  Functions,         \* model -> what it lists
  Owner,             \* model -> its provider
  Replies,           \* what a probe may come back with; see Reply
  Concurrency,       \* slots of the semaphore
  NoProbe            \* nobody holds a provider's mutex

Providers == {Owner[m] : m \in ValidationModels}

ReplyKinds == {"http", "timeout", "network", "unknown"}

Hints == {"none", "disabled", "ended", "not-free", "page", "key", "tool-call"}

\* status is 0 when no response came; hint is what the error text says.
Reply == [ok : BOOLEAN, status : Nat, kind : ReplyKinds, hint : Hints]

\* modelProbeOutcome: error is what its Error says, "empty" before any attempt failed.
Result == [ok : BOOLEAN, status : Nat, kind : ReplyKinds, error : Hints \cup {"empty"}]

\* The catalog is finite, and so is what a model lists.
ASSUME ValidationAssumption ==
  /\ IsFiniteSet(ValidationModels)
  /\ \A m \in ValidationModels : IsFiniteSet(Functions[m])
  /\ Replies \subseteq Reply
  /\ Concurrency \in Nat \ {0}

VARIABLES
  keyed,    \* providers with a credential
  filter,   \* those named by --providers; empty is no filter
  sem,      \* slots taken
  mu,       \* provider -> the probe that holds its mutex
  probe,    \* job -> its goroutine: step, attempt and outcome
  report    \* what is printed and how the command ends

validationVars == <<keyed, filter, sem, mu, probe, report>>

NotAsked == [ok |-> FALSE, status |-> 0, kind |-> "unknown", error |-> "empty"]

NoReport == [printed |-> FALSE, models |-> {}, outcomes |-> {}, listed |-> 0, ok |-> 0, failed |-> 0,
             okModels |-> 0, error |-> FALSE]

Checked == {p \in keyed : filter = {} \/ p \in filter}

CheckedModels == {m \in ValidationModels : Owner[m] \in Checked}

\* chat-tools is not probed when chat is.
Inferred(m, f) == f = "chat-tools" /\ "chat" \in Functions[m]

Pairs(models) == UNION {{m} \X Functions[m] : m \in models}

AllJobs == {j \in Pairs(ValidationModels) : ~Inferred(j[1], j[2])}

Jobs == {j \in AllJobs : j[1] \in CheckedModels}

ValidationInit ==
  /\ keyed \in SUBSET Providers /\ filter \in SUBSET Providers
  /\ sem = 0
  /\ mu = [p \in Providers |-> NoProbe]
  /\ probe = [j \in AllJobs |-> [step |-> "start", attempt |-> 0, outcome |-> NotAsked]]
  /\ report = NoReport

-----------------------------------------------------------------------------
(* One probe *)

Moves(j, from, to) == probe[j].step = from /\ probe' = [probe EXCEPT ![j].step = to]

Enter(j) ==
  /\ Moves(j, "start", "entered")
  /\ sem < Concurrency /\ sem' = sem + 1
  /\ UNCHANGED <<keyed, filter, mu, report>>

\* The slot is kept while the provider's turn is waited for.
Lock(j) ==
  /\ Moves(j, "entered", "pacing")
  /\ mu[Owner[j[1]]] = NoProbe
  /\ mu' = [mu EXCEPT ![Owner[j[1]]] = j]
  /\ UNCHANGED <<keyed, filter, sem, report>>

\* Mutant of Paced: the mutex is not released after the pause.
PacedLocked(j) ==
  /\ Moves(j, "pacing", "asking")
  /\ UNCHANGED <<keyed, filter, sem, mu, report>>

\* The pause is over; the mutex is released before the request is sent.
Paced(j) ==
  /\ Moves(j, "pacing", "asking")
  /\ mu' = [mu EXCEPT ![Owner[j[1]]] = NoProbe]
  /\ UNCHANGED <<keyed, filter, sem, report>>

\* Both kinds of retry share the counter: a timeout is retried only the first time.
Retried(reply, attempt) ==
  \/ reply.status = 429 /\ attempt < 2
  \/ reply.kind = "timeout" /\ attempt < 1

\* The outcome after one more attempt.  A success does not clear the Error that an
\* earlier attempt left.
After(outcome, reply) ==
  [ok |-> reply.ok, status |-> reply.status, kind |-> reply.kind,
   error |-> IF reply.ok THEN outcome.error ELSE reply.hint]

\* A probe that ends leaves its outcome in its place of the results and its slot
\* to another; one that is retried keeps the slot, and does not wait for its turn.
Replied(j, reply) ==
  /\ probe[j].step = "asking"
  /\ LET again == ~reply.ok /\ Retried(reply, probe[j].attempt)
     IN /\ probe' = [probe EXCEPT ![j].outcome = After(@, reply),
                                  ![j].step = IF again THEN "backoff" ELSE "ended"]
        /\ sem' = IF again THEN sem ELSE sem - 1
  /\ UNCHANGED <<keyed, filter, mu, report>>

Retry(j) ==
  /\ probe[j].step = "backoff"
  /\ probe' = [probe EXCEPT ![j].step = "asking", ![j].attempt = @ + 1]
  /\ UNCHANGED <<keyed, filter, sem, mu, report>>

-----------------------------------------------------------------------------
(* The report *)

Outcome(m, f, r) == [model |-> m, function |-> f, result |-> r]

Probed == {Outcome(j[1], j[2], probe[j].outcome) : j \in Jobs}

\* Mutant of Clones: only a success is taken for one of chat-tools.
ClonesOfSuccess ==
  {Outcome(r.model, "chat-tools", r.result) :
     r \in {q \in Probed : /\ q.function = "chat" /\ "chat-tools" \in Functions[q.model]
                           /\ q.result.ok}}

\* The outcome of chat stands for that of chat-tools, where that was not probed.
Clones ==
  {Outcome(r.model, "chat-tools", r.result) :
     r \in {q \in Probed : q.function = "chat" /\ "chat-tools" \in Functions[q.model]}}

\* classifyError, on the categories of runModelProbe and httpErrorCategory.
Issue(result) ==
  CASE result.status = 429 -> "rate-limit"
    [] result.kind \in {"timeout", "network"} -> result.kind
    [] result.status \in {404, 410} -> "unavailable"
    [] result.status = 403 ->
         (CASE result.error = "disabled" -> "model-disabled" [] result.error = "ended" -> "deprecated"
            [] result.error = "not-free" -> "no-longer-free" [] result.error = "page" -> "auth"
            [] OTHER -> "forbidden")
    [] result.status = 401 -> "auth"
    [] result.status >= 500 -> "upstream"
    [] OTHER ->
         (CASE result.error = "key" -> "auth" [] result.error = "disabled" -> "model-disabled"
            [] result.error = "tool-call" -> "tool-unsupported" [] result.error = "ended" -> "deprecated"
            [] result.error = "not-free" -> "no-longer-free" [] OTHER -> "error")

\* The order of summarizeIssues, which prints no other.
Summarized == {"auth", "forbidden", "deprecated", "not-found", "gone", "unavailable",
               "model-disabled", "no-longer-free", "tool-unsupported", "rate-limit", "timeout",
               "network", "upstream", "error"}

Failures(outcomes) == {r \in outcomes : ~r.result.ok}

\* wg.Wait has returned: the report is printed and decides the exit status, which
\* --exit-zero may override.
Report ==
  /\ ~report.printed
  /\ \A j \in Jobs : probe[j].step = "ended"
  /\ LET outcomes == Probed \cup Clones
         failures == Failures(outcomes)
     IN report' = [printed |-> TRUE, models |-> CheckedModels, outcomes |-> outcomes,
                   listed |-> Cardinality({r \in failures : Issue(r.result) \in Summarized}),
                   ok |-> Cardinality(outcomes \ failures), failed |-> Cardinality(failures),
                   okModels |-> Cardinality({m \in CheckedModels : \A r \in failures : r.model # m}),
                   error |-> CheckedModels = {} \/ failures # {}]
  /\ UNCHANGED <<keyed, filter, sem, mu, probe>>

Step(j) ==
  /\ j \in Jobs
  /\ \/ Enter(j) \/ Lock(j) \/ Paced(j) \/ Retry(j)
     \/ \E reply \in Replies : Replied(j, reply)

ValidationNext == Report \/ \E j \in AllJobs : Step(j)

ValidationSpec == ValidationInit /\ [][ValidationNext]_validationVars

\* A goroutine that can go on does, and a request ends at its timeout at the
\* latest.  Who gets a mutex or a slot first does not matter: every probe ends.
ValidationFairness == WF_validationVars(Report) /\ \A j \in AllJobs : WF_validationVars(Step(j))

-----------------------------------------------------------------------------
(* Properties *)

\* The report has one outcome for every function of every checked model, chat-tools
\* the same as chat where both are listed (validate_models.go:176); failed ones all
\* appear in the provider table, and a model is reported callable, or the command
\* successful, only if nothing failed.  No claim is made for the error text: an
\* outcome that is ok after a retry still carries that of the attempt before.
ReportIsComplete ==
  report.printed =>
    LET of(m, f) == {r \in report.outcomes : r.model = m /\ r.function = f}
        failing == {m \in report.models : \E r \in report.outcomes : r.model = m /\ ~r.result.ok}
    IN /\ \A j \in Pairs(report.models) : Cardinality(of(j[1], j[2])) = 1
       /\ Cardinality(report.outcomes) = Cardinality(Pairs(report.models))
       /\ \A m \in report.models :
            {"chat", "chat-tools"} \subseteq Functions[m] =>
              {r.result : r \in of(m, "chat")} = {r.result : r \in of(m, "chat-tools")}
       /\ report.listed = report.failed
       /\ report.okModels = Cardinality(report.models \ failing)
       /\ report.error <=> failing # {} \/ report.models = {}

\* Probes that hold slots wait for each other's mutexes, and pause in both: the
\* command ends all the same.
ValidationEnds == <>report.printed
=============================================================================
