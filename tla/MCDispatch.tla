----------------------------- MODULE MCDispatch -----------------------------
(* Choosing models and sending to their providers: the planner, a provider's *)
(* limiter, and validate-models, which has a throttle of its own.  They share *)
(* no state, so a behaviour follows one of them, its subject.                *)
EXTENDS Planner, Limiter, Validation

CONSTANTS
  free, m1, m2, m3, openrouter, other,
  shared, gone,   \* route entries: an upstream id of two models, and of none
  a, b, c      \* callers: one forwarding, two in a queue of two, one arriving

VARIABLE subject

-----------------------------------------------------------------------------
(* openrouter with its free router, and two more models of it; a second     *)
(* provider with one model.  Two models tie on score, one has none; they    *)
(* have one upstream id, the others are known by their own ids.             *)

FourModels == <<free, m1, m2, m3>>

TwoProviders == <<openrouter, other>>

Owners == [m \in {free, m1, m2, m3} |-> IF m = m3 THEN other ELSE openrouter]

Scores == [m \in {free, m1, m2, m3} |->
  CASE m = free -> 1 [] m = m1 -> 0 [] m = m2 -> 2 [] m = m3 -> 2]

Ranks == [m \in {free, m1, m2, m3} |->
  CASE m = m2 -> 2 [] m = m3 -> 1 [] OTHER -> 0]

DynamicRoutes ==
  {[models |-> <<>>, strategy |-> "ordered", tools |-> TRUE],
   [models |-> <<>>, strategy |-> "best-quality", tools |-> FALSE]}

UpstreamIDs == [m \in {free, m1, m2, m3} |-> IF m \in {m2, m3} THEN shared ELSE m]

RouteNames == {free, m1, m2, m3, shared, gone}

ConfiguredRoutes ==
  {[models |-> <<m1, m2, m3>>, strategy |-> "round-robin", tools |-> FALSE],
   [models |-> <<gone, shared, m3>>, strategy |-> "best-quality", tools |-> TRUE]}

AllRoutes == DynamicRoutes \cup ConfiguredRoutes

-----------------------------------------------------------------------------
(* validate-models has two slots for three probes: two of one provider, and one *)
(* of a model that lists chat-tools without chat.                              *)

Listing == [m \in {m1, m2, m3} |->
  CASE m = m1 -> {"chat", "chat-tools"} [] m = m2 -> {"image"} [] m = m3 -> {"chat-tools"}]

Response(status, kind, hint) ==
  [ok |-> status = 200, status |-> status, kind |-> kind, hint |-> hint]

Responses == {Response(200, "http", "none"), Response(429, "http", "none"),
              Response(0, "timeout", "none"), Response(403, "http", "disabled"),
              Response(402, "http", "none")}

-----------------------------------------------------------------------------

MCInit ==
  /\ subject \in {"planning", "forwarding", "validating"}
  /\ Init /\ LimiterInit /\ ValidationInit
  /\ subject = "validating" \/ (keyed = {} /\ filter = {})

MCNext ==
  \/ subject = "planning" /\ Next /\ UNCHANGED <<subject, limiterVars, validationVars>>
  \/ subject = "forwarding" /\ LimiterNext /\ UNCHANGED <<subject, vars, validationVars>>
  \/ subject = "validating" /\ ValidationNext /\ UNCHANGED <<subject, vars, limiterVars>>

\* Limiter's and Validation's fairness: each step belongs to the behaviours of
\* its subject, and is not enabled in the others'.
Fairness ==
  /\ \A x \in Callers : /\ WF_limiterVars(subject = "forwarding" /\ TokenTimeout(x))
                       /\ WF_limiterVars(subject = "forwarding" /\ SlotTimeout(x))
  /\ WF_validationVars(subject = "validating" /\ Report)
  /\ \A j \in AllJobs : WF_validationVars(subject = "validating" /\ Step(j))

MCSpec == MCInit /\ [][MCNext]_<<subject, vars, limiterVars, validationVars>> /\ Fairness

\* ValidationEnds, where the command runs at all.
CommandEnds == subject = "validating" => ValidationEnds
=============================================================================
