----------------------------- MODULE MCGateway -----------------------------
(* Two models of one provider: concurrent requests compete for the same     *)
(* slots, and a sibling model shares the provider's state.                  *)
EXTENDS Gateway, TLC

CONSTANTS p1, m1, m2, r1, r2

MCProviders == {p1}
MCModels == {m1, m2}
MCProviderOf == [m \in MCModels |-> p1]

\* One failure opens the breaker here; 401/402 quarantine for longer.
MCTransient == [f \in 1..1 |-> {1}]
MCCredential == [f \in 1..1 |-> {2}]

ChatRequest == [capability |-> "chat", idempotent |-> TRUE, deferAll |-> FALSE, loose |-> FALSE]
ImageRequest == [capability |-> "image", idempotent |-> FALSE, deferAll |-> FALSE, loose |-> FALSE]
ToolImageRequest ==
  [capability |-> "image", idempotent |-> FALSE, deferAll |-> TRUE, loose |-> FALSE]
ToolRequest == [capability |-> "tools", idempotent |-> TRUE, deferAll |-> TRUE, loose |-> TRUE]

\* One kind at a time: all requests are chats, or ask for images and have two
\* candidates, so that there is one to send them to again; with tools in the body
\* it is the same model twice.
Lists(kind) == CASE kind = ToolImageRequest -> {<<m1, m1>>}
                 [] kind = ImageRequest -> {<<m1, m2>>}
                 [] OTHER -> CandidateLists

OneKindNext ==
  \/ \E r \in Requests : \/ \E list \in Lists(req[r].kind) : Arrive(r, req[r].kind, list)
                         \/ Serve(r)
  \/ Maintain
  \/ Elapsed

OneKindSpec == GatewayInit /\ [][OneKindNext]_gatewayVars

\* A tool request alone, over every list, or two chats that may be in flight at
\* once, on siblings or on the same model.
Arrival(r, kind) ==
  IF kind = ToolRequest
  THEN r = r1 /\ \E list \in CandidateLists : Arrive(r, kind, list)
  ELSE \E m \in {m1, m2} : (r = r1 => m = m1) /\ Arrive(r, kind, <<m>>)

ToolOrChatsNext ==
  \/ \E r \in Requests : Arrival(r, req[r].kind) \/ Serve(r)
  \/ Maintain
  \/ Elapsed

ToolOrChatsFairSpec == GatewayInit /\ [][ToolOrChatsNext]_gatewayVars /\ GatewayFairness

ToolOrChats == {ToolRequest, ChatRequest}
ChatOrImages == {ChatRequest, ImageRequest, ToolImageRequest}
ToolImageOnly == {ToolImageRequest}
ChatOnly == {ChatRequest}

ShortLists == {<<m1>>, <<m1, m2>>}
ToolLists == {<<>>, <<m1, m2>>, <<m1, m1>>}

MaintainChat == {<<m1, "chat">>}
MaintainNothing == {}

Handlers == Permutations({r1, r2})
=============================================================================
