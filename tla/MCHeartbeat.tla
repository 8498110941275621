---------------------------- MODULE MCHeartbeat ----------------------------
(* Two providers: a1, a chat-tools target, and a2 of the first, b1 of the    *)
(* second.  Two probes a round, so one of the three always has to wait: a1   *)
(* comes and goes, b1 is dead, and a2, last in the order, is well.           *)
EXTENDS Heartbeat, TLC

CONSTANTS a1, a2, b1

MCTargets == {a1, a2, b1}
MCProvider == (a1 :> 1) @@ (a2 :> 1) @@ (b1 :> 2)
MCModelOrder == (a1 :> 1) @@ (a2 :> 2) @@ (b1 :> 3)
MCChatTools == {a1}
MCAnswers == (a1 :> BOOLEAN) @@ (a2 :> {TRUE}) @@ (b1 :> {FALSE})
MCTripping == {a1}

ProbeAll == {{a1, b1}}
=============================================================================
