---------------------------- MODULE MCEvidence ----------------------------
(* One model that can chat and paint, of which a probe run covers the chat. *)
(* A new manifest may change or drop it, and the operator may disable it or *)
(* replace what it is used for.                                             *)
EXTENDS Evidence

CONSTANTS m, chat, image

MCModels == {m}
MCFunctions == {chat, image}
MCCapabilities == {chat}
Old == [rev |-> 1, functions |-> {chat, image}]
New == [rev |-> 2, functions |-> {chat, image}]
MCDefinitions == {Old, New, Absent}
MCOverrides == {NoOverride,
                [disabled |-> TRUE, functions |-> {}],
                [disabled |-> FALSE, functions |-> {chat}]}
===========================================================================
