-------------------------------- MODULE Lists --------------------------------
(***************************************************************************)
(* The loop over a list of models that keeps some of them, which the       *)
(* gateway runs in many places (excludeModels, availableModels,            *)
(* filterHealthyModels, ...), as a recursive function, so that what it     *)
(* keeps can be proved.                                                    *)
(***************************************************************************)
EXTENDS Naturals, Sequences

\* The members of s that are in S, in the order of s.
Kept(s, S) ==
  LET kept[i \in 0..Len(s)] ==
        IF i = 0 THEN <<>>
        ELSE IF s[i] \in S THEN Append(kept[i - 1], s[i])
        ELSE kept[i - 1]
  IN kept[Len(s)]
=============================================================================
