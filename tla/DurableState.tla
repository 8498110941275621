---------------------------- MODULE DurableState ----------------------------
(***************************************************************************)
(* What a store that keeps its state in a file promises, without threads,  *)
(* locks or sequence numbers: memory moves ahead one change at a time, the *)
(* file moves, at once or later, to a version memory has reached and never *)
(* backwards, and a restart resumes from the file.  A write may also spoil *)
(* the file, in the open: it then holds no version, and a restart begins   *)
(* anew.  The health tracker implements this, and the statistics, whose    *)
(* file is always whole.                                                   *)
(***************************************************************************)
EXTENDS Naturals

VARIABLES
  memory,   \* version of the state in memory
  file,     \* version in the file; 0 is none
  whole     \* no write has left the file cut short

version == <<memory, file, whole>>

Init == memory = 0 /\ file = 0 /\ whole = TRUE

Change ==
  /\ memory' = memory + 1
  /\ \/ UNCHANGED <<file, whole>>
     \/ file' = memory' /\ whole' = TRUE

Save ==
  /\ file' \in file..memory /\ whole' = TRUE
  /\ UNCHANGED memory

Spoil ==
  /\ file' = 0 /\ whole' = FALSE
  /\ UNCHANGED memory

Restart ==
  /\ memory' = file /\ whole' = TRUE
  /\ UNCHANGED file

Next == Change \/ Save \/ Spoil \/ Restart

Spec == Init /\ [][Next]_version
=============================================================================
