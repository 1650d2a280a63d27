--------------------------- MODULE MCEventTimeout ---------------------------
(***************************************************************************)
(* A ring of three slots walked for two laps or more by callers with three *)
(* entries.  Entries behave alike, so they may be permuted in the run that *)
(* checks safety only.                                                     *)
(***************************************************************************)
EXTENDS EventTimeout, TLC

CONSTANT MaxTick  \* bound: the last tick that callers speak of

MCTime == 0 .. MaxTick

Symmetry == Permutations(Entry)
=============================================================================
