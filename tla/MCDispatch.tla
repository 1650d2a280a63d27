----------------------------- MODULE MCDispatch -----------------------------
(* Instances of Dispatch.tla for TLC.  See README.md for the bounds.       *)
EXTENDS Dispatch, TLC

CONSTANTS
  MaxFd  \* descriptors 0 .. MaxFd, standard input among them, can be opened

MCFd == 0 .. MaxFd

\* The rings that dispatcher_create() creates, and the ones it has room for.
CreatedRings == {"inactivity"}
AllRings     == {"inactivity", "sleep", "receive"}

Symmetry == Permutations(Conn) \cup Permutations(Service)
=============================================================================
