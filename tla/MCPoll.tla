------------------------------- MODULE MCPoll -------------------------------
(* The poll() dispatcher for TLC, at two levels: one connection of the echo *)
(* service byte by byte (Echo.tla), or the table with several of them       *)
(* (PollDispatcher.tla).  A behaviour goes through one of the two.          *)
EXTENDS Echo, PollDispatcher

VARIABLE level  \* "connection" or "table"

both == <<level, vars, polls>>

BothInit ==
  /\ level \in {"connection", "table"}
  /\ Init /\ PollInit
  /\ level = "connection" => version = "written"

BothNext ==
  \/ level = "connection" /\ Next /\ UNCHANGED <<level, polls>>
  \/ level = "table" /\ PollNext /\ UNCHANGED <<level, vars>>

BothSpec ==
  /\ BothInit /\ [][BothNext]_both
  /\ WF_vars(level = "connection" /\ Handler)
  /\ WF_vars(level = "connection" /\ PollReturns)
  /\ WF_vars(level = "connection" /\ SendReturns)
  /\ WF_polls(level = "table" /\ Loop)
  /\ WF_polls(level = "table" /\ Certain)
=============================================================================
