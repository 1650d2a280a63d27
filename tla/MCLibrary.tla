----------------------------- MODULE MCLibrary -----------------------------
(***************************************************************************)
(* The library under the program, for TLC: the linked lists of the ring of *)
(* timeouts, the allocation wrappers, the sleep and the loader have nothing*)
(* to do with one another, so a behaviour exercises one of them while the  *)
(* others are as they were at first.                                       *)
(*                                                                         *)
(* Three entries on a ring of two slots: lists of up to three entries, the *)
(* same slot reached on several laps, and every entry unlinked from the    *)
(* head, the middle and the end of a list.                                 *)
(***************************************************************************)
EXTENDS TimeoutLinks, Malloc, Usleep, LuaStub

CONSTANT MaxTick  \* bound: the last tick that callers of the ring speak of

VARIABLE part

library == <<part, vars, allocation, sleep, stub>>

MCTime == 0 .. MaxTick

\* What may be any of several values at first is so for its own part only.
LibraryInit ==
  /\ part \in {"links", "malloc", "sleep", "lua"}
  /\ Init /\ MallocInit /\ SleepInit /\ StubInit
  /\ part # "links" => current_index = 0
  /\ part # "sleep" => build = "posix"

LibraryNext ==
  \/ part = "links" /\ Next /\ UNCHANGED <<part, allocation, sleep, stub>>
  \/ part = "malloc" /\ Allocate /\ UNCHANGED <<part, vars, sleep, stub>>
  \/ part = "sleep" /\ SleepNext /\ UNCHANGED <<part, vars, allocation, stub>>
  \/ part = "lua" /\ StubNext /\ UNCHANGED <<part, vars, allocation, sleep>>

LibrarySpec ==
  /\ LibraryInit /\ [][LibraryNext]_library
  /\ WF_vars(part = "links" /\ Search)
  /\ SleepFairness
=============================================================================
