------------------------------ MODULE LuaStub -------------------------------
(***************************************************************************)
(* stublua_init() of stub-lua.c, which finds the Lua library and points    *)
(* the functions of stub-lua.h to it.  A library is known by its place in  *)
(* possible_names[], a function by its place in the list of DOLINK()s.     *)
(* Libraries come and go with the packages of the system, and the caller   *)
(* may initialise again, because the function returns 0 whatever happens.  *)
(***************************************************************************)
EXTENDS Integers

CONSTANTS
  Names,     \* the number of possible_names[]
  Functions  \* the number of functions to link

ASSUME StubAssumption == Names \in Nat /\ Functions \in Nat \ {0}

NoLib     == 0   \* NULL
OwnScope  == -1  \* the program itself: where dlsym(NULL) may look (Linux)

VARIABLES
  linker,    \* "idle", "loading" or "linking"
  n,         \* the index of the loop over the names, or of the DOLINK()s
  lib,       \* the handle dlopen() has returned
  pointer,   \* where each function pointer points to
  installed  \* the libraries that dlopen() can load

stub == <<linker, n, lib, pointer, installed>>

-----------------------------------------------------------------------------

\* The packages of the system change, but not while they are being loaded.
Install ==
  /\ linker = "idle"
  /\ installed' \in SUBSET (1 .. Names)
  /\ UNCHANGED <<linker, n, lib, pointer>>

stublua_init ==
  /\ linker = "idle"
  /\ linker' = "loading" /\ n' = 1
  /\ lib' = NoLib
  /\ UNCHANGED <<pointer, installed>>

\* Mutant: a library that was found does not end the loop.
Load_NoBreak ==
  /\ linker = "loading" /\ n \in installed
  /\ lib' = n
  /\ IF n < Names THEN n' = n + 1 /\ UNCHANGED linker ELSE linker' = "linking" /\ n' = 1
  /\ UNCHANGED <<pointer, installed>>

\* dlopen() succeeds: break.
Load ==
  /\ linker = "loading" /\ n \in installed
  /\ lib' = n
  /\ linker' = "linking" /\ n' = 1
  /\ UNCHANGED <<pointer, installed>>

LoadFails ==
  /\ linker = "loading" /\ n \in (1 .. Names) \ installed
  /\ n' = n + 1
  /\ UNCHANGED <<linker, lib, pointer, installed>>

\* No name is left: a message, and the functions are linked all the same.
NoneLoaded ==
  /\ linker = "loading" /\ n > Names
  /\ linker' = "linking" /\ n' = 1
  /\ UNCHANGED <<lib, pointer, installed>>

\* What dlsym() finds in the library, NULL when it does not export the name.
Symbols == IF lib = NoLib THEN {NoLib, OwnScope} ELSE {lib, NoLib}

\* Mutant: a function that is not found stays as it was.
DOLINK_Keeps ==
  /\ linker = "linking" /\ n <= Functions
  /\ \E s \in Symbols :
       pointer' = IF s = NoLib THEN pointer ELSE [pointer EXCEPT ![n] = s]
  /\ n' = n + 1
  /\ UNCHANGED <<linker, lib, installed>>

\* A function that is not found gets a message and a NULL pointer.
DOLINK ==
  /\ linker = "linking" /\ n <= Functions
  /\ \E s \in Symbols : pointer' = [pointer EXCEPT ![n] = s]
  /\ n' = n + 1
  /\ UNCHANGED <<linker, lib, installed>>

\* return 0
LinkingDone ==
  /\ linker = "linking" /\ n > Functions
  /\ linker' = "idle"
  /\ UNCHANGED <<n, lib, pointer, installed>>

-----------------------------------------------------------------------------

StubInit ==
  /\ linker = "idle" /\ n = 0
  /\ lib = NoLib
  /\ pointer = [f \in 1 .. Functions |-> NoLib]
  /\ installed = {}

StubNext ==
  \/ Install
  \/ stublua_init \/ Load \/ LoadFails \/ NoneLoaded \/ DOLINK \/ LinkingDone

StubSpec == StubInit /\ [][StubNext]_stub

-----------------------------------------------------------------------------

StubTypeOK ==
  /\ linker \in {"idle", "loading", "linking"}
  /\ n \in Nat /\ lib \in 0 .. Names
  /\ pointer \in [1 .. Functions -> -1 .. Names]
  /\ installed \subseteq 1 .. Names

(***************************************************************************)
(* The functions are linked to the first of possible_names[] that can be   *)
(* loaded, and to none of the others (stub-lua.c:47-58).                   *)
(***************************************************************************)
FirstLibrary ==
  linker = "linking" =>
    IF installed = {} THEN lib = NoLib
    ELSE lib \in installed /\ \A m \in installed : lib <= m

(***************************************************************************)
(* All functions come from one library, also when an earlier call has      *)
(* linked them to another one that was removed since: a lua_State of one   *)
(* version is never in the hands of a function of another                  *)
(* (stub-lua.c:66-126).                                                    *)
(***************************************************************************)
NeverMixed ==
  linker = "idle" => \A f \in 1 .. Functions :
    pointer[f] = NoLib \/ pointer[f] = (IF lib = NoLib THEN OwnScope ELSE lib)
=============================================================================
