------------------------------- MODULE Malloc -------------------------------
(***************************************************************************)
(* The allocation wrappers of util-malloc.c, and those of mymalloc.c (here *)
(* with my_ before their names; its REALLOC and STRDUP are the same).  A   *)
(* size_t holds the numbers below MAXNUM * MAXNUM, where MAXNUM is 1       *)
(* shifted by half the width of a size_t, and a product wraps around.  The *)
(* library's allocator may always answer NULL, and does so as it likes     *)
(* when no byte is asked for.                                              *)
(*                                                                         *)
(* A wrapper either returns what it was given or ends the program, so that *)
(* callers never look at the result.                                       *)
(***************************************************************************)
EXTENDS Integers

CONSTANT MAXNUM

ASSUME MaxnumAssumption == MAXNUM \in Nat \ {0}

SIZE_MAX == MAXNUM * MAXNUM - 1

Size == 0 .. SIZE_MAX

\* What a C expression of type size_t makes of n.
Wrapped(n) == n % (SIZE_MAX + 1)

VARIABLES
  asked,   \* the bytes the caller of a wrapper needs, not wrapped
  outcome, \* "block", "null" (it has returned NULL) or "aborted"
  granted  \* the bytes of the block it has returned

allocation == <<asked, outcome, granted>>

Granted(n) == outcome' = "block" /\ granted' = n
Null       == outcome' = "null" /\ granted' = 0
Abort      == outcome' = "aborted" /\ granted' = 0

-----------------------------------------------------------------------------

\* Mutant: both numbers must be large for the product to be looked at.
TooLarge_And(count, size) ==
  /\ count >= MAXNUM /\ size >= MAXNUM
  /\ size # 0 /\ count >= SIZE_MAX \div size

\* The test that count * size does not fit, without computing it.
TooLarge(count, size) ==
  /\ count >= MAXNUM \/ size >= MAXNUM
  /\ size # 0 /\ count >= SIZE_MAX \div size

\* realloc(p, count * size), and an abort when it fails.
REALLOCARRAY(count, size) ==
  /\ asked' = count * size
  /\ \/ TooLarge(count, size) /\ Abort
     \/ /\ ~TooLarge(count, size)
        /\ \/ Granted(Wrapped(count * size))
           \/ Wrapped(count * size) # 0 /\ Abort
           \/ Wrapped(count * size) = 0 /\ Null

\* calloc(count, size) multiplies for itself and fails rather than wrap.
CALLOC(count, size) ==
  /\ asked' = count * size
  /\ \/ TooLarge(count, size) /\ Abort
     \/ /\ ~TooLarge(count, size)
        /\ \/ count * size <= SIZE_MAX /\ Granted(count * size)
           \/ Wrapped(count * size) # 0 /\ Abort
           \/ Wrapped(count * size) = 0 /\ Null

MALLOC(size) ==
  /\ asked' = size
  /\ \/ Granted(size)
     \/ IF size # 0 THEN Abort ELSE Null

\* Unlike the others, this takes a NULL for no bytes for a failure.
REALLOC(size) ==
  /\ asked' = size
  /\ Granted(size) \/ Abort

\* length is that of the string, without the 0 that ends it.
STRDUP(length) ==
  /\ asked' = length + 1
  /\ Granted(length + 1) \/ Abort

\* The wrappers of mymalloc.c never return NULL, not even for no bytes.
my_MALLOC(size) ==
  /\ asked' = size
  /\ Granted(size) \/ Abort

my_CALLOC(count, size) ==
  /\ asked' = count * size
  /\ \/ ~TooLarge(count, size) /\ count * size <= SIZE_MAX /\ Granted(count * size)
     \/ Abort

my_REALLOCARRAY(count, size) ==
  /\ asked' = count * size
  /\ \/ ~TooLarge(count, size) /\ Granted(Wrapped(count * size))
     \/ Abort

MallocInit == asked = 0 /\ outcome = "null" /\ granted = 0

Allocate ==
  /\ outcome # "aborted"
  /\ \/ \E count, size \in Size : REALLOCARRAY(count, size) \/ CALLOC(count, size)
     \/ \E count, size \in Size : my_REALLOCARRAY(count, size) \/ my_CALLOC(count, size)
     \/ \E size \in Size : MALLOC(size) \/ REALLOC(size) \/ my_MALLOC(size)
     \/ \E length \in 0 .. SIZE_MAX - 1 : STRDUP(length)

MallocSpec == MallocInit /\ [][Allocate]_allocation

-----------------------------------------------------------------------------

MallocTypeOK ==
  /\ asked \in Nat
  /\ outcome \in {"block", "null", "aborted"}
  /\ granted \in Size

(***************************************************************************)
(* A block that is returned has all the bytes the caller needs, also when  *)
(* the number of them does not fit a size_t (util-malloc.c:14-21, 37-44).  *)
(***************************************************************************)
BlockIsLargeEnough == outcome = "block" => granted >= asked

(***************************************************************************)
(* NULL is returned only when nothing was asked for: a product that wraps  *)
(* to 0 does not pass for it (util-malloc.c:22, 45, 64).                   *)
(***************************************************************************)
NullOnlyForNothing == outcome = "null" => asked = 0
=============================================================================
