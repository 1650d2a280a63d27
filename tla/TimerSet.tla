------------------------------ MODULE TimerSet ------------------------------
(***************************************************************************)
(* What event-timeout.h promises the owner of a set of timeouts, with no   *)
(* ring, no slots and no lists: an entry is armed for a time, asking "what *)
(* is older than t?" hands expired entries back one at a time, and the     *)
(* answer "nothing" means that nothing which had to be handed back by t is *)
(* still armed.                                                            *)
(*                                                                         *)
(* When an entry has to be handed back is its `due' time.  An entry armed  *)
(* for a time later than every time the owner has asked about is due at    *)
(* exactly that time.  One armed for an earlier time (the owner's clock    *)
(* was set back) may be overlooked, but for no more than one lap of the    *)
(* ring.  While a question is open, an entry leaves only as its answer.    *)
(***************************************************************************)
EXTENDS Integers

CONSTANTS
  Entry,  \* the timeout entries
  Time,   \* the times an entry is armed for or the owner asks about, in Nat
  None,   \* "not armed", "nothing is being asked", not a number
  Lap     \* how late an entry armed for a time already passed can be

VARIABLES
  expires,  \* the time each entry is armed for, or None
  due,      \* the time by which an armed entry must be handed back
  asked,    \* the time last asked about, None once "nothing" was answered
  asking,   \* is a question open?
  seen      \* the latest time ever asked about

vars == <<expires, due, asked, asking, seen>>

Armed == {e \in Entry : expires[e] # None}

TypeOK ==
  /\ expires \in [Entry -> Nat \cup {None}]
  /\ due \in [Entry -> Nat]
  /\ asked \in Nat \cup {None}
  /\ asking \in BOOLEAN
  /\ seen \in Nat

-----------------------------------------------------------------------------

Create(now) ==
  /\ expires = [e \in Entry |-> None]
  /\ due = [e \in Entry |-> 0]
  /\ asked = None /\ asking = FALSE
  /\ seen = now

\* Arm e for time ts, whether or not it was armed before.
Add(e, ts) ==
  /\ ~asking
  /\ expires' = [expires EXCEPT ![e] = ts]
  /\ \E d \in ts .. (IF ts > seen THEN ts ELSE seen + Lap) :
       due' = [due EXCEPT ![e] = d]
  /\ UNCHANGED <<asked, asking, seen>>

Disarm(e) ==
  /\ expires' = [expires EXCEPT ![e] = None]
  /\ due' = [due EXCEPT ![e] = 0]

\* The owner no longer needs e's timeout.
Unlink(e) == ~asking /\ Disarm(e) /\ UNCHANGED <<asked, asking, seen>>

\* The owner asks for what is older than ts.
Ask(ts) ==
  /\ ~asking /\ asking' = TRUE
  /\ asked' = ts
  /\ seen' = IF ts > seen THEN ts ELSE seen
  /\ UNCHANGED <<expires, due>>

\* e may be the answer: it has expired.
Expired(e) ==
  /\ asking
  /\ e \in Armed /\ expires[e] <= asked

\* The answer is an expired entry, which is no longer armed.
HandBack(e) ==
  /\ Expired(e)
  /\ Disarm(e)
  /\ asking' = FALSE
  /\ UNCHANGED <<asked, seen>>

\* The answer is "nothing".
NothingLeft ==
  /\ asking
  /\ \A e \in Armed : due[e] > asked
  /\ asked' = None /\ asking' = FALSE
  /\ UNCHANGED <<expires, due, seen>>

Init == \E now \in Time : Create(now)

Next ==
  \/ \E e \in Entry, ts \in Time : Add(e, ts)
  \/ \E e \in Entry : Unlink(e)
  \/ \E ts \in Time : Ask(ts)
  \/ \E e \in Entry : HandBack(e)
  \/ NothingLeft

Spec == Init /\ [][Next]_vars
=============================================================================
