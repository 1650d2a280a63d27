---------------------------- MODULE EventTimeout ----------------------------
(***************************************************************************)
(* The ring of timeouts of event-timeout.c.  A slot of the ring holds the  *)
(* entries whose timestamp falls on it modulo the size of the ring, of     *)
(* this lap and of any later one.  timeouts_remove() walks current_index   *)
(* up to the time it is given and stops at the first slot with an entry    *)
(* that has expired by then.                                               *)
(*                                                                         *)
(* The linked list of a slot is here the set of its entries: which of two  *)
(* expired entries of a slot comes first is left open.  TimeoutLinks.tla   *)
(* has the pointers.  Everything runs on one thread, so a call is never    *)
(* interrupted by another; the search is modelled a slot at a time because *)
(* where current_index stops is what later calls depend on.                *)
(***************************************************************************)
EXTENDS Integers

CONSTANTS
  Entry,    \* the TimeoutEntry structures of the program
  Time,     \* the timestamps that callers pass, in ticks
  Slots,    \* the number of slots, mask + 1 (1024*1024 in the code)
  None,     \* "no call has to be answered"
  LateAdds  \* may a caller add an entry for a time it has asked about?

ASSUME TimeAssumption  == Time \subseteq Nat
ASSUME SlotsAssumption == Slots \in Nat \ {0}
ASSUME NoneAssumption  == None \notin Int
ASSUME LateAssumption  == LateAdds \in BOOLEAN

VARIABLES
  linked,         \* the entries that are on the list of some slot
  timestamp,      \* when an entry expires, 0 once it is unlinked
  current_index,  \* the next slot to look at, not reduced modulo Slots
  pc,             \* "idle", or "search" inside timeouts_remove()
  now,            \* the argument of timeouts_remove(), until it returns NULL
  seen            \* history: the latest time timeouts_remove() was given

vars == <<linked, timestamp, current_index, pc, now, seen>>

SlotOf(ts) == ts % Slots

\* The list at slots[k & mask].
SlotList(k) == {e \in linked : SlotOf(timestamp[e]) = SlotOf(k)}

\* Mutant: the timestamps are not looked at again.
ExpiredAt_AnyLap(k) == SlotList(k)

\* The entries of slot k that are not in the future of `now'.
ExpiredAt(k) == {e \in SlotList(k) : timestamp[e] <= now}

-----------------------------------------------------------------------------

timeouts_create ==
  /\ linked = {}
  /\ timestamp = [e \in Entry |-> 0]
  /\ current_index \in Time
  /\ pc = "idle"
  /\ now = None
  /\ seen = current_index

timeouts_add(e, ts) ==
  /\ pc = "idle"
  /\ LateAdds \/ ts > seen
  /\ linked' = linked \cup {e}
  /\ timestamp' = [timestamp EXCEPT ![e] = ts]
  /\ UNCHANGED <<current_index, pc, now, seen>>

\* The effect of timeout_unlink() on an entry that is linked.
Unlinked(e) ==
  /\ linked' = linked \ {e}
  /\ timestamp' = [timestamp EXCEPT ![e] = 0]

timeout_unlink(e) ==
  /\ pc = "idle"
  /\ e \in linked
  /\ Unlinked(e)
  /\ UNCHANGED <<current_index, pc, now, seen>>

timeouts_remove(ts) ==
  /\ pc = "idle"
  /\ pc' = "search"
  /\ now' = ts
  /\ seen' = IF ts > seen THEN ts ELSE seen
  /\ UNCHANGED <<linked, timestamp, current_index>>

\* timeouts_remove() returns the object that holds an expired entry.
ReturnEntry(e) ==
  /\ pc = "search" /\ current_index <= now
  /\ e \in ExpiredAt(current_index)
  /\ Unlinked(e)
  /\ pc' = "idle"
  /\ UNCHANGED <<current_index, now, seen>>

\* Mutant: the walk goes one slot too far.
NextSlot_TooFar ==
  /\ pc = "search" /\ current_index <= now + 1
  /\ ExpiredAt(current_index) = {}
  /\ current_index' = current_index + 1
  /\ UNCHANGED <<linked, timestamp, pc, now, seen>>

\* Mutant: every other slot is left out.
NextSlot_Skips ==
  /\ pc = "search" /\ current_index <= now
  /\ ExpiredAt(current_index) = {}
  /\ current_index' = current_index + 2
  /\ UNCHANGED <<linked, timestamp, pc, now, seen>>

\* Nothing at this slot has expired.
NextSlot ==
  /\ pc = "search" /\ current_index <= now
  /\ ExpiredAt(current_index) = {}
  /\ current_index' = current_index + 1
  /\ UNCHANGED <<linked, timestamp, pc, now, seen>>

\* Mutant: the slot of `now' itself is left out.
ReturnNull_OffByOne ==
  /\ pc = "search" /\ current_index >= now
  /\ pc' = "idle"
  /\ now' = None
  /\ UNCHANGED <<linked, timestamp, current_index, seen>>

\* Mutant: the call does not end.
ReturnNull_GoesOn ==
  /\ pc = "search" /\ current_index > now
  /\ now' = None
  /\ UNCHANGED <<linked, timestamp, current_index, pc, seen>>

\* timeouts_remove() has caught up with `now' and returns NULL.
ReturnNull ==
  /\ pc = "search" /\ current_index > now
  /\ pc' = "idle"
  /\ now' = None
  /\ UNCHANGED <<linked, timestamp, current_index, seen>>

Init == timeouts_create

Search == NextSlot \/ ReturnNull \/ \E e \in Entry : ReturnEntry(e)

Next ==
  \/ \E e \in Entry, ts \in Time : timeouts_add(e, ts)
  \/ \E e \in Entry : timeout_unlink(e)
  \/ \E ts \in Time : timeouts_remove(ts)
  \/ Search

Spec == Init /\ [][Next]_vars

(***************************************************************************)
(* Fairness: a call of timeouts_remove() runs to its end, and the caller   *)
(* asks again and again for a time that has come (the dispatcher calls it  *)
(* at the end of every round).  The caller may do anything else between    *)
(* two of these calls, hence strong fairness.                              *)
(***************************************************************************)
FairSpec ==
  /\ Spec
  /\ WF_vars(Search)
  /\ \A ts \in Time : SF_vars(timeouts_remove(ts))

-----------------------------------------------------------------------------

TypeOK ==
  /\ linked \subseteq Entry
  /\ timestamp \in [Entry -> Nat]
  /\ current_index \in Nat
  /\ pc \in {"idle", "search"}
  /\ now \in Nat \cup {None}
  /\ seen \in Nat
  /\ pc = "search" => now \in Nat

\* The time at which the walk of current_index is certain to hand e back:
\* its timestamp, or when that is already behind current_index the next
\* time the walk comes to the same slot.
DueTime(e) ==
  IF timestamp[e] >= current_index
  THEN timestamp[e]
  ELSE current_index + ((timestamp[e] - current_index) % Slots)

(***************************************************************************)
(* The ring keeps the promise of event-timeout.h, in the form TimerSet.tla *)
(* states it: nothing is handed back before its time, an entry armed for   *)
(* the future is never overlooked however many laps ahead it is, and one   *)
(* armed for the past is late by at most one lap (event-timeout.c:103-165).*)
(***************************************************************************)
Promise == INSTANCE TimerSet WITH
  Lap     <- Slots,
  expires <- [e \in Entry |-> IF e \in linked THEN timestamp[e] ELSE None],
  due     <- [e \in Entry |-> IF e \in linked THEN DueTime(e) ELSE 0],
  asked   <- now,
  asking  <- pc = "search"

KeepsPromise == Promise!Spec

(***************************************************************************)
(* When timeouts_remove() returns NULL, no entry that has expired by the   *)
(* time it was given is still in the ring: "remove all the objects that    *)
(* are older than the given timestamp" (event-timeout.h:101-104).          *)
(***************************************************************************)
NullMeansNoneOlder ==
  [][now # None /\ now' = None => \A e \in linked' : timestamp[e] > now]_vars

(***************************************************************************)
(* current_index never runs more than one tick past the latest time asked  *)
(* about: an entry added for any later time lies ahead of the walk.        *)
(***************************************************************************)
NeverRunsAhead == current_index <= seen + 1

(***************************************************************************)
(* An entry that can come due within the modelled time does not stay in    *)
(* the ring for ever: it is handed back, unlinked or moved to a later time *)
(* (the "recurring bug" of event-timeout.c:20-24 is an entry that is       *)
(* neither in the ring nor handed back, and so is never cleaned up).       *)
(***************************************************************************)
EventuallyLeaves ==
  \A e \in Entry, t \in Time :
    (e \in linked /\ timestamp[e] = t) ~> ~(e \in linked /\ timestamp[e] = t)
=============================================================================
