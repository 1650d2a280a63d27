---------------------------- MODULE TimeoutLinks ----------------------------
(***************************************************************************)
(* The pointers of event-timeout.[ch].  An entry is a node of an intrusive *)
(* doubly-linked list: `next' points to the next entry, `prev' points to   *)
(* the pointer that points to the entry, which is either the head of a     *)
(* slot's list or the `next' field of another entry.  A cell is such a     *)
(* pointer; timeout_unlink() writes through `prev' without knowing which   *)
(* of the two it is, nor which slot the entry is on.                       *)
(*                                                                         *)
(* EventTimeout.tla has the same ring with the lists as sets; this module  *)
(* adds the lists, the cursor of the search in timeouts_remove(), and the  *)
(* fact that the search sees exactly the entries of the slot.              *)
(***************************************************************************)
EXTENDS Integers, FiniteSets

CONSTANTS
  Entry, Time, Slots, None,  \* as in EventTimeout.tla
  NULL                       \* the null pointer

ASSUME TimeAssumption  == Time \subseteq Nat
ASSUME SlotsAssumption == Slots \in Nat \ {0}
ASSUME NoneAssumption  == None \notin Int
ASSUME NullAssumption  == NULL \notin Entry
ASSUME EntryAssumption == IsFiniteSet(Entry)

HeadOf(ts) == <<"slot", ts % Slots>>
NextOf(e)  == <<"next", e>>

Heads == {<<"slot", s>> : s \in 0 .. Slots - 1}
Nexts == {<<"next", e>> : e \in Entry}
Cell  == Heads \cup Nexts

ASSUME CellAssumption == NULL \notin Cell

VARIABLES
  cell,           \* what each slots[i] and each entry->next points to
  prev,           \* the cell each entry->prev points to, or NULL
  timestamp,      \* when an entry expires
  current_index,  \* the next slot to look at
  cursor,         \* timeouts_remove(): the entry being looked at
  pc,             \* "idle", "slot" or "list" inside timeouts_remove()
  now,            \* its argument, until it returns NULL
  seen            \* history: the latest time it was given

links == <<cell, prev, timestamp>>
walk  == <<current_index, cursor, pc, now, seen>>
vars  == <<cell, prev, timestamp, current_index, cursor, pc, now, seen>>

-----------------------------------------------------------------------------

timeouts_create ==
  /\ cell = [c \in Cell |-> NULL]
  /\ prev = [e \in Entry |-> NULL]
  /\ timestamp = [e \in Entry |-> 0]
  /\ current_index \in Time
  /\ cursor = NULL
  /\ pc = "idle"
  /\ now = None
  /\ seen = current_index

\* An entry on no list, for which timeout_unlink() returns at once.
Loose(e) == prev[e] = NULL /\ cell[NextOf(e)] = NULL

\* Mutant: the rest of the list is lost.
CellsUnlinked_DropsRest(e) ==
  IF Loose(e) THEN cell
  ELSE [cell EXCEPT ![prev[e]] = NULL, ![NextOf(e)] = NULL]

\* The cells and the prev pointers after timeout_unlink(e).
CellsUnlinked(e) ==
  IF Loose(e) THEN cell
  ELSE [cell EXCEPT ![prev[e]] = cell[NextOf(e)], ![NextOf(e)] = NULL]

\* Mutant: the next entry goes on pointing back at e.
PrevUnlinked_NoBackLink(e) == [prev EXCEPT ![e] = NULL]

PrevUnlinked(e) ==
  IF Loose(e) THEN prev
  ELSE [f \in Entry |-> IF f = e THEN NULL
                        ELSE IF f = cell[NextOf(e)] THEN prev[e]
                        ELSE prev[f]]

\* Mutant: an unlinked entry is marked with -1.
Unlinked_Marks(e) ==
  /\ cell' = CellsUnlinked(e)
  /\ prev' = PrevUnlinked(e)
  /\ timestamp' = IF Loose(e) THEN timestamp ELSE [timestamp EXCEPT ![e] = -1]

Unlinked(e) ==
  /\ cell' = CellsUnlinked(e)
  /\ prev' = PrevUnlinked(e)
  /\ timestamp' = IF Loose(e) THEN timestamp ELSE [timestamp EXCEPT ![e] = 0]

timeout_unlink(e) ==
  /\ pc = "idle"
  /\ Unlinked(e)
  /\ UNCHANGED walk

\* Mutant: e is not taken off the list it is on.
timeouts_add_Twice(e, ts) ==
  LET h == HeadOf(ts)
  IN /\ pc = "idle"
     /\ cell' = [cell EXCEPT ![NextOf(e)] = cell[h], ![h] = e]
     /\ prev' = [f \in Entry |-> IF f = e THEN h
                                 ELSE IF f = cell[h] THEN NextOf(e)
                                 ELSE prev[f]]
     /\ timestamp' = [timestamp EXCEPT ![e] = ts]
     /\ UNCHANGED walk

\* timeouts_add() takes e off its list and puts it at the head of the list
\* of the slot that ts falls on.
timeouts_add(e, ts) ==
  LET c == CellsUnlinked(e)
      p == PrevUnlinked(e)
      h == HeadOf(ts)
  IN /\ pc = "idle"
     /\ cell' = [c EXCEPT ![NextOf(e)] = c[h], ![h] = e]
     /\ prev' = [f \in Entry |-> IF f = e THEN h
                                 ELSE IF f = c[h] THEN NextOf(e)
                                 ELSE p[f]]
     /\ timestamp' = [timestamp EXCEPT ![e] = ts]
     /\ UNCHANGED walk

timeouts_remove(ts) ==
  /\ pc = "idle"
  /\ pc' = "slot"
  /\ now' = ts
  /\ seen' = IF ts > seen THEN ts ELSE seen
  /\ UNCHANGED <<cell, prev, timestamp, current_index, cursor>>

\* Start at the head of the list of the current slot.
StartSlot ==
  /\ pc = "slot" /\ current_index <= now
  /\ cursor' = cell[HeadOf(current_index)]
  /\ pc' = "list"
  /\ UNCHANGED <<cell, prev, timestamp, current_index, now, seen>>

\* Mutant: the list is given up at the first entry in the future.
SkipEntry_GivesUp ==
  /\ pc = "list" /\ cursor # NULL
  /\ timestamp[cursor] > now
  /\ cursor' = NULL
  /\ UNCHANGED <<cell, prev, timestamp, current_index, pc, now, seen>>

\* Skip an entry that lies in the future.
SkipEntry ==
  /\ pc = "list" /\ cursor # NULL
  /\ timestamp[cursor] > now
  /\ cursor' = cell[NextOf(cursor)]
  /\ UNCHANGED <<cell, prev, timestamp, current_index, pc, now, seen>>

\* Mutant: the next slot is the same one.
NextSlot_Stays ==
  /\ pc = "list" /\ cursor = NULL
  /\ pc' = "slot"
  /\ UNCHANGED <<cell, prev, timestamp, current_index, cursor, now, seen>>

\* The list is exhausted: move to the next slot.
NextSlot ==
  /\ pc = "list" /\ cursor = NULL
  /\ current_index' = current_index + 1
  /\ pc' = "slot"
  /\ UNCHANGED <<cell, prev, timestamp, cursor, now, seen>>

\* An expired entry: unlink it and return the object that holds it.
ReturnEntry ==
  /\ pc = "list" /\ cursor # NULL
  /\ timestamp[cursor] <= now
  /\ Unlinked(cursor)
  /\ cursor' = NULL
  /\ pc' = "idle"
  /\ UNCHANGED <<current_index, now, seen>>

ReturnNull ==
  /\ pc = "slot" /\ current_index > now
  /\ pc' = "idle"
  /\ now' = None
  /\ UNCHANGED <<cell, prev, timestamp, current_index, cursor, seen>>

Init == timeouts_create

Search == StartSlot \/ SkipEntry \/ NextSlot \/ ReturnEntry \/ ReturnNull

Next ==
  \/ \E e \in Entry, ts \in Time : timeouts_add(e, ts)
  \/ \E e \in Entry : timeout_unlink(e)
  \/ \E ts \in Time : timeouts_remove(ts)
  \/ Search

Spec == Init /\ [][Next]_vars

\* Fairness: a call of timeouts_remove(), once made, goes on running.
FairSpec == Spec /\ WF_vars(Search)

-----------------------------------------------------------------------------

TypeOK ==
  /\ cell \in [Cell -> Entry \cup {NULL}]
  /\ prev \in [Entry -> Cell \cup {NULL}]
  /\ timestamp \in [Entry -> Nat]
  /\ current_index \in Nat
  /\ cursor \in Entry \cup {NULL}
  /\ pc \in {"idle", "slot", "list"}
  /\ now \in Nat \cup {None}
  /\ seen \in Nat

Linked == {e \in Entry : prev[e] # NULL}

(***************************************************************************)
(* prev and next agree in both directions: the cell an entry's prev points *)
(* to points back at the entry, the entry a cell points to has its prev at *)
(* that cell, and an entry that is on no list points nowhere.  So unlinking*)
(* an entry twice, or adding one that is on a list, never damages a list   *)
(* (event-timeout.h:39-49, event-timeout.c:104-128).                       *)
(***************************************************************************)
CellsAndPrevAgree ==
  /\ \A e \in Linked : cell[prev[e]] = e
  /\ \A c \in Cell : cell[c] # NULL => prev[cell[c]] = c
  /\ \A e \in Entry \ Linked : cell[NextOf(e)] = NULL

\* The n-th entry of a slot's list, counting from 0, or NULL past its end.
Nth(s) ==
  LET f[n \in 0 .. Cardinality(Entry)] ==
        IF n = 0 THEN cell[<<"slot", s>>]
        ELSE IF f[n - 1] = NULL THEN NULL
        ELSE cell[NextOf(f[n - 1])]
  IN f

ListOf(s) == {Nth(s)[n] : n \in 0 .. Cardinality(Entry)} \ {NULL}

(***************************************************************************)
(* Every linked entry is found by following the list of the slot its       *)
(* timestamp falls on, every list ends, and a list holds nothing else: no  *)
(* entry is ever lost to the search of timeouts_remove(), however entries  *)
(* are added, moved and unlinked (event-timeout.c:20-24).                  *)
(***************************************************************************)
ListsHoldLinked ==
  \A s \in 0 .. Slots - 1 :
    /\ Nth(s)[Cardinality(Entry)] = NULL
    /\ ListOf(s) = {e \in Linked : timestamp[e] % Slots = s}

(***************************************************************************)
(* The pointers implement the ring whose lists are sets: what the search   *)
(* returns has expired, and it leaves a slot only when nothing on it has.  *)
(***************************************************************************)
Ring == INSTANCE EventTimeout WITH
  LateAdds <- TRUE,
  linked   <- Linked,
  pc       <- IF pc = "idle" THEN "idle" ELSE "search"

ImplementsRing == Ring!Spec

\* The entries of the current slot's list that the search has yet to look at.
ToVisit ==
  LET L == Nth(current_index % Slots)
      N == Cardinality(Entry)
  IN {L[n] : n \in {k \in 0 .. N : \E m \in 0 .. k : L[m] = cursor}} \ {NULL}

(***************************************************************************)
(* Every step of a search brings it nearer to its end: it goes on to the   *)
(* next slot, of which none is later than the time it was given, or to the *)
(* list of its slot, or leaves an entry of the list behind for good.  The  *)
(* lists must have no cycles for this (event-timeout.c:135-163).           *)
(***************************************************************************)
SearchComesToEnd ==
  [][pc # "idle" /\ pc' # "idle" =>
       \/ pc' = "slot" /\ current_index < current_index' /\ current_index' <= now + 1
       \/ /\ UNCHANGED <<links, current_index, now>>
          /\ pc' = "list"
          /\ pc = "slot" \/ (ToVisit' \subseteq ToVisit /\ ToVisit' # ToVisit)]_vars

(***************************************************************************)
(* timeouts_remove() returns: it runs into no cycle of `next' pointers and *)
(* catches up with the time it was given (event-timeout.c:138-152).        *)
(***************************************************************************)
RemoveReturns == pc # "idle" ~> pc = "idle"
=============================================================================
