------------------------- MODULE TimeoutLinksProofs -------------------------
(***************************************************************************)
(* Proofs about the pointers of event-timeout.[ch], for any number of      *)
(* entries and slots.  That next and prev agree is inductive as it stands: *)
(* no part of timeout_unlink() or timeouts_add() depends on the list being *)
(* finite or on which slot it belongs to.                                  *)
(***************************************************************************)
EXTENDS TimeoutLinks, FiniteSetTheorems, TLAPS

LinksOK(c, p) == c \in [Cell -> Entry \cup {NULL}] /\ p \in [Entry -> Cell \cup {NULL}]

\* CellsAndPrevAgree of cells c and prev pointers p.
Agree(c, p) ==
  /\ \A e \in Entry : p[e] # NULL => c[p[e]] = e
  /\ \A x \in Cell : c[x] # NULL => p[c[x]] = x
  /\ \A e \in Entry : p[e] = NULL => c[NextOf(e)] = NULL

LEMMA AgreeDef == CellsAndPrevAgree <=> Agree(cell, prev)
  BY DEF CellsAndPrevAgree, Agree, Linked

\* A `next' field is not the head of a list, nor that of another entry.
LEMMA CellFacts ==
  /\ \A e \in Entry : NextOf(e) \in Cell
  /\ \A d, e \in Entry : NextOf(d) = NextOf(e) => d = e
  /\ \A ts \in Nat : HeadOf(ts) \in Cell
  /\ \A ts \in Nat : \A e \in Entry : HeadOf(ts) # NextOf(e)
<1>1. \A e \in Entry : NextOf(e) \in Cell
  BY DEF NextOf, Cell, Nexts
<1>2. \A d, e \in Entry : NextOf(d) = NextOf(e) => d = e
  BY DEF NextOf
<1>3. ASSUME NEW ts \in Nat
      PROVE  HeadOf(ts) \in Cell
  <2>1. ts % Slots \in 0 .. Slots - 1
    BY SlotsAssumption
  <2> QED BY <2>1 DEF HeadOf, Cell, Heads
<1>4. \A ts \in Nat : \A e \in Entry : HeadOf(ts) # NextOf(e)
  BY DEF HeadOf, NextOf
<1> QED BY <1>1, <1>2, <1>3, <1>4

\* timeout_unlink() keeps next and prev in agreement, and afterwards the
\* entry is on no list (event-timeout.h:39-49).
LEMMA UnlinkAgrees ==
  ASSUME LinksOK(cell, prev), Agree(cell, prev), NEW e \in Entry
  PROVE  /\ LinksOK(CellsUnlinked(e), PrevUnlinked(e))
         /\ Agree(CellsUnlinked(e), PrevUnlinked(e))
         /\ PrevUnlinked(e)[e] = NULL
<1>1. CASE Loose(e)
  BY <1>1 DEF Loose, CellsUnlinked, PrevUnlinked
<1>2. CASE ~Loose(e)
  <2> DEFINE c == CellsUnlinked(e)
             p == PrevUnlinked(e)
             n == NextOf(e)
  <2>0. /\ cell \in [Cell -> Entry \cup {NULL}] /\ prev \in [Entry -> Cell \cup {NULL}]
        /\ NULL \notin Entry /\ NULL \notin Cell
        /\ n \in Cell /\ \A d \in Entry : NextOf(d) \in Cell /\ (NextOf(d) = n => d = e)
    BY CellFacts, NullAssumption, CellAssumption DEF LinksOK
  <2>1. prev[e] # NULL /\ prev[e] \in Cell /\ cell[prev[e]] = e
    BY <1>2, <2>0 DEF Loose, Agree
  <2>2. c = [cell EXCEPT ![prev[e]] = cell[n], ![n] = NULL]
    BY <1>2 DEF CellsUnlinked
  <2>3. p = [f \in Entry |-> IF f = e THEN NULL
                             ELSE IF f = cell[n] THEN prev[e]
                             ELSE prev[f]]
    BY <1>2 DEF PrevUnlinked
  <2> HIDE DEF c, p, n
  <2>4. \A x \in Cell : c[x] = IF x = n THEN NULL
                               ELSE IF x = prev[e] THEN cell[n] ELSE cell[x]
    BY <2>0, <2>1, <2>2
  <2>5. \A f \in Entry : p[f] = IF f = e THEN NULL
                                ELSE IF f = cell[n] THEN prev[e] ELSE prev[f]
    BY <2>3
  <2>6. LinksOK(c, p)
    <3>1. c \in [Cell -> Entry \cup {NULL}]
      BY <2>0, <2>1, <2>2
    <3>2. p \in [Entry -> Cell \cup {NULL}]
      BY <2>0, <2>1, <2>3
    <3> QED BY <3>1, <3>2 DEF LinksOK
  <2>7. ASSUME NEW f \in Entry, p[f] # NULL
        PROVE  c[p[f]] = f
    <3>1. CASE f = cell[n]
      <4>1. p[f] = prev[e] /\ f # e
        BY <2>5, <2>7, <3>1
      <4>2. prev[e] # n
        BY <2>1, <3>1, <4>1
      <4> QED BY <2>1, <2>4, <3>1, <4>1, <4>2
    <3>2. CASE f # cell[n]
      <4>1. p[f] = prev[f] /\ f # e /\ prev[f] \in Cell /\ cell[prev[f]] = f
        BY <2>0, <2>5, <2>7, <3>2 DEF Agree
      <4>2. prev[f] # n /\ prev[f] # prev[e]
        BY <2>1, <3>2, <4>1
      <4> QED BY <2>4, <4>1, <4>2
    <3> QED BY <3>1, <3>2
  <2>8. ASSUME NEW x \in Cell, c[x] # NULL
        PROVE  p[c[x]] = x
    <3>1. x # n
      BY <2>4, <2>8
    <3>2. CASE x = prev[e]
      <4>1. c[x] = cell[n] /\ cell[n] \in Entry /\ prev[cell[n]] = n
        BY <2>0, <2>4, <2>8, <3>1, <3>2 DEF Agree
      <4>2. cell[n] # e
        BY <3>1, <3>2, <4>1
      <4> QED BY <2>5, <3>2, <4>1, <4>2
    <3>3. CASE x # prev[e]
      <4>1. c[x] = cell[x] /\ cell[x] \in Entry /\ prev[cell[x]] = x
        BY <2>0, <2>4, <2>8, <3>1, <3>3 DEF Agree
      <4>2. cell[x] # e
        BY <3>3, <4>1
      <4>3. cell[x] # cell[n]
        BY <2>0, <3>1, <4>1 DEF Agree
      <4> QED BY <2>5, <4>1, <4>2, <4>3
    <3> QED BY <3>2, <3>3
  <2>9. ASSUME NEW f \in Entry, p[f] = NULL
        PROVE  c[NextOf(f)] = NULL
    <3>1. CASE f = e
      BY <2>0, <2>4, <3>1 DEF n
    <3>2. CASE f # e
      <4>1. prev[f] = NULL /\ f # cell[n]
        BY <2>0, <2>1, <2>5, <2>9, <3>2
      <4>2. cell[NextOf(f)] = NULL
        BY <4>1 DEF Agree
      <4>3. NextOf(f) # prev[e] /\ NextOf(f) # n /\ NextOf(f) \in Cell
        BY <2>0, <2>1, <3>2, <4>2
      <4> QED BY <2>4, <4>2, <4>3
    <3> QED BY <3>1, <3>2
  <2>10. p[e] = NULL
    BY <2>5
  <2> QED BY <2>6, <2>7, <2>8, <2>9, <2>10 DEF Agree, c, p
<1> QED BY <1>1, <1>2

\* So does timeouts_add(), whether or not the entry was on a list before
\* (event-timeout.c:104-128).
LEMMA AddAgrees ==
  ASSUME LinksOK(cell, prev), Agree(cell, prev),
         NEW e \in Entry, NEW ts \in Nat, timeouts_add(e, ts)
  PROVE  LinksOK(cell', prev') /\ Agree(cell', prev')
<1> DEFINE c == CellsUnlinked(e)
           p == PrevUnlinked(e)
           h == HeadOf(ts)
           n == NextOf(e)
<1>0. LinksOK(c, p) /\ Agree(c, p) /\ p[e] = NULL
  BY UnlinkAgrees
<1>1. /\ NULL \notin Entry /\ NULL \notin Cell
      /\ n \in Cell /\ h \in Cell /\ \A d \in Entry : h # NextOf(d)
      /\ \A d \in Entry : NextOf(d) \in Cell /\ (NextOf(d) = n => d = e)
  BY CellFacts, NullAssumption, CellAssumption
<1>2. /\ cell' = [c EXCEPT ![n] = c[h], ![h] = e]
      /\ prev' = [f \in Entry |-> IF f = e THEN h
                                  ELSE IF f = c[h] THEN n ELSE p[f]]
  BY DEF timeouts_add
<1>3. c[n] = NULL
  BY <1>0 DEF Agree
<1> HIDE DEF c, p, h, n
<1>4. \A x \in Cell : cell'[x] = IF x = h THEN e ELSE IF x = n THEN c[h] ELSE c[x]
  BY <1>0, <1>1, <1>2 DEF LinksOK
<1>5. \A f \in Entry : prev'[f] = IF f = e THEN h ELSE IF f = c[h] THEN n ELSE p[f]
  BY <1>2
<1>6. h # n /\ c[h] # e
  BY <1>0, <1>1 DEF Agree, n
<1>7. LinksOK(cell', prev')
  BY <1>0, <1>1, <1>2 DEF LinksOK
<1>8. ASSUME NEW f \in Entry, prev'[f] # NULL
      PROVE  cell'[prev'[f]] = f
  <2>1. CASE f = e
    BY <1>1, <1>4, <1>5, <2>1
  <2>2. CASE f # e /\ f = c[h]
    BY <1>1, <1>4, <1>5, <1>6, <2>2
  <2>3. CASE f # e /\ f # c[h]
    <3>1. prev'[f] = p[f] /\ p[f] \in Cell /\ c[p[f]] = f
      BY <1>0, <1>5, <1>8, <2>3 DEF Agree, LinksOK
    <3>2. p[f] # h /\ p[f] # n
      BY <1>1, <1>3, <2>3, <3>1
    <3> QED BY <1>4, <3>1, <3>2
  <2> QED BY <2>1, <2>2, <2>3
<1>9. ASSUME NEW x \in Cell, cell'[x] # NULL
      PROVE  prev'[cell'[x]] = x
  <2>1. CASE x = h
    BY <1>4, <1>5, <2>1
  <2>2. CASE x = n
    <3>1. cell'[x] = c[h] /\ c[h] \in Entry
      BY <1>0, <1>1, <1>4, <1>6, <1>9, <2>2 DEF LinksOK
    <3> QED BY <1>5, <1>6, <2>2, <3>1
  <2>3. CASE x # h /\ x # n
    <3>1. cell'[x] = c[x] /\ c[x] \in Entry /\ p[c[x]] = x
      BY <1>0, <1>4, <1>9, <2>3 DEF LinksOK, Agree
    <3>2. c[x] # e /\ c[x] # c[h]
      BY <1>0, <1>1, <2>3, <3>1 DEF Agree
    <3> QED BY <1>5, <3>1, <3>2
  <2> QED BY <2>1, <2>2, <2>3
<1>10. ASSUME NEW f \in Entry, prev'[f] = NULL
       PROVE  cell'[NextOf(f)] = NULL
  <2>1. f # e /\ p[f] = NULL
    BY <1>1, <1>5, <1>10
  <2>2. c[NextOf(f)] = NULL /\ NextOf(f) # h /\ NextOf(f) # n
    BY <1>0, <1>1, <2>1 DEF Agree
  <2> QED BY <1>1, <1>4, <2>2
<1> QED BY <1>7, <1>8, <1>9, <1>10 DEF Agree

-----------------------------------------------------------------------------

IInv == TypeOK /\ CellsAndPrevAgree

LEMMA UnlinkedKeeps ==
  ASSUME IInv, NEW e \in Entry, Unlinked(e)
  PROVE  /\ cell' \in [Cell -> Entry \cup {NULL}]
         /\ prev' \in [Entry -> Cell \cup {NULL}]
         /\ timestamp' \in [Entry -> Nat]
         /\ CellsAndPrevAgree'
<1>1. LinksOK(cell, prev) /\ Agree(cell, prev)
  BY AgreeDef DEF IInv, TypeOK, LinksOK
<1>2. LinksOK(cell', prev') /\ Agree(cell', prev')
  BY <1>1, UnlinkAgrees DEF Unlinked
<1>3. timestamp' \in [Entry -> Nat]
  BY DEF IInv, TypeOK, Unlinked
<1> QED BY <1>2, <1>3 DEF LinksOK, Agree, CellsAndPrevAgree, Linked

LEMMA InitIInv == Init => IInv
<1> SUFFICES ASSUME Init PROVE IInv
  OBVIOUS
<1>1. TypeOK
  BY TimeAssumption DEF Init, timeouts_create, TypeOK
<1>2. CellsAndPrevAgree
  BY CellFacts DEF Init, timeouts_create, CellsAndPrevAgree, Linked
<1> QED BY <1>1, <1>2 DEF IInv

LEMMA NextIInv == IInv /\ [Next]_vars => IInv'
<1> SUFFICES ASSUME IInv, [Next]_vars PROVE IInv'
  OBVIOUS
<1>0. TypeOK /\ CellsAndPrevAgree /\ LinksOK(cell, prev) /\ Agree(cell, prev)
  BY AgreeDef DEF IInv, TypeOK, LinksOK
<1>1. ASSUME NEW e \in Entry, NEW ts \in Time, timeouts_add(e, ts)
      PROVE  IInv'
  <2>1. ts \in Nat
    BY TimeAssumption
  <2>2. LinksOK(cell', prev') /\ Agree(cell', prev')
    BY <1>0, <1>1, <2>1, AddAgrees
  <2>3. timestamp' = [timestamp EXCEPT ![e] = ts] /\ UNCHANGED walk
    BY <1>1 DEF timeouts_add
  <2>4. TypeOK'
    BY <1>0, <2>1, <2>2, <2>3 DEF TypeOK, LinksOK, walk
  <2>5. CellsAndPrevAgree'
    BY <2>2 DEF Agree, CellsAndPrevAgree, Linked
  <2> QED BY <2>4, <2>5 DEF IInv
<1>2. ASSUME NEW e \in Entry, timeout_unlink(e)
      PROVE  IInv'
  <2>1. Unlinked(e) /\ UNCHANGED walk
    BY <1>2 DEF timeout_unlink
  <2> QED BY <1>0, <2>1, UnlinkedKeeps DEF IInv, TypeOK, walk
<1>3. CASE ReturnEntry
  <2>1. /\ cursor \in Entry /\ Unlinked(cursor)
        /\ cursor' = NULL /\ pc' = "idle" /\ UNCHANGED <<current_index, now, seen>>
    BY <1>0, <1>3 DEF ReturnEntry, TypeOK
  <2> QED BY <1>0, <2>1, UnlinkedKeeps DEF IInv, TypeOK
\* The other steps change no pointer.
<1>4. ASSUME NEW ts \in Time, timeouts_remove(ts)
      PROVE  IInv'
  <2>1. UNCHANGED links
    BY <1>4 DEF timeouts_remove, links
  <2>2. TypeOK'
    BY <1>0, <1>4, TimeAssumption DEF timeouts_remove, TypeOK
  <2> QED BY <1>0, <2>1, <2>2 DEF IInv, CellsAndPrevAgree, Linked, links
<1>5. CASE StartSlot \/ SkipEntry \/ NextSlot \/ ReturnNull \/ UNCHANGED vars
  <2>1. UNCHANGED links
    BY <1>5 DEF StartSlot, SkipEntry, NextSlot, ReturnNull, vars, links
  <2>2. cursor' \in {cursor, cell[HeadOf(current_index)]} \cup
                    {cell[NextOf(f)] : f \in {cursor} \ {NULL}}
    BY <1>5 DEF StartSlot, SkipEntry, NextSlot, ReturnNull, vars
  <2>3. cursor' \in Entry \cup {NULL}
    BY <1>0, <2>2, CellFacts DEF TypeOK
  <2>4. /\ current_index' \in {current_index, current_index + 1}
        /\ pc' \in {pc, "idle", "slot", "list"}
        /\ now' \in {now, None} /\ seen' = seen
    BY <1>5 DEF StartSlot, SkipEntry, NextSlot, ReturnNull, vars
  <2>5. TypeOK'
    BY <1>0, <2>1, <2>3, <2>4 DEF TypeOK, links
  <2> QED BY <1>0, <2>1, <2>5 DEF IInv, CellsAndPrevAgree, Linked, links
<1> QED BY <1>1, <1>2, <1>3, <1>4, <1>5 DEF Next, Search

LEMMA SpecIInv == Spec => []IInv
  BY InitIInv, NextIInv, PTL DEF Spec

\* Every pointer of the ring points to an entry or to nothing, and the
\* cursor of timeouts_remove() is an entry or NULL (event-timeout.c:138-152).
THEOREM LinkTypes == Spec => []TypeOK
<1>1. IInv => TypeOK
  BY DEF IInv
<1> QED BY <1>1, SpecIInv, PTL

\* next and prev agree for any number of entries and slots, in whatever order
\* entries are added, moved, unlinked twice and handed back: timeout_unlink()
\* never writes through a pointer that is not the entry's own
\* (event-timeout.h:39-49, event-timeout.c:104-128).
THEOREM PointersAgree == Spec => []CellsAndPrevAgree
<1>1. IInv => CellsAndPrevAgree
  BY DEF IInv
<1> QED BY <1>1, SpecIInv, PTL

-----------------------------------------------------------------------------
(***************************************************************************)
(* That the search misses no entry of a slot is a fact about following the *)
(* `next' pointers to the end.  Said without following them: a set that    *)
(* contains the first entry of a list, and with every entry the next one,  *)
(* contains all the entries that are linked into the slot.  In this form   *)
(* it is preserved step by step.                                           *)
(***************************************************************************)
Closed(c, R) == \A d \in R : c[NextOf(d)] # NULL => c[NextOf(d)] \in R

\* The entries that are linked into slot s.
OnSlot(p, t, s) == {e \in Entry : p[e] # NULL /\ t[e] % Slots = s}

\* Slot s has its first entry at this cell.
Start(s) == <<"slot", s>>

Reach(c, p, t) ==
  \A s \in 0 .. Slots - 1 : \A R \in SUBSET Entry :
    Closed(c, R) /\ c[Start(s)] \in R \cup {NULL} => OnSlot(p, t, s) \subseteq R

\* A list has entries of its own slot only.
SlotsAgree(p, t) ==
  /\ \A s \in 0 .. Slots - 1, e \in Entry : p[e] = Start(s) => t[e] % Slots = s
  /\ \A d, e \in Entry : p[e] = NextOf(d) => p[d] # NULL /\ t[e] % Slots = t[d] % Slots

\* The parts of a cell's name.
LEMMA StartFacts ==
  /\ \A s \in 0 .. Slots - 1 : Start(s) \in Cell
  /\ \A s \in 0 .. Slots - 1 : \A e \in Entry : Start(s) # NextOf(e)
  /\ \A r, s \in 0 .. Slots - 1 : Start(r) = Start(s) => r = s
  /\ \A ts \in Nat : ts % Slots \in 0 .. Slots - 1 /\ HeadOf(ts) = Start(ts % Slots)
<1>1. \A s \in 0 .. Slots - 1 : Start(s) \in Cell
  BY DEF Start, Cell, Heads
<1>2. \A s \in 0 .. Slots - 1 : \A e \in Entry : Start(s) # NextOf(e)
  BY DEF Start, NextOf
<1>3. \A r, s \in 0 .. Slots - 1 : Start(r) = Start(s) => r = s
  BY DEF Start
<1>4. \A ts \in Nat : ts % Slots \in 0 .. Slots - 1 /\ HeadOf(ts) = Start(ts % Slots)
  BY SlotsAssumption DEF Start, HeadOf
<1> QED BY <1>1, <1>2, <1>3, <1>4

\* What timeout_unlink() does to the cells and prev pointers of a linked entry.
LEMMA UnlinkedValues ==
  ASSUME LinksOK(cell, prev), Agree(cell, prev), NEW e \in Entry, prev[e] # NULL
  PROVE  /\ prev[e] \in Cell /\ cell[prev[e]] = e
         /\ \A x \in Cell : CellsUnlinked(e)[x] =
              IF x = NextOf(e) THEN NULL ELSE IF x = prev[e] THEN cell[NextOf(e)] ELSE cell[x]
         /\ \A f \in Entry : PrevUnlinked(e)[f] =
              IF f = e THEN NULL ELSE IF f = cell[NextOf(e)] THEN prev[e] ELSE prev[f]
<1>1. ~Loose(e)
  BY DEF Loose
<1>2. /\ cell \in [Cell -> Entry \cup {NULL}] /\ prev \in [Entry -> Cell \cup {NULL}]
      /\ NextOf(e) \in Cell /\ NULL \notin Cell
  BY CellFacts, CellAssumption DEF LinksOK
<1>3. prev[e] \in Cell /\ cell[prev[e]] = e
  BY <1>2 DEF Agree
<1>4. CellsUnlinked(e) = [cell EXCEPT ![prev[e]] = cell[NextOf(e)], ![NextOf(e)] = NULL]
  BY <1>1 DEF CellsUnlinked
<1>5. PrevUnlinked(e) = [f \in Entry |-> IF f = e THEN NULL
                                         ELSE IF f = cell[NextOf(e)] THEN prev[e] ELSE prev[f]]
  BY <1>1 DEF PrevUnlinked
<1> QED BY <1>2, <1>3, <1>4, <1>5

\* An entry that has no prev pointer is on no list, and is left alone.
LEMMA LooseValues ==
  ASSUME Agree(cell, prev), NEW e \in Entry, prev[e] = NULL
  PROVE  CellsUnlinked(e) = cell /\ PrevUnlinked(e) = prev
BY DEF Agree, Loose, CellsUnlinked, PrevUnlinked

LEMMA UnlinkLinked ==
  ASSUME LinksOK(cell, prev), Agree(cell, prev), NEW e \in Entry
  PROVE  \A f \in Entry : PrevUnlinked(e)[f] # NULL <=> prev[f] # NULL /\ f # e
<1>1. CASE prev[e] = NULL
  BY <1>1, LooseValues
<1>2. CASE prev[e] # NULL
  <2>1. \A f \in Entry : f = cell[NextOf(e)] => prev[f] # NULL
    BY CellFacts, CellAssumption, NullAssumption DEF Agree
  <2> QED BY <1>2, <2>1, UnlinkedValues
<1> QED BY <1>1, <1>2

\* No entry becomes unreachable when another one is unlinked.
LEMMA UnlinkReach ==
  ASSUME LinksOK(cell, prev), Agree(cell, prev), Reach(cell, prev, timestamp),
         NEW e \in Entry, NEW t, \A f \in Entry : f # e => t[f] = timestamp[f]
  PROVE  Reach(CellsUnlinked(e), PrevUnlinked(e), t)
<1> DEFINE c == CellsUnlinked(e)
           p == PrevUnlinked(e)
           n == NextOf(e)
<1>0. /\ NULL \notin Entry /\ n \in Cell
      /\ \A d \in Entry : NextOf(d) \in Cell /\ (NextOf(d) = n => d = e)
  BY CellFacts, NullAssumption
<1>1. \A f \in Entry : p[f] # NULL <=> prev[f] # NULL /\ f # e
  BY UnlinkLinked
<1>2. SUFFICES ASSUME NEW s \in 0 .. Slots - 1, NEW R \in SUBSET Entry,
                      Closed(c, R), c[Start(s)] \in R \cup {NULL}
               PROVE  OnSlot(p, t, s) \subseteq R
  BY DEF Reach
<1>3. \A f \in OnSlot(p, t, s) : f \in OnSlot(prev, timestamp, s) /\ f # e
  BY <1>1 DEF OnSlot
<1>4. \A Q \in SUBSET Entry :
        Closed(cell, Q) /\ cell[Start(s)] \in Q \cup {NULL} => OnSlot(prev, timestamp, s) \subseteq Q
  BY DEF Reach
<1>5. Start(s) \in Cell /\ Start(s) # n
  BY StartFacts
<1> HIDE DEF c, p, n
<1>6. CASE prev[e] = NULL
  <2>1. c = cell
    BY <1>6, LooseValues DEF c
  <2> QED BY <1>2, <1>3, <1>4, <2>1
<1>7. CASE prev[e] # NULL
  <2>1. /\ prev[e] \in Cell /\ cell[prev[e]] = e
        /\ \A x \in Cell : c[x] = IF x = n THEN NULL
                                  ELSE IF x = prev[e] THEN cell[n] ELSE cell[x]
        /\ \A x \in Cell : cell[x] = e => x = prev[e]
    <3>1. \A x \in Cell : cell[x] = e => x = prev[e]
      BY <1>0 DEF Agree
    <3> QED BY <1>7, <3>1, UnlinkedValues DEF c, n
\* The entry before e, or the head of the list, is followed.
  <2>2. CASE prev[e] = Start(s) \/ \E d \in R : d # e /\ prev[e] = NextOf(d)
    <3> DEFINE Q == R \cup {e}
    <3>1. prev[e] # n
      BY <1>0, <1>5, <2>2
    <3>2. cell[n] \in R \cup {NULL}
      <4>1. c[prev[e]] = cell[n]
        BY <2>1, <3>1
      <4> QED BY <1>2, <2>2, <4>1 DEF Closed
    <3>3. ASSUME NEW d \in Q PROVE cell[NextOf(d)] \in Q \cup {NULL}
      <4>1. CASE d = e
        BY <3>2, <4>1 DEF n
      <4>2. CASE d # e
        <5>1. d \in R /\ NextOf(d) \in Cell /\ NextOf(d) # n
          BY <1>0, <4>2
        <5>2. NextOf(d) = prev[e] => cell[NextOf(d)] = e
          BY <2>1
        <5>3. NextOf(d) # prev[e] => cell[NextOf(d)] = c[NextOf(d)]
          BY <2>1, <5>1
        <5>4. c[NextOf(d)] \in R \cup {NULL}
          BY <1>2, <5>1 DEF Closed
        <5> QED BY <5>2, <5>3, <5>4
      <4> QED BY <4>1, <4>2
    <3>4. cell[Start(s)] \in Q \cup {NULL}
      BY <1>2, <1>5, <2>1
    <3>5. Q \in SUBSET Entry /\ Closed(cell, Q)
      BY <3>3 DEF Closed
    <3>6. OnSlot(prev, timestamp, s) \subseteq Q
      <4> HIDE DEF Q
      <4> QED BY <1>4, <3>4, <3>5
    <3> QED BY <1>3, <3>6
  <2>3. CASE ~(prev[e] = Start(s) \/ \E d \in R : d # e /\ prev[e] = NextOf(d))
    <3> DEFINE Q == R \ {e}
    <3>1. ASSUME NEW d \in Q PROVE cell[NextOf(d)] \in Q \cup {NULL}
      <4>1. d \in R /\ d # e /\ NextOf(d) \in Cell /\ NextOf(d) # n /\ NextOf(d) # prev[e]
        BY <1>0, <2>3
      <4>2. cell[NextOf(d)] = c[NextOf(d)] /\ cell[NextOf(d)] # e
        BY <2>1, <4>1
      <4>3. c[NextOf(d)] \in R \cup {NULL}
        BY <1>2, <4>1 DEF Closed
      <4> QED BY <4>2, <4>3
    <3>2. cell[Start(s)] \in Q \cup {NULL}
      <4>1. cell[Start(s)] = c[Start(s)] /\ cell[Start(s)] # e
        BY <1>5, <2>1, <2>3
      <4> QED BY <1>2, <4>1
    <3>3. Q \in SUBSET Entry /\ Closed(cell, Q)
      BY <3>1 DEF Closed
    <3>4. OnSlot(prev, timestamp, s) \subseteq Q
      <4> HIDE DEF Q
      <4> QED BY <1>4, <3>2, <3>3
    <3> QED BY <1>3, <3>4
  <2> QED BY <2>2, <2>3
<1> QED BY <1>6, <1>7

LEMMA UnlinkSlots ==
  ASSUME LinksOK(cell, prev), Agree(cell, prev), SlotsAgree(prev, timestamp),
         NEW e \in Entry, NEW t, \A f \in Entry : f # e => t[f] = timestamp[f]
  PROVE  SlotsAgree(PrevUnlinked(e), t)
<1> DEFINE p == PrevUnlinked(e)
           n == NextOf(e)
<1>0. NULL \notin Entry /\ NULL \notin Cell /\ n \in Cell /\ \A d \in Entry : NextOf(d) \in Cell
  BY CellFacts, NullAssumption, CellAssumption
<1>1. \A f \in Entry : p[f] # NULL <=> prev[f] # NULL /\ f # e
  BY UnlinkLinked
\* An entry keeps its prev pointer, or takes over that of e, which it followed.
<1>2. ASSUME NEW f \in Entry, p[f] # NULL
      PROVE  /\ f # e /\ t[f] = timestamp[f]
             /\ \/ p[f] = prev[f] /\ p[f] # n
                \/ p[f] = prev[e] /\ prev[f] = n /\ f = cell[n]
  <2>1. CASE prev[e] = NULL
    <3>1. p[f] = prev[f] /\ cell[n] = NULL
      BY <2>1, LooseValues DEF Agree
    <3>2. prev[f] # n
      BY <1>0, <1>2, <3>1 DEF Agree
    <3> QED BY <1>1, <1>2, <3>1, <3>2
  <2>2. CASE prev[e] # NULL
    <3>1. f # e /\ p[f] = IF f = cell[n] THEN prev[e] ELSE prev[f]
      BY <1>1, <1>2, <2>2, UnlinkedValues
    <3>2. f = cell[n] => prev[f] = n
      BY <1>0 DEF Agree
    <3>3. prev[f] = n => f = cell[n]
      BY <1>0 DEF Agree
    <3> QED BY <3>1, <3>2, <3>3
  <2> QED BY <2>1, <2>2
<1> HIDE DEF p, n
<1>3. ASSUME NEW s \in 0 .. Slots - 1, NEW f \in Entry, p[f] = Start(s)
      PROVE  t[f] % Slots = s
  <2>1. p[f] # NULL
    BY <1>0, <1>3, StartFacts
  <2>2. prev[f] = n => timestamp[f] % Slots = timestamp[e] % Slots
    BY DEF SlotsAgree, n
  <2>3. \A g \in Entry : prev[g] = Start(s) => timestamp[g] % Slots = s
    BY DEF SlotsAgree
  <2> QED BY <1>2, <1>3, <2>1, <2>2, <2>3
<1>4. ASSUME NEW d \in Entry, NEW f \in Entry, p[f] = NextOf(d)
      PROVE  p[d] # NULL /\ t[f] % Slots = t[d] % Slots
  <2>1. p[f] # NULL
    BY <1>0, <1>4
  <2>2. \A g \in Entry : prev[g] = NextOf(d) =>
          prev[d] # NULL /\ timestamp[g] % Slots = timestamp[d] % Slots
    BY DEF SlotsAgree
  <2>3. d # e
    <3>1. SUFFICES ASSUME d = e PROVE FALSE
      OBVIOUS
    <3>2. prev[e] = n /\ f = cell[n] /\ f # e
      BY <1>2, <1>4, <2>1, <3>1 DEF n
    <3> QED BY <1>0, <3>2 DEF Agree
  <2>4. t[d] = timestamp[d] /\ t[f] = timestamp[f]
    BY <1>2, <2>1, <2>3
  <2>5. prev[f] = n => timestamp[f] % Slots = timestamp[e] % Slots
    BY DEF SlotsAgree, n
  <2> QED BY <1>1, <1>2, <1>4, <2>1, <2>2, <2>3, <2>4, <2>5
<1> QED BY <1>3, <1>4 DEF SlotsAgree, p

\* What timeouts_add() does to them: e, on no list now, becomes the first of
\* the list at h.
LEMMA AddedValues ==
  ASSUME LinksOK(cell, prev), Agree(cell, prev),
         NEW e \in Entry, NEW ts \in Nat, timeouts_add(e, ts),
         NEW c, c = CellsUnlinked(e), NEW p, p = PrevUnlinked(e), NEW h, h = HeadOf(ts)
  PROVE  /\ LinksOK(c, p) /\ Agree(c, p) /\ p[e] = NULL /\ c[NextOf(e)] = NULL
         /\ h = Start(ts % Slots) /\ ts % Slots \in 0 .. Slots - 1 /\ h # NextOf(e)
         /\ \A x \in Cell : cell'[x] =
              IF x = h THEN e ELSE IF x = NextOf(e) THEN c[h] ELSE c[x]
         /\ \A f \in Entry : prev'[f] =
              IF f = e THEN h ELSE IF f = c[h] THEN NextOf(e) ELSE p[f]
         /\ c[h] \in Entry => p[c[h]] = h
<1>1. LinksOK(c, p) /\ Agree(c, p) /\ p[e] = NULL
  BY UnlinkAgrees
<1>2. /\ NextOf(e) \in Cell /\ h \in Cell /\ h # NextOf(e) /\ NULL \notin Entry
      /\ h = Start(ts % Slots) /\ ts % Slots \in 0 .. Slots - 1
  BY CellFacts, StartFacts, NullAssumption
<1>3. /\ cell' = [c EXCEPT ![NextOf(e)] = c[h], ![h] = e]
      /\ prev' = [f \in Entry |-> IF f = e THEN h
                                  ELSE IF f = c[h] THEN NextOf(e) ELSE p[f]]
  BY DEF timeouts_add
<1>4. c[NextOf(e)] = NULL /\ (c[h] \in Entry => p[c[h]] = h)
  BY <1>1, <1>2 DEF Agree
<1>5. \A x \in Cell : cell'[x] = IF x = h THEN e ELSE IF x = NextOf(e) THEN c[h] ELSE c[x]
  BY <1>1, <1>2, <1>3 DEF LinksOK
<1>6. \A f \in Entry : prev'[f] = IF f = e THEN h ELSE IF f = c[h] THEN NextOf(e) ELSE p[f]
  BY <1>3
<1> QED BY <1>1, <1>2, <1>4, <1>5, <1>6

LEMMA AddLinked ==
  ASSUME LinksOK(cell, prev), Agree(cell, prev),
         NEW e \in Entry, NEW ts \in Nat, timeouts_add(e, ts)
  PROVE  \A f \in Entry : prev'[f] # NULL <=> prev[f] # NULL \/ f = e
<1> DEFINE c == CellsUnlinked(e)
           p == PrevUnlinked(e)
           h == HeadOf(ts)
<1>1. \A f \in Entry : p[f] # NULL <=> prev[f] # NULL /\ f # e
  BY UnlinkLinked
<1>2. h \in Cell /\ NextOf(e) \in Cell /\ NULL \notin Cell
  BY CellFacts, CellAssumption
<1> HIDE DEF c, p, h
<1>3. /\ \A f \in Entry : prev'[f] = IF f = e THEN h ELSE IF f = c[h] THEN NextOf(e) ELSE p[f]
      /\ c[h] \in Entry => p[c[h]] = h
  BY AddedValues DEF c, p, h
<1> QED BY <1>1, <1>2, <1>3

LEMMA AddReach ==
  ASSUME LinksOK(cell, prev), Agree(cell, prev), Reach(cell, prev, timestamp),
         NEW e \in Entry, NEW ts \in Nat, timeouts_add(e, ts),
         timestamp \in [Entry -> Nat]
  PROVE  Reach(cell', prev', timestamp')
<1> DEFINE c == CellsUnlinked(e)
           p == PrevUnlinked(e)
           h == HeadOf(ts)
           n == NextOf(e)
<1>0. \A d \in Entry : NextOf(d) \in Cell /\ (NextOf(d) = n => d = e)
  BY CellFacts
<1>1. Reach(c, p, timestamp)
  BY UnlinkReach
<1>2. \A f \in Entry : timestamp'[f] = IF f = e THEN ts ELSE timestamp[f]
  BY DEF timeouts_add
<1>3. \A f \in Entry : f # e => (prev'[f] # NULL <=> p[f] # NULL)
  BY AddLinked, UnlinkLinked
<1> HIDE DEF c, p, h
<1>4. /\ c[n] = NULL /\ h = Start(ts % Slots) /\ ts % Slots \in 0 .. Slots - 1
      /\ \A x \in Cell : cell'[x] = IF x = h THEN e ELSE IF x = n THEN c[h] ELSE c[x]
  BY AddedValues DEF c, p, h
<1> HIDE DEF n
<1>5. SUFFICES ASSUME NEW s \in 0 .. Slots - 1, NEW R \in SUBSET Entry,
                      Closed(cell', R), cell'[Start(s)] \in R \cup {NULL}
               PROVE  OnSlot(prev', timestamp', s) \subseteq R
  BY DEF Reach
<1>6. Start(s) \in Cell /\ \A d \in Entry : NextOf(d) # h /\ NextOf(d) # Start(s)
  BY <1>4, StartFacts
<1>7. \A f \in OnSlot(prev', timestamp', s) : f # e => f \in OnSlot(p, timestamp, s)
  BY <1>2, <1>3 DEF OnSlot
<1>8. \A f \in OnSlot(prev', timestamp', s) : f = e => ts % Slots = s
  BY <1>2 DEF OnSlot
<1>9. ASSUME NEW d \in R PROVE c[NextOf(d)] \in R \cup {NULL}
  <2>1. CASE d = e
    BY <1>4, <2>1 DEF n
  <2>2. CASE d # e
    <3>1. cell'[NextOf(d)] = c[NextOf(d)]
      BY <1>0, <1>4, <1>6, <2>2
    <3> QED BY <1>5, <3>1 DEF Closed
  <2> QED BY <2>1, <2>2
<1>10. c[Start(s)] \in R \cup {NULL} /\ (ts % Slots = s => e \in R)
  <2>1. CASE ts % Slots = s
    <3>1. e \in R
      <4>1. cell'[Start(s)] = e
        BY <1>4, <1>6, <2>1
      <4> QED BY <1>5, <4>1, NullAssumption
    <3>2. cell'[n] = c[Start(s)]
      BY <1>0, <1>4, <1>6, <2>1 DEF n
    <3>3. cell'[n] \in R \cup {NULL}
      BY <1>5, <3>1 DEF Closed, n
    <3> QED BY <3>1, <3>2, <3>3
  <2>2. CASE ts % Slots # s
    <3>1. Start(s) # h /\ Start(s) # n
      BY <1>4, <1>6, <2>2, StartFacts DEF n
    <3>2. cell'[Start(s)] = c[Start(s)]
      BY <1>4, <1>6, <3>1
    <3> QED BY <1>5, <2>2, <3>2
  <2> QED BY <2>1, <2>2
<1>11. OnSlot(p, timestamp, s) \subseteq R
  BY <1>1, <1>9, <1>10 DEF Reach, Closed
<1> QED BY <1>7, <1>8, <1>10, <1>11

LEMMA AddSlots ==
  ASSUME LinksOK(cell, prev), Agree(cell, prev), SlotsAgree(prev, timestamp),
         NEW e \in Entry, NEW ts \in Nat, timeouts_add(e, ts),
         timestamp \in [Entry -> Nat]
  PROVE  SlotsAgree(prev', timestamp')
<1> DEFINE c == CellsUnlinked(e)
           p == PrevUnlinked(e)
           h == HeadOf(ts)
           n == NextOf(e)
<1>0. /\ \A d \in Entry : NextOf(d) \in Cell /\ (NextOf(d) = n => d = e)
      /\ NULL \notin Cell /\ NULL \notin Entry
  BY CellFacts, CellAssumption, NullAssumption
<1>1. SlotsAgree(p, timestamp)
  BY UnlinkSlots
<1>2. \A f \in Entry : timestamp'[f] = IF f = e THEN ts ELSE timestamp[f]
  BY DEF timeouts_add
<1>3. \A f \in Entry : /\ p[f] # NULL <=> prev[f] # NULL /\ f # e
                       /\ prev'[f] # NULL <=> prev[f] # NULL \/ f = e
  BY AddLinked, UnlinkLinked
<1> HIDE DEF c, p, h
<1>4. /\ h = Start(ts % Slots) /\ ts % Slots \in 0 .. Slots - 1
      /\ \A f \in Entry : prev'[f] = IF f = e THEN h ELSE IF f = c[h] THEN n ELSE p[f]
      /\ c[h] \in Entry => p[c[h]] = h
  BY AddedValues DEF c, p, h
<1>5. \A s \in 0 .. Slots - 1 : \A d \in Entry : Start(s) # NextOf(d)
  BY StartFacts
\* The entry that was the first of the list.
<1>6. \A f \in Entry : f = c[h] => timestamp[f] % Slots = ts % Slots
  BY <1>1, <1>4 DEF SlotsAgree
<1>7. ASSUME NEW s \in 0 .. Slots - 1, NEW f \in Entry, prev'[f] = Start(s)
      PROVE  timestamp'[f] % Slots = s
  <2>1. CASE f = e
    BY <1>2, <1>4, <1>7, <2>1, StartFacts
  <2>2. CASE f # e
    <3>1. p[f] = Start(s)
      BY <1>4, <1>5, <1>7, <2>2
    <3> QED BY <1>1, <1>2, <2>2, <3>1 DEF SlotsAgree
  <2> QED BY <2>1, <2>2
<1>8. ASSUME NEW d \in Entry, NEW f \in Entry, prev'[f] = NextOf(d)
      PROVE  prev'[d] # NULL /\ timestamp'[f] % Slots = timestamp'[d] % Slots
  <2>1. f # e
    BY <1>4, <1>5, <1>8
  <2>2. CASE f = c[h]
    <3>1. d = e
      BY <1>0, <1>4, <1>8, <2>1, <2>2
    <3> QED BY <1>2, <1>3, <1>6, <2>1, <2>2, <3>1
  <2>3. CASE f # c[h]
    <3>1. p[f] = NextOf(d)
      BY <1>4, <1>8, <2>1, <2>3
    <3>2. p[d] # NULL /\ timestamp[f] % Slots = timestamp[d] % Slots
      BY <1>1, <3>1 DEF SlotsAgree
    <3> QED BY <1>2, <1>3, <2>1, <3>2
  <2> QED BY <2>2, <2>3
<1> QED BY <1>7, <1>8 DEF SlotsAgree

-----------------------------------------------------------------------------
(* The search, and the ring whose lists are sets.                          *)

\* The entries of the current slot that have expired.
Expired == {e \in OnSlot(prev, timestamp, current_index % Slots) : timestamp[e] <= now}

(***************************************************************************)
(* While it goes through a list, timeouts_remove() looks at an entry of    *)
(* the current slot, and the expired ones lie all before it: whoever       *)
(* follows the pointers from there finds them.                             *)
(***************************************************************************)
SearchOK ==
  /\ pc # "idle" => now \in Nat
  /\ pc = "list" =>
       /\ current_index <= now
       /\ cursor # NULL => cursor \in OnSlot(prev, timestamp, current_index % Slots)
       /\ \A R \in SUBSET Entry :
            Closed(cell, R) /\ cursor \in R \cup {NULL} => Expired \subseteq R

ListInv ==
  /\ IInv
  /\ Reach(cell, prev, timestamp) /\ SlotsAgree(prev, timestamp)
  /\ SearchOK

LEMMA ListInvFacts ==
  ASSUME ListInv
  PROVE  /\ LinksOK(cell, prev) /\ Agree(cell, prev)
         /\ timestamp \in [Entry -> Nat] /\ current_index \in Nat
         /\ cursor \in Entry \cup {NULL}
         /\ Reach(cell, prev, timestamp) /\ SlotsAgree(prev, timestamp)
BY AgreeDef DEF ListInv, IInv, TypeOK, LinksOK

LEMMA InitListInv == Init => ListInv
<1> SUFFICES ASSUME Init PROVE ListInv
  OBVIOUS
<1>1. \A e \in Entry : prev[e] = NULL
  BY DEF Init, timeouts_create
<1>2. \A s \in 0 .. Slots - 1 : OnSlot(prev, timestamp, s) = {}
  BY <1>1 DEF OnSlot
<1>3. Reach(cell, prev, timestamp)
  BY <1>2 DEF Reach
<1>4. SlotsAgree(prev, timestamp)
  <2>1. \A s \in 0 .. Slots - 1 : Start(s) \in Cell /\ \A e \in Entry : NextOf(e) \in Cell
    BY StartFacts, CellFacts
  <2>2. \A e \in Entry : NextOf(e) \in Cell
    BY CellFacts
  <2> QED BY <1>1, <2>1, <2>2, CellAssumption DEF SlotsAgree
<1>5. SearchOK
  BY DEF Init, timeouts_create, SearchOK
<1> QED BY <1>3, <1>4, <1>5, InitIInv DEF ListInv

LEMMA UnlinkedLists ==
  ASSUME ListInv, NEW e \in Entry, Unlinked(e)
  PROVE  Reach(cell', prev', timestamp') /\ SlotsAgree(prev', timestamp')
<1>1. \A f \in Entry : f # e => timestamp'[f] = timestamp[f]
  BY ListInvFacts DEF Unlinked
<1>2. cell' = CellsUnlinked(e) /\ prev' = PrevUnlinked(e)
  BY DEF Unlinked
<1> QED BY <1>1, <1>2, ListInvFacts, UnlinkReach, UnlinkSlots

\* The first entry of a slot's list is of that slot.
LEMMA StartOnSlot ==
  ASSUME ListInv, NEW s \in 0 .. Slots - 1, cell[Start(s)] # NULL
  PROVE  cell[Start(s)] \in OnSlot(prev, timestamp, s)
<1>1. Start(s) \in Cell /\ cell[Start(s)] \in Entry
  BY StartFacts, ListInvFacts DEF LinksOK
<1>2. prev[cell[Start(s)]] = Start(s)
  BY <1>1, ListInvFacts DEF Agree
<1>3. timestamp[cell[Start(s)]] % Slots = s
  BY <1>1, <1>2, ListInvFacts DEF SlotsAgree
<1> QED BY <1>1, <1>2, <1>3, CellAssumption DEF OnSlot

\* ... and so is the entry after one that is.
LEMMA NextOnSlot ==
  ASSUME ListInv, NEW s \in 0 .. Slots - 1, NEW e \in OnSlot(prev, timestamp, s),
         cell[NextOf(e)] # NULL
  PROVE  cell[NextOf(e)] \in OnSlot(prev, timestamp, s)
<1>1. e \in Entry /\ timestamp[e] % Slots = s
  BY DEF OnSlot
<1>2. NextOf(e) \in Cell /\ cell[NextOf(e)] \in Entry
  BY <1>1, CellFacts, ListInvFacts DEF LinksOK
<1>3. prev[cell[NextOf(e)]] = NextOf(e)
  BY <1>2, ListInvFacts DEF Agree
<1>4. timestamp[cell[NextOf(e)]] % Slots = s
  BY <1>1, <1>2, <1>3, ListInvFacts DEF SlotsAgree
<1> QED BY <1>2, <1>3, <1>4, CellAssumption DEF OnSlot

LEMMA StartSearch == ASSUME ListInv, StartSlot PROVE SearchOK'
<1> DEFINE s == current_index % Slots
<1>1. s \in 0 .. Slots - 1 /\ HeadOf(current_index) = Start(s)
  BY ListInvFacts, StartFacts
<1>2. /\ pc = "slot" /\ current_index <= now /\ cursor' = cell[Start(s)] /\ pc' = "list"
      /\ UNCHANGED <<cell, prev, timestamp, current_index, now>>
  BY <1>1 DEF StartSlot
<1>3. now \in Nat
  BY <1>2 DEF ListInv, SearchOK
<1> HIDE DEF s
<1>4. cursor' # NULL => cursor' \in OnSlot(prev, timestamp, s)
  BY <1>1, <1>2, StartOnSlot
<1>5. \A R \in SUBSET Entry :
        Closed(cell, R) /\ cursor' \in R \cup {NULL} => OnSlot(prev, timestamp, s) \subseteq R
  BY <1>1, <1>2, ListInvFacts DEF Reach
<1>6. \A e \in Expired' : e \in OnSlot(prev, timestamp, s)
  BY <1>2 DEF Expired, s, OnSlot
<1>7. OnSlot(prev, timestamp, s) = OnSlot(prev', timestamp', current_index' % Slots)
  BY <1>2 DEF s
<1> QED BY <1>2, <1>3, <1>4, <1>5, <1>6, <1>7 DEF SearchOK

LEMMA SkipSearch == ASSUME ListInv, SkipEntry PROVE SearchOK'
<1> DEFINE s == current_index % Slots
<1>1. s \in 0 .. Slots - 1
  BY ListInvFacts, StartFacts
<1>2. /\ pc = "list" /\ pc' = "list" /\ cursor # NULL /\ timestamp[cursor] > now
      /\ cursor' = cell[NextOf(cursor)]
      /\ UNCHANGED <<cell, prev, timestamp, current_index, now>>
  BY DEF SkipEntry
<1>3. /\ now \in Nat /\ current_index <= now
      /\ cursor \in OnSlot(prev, timestamp, s) /\ cursor \in Entry
      /\ \A R \in SUBSET Entry :
           Closed(cell, R) /\ cursor \in R \cup {NULL} => Expired \subseteq R
  BY <1>2 DEF ListInv, SearchOK, OnSlot
<1>4. OnSlot(prev, timestamp, s) = OnSlot(prev', timestamp', current_index' % Slots)
  BY <1>2
<1>5. Expired' = Expired
  BY <1>2 DEF Expired
<1> HIDE DEF s
<1>6. cursor' # NULL => cursor' \in OnSlot(prev, timestamp, s)
  BY <1>1, <1>2, <1>3, NextOnSlot
<1>7. cursor \notin Expired
  BY <1>2, <1>3, ListInvFacts DEF Expired
<1>8. ASSUME NEW R \in SUBSET Entry, Closed(cell, R), cursor' \in R \cup {NULL}
      PROVE  Expired \subseteq R
  <2> DEFINE Q == R \cup {cursor}
  <2>1. Q \in SUBSET Entry /\ cursor \in Q
    BY <1>3
  <2>2. Closed(cell, Q)
    BY <1>2, <1>8 DEF Closed
  <2>3. Expired \subseteq Q
    <3> HIDE DEF Q
    <3> QED BY <1>3, <2>1, <2>2
  <2> QED BY <1>7, <2>3
<1> QED BY <1>2, <1>3, <1>4, <1>5, <1>6, <1>8 DEF SearchOK

LEMMA NextListInv == ListInv /\ [Next]_vars => ListInv'
<1> SUFFICES ASSUME ListInv, [Next]_vars PROVE ListInv'
  OBVIOUS
<1>0. IInv'
  BY NextIInv DEF ListInv
<1> DEFINE Lists == Reach(cell, prev, timestamp) /\ SlotsAgree(prev, timestamp) /\ SearchOK
<1>1. SUFFICES Lists'
  BY <1>0 DEF ListInv
<1>2. ASSUME NEW e \in Entry, NEW ts \in Time, timeouts_add(e, ts)
      PROVE  Lists'
  <2>1. ts \in Nat
    BY TimeAssumption
  <2>2. Reach(cell', prev', timestamp') /\ SlotsAgree(prev', timestamp')
    BY <1>2, <2>1, ListInvFacts, AddReach, AddSlots
  <2>3. pc' = "idle"
    BY <1>2 DEF timeouts_add, walk
  <2> QED BY <2>2, <2>3 DEF SearchOK
<1>3. ASSUME NEW e \in Entry, timeout_unlink(e) PROVE Lists'
  <2>1. Unlinked(e) /\ pc' = "idle"
    BY <1>3 DEF timeout_unlink, walk
  <2> QED BY <2>1, UnlinkedLists DEF SearchOK
<1>4. CASE ReturnEntry
  <2>1. cursor \in Entry /\ Unlinked(cursor) /\ pc' = "idle"
    BY <1>4, ListInvFacts DEF ReturnEntry
  <2> QED BY <2>1, UnlinkedLists DEF SearchOK
\* The other steps change no list.
<1>5. ASSUME UNCHANGED links, SearchOK' PROVE Lists'
  BY <1>5, ListInvFacts DEF links, Reach, Closed, OnSlot, SlotsAgree
<1>6. ASSUME NEW ts \in Time, timeouts_remove(ts) PROVE Lists'
  <2>1. UNCHANGED links /\ pc' = "slot" /\ now' \in Nat
    BY <1>6, TimeAssumption DEF timeouts_remove, links
  <2>2. SearchOK'
    BY <2>1 DEF SearchOK
  <2> QED BY <1>5, <2>1, <2>2
<1>7. CASE StartSlot
  <2>1. UNCHANGED links
    BY <1>7 DEF StartSlot, links
  <2> QED BY <1>5, <1>7, <2>1, StartSearch
<1>8. CASE SkipEntry
  <2>1. UNCHANGED links
    BY <1>8 DEF SkipEntry, links
  <2> QED BY <1>5, <1>8, <2>1, SkipSearch
<1>9. CASE NextSlot \/ ReturnNull
  <2>1. /\ UNCHANGED links
        /\ \/ pc' = "idle"
           \/ pc # "idle" /\ pc' = "slot" /\ now' = now
    BY <1>9 DEF NextSlot, ReturnNull, links
  <2>2. pc' # "list" /\ (pc' # "idle" => now' \in Nat)
    BY <2>1 DEF ListInv, SearchOK
  <2>3. SearchOK'
    BY <2>2 DEF SearchOK
  <2> QED BY <1>5, <2>1, <2>3
<1>10. CASE UNCHANGED vars
  <2>1. UNCHANGED links
    BY <1>10 DEF vars, links
  <2>2. Expired' = Expired /\ \A R \in SUBSET Entry : Closed(cell', R) <=> Closed(cell, R)
    BY <1>10 DEF vars, Expired, OnSlot, Closed
  <2>3. OnSlot(prev', timestamp', current_index' % Slots)
          = OnSlot(prev, timestamp, current_index % Slots)
    BY <1>10 DEF vars
  <2>4. UNCHANGED <<current_index, cursor, pc, now>>
    BY <1>10 DEF vars
  <2>5. SearchOK'
    BY <2>2, <2>3, <2>4 DEF ListInv, SearchOK
  <2> QED BY <1>5, <2>1, <2>5
<1> QED BY <1>2, <1>3, <1>4, <1>6, <1>7, <1>8, <1>9, <1>10 DEF Next, Search

LEMMA SpecListInv == Spec => []ListInv
BY InitListInv, NextListInv, PTL DEF Spec

(***************************************************************************)
(* The refinement: every step on the pointers is a step of the ring whose  *)
(* lists are sets, or changes nothing that the ring sees.                  *)
(***************************************************************************)
LEMMA RingInit == Init => Ring!Init
<1> SUFFICES ASSUME Init PROVE Ring!Init
  OBVIOUS
<1>1. Linked = {}
  BY DEF Init, timeouts_create, Linked
<1> QED BY <1>1 DEF Init, timeouts_create, Ring!Init, Ring!timeouts_create

\* timeout_unlink() takes its entry out of the set.
LEMMA UnlinkedRing ==
  ASSUME ListInv, NEW e \in Linked, Unlinked(e)
  PROVE  Ring!Unlinked(e)
<1>1. e \in Entry /\ prev[e] # NULL /\ ~Loose(e)
  BY DEF Linked, Loose
<1>2. \A f \in Entry : prev'[f] # NULL <=> prev[f] # NULL /\ f # e
  BY <1>1, ListInvFacts, UnlinkLinked DEF Unlinked
<1>3. Linked' = Linked \ {e}
  BY <1>2 DEF Linked
<1>4. timestamp' = [timestamp EXCEPT ![e] = 0]
  BY <1>1 DEF Unlinked
<1> QED BY <1>3, <1>4 DEF Ring!Unlinked

LEMMA RingNext == ListInv /\ [Next]_vars => [Ring!Next]_Ring!vars
<1> SUFFICES ASSUME ListInv, [Next]_vars PROVE [Ring!Next]_Ring!vars
  OBVIOUS
<1> DEFINE mapped == IF pc = "idle" THEN "idle" ELSE "search"
\* Steps that the ring does not see.
<1>1. ASSUME UNCHANGED <<links, current_index, now, seen>>, mapped' = mapped
      PROVE  UNCHANGED Ring!vars
  BY <1>1 DEF links, Linked, Ring!vars
<1>2. ASSUME NEW e \in Entry, NEW ts \in Time, timeouts_add(e, ts)
      PROVE  Ring!timeouts_add(e, ts)
  <2>1. ts \in Nat
    BY TimeAssumption
  <2>2. \A f \in Entry : prev'[f] # NULL <=> prev[f] # NULL \/ f = e
    BY <1>2, <2>1, ListInvFacts, AddLinked
  <2>3. Linked' = Linked \cup {e}
    BY <2>2 DEF Linked
  <2>4. pc = "idle" /\ pc' = "idle" /\ UNCHANGED <<current_index, now, seen>>
    BY <1>2 DEF timeouts_add, walk
  <2>5. timestamp' = [timestamp EXCEPT ![e] = ts]
    BY <1>2 DEF timeouts_add
  <2> QED BY <2>3, <2>4, <2>5 DEF Ring!timeouts_add
<1>3. ASSUME NEW e \in Entry, timeout_unlink(e)
      PROVE  Ring!timeout_unlink(e) \/ UNCHANGED Ring!vars
  <2>1. Unlinked(e) /\ pc = "idle" /\ pc' = "idle" /\ UNCHANGED <<current_index, now, seen>>
    BY <1>3 DEF timeout_unlink, walk
  <2>2. CASE e \in Linked
    BY <2>1, <2>2, UnlinkedRing DEF Ring!timeout_unlink
  <2>3. CASE e \notin Linked
    <3>1. Loose(e)
      BY <2>3, ListInvFacts DEF Linked, Agree, Loose
    <3>2. UNCHANGED links
      BY <2>1, <3>1 DEF Unlinked, CellsUnlinked, PrevUnlinked, links
    <3> QED BY <1>1, <2>1, <3>2
  <2> QED BY <2>2, <2>3
<1>4. ASSUME NEW ts \in Time, timeouts_remove(ts) PROVE Ring!timeouts_remove(ts)
  BY <1>4 DEF timeouts_remove, Ring!timeouts_remove, Linked
<1>5. CASE StartSlot \/ SkipEntry
  <2>1. UNCHANGED <<links, current_index, now, seen>> /\ mapped' = mapped
    BY <1>5 DEF StartSlot, SkipEntry, links
  <2> QED BY <1>1, <2>1
<1>6. Ring!SlotList(current_index) = OnSlot(prev, timestamp, current_index % Slots)
  BY DEF Ring!SlotList, Ring!SlotOf, OnSlot, Linked
<1>7. Ring!ExpiredAt(current_index) = Expired
  BY <1>6 DEF Ring!ExpiredAt, Expired
<1>8. CASE NextSlot
  <2>1. pc = "list" /\ cursor = NULL /\ current_index <= now
    BY <1>8 DEF NextSlot, ListInv, SearchOK
  <2>2. Expired = {}
    <3>1. Closed(cell, {}) /\ {} \in SUBSET Entry
      BY DEF Closed
    <3>2. Expired \subseteq {}
      BY <2>1, <3>1 DEF ListInv, SearchOK
    <3> QED BY <3>2
  <2>3. /\ mapped = "search" /\ UNCHANGED <<mapped, Linked, timestamp, now, seen>>
        /\ current_index' = current_index + 1
    BY <1>8, <2>1 DEF NextSlot, Linked
  <2>4. Ring!NextSlot
    BY <1>7, <2>1, <2>2, <2>3 DEF Ring!NextSlot
  <2> QED BY <2>4 DEF Ring!Next, Ring!Search
<1>9. CASE ReturnEntry
  <2>1. /\ pc = "list" /\ pc' = "idle" /\ cursor # NULL /\ timestamp[cursor] <= now
        /\ Unlinked(cursor) /\ UNCHANGED <<current_index, now, seen>>
    BY <1>9 DEF ReturnEntry
  <2>2. current_index <= now /\ cursor \in Expired /\ cursor \in Linked /\ cursor \in Entry
    BY <2>1 DEF ListInv, SearchOK, Expired, OnSlot, Linked
  <2>3. Ring!Unlinked(cursor)
    BY <2>1, <2>2, UnlinkedRing
  <2>4. Ring!ReturnEntry(cursor)
    BY <1>7, <2>1, <2>2, <2>3 DEF Ring!ReturnEntry
  <2> QED BY <2>2, <2>4 DEF Ring!Next, Ring!Search
<1>10. CASE ReturnNull
  <2>1. Ring!ReturnNull
    BY <1>10 DEF ReturnNull, Ring!ReturnNull, Linked
  <2> QED BY <2>1 DEF Ring!Next, Ring!Search
<1>11. CASE UNCHANGED vars
  <2>1. UNCHANGED <<links, current_index, now, seen>> /\ mapped' = mapped
    BY <1>11 DEF vars, links
  <2> QED BY <1>1, <2>1
<1>12. CASE \/ \E e \in Entry, ts \in Time : timeouts_add(e, ts)
            \/ \E e \in Entry : timeout_unlink(e)
            \/ \E ts \in Time : timeouts_remove(ts)
  BY <1>2, <1>3, <1>4, <1>12 DEF Ring!Next
<1> QED BY <1>5, <1>8, <1>9, <1>10, <1>11, <1>12 DEF Next, Search

\* (event-timeout.c:104-165, event-timeout.h:39-49)  The pointers implement the ring of
\* EventTimeout.tla, for any number of entries and slots: what the search returns has expired, and
\* it leaves a slot only when nothing in the slot's list has.
THEOREM PointersImplementRing == Spec => ImplementsRing
<1>1. Spec => []ListInv
  BY SpecListInv
<1>2. Init /\ [][Next]_vars /\ []ListInv => Ring!Init /\ [][Ring!Next]_Ring!vars
  BY RingInit, RingNext, PTL
<1> QED BY <1>1, <1>2, PTL DEF Spec, ImplementsRing, Ring!Spec

(***************************************************************************)
(* Down the two refinements: what EventTimeoutProofs.tla shows of the ring *)
(* holds of the pointers.  RingProofs is Ring with its theorems.           *)
(***************************************************************************)
RingProofs == INSTANCE EventTimeoutProofs WITH
  LateAdds <- TRUE,
  linked   <- Linked,
  pc       <- IF pc = "idle" THEN "idle" ELSE "search"

LEMMA SameRing == Ring!Spec => RingProofs!Spec
<1>1. Ring!Init => RingProofs!Init
  BY DEF Ring!Init, Ring!timeouts_create, RingProofs!Init, RingProofs!timeouts_create
<1>2. ASSUME NEW e, NEW ts
      PROVE  /\ Ring!timeouts_add(e, ts) => RingProofs!timeouts_add(e, ts)
             /\ Ring!timeout_unlink(e) => RingProofs!timeout_unlink(e)
             /\ Ring!timeouts_remove(ts) => RingProofs!timeouts_remove(ts)
  BY DEF Ring!timeouts_add, Ring!timeout_unlink, Ring!timeouts_remove, Ring!Unlinked,
         RingProofs!timeouts_add, RingProofs!timeout_unlink, RingProofs!timeouts_remove,
         RingProofs!Unlinked
<1>3. Ring!Search => RingProofs!Search
  BY DEF Ring!Search, Ring!NextSlot, Ring!ReturnNull, Ring!ReturnEntry, Ring!Unlinked,
         Ring!ExpiredAt, Ring!SlotList, Ring!SlotOf,
         RingProofs!Search, RingProofs!NextSlot, RingProofs!ReturnNull,
         RingProofs!ReturnEntry, RingProofs!Unlinked,
         RingProofs!ExpiredAt, RingProofs!SlotList, RingProofs!SlotOf
<1>4. Ring!Next => RingProofs!Next
  BY <1>2, <1>3 DEF Ring!Next, RingProofs!Next
<1>5. [Ring!Next]_Ring!vars => [RingProofs!Next]_RingProofs!vars
  BY <1>4 DEF Ring!vars, RingProofs!vars
<1> QED BY <1>1, <1>5, PTL DEF Ring!Spec, RingProofs!Spec

\* (event-timeout.h:101-104)  The pointers keep the promise of TimerSet.tla: no list, however it is
\* added to and unlinked from, makes timeouts_remove() hand an entry back early or answer NULL
\* while one is due.
THEOREM PointersKeepPromise == Spec => RingProofs!KeepsPromise
BY PointersImplementRing, SameRing, RingProofs!RingKeepsPromise,
   TimeAssumption, SlotsAssumption, NoneAssumption DEF ImplementsRing

-----------------------------------------------------------------------------
(***************************************************************************)
(* ListsHoldLinked: the lists, followed from their heads.                  *)
(***************************************************************************)

\* Induction over the natural numbers, for a set instead of a formula: the
\* least number outside of the set would have a predecessor in it.
LEMMA SetInduction ==
  ASSUME NEW S, 0 \in S, \A n \in Nat : n \in S => n + 1 \in S
  PROVE  Nat \subseteq S
<1>1. SUFFICES ASSUME Nat \ S # {} PROVE FALSE
  OBVIOUS
<1>2. PICK x \in Nat \ S : \A y \in Nat \ S : ~(<<y, x>> \in OpToRel(<, Nat))
  <2> DEFINE T == Nat \ S
  <2>1. T \subseteq Nat /\ T # {}
    BY <1>1
  <2> HIDE DEF T
  <2>2. \E x \in T : \A y \in T : ~(<<y, x>> \in OpToRel(<, Nat))
    BY <2>1, NatLessThanWellFounded, WFMin
  <2> QED BY <2>2 DEF T
<1>3. \A y \in Nat \ S : ~(y < x)
  BY <1>2 DEF OpToRel
<1>4. x # 0 /\ x - 1 \in Nat /\ x - 1 < x
  OBVIOUS
<1>5. x - 1 \in S
  BY <1>3, <1>4
<1>6. (x - 1) + 1 = x
  OBVIOUS
<1> QED BY <1>4, <1>5, <1>6

LEMMA CountOfEntries == Cardinality(Entry) \in Nat
BY EntryAssumption, FS_CardinalityType

\* What comes after x on a list: nothing after its end.
After(x) == IF x = NULL THEN NULL ELSE cell[NextOf(x)]

\* The recursion that defines Nth has a solution on 0 .. n.
LEMMA NthExists ==
  ASSUME NEW s, NEW n \in Nat
  PROVE  \E f : f = [k \in 0 .. n |-> IF k = 0 THEN cell[Start(s)] ELSE After(f[k - 1])]
<1> DEFINE Solves(f, m) == f = [k \in 0 .. m |-> IF k = 0 THEN cell[Start(s)] ELSE After(f[k - 1])]
           S == {m \in Nat : \E f : Solves(f, m)}
<1>1. 0 \in S
  <2> DEFINE f == [k \in 0 .. 0 |-> cell[Start(s)]]
  <2>1. Solves(f, 0)
    OBVIOUS
  <2> QED BY <2>1
<1>2. ASSUME NEW m \in Nat, m \in S PROVE m + 1 \in S
  <2>1. PICK f : Solves(f, m)
    BY <1>2
  <2> DEFINE g == [k \in 0 .. m + 1 |-> IF k = m + 1 THEN After(f[m]) ELSE f[k]]
  <2>2. \A k \in 0 .. m + 1 : g[k] = IF k = m + 1 THEN After(f[m]) ELSE f[k]
    OBVIOUS
  <2> HIDE DEF g
  <2>3. ASSUME NEW k \in 0 .. m + 1
        PROVE  g[k] = IF k = 0 THEN cell[Start(s)] ELSE After(g[k - 1])
    <3>1. CASE k = 0
      <4>1. k \in 0 .. m /\ k # m + 1
        BY <3>1
      <4> QED BY <2>1, <2>2, <3>1, <4>1
    <3>2. CASE k # 0 /\ k = m + 1
      <4>1. k - 1 = m /\ m \in 0 .. m + 1 /\ m # m + 1
        BY <3>2
      <4> QED BY <2>2, <3>2, <4>1
    <3>3. CASE k # 0 /\ k # m + 1
      <4>1. k \in 0 .. m /\ k - 1 \in 0 .. m + 1 /\ k - 1 # m + 1
        BY <3>3
      <4>2. f[k] = After(f[k - 1])
        BY <2>1, <3>3, <4>1
      <4> QED BY <2>2, <3>3, <4>1, <4>2
    <3> QED BY <3>1, <3>2, <3>3
  <2>4. g = [k \in 0 .. m + 1 |-> g[k]]
    BY DEF g
  <2>5. Solves(g, m + 1)
    BY <2>3, <2>4
  <2> QED BY <2>5
<1>3. Nat \subseteq S
  <2> HIDE DEF S
  <2> QED BY <1>1, <1>2, SetInduction
<1> QED BY <1>3

LEMMA NthDef ==
  ASSUME NEW s
  PROVE  /\ Nth(s)[0] = cell[Start(s)]
         /\ \A k \in 1 .. Cardinality(Entry) : Nth(s)[k] = After(Nth(s)[k - 1])
<1> DEFINE N == Cardinality(Entry)
           f == Nth(s)
<1>1. N \in Nat
  BY CountOfEntries
<1>2. f = CHOOSE g : g = [k \in 0 .. N |-> IF k = 0 THEN cell[Start(s)]
                                           ELSE IF g[k - 1] = NULL THEN NULL
                                           ELSE cell[NextOf(g[k - 1])]]
  BY DEF Nth, Start
<1>3. \E g : g = [k \in 0 .. N |-> IF k = 0 THEN cell[Start(s)]
                                   ELSE IF g[k - 1] = NULL THEN NULL
                                   ELSE cell[NextOf(g[k - 1])]]
  <2> HIDE DEF N
  <2> QED BY <1>1, NthExists DEF After
<1> HIDE DEF f, N
<1>4. f = [k \in 0 .. N |-> IF k = 0 THEN cell[Start(s)]
                            ELSE IF f[k - 1] = NULL THEN NULL
                            ELSE cell[NextOf(f[k - 1])]]
  BY <1>2, <1>3
<1>5. 0 \in 0 .. N /\ \A k \in 1 .. N : k \in 0 .. N /\ k # 0
  BY <1>1
<1>6. f[0] = cell[Start(s)] /\ \A k \in 1 .. N : f[k] = After(f[k - 1])
  BY <1>4, <1>5 DEF After
<1> QED BY <1>6 DEF f, N

\* A list has entries of its slot, and then nothing.
LEMMA NthOnSlot ==
  ASSUME ListInv, NEW s \in 0 .. Slots - 1
  PROVE  \A k \in 0 .. Cardinality(Entry) : Nth(s)[k] \in OnSlot(prev, timestamp, s) \cup {NULL}
<1> DEFINE N == Cardinality(Entry)
           L == Nth(s)
           S == {k \in Nat : k <= N => L[k] \in OnSlot(prev, timestamp, s) \cup {NULL}}
<1>0. N \in Nat /\ L[0] = cell[Start(s)] /\ \A k \in 1 .. N : L[k] = After(L[k - 1])
  BY CountOfEntries, NthDef
<1> HIDE DEF N, L
<1>1. 0 \in S
  BY <1>0, StartOnSlot
<1>2. ASSUME NEW k \in Nat, k \in S PROVE k + 1 \in S
  <2>1. SUFFICES ASSUME k + 1 <= N
                 PROVE  L[k + 1] \in OnSlot(prev, timestamp, s) \cup {NULL}
    OBVIOUS
  <2>2. k + 1 \in 1 .. N /\ (k + 1) - 1 = k
    BY <1>0, <2>1
  <2>3. L[k + 1] = After(L[k])
    BY <1>0, <2>2
  <2>4. L[k] \in OnSlot(prev, timestamp, s) \cup {NULL}
    BY <1>0, <1>2, <2>1
  <2>5. CASE L[k] = NULL
    BY <2>3, <2>5 DEF After
  <2>6. CASE L[k] \in OnSlot(prev, timestamp, s) /\ L[k] # NULL
    <3>1. L[k + 1] = cell[NextOf(L[k])]
      BY <2>3, <2>6 DEF After
    <3> QED BY <2>6, <3>1, NextOnSlot
  <2> QED BY <2>4, <2>5, <2>6
<1>3. Nat \subseteq S
  <2> HIDE DEF S
  <2> QED BY <1>1, <1>2, SetInduction
<1> QED BY <1>0, <1>3 DEF L, N

\* The prev pointer of an entry leads back to the place before it.
LEMMA NthPrev ==
  ASSUME ListInv, NEW s \in 0 .. Slots - 1, NEW k \in 0 .. Cardinality(Entry), Nth(s)[k] # NULL
  PROVE  /\ Nth(s)[k] \in Entry
         /\ k = 0 => prev[Nth(s)[k]] = Start(s)
         /\ k # 0 => /\ Nth(s)[k - 1] \in Entry
                     /\ prev[Nth(s)[k]] = NextOf(Nth(s)[k - 1])
<1> DEFINE N == Cardinality(Entry)
           L == Nth(s)
<1>0. N \in Nat /\ L[0] = cell[Start(s)] /\ \A j \in 1 .. N : L[j] = After(L[j - 1])
  BY CountOfEntries, NthDef
<1>1. \A j \in 0 .. N : L[j] \in Entry \cup {NULL}
  BY NthOnSlot DEF OnSlot
<1>2. \A x \in Cell : cell[x] # NULL => prev[cell[x]] = x
  BY ListInvFacts DEF Agree
<1> HIDE DEF N, L
<1>3. k \in 0 .. N /\ L[k] # NULL
  BY DEF N, L
<1>4. CASE k = 0
  <2>1. Start(s) \in Cell
    BY StartFacts
  <2> QED BY <1>0, <1>1, <1>2, <1>3, <1>4, <2>1 DEF L, N
<1>5. CASE k # 0
  <2>1. k \in 1 .. N /\ k - 1 \in 0 .. N
    BY <1>0, <1>3, <1>5
  <2>2. L[k] = After(L[k - 1])
    BY <1>0, <2>1
  <2>3. L[k - 1] # NULL /\ L[k] = cell[NextOf(L[k - 1])]
    BY <1>3, <2>2 DEF After
  <2>4. L[k - 1] \in Entry /\ NextOf(L[k - 1]) \in Cell
    BY <1>1, <2>1, <2>3, CellFacts
  <2>5. prev[L[k]] = NextOf(L[k - 1])
    BY <1>2, <1>3, <2>3, <2>4
  <2> QED BY <1>1, <1>3, <1>5, <2>4, <2>5 DEF L, N
<1> QED BY <1>4, <1>5

\* No list runs into itself: two places that held the same entry would have
\* held the same entry one place earlier, and so on back to the head.
LEMMA NthDistinct ==
  ASSUME ListInv, NEW s \in 0 .. Slots - 1
  PROVE  \A j, k \in 0 .. Cardinality(Entry) :
           j < k /\ Nth(s)[k] # NULL => Nth(s)[j] # Nth(s)[k]
<1> DEFINE N == Cardinality(Entry)
           L == Nth(s)
           Differs(j) == \A k \in 0 .. N : j < k /\ L[k] # NULL => L[j] # L[k]
           S == {j \in Nat : j <= N => Differs(j)}
<1>0. N \in Nat
  BY CountOfEntries
<1>1. ASSUME NEW k \in 0 .. N, L[k] # NULL
      PROVE  /\ L[k] \in Entry
             /\ k = 0 => prev[L[k]] = Start(s)
             /\ k # 0 => L[k - 1] \in Entry /\ prev[L[k]] = NextOf(L[k - 1])
  BY <1>1, NthPrev
<1>2. /\ NULL \notin Entry
      /\ \A d \in Entry : Start(s) # NextOf(d)
      /\ \A d, e \in Entry : NextOf(d) = NextOf(e) => d = e
  BY StartFacts, CellFacts, NullAssumption
<1> HIDE DEF N, L
<1>3. 0 \in S
  <2>1. ASSUME NEW k \in 0 .. N, 0 < k, L[k] # NULL, L[0] = L[k] PROVE FALSE
    <3>1. 0 \in 0 .. N /\ k # 0
      BY <1>0, <2>1
    <3>2. prev[L[0]] = Start(s)
      BY <1>1, <2>1, <3>1
    <3>3. L[k - 1] \in Entry /\ prev[L[k]] = NextOf(L[k - 1])
      BY <1>1, <2>1, <3>1
    <3> QED BY <1>2, <2>1, <3>2, <3>3
  <2> QED BY <2>1
<1>4. ASSUME NEW j \in Nat, j \in S PROVE j + 1 \in S
  <2>1. SUFFICES ASSUME j + 1 <= N, NEW k \in 0 .. N, j + 1 < k, L[k] # NULL, L[j + 1] = L[k]
                 PROVE  FALSE
    OBVIOUS
  <2>2. /\ j + 1 \in 0 .. N /\ j + 1 # 0 /\ (j + 1) - 1 = j
        /\ k # 0 /\ k - 1 \in 0 .. N /\ j < k - 1 /\ j <= N
    BY <1>0, <2>1
  <2>3. L[j] \in Entry /\ prev[L[j + 1]] = NextOf(L[j])
    BY <1>1, <2>1, <2>2
  <2>4. L[k - 1] \in Entry /\ prev[L[k]] = NextOf(L[k - 1])
    BY <1>1, <2>1, <2>2
  <2>5. L[j] = L[k - 1]
    BY <1>2, <2>1, <2>3, <2>4
  <2> QED BY <1>2, <1>4, <2>2, <2>4, <2>5
<1>5. Nat \subseteq S
  <2> HIDE DEF S
  <2> QED BY <1>3, <1>4, SetInduction
<1>6. ASSUME NEW j \in 0 .. N PROVE Differs(j)
  <2>1. j \in Nat /\ j <= N
    BY <1>0
  <2> QED BY <1>5, <2>1
<1> QED BY <1>6 DEF L, N

\* A list has no gap: what comes before an entry is an entry.
LEMMA NthFilled ==
  ASSUME ListInv, NEW s \in 0 .. Slots - 1,
         NEW n \in 0 .. Cardinality(Entry), Nth(s)[n] # NULL
  PROVE  \A j \in 0 .. n : Nth(s)[j] # NULL
<1> DEFINE N == Cardinality(Entry)
           L == Nth(s)
           S == {k \in Nat : k <= N /\ L[k] # NULL => \A j \in 0 .. k : L[j] # NULL}
<1>0. N \in Nat
  BY CountOfEntries
<1>1. \A k \in 0 .. N : L[k] # NULL => L[k] \in Entry /\ (k # 0 => L[k - 1] \in Entry)
  BY NthPrev
<1>2. n \in 0 .. N /\ L[n] # NULL
  OBVIOUS
<1> HIDE DEF N, L
<1>3. 0 \in S
  OBVIOUS
<1>4. ASSUME NEW k \in Nat, k \in S PROVE k + 1 \in S
  <2>1. SUFFICES ASSUME k + 1 <= N, L[k + 1] # NULL, NEW j \in 0 .. k + 1
                 PROVE  L[j] # NULL
    OBVIOUS
  <2>2. k + 1 \in 0 .. N /\ k + 1 # 0 /\ (k + 1) - 1 = k /\ k <= N
    BY <1>0, <2>1
  <2>3. L[k] # NULL
    BY <1>1, <2>1, <2>2, NullAssumption
  <2>4. j \in 0 .. k \/ j = k + 1
    OBVIOUS
  <2> QED BY <1>4, <2>1, <2>2, <2>3, <2>4
<1>5. Nat \subseteq S
  <2> HIDE DEF S
  <2> QED BY <1>3, <1>4, SetInduction
<1>6. n \in S /\ n <= N
  BY <1>0, <1>2, <1>5
<1> QED BY <1>2, <1>6 DEF L

\* So a list ends: it would have to hold more entries than there are.
LEMMA NthEnds ==
  ASSUME ListInv, NEW s \in 0 .. Slots - 1
  PROVE  Nth(s)[Cardinality(Entry)] = NULL
<1> DEFINE N == Cardinality(Entry)
           L == Nth(s)
<1>0. N \in Nat
  BY CountOfEntries
<1>1. SUFFICES ASSUME L[N] # NULL PROVE FALSE
  OBVIOUS
<1>2. \A j \in 0 .. N : L[j] \in Entry
  <2>1. N \in 0 .. N
    BY <1>0
  <2>2. \A j \in 0 .. N : L[j] # NULL
    BY <1>1, <2>1, NthFilled
  <2> QED BY <2>2, NthPrev
<1>3. \A j, k \in 0 .. N : j < k /\ L[k] # NULL => L[j] # L[k]
  BY NthDistinct
<1> HIDE DEF N, L
<1> DEFINE f == [j \in 0 .. N |-> L[j]]
<1>4. f \in [0 .. N -> Entry]
  BY <1>2
<1>5. IsFiniteSet(0 .. N) /\ Cardinality(0 .. N) = N + 1
  BY <1>0, FS_Interval
<1>6. Cardinality(Entry) < Cardinality(0 .. N)
  BY <1>0, <1>5 DEF N
<1>7. PICK j, k \in 0 .. N : j # k /\ f[j] = f[k]
  <2> HIDE DEF f
  <2> QED BY <1>4, <1>5, <1>6, EntryAssumption, FS_PigeonHole
<1>8. L[j] = L[k] /\ L[j] # NULL /\ L[k] # NULL
  BY <1>2, <1>7, NullAssumption
<1>9. j < k \/ k < j
  BY <1>0, <1>7
<1> QED BY <1>3, <1>8, <1>9

\* The list of a slot has all of its entries, and nothing else.
LEMMA ListIsSlot ==
  ASSUME ListInv, NEW s \in 0 .. Slots - 1
  PROVE  ListOf(s) = OnSlot(prev, timestamp, s)
<1> DEFINE N == Cardinality(Entry)
           L == Nth(s)
<1>0. N \in Nat /\ L[0] = cell[Start(s)] /\ \A k \in 1 .. N : L[k] = After(L[k - 1])
  BY CountOfEntries, NthDef
<1>1. \A k \in 0 .. N : L[k] \in OnSlot(prev, timestamp, s) \cup {NULL}
  BY NthOnSlot
<1>2. L[N] = NULL
  BY NthEnds
<1>3. \A x : x \in ListOf(s) <=> x # NULL /\ \E k \in 0 .. N : x = L[k]
  BY DEF ListOf
<1> HIDE DEF N, L
<1>4. ListOf(s) \subseteq OnSlot(prev, timestamp, s)
  BY <1>1, <1>3
<1>5. ListOf(s) \in SUBSET Entry
  BY <1>4 DEF OnSlot
<1>6. cell[Start(s)] \in ListOf(s) \cup {NULL}
  <2>1. 0 \in 0 .. N
    BY <1>0
  <2> QED BY <1>0, <1>3, <2>1
<1>7. ASSUME NEW d \in ListOf(s), cell[NextOf(d)] # NULL
      PROVE  cell[NextOf(d)] \in ListOf(s)
  <2>1. PICK k \in 0 .. N : d = L[k] /\ d # NULL
    BY <1>3
  <2>2. k # N
    BY <1>2, <2>1
  <2>3. k + 1 \in 1 .. N /\ k + 1 \in 0 .. N /\ (k + 1) - 1 = k
    BY <1>0, <2>2
  <2>4. L[k + 1] = cell[NextOf(d)]
    BY <1>0, <2>1, <2>3 DEF After
  <2> QED BY <1>3, <1>7, <2>3, <2>4
<1>8. OnSlot(prev, timestamp, s) \subseteq ListOf(s)
  BY <1>5, <1>6, <1>7, ListInvFacts DEF Reach, Closed
<1> QED BY <1>4, <1>8

\* (event-timeout.c:20-24, 103-165)  No entry is lost, for any number of entries and slots: in
\* whatever order they are added, moved and unlinked, every list ends, and it holds exactly the
\* entries that are linked for its slot.
THEOREM NoEntryIsLost == Spec => []ListsHoldLinked
<1>1. ListInv => ListsHoldLinked
  <2>1. SUFFICES ASSUME ListInv, NEW s \in 0 .. Slots - 1
                 PROVE  /\ Nth(s)[Cardinality(Entry)] = NULL
                        /\ ListOf(s) = {e \in Linked : timestamp[e] % Slots = s}
    BY DEF ListsHoldLinked
  <2>2. OnSlot(prev, timestamp, s) = {e \in Linked : timestamp[e] % Slots = s}
    BY DEF OnSlot, Linked
  <2> QED BY <2>1, <2>2, NthEnds, ListIsSlot
<1> QED BY <1>1, SpecListInv, PTL

-----------------------------------------------------------------------------
(***************************************************************************)
(* A search comes to its end.                                              *)
(***************************************************************************)

\* To pass an entry of a list is to leave it behind.
LEMMA PassedForGood ==
  ASSUME ListInv, SkipEntry
  PROVE  ToVisit' \subseteq ToVisit /\ ToVisit' # ToVisit
<1> DEFINE s == current_index % Slots
           N == Cardinality(Entry)
           L == Nth(s)
<1>1. /\ pc = "list" /\ cursor # NULL /\ cursor' = cell[NextOf(cursor)]
      /\ cell' = cell /\ current_index' = current_index
  BY DEF SkipEntry
<1>2. s \in 0 .. Slots - 1
  BY ListInvFacts, StartFacts
<1>3. cursor \in ListOf(s)
  <2>1. cursor \in OnSlot(prev, timestamp, s)
    BY <1>1 DEF ListInv, SearchOK
  <2> HIDE DEF s
  <2> QED BY <1>2, <2>1, ListIsSlot
<1>4. ToVisit = {L[n] : n \in {k \in 0 .. N : \E m \in 0 .. k : L[m] = cursor}} \ {NULL}
  BY DEF ToVisit
<1>5. ToVisit' = {L[n] : n \in {k \in 0 .. N : \E m \in 0 .. k : L[m] = cursor'}} \ {NULL}
  BY <1>1 DEF ToVisit, Nth
<1> HIDE DEF s
<1>6. PICK p \in 0 .. N : L[p] = cursor
  BY <1>3 DEF ListOf
<1>7. /\ N \in Nat /\ L[N] = NULL
      /\ \A k \in 1 .. N : L[k] = After(L[k - 1])
  BY <1>2, CountOfEntries, NthDef, NthEnds
<1>8. \A j, k \in 0 .. N : j < k /\ L[k] # NULL => L[j] # L[k]
  BY <1>2, NthDistinct
<1>9. \A n \in 0 .. N : L[n] # NULL => \A j \in 0 .. n : L[j] # NULL
  BY <1>2, NthFilled
<1> HIDE DEF N, L
<1>10. p < N /\ p + 1 \in 1 .. N /\ (p + 1) - 1 = p /\ p + 1 \in 0 .. N
  BY <1>1, <1>6, <1>7
<1>11. L[p + 1] = cursor'
  BY <1>1, <1>6, <1>7, <1>10 DEF After
\* What is to be visited now lies behind place p.
<1>12. ASSUME NEW n \in 0 .. N, NEW m \in 0 .. n, L[m] = cursor', L[n] # NULL
       PROVE  p < n
  <2>1. m \in 0 .. N /\ L[m] # NULL
    BY <1>7, <1>9, <1>12
  <2>2. m = p + 1
    BY <1>7, <1>8, <1>10, <1>11, <1>12, <2>1
  <2> QED BY <1>7, <1>10, <2>2
<1>13. ASSUME NEW x \in ToVisit' PROVE x \in ToVisit /\ x # cursor
  <2>1. PICK n \in 0 .. N : x = L[n] /\ x # NULL /\ \E m \in 0 .. n : L[m] = cursor'
    BY <1>5
  <2>2. p < n
    BY <1>12, <2>1
  <2>3. p \in 0 .. n
    BY <1>6, <1>7, <2>2
  <2>4. L[p] # L[n]
    BY <1>6, <1>8, <2>1, <2>2
  <2> QED BY <1>4, <1>6, <2>1, <2>3, <2>4
<1>14. cursor \in ToVisit
  <2>1. p \in 0 .. p
    BY <1>7, <1>10
  <2> QED BY <1>1, <1>4, <1>6, <2>1
<1> QED BY <1>13, <1>14

\* What SearchComesToEnd says of a step.
Nearer ==
  pc # "idle" /\ pc' # "idle" =>
    \/ pc' = "slot" /\ current_index < current_index' /\ current_index' <= now + 1
    \/ /\ UNCHANGED <<links, current_index, now>>
       /\ pc' = "list"
       /\ pc = "slot" \/ (ToVisit' \subseteq ToVisit /\ ToVisit' # ToVisit)

LEMMA SearchNearer == ListInv /\ Next => Nearer
<1> SUFFICES ASSUME ListInv, Next, pc # "idle", pc' # "idle"
             PROVE  Nearer
  BY DEF Nearer
<1>1. CASE StartSlot
  BY <1>1 DEF StartSlot, Nearer, links
<1>2. CASE SkipEntry
  BY <1>2, PassedForGood DEF SkipEntry, Nearer, links
<1>3. CASE NextSlot
  <2>1. pc = "list" /\ pc' = "slot" /\ current_index' = current_index + 1
    BY <1>3 DEF NextSlot
  <2>2. current_index \in Nat /\ now \in Nat /\ current_index <= now
    BY <2>1, ListInvFacts DEF ListInv, SearchOK
  <2> QED BY <2>1, <2>2 DEF Nearer
<1>4. ASSUME \/ \E e \in Entry, ts \in Time : timeouts_add(e, ts)
             \/ \E e \in Entry : timeout_unlink(e)
             \/ \E ts \in Time : timeouts_remove(ts)
             \/ ReturnEntry \/ ReturnNull
      PROVE  FALSE
  BY <1>4 DEF timeouts_add, timeout_unlink, timeouts_remove, ReturnEntry, ReturnNull
<1> QED BY <1>1, <1>2, <1>3, <1>4 DEF Next, Search

\* (event-timeout.c:135-163)  No search goes round in circles, for any finite number of entries: it
\* passes each slot once, up to the time it was given, and each entry of a list once.
THEOREM SearchTerminates == Spec => SearchComesToEnd
<1>1. ListInv /\ [Next]_vars => [Nearer]_vars
  BY SearchNearer
<1> QED BY <1>1, SpecListInv, PTL DEF Spec, SearchComesToEnd, Nearer
=============================================================================
