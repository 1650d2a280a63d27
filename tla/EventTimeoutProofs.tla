------------------------- MODULE EventTimeoutProofs -------------------------
(***************************************************************************)
(* Theorems about the ring of EventTimeout.tla, for any number of entries, *)
(* any set of timestamps and any size of the ring.                         *)
(***************************************************************************)
EXTENDS EventTimeout, TLAPS

USE TimeAssumption, SlotsAssumption, NoneAssumption, LateAssumption

-----------------------------------------------------------------------------
(***************************************************************************)
(* Arithmetic of slots.                                                    *)
(***************************************************************************)

\* The remainder that % yields lies below the modulus.
LEMMA ModRange ==
  ASSUME NEW a \in Int, NEW n \in Nat \ {0}
  PROVE  a % n \in 0 .. (n - 1)
OBVIOUS

\* A number is its quotient times the modulus plus its remainder.
LEMMA DivMod ==
  ASSUME NEW a \in Int, NEW n \in Nat \ {0}
  PROVE  /\ a \div n \in Int
         /\ a = (a \div n) * n + (a % n)
OBVIOUS

\* Only one remainder below the modulus fits a number.
LEMMA ModUnique ==
  ASSUME NEW n \in Nat \ {0}, NEW a \in Int,
         NEW q \in Int, NEW r \in 0 .. (n - 1), a = q * n + r
  PROVE  a % n = r
<1> DEFINE p == a \div n
           s == a % n
<1>1. p \in Int /\ s \in 0 .. (n - 1) /\ a = p * n + s
  BY DivMod, ModRange
<1>2. (p - q) * n = r - s
  BY <1>1
<1>3. p - q \in Int /\ r - s < n /\ r - s > -n
  BY <1>1
<1>4. CASE p - q >= 1
  <2>1. (p - q) * n >= n
    BY <1>4, <1>1
  <2> QED BY <2>1, <1>2, <1>3
<1>5. CASE p - q <= -1
  <2>1. (p - q) * n <= -n
    BY <1>5, <1>1
  <2> QED BY <2>1, <1>2, <1>3
<1>6. CASE p - q = 0
  BY <1>6, <1>2, <1>1
<1> QED BY <1>3, <1>4, <1>5, <1>6

\* Numbers that differ by a multiple of the modulus have the same remainder.
LEMMA ModShift ==
  ASSUME NEW n \in Nat \ {0}, NEW a \in Int, NEW q \in Int
  PROVE  (a + q * n) % n = a % n
<1> DEFINE p == a \div n
           r == a % n
<1>1. p \in Int /\ r \in 0 .. (n - 1) /\ a = p * n + r
  BY DivMod, ModRange
<1>2. a + q * n = (p + q) * n + r
  BY <1>1
<1>3. a + q * n \in Int /\ p + q \in Int
  BY <1>1
<1> HIDE DEF p, r
<1>4. (a + q * n) % n = r
  BY <1>1, <1>2, <1>3, ModUnique
<1> QED BY <1>4 DEF r

\* Moving on from c by one brings the next number congruent to t, if that is
\* not c itself, one step nearer.
LEMMA ModStep ==
  ASSUME NEW n \in Nat \ {0}, NEW t \in Int, NEW c \in Int,
         (t - c) % n # 0
  PROVE  (c + 1) + ((t - (c + 1)) % n) = c + ((t - c) % n)
<1> DEFINE q == (t - c) \div n
           r == (t - c) % n
<1>0. t - c \in Int
  OBVIOUS
<1>1. q \in Int /\ r \in 0 .. (n - 1) /\ t - c = q * n + r
  BY ONLY <1>0, DivMod, ModRange, n \in Nat \ {0}
<1>2. r - 1 \in 0 .. (n - 1) /\ t - (c + 1) = q * n + (r - 1)
  BY <1>1
<1>3. t - (c + 1) \in Int
  OBVIOUS
<1> HIDE DEF q, r
<1>4. (t - (c + 1)) % n = r - 1
  BY <1>1, <1>2, <1>3, ModUnique
<1>5. (c + 1) + (r - 1) = c + r
  BY <1>1
<1> QED BY <1>4, <1>5 DEF r

\* A number that c differs from by a multiple of the modulus is on c's slot.
LEMMA ModZero ==
  ASSUME NEW n \in Nat \ {0}, NEW t \in Int, NEW c \in Int,
         (t - c) % n = 0
  PROVE  t % n = c % n
<1> DEFINE q == (t - c) \div n
<1>1. q \in Int /\ t - c = q * n + 0
  BY DivMod
<1>2. t = c + q * n
  BY <1>1
<1> HIDE DEF q
<1> QED BY <1>1, <1>2, ModShift

-----------------------------------------------------------------------------
(***************************************************************************)
(* The ring never runs ahead of the times asked about.                     *)
(***************************************************************************)

IInv ==
  /\ TypeOK
  /\ NeverRunsAhead
  /\ now # None => now <= seen

LEMMA InitIInv == Init => IInv
  BY DEF Init, timeouts_create, IInv, TypeOK, NeverRunsAhead

LEMMA NextIInv == IInv /\ [Next]_vars => IInv'
<1> SUFFICES ASSUME IInv, [Next]_vars PROVE IInv'
  OBVIOUS
<1> USE DEF IInv, TypeOK, NeverRunsAhead
<1>1. ASSUME NEW e \in Entry, NEW ts \in Time, timeouts_add(e, ts)
      PROVE  IInv'
  BY <1>1 DEF timeouts_add
<1>2. ASSUME NEW e \in Entry, timeout_unlink(e)
      PROVE  IInv'
  BY <1>2 DEF timeout_unlink, Unlinked
<1>3. ASSUME NEW ts \in Time, timeouts_remove(ts)
      PROVE  IInv'
  BY <1>3 DEF timeouts_remove
<1>4. ASSUME NEW e \in Entry, ReturnEntry(e)
      PROVE  IInv'
  BY <1>4 DEF ReturnEntry, Unlinked
<1>5. CASE NextSlot
  BY <1>5 DEF NextSlot
<1>6. CASE ReturnNull
  BY <1>6 DEF ReturnNull
<1>7. CASE UNCHANGED vars
  BY <1>7 DEF vars
<1> QED BY <1>1, <1>2, <1>3, <1>4, <1>5, <1>6, <1>7 DEF Next, Search

\* The ring's fields stay in their types, and current_index never runs more
\* than one tick ahead of the latest time timeouts_remove() was given.
THEOREM RingTypes == Spec => []TypeOK
<1>1. IInv => TypeOK
  BY DEF IInv
<1> QED BY <1>1, InitIInv, NextIInv, PTL DEF Spec

\* An entry added for a time later than any asked about lies ahead of the
\* walk of timeouts_remove() (event-timeout.c:139-152).
THEOREM WalkStaysBehind == Spec => []NeverRunsAhead
<1>1. IInv => NeverRunsAhead
  BY DEF IInv
<1> QED BY <1>1, InitIInv, NextIInv, PTL DEF Spec

-----------------------------------------------------------------------------
(***************************************************************************)
(* The ring implements the timer set.  The heart of it is that due times   *)
(* do not move: current_index goes past a slot only when nothing there has *)
(* expired, and an entry whose due time is current_index has.              *)
(***************************************************************************)

\* A due time is a time that current_index has not yet passed.
LEMMA DueAhead ==
  ASSUME TypeOK, NEW e \in Entry
  PROVE  /\ DueTime(e) \in Nat
         /\ DueTime(e) >= current_index
         /\ DueTime(e) >= timestamp[e]
         /\ \/ DueTime(e) = timestamp[e]
            \/ timestamp[e] < current_index /\ DueTime(e) < current_index + Slots
<1> USE DEF TypeOK, DueTime
<1>1. timestamp[e] \in Nat /\ current_index \in Nat
  OBVIOUS
<1>2. CASE timestamp[e] >= current_index
  BY <1>1, <1>2
<1>3. CASE timestamp[e] < current_index
  <2>1. timestamp[e] - current_index \in Int
    BY <1>1
  <2>2. (timestamp[e] - current_index) % Slots \in 0 .. (Slots - 1)
    BY <2>1, ModRange
  <2> QED BY <1>1, <1>3, <2>2
<1> QED BY <1>1, <1>2, <1>3

\* Going on to the next slot moves no due time.
LEMMA NextSlotKeepsDue ==
  ASSUME TypeOK, NextSlot, NEW e \in linked
  PROVE  DueTime(e)' = DueTime(e)
<1> USE DEF TypeOK, NextSlot
<1> DEFINE ts == timestamp[e]
           ci == current_index
<1>1. ts \in Nat /\ ci \in Nat /\ current_index' = ci + 1 /\ timestamp'[e] = ts
  OBVIOUS
<1>2. ~(SlotOf(ts) = SlotOf(ci) /\ ts <= now)
  BY DEF ExpiredAt, SlotList
<1>3. now \in Nat /\ ci <= now
  OBVIOUS
<1>4. CASE ts >= ci + 1
  BY <1>1, <1>4 DEF DueTime
<1>5. CASE ts = ci
  BY <1>2, <1>3, <1>5
<1>6. CASE ts < ci
  <2>1. ts - ci \in Int
    BY <1>1
  <2>2. (ts - ci) % Slots # 0
    <3>1. SUFFICES ASSUME (ts - ci) % Slots = 0 PROVE FALSE
      OBVIOUS
    <3>2. ts % Slots = ci % Slots
      BY <1>1, <3>1, ModZero
    <3> QED BY <3>2, <1>1, <1>2, <1>3, <1>6 DEF SlotOf
  <2>3. (ci + 1) + ((ts - (ci + 1)) % Slots) = ci + ((ts - ci) % Slots)
    <3> HIDE DEF ts, ci
    <3>1. ts \in Int /\ ci \in Int
      BY <1>1
    <3> QED BY ONLY <3>1, <2>2, ModStep, SlotsAssumption
  <2>4. ~(ts >= ci + 1) /\ ~(ts >= ci)
    BY <1>1, <1>6
  <2> QED BY <1>1, <2>3, <2>4 DEF DueTime
<1> QED BY <1>1, <1>4, <1>5, <1>6

AbsExpires == [e \in Entry |-> IF e \in linked THEN timestamp[e] ELSE None]

AbsDue == [e \in Entry |-> IF e \in linked THEN DueTime(e) ELSE 0]

\* The variables of the timer set as functions of the ring's.
LEMMA InitRefines == Init => Promise!Init
  BY DEF Init, timeouts_create, Promise!Init, Promise!Create

\* Adding an entry to the ring arms it, and its due time is its timestamp
\* unless that has been asked about before.
LEMMA AddRefines ==
  ASSUME IInv, NEW e \in Entry, NEW ts \in Time, timeouts_add(e, ts)
  PROVE  Promise!Add(e, ts)
<1> USE DEF IInv, TypeOK, NeverRunsAhead, timeouts_add
<1>1. AbsExpires' = [AbsExpires EXCEPT ![e] = ts]
  BY DEF AbsExpires
<1>2. ts \in Nat /\ timestamp'[e] = ts /\ TypeOK'
  OBVIOUS
<1>3. DueTime(e)' \in Nat /\ DueTime(e)' >= ts
  <2>1. /\ DueTime(e)' \in Nat
        /\ DueTime(e)' >= current_index'
        /\ DueTime(e)' >= timestamp'[e]
    BY <1>2, ModRange DEF DueTime
  <2> QED BY <2>1, <1>2
<1>4. DueTime(e)' <= (IF ts > seen THEN ts ELSE seen + Slots)
  <2>1. CASE ts >= current_index
    BY <2>1, <1>2 DEF DueTime
  <2>2. CASE ts < current_index
    <3>1. ts - current_index \in Int
      OBVIOUS
    <3>2. (ts - current_index) % Slots \in 0 .. (Slots - 1)
      BY <3>1, ModRange
    <3>3. DueTime(e)' = current_index + ((ts - current_index) % Slots)
      BY <2>2, <1>2 DEF DueTime
    <3> QED BY <2>2, <3>2, <3>3
  <2> QED BY <2>1, <2>2, <1>2
<1>5. AbsDue' = [AbsDue EXCEPT ![e] = DueTime(e)']
  BY DEF AbsDue, DueTime
<1> DEFINE d == DueTime(e)'
<1>6. d \in ts .. (IF ts > seen THEN ts ELSE seen + Slots)
  BY <1>2, <1>3, <1>4
<1>7. UNCHANGED <<now, seen>>
  OBVIOUS
<1> HIDE DEF d
<1>8. \E x \in ts .. (IF ts > seen THEN ts ELSE seen + Slots) :
        AbsDue' = [AbsDue EXCEPT ![e] = x]
  BY <1>5, <1>6 DEF d
<1> QED BY <1>1, <1>7, <1>8 DEF Promise!Add, AbsExpires, AbsDue

\* Unlinking an entry disarms it and leaves the others as they were.
LEMMA UnlinkedRefines ==
  ASSUME IInv, NEW e \in linked, Unlinked(e), UNCHANGED current_index
  PROVE  Promise!Disarm(e)
  BY DEF IInv, TypeOK, Unlinked, Promise!Disarm, DueTime

\* Every step of the ring is a step of the timer set or changes none of its
\* variables.
LEMMA NextRefines == IInv /\ [Next]_vars => [Promise!Next]_(Promise!vars)
<1> SUFFICES ASSUME IInv, [Next]_vars PROVE [Promise!Next]_(Promise!vars)
  OBVIOUS
<1>0. TypeOK
  BY DEF IInv
<1>1. ASSUME NEW e \in Entry, NEW ts \in Time, timeouts_add(e, ts)
      PROVE  Promise!Next
  BY <1>1, AddRefines DEF Promise!Next
<1>2. ASSUME NEW e \in Entry, timeout_unlink(e)
      PROVE  Promise!Next
  BY <1>2, UnlinkedRefines DEF timeout_unlink, Promise!Next, Promise!Unlink
<1>3. ASSUME NEW ts \in Time, timeouts_remove(ts)
      PROVE  Promise!Next
  <2>1. UNCHANGED <<AbsExpires, AbsDue>>
    BY <1>3 DEF timeouts_remove, AbsExpires, AbsDue, DueTime
  <2>2. Promise!Ask(ts)
    BY <1>3, <2>1 DEF timeouts_remove, Promise!Ask, AbsExpires, AbsDue
  <2> QED BY <2>2 DEF Promise!Next
<1>4. ASSUME NEW e \in Entry, ReturnEntry(e)
      PROVE  Promise!Next
  <2>1. e \in linked /\ timestamp[e] <= now /\ now # None
    BY <1>0, <1>4 DEF ReturnEntry, ExpiredAt, SlotList, TypeOK
  <2>2. Promise!Disarm(e)
    BY <1>4, <2>1, UnlinkedRefines DEF ReturnEntry
  <2>3. timestamp[e] # None
    BY <1>0 DEF TypeOK
  <2>4. Promise!HandBack(e)
    BY <1>4, <2>1, <2>2, <2>3 DEF ReturnEntry, Promise!HandBack, Promise!Expired, Promise!Armed
  <2> QED BY <2>4 DEF Promise!Next
<1>5. CASE NextSlot
  <2>1. AbsExpires' = AbsExpires
    BY <1>5 DEF NextSlot, AbsExpires
  <2>2. AbsDue' = AbsDue
    BY <1>0, <1>5, NextSlotKeepsDue DEF NextSlot, AbsDue
  <2>3. UNCHANGED <<now, seen, pc>>
    BY <1>5 DEF NextSlot
  <2> QED BY <2>1, <2>2, <2>3 DEF Promise!vars, AbsExpires, AbsDue
<1>6. CASE ReturnNull
  <2>1. UNCHANGED <<AbsExpires, AbsDue>>
    BY <1>6 DEF ReturnNull, AbsExpires, AbsDue, DueTime
  <2>2. now \in Nat /\ current_index \in Nat /\ current_index > now
    BY <1>0, <1>6 DEF ReturnNull, TypeOK
  <2>3. \A e \in linked : AbsDue[e] > now
    BY <1>0, <2>2, DueAhead DEF AbsDue, TypeOK
  <2>4. \A e \in Promise!Armed : AbsDue[e] > now
    <3>1. Promise!Armed \subseteq linked
      BY DEF Promise!Armed
    <3> QED BY <2>3, <3>1
  <2>5. now' = None /\ seen' = seen /\ pc = "search" /\ pc' = "idle"
    BY <1>6, <2>2 DEF ReturnNull
  <2>6. Promise!NothingLeft
    BY <2>1, <2>4, <2>5 DEF Promise!NothingLeft, AbsExpires, AbsDue
  <2> QED BY <2>6 DEF Promise!Next
<1>7. CASE UNCHANGED vars
  <2>1. UNCHANGED <<AbsExpires, AbsDue, now, seen, pc>>
    BY <1>7 DEF vars, AbsExpires, AbsDue, DueTime
  <2> QED BY <2>1 DEF Promise!vars, AbsExpires, AbsDue
<1> QED BY <1>1, <1>2, <1>3, <1>4, <1>5, <1>6, <1>7 DEF Next, Search

\* The ring keeps the promise of TimerSet.tla: nothing is handed back early,
\* timeouts_remove() answers NULL only when nothing due is left, and an
\* entry is overlooked only if it was added for a time already asked about,
\* then for no more than one lap (event-timeout.c:103-165).
THEOREM RingKeepsPromise == Spec => KeepsPromise
<1>1. Spec => []IInv
  BY InitIInv, NextIInv, PTL DEF Spec
<1>2. Spec => Promise!Init /\ [][Promise!Next]_(Promise!vars)
  BY <1>1, InitRefines, NextRefines, InitIInv, NextIInv, PTL DEF Spec
<1> QED BY <1>2 DEF KeepsPromise, Promise!Spec

-----------------------------------------------------------------------------
(***************************************************************************)
(* With callers that add entries only for times they have not asked about, *)
(* every entry of the ring lies ahead of the walk.                         *)
(***************************************************************************)

AllAhead == \A e \in linked : timestamp[e] >= current_index

LEMMA NextAllAhead ==
  ASSUME ~LateAdds
  PROVE  IInv /\ AllAhead /\ [Next]_vars => AllAhead'
<1> SUFFICES ASSUME IInv, AllAhead, [Next]_vars PROVE AllAhead'
  OBVIOUS
<1> USE DEF IInv, TypeOK, NeverRunsAhead, AllAhead
<1>1. ASSUME NEW e \in Entry, NEW ts \in Time, timeouts_add(e, ts)
      PROVE  AllAhead'
  BY <1>1 DEF timeouts_add
<1>2. ASSUME NEW e \in Entry, timeout_unlink(e)
      PROVE  AllAhead'
  BY <1>2 DEF timeout_unlink, Unlinked
<1>3. ASSUME NEW ts \in Time, timeouts_remove(ts)
      PROVE  AllAhead'
  BY <1>3 DEF timeouts_remove
<1>4. ASSUME NEW e \in Entry, ReturnEntry(e)
      PROVE  AllAhead'
  BY <1>4 DEF ReturnEntry, Unlinked
<1>5. CASE NextSlot
  BY <1>5 DEF NextSlot, ExpiredAt, SlotList
<1>6. CASE ReturnNull
  BY <1>6 DEF ReturnNull
<1>7. CASE UNCHANGED vars
  BY <1>7 DEF vars
<1> QED BY <1>1, <1>2, <1>3, <1>4, <1>5, <1>6, <1>7 DEF Next, Search

\* For such callers, NULL from timeouts_remove() means that nothing that has
\* expired is left in the ring (event-timeout.h:101-104).
THEOREM OnTimeCallersMissNothing ==
  ASSUME ~LateAdds
  PROVE  Spec => NullMeansNoneOlder
<1>1. Init => AllAhead
  BY DEF Init, timeouts_create, AllAhead
<1>2. IInv /\ AllAhead /\ [Next]_vars =>
        [now # None /\ now' = None => \A e \in linked' : timestamp[e] > now]_vars
  <2> SUFFICES ASSUME IInv, AllAhead, Next, now # None, now' = None,
                      NEW e \in linked'
               PROVE  timestamp[e] > now
    BY DEF vars
  <2>1. ReturnNull
    BY DEF Next, Search, timeouts_add, timeout_unlink, timeouts_remove,
           ReturnEntry, NextSlot
  <2> QED BY <2>1 DEF ReturnNull, AllAhead, IInv, TypeOK
<1> QED
  BY <1>1, <1>2, InitIInv, NextIInv, NextAllAhead, PTL
  DEF Spec, NullMeansNoneOlder
=============================================================================
