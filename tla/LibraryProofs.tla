---------------------------- MODULE LibraryProofs ----------------------------
(***************************************************************************)
(* Theorems about the allocation wrappers of Malloc.tla, for every width   *)
(* of a size_t, the sleep of Usleep.tla, for every number of nanoseconds   *)
(* in a microsecond, every length and every clock, and the loader of       *)
(* LuaStub.tla, for any number of names and functions.                     *)
(***************************************************************************)
EXTENDS Malloc, Usleep, LuaStub, TLAPS

-----------------------------------------------------------------------------
(* The allocation wrappers.                                                *)

\* A product that the test lets pass fits a size_t (util-malloc.c:14-19).
LEMMA PassedFits ==
  ASSUME NEW count \in Size, NEW size \in Size, ~TooLarge(count, size)
  PROVE  count * size \in Size
<1> USE MaxnumAssumption
<1>0. /\ count \in Nat /\ size \in Nat /\ SIZE_MAX \in Nat
      /\ MAXNUM * MAXNUM = SIZE_MAX + 1
  <2>1. MAXNUM * MAXNUM \in Nat \ {0}
    OBVIOUS
  <2> QED BY <2>1 DEF SIZE_MAX, Size
<1>1. CASE size = 0
  BY <1>0, <1>1 DEF Size
<1>2. CASE size # 0 /\ count < MAXNUM /\ size < MAXNUM
  <2>1. count * size <= count * MAXNUM
    BY <1>0, <1>2
  <2>2. (MAXNUM - count) * MAXNUM >= MAXNUM
    BY <1>0, <1>2
  <2>3. count * MAXNUM = MAXNUM * MAXNUM - (MAXNUM - count) * MAXNUM
    BY <1>0
  <2>4. count * size \in Nat /\ count * MAXNUM \in Nat
    BY <1>0
  <2> QED BY <1>0, <2>1, <2>2, <2>3, <2>4 DEF Size
<1>3. CASE size # 0 /\ ~(count < MAXNUM /\ size < MAXNUM)
  <2> DEFINE q == SIZE_MAX \div size
  <2>1. count < q
    BY <1>0, <1>3 DEF TooLarge
  <2>2. q \in Nat /\ q * size <= SIZE_MAX
    BY <1>0, <1>3
  <2>3. count * size <= q * size
    <3> HIDE DEF q
    <3> QED BY ONLY <1>0, <2>1, <2>2
  <2>4. count * size \in Nat
    BY <1>0
  <2> HIDE DEF q
  <2> QED BY <1>0, <2>2, <2>3, <2>4 DEF Size
<1> QED BY <1>0, <1>1, <1>2, <1>3

\* What fits a size_t is not changed by it.
LEMMA WrappedFits ==
  ASSUME NEW b \in Size
  PROVE  Wrapped(b) = b
<1>1. SIZE_MAX + 1 \in Nat \ {0} /\ b \in Nat /\ b < SIZE_MAX + 1
  <2>1. MAXNUM * MAXNUM \in Nat \ {0}
    BY MaxnumAssumption
  <2> QED BY <2>1 DEF SIZE_MAX, Size
<1> DEFINE w == SIZE_MAX + 1
<1>2. b % w = b
  <2> HIDE DEF w
  <2> QED BY <1>1 DEF w
<1> QED BY <1>2 DEF Wrapped

MallocInv == MallocTypeOK /\ BlockIsLargeEnough /\ NullOnlyForNothing

LEMMA SizeRange == SIZE_MAX \in Nat /\ 0 \in Size /\ Size \subseteq Nat
<1>1. MAXNUM * MAXNUM \in Nat \ {0}
  BY MaxnumAssumption
<1> QED BY <1>1 DEF SIZE_MAX, Size

LEMMA MallocNext ==
  ASSUME MallocInv, [Allocate]_allocation
  PROVE  MallocInv'
<1> USE DEF MallocInv, MallocTypeOK, BlockIsLargeEnough, NullOnlyForNothing, Granted, Null, Abort
<1> USE SizeRange
<1>1. ASSUME NEW count \in Size, NEW size \in Size, REALLOCARRAY(count, size)
      PROVE  MallocInv'
  <2>1. count * size \in Nat
    OBVIOUS
  <2>2. ASSUME ~TooLarge(count, size)
        PROVE  count * size \in Size /\ Wrapped(count * size) = count * size
    BY <2>2, PassedFits, WrappedFits
  <2> QED BY <1>1, <2>1, <2>2 DEF REALLOCARRAY
<1>2. ASSUME NEW count \in Size, NEW size \in Size, CALLOC(count, size)
      PROVE  MallocInv'
  <2>1. count * size \in Nat
    OBVIOUS
  <2>2. ASSUME ~TooLarge(count, size)
        PROVE  count * size \in Size /\ Wrapped(count * size) = count * size
    BY <2>2, PassedFits, WrappedFits
  <2> QED BY <1>2, <2>1, <2>2 DEF CALLOC
<1>3. ASSUME NEW size \in Size, MALLOC(size)
      PROVE  MallocInv'
  BY <1>3 DEF MALLOC
<1>4. ASSUME NEW size \in Size, REALLOC(size)
      PROVE  MallocInv'
  BY <1>4 DEF REALLOC
<1>5. ASSUME NEW length \in 0 .. SIZE_MAX - 1, STRDUP(length)
      PROVE  MallocInv'
  <2>1. length + 1 \in Size /\ length + 1 \in Nat
    BY DEF Size
  <2> QED BY <1>5, <2>1 DEF STRDUP
<1>6. ASSUME NEW count \in Size, NEW size \in Size,
             my_REALLOCARRAY(count, size) \/ my_CALLOC(count, size)
      PROVE  MallocInv'
  <2>1. count * size \in Nat
    OBVIOUS
  <2>2. ASSUME ~TooLarge(count, size)
        PROVE  count * size \in Size /\ Wrapped(count * size) = count * size
    BY <2>2, PassedFits, WrappedFits
  <2> QED BY <1>6, <2>1, <2>2 DEF my_REALLOCARRAY, my_CALLOC
<1>7. ASSUME NEW size \in Size, my_MALLOC(size)
      PROVE  MallocInv'
  BY <1>7 DEF my_MALLOC
<1>8. CASE UNCHANGED allocation
  BY <1>8 DEF allocation
<1> QED BY <1>1, <1>2, <1>3, <1>4, <1>5, <1>6, <1>7, <1>8 DEF Allocate

\* Whatever the width of a size_t and whatever is asked for, a wrapper that
\* returns a block returns one that is large enough (util-malloc.c:12-51).
THEOREM BlocksAreLargeEnough == MallocSpec => []BlockIsLargeEnough
<1>1. MallocInit => MallocInv
  BY SizeRange DEF MallocInit, MallocInv, MallocTypeOK, BlockIsLargeEnough, NullOnlyForNothing
<1>2. MallocInv /\ [Allocate]_allocation => MallocInv'
  BY MallocNext
<1>3. MallocInv => BlockIsLargeEnough
  BY DEF MallocInv
<1> QED BY <1>1, <1>2, <1>3, PTL DEF MallocSpec

\* ... and NULL means that nothing was asked for (util-malloc.c:22, 45, 64).
THEOREM NullMeansNothing == MallocSpec => []NullOnlyForNothing
<1>1. MallocInit => MallocInv
  BY SizeRange DEF MallocInit, MallocInv, MallocTypeOK, BlockIsLargeEnough, NullOnlyForNothing
<1>2. MallocInv /\ [Allocate]_allocation => MallocInv'
  BY MallocNext
<1>3. MallocInv => NullOnlyForNothing
  BY DEF MallocInv
<1> QED BY <1>1, <1>2, <1>3, PTL DEF MallocSpec

-----------------------------------------------------------------------------
(* Arithmetic of the units of time.                                        *)

LEMMA DivMod ==
  ASSUME NEW a \in Nat, NEW m \in Nat \ {0}
  PROVE  /\ a \div m \in Nat
         /\ a % m \in 0 .. m - 1
         /\ a = m * (a \div m) + (a % m)
<1>1. a \div m \in Int /\ a % m \in 0 .. m - 1 /\ a = m * (a \div m) + (a % m)
  OBVIOUS
<1>2. ASSUME a \div m < 0 PROVE FALSE
  <2>1. m * (a \div m) <= -m
    BY <1>1, <1>2
  <2> QED BY <1>1, <2>1
<1> QED BY <1>1, <1>2

LEMMA TimesMonotonic ==
  ASSUME NEW m \in Nat, NEW a \in Int, NEW b \in Int, a <= b
  PROVE  m * a <= m * b
<1>1. m * (b - a) >= 0
  OBVIOUS
<1> QED BY <1>1

LEMMA Units == Million \in Nat \ {0} /\ Second \in Nat \ {0} /\ Second = Million * Kilo
<1>1. Million \in Nat /\ Million >= 1
  <2>1. Kilo * Kilo >= Kilo * 1
    BY KiloAssumption, TimesMonotonic
  <2> QED BY <2>1, KiloAssumption DEF Million
<1>2. Second \in Nat /\ Second >= 1
  <2> HIDE DEF Million
  <2>1. Million * Kilo >= Million * 1
    BY <1>1, KiloAssumption, TimesMonotonic
  <2> QED BY <2>1, <1>1, KiloAssumption DEF Second
<1> QED BY <1>1, <1>2 DEF Second

\* The division into seconds and nanoseconds loses nothing.
LEMMA SplitLength ==
  ASSUME NEW u \in Nat
  PROVE  /\ u \div Million \in Nat
         /\ (u % Million) * Kilo \in Nat
         /\ (u % Million) * Kilo < Second
         /\ (u \div Million) * Second + (u % Million) * Kilo = u * Kilo
<1> DEFINE q == u \div Million
           r == u % Million
<1>1. q \in Nat /\ r \in Nat /\ r + 1 <= Million /\ u = Million * q + r
  <2> HIDE DEF q, r
  <2>1. Million \in Nat \ {0}
    BY Units
  <2>2. q \in Nat /\ r \in 0 .. Million - 1 /\ u = Million * q + r
    BY <2>1, DivMod DEF q, r
  <2> QED BY <2>1, <2>2
<1>2. Million \in Nat /\ Second = Million * Kilo /\ Kilo \in Nat /\ Kilo >= 1
  BY Units, KiloAssumption
<1> HIDE DEF q, r
<1>3. Kilo * (r + 1) <= Kilo * Million
  BY <1>1, <1>2, TimesMonotonic
<1>4. r * Kilo \in Nat /\ r * Kilo < Second
  BY <1>1, <1>2, <1>3
<1>5. (Million * q + r) * Kilo = q * (Million * Kilo) + r * Kilo
  BY <1>1, <1>2
<1> QED BY <1>1, <1>2, <1>4, <1>5 DEF q, r

\* What a signal leaves of a sleep is asked for again without loss.
LEMMA SplitRest ==
  ASSUME NEW w \in Nat
  PROVE  /\ w \div Second \in Nat
         /\ w % Second \in Nat
         /\ w % Second < Second
         /\ (w \div Second) * Second + (w % Second) = w
<1> DEFINE q == w \div Second
           r == w % Second
<1> HIDE DEF q, r
<1>1. Second \in Nat \ {0}
  BY Units
<1>2. q \in Nat /\ r \in 0 .. Second - 1 /\ w = Second * q + r
  BY <1>1, DivMod DEF q, r
<1>3. q \in Nat /\ r \in Nat /\ r < Second /\ q * Second + r = w
  BY <1>1, <1>2
<1> QED BY <1>3 DEF q, r

\* Enough time has passed exactly when the clock of the program says so.
LEMMA EnoughTime ==
  ASSUME NEW a \in Nat, NEW b \in Nat, NEW u \in Nat, b + u * Kilo <= a
  PROVE  (a \div Kilo) - (b \div Kilo) >= u
<1> DEFINE p == a \div Kilo
           q == b \div Kilo
<1> HIDE DEF p, q
<1>1. p \in Nat /\ a <= Kilo * p + (Kilo - 1) /\ Kilo \in Nat
  <2>1. p \in Nat /\ a % Kilo \in 0 .. Kilo - 1 /\ a = Kilo * p + (a % Kilo)
    BY DivMod, KiloAssumption DEF p
  <2> QED BY <2>1, KiloAssumption
<1>2. q \in Nat /\ Kilo * q <= b
  <2>1. q \in Nat /\ b % Kilo \in 0 .. Kilo - 1 /\ b = Kilo * q + (b % Kilo)
    BY DivMod, KiloAssumption DEF q
  <2> QED BY <2>1, KiloAssumption
<1>3. ASSUME p + 1 <= q + u PROVE FALSE
  <2>1. Kilo * (p + 1) <= Kilo * (q + u)
    BY <1>1, <1>2, <1>3, TimesMonotonic
  <2>2. Kilo * (p + 1) = Kilo * p + Kilo /\ Kilo * (q + u) = Kilo * q + u * Kilo
    BY <1>1, <1>2
  <2>3. Kilo * p \in Nat /\ Kilo * q \in Nat /\ u * Kilo \in Nat
    BY <1>1, <1>2
  <2> QED BY <2>1, <2>2, <2>3, <1>1, <1>2
<1>4. p - q >= u
  BY <1>1, <1>2, <1>3
<1> QED BY <1>4 DEF p, q

-----------------------------------------------------------------------------
(* The sleep.                                                              *)

\* When the time that was asked for is over.
Wanted == start + us * Kilo

(***************************************************************************)
(* While the function runs, the clock is past the time asked for by no     *)
(* more than the thread was kept from running.  What nanosleep() is asked  *)
(* for, if it takes it at all, ends at that time or later, and no later    *)
(* than that delay.                                                        *)
(***************************************************************************)
OnTime ==
  /\ doing # "nothing" => clock <= Wanted + late
  /\ doing = "calling" =>
       IF ts.nsec < Second
       THEN Wanted <= clock + Length(ts) /\ clock + Length(ts) <= Wanted + late
       ELSE build = "mach" /\ us >= Million
  /\ doing = "asleep" /\ build # "windows" => Wanted <= until /\ until <= Wanted + late
  /\ doing = "calling" => build # "windows"
  /\ doing = "spinning" => build = "windows"

SleepInv == SleepTypeOK /\ OnTime

USE KiloAssumption

LEMMA LengthIsNat ==
  ASSUME NEW t \in [sec : Nat, nsec : Nat]
  PROVE  Length(t) \in Nat
<1>1. t.sec * Second \in Nat
  BY Units
<1> QED BY <1>1 DEF Length

LEMMA WantedIsNat ==
  ASSUME SleepTypeOK
  PROVE  Wanted \in Nat /\ us * Kilo \in Nat /\ Wanted = start + us * Kilo
<1>1. us * Kilo \in Nat
  BY DEF SleepTypeOK
<1> QED BY <1>1 DEF Wanted, SleepTypeOK

LEMMA InitSleep == SleepInit => SleepInv
<1> SUFFICES ASSUME SleepInit PROVE SleepInv
  OBVIOUS
<1>1. SleepTypeOK
  BY DEF SleepInit, SleepTypeOK
<1>2. OnTime
  BY DEF SleepInit, OnTime
<1> QED BY <1>1, <1>2 DEF SleepInv

\* The three forms of the function, when they are called.
LEMMA CallStep ==
  ASSUME SleepInv, NEW u \in 0 .. MaxUs, pixie_usleep(u)
  PROVE  SleepInv'
<1>1. /\ u \in Nat /\ us' = u /\ start' = clock' /\ clock' \in Nat /\ late' = 0
      /\ build' = build /\ cut' = FALSE /\ build \in Builds
  BY TimesAssumption
  DEF pixie_usleep, pixie_usleep_posix, pixie_usleep_mach, pixie_usleep_windows,
      Call, SleepInv, SleepTypeOK
<1>2. PICK c \in Nat, w \in Nat : clock' = c /\ w = u * Kilo /\ Wanted' = c + w
  <2>1. u * Kilo \in Nat /\ Wanted' = clock' + u * Kilo
    BY <1>1 DEF Wanted
  <2> QED BY <1>1, <2>1
<1>3. clock' <= Wanted' + late'
  BY <1>1, <1>2
<1>4. CASE pixie_usleep_posix(u)
  <2>1. ts' \in [sec : Nat, nsec : Nat] /\ ts'.nsec < Second /\ Length(ts') = u * Kilo
    BY <1>1, <1>4, SplitLength DEF pixie_usleep_posix, Length
  <2>2. build = "posix" /\ doing' = "calling" /\ until' = until
    BY <1>4 DEF pixie_usleep_posix
  <2>3. SleepTypeOK'
    BY <1>1, <2>1, <2>2 DEF SleepInv, SleepTypeOK
  <2>4. Length(ts)' = u * Kilo
    BY <2>1 DEF Length
  <2>5. Wanted' <= clock' + Length(ts)' /\ clock' + Length(ts)' <= Wanted' + late'
    BY <1>1, <1>2, <2>4
  <2>6. doing' = "calling" /\ build' = "posix"
    BY <1>1, <2>2
  <2>7. OnTime'
    BY <1>3, <2>1, <2>5, <2>6 DEF OnTime
  <2> QED BY <2>3, <2>7 DEF SleepInv
<1>5. CASE pixie_usleep_mach(u)
  <2>1. u \div Million \in Nat
    BY <1>1, SplitLength
  <2>2. ts' \in [sec : Nat, nsec : Nat] /\ ts'.nsec = u * Kilo
    BY <1>1, <1>2, <1>5, <2>1 DEF pixie_usleep_mach
  <2>3. build = "mach" /\ doing' = "calling" /\ until' = until
    BY <1>5 DEF pixie_usleep_mach
  <2>4. SleepTypeOK'
    BY <1>1, <2>2, <2>3 DEF SleepInv, SleepTypeOK
  <2>5. u * Kilo < Second => u < Million
    <3>1. SUFFICES ASSUME u >= Million PROVE u * Kilo >= Second
      BY <1>1, <1>2, Units
    <3>2. Kilo * Million <= Kilo * u
      BY <1>1, <3>1, Units, TimesMonotonic
    <3> QED BY <3>2, <1>1, Units
  <2>6. u * Kilo >= Second => u >= Million
    <3>1. SUFFICES ASSUME u + 1 <= Million PROVE u * Kilo < Second
      BY <1>1, <1>2, Units
    <3>2. Kilo * (u + 1) <= Kilo * Million
      BY <1>1, <3>1, Units, TimesMonotonic
    <3>3. Kilo * (u + 1) = u * Kilo + Kilo
      BY <1>1
    <3> QED BY <3>2, <3>3, <1>1, <1>2, Units
  <2>7. u < Million => Length(ts') = u * Kilo
    <3>1. SUFFICES ASSUME u < Million PROVE Length(ts') = u * Kilo
      OBVIOUS
    <3>2. ts'.sec = 0
      BY <1>5, <3>1, <1>1, Units DEF pixie_usleep_mach
    <3>3. 0 * Second = 0
      BY Units
    <3> QED BY <2>2, <3>2, <3>3, <1>2 DEF Length
  <2>8. Length(ts)' = Length(ts')
    BY DEF Length
  <2>9. doing' = "calling" /\ build' = "mach"
    BY <1>1, <2>3
  <2>10. ts'.nsec < Second => Wanted' <= clock' + Length(ts)' /\ clock' + Length(ts)' <= Wanted' + late'
    BY <1>1, <1>2, <2>2, <2>5, <2>7, <2>8
  <2>11. ~(ts'.nsec < Second) => us' >= Million
    BY <1>1, <1>2, <2>2, <2>6, Units
  <2>12. OnTime'
    BY <1>3, <2>9, <2>10, <2>11 DEF OnTime
  <2> QED BY <2>4, <2>12 DEF SleepInv
<1>6. CASE pixie_usleep_windows(u)
  <2>1. build = "windows" /\ doing' \in {"asleep", "spinning"} /\ ts' = ts
    BY <1>6 DEF pixie_usleep_windows
  <2>2. until' \in Nat
    <3>1. u \div Kilo \in Nat
      BY <1>1, DivMod
    <3>2. (u \div Kilo) * Million \in Nat
      BY <3>1, Units
    <3> QED BY <1>6, <3>2, <1>1 DEF pixie_usleep_windows, SleepInv, SleepTypeOK
  <2>3. SleepTypeOK'
    BY <1>1, <2>1, <2>2 DEF SleepInv, SleepTypeOK
  <2>4. doing' # "calling" /\ build' = "windows"
    BY <1>1, <2>1
  <2>5. OnTime'
    BY <1>3, <2>4 DEF OnTime
  <2> QED BY <2>3, <2>5 DEF SleepInv
<1> QED BY <1>4, <1>5, <1>6 DEF pixie_usleep

\* nanosleep() and its ends, and the end of the loop on Windows.
LEMMA SleeperStep ==
  ASSUME SleepInv, Sleeper \/ Restart \/ CutShort
  PROVE  SleepInv'
<1> USE DEF SleepInv
<1>1. ts \in [sec : Nat, nsec : Nat] /\ Length(ts) \in Nat /\ until \in Nat /\ clock \in Nat
  BY LengthIsNat DEF SleepTypeOK
<1>2. CASE nanosleep
  <2>1. SleepTypeOK'
    BY <1>1, <1>2 DEF nanosleep, Return, SleepTypeOK
  <2>2. OnTime'
    BY <1>1, <1>2 DEF nanosleep, Return, OnTime, SleepTypeOK, Wanted
  <2> QED BY <2>1, <2>2
<1>3. CASE Wake \/ CutShort \/ SpinEnds
  <2>1. SleepTypeOK' /\ doing' = "nothing"
    BY <1>3 DEF Wake, CutShort, SpinEnds, Return, SleepTypeOK
  <2> QED BY <2>1 DEF OnTime
<1>4. CASE SleepReturns
  <2>1. SleepTypeOK' /\ doing' = "spinning" /\ build' = "windows"
    BY <1>4 DEF SleepReturns, SleepTypeOK
  <2> QED BY <1>4, <2>1 DEF SleepReturns, OnTime, Wanted
<1>5. CASE Restart
  <2>1. until - clock \in Nat /\ build = "posix" /\ doing = "asleep"
    BY <1>1, <1>5 DEF Restart
  <2>2. ts' \in [sec : Nat, nsec : Nat] /\ ts'.nsec < Second /\ Length(ts') = until - clock
    <3> DEFINE w == until - clock
    <3>1. ts' = [sec |-> w \div Second, nsec |-> w % Second] /\ w \in Nat
      BY <1>5, <2>1 DEF Restart
    <3> HIDE DEF w
    <3>2. ts' \in [sec : Nat, nsec : Nat] /\ ts'.nsec < Second /\ Length(ts') = w
      BY <3>1, SplitRest DEF Length
    <3> QED BY <3>2 DEF w
  <2>3. SleepTypeOK' /\ Wanted' = Wanted /\ doing' = "calling" /\ build' = "posix"
    BY <1>5, <2>1, <2>2 DEF Restart, SleepTypeOK, Wanted
  <2>4. Wanted <= until /\ until <= Wanted + late /\ clock <= Wanted + late
    BY <2>1 DEF OnTime
  <2>5. clock' = clock /\ late' = late /\ Length(ts)' = Length(ts')
    BY <1>5 DEF Restart, Length
  <2>6. clock + (until - clock) = until
    BY <1>1
  <2> QED BY <2>2, <2>3, <2>4, <2>5, <2>6 DEF OnTime
<1> QED BY <1>2, <1>3, <1>4, <1>5 DEF Sleeper

\* The clock moves.
LEMMA PassesStep ==
  ASSUME SleepInv, Passes
  PROVE  SleepInv'
<1> USE DEF SleepInv
<1>1. Wanted \in Nat /\ Length(ts) \in Nat /\ until \in Nat /\ clock \in Nat /\ late \in Nat
  BY WantedIsNat, LengthIsNat DEF SleepTypeOK
<1>2. SleepTypeOK' /\ Wanted' = Wanted /\ Length(ts)' = Length(ts) /\ clock' = clock + 1
        /\ doing' = doing /\ build' = build /\ until' = until /\ ts' = ts /\ us' = us
  BY DEF Passes, SleepTypeOK, Wanted, Length
<1>3. CASE InTime
  <2>1. late' = late
    BY <1>3 DEF Passes
  <2>2. doing # "calling"
    BY <1>3 DEF InTime, OnTime
  <2>3. clock + 1 <= Wanted + late
    <3>1. CASE build = "windows"
      <4>1. Elapsed < us /\ us \in Nat /\ start \in Nat
        BY <1>3, <3>1 DEF InTime, SleepTypeOK
      <4>2. clock \div Kilo \in Nat /\ start \div Kilo \in Nat
        BY <1>1, <4>1, DivMod
      <4>3. ~((clock \div Kilo) - (start \div Kilo) >= us)
        BY <4>1, <4>2 DEF Elapsed, pixie_gettime
      <4>4. ~(start + us * Kilo <= clock)
        BY <4>1, <4>3, <1>1, EnoughTime
      <4> QED BY <4>4, <1>1 DEF Wanted
    <3>2. CASE build # "windows"
      <4>1. clock < until /\ until <= Wanted + late
        BY <1>3, <3>2 DEF InTime, OnTime
      <4> QED BY <4>1, <1>1
    <3> QED BY <3>1, <3>2
  <2> QED BY <1>2, <2>1, <2>2, <2>3 DEF OnTime
<1>4. CASE ~InTime
  <2>1. late' = late + 1 /\ doing # "nothing"
    BY <1>4 DEF Passes
  <2> QED BY <1>1, <1>2, <2>1 DEF OnTime
<1> QED BY <1>3, <1>4

LEMMA SleepStep == SleepInv /\ [SleepNext]_sleep => SleepInv'
<1> SUFFICES ASSUME SleepInv, [SleepNext]_sleep PROVE SleepInv'
  OBVIOUS
<1>1. CASE UNCHANGED sleep
  BY <1>1 DEF sleep, SleepInv, SleepTypeOK, OnTime, Wanted, Length
<1> QED BY <1>1, CallStep, SleeperStep, PassesStep DEF SleepNext

LEMMA SleepInvariant == SleepSpec => []SleepInv
BY InitSleep, SleepStep, PTL DEF SleepSpec

\* The steps in which the function returns.
LEMMA ReturnStep ==
  ASSUME SleepInv, [SleepNext]_sleep, Returns
  PROVE  \/ nanosleep /\ ~(ts.nsec < Second)
         \/ Wake \/ CutShort \/ SpinEnds
<1>1. doing # "nothing" /\ doing' = "nothing"
  BY DEF Returns
<1>2. ~UNCHANGED sleep
  BY <1>1 DEF sleep
<1>3. ASSUME NEW u \in 0 .. MaxUs, pixie_usleep(u) PROVE FALSE
  BY <1>1, <1>3 DEF pixie_usleep, pixie_usleep_posix, pixie_usleep_mach, pixie_usleep_windows, Call
<1>4. ~Restart /\ ~Passes /\ ~SleepReturns
  BY <1>1 DEF Restart, Passes, SleepReturns
<1>5. nanosleep => ~(ts.nsec < Second)
  BY <1>1 DEF nanosleep
<1> QED BY <1>2, <1>3, <1>4, <1>5 DEF SleepNext, Sleeper

\* (util-time.c:145-148, 164-174, 220-228)  No sleep is shorter than what was asked for, whatever the
\* length and however many signals interrupt it, but on old Apple systems.
THEOREM NeverShort == SleepSpec => ShortOnlyOnMach
<1>1. ASSUME SleepInv, [SleepNext]_sleep, Returns, Elapsed < us
      PROVE  build = "mach" /\ (cut' \/ us >= Million)
  <2>1. us \in Nat /\ clock \in Nat /\ start \in Nat /\ until \in Nat /\ Wanted \in Nat
          /\ Wanted = start + us * Kilo
    BY <1>1, WantedIsNat DEF SleepInv, SleepTypeOK
  <2>2. clock \div Kilo \in Nat /\ start \div Kilo \in Nat
    BY <2>1, DivMod
  <2>3. ~(Wanted <= clock)
    BY <1>1, <2>1, <2>2, EnoughTime DEF Elapsed, pixie_gettime
  <2>4. CASE nanosleep /\ ~(ts.nsec < Second)
    BY <1>1, <2>4 DEF nanosleep, SleepInv, OnTime
  <2>5. CASE Wake
    <3>1. Wanted <= until /\ until <= clock
      BY <1>1, <2>1, <2>5 DEF Wake, SleepInv, OnTime
    <3> QED BY <3>1, <2>1, <2>3
  <2>6. CASE CutShort
    BY <2>6 DEF CutShort
  <2>7. CASE SpinEnds
    BY <1>1, <2>1, <2>2, <2>7 DEF SpinEnds, Elapsed, pixie_gettime
  <2> QED BY <1>1, <2>4, <2>5, <2>6, <2>7, ReturnStep
<1>2. SleepInv /\ [SleepNext]_sleep
        => [Returns /\ Elapsed < us => build = "mach" /\ (cut' \/ us >= Million)]_sleep
  BY <1>1
<1> QED BY <1>2, SleepInvariant, PTL DEF SleepSpec, ShortOnlyOnMach

\* (util-time.c:168-174)  A sleep takes what was asked for and what the thread was kept from
\* running, and nothing is added by the signals that interrupt it.
THEOREM NeverLonger == SleepSpec => NoLongerThanAsked
<1>1. ASSUME SleepInv, Returns
      PROVE  clock - start <= us * Kilo + late
  <2>1. clock \in Nat /\ start \in Nat /\ late \in Nat /\ us * Kilo \in Nat
          /\ Wanted = start + us * Kilo
    BY <1>1, WantedIsNat DEF SleepInv, SleepTypeOK
  <2>2. clock <= Wanted + late
    BY <1>1 DEF Returns, SleepInv, OnTime
  <2> QED BY <2>1, <2>2
<1>2. SleepInv /\ [SleepNext]_sleep => [Returns => clock - start <= us * Kilo + late]_sleep
  BY <1>1
<1> QED BY <1>2, SleepInvariant, PTL DEF SleepSpec, NoLongerThanAsked

-----------------------------------------------------------------------------
(* The loader.                                                             *)

\* What has been looked for in vain, and where the functions linked so far
\* point to.
Loader ==
  /\ linker = "loading" => n \in 1 .. Names + 1 /\ lib = NoLib
                             /\ \A m \in installed : n <= m
  /\ linker = "linking" => n \in 1 .. Functions + 1
  /\ linker # "loading" => \A f \in 1 .. Functions :
       (linker = "linking" => f < n) =>
         pointer[f] = NoLib \/ pointer[f] = (IF lib = NoLib THEN OwnScope ELSE lib)

StubInv == StubTypeOK /\ FirstLibrary /\ Loader

USE StubAssumption

LEMMA InitStub == StubInit => StubInv
BY DEF StubInit, StubInv, StubTypeOK, FirstLibrary, Loader, NoLib, OwnScope

LEMMA StubStep == StubInv /\ [StubNext]_stub => StubInv'
<1> SUFFICES ASSUME StubInv, [StubNext]_stub PROVE StubInv'
  OBVIOUS
<1> USE DEF StubInv, StubTypeOK, FirstLibrary, Loader, NoLib, OwnScope
<1>1. CASE UNCHANGED stub
  BY <1>1 DEF stub
<1>2. CASE Install
  BY <1>2 DEF Install
<1>3. CASE stublua_init
  BY <1>3 DEF stublua_init
<1>4. CASE Load
  BY <1>4 DEF Load
<1>5. CASE LoadFails
  BY <1>5 DEF LoadFails
<1>6. CASE NoneLoaded
  BY <1>6 DEF NoneLoaded
<1>7. CASE DOLINK
  BY <1>7 DEF DOLINK, Symbols
<1>8. CASE LinkingDone
  BY <1>8 DEF LinkingDone
<1> QED BY <1>1, <1>2, <1>3, <1>4, <1>5, <1>6, <1>7, <1>8 DEF StubNext

LEMMA StubInvariant == StubSpec => []StubInv
BY InitStub, StubStep, PTL DEF StubSpec

\* (stub-lua.c:47-58)  The first library that can be loaded is taken, for any number of names.
THEOREM FirstIsTaken == StubSpec => []FirstLibrary
BY StubInvariant, PTL DEF StubInv

\* (stub-lua.c:66-126)  The functions never come from two libraries, however often the caller
\* initialises and whatever is installed in between.
THEOREM NoTwoLibraries == StubSpec => []NeverMixed
<1>1. StubInv => NeverMixed
  BY DEF StubInv, Loader, NeverMixed
<1> QED BY <1>1, StubInvariant, PTL
=============================================================================
