------------------------------- MODULE Usleep -------------------------------
(***************************************************************************)
(* pixie_usleep() of util-time.c and pixie-timer.c, in the three forms it  *)
(* is compiled to.  On POSIX systems nanosleep() is called again with what *)
(* is left whenever a signal interrupts it; on old Apple systems it is     *)
(* called once; on Windows a Sleep() of whole milliseconds is followed by  *)
(* a loop that looks at the clock.                                         *)
(*                                                                         *)
(* Time is counted in nanoseconds.  Signals arrive whenever they like, the *)
(* thread may be kept from running at any point, and Sleep() may be off by *)
(* a tick of the system.                                                   *)
(***************************************************************************)
EXTENDS Integers

CONSTANTS
  Kilo,      \* 1000: the nanoseconds of a microsecond, and so on
  Builds,    \* the forms: some of "posix", "mach", "windows"
  SleepTick, \* how much too early Windows' Sleep() may return
  MaxUs,     \* bound: the microseconds asked for
  MaxLate,   \* bound: the time the thread is kept from running
  MaxTime    \* bound: the time a call may take

ASSUME KiloAssumption   == Kilo \in Nat \ {0}
ASSUME BuildsAssumption == Builds \subseteq {"posix", "mach", "windows"}
ASSUME TimesAssumption  == {SleepTick, MaxUs, MaxLate, MaxTime} \subseteq Nat

Million == Kilo * Kilo
Second  == Million * Kilo

VARIABLES
  build,  \* the form that is compiled
  doing,  \* "nothing" (the caller runs), "calling" (about to call nanosleep()),
          \* "asleep" (in nanosleep() or Sleep()) or "spinning"
  us,     \* the parameter microseconds, waitTime on Windows
  ts,     \* what nanosleep() is asked for
  until,  \* when the nanosleep() or Sleep() in progress is over
  clock,  \* the time
  start,  \* when the function was called
  late,   \* history: the time that passed although the thread was to run
  cut     \* history: a signal has ended the sleep

sleep == <<build, doing, us, ts, until, clock, start, late, cut>>

Length(t) == t.sec * Second + t.nsec

pixie_gettime(t) == t \div Kilo

\* The microseconds since the call, on the clock of the program.
Elapsed == pixie_gettime(clock) - pixie_gettime(start)

-----------------------------------------------------------------------------

Call(n) ==
  /\ doing = "nothing"
  /\ us' = n
  /\ clock' \in 0 .. Kilo - 1 /\ start' = clock'
  /\ late' = 0 /\ cut' = FALSE
  /\ UNCHANGED build

Return == doing' = "nothing"

\* Mutant: the seconds are left in tv_nsec.
pixie_usleep_posix_NoModulo(n) ==
  /\ build = "posix" /\ Call(n)
  /\ ts' = [sec |-> n \div Million, nsec |-> n * Kilo]
  /\ doing' = "calling"
  /\ UNCHANGED until

pixie_usleep_posix(n) ==
  /\ build = "posix" /\ Call(n)
  /\ ts' = [sec |-> n \div Million, nsec |-> (n % Million) * Kilo]
  /\ doing' = "calling"
  /\ UNCHANGED until

pixie_usleep_mach(n) ==
  /\ build = "mach" /\ Call(n)
  /\ ts' = [sec |-> IF n > Million THEN n \div Million ELSE 0, nsec |-> n * Kilo]
  /\ doing' = "calling"
  /\ UNCHANGED until

\* nanosleep() takes no more than 999999999 nanoseconds for tv_nsec.
nanosleep ==
  /\ doing = "calling"
  /\ IF ts.nsec < Second
     THEN doing' = "asleep" /\ until' = clock + Length(ts)
     ELSE Return /\ UNCHANGED until
  /\ UNCHANGED <<build, us, ts, clock, start, late, cut>>

Wake ==
  /\ doing = "asleep" /\ build # "windows"
  /\ clock >= until
  /\ Return
  /\ UNCHANGED <<build, us, ts, until, clock, start, late, cut>>

\* Mutant: nanosleep() is called again with what was asked for at first.
Restart_Anew ==
  /\ doing = "asleep" /\ build = "posix" /\ clock < until
  /\ doing' = "calling"
  /\ UNCHANGED <<build, us, ts, until, clock, start, late, cut>>

\* A signal: nanosleep() fails with EINTR and says what remains.
Restart ==
  /\ doing = "asleep" /\ build = "posix" /\ clock < until
  /\ ts' = [sec |-> (until - clock) \div Second, nsec |-> (until - clock) % Second]
  /\ doing' = "calling"
  /\ UNCHANGED <<build, us, until, clock, start, late, cut>>

CutShort ==
  /\ doing = "asleep" /\ build = "mach" /\ clock < until
  /\ cut' = TRUE
  /\ Return
  /\ UNCHANGED <<build, us, ts, until, clock, start, late>>

\* A millisecond is Million nanoseconds.
pixie_usleep_windows(n) ==
  /\ build = "windows" /\ Call(n)
  /\ IF n > Kilo
     THEN doing' = "asleep" /\ until' = clock' + (n \div Kilo) * Million
     ELSE doing' = "spinning" /\ UNCHANGED until
  /\ UNCHANGED ts

SleepReturns ==
  /\ doing = "asleep" /\ build = "windows"
  /\ clock + SleepTick >= until
  /\ doing' = "spinning"
  /\ UNCHANGED <<build, us, ts, until, clock, start, late, cut>>

\* Mutant: Sleep() is taken at its word.
SpinEnds_AtOnce ==
  /\ doing = "spinning"
  /\ Return
  /\ UNCHANGED <<build, us, ts, until, clock, start, late, cut>>

SpinEnds ==
  /\ doing = "spinning" /\ Elapsed >= us
  /\ Return
  /\ UNCHANGED <<build, us, ts, until, clock, start, late, cut>>

-----------------------------------------------------------------------------

\* The thread is where it should be until its time has come.
InTime == IF build = "windows" THEN Elapsed < us
                               ELSE doing = "asleep" /\ clock < until

Passes ==
  /\ doing # "nothing" /\ clock < MaxTime
  /\ InTime \/ late < MaxLate
  /\ clock' = clock + 1
  /\ late' = IF InTime THEN late ELSE late + 1
  /\ UNCHANGED <<build, doing, us, ts, until, start, cut>>

SleepInit ==
  /\ build \in Builds
  /\ doing = "nothing"
  /\ us = 0 /\ ts = [sec |-> 0, nsec |-> 0]
  /\ until = 0 /\ clock = 0 /\ start = 0
  /\ late = 0 /\ cut = FALSE

\* pixie_mssleep() calls pixie_usleep() with a multiple of 1000.
pixie_usleep(n) ==
  pixie_usleep_posix(n) \/ pixie_usleep_mach(n) \/ pixie_usleep_windows(n)

Sleeper == nanosleep \/ Wake \/ SleepReturns \/ SpinEnds

SleepNext ==
  \/ \E n \in 0 .. MaxUs : pixie_usleep(n)
  \/ Sleeper \/ Restart \/ CutShort
  \/ Passes

SleepSpec == SleepInit /\ [][SleepNext]_sleep

\* The thread goes on when it can, and the clock does too, although signals
\* interrupt the sleep as often as they like.
SleepFairness == WF_sleep(Sleeper) /\ SF_sleep(Passes)

-----------------------------------------------------------------------------

SleepTypeOK ==
  /\ build \in Builds
  /\ doing \in {"nothing", "calling", "asleep", "spinning"}
  /\ us \in Nat
  /\ ts \in [sec : Nat, nsec : Nat]
  /\ until \in Nat /\ clock \in Nat /\ start \in Nat /\ late \in Nat
  /\ cut \in BOOLEAN

Returns == doing # "nothing" /\ doing' = "nothing"

(***************************************************************************)
(* "Wait the specified number of microseconds" (util-time.h): no sleep is  *)
(* shorter than what was asked for, however many signals interrupt it and  *)
(* whatever Sleep() does (util-time.c:145-148, 164-174), but for the form  *)
(* for old Apple systems, which is cut short by a signal and does not      *)
(* sleep at all for a second or more (util-time.c:220-228).                *)
(***************************************************************************)
ShortOnlyOnMach ==
  [][Returns /\ Elapsed < us => build = "mach" /\ (cut' \/ us >= Million)]_sleep

(***************************************************************************)
(* ... and none is longer: what a signal interrupts goes on with what is   *)
(* left, so that all that is added is the time the thread was kept from    *)
(* running (util-time.c:168-174).                                          *)
(***************************************************************************)
NoLongerThanAsked == [][Returns => clock - start <= us * Kilo + late]_sleep

(***************************************************************************)
(* Every sleep ends, also under signals that never stop: each restart asks *)
(* for less (util-time.c:168-174).                                         *)
(***************************************************************************)
SleepEnds == (doing # "nothing") ~> (doing = "nothing")
=============================================================================
