------------------------------ MODULE Sessions ------------------------------
(***************************************************************************)
(* What the dispatcher promises a peer and a service, with no sockets, no  *)
(* tables and no timers: a connection waits, is opened once, and is closed *)
(* only because its peer has ended it or because its time is up.  Whatever *)
(* happens to one connection leaves the others as they are.                *)
(***************************************************************************)
EXTENDS Integers

CONSTANTS
  Conn,       \* connections
  Inactivity  \* how long a connection may stay open

VARIABLES
  phase,     \* "none", "waiting" or "open"
  ended,     \* has the peer ended the connection?
  deadline,  \* when the time of an open connection is up
  clock      \* the time

vars == <<phase, ended, deadline, clock>>

Init ==
  /\ phase    = [c \in Conn |-> "none"]
  /\ ended    = [c \in Conn |-> FALSE]
  /\ deadline = [c \in Conn |-> 0]
  /\ clock \in Nat

Arrive(c) ==
  /\ phase[c] = "none"
  /\ phase' = [phase EXCEPT ![c] = "waiting"]
  /\ UNCHANGED <<ended, deadline, clock>>

End(c) ==
  /\ phase[c] # "none"
  /\ ended' = [ended EXCEPT ![c] = TRUE]
  /\ UNCHANGED <<phase, deadline, clock>>

Open(c) ==
  /\ phase[c] = "waiting"
  /\ phase' = [phase EXCEPT ![c] = "open"]
  /\ deadline' = [deadline EXCEPT ![c] = clock + Inactivity]
  /\ UNCHANGED <<ended, clock>>

Closed(c) ==
  /\ phase'    = [phase EXCEPT ![c] = "none"]
  /\ ended'    = [ended EXCEPT ![c] = FALSE]
  /\ deadline' = [deadline EXCEPT ![c] = 0]
  /\ UNCHANGED clock

Refuse(c) == phase[c] = "waiting" /\ Closed(c)

\* The peer has ended the connection.
Close(c) == phase[c] = "open" /\ ended[c] /\ Closed(c)

\* Its time is up.
Expire(c) == phase[c] = "open" /\ deadline[c] <= clock /\ Closed(c)

TimePasses == clock' > clock /\ UNCHANGED <<phase, ended, deadline>>

Next ==
  \/ \E c \in Conn :
       Arrive(c) \/ End(c) \/ Open(c) \/ Refuse(c) \/ Close(c) \/ Expire(c)
  \/ TimePasses

Spec == Init /\ [][Next]_vars
=============================================================================
