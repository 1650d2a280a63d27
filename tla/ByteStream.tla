----------------------------- MODULE ByteStream -----------------------------
(***************************************************************************)
(* What the echo service promises one peer, with no events, no calls that  *)
(* stop half-way and no positions in a buffer: the peer's bytes are taken  *)
(* in the order it sends them, kept in a queue, and given back from its    *)
(* front.  The connection is closed only when the peer has ended it or     *)
(* while something is owed to the peer.                                    *)
(***************************************************************************)
EXTENDS Naturals, Sequences

CONSTANT Capacity  \* the most bytes the service keeps

VARIABLES
  line,   \* what the peer has done: "open", "finished" or "reset"
  sent,   \* the number of the last byte the peer has sent
  taken,  \* the number of the last byte the service has taken
  kept,   \* the bytes it owes
  back,   \* the last byte it has given back
  state   \* "open", "closed", or "killed" along with the program

vars == <<line, sent, taken, kept, back, state>>

Init ==
  /\ line = "open" /\ sent = 0
  /\ taken = 0 /\ kept = <<>> /\ back = 0
  /\ state = "open"

Send ==
  /\ line = "open"
  /\ sent' = sent + 1
  /\ UNCHANGED <<line, taken, kept, back, state>>

End ==
  /\ \/ line = "open" /\ line' \in {"finished", "reset"}
     \/ line = "finished" /\ line' = "reset"
  /\ UNCHANGED <<sent, taken, kept, back, state>>

Take ==
  /\ state = "open"
  /\ \E n \in 1 .. sent - taken :
       /\ Len(kept) + n <= Capacity
       /\ kept' = kept \o [k \in 1 .. n |-> taken + k]
       /\ taken' = taken + n
  /\ UNCHANGED <<line, sent, back, state>>

GiveBack ==
  /\ state = "open" /\ line # "reset"
  /\ kept # <<>>
  /\ back' = Head(kept) /\ kept' = Tail(kept)
  /\ UNCHANGED <<line, sent, taken, state>>

\* A peer that keeps its side open and is owed nothing is not cut off.
Close ==
  /\ state = "open"
  /\ line # "open" \/ kept # <<>>
  /\ state' = "closed"
  /\ UNCHANGED <<line, sent, taken, kept, back>>

\* Writing to a peer that has reset the connection ends the program.
Kill ==
  /\ state = "open"
  /\ line = "reset" /\ kept # <<>>
  /\ state' = "killed"
  /\ UNCHANGED <<line, sent, taken, kept, back>>

Next == Send \/ End \/ Take \/ GiveBack \/ Close \/ Kill

Spec == Init /\ [][Next]_vars
=============================================================================
