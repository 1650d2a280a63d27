-------------------------------- MODULE Echo --------------------------------
(***************************************************************************)
(* One connection of the echo service (builtin-echo.c) and the loop of the *)
(* poll() dispatcher (dispatcher.c) that calls its handler.  The socket is *)
(* a blocking one: send() waits for room and returns early only because of *)
(* a signal or the end of the connection.                                  *)
(*                                                                         *)
(* The peer's bytes are numbered from 1 in the order it sends them, so a   *)
(* stream that is in order is described by how far it has come.  A byte    *)
(* of the buffer holds the number of the byte that was stored there.       *)
(*                                                                         *)
(* The handler is called the way dispatcher.h says, DISPATCH_CREATED       *)
(* first; dispatcher.c as it stands never calls it at all (see README.md). *)
(***************************************************************************)
EXTENDS Integers

CONSTANTS
  Size,     \* sizeof(data->buf), 2048 in the code
  MaxRoom,  \* bound: the bytes the kernel buffers for a peer that reads late
  MaxBytes  \* bound: the bytes the peer sends

ASSUME SizeAssumption  == Size \in Nat \ {0}
ASSUME BoundAssumption == MaxRoom \in Nat \ {0} /\ MaxBytes \in Nat

VARIABLES
  \* the connection, as the peer and the kernel see it
  line,    \* what the peer has done: "open", "finished" or "reset"
  sent,    \* the bytes it has sent
  room,    \* the bytes that send() can hand over without waiting
  \* the entry of the dispatcher's lists
  events,  \* what poll() waits for: "in" or "out"
  revents, \* what poll() has reported: a subset of "hup", "err", "in", "out"
  \* the handler and its struct echo_data
  data,    \* the memory: "none", "live" or "freed"
  buf, len,
  doing,   \* "new", "poll", "loop" (revents is acted on), "send" (inside
           \* send()), "gone" (removed) or "killed" (the program, by SIGPIPE)
  passed,  \* the bytes that the send() in progress has handed over
  taken,   \* history: the bytes that recv() has returned
  echoed   \* history: the bytes that send() has handed over

peer   == <<line, sent>>
entry  == <<events, revents>>
memory == <<data, buf, len>>
vars   == <<peer, room, entry, memory, doing, passed, taken, echoed>>

Unread == sent - taken
Unsent == IF len > 0 THEN len - passed ELSE 0

Lesser(m, n) == IF m < n THEN m ELSE n

-----------------------------------------------------------------------------
(* The peer and the kernel.                                                *)

PeerSends ==
  /\ line = "open" /\ sent < MaxBytes
  /\ sent' = sent + 1
  /\ UNCHANGED <<line, room, entry, memory, doing, passed, taken, echoed>>

PeerReads ==
  /\ line # "reset" /\ room < MaxRoom
  /\ room' = room + 1
  /\ UNCHANGED <<peer, entry, memory, doing, passed, taken, echoed>>

PeerEnds ==
  /\ \/ line = "open" /\ line' \in {"finished", "reset"}
     \/ line = "finished" /\ line' = "reset"
  /\ UNCHANGED <<sent, room, entry, memory, doing, passed, taken, echoed>>

\* What poll() is certain to report.
Ready ==
  (IF events = "in" /\ (Unread > 0 \/ line # "open") THEN {"in"} ELSE {})
    \cup (IF events = "out" /\ room > 0 /\ line # "reset" THEN {"out"} ELSE {})

\* What it may report besides: systems differ in when a connection counts as
\* hung up, and an event of the socket may be reported along with the error.
Hints ==
  IF line = "open" THEN {} ELSE
  IF line = "finished" THEN {"hup"} ELSE {"hup", "err", events}

-----------------------------------------------------------------------------
(* The loop of dispatcher_dispatch(), for this connection.                 *)

\* dispatcher_set_event().
WaitFor(state) == events' = state /\ revents' = {}

\* dispatcher_remove_at().
Remove == doing' = "gone" /\ UNCHANGED entry

\* The handler frees its data on DISPATCH_CLOSED.
Closed == data' = "freed" /\ UNCHANGED <<buf, len>>

\* DISPATCH_CREATED.
Created ==
  /\ doing = "new"
  /\ data' = "live" /\ len' = 0
  /\ doing' = "poll"
  /\ UNCHANGED <<peer, room, entry, buf, passed, taken, echoed>>

\* sockets_poll().
PollEntry ==
  /\ doing = "poll"
  /\ \E more \in SUBSET Hints : revents' = Ready \cup more
  /\ revents' # {}
  /\ doing' = "loop"
  /\ UNCHANGED <<peer, room, events, memory, passed, taken, echoed>>

\* POLLHUP, and POLLERR, where DISPATCH_ERRORED only asks for the error.
HungUp ==
  /\ doing = "loop" /\ revents \cap {"hup", "err"} # {}
  /\ Closed
  /\ Remove
  /\ UNCHANGED <<peer, room, passed, taken, echoed>>

\* POLLIN and POLLOUT are looked at after them, in this order.
Handles(event) ==
  /\ doing = "loop" /\ revents \cap {"hup", "err"} = {}
  /\ event \in revents /\ (event = "out" => "in" \notin revents)

\* Mutant: recv() is not told how large the buffer is.
RecvData_AnyLength ==
  /\ Handles("in")
  /\ \E n \in 1 .. Unread :
       /\ buf' = [k \in 1 .. Size |-> IF k <= n THEN taken + k ELSE buf[k]]
       /\ len' = n
       /\ taken' = taken + n
  /\ passed' = 0
  /\ doing' = "send"
  /\ UNCHANGED <<peer, room, entry, data, echoed>>

\* DISPATCH_READABLE: the handler goes on to DISPATCH_WRITEABLE by itself.
RecvData ==
  /\ Handles("in")
  /\ \E n \in 1 .. Lesser(Unread, Size) :
       /\ buf' = [k \in 1 .. Size |-> IF k <= n THEN taken + k ELSE buf[k]]
       /\ len' = n
       /\ taken' = taken + n
  /\ passed' = 0
  /\ doing' = "send"
  /\ UNCHANGED <<peer, room, entry, data, echoed>>

\* Mutant: the end of the stream is not acted on.
RecvEnd_Stays ==
  /\ Handles("in") /\ line = "finished" /\ Unread = 0
  /\ len' = 0
  /\ doing' = "poll"
  /\ UNCHANGED <<peer, room, entry, data, buf, passed, taken, echoed>>

\* recv() returns 0: dispatcher_close_connection().
RecvEnd ==
  /\ Handles("in") /\ line = "finished" /\ Unread = 0
  /\ len' = 0
  /\ Remove
  /\ UNCHANGED <<peer, room, data, buf, passed, taken, echoed>>

\* recv() returns -1.
RecvFails ==
  /\ Handles("in") /\ line = "reset"
  /\ len' = -1
  /\ Remove
  /\ UNCHANGED <<peer, room, data, buf, passed, taken, echoed>>

\* DISPATCH_WRITEABLE: send() is called with what is left.
Writeable ==
  /\ Handles("out")
  /\ passed' = 0
  /\ doing' = "send"
  /\ UNCHANGED <<peer, room, entry, memory, taken, echoed>>

\* The kernel takes the next byte.
Transfer ==
  /\ doing = "send" /\ line # "reset"
  /\ passed < len /\ room > 0
  /\ passed' = passed + 1 /\ echoed' = echoed + 1 /\ room' = room - 1
  /\ UNCHANGED <<peer, entry, memory, doing, taken>>

\* Mutant: the length is left as it was.
SendAll_KeepsLength ==
  /\ doing = "send" /\ passed = len
  /\ WaitFor("in")
  /\ doing' = "poll" /\ passed' = 0
  /\ UNCHANGED <<peer, room, memory, taken, echoed>>

\* send() returns data->len.
SendAll ==
  /\ doing = "send" /\ passed = len
  /\ len' = 0
  /\ WaitFor("in")
  /\ doing' = "poll" /\ passed' = 0
  /\ UNCHANGED <<peer, room, data, buf, taken, echoed>>

\* Mutant: what is left stays where it was.
SendPart_NoMove ==
  /\ doing = "send" /\ 0 < passed /\ passed < len
  /\ len' = len - passed
  /\ WaitFor("out")
  /\ doing' = "poll" /\ passed' = 0
  /\ UNCHANGED <<peer, room, data, buf, taken, echoed>>

\* Mutant: poll() goes on waiting for data.
SendPart_Reads ==
  /\ doing = "send" /\ 0 < passed /\ passed < len
  /\ buf' = [k \in 1 .. Size |-> IF k <= len - passed THEN buf[passed + k] ELSE buf[k]]
  /\ len' = len - passed
  /\ doing' = "poll" /\ passed' = 0
  /\ UNCHANGED <<peer, room, entry, data, taken, echoed>>

\* send() returns less, because of a signal or because the peer is gone.
SendPart ==
  /\ doing = "send" /\ 0 < passed /\ passed < len
  /\ buf' = [k \in 1 .. Size |-> IF k <= len - passed THEN buf[passed + k] ELSE buf[k]]
  /\ len' = len - passed
  /\ WaitFor("out")
  /\ doing' = "poll" /\ passed' = 0
  /\ UNCHANGED <<peer, room, data, taken, echoed>>

\* send() returns -1, because of a signal or because the peer is gone; in
\* that case it may raise SIGPIPE, which nothing handles.
SendFails ==
  /\ doing = "send" /\ passed = 0 /\ passed < len
  /\ \/ Remove
     \/ line = "reset" /\ doing' = "killed" /\ UNCHANGED entry
  /\ UNCHANGED <<peer, room, memory, passed, taken, echoed>>

-----------------------------------------------------------------------------

Init ==
  /\ line = "open" /\ sent = 0 /\ room = MaxRoom
  /\ events = "in" /\ revents = {}
  /\ data = "none" /\ buf = [k \in 1 .. Size |-> 0] /\ len = 0
  /\ doing = "new" /\ passed = 0
  /\ taken = 0 /\ echoed = 0

Handler ==
  \/ Created \/ HungUp
  \/ RecvData \/ RecvEnd \/ RecvFails
  \/ Writeable \/ Transfer \/ SendAll

Next ==
  \/ PeerSends \/ PeerReads \/ PeerEnds
  \/ Handler \/ PollEntry
  \/ SendPart \/ SendFails

Spec == Init /\ [][Next]_vars

(***************************************************************************)
(* Fairness: the thread takes its steps.  poll() returns when it has       *)
(* something certain to report, and send() when the peer is gone; neither  *)
(* signals nor anything the peer does are certain.                         *)
(***************************************************************************)
PollReturns == (Ready # {} \/ line = "reset") /\ PollEntry
SendReturns == line = "reset" /\ (SendPart \/ SendFails)

FairSpec == Spec /\ WF_vars(Handler) /\ WF_vars(PollReturns) /\ WF_vars(SendReturns)

-----------------------------------------------------------------------------

TypeOK ==
  /\ line \in {"open", "finished", "reset"}
  /\ sent \in Nat /\ taken \in 0 .. sent /\ echoed \in 0 .. taken
  /\ room \in 0 .. MaxRoom
  /\ events \in {"in", "out"}
  /\ revents \subseteq {"hup", "err", "in", "out"}
  /\ data \in {"none", "live", "freed"}
  /\ buf \in [1 .. Size -> Nat] /\ len \in -1 .. Size
  /\ doing \in {"new", "poll", "loop", "send", "gone", "killed"}
  /\ passed \in 0 .. Size

(***************************************************************************)
(* What the peer gets back is what it sent: the bytes that are still to be *)
(* sent are the ones that follow those already sent, each once and in      *)
(* order, however often send() stops in between, and nothing received is   *)
(* lost before it is sent (builtin-echo.c:85, 105-117).                    *)
(***************************************************************************)
EchoesInOrder ==
  /\ echoed + Unsent = taken
  /\ \A k \in 1 .. Unsent : buf[passed + k] = echoed + k

(***************************************************************************)
(* The service is a queue between the peer's two directions: bytes enter   *)
(* it in the order they were sent and no more than the buffer holds, leave *)
(* it one by one from the front, and stay in it while memmove() moves them *)
(* and the dispatcher goes from one event to the other; and a peer that    *)
(* neither ends the connection nor is owed anything is never cut off       *)
(* (builtin-echo.c:83-120, dispatcher.c:182-210).                          *)
(***************************************************************************)
Stream == INSTANCE ByteStream WITH
  Capacity <- Size,
  kept     <- [k \in 1 .. Unsent |-> buf[passed + k]],
  back     <- echoed,
  state    <- IF doing = "gone" THEN "closed"
              ELSE IF doing = "killed" THEN "killed" ELSE "open"

KeepsStream == Stream!Spec

Ended == doing \in {"gone", "killed"}

(***************************************************************************)
(* While the peer keeps reading, whatever it sends comes back, unless the  *)
(* connection ends; after a partial send() the rest is not forgotten       *)
(* (builtin-echo.c:110-113).                                               *)
(***************************************************************************)
EchoIsDelivered ==
  \A n \in 1 .. MaxBytes :
    []<>(room > 0) => ((sent >= n) ~> (echoed >= n \/ Ended))

(***************************************************************************)
(* The dispatcher notices that a peer has reset the connection, whatever   *)
(* it was waiting for then, and that it has closed its side, as long as    *)
(* what it sent before can be echoed (dispatcher.c:182-210,                *)
(* builtin-echo.c:86-92, 107-109).                                         *)
(***************************************************************************)
EndedIsRemoved ==
  /\ (line = "reset") ~> Ended
  /\ []<>(room > 0) => ((line = "finished") ~> Ended)
=============================================================================
