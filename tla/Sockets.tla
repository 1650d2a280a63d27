------------------------------ MODULE Sockets -------------------------------
(***************************************************************************)
(* The sockets under the dispatcher, modelled from the way dispatch.c uses *)
(* them: the table of file descriptors of the process, the queue of every  *)
(* listening socket, and what has arrived on every TCP connection.         *)
(*                                                                         *)
(* A member of Conn stands for a peer's connection and, once accepted, for *)
(* the memory of its struct dispatcher_connection.  Both are used again    *)
(* after the connection is closed.                                         *)
(***************************************************************************)
EXTENDS Integers, Sequences

CONSTANTS
  Conn,     \* connections
  Service,  \* listening services
  Fd,       \* the descriptors the process may have open
  MaxData,  \* bound: unread pieces of data on a connection
  MaxQueue, \* the length of a listening socket's queue (10 in the code)
  NoOne     \* the owner of a closed descriptor

ASSUME FdAssumption ==
  /\ Fd \subseteq Nat
  /\ Conn \cap Service = {} /\ NoOne \notin Conn \cup Service
ASSUME DataAssumption == MaxData \in Nat /\ MaxQueue \in Nat

VARIABLES
  owner,  \* the socket a descriptor refers to, NoOne when it is closed
  queue,  \* the connections waiting on a listening socket, oldest first
  wire,   \* what the peer has done: "none" (there is no connection), "open",
          \* "fin" (closed its side), "reset" (reset the connection, and the
          \* error is pending), "dead" (reset, and the error was reported)
  avail   \* data that has arrived and is unread

kernel == <<owner, queue, wire, avail>>

\* c is on the queue of some listening socket.
Waiting(c) == \E s \in Service : \E k \in DOMAIN queue[s] : queue[s][k] = c

\* f is the descriptor the kernel gives out next: the lowest free one.
NextFd(f) ==
  /\ owner[f] = NoOne
  /\ \A g \in Fd : owner[g] = NoOne => f <= g

NoFdLeft == \A f \in Fd : owner[f] # NoOne

\* select() reports a socket readable.
Readable(c)   == avail[c] > 0 \/ wire[c] \notin {"none", "open"}
Acceptable(s) == queue[s] # <<>>

KernelTypeOK ==
  /\ owner \in [Fd -> Conn \cup Service \cup {NoOne}]
  /\ queue \in [Service -> Seq(Conn)]
  /\ wire \in [Conn -> {"none", "open", "fin", "reset", "dead"}]
  /\ avail \in [Conn -> Nat]

KernelInit ==
  /\ owner = [f \in Fd |-> NoOne]
  /\ queue = [s \in Service |-> <<>>]
  /\ wire  = [c \in Conn |-> "none"]
  /\ avail = [c \in Conn |-> 0]

-----------------------------------------------------------------------------
(* What the peers do.                                                      *)

Connect(c, s) ==
  /\ wire[c] = "none"
  /\ \E f \in Fd : owner[f] = s
  /\ Len(queue[s]) < MaxQueue
  /\ wire'  = [wire EXCEPT ![c] = "open"]
  /\ queue' = [queue EXCEPT ![s] = Append(@, c)]
  /\ UNCHANGED <<owner, avail>>

SendData(c) ==
  /\ wire[c] = "open"
  /\ avail[c] < MaxData
  /\ avail' = [avail EXCEPT ![c] = @ + 1]
  /\ UNCHANGED <<owner, queue, wire>>

Finish(c) ==
  /\ wire[c] = "open"
  /\ wire' = [wire EXCEPT ![c] = "fin"]
  /\ UNCHANGED <<owner, queue, avail>>

\* Whether unread data survives a reset depends on the operating system.
Reset(c) ==
  /\ wire[c] \in {"open", "fin"}
  /\ wire' = [wire EXCEPT ![c] = "reset"]
  /\ \E n \in {0, avail[c]} : avail' = [avail EXCEPT ![c] = n]
  /\ UNCHANGED <<owner, queue>>

Peers ==
  \E c \in Conn :
    \/ \E s \in Service : Connect(c, s)
    \/ SendData(c) \/ Finish(c) \/ Reset(c)

-----------------------------------------------------------------------------
(* What the system calls of the dispatcher do.                             *)

socket(s, f) ==
  /\ NextFd(f)
  /\ owner' = [owner EXCEPT ![f] = s]
  /\ UNCHANGED <<queue, wire, avail>>

\* accept() takes the oldest connection off the queue of s.
accept(s, c, f) ==
  /\ queue[s] # <<>> /\ c = Head(queue[s])
  /\ NextFd(f)
  /\ owner' = [owner EXCEPT ![f] = c]
  /\ queue' = [queue EXCEPT ![s] = Tail(@)]
  /\ UNCHANGED <<wire, avail>>

\* accept(), and close() of the descriptor it has returned.
accept_close(s, c) ==
  /\ queue[s] # <<>> /\ c = Head(queue[s])
  /\ ~NoFdLeft
  /\ queue' = [queue EXCEPT ![s] = Tail(@)]
  /\ wire'  = [wire EXCEPT ![c] = "none"]
  /\ avail' = [avail EXCEPT ![c] = 0]
  /\ UNCHANGED owner

\* accept() returns -1: no descriptor is left, nothing is waiting (the
\* listening socket does not block), or the peer has reset the connection
\* that was waiting and the system drops it.
accept_fails(s) ==
  \/ (NoFdLeft \/ queue[s] = <<>>) /\ UNCHANGED kernel
  \/ /\ queue[s] # <<>> /\ wire[Head(queue[s])] = "reset"
     /\ queue' = [queue EXCEPT ![s] = Tail(@)]
     /\ wire'  = [wire EXCEPT ![Head(queue[s])] = "none"]
     /\ avail' = [avail EXCEPT ![Head(queue[s])] = 0]
     /\ UNCHANGED owner

\* recv() returns some of the data that has arrived ...
recv_data(c) ==
  /\ avail[c] > 0
  /\ \E n \in 0 .. avail[c] - 1 : avail' = [avail EXCEPT ![c] = n]
  /\ UNCHANGED <<owner, queue, wire>>

\* ... or the pending error, once ...
recv_error(c) ==
  /\ avail[c] = 0 /\ wire[c] = "reset"
  /\ wire' = [wire EXCEPT ![c] = "dead"]
  /\ UNCHANGED <<owner, queue, avail>>

\* ... or 0 at the end of the stream.
AtEnd(c) == avail[c] = 0 /\ wire[c] \in {"fin", "dead"}

\* getsockopt(SO_ERROR) on connections S clears the errors it reports.
getsockopt(S) ==
  /\ wire' = [c \in Conn |->
                IF c \in S /\ wire[c] = "reset" THEN "dead" ELSE wire[c]]
  /\ UNCHANGED <<owner, queue, avail>>

close(c, f) ==
  /\ owner' = [owner EXCEPT ![f] = NoOne]
  /\ wire'  = [wire EXCEPT ![c] = "none"]
  /\ avail' = [avail EXCEPT ![c] = 0]
  /\ UNCHANGED queue
=============================================================================
