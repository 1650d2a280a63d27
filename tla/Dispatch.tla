------------------------------ MODULE Dispatch ------------------------------
(***************************************************************************)
(* The dispatcher of dispatch.c with the telnet service of main.c: one     *)
(* thread that waits in select() for sockets, receives from the            *)
(* connections in its table, accepts new ones and closes those whose       *)
(* inactivity timer has expired.  The peers act between any two steps of   *)
(* the thread, and the clock moves between any two steps.                  *)
(*                                                                         *)
(* All services have the handlers of main.c, which print what they get, so *)
(* what is received and which service a connection belongs to are left     *)
(* out.  The timers are TimerSet.tla, which the ring of event-timeout.c is *)
(* proved to implement; a unit of time is a second, the only times that    *)
(* dispatch.c passes on being whole seconds.                               *)
(***************************************************************************)
EXTENDS Sockets, FiniteSets

CONSTANTS
  Rings,          \* the rings of d->timeouts that are not NULL
  Inactivity,     \* cfg_timeout_inactivity, 5 in the code
  Lap,            \* a lap of the ring: 1024*1024 ticks, 64 seconds
  MaxClock,       \* bound: the last second that is modelled
  MaxSetBacks,    \* bound: how often the clock is set back
  SelectFails,    \* may select() return an error?
  Inherits        \* does an accepted socket inherit O_NONBLOCK (BSD, macOS)
                  \* or is it a blocking one (Linux)?

ASSUME RingsAssumption ==
  "inactivity" \in Rings /\ Rings \subseteq {"inactivity", "sleep", "receive"}
ASSUME ClockAssumption ==
  /\ Inactivity \in Nat \ {0} /\ Lap \in Nat \ {0}
  /\ MaxClock \in Nat /\ MaxSetBacks \in Nat
ASSUME FlagsAssumption == {SelectFails, Inherits} \subseteq BOOLEAN

NoFd == -1

ASSUME NoOneAssumption == NoOne \notin Int

VARIABLES
  pc,                \* what the thread does next
  i,                 \* the index of the loop it is in
  readset,           \* the descriptors that select() has left in its read set
  services,          \* d->services
  connections,       \* d->connections: 0 .. connection_count - 1 -> Conn
  connection_count,  \* d->connection_count
  index,             \* conn->index, 0 in a structure that is not allocated
  fd,                \* conn->fd and svc->fd
  heap,              \* the blocks of memory allocated for a connection
  clock,             \* what time(0) returns
  setbacks,          \* how often it was set back
  expires, due, asked, seen,  \* the ring d->timeouts.inactivity
  unserved           \* history: what select() has found readable in this
                     \* round and dispatcher_dispatch() has yet to look at

table  == <<connections, connection_count, index>>
time   == <<clock, setbacks>>
timers == <<expires, due, asked, seen>>
vars   == <<kernel, pc, i, readset, services, table, fd, heap, time, timers,
            unserved>>

Timers == INSTANCE TimerSet WITH
  Entry <- Conn, Time <- Nat, None <- NoOne, asking <- pc = "inactivity"

\* The connections in d->connections.
Table == {connections[k] : k \in 0 .. connection_count - 1}

Listeners == {services[k] : k \in 1 .. Len(services)}

\* Mutant: the listening sockets are not watched.
Watched_NoListeners == {fd[x] : x \in Table}

\* The descriptors put into the sets for select().
Watched == {fd[x] : x \in Table \cup Listeners}

-----------------------------------------------------------------------------
(* The event handler of main.c, as what it does to the heap h: it keeps a  *)
(* structure of its own in conn->userdata.                                 *)

telnet_event(c, event, h) ==
  IF event = "NEW" THEN h \cup {<<"userdata", c>>}
  ELSE IF event = "END" THEN h \ {<<"userdata", c>>}
  ELSE h  \* "TIMEOUT"

Last == connection_count - 1

\* The table without index k: the last connection has moved there.
Moved(k) == [j \in 0 .. Last - 1 |-> IF j = k THEN connections[Last] ELSE connections[j]]

\* Mutant: the connection that moves keeps its old index.
Unlist_StaleIndex(k) ==
  /\ connections' = Moved(k)
  /\ index' = [index EXCEPT ![connections[k]] = 0]
  /\ connection_count' = Last

\* Mutant: the connection is not counted off.
Unlist_NoCount(k) ==
  /\ connections' = Moved(k)
  /\ index' = [index EXCEPT ![connections[Last]] = k, ![connections[k]] = 0]
  /\ UNCHANGED connection_count

\* Take the connection at index k out of the table.
Unlist(k) ==
  /\ connections' = Moved(k)
  /\ index' = [index EXCEPT ![connections[Last]] = k, ![connections[k]] = 0]
  /\ connection_count' = Last

\* ... tell the service, and release what belongs to the connection.
connection_remove(k, h) ==
  LET conn == connections[k]
  IN /\ Unlist(k)
     /\ IF fd[conn] > 0 THEN close(conn, fd[conn]) ELSE UNCHANGED kernel
     /\ fd' = [fd EXCEPT ![conn] = NoFd]
     /\ Timers!Disarm(conn) /\ UNCHANGED <<asked, seen>>
     /\ heap' = telnet_event(conn, "END", h) \ {<<"conn", conn>>}

\* Mutant: cfg_timeout_inactivity is left out.
ExpiryTime_Now == clock

\* When the inactivity timer of a connection added now expires.
ExpiryTime == clock + Inactivity

\* Put the accepted connection conn, with descriptor f, into the table.
connection_add(conn, f) ==
  /\ Timers!Add(conn, ExpiryTime)
  /\ connections' = [j \in 0 .. connection_count |->
                       IF j = connection_count THEN conn ELSE connections[j]]
  /\ index' = [index EXCEPT ![conn] = connection_count]
  /\ connection_count' = connection_count + 1
  /\ fd' = [fd EXCEPT ![conn] = f]
  /\ heap' = telnet_event(conn, "NEW", heap \cup {<<"conn", conn>>, <<"peer", conn>>})

-----------------------------------------------------------------------------
(* main() and the start of dispatcher_dispatch().                          *)

\* The loops over connections and services: the next index, the next phase.
Continue == i' = i + 1 /\ UNCHANGED pc
Go(phase) == i' = 0 /\ pc' = phase

\* A call that fails closes its descriptor again and changes nothing.
dispatcher_add_listener(s) ==
  /\ pc = "listen" /\ s \notin Listeners
  /\ \E f \in Fd : socket(s, f) /\ fd' = [fd EXCEPT ![s] = f]
  /\ services' = Append(services, s)
  /\ UNCHANGED <<pc, i, readset, table, heap, time, timers, unserved>>

\* main() enters its loop whether or not its listeners could be added.
main ==
  /\ pc = "listen"
  /\ Go("select")
  /\ UNCHANGED <<kernel, readset, services, table, fd, heap, time, timers, unserved>>

ReadyFds == {f \in Watched : \/ owner[f] \in Conn /\ Readable(owner[f])
                             \/ owner[f] \in Service /\ Acceptable(owner[f])}

\* Mutant: what is writable is taken for readable.
LeftInReadset_Writable == Watched

\* What select() leaves in the read set.
LeftInReadset == ReadyFds

\* Mutant: connections are not put into the write set.
SomethingReady_NoWriteset == ReadyFds # {}

\* select() has something to report.  A connection is always writable,
\* because nothing is ever sent on it.
SomethingReady == ReadyFds # {} \/ connection_count > 0

Select ==
  /\ pc = "select" /\ SomethingReady
  /\ readset' = LeftInReadset
  /\ unserved' = {c \in Table : fd[c] \in ReadyFds}
  /\ Go("recv")
  /\ UNCHANGED <<kernel, services, table, fd, heap, time, timers>>

\* select() fails and leaves the sets as they were; the round goes on.
SelectError ==
  /\ pc = "select" /\ SelectFails
  /\ readset' = Watched
  /\ unserved' = Table
  /\ Go("recv")
  /\ UNCHANGED <<kernel, services, table, fd, heap, time, timers>>

\* Nothing has happened for 100 milliseconds: the call returns at once.
SelectTimeout ==
  /\ pc = "select" /\ ~SomethingReady
  /\ UNCHANGED vars

-----------------------------------------------------------------------------
(* The loop that receives.                                                 *)

AtConnection == pc = "recv" /\ i < connection_count
Current      == connections[i]
Served       == unserved' = unserved \ {Current}

RecvNotReady ==
  /\ AtConnection /\ fd[Current] \notin readset
  /\ Continue
  /\ UNCHANGED <<kernel, readset, services, table, fd, heap, time, timers, unserved>>

\* Data, or an error, or (when recv() does not block) nothing.
Recv ==
  /\ AtConnection /\ fd[Current] \in readset
  /\ \/ recv_data(Current)
     \/ recv_error(Current)
     \/ Inherits /\ ~Readable(Current) /\ UNCHANGED kernel
  /\ Continue /\ Served
  /\ UNCHANGED <<readset, services, table, fd, heap, time, timers>>

\* Mutant: the index moves past the connection that has moved there.
RecvEnd_Skips ==
  /\ AtConnection /\ fd[Current] \in readset
  /\ AtEnd(Current)
  /\ connection_remove(i, heap)
  /\ Continue /\ Served
  /\ UNCHANGED <<readset, services, time>>

\* The end of the stream.  The index stays: another connection is there now.
RecvEnd ==
  /\ AtConnection /\ fd[Current] \in readset
  /\ AtEnd(Current)
  /\ connection_remove(i, heap)
  /\ Served
  /\ UNCHANGED <<pc, i, readset, services, time>>

\* Mutant: the last connection is left out.
RecvDone_OffByOne ==
  /\ pc = "recv" /\ i + 1 >= connection_count
  /\ unserved' = {}
  /\ Go("errors")
  /\ UNCHANGED <<kernel, readset, services, table, fd, heap, time, timers>>

RecvDone ==
  /\ pc = "recv" /\ i >= connection_count
  /\ Go("errors")
  /\ UNCHANGED <<kernel, readset, services, table, fd, heap, time, timers, unserved>>

\* The loop over errset, which reports and so clears the pending errors of
\* some connections: what select() calls exceptional depends on the system.
ReportErrors ==
  /\ pc = "errors"
  /\ \E S \in SUBSET Table : getsockopt(S)
  /\ Go("accept")
  /\ UNCHANGED <<readset, services, table, fd, heap, time, timers, unserved>>

-----------------------------------------------------------------------------
(* The loop that accepts.                                                  *)

AtService == pc = "accept" /\ i < Len(services)
Listener  == services[i + 1]

AcceptNotReady ==
  /\ AtService /\ fd[Listener] \notin readset
  /\ Continue
  /\ UNCHANGED <<kernel, readset, services, table, fd, heap, time, timers, unserved>>

AcceptError ==
  /\ AtService /\ fd[Listener] \in readset
  /\ accept_fails(Listener)
  /\ Continue
  /\ UNCHANGED <<readset, services, table, fd, heap, time, timers, unserved>>

\* Mutant: the accepted connection is not closed.
AcceptNoName_NoClose ==
  /\ AtService /\ fd[Listener] \in readset
  /\ \E c \in Conn, f \in Fd : accept(Listener, c, f)
  /\ Continue
  /\ UNCHANGED <<readset, services, table, fd, heap, time, timers, unserved>>

\* getnameinfo() fails for the peer of the accepted connection.
AcceptNoName ==
  /\ AtService /\ fd[Listener] \in readset
  /\ \E c \in Conn : accept_close(Listener, c)
  /\ Continue
  /\ UNCHANGED <<readset, services, table, fd, heap, time, timers, unserved>>

Accept ==
  /\ AtService /\ fd[Listener] \in readset
  /\ Continue
  /\ \E c \in Conn, f \in Fd : accept(Listener, c, f) /\ connection_add(c, f)
  /\ UNCHANGED <<readset, services, time, unserved>>

\* Mutant: the timers are asked about a time that has not come.
AcceptDone_Early ==
  /\ pc = "accept" /\ i >= Len(services)
  /\ Go("inactivity")
  /\ Timers!Ask(clock + Inactivity)
  /\ UNCHANGED <<kernel, readset, services, table, fd, heap, time, unserved>>

\* The loop over the errors of the services only prints them.
AcceptDone ==
  /\ pc = "accept" /\ i >= Len(services)
  /\ Go("inactivity")
  /\ Timers!Ask(clock)
  /\ UNCHANGED <<kernel, readset, services, table, fd, heap, time, unserved>>

-----------------------------------------------------------------------------
(* The timeouts.  Nothing is ever added to a ring for sleeping or          *)
(* receiving, so when these rings exist they answer NULL at once.          *)

\* timeouts_remove() unlinks the timer of c and connection_remove() finds it
\* unlinked: Disarm in connection_remove() stands for both.
timeout_inactivity(c) ==
  /\ pc = "inactivity"
  /\ Timers!Expired(c)
  /\ connection_remove(index[c], telnet_event(c, "TIMEOUT", heap))
  /\ UNCHANGED <<pc, i, readset, services, time, unserved>>

InactivityDone ==
  /\ pc = "inactivity"
  /\ Go("sleep")
  /\ Timers!NothingLeft
  /\ UNCHANGED <<kernel, readset, services, table, fd, heap, time, unserved>>

\* timeouts_remove() on a ring that is NULL ends the program.
timeout_sleep ==
  /\ pc = "sleep"
  /\ Go(IF "sleep" \in Rings THEN "receive" ELSE "crashed")
  /\ UNCHANGED <<kernel, readset, services, table, fd, heap, time, timers, unserved>>

\* It looks at the ring for sleeping again.  dispatcher_dispatch() returns.
timeout_receive ==
  /\ pc = "receive"
  /\ Go(IF "sleep" \in Rings THEN "select" ELSE "crashed")
  /\ readset' = {}
  /\ UNCHANGED <<kernel, services, table, fd, heap, time, timers, unserved>>

-----------------------------------------------------------------------------

PeersAct ==
  /\ Peers
  /\ UNCHANGED <<pc, i, readset, services, table, fd, heap, time, timers, unserved>>

Tick ==
  /\ clock < MaxClock
  /\ clock' = clock + 1
  /\ UNCHANGED <<setbacks, kernel, pc, i, readset, services, table, fd, heap, timers, unserved>>

SetBack ==
  /\ setbacks < MaxSetBacks /\ clock > 0
  /\ clock' = clock - 1
  /\ setbacks' = setbacks + 1
  /\ UNCHANGED <<kernel, pc, i, readset, services, table, fd, heap, timers, unserved>>

\* dispatcher_create()
Init ==
  /\ KernelInit
  /\ pc = "listen" /\ i = 0
  /\ readset = {}
  /\ services = <<>>
  /\ connections = [j \in {} |-> NoOne]
  /\ connection_count = 0
  /\ index = [c \in Conn |-> 0]
  /\ fd = [x \in Conn \cup Service |-> NoFd]
  /\ heap = {}
  /\ clock = 0 /\ setbacks = 0
  /\ Timers!Create(clock)
  /\ unserved = {}

dispatcher_dispatch ==
  \/ Select \/ SelectError \/ SelectTimeout
  \/ RecvNotReady \/ Recv \/ RecvEnd \/ RecvDone \/ ReportErrors
  \/ AcceptNotReady \/ AcceptError \/ AcceptNoName \/ Accept \/ AcceptDone
  \/ \E c \in Conn : timeout_inactivity(c)
  \/ InactivityDone \/ timeout_sleep \/ timeout_receive

Thread ==
  \/ \E s \in Service : dispatcher_add_listener(s)
  \/ main
  \/ dispatcher_dispatch

Next == Thread \/ PeersAct \/ Tick \/ SetBack

Spec == Init /\ [][Next]_vars

\* The thread runs and time passes.
FairSpec == Spec /\ WF_vars(Thread) /\ WF_vars(Tick)

-----------------------------------------------------------------------------

TypeOK ==
  /\ KernelTypeOK
  /\ pc \in {"listen", "select", "recv", "errors", "accept", "inactivity",
             "sleep", "receive", "crashed"}
  /\ i \in Nat
  /\ readset \subseteq Fd
  /\ services \in Seq(Service)
  /\ connection_count \in Nat
  /\ connections \in [0 .. connection_count - 1 -> Conn]
  /\ index \in [Conn -> Nat]
  /\ fd \in [Conn \cup Service -> Fd \cup {NoFd}]
  /\ heap \subseteq {"conn", "peer", "userdata"} \X Conn
  /\ clock \in Nat /\ setbacks \in Nat
  /\ Timers!TypeOK
  /\ unserved \subseteq Conn

Allocated(kind) == {c \in Conn : <<kind, c>> \in heap}

(***************************************************************************)
(* The table, the index that every connection keeps of its own place, the  *)
(* timers and the memory agree whatever connections came and went and in   *)
(* whatever order (dispatch.c:276-278, 300-305, 324-332): no connection is *)
(* in the table twice, none is in it that was freed, and no timer is armed *)
(* that would hand a freed connection to timeout_inactivity().             *)
(***************************************************************************)
IndexOK  == \A k \in 0 .. connection_count - 1 : index[connections[k]] = k
MemoryOK == Table = Allocated("conn") /\ Table = Allocated("userdata")
TimersOK == Table = Timers!Armed

TableConsistent == IndexOK /\ MemoryOK /\ TimersOK

(***************************************************************************)
(* Every open descriptor belongs to one connection of the table or one     *)
(* service, and every one of these has one: no descriptor is leaked, closed*)
(* twice, closed while in use, or kept by a closed connection because it   *)
(* was 0 (dispatch.c:294-296, 606).                                        *)
(***************************************************************************)
DescriptorsOwned ==
  /\ \A x \in Table \cup Listeners : fd[x] \in Fd /\ owner[fd[x]] = x
  /\ \A f \in Fd : owner[f] # NoOne =>
       owner[f] \in Table \cup Listeners /\ fd[owner[f]] = f

(***************************************************************************)
(* What select() found ready is looked at in the same round, although the  *)
(* loop removes connections from the table it goes through: when the loop  *)
(* is at index i, the connections still to be served are those at i and    *)
(* above that were ready, and none is left after it (dispatch.c:513-549).  *)
(***************************************************************************)
EveryReadyIsServed ==
  unserved = IF pc = "recv"
             THEN {connections[k] : k \in {j \in i .. connection_count - 1 :
                                             fd[connections[j]] \in readset}}
             ELSE {}

(***************************************************************************)
(* recv() never waits for data: the thread that waits in it serves nobody. *)
(* It is called only after select() saw something to read, and nothing a   *)
(* peer does takes that away (dispatch.c:494-526).                         *)
(***************************************************************************)
NeverBlocks ==
  AtConnection /\ fd[Current] \in readset => Inherits \/ Readable(Current)

(***************************************************************************)
(* When timeout_inactivity() is through, no connection is left in the      *)
(* table whose time was up when the pass began: the clock that is asked    *)
(* about is never ahead of the one that connections are added by           *)
(* (dispatch.c:324-327, 643).                                              *)
(***************************************************************************)
PassClosesOverdue ==
  [][asked # NoOne /\ asked' = NoOne => \A c \in Table' : expires[c] > asked]_vars

(***************************************************************************)
(* A connection that is closed was ended by its peer or had its time, each *)
(* waits, opens and closes on its own, and closing one leaves the others   *)
(* as they are: the dispatcher implements Sessions.tla.                    *)
(***************************************************************************)
Promise == INSTANCE Sessions WITH
  phase    <- [c \in Conn |-> IF c \in Table THEN "open"
                              ELSE IF wire[c] # "none" THEN "waiting" ELSE "none"],
  ended    <- [c \in Conn |-> wire[c] \notin {"none", "open"}],
  deadline <- [c \in Conn |-> IF c \in Table THEN expires[c] ELSE 0]

KeepsPromise == Promise!Spec

(***************************************************************************)
(* A peer that has gone is noticed: its connection leaves the table        *)
(* without waiting for the inactivity timer, whatever became of the error  *)
(* that reported it (dispatch.c:526-544, 565).                             *)
(***************************************************************************)
GoneIsRemoved ==
  \A c \in Conn : (c \in Table /\ wire[c] # "open") ~> (c \notin Table \/ wire[c] = "open")

(***************************************************************************)
(* A connection whose time comes up within the modelled time is closed     *)
(* even if nothing ever happens on any socket again, the timers being      *)
(* looked at only when select() has something to report, and even if the   *)
(* clock was set back: that costs it a lap of the ring at most             *)
(* (dispatch.c:509, 643).                                                  *)
(***************************************************************************)
OverdueIsClosed ==
  \A c \in Conn :
    (c \in Table /\ due[c] <= MaxClock) ~> ~(c \in Table /\ due[c] <= MaxClock)

(***************************************************************************)
(* A connection that waits on a listening socket is taken off its queue,   *)
(* also when other peers keep connecting (dispatch.c:578-614).             *)
(***************************************************************************)
WaitingIsTaken ==
  \A c \in Conn, s \in Service :
    (queue[s] # <<>> /\ Head(queue[s]) = c) ~> ~(queue[s] # <<>> /\ Head(queue[s]) = c)

(***************************************************************************)
(* "lastly, free up the memory we use" (dispatch.c:304): nothing that was  *)
(* allocated for a connection outlives it.                                 *)
(***************************************************************************)
NoLeak == \A kind \in {"conn", "peer", "userdata"} : Allocated(kind) \subseteq Table

(***************************************************************************)
(* "Initialize the timeouts for connections" (dispatch.c:94): the rings    *)
(* that dispatcher_dispatch() passes to timeouts_remove() exist.           *)
(***************************************************************************)
NoCrash == pc # "crashed"

(***************************************************************************)
(* "This timer gets updated for every send/recv on the connection"         *)
(* (dispatch.c:322): after a recv() the timer runs for its full length.    *)
(***************************************************************************)
RecvUpdatesTimer ==
  [][\A c \in unserved \ unserved' :
       avail'[c] < avail[c] /\ c \in Table' => expires'[c] = clock + Inactivity]_vars
=============================================================================
