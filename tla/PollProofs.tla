----------------------------- MODULE PollProofs -----------------------------
(***************************************************************************)
(* Theorems about the table of PollDispatcher.tla, for any number of       *)
(* connections, listening sockets and descriptors.  The first part is      *)
(* about all three versions; the rest about those in which a socket has    *)
(* one entry of the table, that is, all but "stored".                      *)
(***************************************************************************)
EXTENDS PollDispatcher, SocketsProofs

USE FdAssumption

Entry == [fd : Fd, events : {"in", "out"},
          revents : {"none", "hup", "in", "out", "other"}]

TableTypeOK ==
  /\ owner \in [Fd -> Conn \cup Service \cup {NoOne}]
  /\ count \in Nat /\ max \in Nat /\ i \in Nat
  /\ list \in [Entries -> Entry]
  /\ version \in {"written", "stored", "described"}

\* The lists have the length that the counters say.
Shape == TableTypeOK /\ RoomForNext

-----------------------------------------------------------------------------
(* The lists, in every version.                                            *)

LEMMA InitShape == PollInit => Shape
<1> SUFFICES ASSUME PollInit PROVE Shape
  OBVIOUS
<1>1. Entries = {} /\ owner = [f \in Fd |-> NoOne]
  BY DEF PollInit, KernelInit, Entries
<1>2. TableTypeOK
  BY <1>1, VersionsAssumption DEF PollInit, TableTypeOK
<1>3. RoomForNext
  BY DEF PollInit, RoomForNext
<1> QED BY <1>2, <1>3 DEF Shape

\* The table keeps its length.
LEMMA KeepShape ==
  ASSUME Shape, UNCHANGED <<owner, version, connections, count, max>>, i' \in Nat,
         list' \in [Entries -> Entry]
  PROVE  Shape'
BY DEF Shape, TableTypeOK, RoomForNext, Entries

LEMMA AddShape ==
  ASSUME Shape, NEW x, NEW f \in Fd, dispatcher_add_connection(x, f),
         owner' \in [Fd -> Conn \cup Service \cup {NoOne}], version' = version, i' \in Nat
  PROVE  Shape'
<1>1. /\ count \in Nat /\ max \in Nat /\ count < max
      /\ list \in [0 .. count - 1 -> Entry]
  BY DEF Shape, TableTypeOK, Entries, RoomForNext
<1>2. /\ count' = count + 1
      /\ list' = [k \in 0 .. count |->
           IF k = count THEN [fd |-> f, events |-> "in", revents |-> "none"] ELSE list[k]]
      /\ max' = IF Full THEN max + 1 ELSE max
      /\ DOMAIN connections' = 0 .. (IF Full THEN max ELSE max - 1)
  BY DEF dispatcher_add_connection
<1>3. Entries' = 0 .. count /\ \A k \in 0 .. count : k = count \/ k \in 0 .. count - 1
  BY <1>1, <1>2 DEF Entries
<1>4. list' \in [Entries' -> Entry]
  <2>1. [fd |-> f, events |-> "in", revents |-> "none"] \in Entry
    BY DEF Entry
  <2> QED BY <1>1, <1>2, <1>3, <2>1
<1>5. TableTypeOK'
  BY <1>1, <1>2, <1>4 DEF Shape, TableTypeOK, Full
<1>6. RoomForNext'
  BY <1>1, <1>2 DEF RoomForNext, Full
<1> QED BY <1>5, <1>6 DEF Shape

LEMMA CloseOwner ==
  ASSUME owner \in [Fd -> Conn \cup Service \cup {NoOne}], NEW f \in Fd,
         close_socket(owner[f], f)
  PROVE  owner' = [owner EXCEPT ![f] = NoOne]
<1>1. owner[f] \in Conn \cup Service \cup {NoOne}
  OBVIOUS
<1>2. CASE owner[f] \in Conn \cup Service
  BY <1>2 DEF close_socket, close, close_listener
<1>3. CASE owner[f] = NoOne
  BY <1>3 DEF close_socket, kernel
<1> QED BY <1>1, <1>2, <1>3

\* The descriptor of an entry is a descriptor.
LEMMA EntryFd ==
  ASSUME Shape, NEW k \in Entries
  PROVE  list[k] \in Entry /\ list[k].fd \in Fd /\ Socket(k) = owner[list[k].fd]
BY DEF Shape, TableTypeOK, Entry, Socket

\* An entry that is removed has been closed, unless it has descriptor 0.
LEMMA RemoveOwner ==
  ASSUME Shape, NEW k \in Entries, dispatcher_remove_at(k)
  PROVE  /\ owner' \in [Fd -> Conn \cup Service \cup {NoOne}]
         /\ \A g \in Fd : g # list[k].fd => owner'[g] = owner[g]
         /\ owner'[list[k].fd] # NoOne => list[k].fd = 0
<1>1. owner \in [Fd -> Conn \cup Service \cup {NoOne}] /\ list[k].fd \in Nat
  BY EntryFd DEF Shape, TableTypeOK
<1>2. CASE list[k].fd > 0
  <2>1. owner' = [owner EXCEPT ![list[k].fd] = NoOne]
    BY <1>1, <1>2, EntryFd, CloseOwner DEF dispatcher_remove_at
  <2> QED BY <1>1, <2>1, EntryFd
<1>3. CASE ~(list[k].fd > 0)
  <2>1. owner' = owner /\ list[k].fd = 0
    BY <1>1, <1>3 DEF dispatcher_remove_at, kernel
  <2> QED BY <1>1, <2>1
<1> QED BY <1>2, <1>3

LEMMA RemoveShape ==
  ASSUME Shape, NEW k \in Entries, dispatcher_remove_at(k), version' = version, i' \in Nat
  PROVE  Shape'
<1>1. /\ count \in Nat /\ max \in Nat /\ count < max /\ k \in 0 .. count - 1
      /\ list \in [0 .. count - 1 -> Entry] /\ DOMAIN connections = 0 .. max - 1
  BY DEF Shape, TableTypeOK, Entries, RoomForNext
<1>2. /\ list' = [j \in 0 .. count - 2 |-> IF j = k THEN list[count - 1] ELSE list[j]]
      /\ connections' = Moved(k, Freed(k)) /\ count' = count - 1 /\ max' = max
  BY DEF dispatcher_remove_at
<1>3. Entries' = 0 .. count - 2
  BY <1>1, <1>2 DEF Entries
<1>4. TableTypeOK'
  <2>1. list' \in [0 .. count - 2 -> Entry]
    BY <1>1, <1>2
  <2>2. count' \in Nat
    BY <1>1, <1>2
  <2> QED BY <1>1, <1>2, <1>3, <2>1, <2>2, RemoveOwner DEF Shape, TableTypeOK
<1>5. RoomForNext'
  <2>1. DOMAIN connections' = DOMAIN connections
    BY <1>2 DEF Moved, Freed
  <2> QED BY <1>1, <1>2, <2>1 DEF RoomForNext
<1> QED BY <1>4, <1>5 DEF Shape

LEMMA SetEventShape ==
  ASSUME Shape, NEW k \in Entries, NEW event \in {"in", "out"}, dispatcher_set_event(k, event)
  PROVE  /\ list' \in [Entries -> Entry]
         /\ list'[k] = [list[k] EXCEPT !.events = event, !.revents = "none"]
         /\ \A j \in Entries : list'[j].fd = list[j].fd /\ (j # k => list'[j] = list[j])
<1>1. list \in [Entries -> Entry]
  BY DEF Shape, TableTypeOK
<1>2. list' = [list EXCEPT ![k] = [list[k] EXCEPT !.events = event, !.revents = "none"]]
  BY <1>1 DEF dispatcher_set_event
<1>3. [list[k] EXCEPT !.events = event, !.revents = "none"] \in Entry
  BY <1>1 DEF Entry
<1> QED BY <1>1, <1>2, <1>3 DEF Entry

\* What poll() reports is all that it changes in the lists.
LEMMA PollShape ==
  ASSUME Shape, Poll
  PROVE  \E r \in [Entries -> {"none", "hup", "in", "out", "other"}] :
           /\ \A k \in Entries : r[k] \in Reports(k)
           /\ list' \in [Entries -> Entry]
           /\ \A k \in Entries : list'[k].fd = list[k].fd /\ list'[k].revents = r[k]
           /\ unhandled' = {Socket(k) : k \in {j \in Entries : r[j] # "none"}}
<1>1. list \in [Entries -> Entry]
  BY DEF Shape, TableTypeOK
<1>2. PICK r \in [Entries -> {"none", "hup", "in", "out", "other"}] :
        /\ \A k \in Entries : r[k] \in Reports(k)
        /\ list' = [k \in Entries |-> [list[k] EXCEPT !.revents = r[k]]]
        /\ unhandled' = {Socket(k) : k \in {j \in Entries : r[j] # "none"}}
  BY DEF Poll
<1>3. ASSUME NEW k \in Entries
      PROVE  list'[k] \in Entry /\ list'[k].fd = list[k].fd /\ list'[k].revents = r[k]
  <2>1. list'[k] = [list[k] EXCEPT !.revents = r[k]]
    BY <1>2
  <2> QED BY <1>1, <1>2, <2>1 DEF Entry
<1>4. list' \in [Entries -> Entry]
  BY <1>2, <1>3
<1> QED BY <1>2, <1>3, <1>4

-----------------------------------------------------------------------------
(* The sockets under them.                                                 *)

\* A listening socket is closed, and with it the connections that wait on it.
LEMMA CloseListener ==
  ASSUME SocketsOK, NEW s \in Service, NEW f \in Fd, owner[f] = s, close_listener(s, f)
  PROVE  SocketsOK'
<1> DEFINE gone == {queue[s][k] : k \in DOMAIN queue[s]}
<1>1. /\ owner \in [Fd -> Conn \cup Service \cup {NoOne}] /\ NoneTwice
      /\ queue \in [Service -> Seq(Conn)]
      /\ wire \in [Conn -> {"none", "open", "fin", "reset", "dead"}]
      /\ avail \in [Conn -> Nat]
  BY DEF SocketsOK, KernelTypeOK
<1>2. /\ owner' = [owner EXCEPT ![f] = NoOne] /\ queue' = [queue EXCEPT ![s] = <<>>]
      /\ wire'  = [c \in Conn |-> IF c \in gone THEN "none" ELSE wire[c]]
      /\ avail' = [c \in Conn |-> IF c \in gone THEN 0 ELSE avail[c]]
  BY DEF close_listener
<1>3. \A c \in Conn : c \in gone => Waiting(c)
  BY DEF Waiting
<1>4. /\ queue'[s] = <<>> /\ DOMAIN queue'[s] = {}
      /\ \A t \in Service : t # s => queue'[t] = queue[t]
  BY <1>1, <1>2
<1>5. NoneTwice'
  <2>1. SUFFICES ASSUME NEW t \in Service, NEW u \in Service,
                        NEW j \in DOMAIN queue'[t], NEW k \in DOMAIN queue'[u],
                        queue'[t][j] = queue'[u][k]
                 PROVE  t = u /\ j = k
    BY DEF NoneTwice
  <2>2. queue'[t] = queue[t] /\ queue'[u] = queue[u]
    BY <1>4
  <2> QED BY <1>1, <2>1, <2>2 DEF NoneTwice
<1>6. \A c \in Conn : Waiting(c)' => Waiting(c) /\ c \notin gone
  <2>1. SUFFICES ASSUME NEW c \in Conn, Waiting(c)' PROVE Waiting(c) /\ c \notin gone
    OBVIOUS
  <2>2. PICK t \in Service : \E k \in DOMAIN queue'[t] : queue'[t][k] = c
    BY <2>1 DEF Waiting
  <2>3. t # s /\ queue'[t] = queue[t]
    BY <1>4, <2>2
  <2>4. PICK k \in DOMAIN queue[t] : queue[t][k] = c
    BY <2>2, <2>3
  <2>5. \A j \in DOMAIN queue[s] : queue[s][j] # c
    BY <1>1, <2>3, <2>4 DEF NoneTwice
  <2> QED BY <2>4, <2>5 DEF Waiting
<1>7. KernelTypeOK'
  <2> HIDE DEF gone
  <2>1. <<>> \in Seq(Conn)
    OBVIOUS
  <2> QED BY <1>1, <1>2, <2>1 DEF KernelTypeOK
<1>8. /\ owner'[f] = NoOne /\ \A g \in Fd : g # f => owner'[g] = owner[g]
      /\ \A c \in Conn : c \notin gone => wire'[c] = wire[c]
  <2> HIDE DEF gone
  <2> QED BY <1>1, <1>2
<1> HIDE DEF gone
<1>9. \A g, h \in Fd : owner'[g] = owner'[h] /\ owner'[g] # NoOne => g = h
  BY <1>8 DEF SocketsOK
<1>10. \A g \in Fd, c \in Conn : owner'[g] = c => wire'[c] # "none" /\ ~Waiting(c)'
  <2>1. SUFFICES ASSUME NEW g \in Fd, NEW c \in Conn, owner'[g] = c
                 PROVE  wire'[c] # "none" /\ ~Waiting(c)'
    OBVIOUS
  <2>2. owner[g] = c
    BY <1>8, <2>1
  <2>3. wire[c] # "none" /\ ~Waiting(c)
    BY <2>2 DEF SocketsOK
  <2> QED BY <1>3, <1>6, <1>8, <2>3
<1>11. \A c \in Conn : Waiting(c)' => wire'[c] # "none"
  BY <1>6, <1>8 DEF SocketsOK
<1> QED BY <1>5, <1>7, <1>9, <1>10, <1>11 DEF SocketsOK

LEMMA SocketsRemove ==
  ASSUME Shape, SocketsOK, NEW k \in Entries, dispatcher_remove_at(k)
  PROVE  SocketsOK'
<1>1. list[k].fd \in Fd /\ owner[list[k].fd] = Socket(k)
  BY EntryFd
<1>2. Socket(k) \in Conn \cup Service \cup {NoOne}
  BY <1>1 DEF Shape, TableTypeOK
<1>3. CASE ~(list[k].fd > 0) \/ Socket(k) = NoOne
  <2>1. UNCHANGED <<owner, queue, wire, avail>>
    BY <1>3 DEF dispatcher_remove_at, close_socket, kernel
  <2> QED BY <2>1, SocketsData DEF SocketsOK, KernelTypeOK
<1>4. CASE list[k].fd > 0 /\ Socket(k) \in Conn
  <2>1. close(Socket(k), list[k].fd)
    BY <1>4 DEF dispatcher_remove_at, close_socket
  <2> QED BY <1>1, <1>4, <2>1, SocketsClose
<1>5. CASE list[k].fd > 0 /\ Socket(k) \in Service
  <2>1. close_listener(Socket(k), list[k].fd)
    BY <1>5 DEF dispatcher_remove_at, close_socket
  <2> QED BY <1>1, <1>5, <2>1, CloseListener
<1> QED BY <1>2, <1>3, <1>4, <1>5

\* builtin_echo_listen() takes a connection off the queue, or does not.
LEMMA AcceptCases ==
  ASSUME AcceptOne
  PROVE  \/ /\ Socket(i) \in Service
            /\ \E c \in Conn, f \in Fd :
                 accept(Socket(i), c, f) /\ dispatcher_add_connection(c, Given(f))
         \/ Socket(i) \in Service /\ accept_fails(Socket(i)) /\ UNCHANGED table
         \/ UNCHANGED kernel /\ UNCHANGED table
BY DEF AcceptOne

LEMMA NextShape ==
  ASSUME Shape, SocketsOK, [PollNext]_polls
  PROVE  Shape' /\ SocketsOK' /\ version' = version
<1>0. /\ i \in Nat /\ i + 1 \in Nat /\ count \in Nat /\ list \in [Entries -> Entry]
      /\ owner \in [Fd -> Conn \cup Service \cup {NoOne}]
  BY DEF Shape, TableTypeOK
<1>1. ASSUME NEW event, At(event) PROVE i \in Entries
  BY <1>0, <1>1 DEF At, Entries
<1>2. CASE \/ UNCHANGED polls \/ StartDispatching \/ PollFails
           \/ NoEvent \/ CallIsUndefined \/ LoopDone
  <2>1. /\ UNCHANGED <<owner, queue, wire, avail, version, list, connections, count, max>>
        /\ i' \in Nat
    BY <1>0, <1>2 DEF polls, kernel, table, StartDispatching, PollFails, NoEvent, Advance,
                      CallIsUndefined, LoopDone
  <2> QED BY <1>0, <2>1, KeepShape, SocketsData DEF SocketsOK, KernelTypeOK
<1>3. CASE Poll
  <2>1. /\ UNCHANGED <<owner, queue, wire, avail, version, connections, count, max>>
        /\ i' \in Nat
    BY <1>3 DEF Poll, kernel
  <2>2. Shape'
    BY <1>3, <2>1, PollShape, KeepShape
  <2> QED BY <2>1, <2>2, SocketsData DEF SocketsOK, KernelTypeOK
<1>4. CASE PeersAct
  <2>1. UNCHANGED <<owner, version, list, connections, count, max, i>>
    BY <1>4 DEF PeersAct, Peers, Connect, SendData, Finish, Reset, table
  <2>2. SocketsOK'
    BY <1>4, SocketsPeers DEF PeersAct
  <2> QED BY <1>0, <2>1, <2>2, KeepShape
<1>5. ASSUME NEW s \in Service, dispatcher_register_server(s)
      PROVE  Shape' /\ SocketsOK' /\ version' = version
  <2>1. PICK f \in Fd : socket(s, f) /\ dispatcher_add_connection(s, f)
    BY <1>5 DEF dispatcher_register_server
  <2>2. UNCHANGED <<version, i>> /\ \A g \in Fd : owner[g] # s
    BY <1>5 DEF dispatcher_register_server
  <2>3. SocketsOK'
    BY <2>1, <2>2, SocketsSocket
  <2>4. owner' \in [Fd -> Conn \cup Service \cup {NoOne}]
    BY <2>3 DEF SocketsOK, KernelTypeOK
  <2>5. Shape'
    BY <1>0, <2>1, <2>2, <2>4, AddShape
  <2> QED BY <2>2, <2>3, <2>5
<1>6. CASE dispatcher_destroy
  <2>1. UNCHANGED <<version, i>>
    BY <1>6 DEF dispatcher_destroy
  <2>2. CASE count > 0
    <3>1. count - 1 \in Entries /\ dispatcher_remove_at(count - 1)
      BY <1>0, <1>6, <2>2 DEF Entries, dispatcher_destroy
    <3>2. Shape' /\ SocketsOK'
      BY <1>0, <2>1, <3>1, SocketsRemove, RemoveShape
    <3> QED BY <2>1, <3>2
  <2>3. CASE ~(count > 0)
    <3>1. UNCHANGED <<owner, queue, wire, avail, list, connections, count, max>>
      BY <1>6, <2>3 DEF dispatcher_destroy, kernel, table
    <3> QED BY <1>0, <2>1, <3>1, KeepShape, SocketsData DEF SocketsOK, KernelTypeOK
  <2> QED BY <2>2, <2>3
<1>7. CASE HangUp \/ EchoCloses
  <2>1. i \in Entries /\ dispatcher_remove_at(i) /\ UNCHANGED <<version, i>>
    BY <1>1, <1>7 DEF HangUp, EchoCloses, RemoveCurrent
  <2> QED BY <1>0, <2>1, SocketsRemove, RemoveShape
<1>8. CASE ListenReadable
  <2>1. AcceptOne /\ version' = version /\ i' \in Nat /\ i \in Entries
    BY <1>0, <1>1, <1>8 DEF ListenReadable, Advance
  <2>2. CASE /\ Socket(i) \in Service
             /\ \E c \in Conn, f \in Fd :
                  accept(Socket(i), c, f) /\ dispatcher_add_connection(c, Given(f))
    <3>1. PICK c \in Conn, f \in Fd :
            accept(Socket(i), c, f) /\ dispatcher_add_connection(c, Given(f))
      BY <2>2
    <3>2. SocketsOK'
      BY <2>2, <3>1, SocketsAccept
    <3>3. Given(f) \in Fd
      BY <2>1, EntryFd DEF Given
    <3>4. owner' \in [Fd -> Conn \cup Service \cup {NoOne}]
      BY <3>2 DEF SocketsOK, KernelTypeOK
    <3>5. Shape'
      BY <2>1, <3>1, <3>3, <3>4, AddShape
    <3> QED BY <2>1, <3>2, <3>5
  <2>3. CASE Socket(i) \in Service /\ accept_fails(Socket(i)) /\ UNCHANGED table
    <3>1. UNCHANGED <<owner, list, connections, count, max>>
      BY <2>3 DEF accept_fails, kernel, table
    <3>2. Shape'
      BY <1>0, <2>1, <3>1, KeepShape
    <3> QED BY <2>1, <2>3, <3>2, SocketsAcceptFails
  <2>4. CASE UNCHANGED kernel /\ UNCHANGED table
    <3>1. UNCHANGED <<owner, queue, wire, avail, list, connections, count, max>>
      BY <2>4 DEF kernel, table
    <3> QED BY <1>0, <2>1, <3>1, KeepShape, SocketsData DEF SocketsOK, KernelTypeOK
  <2> QED BY <2>1, <2>2, <2>3, <2>4, AcceptCases
<1>9. CASE EchoReadable \/ EchoWriteable
  <2>1. i \in Entries /\ UNCHANGED <<version, owner, queue, wire>> /\ i' \in Nat
    BY <1>0, <1>1, <1>9 DEF EchoReadable, EchoWriteable, Send, Advance, recv_data, kernel
  <2>2. PICK event \in {"in", "out"} : dispatcher_set_event(i, event)
    BY <1>9 DEF EchoReadable, EchoWriteable, Send
  <2>3. Shape'
    BY <2>1, <2>2, SetEventShape, KeepShape DEF dispatcher_set_event
  <2>4. avail' \in [Conn -> Nat]
    BY <1>9 DEF EchoReadable, EchoWriteable, recv_data, kernel, SocketsOK, KernelTypeOK
  <2>5. SocketsOK'
    BY <2>1, <2>4, SocketsData DEF SocketsOK, KernelTypeOK
  <2> QED BY <2>1, <2>3, <2>5
<1> QED BY <1>2, <1>3, <1>4, <1>5, <1>6, <1>7, <1>8, <1>9 DEF PollNext, Loop

LEMMA ShapeInvariant == PollSpec => [](Shape /\ SocketsOK)
<1>1. PollInit => Shape /\ SocketsOK
  BY InitShape, InitSockets DEF PollInit
<1>2. Shape /\ SocketsOK /\ [PollNext]_polls => Shape' /\ SocketsOK'
  BY NextShape
<1> QED BY <1>1, <1>2, PTL DEF PollSpec

\* (dispatcher.c:263, 285-290)  The place of the entry that is added next always exists, for
\* any number of entries and also when entries share a descriptor or a structure.
THEOREM PlaceForNext == PollSpec => []RoomForNext
BY ShapeInvariant, PTL DEF Shape

\* (dispatcher.c:124-139, builtin-echo.c:139-154)  A socket has at most one descriptor, and a
\* connection that has been accepted waits on no queue, whichever descriptors are listed and closed.
THEOREM SocketsStayApart == PollSpec => []SocketsOK
BY ShapeInvariant, PTL

-----------------------------------------------------------------------------
(***************************************************************************)
(* The lists and the sockets agree, in all versions but "stored": every    *)
(* entry is that of an open descriptor, none is in the list twice, every   *)
(* structure is that of the entry's own socket ("described"), and none is  *)
(* open that is not in the list, but descriptor 0 when all is over.        *)
(***************************************************************************)
Over == {"destroy", "end", "crashed"}

ListsAgree ==
  /\ \A k \in Entries : Socket(k) # NoOne
  /\ \A j, k \in Entries : list[j].fd = list[k].fd => j = k
  /\ version = "described" => \A k \in Entries : connections[k] = Socket(k)
  /\ \A f \in Fd : owner[f] # NoOne =>
       \/ \E k \in Entries : list[k].fd = f
       \/ f = 0 /\ pc \in Over

(***************************************************************************)
(* As long as the table is in use, descriptor 0 belongs to a listening     *)
(* socket, if there is any socket at all: it was the lowest free one when  *)
(* the first of them was added.  So fd > 0 holds of every connection.      *)
(***************************************************************************)
ZeroOK ==
  pc \notin Over /\ 0 \in Fd =>
    \/ owner[0] \in Service
    \/ \A f \in Fd : owner[f] = NoOne

\* Nothing is reported of a listening socket but that it is readable.
OfConn == {"hup", "out", "other"}

ReportsOK ==
  \A k \in Entries : list[k].revents \in OfConn => Socket(k) \notin Service

Agrees == ListsAgree /\ ZeroOK /\ ReportsOK

TableInv == Shape /\ SocketsOK /\ version # "stored" /\ Agrees

LEMMA InitTable == PollInit /\ version # "stored" => TableInv
<1> SUFFICES ASSUME PollInit, version # "stored" PROVE TableInv
  OBVIOUS
<1>1. Entries = {} /\ owner = [f \in Fd |-> NoOne]
  BY DEF PollInit, KernelInit, Entries
<1>2. ListsAgree /\ ZeroOK /\ ReportsOK
  BY <1>1 DEF ListsAgree, ZeroOK, ReportsOK
<1> QED BY <1>2, InitShape, InitSockets DEF TableInv, Agrees, PollInit

\* A socket is in one place of the table.
LEMMA SocketOnce ==
  ASSUME TableInv, NEW j \in Entries, NEW k \in Entries, Socket(j) = Socket(k)
  PROVE  j = k
<1>1. list[j].fd \in Fd /\ list[k].fd \in Fd
  BY EntryFd DEF TableInv
<1>2. owner[list[j].fd] = owner[list[k].fd] /\ owner[list[j].fd] # NoOne
  BY DEF TableInv, Agrees, ListsAgree, Socket
<1>3. list[j].fd = list[k].fd
  BY <1>1, <1>2 DEF TableInv, SocketsOK
<1> QED BY <1>3 DEF TableInv, Agrees, ListsAgree

\* Steps that leave the table and the owners of the descriptors alone.
LEMMA KeepStep ==
  ASSUME TableInv, UNCHANGED <<owner, version, list, connections, count>>,
         pc \in Over => pc' \in Over
  PROVE  Agrees'
BY DEF TableInv, Agrees, ListsAgree, ZeroOK, ReportsOK, Entries, Socket

\* A socket is added at the end, on the lowest free descriptor.
LEMMA AddStep ==
  ASSUME TableInv, NEW x \in Conn \cup Service, NEW f \in Fd,
         NextFd(f), owner' = [owner EXCEPT ![f] = x],
         dispatcher_add_connection(x, f),
         x \in Service \/ \E k \in Entries : Socket(k) \in Service,
         version' = version, pc \notin Over
  PROVE  Agrees'
<1> USE DEF TableInv, Agrees
<1>0. PICK n \in Nat : count = n
  BY DEF Shape, TableTypeOK
<1>1. /\ owner \in [Fd -> Conn \cup Service \cup {NoOne}] /\ owner[f] = NoOne
      /\ count \in Nat /\ max \in Nat /\ count < max
      /\ list \in [0 .. count - 1 -> Entry] /\ DOMAIN connections = 0 .. max - 1
  BY DEF Shape, TableTypeOK, Entries, RoomForNext, NextFd
<1>2. /\ count' = count + 1
      /\ list' = [k \in 0 .. count |->
           IF k = count THEN [fd |-> f, events |-> "in", revents |-> "none"] ELSE list[k]]
      /\ max' = IF Full THEN max + 1 ELSE max
  BY DEF dispatcher_add_connection
<1>3. Entries' = 0 .. count /\ \A k \in 0 .. count : k = count \/ k \in 0 .. count - 1
  BY <1>1, <1>2 DEF Entries
<1>7. /\ list'[n].fd = f /\ list'[n].revents = "none" /\ Socket(n)' = x
      /\ \A k \in 0 .. count - 1 :
           list'[k] = list[k] /\ list[k].fd # f /\ Socket(k)' = Socket(k) /\ Socket(k) # NoOne
  <2>1. list'[n] = [fd |-> f, events |-> "in", revents |-> "none"]
    BY <1>0, <1>1, <1>2
  <2>2. Socket(n)' = x
    BY <1>1, <2>1 DEF Socket
  <2>3. ASSUME NEW k \in 0 .. count - 1
        PROVE  list'[k] = list[k] /\ list[k].fd # f /\ Socket(k)' = Socket(k) /\ Socket(k) # NoOne
    <3>1. list'[k] = list[k] /\ list[k].fd \in Fd
      BY <1>1, <1>2 DEF Entry
    <3>2. owner[list[k].fd] # NoOne /\ Socket(k) # NoOne
      BY DEF ListsAgree, Entries, Socket
    <3> QED BY <1>1, <3>1, <3>2 DEF Socket
  <2> QED BY <2>1, <2>2, <2>3
<1>8. \A k \in Entries' : Socket(k)' # NoOne
  BY <1>0, <1>3, <1>7
<1>9. \A j, k \in Entries' : list'[j].fd = list'[k].fd => j = k
  <2>1. \A j, k \in 0 .. count - 1 : list[j].fd = list[k].fd => j = k
    BY DEF ListsAgree, Entries
  <2> QED BY <1>0, <1>3, <1>7, <2>1
<1>10. version' = "described" => \A k \in Entries' : connections'[k] = Socket(k)'
  <2>1. SUFFICES ASSUME version = "described", NEW k \in Entries'
                 PROVE  connections'[k] = Socket(k)'
    OBVIOUS
  <2>2. connections' = [j \in 0 .. IF Full THEN max ELSE max - 1 |->
          IF j = max THEN NewPlace ELSE [connections EXCEPT ![count] = x][j]]
    BY <2>1 DEF dispatcher_add_connection, Filled
  <2>3. k \in 0 .. (IF Full THEN max ELSE max - 1) /\ k # max /\ k \in DOMAIN connections
    BY <1>1, <1>3
  <2>4. connections'[k] = [connections EXCEPT ![count] = x][k]
    BY <2>2, <2>3
  <2>5. CASE k = count
    BY <1>0, <1>7, <2>3, <2>4, <2>5
  <2>6. CASE k \in 0 .. count - 1
    <3>1. connections[k] = Socket(k)
      BY <2>1, <2>6 DEF ListsAgree, Entries
    <3>2. k # count
      BY <1>1, <2>6
    <3> QED BY <1>7, <2>3, <2>4, <2>6, <3>1, <3>2
  <2> QED BY <1>3, <2>5, <2>6
<1>11. \A g \in Fd : owner'[g] # NoOne => \E k \in Entries' : list'[k].fd = g
  <2>1. SUFFICES ASSUME NEW g \in Fd, owner'[g] # NoOne
                 PROVE  \E k \in Entries' : list'[k].fd = g
    OBVIOUS
  <2>2. CASE g = f
    BY <1>0, <1>1, <1>3, <1>7, <2>2
  <2>3. CASE g # f
    <3>1. owner[g] # NoOne
      BY <1>1, <2>1, <2>3
    <3>2. PICK k \in 0 .. count - 1 : list[k].fd = g
      BY <3>1 DEF ListsAgree, Entries
    <3> QED BY <1>0, <1>1, <1>3, <1>7, <3>2
  <2> QED BY <2>2, <2>3
<1>12. ListsAgree'
  BY <1>8, <1>9, <1>10, <1>11 DEF ListsAgree
<1>13. ZeroOK'
  <2>1. SUFFICES ASSUME 0 \in Fd PROVE owner'[0] \in Service
    BY DEF ZeroOK
  <2>2. CASE owner[0] \in Service
    BY <1>1, <2>1, <2>2
  <2>3. CASE \A g \in Fd : owner[g] = NoOne
    <3>1. x \in Service
      BY <1>1, <2>3 DEF Entry, Entries, Socket
    <3>2. f = 0
      <4>1. f <= 0 /\ f \in Nat
        BY <2>1, <2>3 DEF NextFd
      <4> QED BY <4>1
    <3> QED BY <1>1, <3>1, <3>2
  <2> QED BY <2>1, <2>2, <2>3 DEF ZeroOK
<1>14. ReportsOK'
  <2>1. \A k \in 0 .. count - 1 : list[k].revents \in OfConn => Socket(k) \notin Service
    BY DEF ReportsOK, Entries
  <2> QED BY <1>0, <1>3, <1>7, <2>1 DEF ReportsOK, OfConn
<1> QED BY <1>12, <1>13, <1>14

(***************************************************************************)
(* An entry is removed: a connection's while the table is in use, any one  *)
(* when the dispatcher is deleted.                                         *)
(***************************************************************************)
LEMMA RemoveStep ==
  ASSUME TableInv, NEW k \in Entries, dispatcher_remove_at(k), version' = version,
         pc' \in {pc, "crashed"}, pc = "destroy" \/ Socket(k) \notin Service
  PROVE  Agrees'
<1> USE DEF TableInv, Agrees
<1>1. /\ owner \in [Fd -> Conn \cup Service \cup {NoOne}]
      /\ count \in Nat /\ max \in Nat /\ count < max /\ k \in 0 .. count - 1
      /\ list \in [0 .. count - 1 -> Entry] /\ DOMAIN connections = 0 .. max - 1
  BY DEF Shape, TableTypeOK, Entries, RoomForNext
<1>2. /\ list' = [j \in 0 .. count - 2 |-> IF j = k THEN list[count - 1] ELSE list[j]]
      /\ connections' = Moved(k, Freed(k)) /\ count' = count - 1
  BY DEF dispatcher_remove_at
<1>3. list[k].fd \in Fd
  BY EntryFd
<1>4. /\ \A g \in Fd : g # list[k].fd => owner'[g] = owner[g]
      /\ owner'[list[k].fd] # NoOne => list[k].fd = 0
  BY RemoveOwner
\* The entry of the old table that an entry of the new one comes from.
<1> DEFINE From(j) == IF j = k THEN count - 1 ELSE j
<1>5. ASSUME NEW j \in 0 .. count - 2
      PROVE  /\ From(j) \in 0 .. count - 1 /\ From(j) # k
             /\ list'[j] = list[From(j)]
  BY <1>1, <1>2
<1>6. Entries' = 0 .. count - 2
  BY <1>1, <1>2 DEF Entries
<1>9. \A m, j \in 0 .. count - 1 : list[m].fd = list[j].fd => m = j
  BY DEF ListsAgree, Entries
<1>10. ASSUME NEW j \in 0 .. count - 2
       PROVE  Socket(j)' = Socket(From(j)) /\ Socket(From(j)) # NoOne
  <2> DEFINE m == From(j)
  <2> HIDE DEF From, m
  <2>1. m \in 0 .. count - 1 /\ m # k /\ list'[j] = list[m]
    BY <1>5 DEF m
  <2>2. list[m].fd \in Fd /\ list[m].fd # list[k].fd
    BY <1>1, <1>9, <2>1 DEF Entry
  <2>3. Socket(m) # NoOne
    BY <2>1 DEF ListsAgree, Entries
  <2>4. Socket(j)' = Socket(m)
    BY <1>4, <2>1, <2>2 DEF Socket
  <2> QED BY <2>3, <2>4 DEF m
<1>11. \A j \in Entries' : Socket(j)' # NoOne
  BY <1>6, <1>10
<1>12. \A m, j \in Entries' : list'[m].fd = list'[j].fd => m = j
  <2>1. SUFFICES ASSUME NEW m \in 0 .. count - 2, NEW j \in 0 .. count - 2,
                        list'[m].fd = list'[j].fd
                 PROVE  m = j
    BY <1>6
  <2>2. From(m) = From(j)
    <3> HIDE DEF From
    <3> QED BY <1>5, <1>9, <2>1
  <2> QED BY <1>1, <2>2
<1>13. version' = "described" => \A j \in Entries' : connections'[j] = Socket(j)'
  <2>1. SUFFICES ASSUME version = "described", NEW j \in 0 .. count - 2
                 PROVE  connections'[j] = Socket(j)'
    BY <1>6
  \* The structure that is freed is no other entry's.
  <2>2. ASSUME NEW m \in 0 .. count - 1, m # k
        PROVE  Freed(k)[m] = Socket(m)
    <3>1. m \in Entries /\ connections[m] = Socket(m) /\ connections[k] = Socket(k)
      BY <1>1, <2>1 DEF ListsAgree, Entries
    <3>2. connections[m] # connections[k] /\ m \in DOMAIN connections
      BY <1>1, <2>2, <3>1, SocketOnce
    <3> QED BY <3>1, <3>2 DEF Freed
  <2>3. connections'[j] = Freed(k)[From(j)]
    <3>1. j \in DOMAIN Freed(k) /\ k \in DOMAIN Freed(k)
      BY <1>1 DEF Freed
    <3>2. CASE count - 1 > k
      <4>1. connections' = [Freed(k) EXCEPT ![k] = Freed(k)[count - 1]]
        BY <1>2, <3>2 DEF Moved
      <4> QED BY <3>1, <4>1
    <3>3. CASE ~(count - 1 > k)
      <4>1. connections' = Freed(k) /\ j # k
        BY <1>1, <1>2, <3>3 DEF Moved
      <4> QED BY <4>1
    <3> QED BY <3>2, <3>3
  <2>4. Freed(k)[From(j)] = Socket(From(j))
    <3> HIDE DEF From
    <3> QED BY <1>5, <2>2
  <2> QED BY <1>10, <2>3, <2>4
<1>14. \A g \in Fd : owner'[g] # NoOne =>
         \/ \E j \in Entries' : list'[j].fd = g
         \/ g = 0 /\ pc' \in Over
  <2>1. SUFFICES ASSUME NEW g \in Fd, owner'[g] # NoOne
                 PROVE  \/ \E j \in Entries' : list'[j].fd = g
                        \/ g = 0 /\ pc \in Over
    BY DEF Over
  <2>2. CASE g = list[k].fd
    <3>1. g = 0
      BY <1>4, <2>1, <2>2
    <3>2. pc \in Over
      <4>1. SUFFICES ASSUME Socket(k) \notin Service, pc \notin Over PROVE FALSE
        BY DEF Over
      <4>2. owner[0] = Socket(k) /\ owner[0] # NoOne
        BY <2>2, <3>1 DEF Socket, ListsAgree
      <4> QED BY <2>1, <3>1, <4>1, <4>2 DEF ZeroOK
    <3> QED BY <3>1, <3>2
  <2>3. CASE g # list[k].fd
    <3>1. owner[g] # NoOne
      BY <1>4, <2>1, <2>3
    <3>2. CASE g = 0 /\ pc \in Over
      BY <3>2
    <3>3. CASE \E m \in 0 .. count - 1 : list[m].fd = g
      <4>1. PICK m \in 0 .. count - 1 : list[m].fd = g
        BY <3>3
      <4>2. m # k
        BY <2>3, <4>1
      <4>3. CASE m = count - 1
        <5>1. k \in 0 .. count - 2 /\ list'[k] = list[m]
          BY <1>1, <1>2, <4>2, <4>3
        <5> QED BY <1>6, <4>1, <5>1
      <4>4. CASE m # count - 1
        <5>1. m \in 0 .. count - 2 /\ list'[m] = list[m]
          BY <1>1, <1>2, <4>2, <4>4
        <5> QED BY <1>6, <4>1, <5>1
      <4> QED BY <4>3, <4>4
    <3> QED BY <3>1, <3>2, <3>3 DEF ListsAgree, Entries
  <2> QED BY <2>2, <2>3
<1>15. ListsAgree'
  BY <1>11, <1>12, <1>13, <1>14 DEF ListsAgree
<1>16. ZeroOK'
  <2>1. SUFFICES ASSUME pc \notin Over, 0 \in Fd
                 PROVE  owner'[0] \in Service
    BY DEF ZeroOK, Over
  <2>2. Socket(k) # NoOne /\ Socket(k) \notin Service
    BY <2>1 DEF ListsAgree, Over
  <2>3. owner[0] \in Service
    BY <1>3, <2>1, <2>2 DEF ZeroOK, Socket
  <2> QED BY <1>4, <2>1, <2>2, <2>3 DEF Socket
<1>17. ReportsOK'
  <2>1. \A j \in 0 .. count - 1 : list[j].revents \in OfConn => Socket(j) \notin Service
    BY DEF ReportsOK, Entries
  <2>2. SUFFICES ASSUME NEW j \in 0 .. count - 2, list'[j].revents \in OfConn
                 PROVE  Socket(j)' \notin Service
    BY <1>6 DEF ReportsOK
  <2> HIDE DEF From
  <2> QED BY <1>5, <1>10, <2>1, <2>2
<1> QED BY <1>15, <1>16, <1>17

\* Only what is waited for or reported changes.
LEMMA FieldsStep ==
  ASSUME TableInv, UNCHANGED <<owner, version, connections, count>>,
         \A k \in Entries : list'[k].fd = list[k].fd,
         \A k \in Entries : list'[k].revents \in OfConn => Socket(k) \notin Service,
         pc \notin Over
  PROVE  Agrees'
<1> USE DEF TableInv, Agrees
<1>1. Entries' = Entries
  BY DEF Entries
<1>2. \A k \in Entries : Socket(k)' = Socket(k)
  BY DEF Socket
<1>3. ListsAgree'
  <2>1. \A g \in Fd : owner'[g] # NoOne => \E k \in Entries' : list'[k].fd = g
    BY <1>1 DEF ListsAgree
  <2> QED BY <1>1, <1>2, <2>1 DEF ListsAgree
<1>4. ZeroOK'
  BY DEF ZeroOK
<1>5. ReportsOK'
  BY <1>1, <1>2 DEF ReportsOK
<1> QED BY <1>3, <1>4, <1>5

LEMMA SetEventStep ==
  ASSUME TableInv, NEW k \in Entries, NEW event \in {"in", "out"}, pc \notin Over,
         dispatcher_set_event(k, event), UNCHANGED <<owner, version>>
  PROVE  Agrees'
<1>1. Shape /\ list[k] \in Entry
  BY EntryFd DEF TableInv
<1>2. /\ list'[k] = [list[k] EXCEPT !.events = event, !.revents = "none"]
      /\ \A j \in Entries : list'[j].fd = list[j].fd /\ (j # k => list'[j] = list[j])
  BY <1>1, SetEventShape
<1>3. list'[k].revents = "none"
  BY <1>1, <1>2 DEF Entry
<1>4. \A j \in Entries : list'[j].revents \in OfConn => Socket(j) \notin Service
  BY <1>2, <1>3 DEF TableInv, Agrees, ReportsOK, OfConn
<1> QED BY <1>2, <1>4, FieldsStep DEF dispatcher_set_event

LEMMA PollStep == ASSUME TableInv, Poll PROVE Agrees'
<1>1. PICK r \in [Entries -> {"none", "hup", "in", "out", "other"}] :
        /\ \A k \in Entries : r[k] \in Reports(k)
        /\ \A k \in Entries : list'[k].fd = list[k].fd /\ list'[k].revents = r[k]
  BY PollShape DEF TableInv
<1>2. \A k \in Entries : Socket(k) \in Service => r[k] \in {"in", "none"}
  BY <1>1 DEF Reports
<1>3. \A k \in Entries : list'[k].revents \in OfConn => Socket(k) \notin Service
  BY <1>1, <1>2 DEF OfConn
<1>4. UNCHANGED <<owner, version, connections, count>> /\ pc \notin Over
  BY DEF Poll, kernel, Over
<1> QED BY <1>1, <1>3, <1>4, FieldsStep

\* The handler that is called is that of the entry's own socket.
LEMMA CalledByOwner ==
  ASSUME TableInv, NEW S, Calls(S), i \in Entries
  PROVE  version = "described" /\ Socket(i) \in S
BY DEF TableInv, Shape, TableTypeOK, Agrees, ListsAgree, Calls

\* What builtin_echo_listen() does to the table.
LEMMA AcceptedCases ==
  ASSUME TableInv, i \in Entries, Calls(Service), AcceptOne
  PROVE  \/ \E c \in Conn, f \in Fd : accept(Socket(i), c, f) /\ dispatcher_add_connection(c, f)
         \/ UNCHANGED <<owner, list, connections, count>>
<1>1. version # "stored" /\ \A f \in Fd : Given(f) = f
  BY DEF TableInv, Given
<1>2. CASE \E c \in Conn, f \in Fd :
             accept(Socket(i), c, f) /\ dispatcher_add_connection(c, Given(f))
  BY <1>1, <1>2
<1>3. CASE (accept_fails(Socket(i)) \/ UNCHANGED kernel) /\ UNCHANGED table
  BY <1>3 DEF accept_fails, kernel, table
<1> QED BY <1>2, <1>3, AcceptCases

LEMMA LoopStep == ASSUME TableInv, Loop PROVE Agrees'
<1>1. i \in Nat /\ count \in Nat
  BY DEF TableInv, Shape, TableTypeOK
<1>2. ASSUME NEW event, At(event)
      PROVE  i \in Entries /\ list[i].revents = event /\ pc = "loop" /\ pc \notin Over
  BY <1>1, <1>2 DEF At, Entries, Over
<1>3. CASE NoEvent \/ CallIsUndefined \/ LoopDone
  <2>1. UNCHANGED <<owner, version, list, connections, count>> /\ pc \notin Over
    BY <1>2, <1>3 DEF NoEvent, CallIsUndefined, AnEvent, LoopDone, kernel, table, Over
  <2> QED BY <2>1, KeepStep
<1>4. CASE HangUp \/ EchoCloses
  <2>1. /\ i \in Entries /\ Calls(Conn)
        /\ dispatcher_remove_at(i) /\ UNCHANGED <<version, pc>>
    BY <1>2, <1>4 DEF HangUp, EchoCloses, RemoveCurrent
  <2>2. Socket(i) \notin Service
    BY <2>1, CalledByOwner
  <2> QED BY <2>1, <2>2, RemoveStep
<1>5. CASE ListenReadable
  <2>1. i \in Entries /\ pc \notin Over /\ Calls(Service) /\ AcceptOne /\ version' = version
    BY <1>2, <1>5 DEF ListenReadable
  <2>2. Socket(i) \in Service
    BY <2>1, CalledByOwner
  <2>3. CASE \E c \in Conn, f \in Fd : accept(Socket(i), c, f) /\ dispatcher_add_connection(c, f)
    <3>1. PICK c \in Conn, f \in Fd : accept(Socket(i), c, f) /\ dispatcher_add_connection(c, f)
      BY <2>3
    <3>2. NextFd(f) /\ owner' = [owner EXCEPT ![f] = c]
      BY <3>1 DEF accept
    <3> QED BY <2>1, <2>2, <3>1, <3>2, AddStep
  <2>4. CASE UNCHANGED <<owner, list, connections, count>>
    BY <2>1, <2>4, KeepStep
  <2> QED BY <2>1, <2>3, <2>4, AcceptedCases
<1>6. CASE EchoReadable \/ EchoWriteable
  <2>1. i \in Entries /\ pc \notin Over
    BY <1>2, <1>6 DEF EchoReadable, EchoWriteable
  <2>2. UNCHANGED <<owner, version>>
    BY <1>6 DEF EchoReadable, EchoWriteable, recv_data, kernel
  <2>3. PICK event \in {"in", "out"} : dispatcher_set_event(i, event)
    BY <1>6 DEF EchoReadable, EchoWriteable, Send
  <2> QED BY <2>1, <2>2, <2>3, SetEventStep
<1> QED BY <1>3, <1>4, <1>5, <1>6 DEF Loop

LEMMA NextTable == TableInv /\ [PollNext]_polls => TableInv'
<1> SUFFICES ASSUME TableInv, [PollNext]_polls PROVE TableInv'
  OBVIOUS
<1>1. Shape' /\ SocketsOK' /\ version' = version /\ version # "stored"
  BY NextShape DEF TableInv
<1>0. SUFFICES Agrees'
  BY <1>1 DEF TableInv
<1>2. CASE UNCHANGED polls
  BY <1>2, KeepStep DEF polls, kernel, table
<1>3. ASSUME NEW s \in Service, dispatcher_register_server(s) PROVE Agrees'
  <2>1. PICK f \in Fd : socket(s, f) /\ dispatcher_add_connection(s, f)
    BY <1>3 DEF dispatcher_register_server
  <2>2. NextFd(f) /\ owner' = [owner EXCEPT ![f] = s]
    BY <2>1 DEF socket
  <2>3. pc \notin Over
    BY <1>3 DEF dispatcher_register_server, Over
  <2> QED BY <1>1, <2>1, <2>2, <2>3, AddStep
<1>4. CASE StartDispatching \/ PollFails \/ PeersAct
  <2>1. UNCHANGED <<owner, version, list, connections, count>>
    BY <1>4 DEF StartDispatching, PollFails, PeersAct, Peers, Connect, SendData, Finish, Reset,
                kernel, table
  <2>2. pc \in Over => pc' \in Over
    BY <1>4 DEF StartDispatching, PollFails, PeersAct, Over
  <2> QED BY <2>1, <2>2, KeepStep
<1>5. CASE dispatcher_destroy
  <2>1. CASE count > 0
    <3>1. count - 1 \in Entries
      BY <2>1 DEF TableInv, Shape, TableTypeOK, Entries
    <3>2. dispatcher_remove_at(count - 1) /\ pc' \in {pc, "crashed"} /\ pc = "destroy"
      BY <1>5, <2>1 DEF dispatcher_destroy
    <3> QED BY <1>1, <3>1, <3>2, RemoveStep
  <2>2. CASE ~(count > 0)
    <3>1. UNCHANGED <<owner, version, list, connections, count>> /\ pc' \in Over
      BY <1>5, <2>2 DEF dispatcher_destroy, kernel, table, Over
    <3> QED BY <3>1, KeepStep
  <2> QED BY <2>1, <2>2
<1> QED BY <1>2, <1>3, <1>4, <1>5, PollStep, LoopStep DEF PollNext

-----------------------------------------------------------------------------
(***************************************************************************)
(* EveryEventIsHandled: an event is handled by the name of its socket, so  *)
(* it has to be known that no socket is in the table twice.  The table     *)
(* says so of descriptors (ListsAgree), the sockets say that one           *)
(* descriptor is all that a socket has (SocketsOK).                        *)
(***************************************************************************)
EventsInv ==
  /\ TableInv
  /\ EveryEventIsHandled
  /\ pc = "setup" => unhandled = {}

\* What is still to be handled.
Ahead == {Socket(k) : k \in {j \in Entries : j >= i /\ list[j].revents # "none"}}

(***************************************************************************)
(* A step of the loop handles entry i and nothing else when what is ahead  *)
(* of it afterwards is what was ahead of it before, without entry i.       *)
(***************************************************************************)
LEMMA HandledOnce ==
  ASSUME TableInv, i \in Entries,
         \A k \in Entries' : k >= i' /\ list'[k].revents # "none" =>
            \E j \in Entries : /\ j >= i /\ j # i /\ list[j].revents # "none"
                               /\ Socket(k)' = Socket(j),
         \A j \in Entries : j >= i /\ j # i /\ list[j].revents # "none" =>
            \E k \in Entries' : /\ k >= i' /\ list'[k].revents # "none"
                                /\ Socket(k)' = Socket(j)
  PROVE  Ahead' = Ahead \ {Socket(i)}
<1>1. ASSUME NEW x \in Ahead' PROVE x \in Ahead /\ x # Socket(i)
  <2>1. PICK k \in Entries' : k >= i' /\ list'[k].revents # "none" /\ x = Socket(k)'
    BY DEF Ahead
  <2>2. PICK j \in Entries : j >= i /\ j # i /\ list[j].revents # "none" /\ x = Socket(j)
    BY <2>1
  <2>3. Socket(j) # Socket(i)
    BY <2>2, SocketOnce
  <2> QED BY <2>2, <2>3 DEF Ahead
<1>2. ASSUME NEW x \in Ahead, x # Socket(i) PROVE x \in Ahead'
  <2>1. PICK j \in Entries : j >= i /\ list[j].revents # "none" /\ x = Socket(j)
    BY DEF Ahead
  <2>2. PICK k \in Entries' : k >= i' /\ list'[k].revents # "none" /\ Socket(k)' = Socket(j)
    BY <1>2, <2>1
  <2> QED BY <2>1, <2>2 DEF Ahead
<1> QED BY <1>1, <1>2

\* Entry i is removed; the last one takes its place and is ahead of it there.
LEMMA RemoveHandles ==
  ASSUME TableInv, i \in Entries, dispatcher_remove_at(i), i' = i
  PROVE  Ahead' = Ahead \ {Socket(i)}
<1>1. /\ owner \in [Fd -> Conn \cup Service \cup {NoOne}]
      /\ count \in Nat /\ i \in Nat /\ i \in 0 .. count - 1 /\ Entries = 0 .. count - 1
      /\ list \in [0 .. count - 1 -> Entry]
  BY DEF TableInv, Shape, TableTypeOK, Entries
<1>2. /\ list' = [j \in 0 .. count - 2 |-> IF j = i THEN list[count - 1] ELSE list[j]]
      /\ count' = count - 1
  BY DEF dispatcher_remove_at
<1>3. Entries' = 0 .. count - 2
  BY <1>1, <1>2 DEF Entries
<1>4. \A g \in Fd : g # list[i].fd => owner'[g] = owner[g]
  BY RemoveOwner DEF TableInv
\* An entry that is not removed keeps its socket where it is afterwards.
<1>5. ASSUME NEW j \in 0 .. count - 1, j # i, NEW k \in 0 .. count - 2, list'[k] = list[j]
      PROVE  Socket(k)' = Socket(j)
  <2>1. list[j].fd \in Fd /\ list[j].fd # list[i].fd
    BY <1>1, <1>5 DEF TableInv, Agrees, ListsAgree, Entries, Entry
  <2> QED BY <1>4, <1>5, <2>1 DEF Socket
<1>6. ASSUME NEW k \in 0 .. count - 2, k >= i, list'[k].revents # "none"
      PROVE  \E j \in 0 .. count - 1 : /\ j >= i /\ j # i /\ list[j].revents # "none"
                                       /\ Socket(k)' = Socket(j)
  <2>1. CASE k = i
    <3>1. list'[k] = list[count - 1] /\ count - 1 \in 0 .. count - 1 /\ count - 1 > i
      BY <1>1, <1>2, <2>1
    <3> DEFINE j == count - 1
    <3>2. j >= i /\ j # i /\ list[j].revents # "none" /\ Socket(k)' = Socket(j)
      <4> HIDE DEF j
      <4> QED BY <1>1, <1>5, <1>6, <3>1 DEF j
    <3> QED BY <3>1, <3>2
  <2>2. CASE k # i
    <3>1. list'[k] = list[k] /\ k \in 0 .. count - 1
      BY <1>1, <1>2, <2>2
    <3> QED BY <1>5, <1>6, <2>2, <3>1
  <2> QED BY <2>1, <2>2
<1>7. ASSUME NEW j \in 0 .. count - 1, j >= i, j # i, list[j].revents # "none"
      PROVE  \E k \in 0 .. count - 2 : /\ k >= i /\ list'[k].revents # "none"
                                       /\ Socket(k)' = Socket(j)
  <2>1. CASE j = count - 1
    <3>1. list'[i] = list[j] /\ i \in 0 .. count - 2 /\ i >= i
      BY <1>1, <1>2, <1>7, <2>1
    <3> QED BY <1>5, <1>7, <3>1
  <2>2. CASE j # count - 1
    <3>1. list'[j] = list[j] /\ j \in 0 .. count - 2
      BY <1>1, <1>2, <1>7, <2>2
    <3> QED BY <1>5, <1>7, <3>1
  <2> QED BY <2>1, <2>2
<1> QED BY <1>1, <1>3, <1>6, <1>7, HandledOnce

\* A connection is added, of which nothing has been reported yet.
LEMMA AcceptHandles ==
  ASSUME TableInv, i \in Entries, i' = i + 1,
         NEW c \in Conn, NEW f \in Fd, NextFd(f), owner' = [owner EXCEPT ![f] = c],
         dispatcher_add_connection(c, f)
  PROVE  Ahead' = Ahead \ {Socket(i)}
<1>1. /\ owner \in [Fd -> Conn \cup Service \cup {NoOne}] /\ owner[f] = NoOne
      /\ count \in Nat /\ i \in Nat /\ i \in 0 .. count - 1 /\ Entries = 0 .. count - 1
      /\ list \in [0 .. count - 1 -> Entry]
  BY DEF TableInv, Shape, TableTypeOK, Entries, NextFd
<1>2. /\ list' = [k \in 0 .. count |->
           IF k = count THEN [fd |-> f, events |-> "in", revents |-> "none"] ELSE list[k]]
      /\ count' = count + 1
  BY DEF dispatcher_add_connection
<1>3. Entries' = 0 .. count /\ \A k \in 0 .. count : k = count \/ k \in 0 .. count - 1
  BY <1>1, <1>2 DEF Entries
<1>4. \A k \in 0 .. count : k = count => list'[k].revents = "none"
  BY <1>2
<1>5. ASSUME NEW k \in 0 .. count - 1
      PROVE  k \in 0 .. count /\ list'[k] = list[k] /\ Socket(k)' = Socket(k)
  <2>1. k \in 0 .. count /\ list'[k] = list[k] /\ list[k].fd \in Fd
    BY <1>1, <1>2 DEF Entry
  <2>2. list[k].fd # f
    BY <1>1 DEF TableInv, Agrees, ListsAgree, Entries, Socket
  <2> QED BY <1>1, <2>1, <2>2 DEF Socket
<1>6. ASSUME NEW k \in 0 .. count, k >= i + 1, list'[k].revents # "none"
      PROVE  \E j \in 0 .. count - 1 : /\ j >= i /\ j # i /\ list[j].revents # "none"
                                       /\ Socket(k)' = Socket(j)
  <2>1. k \in 0 .. count - 1
    BY <1>3, <1>4, <1>6
  <2>2. k >= i /\ k # i
    BY <1>1, <1>6, <2>1
  <2> QED BY <1>5, <1>6, <2>1, <2>2
<1>7. ASSUME NEW j \in 0 .. count - 1, j >= i, j # i, list[j].revents # "none"
      PROVE  \E k \in 0 .. count : /\ k >= i + 1 /\ list'[k].revents # "none"
                                   /\ Socket(k)' = Socket(j)
  <2>1. j >= i + 1
    BY <1>1, <1>7
  <2> QED BY <1>5, <1>7, <2>1
<1> QED BY <1>1, <1>3, <1>6, <1>7, HandledOnce

\* The table keeps its entries, and the loop moves on: no event of theirs
\* changes but that of entry i.
LEMMA AdvanceHandles ==
  ASSUME TableInv, i \in Entries, i' = i + 1, UNCHANGED <<owner, count>>,
         \A k \in Entries : list'[k].fd = list[k].fd,
         \A k \in Entries : k # i => list'[k].revents = list[k].revents
  PROVE  Ahead' = Ahead \ {Socket(i)}
<1>1. i \in Nat /\ count \in Nat /\ Entries' = Entries /\ Entries \subseteq Int
  BY DEF TableInv, Shape, TableTypeOK, Entries
<1>2. \A k \in Entries : Socket(k)' = Socket(k)
  BY DEF Socket
<1>3. \A k \in Entries : k >= i + 1 <=> k >= i /\ k # i
  BY <1>1
<1> QED BY <1>1, <1>2, <1>3, HandledOnce

LEMMA SetEventHandles ==
  ASSUME TableInv, i \in Entries, i' = i + 1, UNCHANGED owner,
         NEW event \in {"in", "out"}, dispatcher_set_event(i, event)
  PROVE  Ahead' = Ahead \ {Socket(i)}
<1>1. \A k \in Entries : list'[k].fd = list[k].fd /\ (k # i => list'[k] = list[k])
  BY SetEventShape DEF TableInv
<1> QED BY <1>1, AdvanceHandles DEF dispatcher_set_event

LEMMA InitEvents == PollInit /\ version # "stored" => EventsInv
<1>1. PollInit => EveryEventIsHandled /\ unhandled = {}
  BY DEF PollInit, EveryEventIsHandled
<1> QED BY <1>1, InitTable DEF EventsInv

\* In the loop, what is still to be handled is exactly what is ahead.
LEMMA LoopEvents ==
  version # "stored" /\ pc = "loop" => (EveryEventIsHandled <=> unhandled = Ahead)
BY DEF EveryEventIsHandled, Ahead

LEMMA NextEvents == EventsInv /\ [PollNext]_polls => EventsInv'
<1> SUFFICES ASSUME EventsInv, [PollNext]_polls PROVE EventsInv'
  OBVIOUS
<1>1. TableInv /\ i \in Nat /\ count \in Nat /\ version # "stored"
  BY DEF EventsInv, TableInv, Shape, TableTypeOK
<1>2. TableInv' /\ version' # "stored"
  BY <1>1, NextTable DEF TableInv
<1> DEFINE Handling == EveryEventIsHandled /\ (pc = "setup" => unhandled = {})
<1>0. SUFFICES Handling'
  BY <1>2 DEF EventsInv
<1>3. ASSUME NEW event, At(event)
      PROVE  i \in Entries /\ pc = "loop" /\ unhandled = Ahead /\ list[i].revents = event
  BY <1>1, <1>3, LoopEvents DEF At, Entries, EventsInv
\* A step of the loop that handles entry i.
<1>4. ASSUME pc = "loop", pc' \in {pc, "crashed"}, unhandled = Ahead, Handled, Ahead' = Ahead \ {Socket(i)}
      PROVE  Handling'
  BY <1>4 DEF Handled, EveryEventIsHandled, Ahead
<1>5. CASE UNCHANGED polls \/ PeersAct
  <2>1. UNCHANGED <<owner, pc, i, list, count, unhandled>>
    BY <1>5 DEF polls, kernel, table, PeersAct, Peers, Connect, SendData, Finish, Reset
  <2> QED BY <1>1, <2>1 DEF EventsInv, EveryEventIsHandled, Entries, Socket
<1>6. ASSUME NEW s \in Service, dispatcher_register_server(s) PROVE Handling'
  <2>1. pc = "setup" /\ pc' \in {"setup", "crashed"} /\ UNCHANGED unhandled
    BY <1>6 DEF dispatcher_register_server
  <2> QED BY <2>1 DEF EventsInv, EveryEventIsHandled
<1>7. CASE StartDispatching
  BY <1>7 DEF StartDispatching, EventsInv, EveryEventIsHandled
<1>8. CASE PollFails \/ dispatcher_destroy \/ CallIsUndefined
  <2>1. pc' \in {"destroy", "end", "crashed"}
    BY <1>8 DEF PollFails, dispatcher_destroy, CallIsUndefined
  <2> QED BY <2>1 DEF EveryEventIsHandled
<1>9. CASE Poll
  <2>1. PICK r \in [Entries -> {"none", "hup", "in", "out", "other"}] :
          /\ \A k \in Entries : list'[k].fd = list[k].fd /\ list'[k].revents = r[k]
          /\ unhandled' = {Socket(k) : k \in {j \in Entries : r[j] # "none"}}
    BY <1>1, <1>9, PollShape DEF TableInv
  <2>2. pc' = "loop" /\ i' = 0 /\ UNCHANGED <<owner, count>>
    BY <1>9 DEF Poll, kernel
  <2>3. Entries' = Entries /\ \A k \in Entries : k >= i'
    BY <1>1, <2>2 DEF Entries
  <2>6. \A k \in Entries : Socket(k)' = Socket(k)
    BY <2>1, <2>2 DEF Socket
  <2>7. unhandled' = Ahead'
    BY <2>1, <2>3, <2>6 DEF Ahead
  <2> QED BY <2>2, <2>7 DEF EveryEventIsHandled, Ahead
<1>10. CASE NoEvent
  <2>1. /\ i \in Entries /\ pc = "loop" /\ pc' = pc /\ unhandled = Ahead /\ UNCHANGED unhandled
        /\ list[i].revents = "none" /\ i' = i + 1 /\ UNCHANGED <<owner, count, list>>
    BY <1>3, <1>10 DEF NoEvent, Advance, kernel, table
  <2>2. Ahead' = Ahead \ {Socket(i)}
    BY <1>1, <2>1, AdvanceHandles
  <2>3. Socket(i) \notin Ahead
    <3>1. SUFFICES ASSUME NEW k \in Entries, list[k].revents # "none", Socket(i) = Socket(k)
                   PROVE  FALSE
      BY DEF Ahead
    <3>2. k = i
      BY <1>1, <2>1, <3>1, SocketOnce
    <3> QED BY <2>1, <3>1, <3>2
  <2>4. unhandled' = Ahead'
    BY <2>1, <2>2, <2>3
  <2> QED BY <2>1, <2>4 DEF EveryEventIsHandled, Ahead
<1>11. CASE HangUp \/ EchoCloses
  <2>1. /\ i \in Entries /\ pc = "loop" /\ pc' = pc /\ unhandled = Ahead /\ Handled
        /\ dispatcher_remove_at(i) /\ i' = i
    BY <1>3, <1>11 DEF HangUp, EchoCloses, RemoveCurrent
  <2>2. Ahead' = Ahead \ {Socket(i)}
    BY <1>1, <2>1, RemoveHandles
  <2> QED BY <1>4, <2>1, <2>2
<1>12. CASE ListenReadable
  <2>1. /\ i \in Entries /\ pc = "loop" /\ unhandled = Ahead /\ Handled
        /\ i' = i + 1 /\ Calls(Service) /\ AcceptOne /\ pc' \in {pc, "crashed"}
    BY <1>3, <1>12 DEF ListenReadable, AcceptOne, Advance
  <2>2. CASE \E c \in Conn, f \in Fd : accept(Socket(i), c, f) /\ dispatcher_add_connection(c, f)
    <3>1. Ahead' = Ahead \ {Socket(i)}
      BY <1>1, <2>1, <2>2, AcceptHandles DEF accept
    <3> QED BY <1>4, <2>1, <3>1
  <2>3. CASE UNCHANGED <<owner, list, connections, count>>
    <3>1. Ahead' = Ahead \ {Socket(i)}
      BY <1>1, <2>1, <2>3, AdvanceHandles
    <3> QED BY <1>4, <2>1, <3>1
  <2> QED BY <1>1, <2>1, <2>2, <2>3, AcceptedCases
<1>13. CASE EchoReadable \/ EchoWriteable
  <2>1. /\ i \in Entries /\ pc = "loop" /\ pc' = pc /\ unhandled = Ahead /\ Handled
        /\ i' = i + 1 /\ UNCHANGED owner
    BY <1>3, <1>13 DEF EchoReadable, EchoWriteable, Send, Advance, recv_data, kernel
  <2>2. PICK event \in {"in", "out"} : dispatcher_set_event(i, event)
    BY <1>13 DEF EchoReadable, EchoWriteable, Send
  <2>3. Ahead' = Ahead \ {Socket(i)}
    BY <1>1, <2>1, <2>2, SetEventHandles
  <2> QED BY <1>4, <2>1, <2>3
<1>14. CASE LoopDone
  <2>1. pc = "loop" /\ i >= count /\ pc' = "poll" /\ UNCHANGED unhandled
    BY <1>14 DEF LoopDone
  <2>2. \A k \in Entries : ~(k >= i)
    BY <1>1, <2>1 DEF Entries
  <2>3. unhandled = {}
    BY <1>1, <2>1, <2>2, LoopEvents DEF EventsInv, Ahead
  <2> QED BY <2>1, <2>3 DEF EveryEventIsHandled
<1> QED BY <1>5, <1>6, <1>7, <1>8, <1>9, <1>10, <1>11, <1>12, <1>13, <1>14 DEF PollNext, Loop

\* Of "stored" there is nothing to show: it stays what it is.
PollInv == (Shape /\ SocketsOK) /\ (version = "stored" \/ EventsInv)

LEMMA EventsInvariant == PollSpec => []PollInv
<1>1. PollInit => PollInv
  BY InitShape, InitSockets, InitEvents DEF PollInv, PollInit
<1>2. PollInv /\ [PollNext]_polls => PollInv'
  BY NextShape, NextEvents DEF PollInv
<1> QED BY <1>1, <1>2, PTL DEF PollSpec

\* (dispatcher.c:174-216)  Whatever is removed, moved and added under the loop, and for any
\* number of entries: what poll() has reported is handled in the same call, once, and nothing else
\* (where a socket has one entry: not in "stored").
THEOREM EventsAreHandled == PollSpec => []EveryEventIsHandled
<1>1. PollInv => EveryEventIsHandled
  BY DEF PollInv, EventsInv, EveryEventIsHandled
<1> QED BY <1>1, EventsInvariant, PTL

\* What LoopComesToEnd says of a step.
Nearer ==
  version # "stored" /\ pc = "loop" /\ pc' = "loop" =>
    \/ UNCHANGED <<i, table, unhandled>>
    \/ unhandled' \subseteq unhandled /\ unhandled' # unhandled
    \/ unhandled' = unhandled /\ count' - i' \in 0 .. count - i - 1

\* To handle entry i is to handle something that was still to be handled.
LEMMA HandledIsPending ==
  ASSUME EventsInv, NEW event \in {"hup", "in", "out", "other"}, At(event), Handled
  PROVE  unhandled' \subseteq unhandled /\ unhandled' # unhandled
<1>1. i \in Nat /\ count \in Nat
  BY DEF EventsInv, TableInv, Shape, TableTypeOK
<1>2. i \in Entries /\ pc = "loop" /\ list[i].revents # "none"
  BY <1>1 DEF At, Entries
<1>3. Socket(i) \in unhandled
  BY <1>1, <1>2, LoopEvents DEF EventsInv, TableInv, Ahead
<1> QED BY <1>3 DEF Handled

LEMMA LoopNearer == PollInv /\ [PollNext]_polls => Nearer
<1> SUFFICES ASSUME EventsInv, [PollNext]_polls, pc = "loop", pc' = "loop"
             PROVE  Nearer
  BY DEF Nearer, PollInv
<1>1. i \in Nat /\ count \in Nat
  BY DEF EventsInv, TableInv, Shape, TableTypeOK
<1>2. CASE NoEvent
  <2>1. i < count /\ i' = i + 1 /\ count' = count /\ unhandled' = unhandled
    BY <1>2 DEF NoEvent, At, Advance, table
  <2> QED BY <1>1, <2>1 DEF Nearer
<1>3. CASE \/ HangUp \/ ListenReadable \/ EchoReadable \/ EchoWriteable \/ EchoCloses
  <2>1. \E event \in {"hup", "in", "out", "other"} : At(event) /\ Handled
    BY <1>3 DEF HangUp, Ending, ListenReadable, EchoReadable, EchoWriteable, EchoCloses
  <2> QED BY <2>1, HandledIsPending DEF Nearer
<1>4. CASE PeersAct \/ UNCHANGED polls
  BY <1>4 DEF PeersAct, polls, table, Nearer
<1>5. ASSUME \/ \E s \in Service : dispatcher_register_server(s)
             \/ StartDispatching \/ Poll \/ PollFails \/ dispatcher_destroy
             \/ CallIsUndefined \/ LoopDone
      PROVE  FALSE
  BY <1>5 DEF dispatcher_register_server, StartDispatching, Poll, PollFails,
              dispatcher_destroy, CallIsUndefined, LoopDone
<1> QED BY <1>2, <1>3, <1>4, <1>5 DEF PollNext, Loop

\* (dispatcher.c:174-216)  However many sockets there are and however many connections are
\* accepted under it, the loop over the events comes nearer to its end with every step it takes
\* (where a socket has one entry: not in "stored").
THEOREM LoopTerminates == PollSpec => LoopComesToEnd
<1>1. PollInv /\ [PollNext]_polls => [Nearer]_polls
  BY LoopNearer
<1> QED BY <1>1, EventsInvariant, PTL DEF PollSpec, LoopComesToEnd, Nearer
=============================================================================
