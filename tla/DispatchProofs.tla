--------------------------- MODULE DispatchProofs ---------------------------
(***************************************************************************)
(* Proofs about Dispatch.tla, for any number of connections, services and  *)
(* descriptors.                                                            *)
(*                                                                         *)
(* The invariant that is inductive says, beside what the runs check, that  *)
(* a connection waits on at most one queue and in one place of it and is   *)
(* not in the table as well, and that descriptor 0, once there is a        *)
(* listening socket, belongs to one.                                       *)
(***************************************************************************)
EXTENDS Dispatch, SocketsProofs

\* The types of the data, as opposed to those of the round.
DataOK ==
  /\ KernelTypeOK
  /\ services \in Seq(Service)
  /\ connection_count \in Nat
  /\ connections \in [0 .. connection_count - 1 -> Conn]
  /\ index \in [Conn -> Nat]
  /\ fd \in [Conn \cup Service -> Fd \cup {NoFd}]
  /\ heap \subseteq {"conn", "peer", "userdata"} \X Conn
  /\ expires \in [Conn -> Nat \cup {NoOne}]
  /\ due \in [Conn -> Nat]

\* The types of the round and of the clock.
RoundOK ==
  /\ pc \in {"listen", "select", "recv", "errors", "accept", "inactivity",
             "sleep", "receive", "crashed"}
  /\ i \in Nat
  /\ readset \subseteq Fd
  /\ unserved \subseteq Conn
  /\ clock \in Nat /\ setbacks \in Nat
  /\ asked \in Nat \cup {NoOne}
  /\ seen \in Nat

LEMMA TypesSplit == TypeOK <=> DataOK /\ RoundOK
  BY DEF TypeOK, DataOK, RoundOK, Timers!TypeOK

QueueOK ==
  /\ \A c \in Table : wire[c] # "none" /\ ~Waiting(c)
  /\ \A c \in Conn : Waiting(c) => wire[c] # "none"
  /\ NoneTwice

ZeroOK ==
  /\ Table # {} => Listeners # {}
  /\ Listeners # {} /\ 0 \in Fd => owner[0] \in Listeners

Core == DataOK /\ TableConsistent /\ QueueOK /\ DescriptorsOwned /\ ZeroOK

IInv == Core /\ RoundOK

-----------------------------------------------------------------------------
(* What the operations do to the table.                                    *)

LEMMA TableInConn ==
  ASSUME DataOK
  PROVE  /\ Table \subseteq Conn
         /\ Listeners \subseteq Service
         /\ \A k \in 0 .. connection_count - 1 : connections[k] \in Table
  BY DEF DataOK, Table, Listeners

\* An armed timer leads back to its place in the table.
LEMMA IndexOfArmed ==
  ASSUME Core, NEW c \in Table
  PROVE  index[c] \in 0 .. connection_count - 1 /\ connections[index[c]] = c
  BY DEF Core, TableConsistent, IndexOK, Table, DataOK

\* Unlist() takes out the connection at index k and no other
\* (dispatch.c:275-279).
LEMMA UnlistTable ==
  ASSUME Core, NEW k \in 0 .. connection_count - 1, Unlist(k)
  PROVE  /\ Table' = Table \ {connections[k]}
         /\ IndexOK'
         /\ connection_count' \in Nat
         /\ connections' \in [0 .. connection_count' - 1 -> Conn]
         /\ index' \in [Conn -> Nat]
<1> DEFINE last == connection_count - 1
           conn == connections[k]
<1>0. /\ connection_count \in Nat /\ last \in 0 .. connection_count - 1
      /\ connections \in [0 .. last -> Conn]
      /\ index \in [Conn -> Nat]
      /\ k \in 0 .. last /\ conn \in Conn /\ connections[last] \in Conn
  BY DEF Core, DataOK
<1>1. \A j, l \in 0 .. last : connections[j] = connections[l] => j = l
  BY DEF Core, TableConsistent, IndexOK
<1>2. /\ connections' = [j \in 0 .. last - 1 |->
                           IF j = k THEN connections[last] ELSE connections[j]]
      /\ index' = [index EXCEPT ![connections[last]] = k, ![conn] = 0]
      /\ connection_count' = last
  BY DEF Unlist, Moved, Last
<1>3. /\ connection_count' \in Nat
      /\ connections' \in [0 .. connection_count' - 1 -> Conn]
      /\ index' \in [Conn -> Nat]
  BY <1>0, <1>2
<1>4. Table' = {connections'[j] : j \in 0 .. last - 1}
  BY <1>2 DEF Table
<1>5. Table' = Table \ {conn}
  <2>1. ASSUME NEW j \in 0 .. last - 1
        PROVE  connections'[j] \in Table \ {conn}
    BY <1>0, <1>1, <1>2 DEF Table
  <2>2. ASSUME NEW j \in 0 .. last, connections[j] # conn
        PROVE  connections[j] \in Table'
    <3>1. CASE j = last
      <4>1. k \in 0 .. last - 1
        BY <1>0, <2>2, <3>1
      <4>2. connections'[k] = connections[last]
        BY <1>2, <4>1
      <4> QED BY <1>4, <3>1, <4>1, <4>2
    <3>2. CASE j # last
      <4>1. j \in 0 .. last - 1 /\ connections'[j] = connections[j]
        BY <1>0, <1>2, <2>2, <3>2
      <4> QED BY <1>4, <4>1
    <3> QED BY <3>1, <3>2
  <2> QED BY <1>4, <2>1, <2>2 DEF Table
<1>6. IndexOK'
  <2> SUFFICES ASSUME NEW j \in 0 .. last - 1
               PROVE  index'[connections'[j]] = j
    BY <1>2 DEF IndexOK
  <2>1. CASE j = k
    <3>1. connections'[j] = connections[last] /\ connections[last] # conn
      BY <1>0, <1>1, <1>2, <2>1
    <3> QED BY <1>0, <1>2, <2>1, <3>1
  <2>2. CASE j # k
    <3>1. /\ connections'[j] = connections[j]
          /\ connections[j] # conn /\ connections[j] # connections[last]
      BY <1>0, <1>1, <1>2, <2>2
    <3>2. index[connections[j]] = j
      BY <1>0 DEF Core, TableConsistent, IndexOK
    <3> QED BY <1>0, <1>2, <3>1, <3>2
  <2> QED BY <2>1, <2>2
<1> QED BY <1>3, <1>5, <1>6

\* connection_add() puts its connection at the end and leaves the rest
\* (dispatch.c:329-332).
LEMMA ListTable ==
  ASSUME Core, NEW conn \in Conn \ Table, NEW f \in Fd, connection_add(conn, f)
  PROVE  /\ Table' = Table \cup {conn}
         /\ IndexOK'
         /\ connection_count' \in Nat
         /\ connections' \in [0 .. connection_count' - 1 -> Conn]
         /\ index' \in [Conn -> Nat]
<1> DEFINE n == connection_count
<1>0. /\ n \in Nat /\ connections \in [0 .. n - 1 -> Conn] /\ index \in [Conn -> Nat]
  BY DEF Core, DataOK
<1>1. /\ connections' = [j \in 0 .. n |-> IF j = n THEN conn ELSE connections[j]]
      /\ index' = [index EXCEPT ![conn] = n]
      /\ connection_count' = n + 1
  BY DEF connection_add
<1>2. /\ connection_count' - 1 = n
      /\ connection_count' \in Nat
      /\ connections' \in [0 .. n -> Conn]
      /\ index' \in [Conn -> Nat]
  BY <1>0, <1>1
<1>3. /\ connections'[n] = conn
      /\ \A j \in 0 .. n - 1 : connections'[j] = connections[j]
  BY <1>0, <1>1
<1>4. Table' = {connections'[j] : j \in 0 .. n}
  BY <1>2 DEF Table
<1>5. Table' = Table \cup {conn}
  <2>1. \A j \in 0 .. n : connections'[j] \in Table \cup {conn}
    BY <1>0, <1>3 DEF Table
  <2>2. \A j \in 0 .. n - 1 : connections[j] \in Table'
    BY <1>0, <1>3, <1>4
  <2>3. conn \in Table'
    BY <1>0, <1>3, <1>4
  <2> QED BY <1>4, <2>1, <2>2, <2>3 DEF Table
<1>6. IndexOK'
  <2> SUFFICES ASSUME NEW j \in 0 .. n
               PROVE  index'[connections'[j]] = j
    BY <1>2 DEF IndexOK
  <2>1. CASE j = n
    BY <1>0, <1>1, <1>3, <2>1
  <2>2. CASE j # n
    <3>1. j \in 0 .. n - 1 /\ connections[j] \in Table
      BY <1>0, <2>2 DEF Table
    <3>2. index[connections[j]] = j
      BY <3>1 DEF Core, TableConsistent, IndexOK
    <3> QED BY <1>0, <1>1, <1>3, <3>1, <3>2
  <2> QED BY <2>1, <2>2
<1> QED BY <1>2, <1>5, <1>6

-----------------------------------------------------------------------------
(* Every operation preserves Core.                                         *)

\* The peers and recv() leave it alone as long as no connection appears or
\* disappears.
LEMMA CoreSockets ==
  ASSUME Core,
         UNCHANGED <<owner, queue, services, table, fd, heap, expires, due>>,
         wire' \in [Conn -> {"none", "open", "fin", "reset", "dead"}],
         avail' \in [Conn -> Nat],
         \A c \in Conn : wire[c] = "none" <=> wire'[c] = "none"
  PROVE  Core'
<1>1. Table' = Table /\ Listeners' = Listeners
  BY DEF table, Table, Listeners
<1>2. DataOK'
  BY DEF Core, DataOK, KernelTypeOK, table
<1>3. TableConsistent'
  BY <1>1 DEF Core, TableConsistent, IndexOK, MemoryOK, TimersOK, Allocated,
              Timers!Armed, table
<1>4. Table \subseteq Conn /\ \A c \in Conn : Waiting(c)' <=> Waiting(c)
  BY TableInConn DEF Core, Waiting
<1>5. QueueOK'
  BY <1>1, <1>4 DEF Core, QueueOK, NoneTwice
<1>6. DescriptorsOwned' /\ ZeroOK'
  BY <1>1 DEF Core, DescriptorsOwned, ZeroOK
<1> QED BY <1>2, <1>3, <1>5, <1>6 DEF Core

LEMMA CoreUnchanged ==
  ASSUME Core, UNCHANGED <<kernel, services, table, fd, heap, expires, due>>
  PROVE  Core'
  BY CoreSockets DEF kernel, Core, DataOK, KernelTypeOK

\* A connection appears on a queue (Connect).
LEMMA CoreConnect ==
  ASSUME Core, NEW c \in Conn, NEW s \in Service, Connect(c, s),
         UNCHANGED <<services, table, fd, heap, expires, due>>
  PROVE  Core'
<1>0. /\ wire \in [Conn -> {"none", "open", "fin", "reset", "dead"}]
      /\ wire[c] = "none" /\ KernelTypeOK /\ NoneTwice
      /\ ~Waiting(c) /\ c \notin Table /\ Table \subseteq Conn
  BY TableInConn DEF Core, DataOK, KernelTypeOK, Connect, QueueOK
<1>1. Table' = Table /\ Listeners' = Listeners
  BY DEF table, Table, Listeners
<1>2. /\ queue' \in [Service -> Seq(Conn)] /\ NoneTwice'
      /\ \A d \in Conn : Waiting(d)' => Waiting(d) \/ d = c
  BY <1>0, Enqueued DEF Connect
<1>3. DataOK'
  BY <1>2 DEF Core, DataOK, KernelTypeOK, table, Connect
<1>4. TableConsistent'
  BY <1>1 DEF Core, TableConsistent, IndexOK, MemoryOK, TimersOK, Allocated,
              Timers!Armed, table
<1>5. QueueOK'
  BY <1>0, <1>1, <1>2 DEF Core, QueueOK, Connect
<1>6. DescriptorsOwned' /\ ZeroOK'
  BY <1>1 DEF Core, DescriptorsOwned, ZeroOK, Connect
<1> QED BY <1>3, <1>4, <1>5, <1>6 DEF Core

\* A connection disappears from a queue (accept_close(), accept_fails()).
LEMMA CoreDrop ==
  ASSUME Core, NEW s \in Service, queue[s] # <<>>,
         queue' = [queue EXCEPT ![s] = Tail(@)],
         wire'  = [wire EXCEPT ![Head(queue[s])] = "none"],
         avail' = [avail EXCEPT ![Head(queue[s])] = 0],
         UNCHANGED <<owner, services, table, fd, heap, expires, due>>
  PROVE  Core'
<1>0. /\ wire \in [Conn -> {"none", "open", "fin", "reset", "dead"}]
      /\ KernelTypeOK /\ NoneTwice /\ Table \subseteq Conn
  BY TableInConn DEF Core, DataOK, KernelTypeOK, QueueOK
<1>1. Table' = Table /\ Listeners' = Listeners
  BY DEF table, Table, Listeners
<1>2. /\ Head(queue[s]) \in Conn /\ Waiting(Head(queue[s]))
      /\ queue' \in [Service -> Seq(Conn)] /\ NoneTwice'
      /\ \A d \in Conn : Waiting(d)' => Waiting(d) /\ d # Head(queue[s])
  BY <1>0, Dequeued
<1>3. DataOK'
  BY <1>2 DEF Core, DataOK, KernelTypeOK, table
<1>4. TableConsistent'
  BY <1>1 DEF Core, TableConsistent, IndexOK, MemoryOK, TimersOK, Allocated,
              Timers!Armed, table
<1>5. QueueOK'
  BY <1>0, <1>1, <1>2 DEF Core, QueueOK
<1>6. DescriptorsOwned' /\ ZeroOK'
  BY <1>1 DEF Core, DescriptorsOwned, ZeroOK
<1> QED BY <1>3, <1>4, <1>5, <1>6 DEF Core

\* A connection moves from a queue into the table (dispatch.c:590, 613).
LEMMA CoreAdd ==
  ASSUME Core, NEW s \in Service, NEW c \in Conn, NEW f \in Fd,
         accept(s, c, f), connection_add(c, f), services' = services,
         Listeners # {}, clock \in Nat, seen \in Nat
  PROVE  Core' /\ asked' = asked /\ seen' = seen
<1>0. /\ DataOK /\ KernelTypeOK /\ NoneTwice /\ Table \subseteq Conn
      /\ owner \in [Fd -> Conn \cup Service \cup {NoOne}]
      /\ fd \in [Conn \cup Service -> Fd \cup {NoFd}]
      /\ Listeners \subseteq Service
      /\ Conn \cap Service = {} /\ NoOne \notin Conn \cup Service
  BY TableInConn, FdAssumption DEF Core, DataOK, KernelTypeOK, QueueOK
<1>1. /\ queue[s] # <<>> /\ c = Head(queue[s])
      /\ queue' = [queue EXCEPT ![s] = Tail(@)]
      /\ owner[f] = NoOne /\ owner' = [owner EXCEPT ![f] = c]
      /\ wire' = wire /\ avail' = avail
  BY DEF accept, NextFd
<1>2. /\ Waiting(c)
      /\ queue' \in [Service -> Seq(Conn)] /\ NoneTwice'
      /\ \A d \in Conn : Waiting(d)' => Waiting(d) /\ d # c
  BY <1>0, <1>1, Dequeued
<1>3. c \in Conn \ Table
  BY <1>2 DEF Core, QueueOK
<1>4. /\ Table' = Table \cup {c} /\ IndexOK' /\ connection_count' \in Nat
      /\ connections' \in [0 .. connection_count' - 1 -> Conn]
      /\ index' \in [Conn -> Nat]
  BY <1>3, ListTable
<1>5. /\ fd' = [fd EXCEPT ![c] = f]
      /\ heap' = heap \cup {<<"conn", c>>, <<"peer", c>>, <<"userdata", c>>}
      /\ Timers!Add(c, ExpiryTime)
      /\ Listeners' = Listeners
  BY DEF connection_add, telnet_event, Listeners
<1>6. /\ ExpiryTime \in Nat
      /\ expires' = [expires EXCEPT ![c] = ExpiryTime]
      /\ due' \in [Conn -> Nat]
      /\ asked' = asked /\ seen' = seen
  <2>1. ExpiryTime \in Nat
    BY ClockAssumption DEF ExpiryTime
  <2>2. PICK d \in ExpiryTime .. (IF ExpiryTime > seen THEN ExpiryTime ELSE seen + Lap) :
          due' = [due EXCEPT ![c] = d]
    BY <1>5 DEF Timers!Add
  <2>3. d \in Nat
    BY <2>1, ClockAssumption
  <2> QED BY <1>0, <1>5, <2>1, <2>2, <2>3 DEF Timers!Add, DataOK
<1>7. DataOK'
  <2>1. KernelTypeOK'
    BY <1>0, <1>1, <1>2 DEF KernelTypeOK
  <2>2. heap' \subseteq {"conn", "peer", "userdata"} \X Conn
    BY <1>0, <1>3, <1>5 DEF DataOK
  <2>3. fd' \in [Conn \cup Service -> Fd \cup {NoFd}]
    BY <1>0, <1>5
  <2>4. expires' \in [Conn -> Nat \cup {NoOne}]
    BY <1>0, <1>6 DEF DataOK
  <2> QED BY <1>0, <1>4, <1>6, <2>1, <2>2, <2>3, <2>4 DEF DataOK
<1>8. TableConsistent'
  <2>1. MemoryOK'
    BY <1>4, <1>5 DEF Core, TableConsistent, MemoryOK, Allocated
  <2>2. TimersOK'
    <3>1. \A d \in Conn : expires'[d] = IF d = c THEN ExpiryTime ELSE expires[d]
      BY <1>0, <1>6 DEF DataOK
    <3>2. ExpiryTime # NoOne
      BY <1>6, NoOneAssumption
    <3> QED BY <1>0, <1>4, <3>1, <3>2 DEF Core, TableConsistent, TimersOK, Timers!Armed
  <2> QED BY <1>4, <2>1, <2>2 DEF TableConsistent
<1>9. QueueOK'
  BY <1>0, <1>1, <1>2, <1>4 DEF Core, QueueOK
<1>10. DescriptorsOwned'
  <2>1. \A x \in Table \cup Listeners : x # c /\ fd'[x] = fd[x] /\ fd[x] # f
    BY <1>0, <1>1, <1>3, <1>5 DEF Core, DescriptorsOwned
  <2>2. fd'[c] = f /\ owner'[f] = c
    BY <1>0, <1>1, <1>5
  <2>3. \A g \in Fd : g # f => owner'[g] = owner[g]
    BY <1>0, <1>1
  <2> QED BY <1>4, <1>5, <2>1, <2>2, <2>3 DEF Core, DescriptorsOwned
<1>11. ZeroOK'
  BY <1>0, <1>1, <1>5 DEF Core, ZeroOK
<1> QED BY <1>6, <1>7, <1>8, <1>9, <1>10, <1>11 DEF Core

\* Descriptor 0 is never that of a connection, so connection_remove() always
\* closes (dispatch.c:294).
LEMMA DescriptorPositive ==
  ASSUME Core, NEW c \in Table
  PROVE  fd[c] \in Fd /\ owner[fd[c]] = c /\ fd[c] > 0
<1>0. /\ c \in Conn /\ Listeners \subseteq Service /\ Conn \cap Service = {} /\ Fd \subseteq Nat
  BY TableInConn, FdAssumption DEF Core
<1>1. fd[c] \in Fd /\ owner[fd[c]] = c
  BY DEF Core, DescriptorsOwned
<1>2. 0 \in Fd => owner[0] # c
  BY <1>0 DEF Core, ZeroOK
<1>3. fd[c] \in Nat /\ fd[c] # 0
  BY <1>0, <1>1, <1>2
<1> QED BY <1>1, <1>3

\* A connection is removed from the table (dispatch.c:269-306).
LEMMA CoreRemove ==
  ASSUME Core, NEW k \in 0 .. connection_count - 1,
         connection_remove(k, heap), services' = services
  PROVE  Core' /\ asked' = asked /\ seen' = seen
<1> DEFINE c == connections[k]
           g == fd[c]
<1>0. /\ DataOK /\ KernelTypeOK /\ Table \subseteq Conn /\ c \in Table /\ c \in Conn
      /\ owner \in [Fd -> Conn \cup Service \cup {NoOne}]
      /\ fd \in [Conn \cup Service -> Fd \cup {NoFd}]
      /\ Listeners \subseteq Service
      /\ Conn \cap Service = {} /\ NoOne \notin Conn \cup Service
      /\ Fd \subseteq Nat
  BY TableInConn, FdAssumption DEF Core, DataOK, KernelTypeOK
<1>1. g \in Fd /\ owner[g] = c
  BY <1>0, DescriptorPositive
<1>2. g > 0
  BY <1>0, DescriptorPositive
<1>3. /\ owner' = [owner EXCEPT ![g] = NoOne]
      /\ wire'  = [wire EXCEPT ![c] = "none"]
      /\ avail' = [avail EXCEPT ![c] = 0]
      /\ queue' = queue
      /\ fd' = [fd EXCEPT ![c] = NoFd]
      /\ Unlist(k)
      /\ expires' = [expires EXCEPT ![c] = NoOne]
      /\ due' = [due EXCEPT ![c] = 0]
      /\ asked' = asked /\ seen' = seen
      /\ heap' = (heap \ {<<"userdata", c>>}) \ {<<"conn", c>>}
      /\ Listeners' = Listeners
  BY <1>2 DEF connection_remove, close, telnet_event, Timers!Unlink, Timers!Disarm, Listeners
<1>4. /\ Table' = Table \ {c} /\ IndexOK' /\ connection_count' \in Nat
      /\ connections' \in [0 .. connection_count' - 1 -> Conn]
      /\ index' \in [Conn -> Nat]
  BY <1>3, UnlistTable
<1>5. DataOK'
  BY <1>0, <1>1, <1>3, <1>4 DEF DataOK, KernelTypeOK
<1>6. TableConsistent'
  <2>1. MemoryOK'
    BY <1>3, <1>4 DEF Core, TableConsistent, MemoryOK, Allocated
  <2>2. TimersOK'
    <3>1. \A d \in Conn : expires'[d] = IF d = c THEN NoOne ELSE expires[d]
      BY <1>0, <1>3 DEF DataOK
    <3> QED BY <1>0, <1>4, <3>1 DEF Core, TableConsistent, TimersOK, Timers!Armed
  <2> QED BY <1>4, <2>1, <2>2 DEF TableConsistent
<1>7. QueueOK'
  <2>1. \A d \in Conn : Waiting(d)' <=> Waiting(d)
    BY <1>3 DEF Waiting
  <2>2. \A d \in Conn : wire'[d] = IF d = c THEN "none" ELSE wire[d]
    BY <1>0, <1>3 DEF KernelTypeOK
  <2>3. ~Waiting(c)
    BY <1>0 DEF Core, QueueOK
  <2>4. NoneTwice'
    BY <1>3 DEF Core, QueueOK, NoneTwice
  <2> QED BY <1>0, <1>4, <2>1, <2>2, <2>3, <2>4 DEF Core, QueueOK
<1>8. DescriptorsOwned'
  <2>1. \A x \in Table' \cup Listeners' : x # c /\ x \in Table \cup Listeners /\ fd'[x] = fd[x]
    BY <1>0, <1>3, <1>4
  <2>2. \A h \in Fd : owner'[h] = IF h = g THEN NoOne ELSE owner[h]
    BY <1>0, <1>3
  <2>3. \A x \in Table' \cup Listeners' : fd'[x] # g
    BY <1>1, <2>1 DEF Core, DescriptorsOwned
  <2>4. \A x \in Table' \cup Listeners' : fd'[x] \in Fd /\ owner'[fd'[x]] = x
    BY <2>1, <2>2, <2>3 DEF Core, DescriptorsOwned
  <2>5. ASSUME NEW h \in Fd, owner'[h] # NoOne
        PROVE  owner'[h] \in Table' \cup Listeners' /\ fd'[owner'[h]] = h
    <3>1. h # g /\ owner'[h] = owner[h] /\ owner[h] # NoOne
      BY <2>2, <2>5
    <3>2. owner[h] \in Table \cup Listeners /\ fd[owner[h]] = h
      BY <3>1 DEF Core, DescriptorsOwned
    <3>3. owner[h] # c
      BY <3>1, <3>2
    <3> QED BY <1>3, <1>4, <2>1, <3>1, <3>2, <3>3
  <2> QED BY <2>4, <2>5 DEF DescriptorsOwned
<1>9. ZeroOK'
  BY <1>0, <1>2, <1>3, <1>4 DEF Core, ZeroOK
<1> QED BY <1>3, <1>5, <1>6, <1>7, <1>8, <1>9 DEF Core

\* A listening socket is opened (dispatch.c:170, 232-239).
LEMMA CoreListen ==
  ASSUME Core, NEW s \in Service, NEW f \in Fd, s \notin Listeners,
         socket(s, f), fd' = [fd EXCEPT ![s] = f],
         services' = Append(services, s),
         UNCHANGED <<table, heap, expires, due>>
  PROVE  Core'
<1>0. /\ DataOK /\ KernelTypeOK /\ Table \subseteq Conn
      /\ owner \in [Fd -> Conn \cup Service \cup {NoOne}]
      /\ fd \in [Conn \cup Service -> Fd \cup {NoFd}]
      /\ services \in Seq(Service)
      /\ Listeners \subseteq Service
      /\ Conn \cap Service = {} /\ NoOne \notin Conn \cup Service
      /\ Fd \subseteq Nat
  BY TableInConn, FdAssumption DEF Core, DataOK, KernelTypeOK
<1>1. /\ owner[f] = NoOne /\ owner' = [owner EXCEPT ![f] = s]
      /\ \A g \in Fd : owner[g] = NoOne => f <= g
      /\ UNCHANGED <<queue, wire, avail>>
  BY DEF socket, NextFd
<1>2. Table' = Table /\ Table \subseteq Conn
  BY <1>0 DEF table, Table
<1>3. services' \in Seq(Service) /\ Listeners' = Listeners \cup {s}
  <2>1. /\ services' \in Seq(Service) /\ Len(services') = Len(services) + 1
        /\ Len(services) \in Nat
        /\ services'[Len(services) + 1] = s
        /\ \A j \in 1 .. Len(services) : services'[j] = services[j]
    BY <1>0
  <2> QED BY <2>1 DEF Listeners
<1>4. DataOK'
  BY <1>0, <1>1, <1>3 DEF DataOK, KernelTypeOK, table
<1>5. TableConsistent'
  BY <1>2 DEF Core, TableConsistent, IndexOK, MemoryOK, TimersOK, Allocated,
              Timers!Armed, table
<1>6. QueueOK'
  <2>1. \A d \in Conn : Waiting(d)' <=> Waiting(d)
    BY <1>1 DEF Waiting
  <2> QED BY <1>1, <1>2, <2>1 DEF Core, QueueOK, NoneTwice
<1>7. DescriptorsOwned'
  <2>1. \A x \in Table \cup Listeners : x # s /\ fd'[x] = fd[x] /\ fd[x] # f
    BY <1>0, <1>1 DEF Core, DescriptorsOwned
  <2>2. fd'[s] = f /\ owner'[f] = s
    BY <1>0, <1>1
  <2>3. \A g \in Fd : g # f => owner'[g] = owner[g]
    BY <1>0, <1>1
  <2> QED BY <1>2, <1>3, <2>1, <2>2, <2>3 DEF Core, DescriptorsOwned
<1>8. ZeroOK'
  <2>1. Listeners' # {}
    BY <1>3
  <2>2. ASSUME 0 \in Fd
        PROVE  owner'[0] \in Listeners'
    <3>1. CASE f = 0
      BY <1>0, <1>1, <1>3, <3>1
    <3>2. CASE f # 0
      <4>1. owner[0] # NoOne
        BY <1>0, <1>1, <2>2, <3>2
      <4>2. owner[0] \in Table \cup Listeners
        BY <2>2, <4>1 DEF Core, DescriptorsOwned
      <4>3. owner[0] \in Listeners
        BY <2>2, <4>2 DEF Core, ZeroOK
      <4> QED BY <1>0, <1>1, <1>3, <2>2, <3>2, <4>3
    <3> QED BY <3>1, <3>2
  <2> QED BY <2>1, <2>2 DEF ZeroOK
<1> QED BY <1>4, <1>5, <1>6, <1>7, <1>8 DEF Core

-----------------------------------------------------------------------------
(* The invariant is inductive.                                             *)

LEMMA InitIInv == Init => IInv
<1> SUFFICES ASSUME Init PROVE IInv
  OBVIOUS
<1>1. /\ connection_count = 0 /\ connections = [j \in {} |-> NoOne]
      /\ 0 .. connection_count - 1 = {}
      /\ services = <<>> /\ Len(services) = 0
  BY DEF Init
<1>2. Table = {} /\ Listeners = {}
  BY <1>1 DEF Table, Listeners
<1>3. /\ expires = [c \in Conn |-> NoOne] /\ due = [c \in Conn |-> 0]
      /\ asked = NoOne /\ seen = 0 /\ clock = 0 /\ setbacks = 0 /\ i = 0
  BY DEF Init, Timers!Create
<1>4. KernelTypeOK
  BY DEF Init, KernelInit, KernelTypeOK
<1>5. DataOK
  <2>1. connections \in [0 .. connection_count - 1 -> Conn]
    BY <1>1
  <2> QED BY <1>1, <1>3, <1>4, <2>1 DEF Init, DataOK
<1>6. RoundOK
  BY <1>3 DEF Init, RoundOK
<1>7. TableConsistent
  BY <1>1, <1>2, <1>3 DEF Init, TableConsistent, IndexOK, MemoryOK, TimersOK,
                          Allocated, Timers!Armed
<1>8. QueueOK
  BY <1>2 DEF Init, KernelInit, QueueOK, NoneTwice, Waiting
<1>9. DescriptorsOwned /\ ZeroOK
  BY <1>2 DEF Init, KernelInit, DescriptorsOwned, ZeroOK
<1> QED BY <1>5, <1>6, <1>7, <1>8, <1>9 DEF IInv, Core

\* The system calls that take nothing from the sockets but data and errors.
LEMMA SocketCalls ==
  ASSUME KernelTypeOK,
         \/ \E c \in Conn : \/ SendData(c) \/ Finish(c) \/ Reset(c)
                            \/ recv_data(c) \/ recv_error(c)
         \/ \E S \in SUBSET Conn : getsockopt(S)
  PROVE  /\ UNCHANGED <<owner, queue>>
         /\ wire' \in [Conn -> {"none", "open", "fin", "reset", "dead"}]
         /\ avail' \in [Conn -> Nat]
         /\ \A c \in Conn : wire[c] = "none" <=> wire'[c] = "none"
<1>0. /\ wire \in [Conn -> {"none", "open", "fin", "reset", "dead"}]
      /\ avail \in [Conn -> Nat]
  BY DEF KernelTypeOK
<1>1. ASSUME NEW c \in Conn, SendData(c) \/ recv_data(c)
      PROVE  UNCHANGED <<owner, queue, wire>> /\ avail' \in [Conn -> Nat]
  BY <1>0, <1>1 DEF SendData, recv_data
<1>2. ASSUME NEW c \in Conn, Finish(c) \/ Reset(c) \/ recv_error(c)
      PROVE  /\ UNCHANGED <<owner, queue>> /\ avail' \in [Conn -> Nat]
             /\ wire[c] # "none"
             /\ \/ wire' = [wire EXCEPT ![c] = "fin"]
                \/ wire' = [wire EXCEPT ![c] = "reset"]
                \/ wire' = [wire EXCEPT ![c] = "dead"]
  BY <1>0, <1>2 DEF Finish, Reset, recv_error
<1>3. ASSUME NEW S \in SUBSET Conn, getsockopt(S)
      PROVE  /\ UNCHANGED <<owner, queue, avail>>
             /\ wire' = [c \in Conn |->
                           IF c \in S /\ wire[c] = "reset" THEN "dead" ELSE wire[c]]
  BY <1>3 DEF getsockopt
<1>4. CASE \E c \in Conn : SendData(c) \/ recv_data(c)
  BY <1>0, <1>1, <1>4
<1>5. CASE \E c \in Conn : Finish(c) \/ Reset(c) \/ recv_error(c)
  BY <1>0, <1>2, <1>5
<1>6. CASE \E S \in SUBSET Conn : getsockopt(S)
  BY <1>0, <1>3, <1>6
<1> QED BY <1>4, <1>5, <1>6

\* Removing a connection when the heap is as telnet_event() left it.
LEMMA TimeoutRemoves ==
  ASSUME Core, NEW c \in Conn, timeout_inactivity(c)
  PROVE  Core' /\ asked' = asked /\ seen' = seen
<1>1. c \in Table
  BY DEF Core, TableConsistent, TimersOK, timeout_inactivity, Timers!Expired
<1>2. index[c] \in 0 .. connection_count - 1
  BY <1>1, IndexOfArmed
<1>3. connection_remove(index[c], heap) /\ services' = services
  BY DEF timeout_inactivity, telnet_event
<1> QED BY <1>2, <1>3, CoreRemove

LEMMA WatchedAreFds == Core => Watched \subseteq Fd
  BY DEF Core, DescriptorsOwned, Watched

LEMMA CoreNext == IInv /\ [Next]_vars => Core'
<1> SUFFICES ASSUME IInv, [Next]_vars PROVE Core'
  OBVIOUS
<1>0. /\ Core /\ KernelTypeOK /\ RoundOK /\ Table \subseteq Conn
      /\ Listeners \subseteq Service
  BY TableInConn DEF IInv, Core, DataOK
<1>1. ASSUME NEW s \in Service, dispatcher_add_listener(s)
      PROVE  Core'
  <2>1. PICK f \in Fd : socket(s, f) /\ fd' = [fd EXCEPT ![s] = f]
    BY <1>1 DEF dispatcher_add_listener
  <2>2. /\ s \notin Listeners /\ services' = Append(services, s)
        /\ UNCHANGED <<table, heap, expires, due>>
    BY <1>1 DEF dispatcher_add_listener, timers
  <2> QED BY <1>0, <2>1, <2>2, CoreListen
\* The steps that change neither sockets nor table.
<1>2. CASE \/ main \/ Select \/ SelectError \/ SelectTimeout
           \/ RecvNotReady \/ RecvDone \/ AcceptNotReady
           \/ timeout_sleep \/ timeout_receive \/ Tick \/ SetBack
           \/ UNCHANGED vars
  <2>1. UNCHANGED <<kernel, services, table, fd, heap, timers>>
    BY <1>2 DEF main, Select, SelectError, SelectTimeout, RecvNotReady, RecvDone,
                AcceptNotReady, timeout_sleep, timeout_receive, Tick, SetBack, vars
  <2> QED BY <1>0, <2>1, CoreUnchanged DEF timers
<1>3. CASE AcceptDone \/ InactivityDone
  <2>1. UNCHANGED <<kernel, services, table, fd, heap, expires, due>>
    BY <1>3 DEF AcceptDone, InactivityDone, Timers!Ask, Timers!NothingLeft
  <2> QED BY <1>0, <2>1, CoreUnchanged
<1>4. CASE Recv
  <2>0. Current \in Conn
    BY <1>0, <1>4 DEF Recv, AtConnection, Current, RoundOK, Core, DataOK
  <2>1. UNCHANGED <<services, table, fd, heap, expires, due>>
    BY <1>4 DEF Recv, timers
  <2>2. CASE recv_data(Current) \/ recv_error(Current)
    BY <1>0, <2>0, <2>1, <2>2, SocketCalls, CoreSockets
  <2>3. CASE UNCHANGED kernel
    BY <1>0, <2>1, <2>3, CoreUnchanged
  <2> QED BY <1>4, <2>2, <2>3 DEF Recv
<1>5. CASE ReportErrors
  <2>1. PICK S \in SUBSET Table : getsockopt(S)
    BY <1>5 DEF ReportErrors
  <2>2. S \in SUBSET Conn
    BY <1>0
  <2>3. UNCHANGED <<services, table, fd, heap, expires, due>>
    BY <1>5 DEF ReportErrors, timers
  <2> QED BY <1>0, <2>1, <2>2, <2>3, SocketCalls, CoreSockets
<1>6. CASE PeersAct
  <2>1. UNCHANGED <<services, table, fd, heap, expires, due>>
    BY <1>6 DEF PeersAct, timers
  <2>2. PICK c \in Conn : \/ \E s \in Service : Connect(c, s)
                          \/ SendData(c) \/ Finish(c) \/ Reset(c)
    BY <1>6 DEF PeersAct, Peers
  <2>3. CASE \E s \in Service : Connect(c, s)
    BY <1>0, <2>1, <2>3, CoreConnect
  <2>4. CASE SendData(c) \/ Finish(c) \/ Reset(c)
    BY <1>0, <2>1, <2>4, SocketCalls, CoreSockets
  <2> QED BY <2>2, <2>3, <2>4
<1>7. CASE AcceptNoName \/ AcceptError
  <2>0. Listener \in Service
    BY <1>0, <1>7 DEF AcceptNoName, AcceptError, AtService, Listener, RoundOK, Core, DataOK
  <2>1. UNCHANGED <<services, table, fd, heap, expires, due>>
    BY <1>7 DEF AcceptNoName, AcceptError, timers
  <2>2. \/ UNCHANGED kernel
        \/ /\ queue[Listener] # <<>>
           /\ queue' = [queue EXCEPT ![Listener] = Tail(@)]
           /\ wire'  = [wire EXCEPT ![Head(queue[Listener])] = "none"]
           /\ avail' = [avail EXCEPT ![Head(queue[Listener])] = 0]
           /\ UNCHANGED owner
    BY <1>7 DEF AcceptNoName, AcceptError, accept_close, accept_fails
  <2> QED BY <1>0, <2>0, <2>1, <2>2, CoreUnchanged, CoreDrop
<1>8. CASE Accept
  <2>0. Listener \in Service /\ Listener \in Listeners
    <3>1. i + 1 \in 1 .. Len(services) /\ services \in Seq(Service)
      BY <1>0, <1>8 DEF Accept, AtService, RoundOK, Core, DataOK
    <3> QED BY <3>1 DEF Listener, Listeners
  <2>1. PICK c \in Conn, f \in Fd : accept(Listener, c, f) /\ connection_add(c, f)
    BY <1>8 DEF Accept
  <2>2. services' = services
    BY <1>8 DEF Accept
  <2> QED BY <1>0, <2>0, <2>1, <2>2, CoreAdd DEF RoundOK
<1>9. CASE RecvEnd
  <2>1. i \in 0 .. connection_count - 1
    BY <1>0, <1>9 DEF RecvEnd, AtConnection, RoundOK, Core, DataOK
  <2>2. connection_remove(i, heap) /\ services' = services
    BY <1>9 DEF RecvEnd
  <2> QED BY <1>0, <2>1, <2>2, CoreRemove
<1>10. ASSUME NEW c \in Conn, timeout_inactivity(c)
       PROVE  Core'
  BY <1>0, <1>10, TimeoutRemoves
<1> QED
  BY <1>1, <1>2, <1>3, <1>4, <1>5, <1>6, <1>7, <1>8, <1>9, <1>10
  DEF Next, Thread, dispatcher_dispatch

LEMMA RoundNext == IInv /\ [Next]_vars => RoundOK'
<1> SUFFICES ASSUME IInv, [Next]_vars PROVE RoundOK'
  OBVIOUS
<1>0. /\ Core /\ RoundOK /\ Table \subseteq Conn /\ Watched \subseteq Fd
      /\ ReadyFds \subseteq Watched
  BY TableInConn, WatchedAreFds DEF IInv, Core, ReadyFds
<1>1. CASE \/ \E s \in Service : dispatcher_add_listener(s)
           \/ SelectTimeout \/ PeersAct \/ UNCHANGED vars
  <2>1. UNCHANGED <<pc, i, readset, clock, setbacks, unserved, asked, seen>>
    BY <1>1 DEF dispatcher_add_listener, SelectTimeout, PeersAct, vars, time, timers
  <2> QED BY <1>0, <2>1 DEF RoundOK
\* The steps through the loops and from one phase to the next.
<1>2. CASE \/ main \/ RecvNotReady \/ RecvDone \/ ReportErrors
           \/ AcceptNotReady \/ AcceptError \/ AcceptNoName
           \/ timeout_sleep \/ timeout_receive
  <2>1. /\ UNCHANGED <<clock, setbacks, unserved, asked, seen>>
        /\ readset' \in {readset, {}} /\ i' \in {i + 1, 0}
    BY <1>2 DEF main, RecvNotReady, RecvDone, ReportErrors, AcceptNotReady,
                AcceptError, AcceptNoName, timeout_sleep, timeout_receive,
                time, timers, Continue, Go
  <2>2. pc' \in {pc, "select", "errors", "accept", "receive", "crashed"}
    BY <1>2 DEF main, RecvNotReady, RecvDone, ReportErrors, AcceptNotReady,
                AcceptError, AcceptNoName, timeout_sleep, timeout_receive,
                Continue, Go
  <2> QED BY <1>0, <2>1, <2>2 DEF RoundOK
<1>10. CASE Tick \/ SetBack
  <2>1. UNCHANGED <<pc, i, readset, unserved, asked, seen>>
    BY <1>10 DEF Tick, SetBack, timers
  <2>2. clock' \in Nat /\ setbacks' \in Nat
    BY <1>0, <1>10 DEF Tick, SetBack, RoundOK
  <2> QED BY <1>0, <2>1, <2>2 DEF RoundOK
<1>3. CASE Select \/ SelectError
  <2>1. /\ readset' \subseteq Watched /\ unserved' \subseteq Table
        /\ i' = 0 /\ pc' = "recv"
        /\ UNCHANGED <<clock, setbacks, asked, seen>>
    BY <1>0, <1>3 DEF Select, SelectError, LeftInReadset, time, timers, Go
  <2> QED BY <1>0, <2>1 DEF RoundOK
<1>4. CASE Recv
  BY <1>0, <1>4 DEF Recv, Continue, Served, RoundOK, time, timers
<1>5. CASE RecvEnd
  BY <1>0, <1>5 DEF RecvEnd, connection_remove, Served, RoundOK, time
<1>6. CASE Accept
  <2>1. /\ i' = i + 1 /\ asked' = asked /\ seen' = seen
        /\ UNCHANGED <<pc, readset, clock, setbacks, unserved>>
    BY <1>6 DEF Accept, connection_add, Timers!Add, Continue, time
  <2> QED BY <1>0, <2>1 DEF RoundOK
<1>7. CASE AcceptDone
  <2>1. /\ i' = 0 /\ pc' = "inactivity"
        /\ asked' = clock /\ seen' \in {clock, seen}
        /\ UNCHANGED <<readset, clock, setbacks, unserved>>
    BY <1>7 DEF AcceptDone, Timers!Ask, Go, time
  <2> QED BY <1>0, <2>1 DEF RoundOK
<1>8. CASE InactivityDone
  <2>1. /\ i' = 0 /\ pc' = "sleep" /\ asked' = NoOne /\ seen' = seen
        /\ UNCHANGED <<readset, clock, setbacks, unserved>>
    BY <1>8 DEF InactivityDone, Timers!NothingLeft, Go, time
  <2> QED BY <1>0, <2>1 DEF RoundOK
<1>9. CASE \E c \in Conn : timeout_inactivity(c)
  BY <1>0, <1>9 DEF timeout_inactivity, connection_remove, RoundOK, time
<1> QED
  BY <1>1, <1>2, <1>3, <1>4, <1>5, <1>6, <1>7, <1>8, <1>9, <1>10
  DEF Next, Thread, dispatcher_dispatch

LEMMA SpecIInv == Spec => []IInv
<1>1. IInv /\ [Next]_vars => IInv'
  BY CoreNext, RoundNext DEF IInv
<1> QED BY <1>1, InitIInv, PTL DEF Spec

-----------------------------------------------------------------------------

\* Every variable keeps its type: among them, connection_count and the
\* indexes never fall below zero, whichever way connections are removed
\* (dispatch.c:275-279).
THEOREM DispatchTypes == Spec => []TypeOK
<1>1. IInv => TypeOK
  BY TypesSplit DEF IInv, Core
<1> QED BY <1>1, SpecIInv, PTL

\* The table, each connection's own index, its memory and its timer always
\* agree: connection_remove(), reached from the receive loop and from the
\* timeouts, always removes the connection it was meant to remove
\* (dispatch.c:269-306, 313-338).
THEOREM TableStaysConsistent == Spec => []TableConsistent
<1>1. IInv => TableConsistent
  BY DEF IInv, Core
<1> QED BY <1>1, SpecIInv, PTL

\* Every open descriptor belongs to one listener or to one connection in the
\* table, which has it and no other.  The test `fd > 0' before close() leaks
\* nothing, because descriptor 0 can only be a listening socket
\* (dispatch.c:294-296, 606).
THEOREM DescriptorsStayOwned == Spec => []DescriptorsOwned
<1>1. IInv => DescriptorsOwned
  BY DEF IInv, Core
<1> QED BY <1>1, SpecIInv, PTL

-----------------------------------------------------------------------------
(* The loop that receives.                                                 *)

\* The ready connections that the loop at index i has still to look at.
Pending == {connections[k] : k \in {j \in i .. connection_count - 1 :
                                      fd[connections[j]] \in readset}}

LEMMA PendingMembers ==
  \A c : c \in Pending <=>
    \E j \in i .. connection_count - 1 : connections[j] = c /\ fd[c] \in readset
  BY DEF Pending

\* The table has nothing twice.
LEMMA TableDistinct ==
  ASSUME Core, NEW j \in 0 .. connection_count - 1, NEW k \in 0 .. connection_count - 1,
         connections[j] = connections[k]
  PROVE  j = k
  BY DEF Core, TableConsistent, IndexOK

\* The index moves on: Current is dealt with, and nothing else.
LEMMA PendingContinues ==
  ASSUME IInv, AtConnection, Continue, UNCHANGED <<table, fd, readset>>
  PROVE  Pending' = Pending \ {Current}
<1>0. /\ i \in Nat /\ connection_count \in Nat /\ i \in 0 .. connection_count - 1
      /\ i' = i + 1
      /\ UNCHANGED <<connections, connection_count, fd, readset>>
  BY DEF IInv, Core, DataOK, RoundOK, AtConnection, Continue, table
<1>1. ASSUME NEW c \in Pending'
      PROVE  c \in Pending \ {Current}
  <2>1. PICK j \in i + 1 .. connection_count - 1 : connections[j] = c /\ fd[c] \in readset
    BY <1>0 DEF Pending
  <2>2. j \in i .. connection_count - 1 /\ j \in 0 .. connection_count - 1 /\ j # i
    BY <1>0, <2>1
  <2>3. c # Current
    BY <1>0, <2>1, <2>2, TableDistinct DEF IInv, Current
  <2> QED BY <2>1, <2>2, <2>3, PendingMembers
<1>2. ASSUME NEW c \in Pending, c # Current
      PROVE  c \in Pending'
  <2>1. PICK j \in i .. connection_count - 1 : connections[j] = c /\ fd[c] \in readset
    BY PendingMembers
  <2>2. j \in i + 1 .. connection_count - 1
    BY <1>0, <1>2, <2>1 DEF Current
  <2> QED BY <1>0, <2>1, <2>2 DEF Pending
<1> QED BY <1>1, <1>2

\* The connection at the index is removed and another one moves there.
LEMMA PendingRemoves ==
  ASSUME IInv, AtConnection, connection_remove(i, heap), UNCHANGED <<i, readset>>
  PROVE  Pending' = Pending \ {Current}
<1> DEFINE last == connection_count - 1
<1>0. /\ i \in Nat /\ connection_count \in Nat /\ i \in 0 .. last
      /\ connections \in [0 .. last -> Conn]
      /\ Current = connections[i]
      /\ \A j \in 0 .. last : connections[j] \in Conn
      /\ fd \in [Conn \cup Service -> Fd \cup {NoFd}]
  BY DEF IInv, Core, DataOK, RoundOK, AtConnection, Current
<1>1. /\ connection_count' - 1 = last - 1
      /\ \A j \in 0 .. last - 1 :
           connections'[j] = IF j = i THEN connections[last] ELSE connections[j]
      /\ fd' = [fd EXCEPT ![Current] = NoFd]
      /\ i' = i /\ readset' = readset
  BY <1>0 DEF connection_remove, Unlist, Moved, Last, Current
<1>2. \A c \in Conn : c # Current => fd'[c] = fd[c]
  BY <1>0, <1>1
<1>3. ASSUME NEW c \in Pending'
      PROVE  c \in Pending \ {Current}
  <2>1. PICK j \in i .. last - 1 : connections'[j] = c /\ fd'[c] \in readset
    BY <1>1 DEF Pending
  <2>2. PICK k \in i .. last : connections[k] = c /\ k # i
    BY <1>0, <1>1, <2>1
  <2>3. c # Current
    BY <1>0, <2>2, TableDistinct DEF IInv
  <2>4. fd[c] \in readset
    BY <1>0, <1>2, <2>1, <2>2, <2>3
  <2> QED BY <2>2, <2>3, <2>4, PendingMembers
<1>4. ASSUME NEW c \in Pending, c # Current
      PROVE  c \in Pending'
  <2>1. PICK j \in i .. last : connections[j] = c /\ fd[c] \in readset
    BY PendingMembers
  <2>2. j # i /\ fd'[c] \in readset'
    BY <1>0, <1>1, <1>2, <1>4, <2>1
  <2>3. \E k \in i .. last - 1 : connections'[k] = c
    <3>1. CASE j = last
      <4>1. i \in 0 .. last - 1
        BY <1>0, <2>1, <2>2, <3>1
      <4>2. i \in i .. last - 1 /\ connections'[i] = c
        BY <1>0, <1>1, <2>1, <3>1, <4>1
      <4> QED BY <4>2
    <3>2. CASE j # last
      <4>1. j \in i .. last - 1 /\ j \in 0 .. last - 1
        BY <1>0, <2>1, <3>2
      <4>2. connections'[j] = c
        BY <1>1, <2>1, <2>2, <4>1
      <4> QED BY <4>1, <4>2
    <3> QED BY <3>1, <3>2
  <2> QED BY <1>1, <2>2, <2>3 DEF Pending
<1> QED BY <1>3, <1>4

LEMMA ServedNext ==
  IInv /\ EveryReadyIsServed /\ [Next]_vars => EveryReadyIsServed'
<1> SUFFICES ASSUME IInv, EveryReadyIsServed, [Next]_vars PROVE EveryReadyIsServed'
  OBVIOUS
<1> DEFINE Goal == unserved' = IF pc' = "recv" THEN Pending' ELSE {}
<1>0. /\ unserved = IF pc = "recv" THEN Pending ELSE {}
      /\ EveryReadyIsServed' <=> Goal
      /\ RoundOK /\ DataOK
  BY DEF EveryReadyIsServed, Pending, IInv, Core
<1>1. CASE Select \/ SelectError
  <2>1. /\ i' = 0 /\ pc' = "recv" /\ UNCHANGED <<connections, connection_count, fd>>
        /\ unserved' = {c \in Table : fd[c] \in readset'}
    BY <1>1 DEF Select, SelectError, LeftInReadset, Watched, Go, table
  <2>2. Pending' = {c \in Table : fd[c] \in readset'}
    BY <2>1 DEF Pending, Table
  <2> QED BY <1>0, <2>1, <2>2
<1>2. CASE RecvNotReady
  <2>1. Pending' = Pending \ {Current}
    BY <1>2, PendingContinues DEF RecvNotReady
  <2>2. Current \notin Pending
    BY <1>2, PendingMembers DEF RecvNotReady
  <2>3. pc = "recv" /\ pc' = pc /\ unserved' = unserved
    BY <1>2 DEF RecvNotReady, AtConnection, Continue
  <2> QED BY <1>0, <2>1, <2>2, <2>3
<1>3. CASE Recv
  <2>1. Pending' = Pending \ {Current}
    BY <1>3, PendingContinues DEF Recv
  <2>2. pc = "recv" /\ pc' = pc /\ unserved' = unserved \ {Current}
    BY <1>3 DEF Recv, AtConnection, Continue, Served
  <2> QED BY <1>0, <2>1, <2>2
<1>4. CASE RecvEnd
  <2>1. Pending' = Pending \ {Current}
    BY <1>4, PendingRemoves DEF RecvEnd
  <2>2. pc = "recv" /\ pc' = pc /\ unserved' = unserved \ {Current}
    BY <1>4 DEF RecvEnd, AtConnection, Served
  <2> QED BY <1>0, <2>1, <2>2
<1>5. CASE RecvDone
  <2>1. Pending = {}
    BY <1>0, <1>5 DEF RecvDone, Pending, RoundOK, DataOK
  <2>2. pc = "recv" /\ pc' = "errors" /\ unserved' = unserved
    BY <1>5 DEF RecvDone, Go
  <2> QED BY <1>0, <2>1, <2>2
<1>6. CASE SelectTimeout \/ PeersAct \/ Tick \/ SetBack \/ UNCHANGED vars
  <2>1. UNCHANGED <<pc, i, readset, table, fd, unserved>>
    BY <1>6 DEF SelectTimeout, PeersAct, Tick, SetBack, vars
  <2> QED BY <1>0, <2>1 DEF Pending, table
\* The rest of the round, and main() before it.
<1>7. ASSUME \/ \E s \in Service : dispatcher_add_listener(s)
             \/ main \/ ReportErrors
             \/ AcceptNotReady \/ AcceptError \/ AcceptNoName \/ Accept \/ AcceptDone
      PROVE  Goal
  <2>1. pc # "recv" /\ pc' # "recv" /\ unserved' = unserved
    BY <1>7 DEF dispatcher_add_listener, main, ReportErrors, AtService, Continue, Go,
                AcceptNotReady, AcceptError, AcceptNoName, Accept, AcceptDone
  <2> QED BY <1>0, <2>1
<1>8. ASSUME \/ \E c \in Conn : timeout_inactivity(c)
             \/ InactivityDone \/ timeout_sleep \/ timeout_receive
      PROVE  Goal
  <2>1. pc # "recv" /\ pc' # "recv" /\ unserved' = unserved
    BY <1>8 DEF timeout_inactivity, InactivityDone, timeout_sleep, timeout_receive, Go
  <2> QED BY <1>0, <2>1
<1> QED
  BY <1>0, <1>1, <1>2, <1>3, <1>4, <1>5, <1>6, <1>7, <1>8
  DEF Next, Thread, dispatcher_dispatch

\* A connection that select() found ready is looked at in the same round,
\* although removing another one moves the last connection of the table to
\* its place (dispatch.c:513-549, 275-279).
THEOREM ReadyAreServed == Spec => []EveryReadyIsServed
<1>1. Init => EveryReadyIsServed
  BY DEF Init, EveryReadyIsServed
<1> QED BY <1>1, SpecIInv, ServedNext, PTL DEF Spec

\* While the loop runs, what it has still to look at is readable.
StillReadable == pc = "recv" => \A c \in unserved : Readable(c)

LEMMA ReadableNext ==
  ASSUME ~SelectFails, IInv, EveryReadyIsServed, StillReadable, [Next]_vars
  PROVE  StillReadable'
<1>0. /\ wire \in [Conn -> {"none", "open", "fin", "reset", "dead"}]
      /\ avail \in [Conn -> Nat]
      /\ fd \in [Conn \cup Service -> Fd \cup {NoFd}]
      /\ Table \subseteq Conn /\ unserved \subseteq Conn /\ DescriptorsOwned
      /\ Conn \cap Service = {}
      /\ connections \in [0 .. connection_count - 1 -> Conn]
      /\ i \in Nat /\ connection_count \in Nat
  BY TableInConn, FdAssumption DEF IInv, Core, DataOK, KernelTypeOK, RoundOK
<1>1. CASE Select
  <2>1. /\ unserved' = {c \in Table : fd[c] \in ReadyFds}
        /\ UNCHANGED <<wire, avail>>
    BY <1>1 DEF Select, kernel
  <2>2. ASSUME NEW c \in Table, fd[c] \in ReadyFds
        PROVE  Readable(c)
    <3>1. owner[fd[c]] = c /\ c \in Conn /\ c \notin Service
      BY <1>0 DEF DescriptorsOwned
    <3> QED BY <2>2, <3>1 DEF ReadyFds
  <2> QED BY <2>1, <2>2 DEF StillReadable, Readable
<1>2. CASE RecvNotReady
  BY <1>2 DEF RecvNotReady, Continue, StillReadable, Readable, kernel
<1>3. CASE Recv
  <2>1. /\ pc = "recv" /\ unserved' = unserved \ {Current}
        /\ Current \in Conn
    BY <1>0, <1>3 DEF Recv, AtConnection, Served, Current
  <2>2. \A c \in Conn : c # Current => wire'[c] = wire[c] /\ avail'[c] = avail[c]
    BY <1>0, <1>3, <2>1 DEF Recv, recv_data, recv_error, kernel
  <2> QED BY <1>0, <2>1, <2>2 DEF StillReadable, Readable
<1>4. CASE RecvEnd
  <2>1. /\ pc = "recv" /\ unserved' = unserved \ {Current}
        /\ Current \in Conn /\ Current = connections[i]
    BY <1>0, <1>4 DEF RecvEnd, AtConnection, Served, Current
  <2>2. \A c \in Conn : c # Current => wire'[c] = wire[c] /\ avail'[c] = avail[c]
    BY <1>0, <1>4, <2>1 DEF RecvEnd, connection_remove, close, kernel
  <2> QED BY <1>0, <2>1, <2>2 DEF StillReadable, Readable
\* What the peers do takes nothing away from what has arrived, except for
\* a reset, which is readable itself.
<1>5. CASE PeersAct
  <2>1. /\ pc' = pc /\ unserved' = unserved
    BY <1>5 DEF PeersAct
  <2>2. PICK c \in Conn : \/ \E s \in Service : Connect(c, s)
                          \/ SendData(c) \/ Finish(c) \/ Reset(c)
    BY <1>5 DEF PeersAct, Peers
  <2>3. ASSUME NEW d \in Conn, Readable(d)
        PROVE  Readable(d)'
    <3>1. CASE d # c
      <4>1. wire'[d] = wire[d] /\ avail'[d] = avail[d]
        BY <1>0, <2>2, <3>1 DEF Connect, SendData, Finish, Reset
      <4> QED BY <2>3, <4>1 DEF Readable
    <3>2. CASE d = c
      <4>1. CASE \E s \in Service : Connect(c, s)
        BY <1>0, <2>3, <3>2, <4>1 DEF Connect, Readable
      <4>2. CASE SendData(c)
        BY <1>0, <3>2, <4>2 DEF SendData, Readable
      <4>3. CASE Finish(c)
        BY <1>0, <3>2, <4>3 DEF Finish, Readable
      <4>4. CASE Reset(c)
        BY <1>0, <3>2, <4>4 DEF Reset, Readable
      <4> QED BY <2>2, <4>1, <4>2, <4>3, <4>4
    <3> QED BY <3>1, <3>2
  <2> QED BY <1>0, <2>1, <2>3 DEF StillReadable
<1>6. CASE SelectTimeout \/ Tick \/ SetBack \/ UNCHANGED vars
  BY <1>6 DEF SelectTimeout, Tick, SetBack, vars, kernel, StillReadable, Readable
<1>7. CASE SelectError
  BY <1>7 DEF SelectError
<1>8. ASSUME \/ \E s \in Service : dispatcher_add_listener(s)
             \/ main \/ RecvDone \/ ReportErrors
             \/ AcceptNotReady \/ AcceptError \/ AcceptNoName \/ Accept \/ AcceptDone
      PROVE  pc' # "recv"
  BY <1>8 DEF dispatcher_add_listener, main, RecvDone, ReportErrors, AtService, Continue,
              Go, AcceptNotReady, AcceptError, AcceptNoName, Accept, AcceptDone
<1>9. ASSUME \/ \E c \in Conn : timeout_inactivity(c)
             \/ InactivityDone \/ timeout_sleep \/ timeout_receive
      PROVE  pc' # "recv"
  BY <1>9 DEF timeout_inactivity, InactivityDone, timeout_sleep, timeout_receive, Go
<1> QED
  BY <1>1, <1>2, <1>3, <1>4, <1>5, <1>6, <1>7, <1>8, <1>9
  DEF Next, Thread, dispatcher_dispatch, StillReadable

\* When select() does not fail, recv() never waits for data, even on sockets
\* that block: nothing a peer does between the two calls takes away what
\* select() saw, and no other connection is read in its place
\* (dispatch.c:494-526).
THEOREM RecvNeverWaits == ~SelectFails => (Spec => []NeverBlocks)
<1> SUFFICES ASSUME ~SelectFails PROVE Spec => []NeverBlocks
  OBVIOUS
<1>1. Init => EveryReadyIsServed /\ StillReadable
  BY DEF Init, EveryReadyIsServed, StillReadable
<1>2. IInv /\ EveryReadyIsServed /\ StillReadable /\ [Next]_vars => StillReadable'
  BY ReadableNext
<1>3. IInv /\ EveryReadyIsServed /\ StillReadable => NeverBlocks
  <2> SUFFICES ASSUME IInv, EveryReadyIsServed, StillReadable,
                      AtConnection, fd[Current] \in readset
               PROVE  Readable(Current)
    BY DEF NeverBlocks
  <2>1. i \in i .. connection_count - 1
    BY DEF IInv, Core, DataOK, RoundOK, AtConnection
  <2>2. Current \in unserved
    BY <2>1 DEF EveryReadyIsServed, AtConnection, Current
  <2> QED BY <2>2 DEF StillReadable, AtConnection
<1> QED BY <1>1, <1>2, <1>3, SpecIInv, ServedNext, PTL DEF Spec
=============================================================================
