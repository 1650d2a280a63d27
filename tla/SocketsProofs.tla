--------------------------- MODULE SocketsProofs ----------------------------
(***************************************************************************)
(* What the peers and the system calls of Sockets.tla do to the sockets,   *)
(* for the proofs about both dispatchers.                                  *)
(***************************************************************************)
EXTENDS Sockets, TLAPS

\* A connection waits on one queue only, in one place of it.
NoneTwice ==
  \A s, t \in Service : \A j \in DOMAIN queue[s], k \in DOMAIN queue[t] :
    queue[s][j] = queue[t][k] => s = t /\ j = k

-----------------------------------------------------------------------------
(* What the operations do to the queues.                                   *)

\* A connection taken off a queue waits on none.
LEMMA Dequeued ==
  ASSUME KernelTypeOK, NoneTwice, NEW s \in Service, queue[s] # <<>>,
         queue' = [queue EXCEPT ![s] = Tail(@)]
  PROVE  /\ Head(queue[s]) \in Conn /\ Waiting(Head(queue[s]))
         /\ queue' \in [Service -> Seq(Conn)]
         /\ NoneTwice'
         /\ \A c \in Conn : Waiting(c)' => Waiting(c) /\ c # Head(queue[s])
<1> DEFINE q == queue[s]
<1>0. /\ queue \in [Service -> Seq(Conn)] /\ q \in Seq(Conn) /\ q # <<>>
      /\ \A t \in Service : queue[t] \in Seq(Conn)
  BY DEF KernelTypeOK
<1>1. /\ Head(q) = q[1] /\ 1 \in DOMAIN q /\ q[1] \in Conn
      /\ Tail(q) \in Seq(Conn)
      /\ \A j \in DOMAIN Tail(q) : j + 1 \in DOMAIN q /\ Tail(q)[j] = q[j + 1] /\ j + 1 # 1
  BY <1>0
<1>2. queue' \in [Service -> Seq(Conn)]
  BY <1>0, <1>1
<1>3. queue'[s] = Tail(q) /\ \A t \in Service : t # s => queue'[t] = queue[t]
  BY <1>0
<1>4. Waiting(Head(q))
  BY <1>1 DEF Waiting
<1>5. ASSUME NEW t \in Service, NEW j \in DOMAIN queue'[t]
      PROVE  \E k \in DOMAIN queue[t] :
               /\ queue'[t][j] = queue[t][k]
               /\ k = IF t = s THEN j + 1 ELSE j
               /\ t = s => k # 1
  <2>1. CASE t = s
    <3>1. j \in DOMAIN Tail(q) /\ queue'[t][j] = Tail(q)[j]
      BY <1>3, <2>1
    <3>2. j + 1 \in DOMAIN queue[t] /\ queue'[t][j] = queue[t][j + 1] /\ j + 1 # 1
      BY <1>1, <2>1, <3>1
    <3> QED BY <2>1, <3>2
  <2>2. CASE t # s
    BY <1>3, <2>2
  <2> QED BY <2>1, <2>2
<1>6. NoneTwice'
  <2> SUFFICES ASSUME NEW t \in Service, NEW u \in Service,
                      NEW j \in DOMAIN queue'[t], NEW k \in DOMAIN queue'[u],
                      queue'[t][j] = queue'[u][k]
               PROVE  t = u /\ j = k
    BY DEF NoneTwice
  <2>0. j \in Int /\ k \in Int
    BY <1>2
  <2>1. PICK j1 \in DOMAIN queue[t] : queue'[t][j] = queue[t][j1] /\ j1 = IF t = s THEN j + 1 ELSE j
    BY <1>5
  <2>2. PICK k1 \in DOMAIN queue[u] : queue'[u][k] = queue[u][k1] /\ k1 = IF u = s THEN k + 1 ELSE k
    BY <1>5
  <2>3. t = u /\ j1 = k1
    BY <2>1, <2>2 DEF NoneTwice
  <2> QED BY <2>0, <2>1, <2>2, <2>3
<1>7. ASSUME NEW c \in Conn, Waiting(c)'
      PROVE  Waiting(c) /\ c # Head(q)
  <2>1. PICK t \in Service : \E j \in DOMAIN queue'[t] : queue'[t][j] = c
    BY <1>7 DEF Waiting
  <2>2. PICK k \in DOMAIN queue[t] : queue[t][k] = c /\ (t = s => k # 1)
    BY <1>5, <2>1
  <2>3. c # q[1]
    BY <1>1, <2>2 DEF NoneTwice
  <2> QED BY <1>1, <2>2, <2>3 DEF Waiting
<1> QED BY <1>1, <1>2, <1>4, <1>6, <1>7

\* A connection that waits nowhere may be put on a queue.
LEMMA Enqueued ==
  ASSUME KernelTypeOK, NoneTwice, NEW s \in Service, NEW c \in Conn, ~Waiting(c),
         queue' = [queue EXCEPT ![s] = Append(@, c)]
  PROVE  /\ queue' \in [Service -> Seq(Conn)]
         /\ NoneTwice'
         /\ \A d \in Conn : Waiting(d)' => Waiting(d) \/ d = c
<1> DEFINE q == queue[s]
<1>0. /\ queue \in [Service -> Seq(Conn)] /\ q \in Seq(Conn)
      /\ \A t \in Service : queue[t] \in Seq(Conn)
  BY DEF KernelTypeOK
<1>1. /\ Append(q, c) \in Seq(Conn)
      /\ DOMAIN Append(q, c) = 1 .. Len(q) + 1 /\ DOMAIN q = 1 .. Len(q)
      /\ \A j \in 1 .. Len(q) : Append(q, c)[j] = q[j]
      /\ Append(q, c)[Len(q) + 1] = c /\ Len(q) \in Nat
  BY <1>0
<1>2. queue' \in [Service -> Seq(Conn)]
  BY <1>0, <1>1
<1>3. queue'[s] = Append(q, c) /\ \A t \in Service : t # s => queue'[t] = queue[t]
  BY <1>0
<1>4. \A t \in Service : \A j \in DOMAIN queue'[t] :
        \/ j \in DOMAIN queue[t] /\ queue'[t][j] = queue[t][j]
        \/ t = s /\ j = Len(q) + 1 /\ queue'[t][j] = c
  BY <1>1, <1>3
<1>5. \A t \in Service : \A j \in DOMAIN queue[t] : queue[t][j] # c
  BY DEF Waiting
<1>6. NoneTwice'
  <2> SUFFICES ASSUME NEW t \in Service, NEW u \in Service,
                      NEW j \in DOMAIN queue'[t], NEW k \in DOMAIN queue'[u],
                      queue'[t][j] = queue'[u][k]
               PROVE  t = u /\ j = k
    BY DEF NoneTwice
  <2> QED BY <1>4, <1>5 DEF NoneTwice
<1>7. \A d \in Conn : Waiting(d)' => Waiting(d) \/ d = c
  BY <1>4 DEF Waiting
<1> QED BY <1>2, <1>6, <1>7

-----------------------------------------------------------------------------
(***************************************************************************)
(* A socket has one descriptor, and a connection is new, or waits to be    *)
(* accepted, or has been accepted, and not two of these.  The dispatchers  *)
(* have this of the kernel; it holds for them as long as they close no     *)
(* descriptor but the one that the socket has.                             *)
(***************************************************************************)
SocketsOK ==
  /\ KernelTypeOK
  /\ NoneTwice
  /\ \A f, g \in Fd : owner[f] = owner[g] /\ owner[f] # NoOne => f = g
  /\ \A c \in Conn : Waiting(c) => wire[c] # "none"
  /\ \A f \in Fd, c \in Conn : owner[f] = c => wire[c] # "none" /\ ~Waiting(c)

LEMMA InitSockets == KernelInit => SocketsOK
<1> SUFFICES ASSUME KernelInit PROVE SocketsOK
  OBVIOUS
<1>1. queue \in [Service -> Seq(Conn)] /\ \A s \in Service : queue[s] = <<>>
  BY DEF KernelInit
<1>2. KernelTypeOK
  BY <1>1 DEF KernelInit, KernelTypeOK
<1>3. \A s \in Service : DOMAIN queue[s] = {}
  BY <1>1
<1>4. NoneTwice /\ \A c \in Conn : ~Waiting(c)
  BY <1>3 DEF NoneTwice, Waiting
<1> QED BY <1>2, <1>4, FdAssumption DEF SocketsOK, KernelInit

\* Data arrives or is read, the peer closes its side or resets: no connection
\* appears or disappears.
LEMMA SocketsData ==
  ASSUME SocketsOK, UNCHANGED <<owner, queue>>,
         wire' \in [Conn -> {"none", "open", "fin", "reset", "dead"}],
         avail' \in [Conn -> Nat],
         \A c \in Conn : wire[c] # "none" => wire'[c] # "none"
  PROVE  SocketsOK'
BY DEF SocketsOK, KernelTypeOK, NoneTwice, Waiting

LEMMA SocketsPeers == ASSUME SocketsOK, Peers PROVE SocketsOK'
<1>0. /\ wire \in [Conn -> {"none", "open", "fin", "reset", "dead"}]
      /\ avail \in [Conn -> Nat]
  BY DEF SocketsOK, KernelTypeOK
<1>1. PICK c \in Conn : \/ \E s \in Service : Connect(c, s)
                        \/ SendData(c) \/ Finish(c) \/ Reset(c)
  BY DEF Peers
<1>2. CASE \E s \in Service : Connect(c, s)
  <2>1. PICK s \in Service : Connect(c, s)
    BY <1>2
  <2>2. /\ wire[c] = "none" /\ wire' = [wire EXCEPT ![c] = "open"]
        /\ queue' = [queue EXCEPT ![s] = Append(@, c)] /\ UNCHANGED <<owner, avail>>
    BY <2>1 DEF Connect
  <2>3. KernelTypeOK /\ NoneTwice /\ ~Waiting(c)
    BY <2>2 DEF SocketsOK
  <2>4. /\ queue' \in [Service -> Seq(Conn)] /\ NoneTwice'
        /\ \A d \in Conn : Waiting(d)' => Waiting(d) \/ d = c
    BY <2>2, <2>3, Enqueued
  <2>5. wire' \in [Conn -> {"none", "open", "fin", "reset", "dead"}]
    BY <1>0, <2>2
  <2>6. KernelTypeOK'
    BY <2>2, <2>3, <2>4, <2>5 DEF KernelTypeOK
  <2>7. \A d \in Conn : wire'[d] # "none" <=> wire[d] # "none" \/ d = c
    BY <1>0, <2>2
  <2> QED BY <2>2, <2>4, <2>6, <2>7 DEF SocketsOK
<1>3. CASE SendData(c)
  <2>1. wire' = wire /\ avail' \in [Conn -> Nat] /\ UNCHANGED <<owner, queue>>
    BY <1>0, <1>3 DEF SendData
  <2> QED BY <1>0, <2>1, SocketsData
<1>4. CASE Finish(c)
  <2>1. wire' = [wire EXCEPT ![c] = "fin"] /\ avail' = avail /\ UNCHANGED <<owner, queue>>
    BY <1>4 DEF Finish
  <2> QED BY <1>0, <2>1, SocketsData
<1>5. CASE Reset(c)
  <2>1. /\ wire' = [wire EXCEPT ![c] = "reset"] /\ avail' \in [Conn -> Nat]
        /\ UNCHANGED <<owner, queue>>
    BY <1>0, <1>5 DEF Reset
  <2> QED BY <1>0, <2>1, SocketsData
<1> QED BY <1>1, <1>2, <1>3, <1>4, <1>5

\* socket(), bind() and listen() for a service that has no descriptor.
LEMMA SocketsSocket ==
  ASSUME SocketsOK, NEW s \in Service, NEW f \in Fd, socket(s, f), \A g \in Fd : owner[g] # s
  PROVE  SocketsOK'
<1>1. owner \in [Fd -> Conn \cup Service \cup {NoOne}]
  BY DEF SocketsOK, KernelTypeOK
<1>2. owner' = [owner EXCEPT ![f] = s] /\ UNCHANGED <<queue, wire, avail>>
  BY DEF socket
<1>3. KernelTypeOK'
  BY <1>2 DEF SocketsOK, KernelTypeOK
<1>4. NoneTwice' /\ \A c \in Conn : Waiting(c)' <=> Waiting(c)
  BY <1>2 DEF SocketsOK, NoneTwice, Waiting
<1>5. owner'[f] = s /\ \A g \in Fd : g # f => owner'[g] = owner[g]
  BY <1>1, <1>2
<1>6. \A g, h \in Fd : owner'[g] = owner'[h] /\ owner'[g] # NoOne => g = h
  BY <1>5 DEF SocketsOK
<1>7. \A g \in Fd, d \in Conn : owner'[g] = d => owner[g] = d
  BY <1>5, FdAssumption
<1> QED BY <1>2, <1>3, <1>4, <1>6, <1>7 DEF SocketsOK

LEMMA SocketsAccept ==
  ASSUME SocketsOK, NEW s \in Service, NEW c \in Conn, NEW f \in Fd, accept(s, c, f)
  PROVE  SocketsOK'
<1>1. owner \in [Fd -> Conn \cup Service \cup {NoOne}] /\ KernelTypeOK /\ NoneTwice
  BY DEF SocketsOK, KernelTypeOK
<1>2. /\ owner' = [owner EXCEPT ![f] = c] /\ UNCHANGED <<wire, avail>>
      /\ queue[s] # <<>> /\ c = Head(queue[s]) /\ queue' = [queue EXCEPT ![s] = Tail(@)]
  BY DEF accept
<1>3. /\ Waiting(c) /\ queue' \in [Service -> Seq(Conn)] /\ NoneTwice'
      /\ \A d \in Conn : Waiting(d)' => Waiting(d) /\ d # c
  BY <1>1, <1>2, Dequeued
<1>4. KernelTypeOK'
  BY <1>1, <1>2, <1>3 DEF KernelTypeOK
<1>5. owner'[f] = c /\ \A g \in Fd : g # f => owner'[g] = owner[g]
  BY <1>1, <1>2
<1>6. wire[c] # "none" /\ \A g \in Fd : owner[g] # c
  BY <1>3 DEF SocketsOK
<1>7. \A g, h \in Fd : owner'[g] = owner'[h] /\ owner'[g] # NoOne => g = h
  BY <1>5, <1>6 DEF SocketsOK
<1>8. \A g \in Fd, d \in Conn : owner'[g] = d => wire'[d] # "none" /\ ~Waiting(d)'
  BY <1>2, <1>3, <1>5, <1>6 DEF SocketsOK
<1> QED BY <1>2, <1>3, <1>4, <1>7, <1>8 DEF SocketsOK

LEMMA SocketsAcceptFails ==
  ASSUME SocketsOK, NEW s \in Service, accept_fails(s)
  PROVE  SocketsOK'
<1>1. /\ wire \in [Conn -> {"none", "open", "fin", "reset", "dead"}]
      /\ avail \in [Conn -> Nat] /\ KernelTypeOK /\ NoneTwice
  BY DEF SocketsOK, KernelTypeOK
<1>2. CASE UNCHANGED kernel
  BY <1>1, <1>2, SocketsData DEF kernel
<1>3. CASE ~UNCHANGED kernel
  <2> DEFINE c == Head(queue[s])
  <2>1. /\ queue[s] # <<>> /\ queue' = [queue EXCEPT ![s] = Tail(@)]
        /\ wire' = [wire EXCEPT ![c] = "none"] /\ avail' = [avail EXCEPT ![c] = 0]
        /\ UNCHANGED owner
    BY <1>3 DEF accept_fails
  <2>2. /\ c \in Conn /\ Waiting(c) /\ queue' \in [Service -> Seq(Conn)] /\ NoneTwice'
        /\ \A d \in Conn : Waiting(d)' => Waiting(d) /\ d # c
    BY <1>1, <2>1, Dequeued
  <2> HIDE DEF c
  <2>3. /\ wire' \in [Conn -> {"none", "open", "fin", "reset", "dead"}]
        /\ avail' \in [Conn -> Nat]
        /\ \A d \in Conn : d # c => wire'[d] = wire[d]
    BY <1>1, <2>1
  <2>4. KernelTypeOK'
    BY <1>1, <2>1, <2>2, <2>3 DEF KernelTypeOK
  <2>5. \A g \in Fd : owner[g] # c
    BY <2>2 DEF SocketsOK
  <2>6. \A g \in Fd, d \in Conn : owner'[g] = d => wire'[d] # "none" /\ ~Waiting(d)'
    BY <2>1, <2>2, <2>3, <2>5 DEF SocketsOK
  <2>7. \A d \in Conn : Waiting(d)' => wire'[d] # "none"
    BY <2>2, <2>3 DEF SocketsOK
  <2> QED BY <2>1, <2>2, <2>4, <2>6, <2>7 DEF SocketsOK
<1> QED BY <1>2, <1>3

\* close() of the descriptor that connection c has.
LEMMA SocketsClose ==
  ASSUME SocketsOK, NEW c \in Conn, NEW f \in Fd, owner[f] = c, close(c, f)
  PROVE  SocketsOK'
<1>1. /\ owner \in [Fd -> Conn \cup Service \cup {NoOne}] /\ KernelTypeOK /\ NoneTwice
      /\ wire \in [Conn -> {"none", "open", "fin", "reset", "dead"}]
      /\ avail \in [Conn -> Nat]
  BY DEF SocketsOK, KernelTypeOK
<1>2. /\ owner' = [owner EXCEPT ![f] = NoOne] /\ UNCHANGED queue
      /\ wire' = [wire EXCEPT ![c] = "none"] /\ avail' = [avail EXCEPT ![c] = 0]
  BY DEF close
<1>3. NoneTwice' /\ \A d \in Conn : Waiting(d)' <=> Waiting(d)
  BY <1>1, <1>2 DEF NoneTwice, Waiting
<1>4. KernelTypeOK'
  BY <1>1, <1>2 DEF KernelTypeOK
<1>5. /\ owner'[f] = NoOne /\ \A g \in Fd : g # f => owner'[g] = owner[g] /\ owner[g] # c
      /\ \A d \in Conn : d # c => wire'[d] = wire[d]
  BY <1>1, <1>2, FdAssumption DEF SocketsOK
<1>6. \A g, h \in Fd : owner'[g] = owner'[h] /\ owner'[g] # NoOne => g = h
  BY <1>5 DEF SocketsOK
<1>7. ~Waiting(c)
  BY DEF SocketsOK
<1>8. \A g \in Fd, d \in Conn : owner'[g] = d => owner[g] = d /\ d # c
  BY <1>5, FdAssumption
<1>9. \A g \in Fd, d \in Conn : owner'[g] = d => wire'[d] # "none" /\ ~Waiting(d)'
  BY <1>3, <1>5, <1>8 DEF SocketsOK
<1>10. \A d \in Conn : Waiting(d)' => wire'[d] # "none"
  BY <1>3, <1>5, <1>7 DEF SocketsOK
<1> QED BY <1>3, <1>4, <1>6, <1>9, <1>10 DEF SocketsOK
=============================================================================
