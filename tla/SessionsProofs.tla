--------------------------- MODULE SessionsProofs ---------------------------
(***************************************************************************)
(* The dispatcher implements Sessions.tla when the clock is not set back,  *)
(* and its timers are exact: proofs on top of the invariant of             *)
(* DispatchProofs.tla.                                                     *)
(***************************************************************************)
EXTENDS DispatchProofs

\* The time that the timers are asked about has come.
AskedHasCome ==
  /\ setbacks = 0
  /\ pc = "inactivity" => asked \in Nat /\ asked <= clock

AbsPhase == [c \in Conn |-> IF c \in Table THEN "open"
                            ELSE IF wire[c] # "none" THEN "waiting" ELSE "none"]
AbsEnded == [c \in Conn |-> wire[c] \notin {"none", "open"}]
AbsDeadline == [c \in Conn |-> IF c \in Table THEN expires[c] ELSE 0]

LEMMA AskedNext ==
  ASSUME MaxSetBacks = 0, IInv, AskedHasCome, [Next]_vars
  PROVE  AskedHasCome' /\ ~SetBack
<1>0. RoundOK /\ setbacks = 0
  BY DEF IInv, AskedHasCome
<1>1. ~SetBack
  BY <1>0 DEF SetBack
<1>2. CASE Tick
  BY <1>0, <1>1, <1>2 DEF Tick, AskedHasCome, RoundOK, timers
<1>3. CASE AcceptDone
  BY <1>0, <1>1, <1>3 DEF AcceptDone, Timers!Ask, AskedHasCome, RoundOK, time
<1>4. CASE \/ SelectTimeout \/ PeersAct \/ UNCHANGED vars
  BY <1>1, <1>4 DEF SelectTimeout, PeersAct, vars, AskedHasCome, time, timers
<1>5. ASSUME NEW c \in Conn, timeout_inactivity(c)
      PROVE  AskedHasCome'
  BY <1>5 DEF timeout_inactivity, connection_remove, AskedHasCome, time
<1>6. ASSUME \/ \E s \in Service : dispatcher_add_listener(s)
             \/ main \/ Select \/ SelectError
             \/ RecvNotReady \/ Recv \/ RecvEnd \/ RecvDone \/ ReportErrors
      PROVE  pc' # "inactivity" /\ setbacks' = setbacks
  BY <1>6 DEF dispatcher_add_listener, main, Select, SelectError, RecvNotReady, Recv,
              RecvEnd, RecvDone, ReportErrors, AtConnection, Continue, Go, time
<1>7. ASSUME \/ AcceptNotReady \/ AcceptError \/ AcceptNoName \/ Accept
             \/ InactivityDone \/ timeout_sleep \/ timeout_receive
      PROVE  pc' # "inactivity" /\ setbacks' = setbacks
  BY <1>7 DEF AcceptNotReady, AcceptError, AcceptNoName, Accept, InactivityDone,
              timeout_sleep, timeout_receive, AtService, Continue, Go, time
<1> QED
  BY <1>0, <1>1, <1>2, <1>3, <1>4, <1>5, <1>6, <1>7
  DEF Next, Thread, dispatcher_dispatch, AskedHasCome

LEMMA InitSessions == Init => Promise!Init
<1> SUFFICES ASSUME Init PROVE Promise!Init
  OBVIOUS
<1>1. Table = {}
  BY DEF Init, Table
<1>2. wire = [c \in Conn |-> "none"] /\ clock = 0
  BY DEF Init, KernelInit
<1> QED BY <1>1, <1>2 DEF Promise!Init

LEMMA SessionsStutter ==
  ASSUME Table' = Table, UNCHANGED <<expires, clock>>,
         \A c \in Conn : /\ wire'[c] = "none" <=> wire[c] = "none"
                         /\ wire'[c] = "open" <=> wire[c] = "open"
  PROVE  UNCHANGED (Promise!vars)
<1>1. AbsPhase' = AbsPhase
  BY DEF AbsPhase
<1>2. AbsEnded' = AbsEnded
  BY DEF AbsEnded
<1>3. AbsDeadline' = AbsDeadline
  BY DEF AbsDeadline
<1> QED BY <1>1, <1>2, <1>3 DEF Promise!vars, AbsPhase, AbsEnded, AbsDeadline

\* A connection leaves the table or its queue.
LEMMA SessionsClosed ==
  ASSUME Core, NEW c \in Conn, Table' = Table \ {c}, clock' = clock,
         wire' = [wire EXCEPT ![c] = "none"],
         \A d \in Conn \ {c} : expires'[d] = expires[d]
  PROVE  Promise!Closed(c)
<1>0. wire \in [Conn -> {"none", "open", "fin", "reset", "dead"}]
  BY DEF Core, DataOK, KernelTypeOK
<1>1. \A d \in Conn : wire'[d] = IF d = c THEN "none" ELSE wire[d]
  BY <1>0
<1>2. AbsPhase' = [AbsPhase EXCEPT ![c] = "none"]
  BY <1>1 DEF AbsPhase
<1>3. AbsEnded' = [AbsEnded EXCEPT ![c] = FALSE]
  BY <1>1 DEF AbsEnded
<1>4. AbsDeadline' = [AbsDeadline EXCEPT ![c] = 0]
  BY DEF AbsDeadline
<1> QED BY <1>2, <1>3, <1>4 DEF Promise!Closed, AbsPhase, AbsEnded, AbsDeadline

LEMMA SessionsPeers ==
  ASSUME IInv, PeersAct
  PROVE  Promise!Next \/ UNCHANGED (Promise!vars)
<1>0. /\ wire \in [Conn -> {"none", "open", "fin", "reset", "dead"}]
      /\ \A c \in Table : wire[c] # "none"
      /\ Table' = Table /\ UNCHANGED <<expires, clock>>
  BY DEF IInv, Core, DataOK, KernelTypeOK, QueueOK, PeersAct, Table, table, timers, time
<1>1. AbsDeadline' = AbsDeadline
  BY <1>0 DEF AbsDeadline
<1>2. PICK c \in Conn : \/ \E s \in Service : Connect(c, s)
                        \/ SendData(c) \/ Finish(c) \/ Reset(c)
  BY DEF PeersAct, Peers
<1>3. CASE \E s \in Service : Connect(c, s)
  <2>1. wire[c] = "none" /\ wire' = [wire EXCEPT ![c] = "open"] /\ c \notin Table
    BY <1>0, <1>3 DEF Connect
  <2>2. AbsPhase[c] = "none" /\ AbsPhase' = [AbsPhase EXCEPT ![c] = "waiting"]
    BY <1>0, <2>1 DEF AbsPhase
  <2>3. AbsEnded' = AbsEnded
    BY <1>0, <2>1 DEF AbsEnded
  <2>4. Promise!Arrive(c)
    BY <1>0, <1>1, <2>2, <2>3 DEF Promise!Arrive, AbsPhase, AbsEnded, AbsDeadline
  <2> QED BY <2>4 DEF Promise!Next
<1>4. CASE SendData(c)
  BY <1>0, <1>4, SessionsStutter DEF SendData
<1>5. CASE Finish(c) \/ Reset(c)
  <2>1. /\ wire[c] # "none"
        /\ wire' = [wire EXCEPT ![c] = "fin"] \/ wire' = [wire EXCEPT ![c] = "reset"]
    BY <1>0, <1>5 DEF Finish, Reset
  <2>2. AbsPhase[c] # "none" /\ AbsPhase' = AbsPhase
    BY <1>0, <2>1 DEF AbsPhase
  <2>3. AbsEnded' = [AbsEnded EXCEPT ![c] = TRUE]
    BY <1>0, <2>1 DEF AbsEnded
  <2>4. Promise!End(c)
    BY <1>0, <1>1, <2>2, <2>3 DEF Promise!End, AbsPhase, AbsEnded, AbsDeadline
  <2> QED BY <2>4 DEF Promise!Next
<1> QED BY <1>2, <1>3, <1>4, <1>5

\* accept() takes a connection off its queue and it is closed at once.
LEMMA SessionsDrop ==
  ASSUME IInv, NEW s \in Service, queue[s] # <<>>,
         queue' = [queue EXCEPT ![s] = Tail(@)],
         wire' = [wire EXCEPT ![Head(queue[s])] = "none"],
         UNCHANGED <<table, expires, clock>>
  PROVE  Promise!Next
<1>1. PICK c \in Conn : c = Head(queue[s]) /\ Waiting(c)
  BY Dequeued DEF IInv, Core, DataOK, QueueOK
<1>2. c \notin Table /\ wire[c] # "none" /\ Table' = Table
  BY <1>1 DEF IInv, Core, QueueOK, Table, table
<1>3. Promise!Closed(c)
  <2>1. wire' = [wire EXCEPT ![c] = "none"]
    BY <1>1
  <2> QED BY <1>2, <2>1, SessionsClosed DEF IInv, timers
<1>4. Promise!Refuse(c)
  BY <1>1, <1>2, <1>3 DEF Promise!Refuse
<1> QED BY <1>4 DEF Promise!Next

LEMMA SessionsOpen ==
  ASSUME IInv, Accept
  PROVE  Promise!Next
<1>1. PICK c \in Conn, f \in Fd : accept(Listener, c, f) /\ connection_add(c, f)
  BY DEF Accept
<1>2. /\ DataOK /\ KernelTypeOK /\ NoneTwice /\ Table \subseteq Conn
      /\ Listener \in Service
  BY TableInConn DEF IInv, Core, DataOK, RoundOK, QueueOK, Accept, AtService, Listener
<1>3. c \notin Table /\ wire[c] # "none"
  BY <1>1, <1>2, Dequeued DEF accept, IInv, Core, QueueOK
<1>4. Table' = Table \cup {c}
  BY <1>1, <1>3, ListTable DEF IInv
<1>5. /\ wire' = wire /\ clock' = clock
      /\ expires' = [expires EXCEPT ![c] = clock + Inactivity]
  BY <1>1 DEF accept, connection_add, Timers!Add, ExpiryTime, Accept, time
<1>6. \A d \in Conn : expires'[d] = IF d = c THEN clock + Inactivity ELSE expires[d]
  BY <1>2, <1>5 DEF DataOK
<1>7. AbsPhase[c] = "waiting" /\ AbsPhase' = [AbsPhase EXCEPT ![c] = "open"]
  BY <1>3, <1>4, <1>5 DEF AbsPhase
<1>8. AbsEnded' = AbsEnded
  BY <1>5 DEF AbsEnded
<1>9. AbsDeadline' = [AbsDeadline EXCEPT ![c] = clock + Inactivity]
  BY <1>4, <1>6 DEF AbsDeadline
<1>10. Promise!Open(c)
  BY <1>5, <1>7, <1>8, <1>9 DEF Promise!Open, AbsPhase, AbsEnded, AbsDeadline
<1> QED BY <1>10 DEF Promise!Next

\* connection_remove() for a connection that may be closed.
LEMMA SessionsRemove ==
  ASSUME IInv, NEW k \in 0 .. connection_count - 1, connection_remove(k, heap),
         clock' = clock,
         \/ wire[connections[k]] \in {"fin", "reset", "dead"}
         \/ expires[connections[k]] <= clock
  PROVE  Promise!Next
<1>a. PICK c \in Conn : c = connections[k]
  BY TableInConn DEF IInv, Core
<1>0. Core /\ DataOK /\ c \in Table
  BY <1>a, TableInConn DEF IInv, Core
<1>1. Table' = Table \ {c}
  BY <1>0, <1>a, UnlistTable DEF connection_remove
<1>2. fd[c] > 0
  BY <1>0, DescriptorPositive
<1>3. wire' = [wire EXCEPT ![c] = "none"]
  BY <1>2, <1>a DEF connection_remove, close
<1>4. \A d \in Conn \ {c} : expires'[d] = expires[d]
  BY <1>0, <1>a DEF connection_remove, Timers!Disarm, DataOK
<1>5. Promise!Closed(c)
  BY <1>0, <1>1, <1>3, <1>4, SessionsClosed
<1>6. CASE wire[c] \in {"fin", "reset", "dead"}
  <2>1. Promise!Close(c)
    BY <1>0, <1>5, <1>6 DEF Promise!Close
  <2> QED BY <2>1 DEF Promise!Next
<1>7. CASE expires[c] <= clock
  <2>1. Promise!Expire(c)
    BY <1>0, <1>5, <1>7 DEF Promise!Expire
  <2> QED BY <2>1 DEF Promise!Next
<1> QED BY <1>a, <1>6, <1>7

LEMMA SessionsNext ==
  ASSUME IInv, AskedHasCome, [Next]_vars, ~SetBack
  PROVE  Promise!Next \/ UNCHANGED (Promise!vars)
<1>0. /\ Core /\ DataOK /\ RoundOK /\ KernelTypeOK /\ Table \subseteq Conn
  BY TableInConn DEF IInv, Core, DataOK
<1>1. CASE PeersAct
  BY <1>1, SessionsPeers
\* The steps that leave connections alone.
<1>2. CASE \/ \E s \in Service : dispatcher_add_listener(s)
           \/ main \/ Select \/ SelectError \/ SelectTimeout
           \/ RecvNotReady \/ RecvDone \/ AcceptNotReady
           \/ timeout_sleep \/ timeout_receive \/ UNCHANGED vars
  <2>1. UNCHANGED <<wire, table, expires, clock>>
    BY <1>2 DEF dispatcher_add_listener, socket, main, Select, SelectError,
                SelectTimeout, RecvNotReady, RecvDone, AcceptNotReady, timeout_sleep,
                timeout_receive, vars, kernel, time, timers
  <2> QED BY <2>1, SessionsStutter DEF Table, table
<1>3. CASE AcceptDone \/ InactivityDone
  <2>1. UNCHANGED <<wire, table, expires, clock>>
    BY <1>3 DEF AcceptDone, InactivityDone, Timers!Ask, Timers!NothingLeft, kernel, time
  <2> QED BY <2>1, SessionsStutter DEF Table, table
<1>4. CASE Recv \/ ReportErrors
  <2>0. UNCHANGED <<table, expires, clock>>
    BY <1>4 DEF Recv, ReportErrors, time, timers
  <2>1. \A c \in Conn : \/ wire'[c] = wire[c]
                        \/ wire[c] = "reset" /\ wire'[c] = "dead"
    BY <1>0, <1>4 DEF Recv, ReportErrors, recv_data, recv_error, getsockopt, kernel,
                      KernelTypeOK
  <2> QED BY <2>0, <2>1, SessionsStutter DEF Table, table
<1>5. CASE AcceptNoName \/ AcceptError
  <2>0. Listener \in Service
    BY <1>0, <1>5 DEF AcceptNoName, AcceptError, AtService, Listener, RoundOK, DataOK
  <2>1. UNCHANGED <<table, expires, clock>>
    BY <1>5 DEF AcceptNoName, AcceptError, timers, time
  <2>2. \/ UNCHANGED kernel
        \/ /\ queue[Listener] # <<>>
           /\ queue' = [queue EXCEPT ![Listener] = Tail(@)]
           /\ wire'  = [wire EXCEPT ![Head(queue[Listener])] = "none"]
    BY <1>5 DEF AcceptNoName, AcceptError, accept_close, accept_fails
  <2>3. CASE UNCHANGED kernel
    BY <2>1, <2>3, SessionsStutter DEF Table, table, kernel
  <2> QED BY <2>0, <2>1, <2>2, <2>3, SessionsDrop
<1>6. CASE Accept
  BY <1>6, SessionsOpen
<1>7. CASE RecvEnd
  <2>1. i \in 0 .. connection_count - 1
    BY <1>0, <1>7 DEF RecvEnd, AtConnection, RoundOK, DataOK
  <2>2. /\ connection_remove(i, heap) /\ clock' = clock
        /\ wire[connections[i]] \in {"fin", "reset", "dead"}
    BY <1>7 DEF RecvEnd, AtEnd, Current, time
  <2> QED BY <2>1, <2>2, SessionsRemove
<1>8. ASSUME NEW c \in Conn, timeout_inactivity(c)
      PROVE  Promise!Next
  <2>1. c \in Table
    BY <1>0, <1>8 DEF Core, TableConsistent, TimersOK, timeout_inactivity, Timers!Expired
  <2>2. index[c] \in 0 .. connection_count - 1 /\ connections[index[c]] = c
    BY <1>0, <2>1, IndexOfArmed
  <2>3. connection_remove(index[c], heap) /\ clock' = clock
    BY <1>8 DEF timeout_inactivity, telnet_event, time
  <2>4. /\ expires[c] <= asked /\ asked \in Nat /\ asked <= clock
        /\ expires[c] \in Nat /\ clock \in Nat
    <3>1. expires[c] \in Nat \cup {NoOne} /\ expires[c] # NoOne
      BY <1>0, <1>8 DEF DataOK, timeout_inactivity, Timers!Expired, Timers!Armed
    <3> QED BY <1>0, <1>8, <3>1 DEF AskedHasCome, timeout_inactivity, Timers!Expired, RoundOK
  <2>5. expires[c] <= clock
    BY <2>4
  <2> QED BY <2>2, <2>3, <2>5, SessionsRemove
<1>9. CASE Tick
  <2>1. /\ clock' = clock + 1 /\ clock \in Nat
        /\ UNCHANGED <<wire, table, expires>>
    BY <1>0, <1>9 DEF Tick, RoundOK, kernel, timers
  <2>2. Table' = Table
    BY <2>1 DEF Table, table
  <2>3. AbsPhase' = AbsPhase /\ AbsEnded' = AbsEnded /\ AbsDeadline' = AbsDeadline
    BY <2>1, <2>2 DEF AbsPhase, AbsEnded, AbsDeadline
  <2>4. Promise!TimePasses
    BY <2>1, <2>3 DEF Promise!TimePasses, AbsPhase, AbsEnded, AbsDeadline
  <2> QED BY <2>4 DEF Promise!Next
<1> QED
  BY <1>1, <1>2, <1>3, <1>4, <1>5, <1>6, <1>7, <1>8, <1>9
  DEF Next, Thread, dispatcher_dispatch

\* When the clock is not set back, the dispatcher implements Sessions.tla: a
\* connection is closed only because its peer has ended it or its time is
\* up, and nothing that happens to one touches another (dispatch.c:269-338,
\* 500-655).
THEOREM DispatcherKeepsPromise == MaxSetBacks = 0 => (Spec => KeepsPromise)
<1> SUFFICES ASSUME MaxSetBacks = 0 PROVE Spec => KeepsPromise
  OBVIOUS
<1>1. Init => AskedHasCome
  BY DEF Init, AskedHasCome
<1>2. IInv /\ AskedHasCome /\ [Next]_vars =>
        AskedHasCome' /\ (Promise!Next \/ UNCHANGED (Promise!vars))
  BY AskedNext, SessionsNext
<1>3. IInv /\ AskedHasCome /\ [Next]_vars => AskedHasCome' /\ [Promise!Next]_(Promise!vars)
  BY <1>2
<1>4. Spec => Promise!Init /\ [][Promise!Next]_(Promise!vars)
  BY <1>1, <1>3, InitSessions, SpecIInv, PTL DEF Spec
<1> QED BY <1>4 DEF KeepsPromise, Promise!Spec

-----------------------------------------------------------------------------
(* The timers are exact as long as the clock is not set back.              *)

DueExact ==
  /\ seen <= clock
  /\ \A c \in Conn : expires[c] # NoOne => due[c] = expires[c]

LEMMA DueExactNext ==
  ASSUME IInv, DueExact, [Next]_vars, ~SetBack
  PROVE  DueExact'
<1>0. /\ RoundOK /\ DataOK /\ seen \in Nat /\ clock \in Nat
      /\ expires \in [Conn -> Nat \cup {NoOne}] /\ due \in [Conn -> Nat]
  BY DEF IInv, Core, DataOK, RoundOK
<1>1. ASSUME UNCHANGED <<expires, due, seen>>, clock' \in {clock, clock + 1}
      PROVE  DueExact'
  BY <1>0, <1>1 DEF DueExact
<1>2. CASE \/ \E s \in Service : dispatcher_add_listener(s)
           \/ main \/ Select \/ SelectError \/ SelectTimeout
           \/ RecvNotReady \/ Recv \/ RecvDone \/ ReportErrors
  BY <1>1, <1>2 DEF dispatcher_add_listener, main, Select, SelectError, SelectTimeout,
                    RecvNotReady, Recv, RecvDone, ReportErrors, vars, time, timers
<1>3. CASE \/ AcceptNotReady \/ AcceptError \/ AcceptNoName
           \/ timeout_sleep \/ timeout_receive \/ PeersAct \/ Tick \/ UNCHANGED vars
  BY <1>1, <1>3 DEF AcceptNotReady, AcceptError, AcceptNoName, timeout_sleep,
                    timeout_receive, PeersAct, Tick, vars, time, timers
<1>4. CASE InactivityDone
  BY <1>1, <1>4 DEF InactivityDone, Timers!NothingLeft, time
<1>5. CASE AcceptDone
  <2>1. UNCHANGED <<expires, due, clock>> /\ seen' \in {seen, clock}
    BY <1>5 DEF AcceptDone, Timers!Ask, time
  <2> QED BY <1>0, <2>1 DEF DueExact
<1>6. ASSUME NEW c \in Conn, connection_remove(index[c], heap) \/ connection_remove(i, heap),
             clock' = clock
      PROVE  DueExact'
  <2>1. PICK k : connection_remove(k, heap)
    BY <1>6
  <2>2. /\ expires' = [expires EXCEPT ![connections[k]] = NoOne]
        /\ due' = [due EXCEPT ![connections[k]] = 0]
        /\ seen' = seen
    BY <2>1 DEF connection_remove, Timers!Disarm
  <2> QED BY <1>0, <1>6, <2>2 DEF DueExact
<1>7. CASE RecvEnd
  <2>1. connection_remove(i, heap) /\ clock' = clock /\ Current \in Conn
    BY <1>0, <1>7 DEF RecvEnd, AtConnection, Current, RoundOK, DataOK, time
  <2> QED BY <1>6, <2>1
<1>8. ASSUME NEW c \in Conn, timeout_inactivity(c)
      PROVE  DueExact'
  <2>1. connection_remove(index[c], heap) /\ clock' = clock
    BY <1>8 DEF timeout_inactivity, telnet_event, time
  <2> QED BY <1>6, <2>1
<1>9. CASE Accept
  <2>1. PICK c \in Conn : /\ Timers!Add(c, clock + Inactivity)
                          /\ clock' = clock
    BY <1>9 DEF Accept, connection_add, ExpiryTime, time
  <2>2. clock + Inactivity > seen /\ clock + Inactivity \in Nat
    BY <1>0, ClockAssumption DEF DueExact
  <2>3. /\ expires' = [expires EXCEPT ![c] = clock + Inactivity]
        /\ seen' = seen
        /\ \E d \in clock + Inactivity .. clock + Inactivity : due' = [due EXCEPT ![c] = d]
    BY <2>1, <2>2 DEF Timers!Add
  <2>4. due' = [due EXCEPT ![c] = clock + Inactivity]
    <3>1. PICK d \in clock + Inactivity .. clock + Inactivity : due' = [due EXCEPT ![c] = d]
      BY <2>3
    <3>2. d = clock + Inactivity
      BY <2>2
    <3> QED BY <3>1, <3>2
  <2> QED BY <1>0, <2>1, <2>3, <2>4 DEF DueExact
<1> QED
  BY <1>2, <1>3, <1>4, <1>5, <1>7, <1>8, <1>9
  DEF Next, Thread, dispatcher_dispatch

\* When the pass over the inactivity timers ends, no connection is left in
\* the table whose time had come when it began (dispatch.c:324-327, 643).
THEOREM PassesCloseOverdue == MaxSetBacks = 0 => (Spec => PassClosesOverdue)
<1> SUFFICES ASSUME MaxSetBacks = 0 PROVE Spec => PassClosesOverdue
  OBVIOUS
<1>1. Init => AskedHasCome /\ DueExact
  BY DEF Init, AskedHasCome, DueExact, Timers!Create
<1>2. IInv /\ AskedHasCome /\ DueExact /\ [Next]_vars => AskedHasCome' /\ DueExact'
  BY AskedNext, DueExactNext
<1>3. ASSUME IInv, DueExact, [Next]_vars, asked # NoOne, asked' = NoOne
      PROVE  \A c \in Table' : expires[c] > asked
  <2>1. RoundOK /\ Core /\ clock # NoOne
    BY <1>3, NoOneAssumption DEF IInv, RoundOK
  <2>2. InactivityDone
    <3>1. asked' # asked
      BY <1>3
    <3>2. CASE \/ \E s \in Service : dispatcher_add_listener(s)
               \/ main \/ Select \/ SelectError \/ SelectTimeout
               \/ RecvNotReady \/ Recv \/ RecvDone \/ ReportErrors
      BY <3>1, <3>2 DEF dispatcher_add_listener, main, Select, SelectError, SelectTimeout,
                        RecvNotReady, Recv, RecvDone, ReportErrors, vars, timers
    <3>3. CASE \/ AcceptNotReady \/ AcceptError \/ AcceptNoName
               \/ timeout_sleep \/ timeout_receive
               \/ PeersAct \/ Tick \/ SetBack \/ UNCHANGED vars
      BY <3>1, <3>3 DEF AcceptNotReady, AcceptError, AcceptNoName, timeout_sleep,
                        timeout_receive, PeersAct, Tick, SetBack, vars, timers
    <3>4. CASE RecvEnd \/ \E c \in Conn : timeout_inactivity(c)
      BY <3>1, <3>4 DEF RecvEnd, timeout_inactivity, connection_remove
    <3>5. CASE Accept
      BY <3>1, <3>5 DEF Accept, connection_add, Timers!Add
    <3>6. CASE AcceptDone
      BY <1>3, <2>1, <3>6 DEF AcceptDone, Timers!Ask
    <3> QED
      BY <1>3, <3>2, <3>3, <3>4, <3>5, <3>6 DEF Next, Thread, dispatcher_dispatch
  <2>3. Table' = Table /\ \A c \in Timers!Armed : due[c] > asked
    BY <2>2 DEF InactivityDone, Timers!NothingLeft, Table, table
  <2>4. \A c \in Table : c \in Conn /\ c \in Timers!Armed /\ expires[c] # NoOne
    BY <2>1, TableInConn DEF Core, TableConsistent, TimersOK, Timers!Armed
  <2>5. \A c \in Table : due[c] = expires[c]
    BY <1>3, <2>4 DEF DueExact
  <2> QED BY <2>3, <2>4, <2>5
<1>4. ASSUME IInv, DueExact, [Next]_vars
      PROVE  [asked # NoOne /\ asked' = NoOne => \A c \in Table' : expires[c] > asked]_vars
  BY <1>3, <1>4
<1> QED BY <1>1, <1>2, <1>4, SpecIInv, PTL DEF Spec, PassClosesOverdue
=============================================================================
