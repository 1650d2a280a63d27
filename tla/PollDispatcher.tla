--------------------------- MODULE PollDispatcher ---------------------------
(***************************************************************************)
(* The table of the poll() dispatcher (dispatcher.c) with the echo service *)
(* of builtin-echo.c on several listening sockets and connections.  What   *)
(* the service does with one connection's bytes is in Echo.tla; here it is *)
(* what it asks of the dispatcher: to wait for one event or the other, to  *)
(* add a connection, or to close one.                                      *)
(*                                                                         *)
(* As written, the dispatcher does not survive its first event, because it *)
(* does not store the handler it is given.  `version' says how much of     *)
(* what dispatcher.h describes is there (see README.md):                   *)
(*   "written"    nothing: the code as it is                               *)
(*   "stored"     the handler and its data are stored, DISPATCH_CREATED is *)
(*                sent, and a place that realloc() adds has a structure,   *)
(*                as the first place has; the rest is as written           *)
(*   "described"  besides, every connection is given a new structure, and  *)
(*                the accepted descriptor is the one that is added         *)
(***************************************************************************)
EXTENDS Sockets, FiniteSets

CONSTANT Versions

ASSUME VersionsAssumption == Versions \subseteq {"written", "stored", "described"}

VARIABLES
  version,     \* a member of Versions
  pc,          \* "setup", "poll", "loop", "destroy", "end" or "crashed" (what
               \* the program does then is undefined)
  i,           \* the index of the loop over the events
  list,        \* d->list: 0 .. d->count - 1 -> descriptor, events and revents
  connections, \* d->connections, a pointer for every place there is
  count, max,  \* d->count and d->max
  unhandled    \* history: what poll() has reported and is to be handled

table == <<list, connections, count, max>>
polls == <<kernel, version, pc, i, table, unhandled>>

\* A structure that has been allocated and cleared, and a pointer to none:
\* nobody has set it, or its structure has been freed.  Any other pointer is
\* named after the socket that its structure was filled for last.
Cleared == "cleared"
Wild    == "wild"

Socket(k) == owner[list[k].fd]
Entries   == 0 .. count - 1

\* To follow the pointer at place k is undefined.
Undefined(k) == version # "described" /\ connections[k] = Wild

-----------------------------------------------------------------------------

\* Mutant: the lists grow one connection too late.
Full_TooLate == count >= max

\* The lists have to grow when one more entry is in them.
Full == count + 1 >= max

\* The structure for x is the one that the next place points to already:
\* the one it was given, or what a removal has left there.  Wherever else
\* that structure is pointed to, it is now filled for x.
Filled(x) ==
  IF version = "described" THEN [connections EXCEPT ![count] = x]
  ELSE [k \in DOMAIN connections |->
          IF connections[k] = connections[count] /\ connections[k] # Wild THEN x
          ELSE connections[k]]

NewPlace == IF version = "stored" THEN Cleared ELSE Wild

\* Put the descriptor f at the end of the lists, for x.
dispatcher_add_connection(x, f) ==
  /\ list' = [k \in 0 .. count |->
       IF k = count THEN [fd |-> f, events |-> "in", revents |-> "none"] ELSE list[k]]
  /\ connections' = [k \in 0 .. IF Full THEN max ELSE max - 1 |->
       IF k = max THEN NewPlace ELSE Filled(x)[k]]
  /\ count' = count + 1
  /\ max' = IF Full THEN max + 1 ELSE max

\* Closing a listening socket ends the connections that wait on it.
close_listener(s, f) ==
  LET gone == {queue[s][k] : k \in DOMAIN queue[s]}
  IN /\ owner' = [owner EXCEPT ![f] = NoOne]
     /\ queue' = [queue EXCEPT ![s] = <<>>]
     /\ wire'  = [c \in Conn |-> IF c \in gone THEN "none" ELSE wire[c]]
     /\ avail' = [c \in Conn |-> IF c \in gone THEN 0 ELSE avail[c]]

\* A descriptor that is closed already is NoOne's.
close_socket(x, f) ==
  IF x \in Conn THEN close(x, f)
  ELSE IF x \in Service THEN close_listener(x, f)
  ELSE UNCHANGED kernel

\* No pointer to the structure of entry k is any good when it is freed.
Freed(k) ==
  [j \in DOMAIN connections |->
     IF connections[j] = connections[k] THEN Wild ELSE connections[j]]

\* s with its last entry copied to place k; it stays where it was, too.
Moved(k, s) == IF count - 1 > k THEN [s EXCEPT ![k] = s[count - 1]] ELSE s

dispatcher_remove_at(k) ==
  /\ IF list[k].fd > 0 THEN close_socket(Socket(k), list[k].fd) ELSE UNCHANGED kernel
  /\ list' = [j \in 0 .. count - 2 |-> IF j = k THEN list[count - 1] ELSE list[j]]
  /\ connections' = Moved(k, Freed(k))
  /\ count' = count - 1
  /\ UNCHANGED max

dispatcher_set_event(k, event) ==
  /\ list' = [list EXCEPT ![k].events = event, ![k].revents = "none"]
  /\ UNCHANGED <<connections, count, max>>

-----------------------------------------------------------------------------
(* The caller, as dispatcher.h has it: register servers, call              *)
(* dispatcher_dispatch() until it returns -1, delete the dispatcher.       *)

\* As written, a second server is filled in through a pointer that nobody has
\* set.  A call that fails closes its descriptor again and changes nothing.
dispatcher_register_server(s) ==
  /\ pc = "setup" /\ \A f \in Fd : owner[f] # s
  /\ \E f \in Fd : socket(s, f) /\ dispatcher_add_connection(s, f)
  /\ pc' = IF Undefined(count) THEN "crashed" ELSE pc
  /\ UNCHANGED <<version, i, unhandled>>

StartDispatching ==
  /\ pc = "setup"
  /\ pc' = "poll"
  /\ UNCHANGED <<kernel, version, i, table, unhandled>>

\* What poll() may report of entry k, as the first of the events that the
\* loop looks at.  A connection that waits to send may have to go on waiting.
\* POLLERR stands with POLLHUP: DISPATCH_ERRORED only asks what happened.  Of
\* a descriptor that has been closed it reports what the loop does not know.
Reports(k) ==
  LET x == Socket(k)
      event == list[k].events
  IN IF x = NoOne THEN {"other"}
     ELSE IF x \in Service THEN {IF Acceptable(x) THEN "in" ELSE "none"}
     ELSE IF wire[x] = "reset" THEN {event, "hup"}
     ELSE (IF event = "out" THEN {"out", "none"}
           ELSE {IF Readable(x) THEN "in" ELSE "none"})
          \cup (IF wire[x] = "fin" THEN {"hup"} ELSE {})

Poll ==
  /\ pc = "poll"
  /\ \E r \in [Entries -> {"none", "hup", "in", "out", "other"}] :
       /\ \A k \in Entries : r[k] \in Reports(k)
       /\ \E k \in Entries : r[k] # "none"
       /\ list' = [k \in Entries |-> [list[k] EXCEPT !.revents = r[k]]]
       /\ unhandled' = {Socket(k) : k \in {j \in Entries : r[j] # "none"}}
  /\ pc' = "loop" /\ i' = 0
  /\ UNCHANGED <<kernel, version, connections, count, max>>

\* The call returns -1: poll() failed, or there is nothing to wait for (and
\* it has slept instead).
PollFails ==
  /\ pc = "poll"
  /\ pc' = "destroy"
  /\ UNCHANGED <<kernel, version, i, table, unhandled>>

\* dispatcher_destroy() takes the entries from the end.
dispatcher_destroy ==
  /\ pc = "destroy"
  /\ IF count > 0
     THEN /\ dispatcher_remove_at(count - 1)
          /\ pc' = IF Undefined(count - 1) THEN "crashed" ELSE pc
     ELSE pc' = "end" /\ UNCHANGED <<kernel, table>>
  /\ UNCHANGED <<version, i, unhandled>>

-----------------------------------------------------------------------------
(* The loop over the events.                                               *)

At(event) ==
  /\ pc = "loop" /\ i < count
  /\ list[i].revents = event

Advance == i' = i + 1
Handled == unhandled' = unhandled \ {Socket(i)}

NoEvent ==
  /\ At("none")
  /\ Advance
  /\ UNCHANGED <<kernel, version, pc, table, unhandled>>

\* What is reported of entry i, and whether its handler is that of a listening
\* socket or of a connection: it is in the structure, whatever the descriptor.
AnEvent  == \E event \in {"hup", "in", "out", "other"} : At(event)
Calls(S) == version # "written" /\ connections[i] \in S

\* The events that the handler is told of as DISPATCH_CLOSED.
Ending == {"hup", "other"}

\* c->handler is NULL, or the structure has been freed, or builtin_echo_listen()
\* is told that its socket is closed: it adds that socket once more, with an
\* address that nobody has set.
CallIsUndefined ==
  /\ AnEvent
  /\ \/ version = "written" \/ Undefined(i)
     \/ Calls(Service) /\ \E event \in Ending : At(event)
  /\ pc' = "crashed"
  /\ UNCHANGED <<kernel, version, i, table, unhandled>>

\* Mutant: the index moves past the entry that has moved there.
RemoveCurrent_Skips ==
  /\ dispatcher_remove_at(i)
  /\ Advance

\* i-- in the loop that then does i++.
RemoveCurrent ==
  /\ dispatcher_remove_at(i)
  /\ UNCHANGED i

HangUp ==
  /\ \E event \in Ending : At(event)
  /\ Calls(Conn)
  /\ RemoveCurrent /\ Handled
  /\ UNCHANGED <<version, pc>>

\* The descriptor that builtin_echo_listen() adds: not the f that accept() has
\* returned, but the one that it was called with.
Given(f) == IF version = "stored" THEN list[i].fd ELSE f

\* accept(), which fails on what is not (any more) a listening socket.
AcceptOne ==
  \/ /\ Socket(i) \in Service
     /\ \E c \in Conn, f \in Fd :
          accept(Socket(i), c, f) /\ dispatcher_add_connection(c, Given(f))
     /\ pc' = IF Undefined(count) THEN "crashed" ELSE pc
  \/ /\ IF Socket(i) \in Service THEN accept_fails(Socket(i)) ELSE UNCHANGED kernel
     /\ UNCHANGED <<table, pc>>

\* Mutant: the index stays, to accept until there is nobody left.
ListenReadable_Stays ==
  /\ At("in") /\ Calls(Service)
  /\ AcceptOne
  /\ UNCHANGED i /\ Handled
  /\ UNCHANGED version

\* builtin_echo_listen().
ListenReadable ==
  /\ At("in") /\ Calls(Service)
  /\ AcceptOne
  /\ Advance /\ Handled
  /\ UNCHANGED version

\* send() takes all of the data, or stops in the middle.
Send ==
  /\ wire[Socket(i)] # "reset"
  /\ \E event \in {"in", "out"} : dispatcher_set_event(i, event)
  /\ Advance

\* builtin_handler_echo_connection() with data to send back ...
EchoReadable ==
  /\ At("in") /\ Calls(Conn) /\ Socket(i) \in Conn
  /\ recv_data(Socket(i))
  /\ Send /\ Handled
  /\ UNCHANGED <<version, pc>>

EchoWriteable ==
  /\ At("out") /\ Calls(Conn) /\ Socket(i) \in Conn
  /\ Send /\ Handled
  /\ UNCHANGED <<kernel, version, pc>>

\* ... and when recv() or send() finds that the connection has ended or is
\* none, or send() is interrupted: is_closing is set.  (SIGPIPE is in Echo.tla.)
EchoCloses ==
  /\ At("in") \/ At("out")
  /\ Calls(Conn)
  /\ RemoveCurrent /\ Handled
  /\ UNCHANGED <<version, pc>>

\* Mutant: the last entry is left out.
LoopDone_OffByOne ==
  /\ pc = "loop" /\ i + 1 >= count
  /\ pc' = "poll" /\ i' = 0
  /\ unhandled' = {}
  /\ UNCHANGED <<kernel, version, table>>

LoopDone ==
  /\ pc = "loop" /\ i >= count
  /\ pc' = "poll" /\ i' = 0
  /\ UNCHANGED <<kernel, version, table, unhandled>>

-----------------------------------------------------------------------------

PollInit ==
  /\ KernelInit
  /\ version \in Versions
  /\ pc = "setup" /\ i = 0
  /\ list = [k \in {} |-> NoOne]
  /\ connections = [k \in {0} |-> Cleared]
  /\ count = 0 /\ max = 1
  /\ unhandled = {}

PeersAct ==
  /\ Peers
  /\ UNCHANGED <<version, pc, i, table, unhandled>>

Loop ==
  \/ NoEvent \/ CallIsUndefined \/ HangUp \/ ListenReadable
  \/ EchoReadable \/ EchoWriteable \/ EchoCloses \/ LoopDone

PollNext ==
  \/ \E s \in Service : dispatcher_register_server(s)
  \/ StartDispatching \/ Poll \/ PollFails \/ dispatcher_destroy
  \/ Loop
  \/ PeersAct

PollSpec == PollInit /\ [][PollNext]_polls

(***************************************************************************)
(* The thread goes through its loop, and poll() returns when it has        *)
(* something certain to report.                                            *)
(***************************************************************************)
Certain == (\E k \in Entries : "none" \notin Reports(k)) /\ Poll

FairPollSpec == PollSpec /\ WF_polls(Loop) /\ WF_polls(Certain)

-----------------------------------------------------------------------------

(***************************************************************************)
(* There is always a place for the connection that is added next, which    *)
(* dispatcher_add_connection() fills before it makes the lists longer      *)
(* (dispatcher.c:263, 285-290).                                            *)
(***************************************************************************)
RoomForNext == count < max /\ DOMAIN connections = 0 .. max - 1

(***************************************************************************)
(* What builtin_echo_listen() has accepted is added to the lists, by the   *)
(* descriptor that send() and recv() use for it.  dispatcher.h:60-62 says  *)
(* "A handle for the operating system's internal data structure for this   *)
(* connection. Use this for 'send()' and 'recv()'"; builtin-echo.c:154     *)
(* adds `fd', the listening socket, and not `fd2'.                         *)
(***************************************************************************)
AcceptedIsListed ==
  \A f \in Fd : owner[f] \in Conn => \E k \in Entries : list[k].fd = f

(***************************************************************************)
(* No two entries have the same structure: it is, to dispatcher.c:130, the *)
(* "connection-specific structure" that is freed with the entry.  But what *)
(* dispatcher.c:267-268 finds by way of "add per=connection info" is the   *)
(* structure that a removal has copied to another entry (137), or has just *)
(* freed (131).                                                            *)
(***************************************************************************)
StructureIsOwn ==
  \A j, k \in Entries : connections[j] = connections[k] => j = k

(***************************************************************************)
(* What poll() has reported is handled in the same call, although entries  *)
(* are removed, moved and added under the loop; and nothing is handled     *)
(* that it has not reported (dispatcher.c:174-216).  An event is known by  *)
(* its socket, so this is not said of "stored", where a socket is in the   *)
(* table more than once; nor is the next property.                         *)
(***************************************************************************)
EveryEventIsHandled ==
  version # "stored" /\ pc \in {"poll", "loop"} =>
    unhandled = IF pc = "loop"
                THEN {Socket(k) : k \in {j \in Entries : j >= i /\ list[j].revents # "none"}}
                ELSE {}

(***************************************************************************)
(* The loop over the events comes to its end although its index goes back  *)
(* when an entry is removed and its bound grows when one is added: a step  *)
(* that changes anything in it either handles, once and for all, an event  *)
(* that was reported before the loop began, or passes an entry for which   *)
(* there is none (dispatcher.c:174-216).  Peers who keep connecting        *)
(* cannot hold the thread in it.                                           *)
(***************************************************************************)
LoopComesToEnd ==
  [][version # "stored" /\ pc = "loop" /\ pc' = "loop" =>
       \/ UNCHANGED <<i, table, unhandled>>
       \/ unhandled' \subseteq unhandled /\ unhandled' # unhandled
       \/ unhandled' = unhandled /\ count' - i' \in 0 .. count - i - 1]_polls

InTable(x) == \E k \in Entries : Socket(k) = x

Stopped == pc \in {"destroy", "end"}

(***************************************************************************)
(* A connection that its peer has reset is removed, whatever it waits for  *)
(* and whatever other connections do, unless the dispatcher is deleted     *)
(* (dispatcher.c:182-210).  In "stored" no connection is in the table, and *)
(* in "written" the program does not get that far.                         *)
(***************************************************************************)
ResetIsRemoved ==
  \A c \in Conn : (version = "described" /\ InTable(c) /\ wire[c] = "reset")
                    ~> (~InTable(c) \/ wire[c] # "reset" \/ Stopped)

(***************************************************************************)
(* A connection that waits on a listening socket is accepted, also when    *)
(* other peers keep connecting and leaving, if there are descriptors       *)
(* (builtin-echo.c:141-154, dispatcher.c:174-203).  In "stored" the        *)
(* listening socket may have been closed in place of a connection.         *)
(***************************************************************************)
WaitingIsAccepted ==
  <>[]~NoFdLeft => \A c \in Conn :
    (version = "described" /\ pc # "setup" /\ Waiting(c)) ~> (~Waiting(c) \/ Stopped)
=============================================================================
