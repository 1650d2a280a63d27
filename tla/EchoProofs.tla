----------------------------- MODULE EchoProofs -----------------------------
(***************************************************************************)
(* Proofs about Echo.tla, for every size of the buffer and every bound.    *)
(***************************************************************************)
EXTENDS Echo, SequenceTheorems, TLAPS

\* The buffer is empty whenever poll() waits for data, and recv() is only
\* called when poll() has waited for data.
Phases ==
  /\ doing # "send" => passed = 0
  /\ doing = "send" => 0 < len /\ passed <= len
  /\ doing = "new" => len = 0
  /\ doing \in {"poll", "loop"} /\ events = "in" => len <= 0
  /\ doing = "loop" => revents \subseteq {"hup", "err", events}
  /\ doing = "new" => events = "in"
  /\ doing \in {"poll", "loop"} /\ events = "out" => 0 < len

IInv == TypeOK /\ Phases /\ EchoesInOrder

LEMMA InitInvariant == Init => IInv
BY SizeAssumption, BoundAssumption
DEF Init, IInv, TypeOK, Phases, EchoesInOrder, Unsent

\* Steps that touch neither the buffer nor the streams.
LEMMA OutsideStep ==
  ASSUME IInv, PeerSends \/ PeerReads \/ PeerEnds \/ PollEntry
  PROVE  IInv'
<1> USE DEF IInv, TypeOK, Phases, EchoesInOrder, Unsent, peer, entry, memory
<1>1. CASE PeerSends
  BY <1>1 DEF PeerSends
<1>2. CASE PeerReads
  BY <1>2, BoundAssumption DEF PeerReads
<1>3. CASE PeerEnds
  BY <1>3 DEF PeerEnds
<1>4. CASE PollEntry
  <2>1. revents' \subseteq {"hup", "err", events}
    BY <1>4 DEF PollEntry, Ready, Hints
  <2> QED BY <1>4, <2>1 DEF PollEntry
<1> QED BY <1>1, <1>2, <1>3, <1>4

LEMMA HandlerStep ==
  ASSUME IInv, Handler
  PROVE  IInv'
<1> USE DEF IInv, TypeOK, Phases, EchoesInOrder, Unsent, peer, entry, memory
<1>1. CASE Created
  BY <1>1 DEF Created
<1>2. CASE HungUp
  BY <1>2 DEF HungUp, Closed, Remove
<1>3. CASE RecvData
  <2>1. PICK n \in 1 .. Lesser(Unread, Size) :
          /\ buf' = [k \in 1 .. Size |-> IF k <= n THEN taken + k ELSE buf[k]]
          /\ len' = n
          /\ taken' = taken + n
    BY <1>3 DEF RecvData
  <2>2. n \in 1 .. Size /\ n <= sent - taken
    BY <2>1, SizeAssumption DEF Lesser, Unread
  <2>3. events = "in" /\ doing = "loop"
    BY <1>3 DEF RecvData, Handles
  <2>4. echoed = taken
    BY <2>3
  <2>5. TypeOK'
    BY <1>3, <2>1, <2>2, SizeAssumption DEF RecvData
  <2>6. EchoesInOrder'
    BY <1>3, <2>1, <2>2, <2>4, SizeAssumption DEF RecvData
  <2>7. Phases'
    BY <1>3, <2>1, <2>2 DEF RecvData
  <2> QED BY <2>5, <2>6, <2>7
<1>4. CASE RecvEnd
  BY <1>4, SizeAssumption DEF RecvEnd, Handles, Remove
<1>5. CASE RecvFails
  BY <1>5, SizeAssumption DEF RecvFails, Handles, Remove
<1>6. CASE Writeable
  BY <1>6 DEF Writeable, Handles
<1>7. CASE Transfer
  <2>0. /\ Size \in Nat /\ len \in Int /\ passed \in Int /\ room \in Int /\ MaxRoom \in Nat
        /\ 0 <= passed /\ passed < len /\ len <= Size /\ 0 < room /\ room <= MaxRoom
        /\ doing = "send" /\ taken \in Int /\ echoed \in Int /\ 0 <= echoed
    BY <1>7, SizeAssumption, BoundAssumption DEF Transfer
  <2>1. /\ passed' = passed + 1 /\ echoed' = echoed + 1 /\ room' = room - 1
        /\ UNCHANGED <<line, sent, events, revents, data, buf, len, doing, taken>>
    BY <1>7 DEF Transfer
  <2>2. echoed + (len - passed) = taken /\ Unsent' = len - (passed + 1)
    BY <2>0, <2>1
  <2>3. \A k \in 1 .. len - passed : buf[passed + k] = echoed + k
    BY <2>0
  <2>4. \A k \in 1 .. len - (passed + 1) : buf[(passed + 1) + k] = (echoed + 1) + k
    <3>1. ASSUME NEW k \in 1 .. len - (passed + 1)
          PROVE  buf[(passed + 1) + k] = (echoed + 1) + k
      <4>1. k + 1 \in 1 .. len - passed
        BY <2>0
      <4>2. buf[passed + (k + 1)] = echoed + (k + 1)
        BY <2>3, <4>1
      <4>3. passed + (k + 1) = (passed + 1) + k /\ echoed + (k + 1) = (echoed + 1) + k
        BY <2>0
      <4> QED BY <4>2, <4>3
    <3> QED BY <3>1
  <2>5. EchoesInOrder'
    BY <2>0, <2>1, <2>2, <2>4
  <2>6. TypeOK'
    BY <2>0, <2>1, <2>2
  <2>7. Phases'
    BY <2>0, <2>1
  <2> QED BY <2>5, <2>6, <2>7
<1>8. CASE SendAll
  BY <1>8, SizeAssumption DEF SendAll, WaitFor
<1> QED BY <1>1, <1>2, <1>3, <1>4, <1>5, <1>6, <1>7, <1>8 DEF Handler

\* The memmove() keeps the order of what is left (builtin-echo.c:111-112).
LEMMA InterruptedStep ==
  ASSUME IInv, SendPart \/ SendFails
  PROVE  IInv'
<1> USE DEF IInv, TypeOK, Phases, EchoesInOrder, Unsent, peer, entry, memory
<1>1. CASE SendPart
  <2>0. /\ Size \in Nat /\ len \in Int /\ passed \in Int
        /\ 0 < passed /\ passed < len /\ len <= Size
    BY <1>1, SizeAssumption DEF SendPart
  <2>1. /\ len - passed \in 1 .. Size
        /\ \A k \in 1 .. len - passed : k \in 1 .. Size /\ passed + k \in 1 .. Size
    BY ONLY <2>0
  <2>2. \A k \in 1 .. len - passed : buf'[k] = echoed + k
    <3>1. \A k \in 1 .. len - passed : buf[passed + k] = echoed + k
      BY <2>0
    <3>2. \A k \in 1 .. Size : buf'[k] = IF k <= len - passed THEN buf[passed + k] ELSE buf[k]
      BY <1>1 DEF SendPart
    <3> QED BY ONLY <2>0, <2>1, <3>1, <3>2
  <2>3. buf' \in [1 .. Size -> Nat]
    <3>1. \A k \in 1 .. Size : (IF k <= len - passed THEN buf[passed + k] ELSE buf[k]) \in Nat
      <4>1. buf \in [1 .. Size -> Nat]
        OBVIOUS
      <4> QED BY ONLY <2>0, <2>1, <4>1
    <3>2. buf' = [k \in 1 .. Size |-> IF k <= len - passed THEN buf[passed + k] ELSE buf[k]]
      BY <1>1 DEF SendPart
    <3> QED BY ONLY <3>1, <3>2
  <2>4. /\ len' = len - passed /\ passed' = 0 /\ echoed' = echoed /\ taken' = taken
        /\ events' = "out" /\ revents' = {} /\ doing' = "poll"
        /\ UNCHANGED <<line, sent, room, data>>
    BY <1>1 DEF SendPart, WaitFor
  <2>5. TypeOK'
    BY <2>0, <2>1, <2>3, <2>4, SizeAssumption
  <2>6. Phases'
    BY <2>0, <2>4
  <2>7. EchoesInOrder'
    <3>1. echoed + (len - passed) = taken /\ echoed \in Nat
      BY <2>0
    <3>2. Unsent' = len - passed
      BY <2>0, <2>4
    <3>3. \A k \in 1 .. len - passed : buf'[0 + k] = echoed + k
      BY ONLY <2>0, <2>2
    <3> QED BY ONLY <2>4, <3>1, <3>2, <3>3 DEF EchoesInOrder
  <2> QED BY <2>5, <2>6, <2>7
<1>2. CASE SendFails
  BY <1>2 DEF SendFails, Remove
<1> QED BY <1>1, <1>2

LEMMA Inductive == IInv /\ [Next]_vars => IInv'
<1> SUFFICES ASSUME IInv, [Next]_vars PROVE IInv'
  OBVIOUS
<1>1. CASE Next
  BY <1>1, OutsideStep, HandlerStep, InterruptedStep DEF Next
<1>2. CASE UNCHANGED vars
  BY <1>2
  DEF vars, peer, entry, memory, IInv, TypeOK, Phases, EchoesInOrder, Unsent
<1> QED BY <1>1, <1>2

\* The type invariant of Echo.tla: in particular no more than the buffer
\* holds is ever said to be in it (builtin-echo.c:85).
THEOREM EchoTypes == Spec => []TypeOK
<1>1. IInv => TypeOK
  BY DEF IInv
<1> QED BY InitInvariant, Inductive, <1>1, PTL DEF Spec

\* What comes back is what was sent, in order and without a byte lost or
\* repeated, however often send() stops in between (builtin-echo.c:105-117).
THEOREM BytesStayInOrder == Spec => []EchoesInOrder
<1>1. IInv => EchoesInOrder
  BY DEF IInv
<1> QED BY InitInvariant, Inductive, <1>1, PTL DEF Spec

-----------------------------------------------------------------------------
(***************************************************************************)
(* Echo.tla implements ByteStream.tla.  Kept is the queue as the buffer    *)
(* holds it, State what has become of the connection.                      *)
(***************************************************************************)

Kept  == [k \in 1 .. Unsent |-> buf[passed + k]]
State == IF doing = "gone" THEN "closed"
         ELSE IF doing = "killed" THEN "killed" ELSE "open"

\* What the service keeps, and that the buffer holds it.
LEMMA KeptOK ==
  ASSUME IInv
  PROVE  /\ Unsent \in Nat /\ Unsent <= Size
         /\ Kept \in Seq(Nat) /\ Len(Kept) = Unsent
         /\ Unsent = 0 => Kept = <<>>
         /\ Unsent > 0 => Kept # <<>> /\ Head(Kept) = echoed + 1
<1>1. /\ Size \in Nat /\ len \in Int /\ len <= Size /\ passed \in Nat
      /\ echoed \in Nat /\ buf \in [1 .. Size -> Nat]
      /\ len > 0 => passed <= len
      /\ \A k \in 1 .. Unsent : buf[passed + k] = echoed + k
  BY SizeAssumption DEF IInv, TypeOK, Phases, EchoesInOrder
<1>2. Unsent \in Nat /\ Unsent <= Size
  BY <1>1 DEF Unsent
<1>3. \A k \in 1 .. Unsent : buf[passed + k] \in Nat
  BY <1>1, <1>2
<1>4. Kept \in [1 .. Unsent -> Nat]
  BY <1>3 DEF Kept
<1>5. Kept \in Seq(Nat) /\ Len(Kept) = Unsent
  BY <1>2, <1>4
<1>6. Unsent = 0 => Kept = <<>>
  BY <1>5
<1>7. ASSUME Unsent > 0 PROVE Kept # <<>> /\ Head(Kept) = echoed + 1
  <2>1. 1 \in 1 .. Unsent
    BY <1>2, <1>7
  <2>2. Kept[1] = buf[passed + 1]
    BY <2>1 DEF Kept
  <2>3. buf[passed + 1] = echoed + 1
    BY <1>1, <2>1
  <2> QED BY <1>5, <1>7, <2>2, <2>3
<1> QED BY <1>2, <1>5, <1>6, <1>7

\* The steps of the promise, said of Kept and State.
LEMMA AsStutter ==
  ASSUME UNCHANGED <<line, sent, taken, Kept, echoed, State>>
  PROVE  UNCHANGED Stream!vars
BY DEF Stream!vars, Kept, State

LEMMA AsGiveBack ==
  ASSUME State = "open", line # "reset", Kept # <<>>,
         echoed' = Head(Kept), Kept' = Tail(Kept),
         UNCHANGED <<line, sent, taken, State>>
  PROVE  Stream!GiveBack
BY DEF Stream!GiveBack, Kept, State

LEMMA AsTake ==
  ASSUME State = "open",
         NEW n \in 1 .. sent - taken,
         Len(Kept) + n <= Size,
         Kept' = Kept \o [k \in 1 .. n |-> taken + k], taken' = taken + n,
         UNCHANGED <<line, sent, echoed, State>>
  PROVE  Stream!Take
BY DEF Stream!Take, Kept, State

LEMMA AsClose ==
  ASSUME State = "open", line # "open" \/ Kept # <<>>, State' = "closed",
         UNCHANGED <<line, sent, taken, Kept, echoed>>
  PROVE  Stream!Close
BY DEF Stream!Close, Kept, State

LEMMA AsKill ==
  ASSUME State = "open", line = "reset", Kept # <<>>, State' = "killed",
         UNCHANGED <<line, sent, taken, Kept, echoed>>
  PROVE  Stream!Kill
BY DEF Stream!Kill, Kept, State

\* What is kept depends only on how much it is and on how far the echo is.
LEMMA KeptIs ==
  ASSUME IInv
  PROVE  Kept = [k \in 1 .. Unsent |-> echoed + k]
BY DEF IInv, EchoesInOrder, Kept

LEMMA StillKept ==
  ASSUME IInv, IInv', Unsent' = Unsent, echoed' = echoed
  PROVE  Kept' = Kept
<1>1. Kept' = [k \in 1 .. Unsent' |-> echoed' + k]
  BY DEF IInv, EchoesInOrder, Kept
<1> QED BY <1>1, KeptIs

\* A connection that counts as hung up has been ended by the peer.
Reported == revents \cap {"hup", "err"} # {} => line # "open"

LEMMA StillReported == Reported /\ [Next]_vars => Reported'
<1> SUFFICES ASSUME Reported, [Next]_vars PROVE Reported'
  OBVIOUS
<1> USE DEF Reported, peer, entry
<1>1. CASE PollEntry
  BY <1>1 DEF PollEntry, Ready, Hints
<1>2. CASE PeerEnds
  BY <1>2 DEF PeerEnds
<1>3. CASE PeerSends \/ PeerReads
  BY <1>3 DEF PeerSends, PeerReads
<1>4. CASE Handler
  BY <1>4 DEF Handler, Created, HungUp, RecvData, RecvEnd, RecvFails,
              Writeable, Transfer, SendAll, Remove, WaitFor
<1>5. CASE SendPart \/ SendFails
  BY <1>5 DEF SendPart, SendFails, Remove, WaitFor
<1>6. CASE UNCHANGED vars
  BY <1>6 DEF vars
<1> QED BY <1>1, <1>2, <1>3, <1>4, <1>5, <1>6 DEF Next

\* Every step is a step of the promise or changes nothing in it.
LEMMA StreamStep ==
  ASSUME IInv, IInv', Reported, [Next]_vars
  PROVE  [Stream!Next]_(Stream!vars)
<1> USE DEF peer, entry, memory
<1>0. /\ Unsent \in Nat /\ len \in Int /\ passed \in Nat
      /\ sent \in Nat /\ taken \in 0 .. sent /\ echoed \in Nat
      /\ echoed + Unsent = taken
      /\ doing # "send" => passed = 0
      /\ doing \in {"poll", "loop"} /\ events = "in" => len <= 0
      /\ doing = "loop" => revents \subseteq {"hup", "err", events}
  BY KeptOK DEF IInv, TypeOK, Phases, EchoesInOrder
<1>1. CASE PeerSends
  <2>1. Kept' = Kept /\ State' = State
    BY <1>1 DEF PeerSends, Kept, State, Unsent
  <2>2. Stream!Send
    BY <1>1, <2>1 DEF PeerSends, Stream!Send, Kept, State
  <2> QED BY <2>2 DEF Stream!Next
<1>2. CASE PeerEnds
  <2>1. Kept' = Kept /\ State' = State
    BY <1>2 DEF PeerEnds, Kept, State, Unsent
  <2>2. Stream!End
    BY <1>2, <2>1 DEF PeerEnds, Stream!End, Kept, State
  <2> QED BY <2>2 DEF Stream!Next
<1>3. CASE RecvData
  <2>1. PICK n \in 1 .. Lesser(Unread, Size) :
          len' = n /\ taken' = taken + n
    BY <1>3 DEF RecvData
  <2>2. n \in 1 .. sent - taken /\ n <= Size
    BY <1>0, <2>1, SizeAssumption DEF Lesser, Unread
  <2>3. Unsent = 0 /\ echoed = taken
    <3>1. events = "in" /\ doing = "loop"
      <4>1. doing = "loop" /\ "in" \in revents /\ revents \cap {"hup", "err"} = {}
        BY <1>3 DEF RecvData, Handles
      <4> QED BY <1>0, <4>1
    <3>2. len <= 0
      BY <1>0, <3>1
    <3>3. Unsent = 0
      BY <1>0, <3>2 DEF Unsent
    <3> QED BY <1>0, <3>3
  <2>4. Unsent' = n /\ echoed' = echoed
    BY <1>3, <2>1, <2>2 DEF RecvData, Unsent
  <2>5. Kept = <<>>
    BY <2>3, KeptOK
  <2>6. Kept' = [k \in 1 .. n |-> taken + k]
    <3>1. Kept' = [k \in 1 .. Unsent' |-> echoed' + k]
      BY DEF IInv, EchoesInOrder, Kept
    <3> QED BY <2>3, <2>4, <3>1
  <2>7. [k \in 1 .. n |-> taken + k] \in Seq(Nat)
    <3>1. \A k \in 1 .. n : taken + k \in Nat
      BY <1>0, <2>2
    <3>2. [k \in 1 .. n |-> taken + k] \in [1 .. n -> Nat]
      BY <3>1
    <3> QED BY <2>2, <3>2
  <2>8. Kept' = Kept \o [k \in 1 .. n |-> taken + k] /\ Len(Kept) + n <= Size
    BY <2>2, <2>5, <2>6, <2>7
  <2>9. State = "open" /\ State' = State /\ UNCHANGED <<line, sent, echoed>>
    BY <1>3 DEF RecvData, Handles, State
  <2> QED BY <2>1, <2>2, <2>8, <2>9, AsTake DEF Stream!Next
<1>4. CASE Transfer
  <2>1. Unsent > 0 /\ Unsent' = Unsent - 1 /\ echoed' = echoed + 1
    BY <1>0, <1>4 DEF Transfer, Unsent
  <2>2. Kept = [k \in 1 .. Unsent |-> echoed + k]
    BY KeptIs
  <2>3. Kept' = [k \in 1 .. Unsent - 1 |-> (echoed + 1) + k]
    <3>1. Kept' = [k \in 1 .. Unsent' |-> echoed' + k]
      BY DEF IInv, EchoesInOrder, Kept
    <3> QED BY <2>1, <3>1
  <2>4. Kept' = Tail(Kept)
    <3>1. Len(Kept) = Unsent /\ Kept \in Seq(Nat) /\ Kept # <<>> /\ Unsent \in Nat
      BY <2>1, KeptOK
    <3>2. /\ Tail(Kept) \in Seq(Nat) /\ Len(Tail(Kept)) = Unsent - 1
          /\ \A k \in 1 .. Unsent - 1 : Tail(Kept)[k] = Kept[k + 1]
      BY ONLY <3>1, HeadTailProperties
    <3>3. Tail(Kept) = [k \in 1 .. Unsent - 1 |-> Tail(Kept)[k]]
      <4>1. Tail(Kept) \in [1 .. Unsent - 1 -> Nat]
        BY ONLY <3>2, LenProperties
      <4> QED BY ONLY <4>1
    <3>4. ASSUME NEW k \in 1 .. Unsent - 1
          PROVE  Tail(Kept)[k] = (echoed + 1) + k
      <4>1. k + 1 \in 1 .. Unsent /\ echoed + (k + 1) = (echoed + 1) + k
        BY <1>0, <2>1
      <4>2. Kept[k + 1] = echoed + (k + 1)
        BY ONLY <2>2, <4>1
      <4> QED BY ONLY <3>2, <4>1, <4>2
    <3>5. Tail(Kept) = [k \in 1 .. Unsent - 1 |-> (echoed + 1) + k]
      BY ONLY <3>3, <3>4
    <3> QED BY <2>3, <3>5
  <2>5. echoed' = Head(Kept) /\ Kept # <<>>
    BY <2>1, KeptOK
  <2>6. State = "open" /\ State' = State /\ line # "reset" /\ UNCHANGED <<line, sent, taken>>
    BY <1>4 DEF Transfer, State
  <2> QED BY <2>4, <2>5, <2>6, AsGiveBack DEF Stream!Next
<1>5. CASE HungUp
  <2>1. Kept' = Kept
    BY <1>5 DEF HungUp, Closed, Remove, Kept, Unsent
  <2>2. /\ State = "open" /\ State' = "closed" /\ line # "open"
        /\ UNCHANGED <<line, sent, taken, echoed>>
    BY <1>5 DEF HungUp, Closed, Remove, State, Reported
  <2> QED BY <2>1, <2>2, AsClose DEF Stream!Next
<1>6. CASE RecvEnd \/ RecvFails
  <2>1. Unsent' = Unsent /\ echoed' = echoed
    BY <1>0, <1>6 DEF RecvEnd, RecvFails, Handles, Unsent
  <2>2. /\ State = "open" /\ State' = "closed" /\ line # "open"
        /\ UNCHANGED <<line, sent, taken, echoed>>
    BY <1>6 DEF RecvEnd, RecvFails, Handles, Remove, State
  <2> QED BY <2>1, <2>2, StillKept, AsClose DEF Stream!Next
<1>7. CASE SendFails
  <2>1. Kept' = Kept /\ Unsent > 0
    BY <1>0, <1>7 DEF SendFails, Remove, Kept, Unsent
  <2>2. Kept # <<>>
    BY <2>1, KeptOK
  <2>3. State = "open" /\ UNCHANGED <<line, sent, taken, echoed>>
    BY <1>7 DEF SendFails, State
  <2>4. State' = "closed" \/ (State' = "killed" /\ line = "reset")
    BY <1>7 DEF SendFails, Remove, State
  <2> QED BY <2>1, <2>2, <2>3, <2>4, AsClose, AsKill DEF Stream!Next
<1>8. CASE Created \/ SendAll \/ SendPart
  <2>1. Unsent' = Unsent /\ UNCHANGED <<line, sent, taken, echoed, State>>
    <3>1. CASE Created
      BY <3>1 DEF Created, Unsent, State, IInv, Phases
    <3>2. CASE SendAll
      BY <1>0, <3>2 DEF SendAll, WaitFor, Unsent, State
    <3>3. CASE SendPart
      BY <1>0, <3>3 DEF SendPart, WaitFor, Unsent, State
    <3> QED BY <1>8, <3>1, <3>2, <3>3
  <2> QED BY <2>1, StillKept, AsStutter
<1>9. CASE PeerReads \/ PollEntry \/ Writeable \/ UNCHANGED vars
  <2>1. Unsent' = Unsent /\ UNCHANGED <<line, sent, taken, echoed, State>>
    <3>1. CASE PeerReads
      BY <3>1 DEF PeerReads, Unsent, State
    <3>2. CASE PollEntry
      BY <3>2 DEF PollEntry, Unsent, State
    <3>3. CASE Writeable
      BY <1>0, <3>3 DEF Writeable, Handles, Unsent, State
    <3>4. CASE UNCHANGED vars
      BY <3>4 DEF vars, Unsent, State
    <3> QED BY <1>9, <3>1, <3>2, <3>3, <3>4
  <2> QED BY <2>1, StillKept, AsStutter
<1> QED
  BY <1>1, <1>2, <1>3, <1>4, <1>5, <1>6, <1>7, <1>8, <1>9 DEF Next, Handler

LEMMA StreamInit ==
  ASSUME Init
  PROVE  Stream!Init /\ Reported
<1>1. Unsent = 0
  BY DEF Init, Unsent
<1>2. Kept = <<>>
  BY <1>1, InitInvariant, KeptOK
<1> QED BY <1>2 DEF Init, Stream!Init, Kept, State, Reported

\* The echo service is a queue that gives a peer its own bytes back, holds no
\* more than the buffer does, and does not hang up on a peer that is there
\* and is owed nothing (builtin-echo.c:83-120).
THEOREM ServiceIsAStream == Spec => KeepsStream
<1>1. Init => Stream!Init /\ IInv /\ Reported
  BY InitInvariant, StreamInit
<1>2. IInv /\ Reported /\ [Next]_vars => IInv' /\ Reported'
  BY Inductive, StillReported
<1>3. IInv /\ IInv' /\ Reported /\ [Next]_vars => [Stream!Next]_(Stream!vars)
  BY StreamStep
<1> QED BY <1>1, <1>2, <1>3, PTL DEF Spec, KeepsStream, Stream!Spec
=============================================================================
