-------------------------- MODULE Signaling_proofs --------------------------
(***************************************************************************)
(* Proofs about Signaling, for any number of connections, any channel      *)
(* capacity and any limits.                                                *)
(***************************************************************************)
EXTENDS Signaling, FiniteSetTheorems, TLAPS

\* What Append and Tail do to a queue, position by position.
LEMMA QueueFacts ==
    ASSUME NEW S, NEW q \in Seq(S)
    PROVE  /\ Len(q) \in Nat
           /\ \A e \in S : /\ Append(q, e) \in Seq(S)
                           /\ Len(Append(q, e)) = Len(q) + 1
                           /\ \A i \in 1..Len(q) : Append(q, e)[i] = q[i]
                           /\ Append(q, e)[Len(q) + 1] = e
           /\ q # <<>> => /\ Tail(q) \in Seq(S)
                          /\ Len(Tail(q)) = Len(q) - 1
                          /\ Head(q) = q[1] /\ q[1] \in S /\ 1 \in 1..Len(q)
                          /\ \A i \in 1..Len(Tail(q)) : Tail(q)[i] = q[i + 1]
  OBVIOUS

LEMMA MessageTypes ==
    /\ Error \in Messages
    /\ \A l \in Lists : Hello(l) \in Messages
    /\ \A c \in Conns : /\ Left(c) \in Messages /\ Sdp(c) \in Messages
                        /\ Join(c, 0) \in Messages
                        /\ \A i \in Infos : Update(c, i) \in Messages
  BY DEF Messages

\* The fields of a message are those of its type.
LEMMA MessageFields ==
    ASSUME NEW m \in Messages
    PROVE  /\ m.type = "Hello" => m.peers \in Lists
           /\ m.type \in {"Join", "Update"} => m.from \in Conns /\ m.info \in Infos
           /\ m.type = "Left" => m.from \in Conns
  BY LimitsAssumption DEF Messages, Hello, Join, Update, Left, Sdp, Error, Infos

LEMMA ListTypes ==
    /\ 0 \in Infos
    /\ Nobody \in Lists
    /\ Unknown \notin Infos
  BY LimitsAssumption, UnknownAssumption DEF Infos, Lists, Nobody

(***************************************************************************)
(* Type correctness.                                                       *)
(***************************************************************************)
LEMMA SendTypes ==
    ASSUME TypeOK, NEW p \in Conns, NEW m \in Messages, Send(p, m)
    PROVE  chan' \in [Conns -> Seq(Messages)]
<1>1. chan[p] \in Seq(Messages)
  BY DEF TypeOK
<1>2. Append(chan[p], m) \in Seq(Messages)
  BY <1>1, QueueFacts
<1> QED BY <1>2 DEF Send, TypeOK

LEMMA AppliedTypes ==
    ASSUME NEW v \in Lists, NEW m \in Messages
    PROVE  Applied(v, m) \in Lists
<1>1. CASE m.type = "Hello"
  <2>1. m.peers \in Lists
    BY <1>1, MessageFields
  <2> QED BY <1>1, <2>1 DEF Applied, Lists
<1>2. CASE m.type \in {"Join", "Update"}
  <2>1. m.from \in Conns /\ m.info \in Infos
    BY <1>2, MessageFields
  <2> QED BY <1>2, <2>1 DEF Applied, Lists
<1>3. CASE m.type = "Left"
  BY <1>3, MessageFields DEF Applied, Lists
<1>4. CASE m.type \notin {"Hello", "Join", "Update", "Left"}
  BY <1>4 DEF Applied
<1> QED BY <1>1, <1>2, <1>3, <1>4

LEMMA HandleTypes ==
    ASSUME TypeOK, NEW c \in Conns, Handle(c)
    PROVE  TypeOK'
<1> USE DEF TypeOK, RxDropped
<1>1. ASSUME NEW p \in Conns, SendJoin(c, p)
      PROVE  TypeOK'
  BY <1>1, SendTypes, MessageTypes DEF SendJoin
<1>2. CASE SendHello(c)
  <2>1. Hello(hello[c]) \in Messages
    BY MessageTypes
  <2> QED BY <1>2, <2>1, SendTypes, ListTypes DEF SendHello
<1>3. CASE RecvEnded(c)
  BY <1>3, ListTypes DEF RecvEnded
<1>4. CASE Remove(c)
  BY <1>4 DEF Remove
<1>5. ASSUME NEW p \in Conns, SendLeft(c, p)
      PROVE  TypeOK'
  BY <1>5, SendTypes, MessageTypes DEF SendLeft
<1>6. CASE Gone(c)
  BY <1>6 DEF Gone
<1> QED BY <1>1, <1>2, <1>3, <1>4, <1>5, <1>6 DEF Handle

LEMMA TaskTypes ==
    ASSUME TypeOK, NEW c \in Conns, RecvTask(c) \/ SendTask(c)
    PROVE  TypeOK'
<1> USE DEF TypeOK, RxDropped, srvVars
<1>1. ASSUME NEW p \in Conns, RecvSend(c, p)
      PROVE  TypeOK'
  <2>1. chan' \in [Conns -> Seq(Messages)]
    BY <1>1, SendTypes DEF RecvSend
  <2>2. outbox' \in [Conns -> [to : SUBSET Conns, msg : Messages]]
    BY ZenonT(60), <1>1 DEF RecvSend
  <2> QED BY <1>1, <2>1, <2>2 DEF RecvSend
<1>2. CASE RecvClosed(c)
  BY <1>2 DEF RecvClosed
<1>3. CASE AbortRecv(c)
  BY <1>3, MessageTypes DEF AbortRecv, Idle
<1>4. CASE Deliver(c)
  <2>1. chan[c] \in Seq(Messages) /\ chan[c] # <<>>
    BY <1>4 DEF Deliver
  <2>2. Tail(chan[c]) \in Seq(Messages) /\ Head(chan[c]) \in Messages
    BY <2>1, QueueFacts
  <2>3. Applied(view[c], Head(chan[c])) \in Lists
    BY <2>2, AppliedTypes
  <2> QED BY <1>4, <2>2, <2>3 DEF Deliver
<1>5. CASE SendFailed(c)
  BY <1>5 DEF SendFailed
<1> QED BY <1>1, <1>2, <1>3, <1>4, <1>5 DEF RecvTask, SendTask

LEMMA ClientTypes ==
    ASSUME TypeOK, NEW c \in Conns, Client(c)
    PROVE  TypeOK'
<1> USE DEF TypeOK, RxDropped, srvVars
<1>0. /\ count < MaxRequests => count + 1 \in 0..MaxRequests
      /\ sent < MaxMsgs => sent + 1 \in Infos
  BY LimitsAssumption DEF Infos
<1>1. CASE Refuse(c)
  BY <1>1 DEF Refuse
<1>2. CASE Admit(c)
  <2>1. [d \in Conns |-> IF d \in members THEN info[d] ELSE Unknown] \in Lists
    BY DEF Lists
  <2> QED BY <1>0, <1>2, <2>1 DEF Admit, Enter
<1>3. CASE RecvUpdate(c)
  <2>1. Update(c, sent + 1) \in Messages /\ sent + 1 \in Infos
    BY <1>0, <1>3, MessageTypes DEF RecvUpdate, Receiving
  <2>2. /\ info' \in [Conns -> Infos]
        /\ outbox' \in [Conns -> [to : SUBSET Conns, msg : Messages]]
    <3>1. CASE c \in members
      <4>1. [to |-> members \ {c}, msg |-> Update(c, sent + 1)] \in [to : SUBSET Conns, msg : Messages]
        BY <2>1
      <4>2. info' = [info EXCEPT ![c] = sent + 1]
        BY <1>3, <3>1 DEF RecvUpdate
      <4>3. outbox' = [outbox EXCEPT ![c] = [to |-> members \ {c}, msg |-> Update(c, sent + 1)]]
        BY <1>3, <3>1 DEF RecvUpdate
      <4> QED BY <2>1, <4>1, <4>2, <4>3
    <3>2. CASE c \notin members
      BY <1>3, <3>2 DEF RecvUpdate
    <3> QED BY <3>1, <3>2
  <2> QED BY <1>0, <1>3, <2>2 DEF RecvUpdate, Receiving
<1>4. ASSUME NEW t \in Conns, RecvSdp(c, t)
      PROVE  TypeOK'
  BY <1>0, <1>4, MessageTypes DEF RecvSdp, Receiving
<1>5. CASE RecvLimited(c)
  BY <1>0, <1>5, SendTypes, MessageTypes DEF RecvLimited, Receiving
<1>6. CASE ClientCloses(c)
  BY <1>6, ListTypes DEF ClientCloses
<1> QED BY <1>1, <1>2, <1>3, <1>4, <1>5, <1>6 DEF Client

\* Every reachable state of the server, its channels and its clients is well
\* typed; among other things no hour serves more than MaxRequests requests.
THEOREM TypeCorrect == Spec => []TypeOK
<1>1. Init => TypeOK
  BY ListTypes, MessageTypes, LimitsAssumption DEF Init, TypeOK, Idle
<1>2. TypeOK /\ [Next]_vars => TypeOK'
  <2> SUFFICES ASSUME TypeOK, [Next]_vars PROVE TypeOK'
    OBVIOUS
  <2>1. CASE UNCHANGED vars
    BY <2>1 DEF vars, TypeOK, RxDropped
  <2>2. CASE ClearCounts
    BY <2>2, LimitsAssumption DEF ClearCounts, TypeOK, RxDropped
  <2> QED BY <2>1, <2>2, HandleTypes, TaskTypes, ClientTypes DEF Next
<1> QED BY <1>1, <1>2, PTL DEF Spec

(***************************************************************************)
(* The connection limit.                                                   *)
(***************************************************************************)
LEMMA MembersFinite ==
    ASSUME TypeOK
    PROVE  IsFiniteSet(members) /\ Cardinality(members) \in Nat
<1>1. IsFiniteSet(members)
  BY ConnsAssumption, FS_Subset DEF TypeOK
<1> QED BY <1>1, FS_CardinalityType

\* A group never holds more than MaxConnections connections.
THEOREM GroupLimited == Spec => []GroupLimit
<1>1. Init => GroupLimit
  BY LimitsAssumption, FS_EmptySet DEF Init, GroupLimit
<1>2. TypeOK /\ GroupLimit /\ [Next]_vars => GroupLimit'
  <2> SUFFICES ASSUME TypeOK, GroupLimit, [Next]_vars PROVE GroupLimit'
    OBVIOUS
  <2>1. ASSUME NEW c \in Conns, Admit(c)
        PROVE  GroupLimit'
    <3>1. Cardinality(members \cup {c}) \in {Cardinality(members), Cardinality(members) + 1}
      <4>1. Cardinality(members \cup {c}) =
              IF c \in members THEN Cardinality(members) ELSE Cardinality(members) + 1
        BY MembersFinite, FS_AddElement
      <4> QED BY <4>1
    <3> QED BY <2>1, <3>1, MembersFinite, LimitsAssumption DEF Admit, Enter, GroupLimit
  <2>2. ASSUME NEW c \in Conns, Remove(c)
        PROVE  GroupLimit'
    <3>1. Cardinality(members \ {c}) \in {Cardinality(members), Cardinality(members) - 1}
      <4>1. Cardinality(members \ {c}) =
              IF c \in members THEN Cardinality(members) - 1 ELSE Cardinality(members)
        BY MembersFinite, FS_RemoveElement
      <4> QED BY <4>1
    <3> QED BY <2>2, <3>1, MembersFinite, LimitsAssumption DEF Remove, GroupLimit
  <2>3. CASE members' = members
    BY <2>3 DEF GroupLimit
  <2>4. \/ members' = members
        \/ \E c \in Conns : Admit(c) \/ Remove(c)
    BY DEF Next, vars, Handle, RecvTask, SendTask, Client, SendJoin, SendHello, RecvEnded,
           SendLeft, Gone, RecvSend, RecvClosed, AbortRecv, Deliver, SendFailed, Refuse,
           RecvUpdate, RecvSdp, RecvLimited, ClientCloses, ClearCounts, srvVars
  <2> QED BY <2>1, <2>2, <2>3, <2>4
<1> QED BY <1>1, <1>2, TypeCorrect, PTL DEF Spec

(***************************************************************************)
(* Nobody is missed.                                                       *)
(***************************************************************************)

\* Messages that let c know of d.
Tells(m, d) ==
    \/ m.type \in {"Join", "Update"} /\ m.from = d
    \/ m.type = "Hello" /\ m.peers[d] # Unknown

LEMMA AnnouncedTells ==
    ASSUME NEW c, NEW d
    PROVE  Announced(c, d) <=>
             \/ \E i \in 1..Len(chan[c]) : Tells(chan[c][i], d)
             \/ phase[d] = "joining" /\ c \in todo[d]
             \/ phase[c] = "joining" /\ hello[c][d] # Unknown
  BY DEF Announced, Tells

\* A send adds a message to one channel, or none.
LEMMA SendEffect ==
    ASSUME TypeOK, NEW p \in Conns, NEW m \in Messages, Send(p, m)
    PROVE  /\ \A c \in Conns : \A i \in 1..Len(chan[c]) :
                 i \in 1..Len(chan'[c]) /\ chan'[c][i] = chan[c][i]
           /\ \A c \in Conns : \A i \in 1..Len(chan'[c]) :
                 \/ i \in 1..Len(chan[c]) /\ chan'[c][i] = chan[c][i]
                 \/ c = p /\ chan'[c][i] = m
           /\ ~Closed(p) => \E i \in 1..Len(chan'[p]) : chan'[p][i] = m
<1>1. chan \in [Conns -> Seq(Messages)]
  BY DEF TypeOK
<1>2. CASE Closed(p)
  BY <1>1, <1>2 DEF Send
<1>3. CASE ~Closed(p)
  <2>1. chan' = [chan EXCEPT ![p] = Append(chan[p], m)]
    BY <1>3 DEF Send
  <2>2. /\ Len(chan[p]) \in Nat
        /\ Len(chan'[p]) = Len(chan[p]) + 1
        /\ \A i \in 1..Len(chan[p]) : chan'[p][i] = chan[p][i]
        /\ chan'[p][Len(chan[p]) + 1] = m
    BY <1>1, <2>1, QueueFacts
  <2>3. \A c \in Conns : c # p => chan'[c] = chan[c]
    BY <1>1, <2>1
  <2>4. \A c \in Conns : \A i \in 1..Len(chan[c]) :
           i \in 1..Len(chan'[c]) /\ chan'[c][i] = chan[c][i]
    BY <2>2, <2>3
  <2>5. \A c \in Conns : \A i \in 1..Len(chan'[c]) :
           \/ i \in 1..Len(chan[c]) /\ chan'[c][i] = chan[c][i]
           \/ c = p /\ chan'[c][i] = m
    BY <2>2, <2>3
  <2>6. \E i \in 1..Len(chan'[p]) : chan'[p][i] = m
    BY <2>2
  <2> QED BY <2>4, <2>5, <2>6
<1> QED BY <1>2, <1>3

\* A message that is no Left, or that of a connection out of the map, does no
\* harm to LeftHasLeft.
LEMMA SendLeftHasLeft ==
    ASSUME TypeOK, LeftHasLeft, NEW p \in Conns, NEW m \in Messages, Send(p, m),
           m.type = "Left" => phase'[m.from] \in {"announcing", "gone"},
           \A d \in Conns : phase[d] \in {"announcing", "gone"} =>
                            phase'[d] \in {"announcing", "gone"}
    PROVE  LeftHasLeft'
<1> SUFFICES ASSUME NEW c \in Conns, NEW i \in 1..Len(chan'[c]), chan'[c][i].type = "Left"
             PROVE  phase'[chan'[c][i].from] \in {"announcing", "gone"}
  BY DEF LeftHasLeft
<1>1. CASE i \in 1..Len(chan[c]) /\ chan'[c][i] = chan[c][i]
  <2>1. chan[c] \in Seq(Messages)
    BY DEF TypeOK
  <2>2. chan[c][i] \in Messages
    BY <1>1, <2>1
  <2>3. chan[c][i].from \in Conns
    BY <1>1, <2>2, MessageFields
  <2> QED BY <1>1, <2>3 DEF LeftHasLeft
<1>2. CASE chan'[c][i] = m
  BY <1>2
<1> QED BY <1>1, <1>2, SendEffect

\* What a send leaves of Announced.
LEMMA SendAnnounced ==
    ASSUME TypeOK, NEW p \in Conns, NEW m \in Messages, Send(p, m),
           NEW c \in Conns, NEW d,
           \E i \in 1..Len(chan[c]) : Tells(chan[c][i], d)
    PROVE  \E i \in 1..Len(chan'[c]) : Tells(chan'[c][i], d)
<1>1. PICK i \in 1..Len(chan[c]) : Tells(chan[c][i], d)
  OBVIOUS
<1>2. i \in 1..Len(chan'[c]) /\ chan'[c][i] = chan[c][i]
  BY SendEffect
<1> QED BY <1>1, <1>2

\* Delivering the head of a channel keeps what the client knows and is to be
\* told of every member.
LEMMA DeliverMissed ==
    ASSUME TypeOK, IInv, NEW x \in Conns, Deliver(x)
    PROVE  NobodyMissed'
<1>1. /\ phase[x] = "running" /\ chan[x] # <<>> /\ open[x]
      /\ chan' = [chan EXCEPT ![x] = Tail(chan[x])]
      /\ view' = [view EXCEPT ![x] = Applied(view[x], Head(chan[x]))]
      /\ UNCHANGED <<phase, members, todo, hello, open>>
  BY DEF Deliver, srvVars
<1>2. /\ chan \in [Conns -> Seq(Messages)] /\ view \in [Conns -> Lists] /\ members \subseteq Conns
  BY DEF TypeOK
<1> DEFINE h == Head(chan[x])
<1>3. /\ h \in Messages /\ h = chan[x][1] /\ 1 \in 1..Len(chan[x])
      /\ Len(chan[x]) \in Nat
      /\ chan'[x] = Tail(chan[x]) /\ Len(chan'[x]) = Len(chan[x]) - 1
      /\ \A i \in 1..Len(chan'[x]) : chan'[x][i] = chan[x][i + 1]
  BY <1>1, <1>2, QueueFacts
<1>4. view'[x] = Applied(view[x], h) /\ view[x] \in Lists
  BY <1>1, <1>2
<1> SUFFICES ASSUME NEW c \in members, NEW d \in members, c # d, open[c]
             PROVE  view'[c][d] # Unknown \/ Announced(c, d)'
  BY <1>1 DEF NobodyMissed
<1>5. view[c][d] # Unknown \/ Announced(c, d)
  BY DEF IInv, NobodyMissed
<1>6. CASE c # x
  BY <1>1, <1>2, <1>5, <1>6 DEF Announced
<1>7. CASE c = x
  <2>1. ~(h.type = "Left" /\ h.from = d)
    <3>1. phase[d] \notin {"announcing", "gone"}
      BY <1>2 DEF IInv, MembersServed
    <3>2. chan[x][1].type = "Left" => phase[chan[x][1].from] \in {"announcing", "gone"}
      BY <1>3 DEF IInv, LeftHasLeft
    <3> QED BY <1>3, <3>1, <3>2
  <2>2. ASSUME Tells(h, d)
        PROVE  view'[x][d] # Unknown
    <3>1. CASE h.type \in {"Join", "Update"}
      BY <1>2, <1>3, <1>4, <2>2, <3>1, MessageFields, ListTypes DEF Applied, Tells, Lists
    <3>2. CASE h.type = "Hello"
      BY <1>2, <1>3, <1>4, <2>2, <3>2, MessageFields DEF Applied, Tells, Lists
    <3> QED BY <2>2, <3>1, <3>2 DEF Tells
  <2>3. ASSUME view[x][d] # Unknown
        PROVE  view'[x][d] # Unknown
    <3>1. CASE h.type \in {"Join", "Update"}
      BY <1>2, <1>3, <1>4, <2>3, <3>1, MessageFields, ListTypes DEF Applied, Lists
    <3>2. CASE h.type = "Hello"
      BY <1>2, <1>3, <1>4, <2>3, <3>2 DEF Applied, Lists
    <3>3. CASE h.type = "Left"
      BY <1>2, <1>3, <1>4, <2>1, <2>3, <3>3, MessageFields DEF Applied, Lists
    <3>4. CASE h.type \notin {"Join", "Update", "Hello", "Left"}
      BY <1>4, <2>3, <3>4 DEF Applied
    <3> QED BY <3>1, <3>2, <3>3, <3>4
  <2>4. ASSUME NEW i \in 1..Len(chan[x]), Tells(chan[x][i], d), i # 1
        PROVE  Announced(x, d)'
    <3>1. i - 1 \in 1..Len(chan'[x]) /\ chan'[x][i - 1] = chan[x][i]
      BY <1>3, <2>4
    <3> QED BY <2>4, <3>1 DEF Announced, Tells
  <2>5. CASE \E i \in 1..Len(chan[x]) : Tells(chan[x][i], d)
    BY <1>3, <1>7, <2>2, <2>4, <2>5
  <2>6. CASE (phase[d] = "joining" /\ c \in todo[d]) \/ (phase[c] = "joining" /\ hello[c][d] # Unknown)
    BY <1>1, <2>6 DEF Announced
  <2> QED BY <1>5, <1>7, <2>3, <2>5, <2>6, AnnouncedTells
<1> QED BY <1>6, <1>7

\* The steps that keep membership, and say nothing unless by a send.
LEMMA MissedFrame ==
    ASSUME IInv, members' \subseteq members, view' = view,
           \A c \in members' : open'[c] => open[c],
           \A c, d \in members' : c # d /\ open'[c] /\ Announced(c, d) => Announced(c, d)'
    PROVE  NobodyMissed'
  BY DEF IInv, NobodyMissed

\* handle_socket says Join.
LEMMA InvSendJoin ==
    ASSUME TypeOK, IInv, NEW x \in Conns, NEW p \in Conns, SendJoin(x, p)
    PROVE  IInv'
<1>1. /\ Send(p, Join(x, 0)) /\ phase[x] = "joining"
      /\ todo' = [todo EXCEPT ![x] = @ \ {p}]
      /\ UNCHANGED <<phase, members, hello, outbox, open, view>>
  BY DEF SendJoin
<1>2. Join(x, 0) \in Messages /\ Join(x, 0).type = "Join" /\ Join(x, 0).from = x
  BY MessageTypes DEF Join
<1>3. MembersServed' /\ ClosedNotOpen' /\ OutboxNoLeft'
  BY <1>1 DEF IInv, MembersServed, ClosedNotOpen, OutboxNoLeft
<1>4. LeftHasLeft'
  BY <1>1, <1>2, SendLeftHasLeft DEF IInv
<1>5. ASSUME NEW c \in members, NEW d \in members, open[c], Announced(c, d)
      PROVE  Announced(c, d)'
  <2>1. c \in Conns /\ d \in Conns
    BY DEF TypeOK
  <2>2. CASE \E i \in 1..Len(chan[c]) : Tells(chan[c][i], d)
    <3>1. \E i \in 1..Len(chan'[c]) : Tells(chan'[c][i], d)
      BY <1>1, <1>2, <2>1, <2>2, SendAnnounced
    <3> QED BY <3>1 DEF Announced, Tells
  <2>3. CASE phase[c] = "joining" /\ hello[c][d] # Unknown
    BY <1>1, <2>3 DEF Announced
  <2>4. CASE phase[d] = "joining" /\ c \in todo[d] /\ ~(d = x /\ c = p)
    BY <1>1, <2>1, <2>4 DEF Announced, TypeOK
  <2>5. CASE d = x /\ c = p
    <3>1. ~Closed(p)
      BY <1>5, <2>1, <2>5 DEF IInv, ClosedNotOpen, Closed, RxDropped
    <3>2. \E i \in 1..Len(chan'[p]) : chan'[p][i] = Join(x, 0)
      BY <1>1, <1>2, <3>1, SendEffect
    <3> QED BY <1>2, <2>5, <3>2 DEF Announced
  <2> QED BY <1>5, <2>2, <2>3, <2>4, <2>5, AnnouncedTells
<1>6. NobodyMissed'
  BY <1>1, <1>5, MissedFrame
<1> QED BY <1>3, <1>4, <1>6 DEF IInv

\* handle_socket says Hello.
LEMMA InvSendHello ==
    ASSUME TypeOK, IInv, NEW x \in Conns, SendHello(x)
    PROVE  IInv'
<1> DEFINE m == Hello(hello[x])
<1>1. /\ Send(x, m) /\ phase[x] = "joining" /\ todo[x] = {}
      /\ phase' = [phase EXCEPT ![x] = "running"]
      /\ hello' = [hello EXCEPT ![x] = Nobody]
      /\ UNCHANGED <<members, todo, outbox, open, view>>
  BY DEF SendHello
<1>2. hello[x] \in Lists /\ phase \in [Conns -> {"out", "refused", "joining", "running"} \cup RxDropped]
  BY DEF TypeOK
<1>3. m \in Messages /\ m.type = "Hello" /\ m.peers = hello[x]
  BY <1>2, MessageTypes DEF Hello
<1>4. MembersServed' /\ ClosedNotOpen' /\ OutboxNoLeft'
  BY <1>1, <1>2 DEF IInv, MembersServed, ClosedNotOpen, OutboxNoLeft
<1>5. LeftHasLeft'
  <2>1. \A d \in Conns : phase[d] \in {"announcing", "gone"} => phase'[d] \in {"announcing", "gone"}
    BY <1>1, <1>2
  <2> HIDE DEF m
  <2> QED BY <1>1, <1>3, <2>1, SendLeftHasLeft DEF IInv
<1>6. ASSUME NEW c \in members, NEW d \in members, open[c], Announced(c, d)
      PROVE  Announced(c, d)'
  <2>1. c \in Conns /\ d \in Conns
    BY DEF TypeOK
  <2>2. CASE \E i \in 1..Len(chan[c]) : Tells(chan[c][i], d)
    <3> HIDE DEF m
    <3>1. \E i \in 1..Len(chan'[c]) : Tells(chan'[c][i], d)
      BY <1>1, <1>3, <2>1, <2>2, SendAnnounced
    <3> QED BY <3>1 DEF Announced, Tells
  <2>3. CASE phase[c] = "joining" /\ hello[c][d] # Unknown /\ c # x
    BY <1>1, <1>2, <2>1, <2>3 DEF Announced, TypeOK
  <2>4. CASE phase[d] = "joining" /\ c \in todo[d]
    BY <1>1, <1>2, <2>1, <2>4 DEF Announced
  <2>5. CASE c = x /\ hello[c][d] # Unknown
    <3>1. ~Closed(x)
      BY <1>1 DEF Closed, RxDropped
    <3> HIDE DEF m
    <3>2. \E i \in 1..Len(chan'[x]) : chan'[x][i] = m
      BY <1>1, <1>3, <3>1, SendEffect
    <3> QED BY <1>3, <2>5, <3>2 DEF Announced
  <2> QED BY <1>6, <2>2, <2>3, <2>4, <2>5, AnnouncedTells
<1>7. NobodyMissed'
  BY <1>1, <1>6, MissedFrame
<1> QED BY <1>4, <1>5, <1>7 DEF IInv

\* A message of recv_task, a Left or an Error is queued.
LEMMA InvOtherSend ==
    ASSUME TypeOK, IInv, NEW p \in Conns, NEW m \in Messages, Send(p, m),
           m.type = "Left" => phase[m.from] \in {"announcing", "gone"},
           \A c \in Conns : phase[c] = "joining" => todo'[c] = todo[c],
           OutboxNoLeft', UNCHANGED <<phase, members, hello, open, view>>
    PROVE  IInv'
<1>1. MembersServed' /\ ClosedNotOpen' /\ LeftHasLeft'
  BY SendLeftHasLeft DEF IInv, MembersServed, ClosedNotOpen
<1>2. ASSUME NEW c \in members, NEW d \in members, Announced(c, d)
      PROVE  Announced(c, d)'
  <2>1. c \in Conns /\ d \in Conns
    BY DEF TypeOK
  <2>2. CASE \E i \in 1..Len(chan[c]) : Tells(chan[c][i], d)
    <3>1. \E i \in 1..Len(chan'[c]) : Tells(chan'[c][i], d)
      BY <2>1, <2>2, SendAnnounced
    <3> QED BY <3>1 DEF Announced, Tells
  <2>3. CASE (phase[d] = "joining" /\ c \in todo[d]) \/ (phase[c] = "joining" /\ hello[c][d] # Unknown)
    BY <2>1, <2>3 DEF Announced
  <2> QED BY <1>2, <2>2, <2>3, AnnouncedTells
<1>3. NobodyMissed'
  BY <1>2, MissedFrame
<1> QED BY <1>1, <1>3 DEF IInv

\* A connection ends: its channel and its view are nobody's concern any more.
LEMMA InvLeaving ==
    ASSUME TypeOK, IInv, NEW x \in Conns, phase[x] = "running",
           phase' = [phase EXCEPT ![x] = "leaving"], chan' = [chan EXCEPT ![x] = <<>>],
           ~open'[x], \A c \in Conns : c # x => open'[c] = open[c] /\ view'[c] = view[c],
           UNCHANGED <<members, todo, hello, outbox>>
    PROVE  IInv'
<1>1. /\ phase \in [Conns -> {"out", "refused", "joining", "running"} \cup RxDropped]
      /\ chan \in [Conns -> Seq(Messages)] /\ members \subseteq Conns
  BY DEF TypeOK
<1>2. MembersServed' /\ ClosedNotOpen' /\ OutboxNoLeft'
  BY <1>1 DEF IInv, MembersServed, ClosedNotOpen, OutboxNoLeft
<1>3. LeftHasLeft'
  <2> SUFFICES ASSUME NEW c \in Conns, NEW i \in 1..Len(chan'[c]), chan'[c][i].type = "Left"
               PROVE  phase'[chan'[c][i].from] \in {"announcing", "gone"}
    BY DEF LeftHasLeft
  <2>1. c # x /\ chan'[c] = chan[c]
    BY <1>1
  <2>2. chan[c][i] \in Messages
    BY <1>1, <2>1
  <2>3. chan[c][i].from \in Conns /\ phase[chan[c][i].from] \in {"announcing", "gone"}
    BY <2>1, <2>2, MessageFields DEF IInv, LeftHasLeft
  <2> QED BY <1>1, <2>1, <2>3
<1>4. NobodyMissed'
  <2> SUFFICES ASSUME NEW c \in members, NEW d \in members, c # d, open'[c]
               PROVE  view'[c][d] # Unknown \/ Announced(c, d)'
    BY DEF NobodyMissed
  <2>1. c # x /\ c \in Conns /\ d \in Conns
    BY <1>1
  <2>2. view[c][d] # Unknown \/ Announced(c, d)
    BY <2>1 DEF IInv, NobodyMissed
  <2>3. chan'[c] = chan[c] /\ view'[c] = view[c]
    BY <1>1, <2>1
  <2>4. \A e \in Conns : phase[e] = "joining" => phase'[e] = "joining"
    BY <1>1
  <2> QED BY <2>1, <2>2, <2>3, <2>4 DEF Announced
<1> QED BY <1>2, <1>3, <1>4 DEF IInv

LEMMA InvAdmit ==
    ASSUME TypeOK, IInv, NEW x \in Conns, Admit(x)
    PROVE  IInv'
<1>1. /\ phase[x] = "out"
      /\ phase' = [phase EXCEPT ![x] = "joining"]
      /\ members' = members \cup {x}
      /\ todo' = [todo EXCEPT ![x] = members]
      /\ hello' = [hello EXCEPT ![x] = [d \in Conns |-> IF d \in members THEN info[d] ELSE Unknown]]
      /\ open' = [open EXCEPT ![x] = TRUE]
      /\ UNCHANGED <<info, chan, outbox, view>>
  BY DEF Admit, Enter
<1>2. /\ phase \in [Conns -> {"out", "refused", "joining", "running"} \cup RxDropped]
      /\ chan \in [Conns -> Seq(Messages)] /\ members \subseteq Conns
      /\ todo \in [Conns -> SUBSET Conns] /\ hello \in [Conns -> Lists]
      /\ open \in [Conns -> BOOLEAN] /\ info \in [Conns -> Infos]
  BY DEF TypeOK
<1>3. x \notin members
  BY <1>1 DEF IInv, MembersServed
<1>4. MembersServed' /\ ClosedNotOpen' /\ OutboxNoLeft'
  BY <1>1, <1>2 DEF IInv, MembersServed, ClosedNotOpen, OutboxNoLeft
<1>5. LeftHasLeft'
  <2> SUFFICES ASSUME NEW c \in Conns, NEW i \in 1..Len(chan[c]), chan[c][i].type = "Left"
               PROVE  phase'[chan[c][i].from] \in {"announcing", "gone"}
    BY <1>1 DEF LeftHasLeft
  <2>1. chan[c][i] \in Messages
    BY <1>2
  <2>2. chan[c][i].from \in Conns /\ phase[chan[c][i].from] \in {"announcing", "gone"}
    BY <2>1, MessageFields DEF IInv, LeftHasLeft
  <2> QED BY <1>1, <1>2, <2>2
<1>6. NobodyMissed'
  <2> SUFFICES ASSUME NEW c \in members', NEW d \in members', c # d, open'[c]
               PROVE  view[c][d] # Unknown \/ Announced(c, d)'
    BY <1>1 DEF NobodyMissed
  <2>1. CASE c = x
    <3>1. d \in members /\ phase'[x] = "joining" /\ hello'[x][d] = info[d]
      BY <1>1, <1>2, <2>1
    <3>2. hello'[x][d] # Unknown
      BY <1>2, <3>1, ListTypes
    <3> QED BY <2>1, <3>1, <3>2 DEF Announced
  <2>2. CASE d = x
    <3>1. phase'[x] = "joining" /\ c \in todo'[x]
      BY <1>1, <1>2, <2>2
    <3> QED BY <2>2, <3>1 DEF Announced
  <2>3. CASE c # x /\ d # x
    <3>1. c \in members /\ d \in members /\ c \in Conns /\ d \in Conns /\ open[c]
      BY <1>1, <1>2, <2>3
    <3>2. view[c][d] # Unknown \/ Announced(c, d)
      BY <3>1 DEF IInv, NobodyMissed
    <3>3. /\ phase'[c] = phase[c] /\ phase'[d] = phase[d]
          /\ todo'[d] = todo[d] /\ hello'[c] = hello[c] /\ chan' = chan
      BY <1>1, <1>2, <2>3, <3>1
    <3> QED BY <3>2, <3>3 DEF Announced
  <2> QED BY <2>1, <2>2, <2>3
<1> QED BY <1>4, <1>5, <1>6 DEF IInv

LEMMA InvRemove ==
    ASSUME TypeOK, IInv, NEW x \in Conns, Remove(x)
    PROVE  IInv'
<1>1. /\ phase[x] = "leaving"
      /\ phase' = [phase EXCEPT ![x] = "announcing"]
      /\ members' = members \ {x}
      /\ todo' = [todo EXCEPT ![x] = members \ {x}]
      /\ UNCHANGED <<chan, hello, outbox, open, view>>
  BY DEF Remove
<1>2. /\ phase \in [Conns -> {"out", "refused", "joining", "running"} \cup RxDropped]
      /\ chan \in [Conns -> Seq(Messages)] /\ members \subseteq Conns
      /\ todo \in [Conns -> SUBSET Conns]
  BY DEF TypeOK
<1>3. MembersServed' /\ ClosedNotOpen' /\ OutboxNoLeft'
  BY <1>1, <1>2 DEF IInv, MembersServed, ClosedNotOpen, OutboxNoLeft
<1>4. LeftHasLeft'
  <2> SUFFICES ASSUME NEW c \in Conns, NEW i \in 1..Len(chan[c]), chan[c][i].type = "Left"
               PROVE  phase'[chan[c][i].from] \in {"announcing", "gone"}
    BY <1>1 DEF LeftHasLeft
  <2>1. chan[c][i] \in Messages
    BY <1>2
  <2>2. chan[c][i].from \in Conns /\ phase[chan[c][i].from] \in {"announcing", "gone"}
    BY <2>1, MessageFields DEF IInv, LeftHasLeft
  <2> QED BY <1>1, <1>2, <2>2
<1>5. ASSUME NEW c \in members', NEW d \in members', Announced(c, d)
      PROVE  Announced(c, d)'
  <2>1. c # x /\ d # x /\ c \in Conns /\ d \in Conns
    BY <1>1, <1>2
  <2> QED BY <1>1, <1>2, <1>5, <2>1 DEF Announced
<1>6. NobodyMissed'
  BY <1>1, <1>5, MissedFrame
<1> QED BY <1>3, <1>4, <1>6 DEF IInv

\* Steps that touch neither tx_map, nor a channel, nor a message.
LEMMA InvFrame ==
    ASSUME TypeOK, IInv, OutboxNoLeft', UNCHANGED <<members, chan, todo, hello>>,
           \A c \in Conns : /\ open'[c] => open[c] /\ view'[c] = view[c]
                            /\ \/ phase'[c] = phase[c]
                               \/ phase[c] = "out" /\ phase'[c] = "refused"
                               \/ phase[c] = "announcing" /\ phase'[c] = "gone"
    PROVE  IInv'
<1>1. MembersServed' /\ ClosedNotOpen'
  BY DEF IInv, MembersServed, ClosedNotOpen
<1>2. LeftHasLeft'
  <2> SUFFICES ASSUME NEW c \in Conns, NEW i \in 1..Len(chan[c]), chan[c][i].type = "Left"
               PROVE  phase'[chan[c][i].from] \in {"announcing", "gone"}
    BY DEF LeftHasLeft
  <2>1. chan[c] \in Seq(Messages)
    BY DEF TypeOK
  <2>2. chan[c][i] \in Messages
    BY <2>1
  <2>3. chan[c][i].from \in Conns /\ phase[chan[c][i].from] \in {"announcing", "gone"}
    BY <2>2, MessageFields DEF IInv, LeftHasLeft
  <2> QED BY <2>3
<1>3. NobodyMissed'
  <2> SUFFICES ASSUME NEW c \in members, NEW d \in members, c # d, open'[c]
               PROVE  view'[c][d] # Unknown \/ Announced(c, d)'
    BY DEF NobodyMissed
  <2>1. c \in Conns /\ d \in Conns
    BY DEF TypeOK
  <2>2. open[c] /\ view'[c] = view[c]
    BY <2>1
  <2>3. phase'[c] = phase[c] /\ phase'[d] = phase[d]
    BY <2>1 DEF IInv, MembersServed
  <2>4. view[c][d] # Unknown \/ Announced(c, d)
    BY <2>2 DEF IInv, NobodyMissed
  <2> QED BY <2>2, <2>3, <2>4 DEF Announced
<1> QED BY <1>1, <1>2, <1>3 DEF IInv

LEMMA InvHandle ==
    ASSUME TypeOK, IInv, NEW x \in Conns, Handle(x)
    PROVE  IInv'
<1>1. CASE RecvEnded(x)
  <2>1. ~open'[x] /\ \A c \in Conns : c # x => open'[c] = open[c] /\ view'[c] = view[c]
    BY <1>1 DEF RecvEnded, TypeOK
  <2> QED BY <1>1, <2>1, InvLeaving DEF RecvEnded
<1>2. ASSUME NEW p \in Conns, SendLeft(x, p)
      PROVE  IInv'
  <2>1. Left(x) \in Messages /\ Left(x).from = x
    BY MessageTypes DEF Left
  <2>2. \A c \in Conns : phase[c] = "joining" => todo'[c] = todo[c]
    BY <1>2 DEF SendLeft, TypeOK
  <2>3. OutboxNoLeft' /\ phase[x] = "announcing" /\ Send(p, Left(x))
        /\ UNCHANGED <<phase, members, hello, open, view>>
    BY <1>2 DEF SendLeft, IInv, OutboxNoLeft
  <2> QED BY <2>1, <2>2, <2>3, InvOtherSend
<1>3. CASE Gone(x)
  BY <1>3, InvFrame DEF Gone, TypeOK, IInv, OutboxNoLeft
<1> QED BY <1>1, <1>2, <1>3, InvSendJoin, InvSendHello, InvRemove DEF Handle

LEMMA InvTask ==
    ASSUME TypeOK, IInv, NEW x \in Conns, RecvTask(x) \/ SendTask(x)
    PROVE  IInv'
<1>1. ASSUME NEW p \in Conns, RecvSend(x, p)
      PROVE  IInv'
  <2>1. outbox[x].msg \in Messages /\ outbox[x].msg.type # "Left"
    BY DEF TypeOK, IInv, OutboxNoLeft
  <2>2. Send(p, outbox[x].msg) /\ UNCHANGED <<phase, members, todo, hello, open, view>>
    BY <1>1 DEF RecvSend
  <2>3. OutboxNoLeft'
    <3>1. outbox \in [Conns -> [to : SUBSET Conns, msg : Messages]]
      BY DEF TypeOK
    <3>2. outbox' = [outbox EXCEPT ![x].to = @ \ {p}]
      BY <1>1 DEF RecvSend
    <3>3. \A c \in Conns : outbox'[c].msg = outbox[c].msg
      BY <3>1, <3>2
    <3> QED BY <3>3 DEF IInv, OutboxNoLeft
  <2> QED BY <2>1, <2>2, <2>3, InvOtherSend
<1>2. CASE RecvClosed(x)
  BY <1>2, InvFrame DEF RecvClosed, srvVars, IInv, OutboxNoLeft
<1>3. CASE AbortRecv(x)
  <2>1. OutboxNoLeft'
    BY <1>3 DEF AbortRecv, Idle, Error, IInv, OutboxNoLeft, TypeOK
  <2> QED BY <1>3, <2>1, InvFrame DEF AbortRecv, srvVars
<1>4. CASE Deliver(x)
  <2>1. /\ chan[x] # <<>> /\ chan' = [chan EXCEPT ![x] = Tail(chan[x])]
        /\ UNCHANGED <<phase, members, outbox, open>>
    BY <1>4 DEF Deliver, srvVars
  <2>2. chan \in [Conns -> Seq(Messages)]
    BY DEF TypeOK
  <2>3. \A c \in Conns : \A i \in 1..Len(chan'[c]) :
           \E j \in 1..Len(chan[c]) : chan'[c][i] = chan[c][j]
    <3> SUFFICES ASSUME NEW c \in Conns, NEW i \in 1..Len(chan'[c])
                 PROVE  \E j \in 1..Len(chan[c]) : chan'[c][i] = chan[c][j]
      OBVIOUS
    <3>1. CASE c = x
      <4>1. i + 1 \in 1..Len(chan[x]) /\ chan'[x][i] = chan[x][i + 1]
        BY <2>1, <2>2, <3>1, QueueFacts
      <4> QED BY <3>1, <4>1
    <3>2. CASE c # x
      BY <2>1, <2>2, <3>2
    <3> QED BY <3>1, <3>2
  <2>4. LeftHasLeft'
    BY <2>1, <2>3 DEF IInv, LeftHasLeft
  <2>5. MembersServed' /\ ClosedNotOpen' /\ OutboxNoLeft'
    BY <2>1 DEF IInv, MembersServed, ClosedNotOpen, OutboxNoLeft
  <2> QED BY <1>4, <2>4, <2>5, DeliverMissed DEF IInv
<1>5. CASE SendFailed(x)
  BY <1>5, InvLeaving DEF SendFailed
<1> QED BY <1>1, <1>2, <1>3, <1>4, <1>5 DEF RecvTask, SendTask

LEMMA InvClient ==
    ASSUME TypeOK, IInv, NEW x \in Conns, Client(x)
    PROVE  IInv'
<1>1. CASE Refuse(x)
  BY <1>1, InvFrame DEF Refuse, TypeOK, IInv, OutboxNoLeft
<1>2. CASE RecvUpdate(x)
  <2>1. OutboxNoLeft'
    <3>1. outbox \in [Conns -> [to : SUBSET Conns, msg : Messages]]
      BY DEF TypeOK
    <3>2. \/ outbox' = [outbox EXCEPT ![x] = [to  |-> members \ {x},
                                             msg |-> Update(x, sent + 1)]]
          \/ outbox' = outbox
      BY <1>2 DEF RecvUpdate
    <3>3. Update(x, sent + 1).type # "Left"
      BY DEF Update
    <3>4. \A c \in Conns : outbox'[c].msg \in {outbox[c].msg, Update(x, sent + 1)}
      BY <3>1, <3>2
    <3> QED BY <3>3, <3>4 DEF IInv, OutboxNoLeft
  <2> QED BY <1>2, <2>1, InvFrame DEF RecvUpdate
<1>3. ASSUME NEW t \in Conns, RecvSdp(x, t)
      PROVE  IInv'
  <2>1. OutboxNoLeft'
    BY <1>3 DEF RecvSdp, Sdp, TypeOK, IInv, OutboxNoLeft
  <2> QED BY <1>3, <2>1, InvFrame DEF RecvSdp
<1>4. CASE RecvLimited(x)
  <2>1. Error \in Messages /\ Error.type # "Left"
    BY MessageTypes DEF Error
  <2> QED BY <1>4, <2>1, InvOtherSend DEF RecvLimited, IInv, OutboxNoLeft
<1>5. CASE ClientCloses(x)
  BY <1>5, InvFrame DEF ClientCloses, srvVars, TypeOK, IInv, OutboxNoLeft
<1> QED BY <1>1, <1>2, <1>3, <1>4, <1>5, InvAdmit DEF Client

THEOREM InductiveInvariant == Spec => []IInv
<1>1. Init => IInv
  BY DEF Init, IInv, MembersServed, ClosedNotOpen, LeftHasLeft, OutboxNoLeft, NobodyMissed,
         Idle, Error
<1>2. TypeOK /\ IInv /\ [Next]_vars => IInv'
  <2> SUFFICES ASSUME TypeOK, IInv, [Next]_vars PROVE IInv'
    OBVIOUS
  <2>1. CASE ClearCounts \/ UNCHANGED vars
    BY <2>1, InvFrame DEF ClearCounts, vars, IInv, OutboxNoLeft
  <2> QED BY <2>1, InvHandle, InvTask, InvClient DEF Next
<1> QED BY <1>1, <1>2, TypeCorrect, PTL DEF Spec

\* Any two devices of a group know of each other or are about to be told,
\* however their connections, disconnections and messages interleave.
THEOREM NobodyIsMissed == Spec => []NobodyMissed
<1>1. IInv => NobodyMissed
  BY DEF IInv
<1> QED BY <1>1, InductiveInvariant, PTL

(***************************************************************************)
(* The channel nobody drains.                                              *)
(***************************************************************************)

\* Once a channel is full before its Hello is in it, it stays so.
THEOREM JamLasts == Spec => JamIsForever
<1>1. ASSUME TypeOK, [Next]_vars
      PROVE  [\A d \in Conns : JammedAt(d) => JammedAt(d)']_vars
  <2> SUFFICES ASSUME NEW d \in Conns, phase[d] = "joining", Len(chan[d]) >= Cap, Next
               PROVE  phase'[d] = "joining" /\ Len(chan'[d]) >= Cap
    BY <1>1 DEF JammedAt
  <2> USE <1>1
  <2>1. /\ phase \in [Conns -> {"out", "refused", "joining", "running"} \cup RxDropped]
        /\ chan \in [Conns -> Seq(Messages)] /\ Len(chan[d]) \in Nat
        /\ ~Room(d)
    BY CapAssumption, QueueFacts DEF TypeOK, Room, Closed, RxDropped
  <2>2. ASSUME NEW p \in Conns, NEW m, Send(p, m)
        PROVE  chan'[d] = chan[d]
    BY <2>1, <2>2 DEF Send
  <2>3. ASSUME NEW c \in Conns, Handle(c)
        PROVE  phase'[d] = "joining" /\ chan'[d] = chan[d]
    <3>1. CASE \E p \in Conns : SendJoin(c, p) \/ SendLeft(c, p)
      BY <2>2, <3>1 DEF SendJoin, SendLeft
    <3>2. CASE SendHello(c)
      BY <2>1, <2>2, <3>2 DEF SendHello, Send
    <3>3. CASE RecvEnded(c) \/ Remove(c) \/ Gone(c)
      BY <2>1, <3>3 DEF RecvEnded, Remove, Gone
    <3> QED BY <2>3, <3>1, <3>2, <3>3 DEF Handle
  <2>4. ASSUME NEW c \in Conns, RecvTask(c) \/ SendTask(c)
        PROVE  phase'[d] = "joining" /\ chan'[d] = chan[d]
    <3>1. CASE \E p \in Conns : RecvSend(c, p)
      BY <2>2, <3>1 DEF RecvSend
    <3>2. CASE RecvClosed(c) \/ AbortRecv(c) \/ Deliver(c) \/ SendFailed(c)
      BY <2>1, <3>2 DEF RecvClosed, AbortRecv, Deliver, SendFailed, srvVars
    <3> QED BY <2>4, <3>1, <3>2 DEF RecvTask, SendTask
  <2>5. ASSUME NEW c \in Conns, Client(c)
        PROVE  phase'[d] = "joining" /\ chan'[d] = chan[d]
    <3>1. CASE RecvLimited(c)
      BY <2>2, <3>1 DEF RecvLimited
    <3>2. CASE ~RecvLimited(c)
      BY <2>1, <2>5, <3>2 DEF Client, Refuse, Admit, Enter, RecvUpdate, RecvSdp, ClientCloses, srvVars
    <3> QED BY <3>1, <3>2
  <2>6. ClearCounts => phase'[d] = "joining" /\ chan'[d] = chan[d]
    BY DEF ClearCounts
  <2> QED BY <2>3, <2>4, <2>5, <2>6 DEF Next
<1> QED BY <1>1, TypeCorrect, PTL DEF Spec, JamIsForever

(***************************************************************************)
(* What a client sees.                                                     *)
(***************************************************************************)

Phases == {"out", "refused", "joining", "running", "leaving", "announcing", "gone"}

LEMMA ViewTypes ==
    ASSUME TypeOK
    PROVE  /\ phase \in [Conns -> Phases] /\ members \subseteq Conns
           /\ info \in [Conns -> Infos] /\ todo \in [Conns -> SUBSET Conns]
           /\ hello \in [Conns -> Lists] /\ chan \in [Conns -> Seq(Messages)]
           /\ alive \in [Conns -> BOOLEAN] /\ open \in [Conns -> BOOLEAN]
           /\ outbox \in [Conns -> [to : SUBSET Conns, msg : Messages]]
           /\ view \in [Conns -> Lists] /\ sent \in Infos
           /\ \A c \in Conns : hello[c] \in Lists /\ view[c] \in Lists
  BY DEF TypeOK, Phases, RxDropped

(***************************************************************************)
(* Last words.                                                             *)
(***************************************************************************)
\* A message says what it says of its sender only.
LEMMA OwnWords ==
    ASSUME NEW x \in Conns, NEW i
    PROVE  /\ Says(Join(x, i), x, i) /\ Says(Update(x, i), x, i) /\ Says(Left(x), x, Unknown)
           /\ \A d : d # x => Silent(Join(x, i), d) /\ Silent(Update(x, i), d) /\ Silent(Left(x), d)
           /\ \A d : Silent(Error, d) /\ Silent(Sdp(x), d)
           /\ \A l, d : IF l[d] # Unknown THEN Says(Hello(l), d, l[d]) ELSE Silent(Hello(l), d)
  BY DEF Says, Silent, Join, Update, Left, Error, Sdp, Hello

\* A message that is silent on d, or goes elsewhere, leaves d's last word.
LEMMA WordStays ==
    ASSUME TypeOK, view' = view, NEW p \in Conns, NEW m \in Messages, Send(p, m),
           NEW c \in Conns, NEW d, c # p \/ Silent(m, d), NEW v, LastWord(c, d, v)
    PROVE  LastWord(c, d, v)'
<1>1. chan \in [Conns -> Seq(Messages)] /\ chan[c] \in Seq(Messages)
  BY DEF TypeOK
<1>2. CASE chan'[c] = chan[c]
  BY <1>2 DEF LastWord
<1>3. CASE c = p /\ ~Closed(p)
  <2>1. chan'[c] = Append(chan[c], m)
    BY <1>1, <1>3 DEF Send
  <2>2. /\ Len(chan[c]) \in Nat
        /\ Len(chan'[c]) = Len(chan[c]) + 1
        /\ \A i \in 1..Len(chan[c]) : chan'[c][i] = chan[c][i]
        /\ chan'[c][Len(chan[c]) + 1] = m
    BY <1>1, <2>1, QueueFacts
  <2>3. CASE view[c][d] = v /\ \A j \in 1..Len(chan[c]) : Silent(chan[c][j], d)
    <3>1. \A j \in 1..Len(chan'[c]) : Silent(chan'[c][j], d)
      BY <1>3, <2>2, <2>3
    <3> QED BY <2>3, <3>1 DEF LastWord
  <2>4. ASSUME NEW i \in 1..Len(chan[c]), Says(chan[c][i], d, v),
               \A j \in (i+1)..Len(chan[c]) : Silent(chan[c][j], d)
        PROVE  LastWord(c, d, v)'
    <3>1. i \in 1..Len(chan'[c]) /\ Says(chan'[c][i], d, v)
      BY <2>2, <2>4
    <3>2. \A j \in (i+1)..Len(chan'[c]) : Silent(chan'[c][j], d)
      BY <1>3, <2>2, <2>4
    <3> QED BY <3>1, <3>2 DEF LastWord
  <2> QED BY <2>3, <2>4 DEF LastWord
<1> QED BY <1>1, <1>2, <1>3 DEF Send

\* A message that says v of d is the last word of d.
LEMMA WordSaid ==
    ASSUME TypeOK, NEW p \in Conns, NEW m \in Messages, Send(p, m), ~Closed(p),
           NEW d, NEW v, Says(m, d, v)
    PROVE  LastWord(p, d, v)'
<1>1. chan \in [Conns -> Seq(Messages)] /\ chan[p] \in Seq(Messages)
  BY DEF TypeOK
<1>2. chan'[p] = Append(chan[p], m)
  BY <1>1 DEF Send
<1>3. /\ Len(chan[p]) \in Nat
      /\ Len(chan'[p]) = Len(chan[p]) + 1
      /\ chan'[p][Len(chan[p]) + 1] = m
  BY <1>1, <1>2, QueueFacts
<1> DEFINE i == Len(chan[p]) + 1
<1>4. i \in 1..Len(chan'[p]) /\ chan'[p][i] = m /\ \A j \in (i+1)..Len(chan'[p]) : FALSE
  BY <1>3
<1> QED BY <1>4 DEF LastWord

\* A delivery tells the client just what the channel said.
LEMMA WordDelivered ==
    ASSUME TypeOK, NEW x \in Conns, Deliver(x), NEW c \in Conns, NEW d \in Conns,
           NEW v, LastWord(c, d, v)
    PROVE  LastWord(c, d, v)'
<1>1. /\ chan[x] # <<>> /\ chan' = [chan EXCEPT ![x] = Tail(chan[x])]
      /\ view' = [view EXCEPT ![x] = Applied(view[x], Head(chan[x]))]
      /\ chan \in [Conns -> Seq(Messages)] /\ view \in [Conns -> Lists] /\ view[x] \in Lists
  BY ViewTypes DEF Deliver
<1> DEFINE h == Head(chan[x])
<1>2. /\ h \in Messages /\ h = chan[x][1] /\ 1 \in 1..Len(chan[x])
      /\ Len(chan[x]) \in Nat
      /\ chan'[x] = Tail(chan[x]) /\ Len(chan'[x]) = Len(chan[x]) - 1
      /\ \A i \in 1..Len(chan'[x]) : chan'[x][i] = chan[x][i + 1]
      /\ view'[x] = Applied(view[x], h)
  BY <1>1, QueueFacts
<1>3. CASE c # x
  BY <1>1, <1>3 DEF LastWord
<1>4. CASE c = x
  <2>0. /\ \A j \in 1..Len(chan'[c]) :
              j \in Nat /\ j + 1 \in 1..Len(chan[c]) /\ chan'[c][j] = chan[c][j + 1]
        /\ \A j \in 1..Len(chan[c]) :
              j # 1 => j - 1 \in 1..Len(chan'[c]) /\ chan'[c][j - 1] = chan[c][j]
    <3>1. /\ Len(chan[c]) \in Nat /\ Len(chan'[c]) = Len(chan[c]) - 1
          /\ \A j \in 1..Len(chan'[c]) : chan'[c][j] = chan[c][j + 1]
      BY <1>2, <1>4
    <3>2. \A j \in 1..Len(chan'[c]) : j \in Nat /\ j + 1 \in 1..Len(chan[c])
      BY <3>1
    <3>3. ASSUME NEW j \in 1..Len(chan[c]), j # 1
          PROVE  j - 1 \in 1..Len(chan'[c]) /\ chan'[c][j - 1] = chan[c][j]
      <4>1. j - 1 \in 1..Len(chan'[c]) /\ j - 1 + 1 = j
        BY <3>1, <3>3
      <4> QED BY <3>1, <4>1
    <3> QED BY <3>1, <3>2, <3>3
  <2>1. Silent(h, d) => view'[x][d] = view[x][d]
    BY <1>1, <1>2, MessageFields DEF Silent, Applied, Lists
  <2>2. \A w : Says(h, d, w) => view'[x][d] = w
    BY <1>1, <1>2, MessageFields DEF Says, Applied, Lists
  <2> HIDE DEF h
  <2>3. CASE view[c][d] = v /\ \A j \in 1..Len(chan[c]) : Silent(chan[c][j], d)
    <3>1. \A j \in 1..Len(chan'[c]) : Silent(chan'[c][j], d)
      BY <2>0, <2>3
    <3>2. Silent(h, d)
      BY <1>2, <1>4, <2>3
    <3> QED BY <1>4, <2>1, <2>3, <3>1, <3>2 DEF LastWord
  <2>4. ASSUME NEW i \in 1..Len(chan[c]), Says(chan[c][i], d, v),
               \A j \in (i+1)..Len(chan[c]) : Silent(chan[c][j], d)
        PROVE  LastWord(c, d, v)'
    <3>1. ASSUME NEW j \in 1..Len(chan'[c]), j >= i
          PROVE  Silent(chan'[c][j], d)
      <4>1. j + 1 \in (i+1)..Len(chan[c])
        BY <2>0, <3>1
      <4> QED BY <2>0, <2>4, <4>1
    <3>2. CASE i = 1
      BY <1>2, <1>4, <2>2, <2>4, <3>1, <3>2 DEF LastWord
    <3>3. CASE i # 1
      <4>1. i - 1 \in 1..Len(chan'[c]) /\ Says(chan'[c][i - 1], d, v)
        BY <2>0, <2>4, <3>3
      <4>2. ASSUME NEW j \in (i - 1 + 1)..Len(chan'[c])
            PROVE  Silent(chan'[c][j], d)
        <5>1. i \in Nat \ {0} /\ Len(chan[c]) \in Nat
          BY <1>2, <1>4, <2>4
        <5>2. i - 1 + 1 = i
          BY <5>1
        <5>3. j \in 1..Len(chan'[c]) /\ j >= i
          BY <1>2, <1>4, <5>1, <5>2
        <5> QED BY <3>1, <5>3
      <4> QED BY <4>1, <4>2 DEF LastWord
    <3> QED BY <3>2, <3>3
  <2> QED BY <2>3, <2>4 DEF LastWord
<1> QED BY <1>3, <1>4

(***************************************************************************)
(* The parts of ViewInv that are not about last words.                     *)
(***************************************************************************)
Support == Fresh /\ JoinsLater /\ OutboxLatest /\ GoneTold

\* A send to a connection that was heard of.
LEMMA SendAfar ==
    ASSUME TypeOK, NEW p \in Conns, NEW m, Send(p, m)
    PROVE  \A d \in Conns : d # p => chan'[d] = chan[d]
  BY ViewTypes DEF Send

LEMMA FreshHandle ==
    ASSUME TypeOK, IInv, Support, NEW x \in Conns, Handle(x)
    PROVE  Fresh'
<1> SUFFICES ASSUME NEW d \in Conns, phase'[d] \in {"out", "refused"}
             PROVE  /\ chan'[d] = <<>> /\ view'[d] = Nobody /\ info'[d] = 0 /\ ~alive'[d]
                    /\ \A c \in Conns : /\ hello'[c][d] = Unknown
                                        /\ d \notin todo'[c] /\ d \notin outbox'[c].to
  BY DEF Fresh
<1>0. /\ phase \in [Conns -> Phases] /\ todo \in [Conns -> SUBSET Conns]
      /\ hello \in [Conns -> Lists] /\ chan \in [Conns -> Seq(Messages)]
      /\ alive \in [Conns -> BOOLEAN] /\ view \in [Conns -> Lists] /\ members \subseteq Conns
  BY ViewTypes
<1>1. phase[d] \in {"out", "refused"}
  BY <1>0 DEF Handle, SendJoin, SendHello, RecvEnded, Remove, SendLeft, Gone
<1>2. /\ chan[d] = <<>> /\ view[d] = Nobody /\ info[d] = 0 /\ ~alive[d]
      /\ \A c \in Conns : hello[c][d] = Unknown /\ d \notin todo[c] /\ d \notin outbox[c].to
  BY <1>1 DEF Support, Fresh
<1>3. ASSUME NEW p \in Conns, SendJoin(x, p) \/ SendLeft(x, p)
      PROVE  chan'[d] = chan[d] /\ \A c \in Conns : d \notin todo'[c]
  <2>1. p \in todo[x] /\ d # p /\ todo' = [todo EXCEPT ![x] = @ \ {p}]
    BY <1>2, <1>3 DEF SendJoin, SendLeft
  <2> QED BY <1>0, <1>2, <1>3, <2>1, SendAfar DEF SendJoin, SendLeft
<1>4. CASE \E p \in Conns : SendJoin(x, p) \/ SendLeft(x, p)
  BY <1>2, <1>3, <1>4 DEF SendJoin, SendLeft
<1>5. CASE SendHello(x)
  <2>1. d # x
    BY <1>1, <1>5 DEF SendHello
  <2>2. \A c \in Conns : hello'[c][d] = Unknown
    BY <1>0, <1>2, <1>5 DEF SendHello, Nobody
  <2> QED BY <1>0, <1>2, <1>5, <2>1, <2>2, SendAfar DEF SendHello
<1>6. CASE RecvEnded(x)
  BY <1>0, <1>1, <1>2, <1>6 DEF RecvEnded
<1>7. CASE Remove(x)
  <2>1. d \notin members
    BY <1>1 DEF IInv, MembersServed
  <2> QED BY <1>0, <1>2, <1>7, <2>1 DEF Remove
<1>8. CASE Gone(x)
  BY <1>2, <1>8 DEF Gone
<1> QED BY <1>4, <1>5, <1>6, <1>7, <1>8 DEF Handle

LEMMA FreshOthers ==
    ASSUME TypeOK, IInv, Support, NEW x \in Conns, RecvTask(x) \/ SendTask(x) \/ Client(x)
    PROVE  Fresh'
<1> SUFFICES ASSUME NEW d \in Conns, phase'[d] \in {"out", "refused"}
             PROVE  /\ chan'[d] = <<>> /\ view'[d] = Nobody /\ info'[d] = 0 /\ ~alive'[d]
                    /\ \A c \in Conns : /\ hello'[c][d] = Unknown
                                        /\ d \notin todo'[c] /\ d \notin outbox'[c].to
  BY DEF Fresh
<1>0. /\ phase \in [Conns -> Phases] /\ todo \in [Conns -> SUBSET Conns]
      /\ hello \in [Conns -> Lists] /\ chan \in [Conns -> Seq(Messages)]
      /\ alive \in [Conns -> BOOLEAN] /\ view \in [Conns -> Lists] /\ members \subseteq Conns
      /\ info \in [Conns -> Infos] /\ outbox \in [Conns -> [to : SUBSET Conns, msg : Messages]]
  BY ViewTypes
<1>1. phase[d] \in {"out", "refused"}
  BY <1>0 DEF RecvTask, SendTask, Client, RecvSend, RecvClosed, AbortRecv, Deliver, SendFailed,
              Refuse, Admit, Enter, RecvUpdate, RecvSdp, RecvLimited, ClientCloses, srvVars
<1>2. /\ chan[d] = <<>> /\ view[d] = Nobody /\ info[d] = 0 /\ ~alive[d]
      /\ \A c \in Conns : hello[c][d] = Unknown /\ d \notin todo[c] /\ d \notin outbox[c].to
  BY <1>1 DEF Support, Fresh
<1>3. d \notin members
  BY <1>1 DEF IInv, MembersServed
<1>4. ASSUME NEW p \in Conns, RecvSend(x, p)
      PROVE  /\ chan'[d] = chan[d] /\ \A c \in Conns : d \notin outbox'[c].to
             /\ UNCHANGED <<phase, info, todo, hello, alive, view>>
  <2>1. p \in outbox[x].to /\ d # p /\ outbox' = [outbox EXCEPT ![x].to = @ \ {p}]
    BY <1>2, <1>4 DEF RecvSend
  <2>2. \A c \in Conns : outbox'[c].to \subseteq outbox[c].to
    BY <1>0, <2>1
  <2>3. Send(p, outbox[x].msg)
    BY <1>4 DEF RecvSend
  <2> QED BY <1>2, <1>4, <2>1, <2>2, <2>3, SendAfar DEF RecvSend
<1>5. CASE RecvClosed(x)
  BY <1>0, <1>2, <1>5 DEF RecvClosed, srvVars
<1>6. CASE AbortRecv(x)
  <2>1. \A c \in Conns : outbox'[c].to \subseteq outbox[c].to
    BY <1>0, <1>6 DEF AbortRecv, Idle
  <2> QED BY <1>0, <1>2, <1>6, <2>1 DEF AbortRecv, srvVars
<1>7. CASE Deliver(x)
  BY <1>0, <1>1, <1>2, <1>7 DEF Deliver, srvVars
<1>8. CASE SendFailed(x)
  BY <1>0, <1>1, <1>2, <1>8 DEF SendFailed
<1>9. CASE Refuse(x)
  BY <1>2, <1>9 DEF Refuse
<1>10. CASE Admit(x)
  <2>1. \A c \in Conns : hello'[c][d] = Unknown
    BY <1>0, <1>2, <1>3, <1>10 DEF Admit, Enter
  <2> QED BY <1>0, <1>2, <1>3, <1>10, <2>1 DEF Admit, Enter
<1>11. CASE RecvUpdate(x)
  <2>1. d # x
    BY <1>2, <1>11 DEF RecvUpdate, Receiving
  <2>2. \A c \in Conns : d \notin outbox'[c].to
    <3> DEFINE r == [to |-> members \ {x}, msg |-> Update(x, sent + 1)]
    <3>1. /\ outbox' = outbox \/ outbox' = [outbox EXCEPT ![x] = r]
          /\ r.to \subseteq members
      BY <1>11 DEF RecvUpdate
    <3> HIDE DEF r
    <3>2. \A c \in Conns : outbox'[c].to \subseteq outbox[c].to \cup members
      BY <1>0, <3>1
    <3> QED BY <1>2, <1>3, <3>2
  <2>3. info'[d] = info[d]
    BY <1>0, <1>11, <2>1 DEF RecvUpdate
  <2> QED BY <1>2, <1>11, <2>2, <2>3 DEF RecvUpdate
<1>12. ASSUME NEW t \in Conns, RecvSdp(x, t)
       PROVE  /\ \A c \in Conns : d \notin outbox'[c].to
              /\ UNCHANGED <<phase, info, todo, hello, chan, alive, view>>
  BY <1>0, <1>2, <1>3, <1>12 DEF RecvSdp
<1>13. CASE RecvLimited(x)
  <2>1. d # x
    BY <1>2, <1>13 DEF RecvLimited, Receiving
  <2> QED BY <1>0, <1>2, <1>13, <2>1, SendAfar DEF RecvLimited
<1>14. CASE ClientCloses(x)
  BY <1>0, <1>2, <1>14 DEF ClientCloses, srvVars
<1> QED BY <1>2, <1>4, <1>5, <1>6, <1>7, <1>8, <1>9, <1>10, <1>11, <1>12, <1>13, <1>14
        DEF RecvTask, SendTask, Client

LEMMA JoinsLaterNext ==
    ASSUME TypeOK, IInv, Support, Next
    PROVE  JoinsLater'
<1> SUFFICES ASSUME NEW d \in Conns, phase'[d] = "joining"
             PROVE  /\ info'[d] = 0 /\ ~alive'[d]
                    /\ \A c \in todo'[d] : hello'[c][d] = Unknown
  BY DEF JoinsLater
<1>0. /\ phase \in [Conns -> Phases] /\ todo \in [Conns -> SUBSET Conns]
      /\ hello \in [Conns -> Lists] /\ alive \in [Conns -> BOOLEAN]
      /\ members \subseteq Conns /\ info \in [Conns -> Infos]
  BY ViewTypes
<1>1. CASE phase[d] # "joining"
  <2>1. Admit(d)
    BY <1>0, <1>1 DEF Next, Handle, SendJoin, SendHello, RecvEnded, Remove, SendLeft, Gone,
              RecvTask, SendTask, Client, RecvSend, RecvClosed, AbortRecv, Deliver, SendFailed,
              Refuse, Admit, Enter, RecvUpdate, RecvSdp, RecvLimited, ClientCloses, srvVars,
              ClearCounts
  <2>2. phase[d] = "out" /\ d \notin members
    BY <2>1 DEF Admit, IInv, MembersServed
  <2>3. info[d] = 0 /\ ~alive[d] /\ \A c \in Conns : hello[c][d] = Unknown
    BY <2>2 DEF Support, Fresh
  <2> QED BY <1>0, <2>1, <2>2, <2>3 DEF Admit, Enter
<1>2. CASE phase[d] = "joining"
  <2>1. info[d] = 0 /\ ~alive[d] /\ \A c \in todo[d] : hello[c][d] = Unknown
    BY <1>2 DEF Support, JoinsLater
  <2>2. info'[d] = info[d]
    BY <1>0, <2>1 DEF Next, Handle, SendJoin, SendHello, RecvEnded, Remove, SendLeft, Gone,
              RecvTask, SendTask, Client, RecvSend, RecvClosed, AbortRecv, Deliver, SendFailed,
              Refuse, Admit, Enter, RecvUpdate, RecvSdp, RecvLimited, ClientCloses, srvVars,
              ClearCounts, Receiving
  <2>3. alive'[d] => alive[d]
    BY <1>0 DEF Next, Handle, SendJoin, SendHello, RecvEnded, Remove, SendLeft, Gone,
              RecvTask, SendTask, Client, RecvSend, RecvClosed, AbortRecv, Deliver, SendFailed,
              Refuse, Admit, Enter, RecvUpdate, RecvSdp, RecvLimited, ClientCloses, srvVars,
              ClearCounts
  <2>4. todo'[d] \subseteq todo[d]
    BY <1>0, <1>2 DEF Next, Handle, SendJoin, SendHello, RecvEnded, Remove, SendLeft, Gone,
              RecvTask, SendTask, Client, RecvSend, RecvClosed, AbortRecv, Deliver, SendFailed,
              Refuse, Admit, Enter, RecvUpdate, RecvSdp, RecvLimited, ClientCloses, srvVars,
              ClearCounts
  <2>5. ASSUME NEW c \in todo[d]
        PROVE  hello'[c][d] = Unknown
    <3>1. c \in Conns /\ phase[c] # "out" /\ hello[c][d] = Unknown
      BY <1>0, <2>1 DEF Support, Fresh
    <3>2. hello'[c] = hello[c] \/ hello'[c] = Nobody
      BY <1>0, <3>1 DEF Next, Handle, SendJoin, SendHello, RecvEnded, Remove, SendLeft, Gone,
              RecvTask, SendTask, Client, RecvSend, RecvClosed, AbortRecv, Deliver, SendFailed,
              Refuse, Admit, Enter, RecvUpdate, RecvSdp, RecvLimited, ClientCloses, srvVars,
              ClearCounts
    <3> QED BY <3>1, <3>2 DEF Nobody
  <2> QED BY <2>1, <2>2, <2>3, <2>4, <2>5
<1> QED BY <1>1, <1>2

LEMMA OutboxLatestNext ==
    ASSUME TypeOK, IInv, Support, Next
    PROVE  OutboxLatest' /\ GoneTold'
<1>0. /\ phase \in [Conns -> Phases] /\ todo \in [Conns -> SUBSET Conns]
      /\ info \in [Conns -> Infos] /\ outbox \in [Conns -> [to : SUBSET Conns, msg : Messages]]
  BY ViewTypes
<1>1. GoneTold'
  BY <1>0 DEF Support, GoneTold, Next, Handle, SendJoin, SendHello, RecvEnded, Remove, SendLeft,
              Gone, RecvTask, SendTask, Client, RecvSend, RecvClosed, AbortRecv, Deliver,
              SendFailed, Refuse, Admit, Enter, RecvUpdate, RecvSdp, RecvLimited, ClientCloses,
              srvVars, ClearCounts
<1>2. ASSUME NEW d \in Conns
      PROVE  /\ outbox'[d].msg.type \in {"Update", "Sdp", "Error"}
             /\ outbox'[d].to # {} /\ outbox'[d].msg.type = "Update" =>
                   outbox'[d].msg = Update(d, info'[d])
  <2>1. /\ outbox[d].msg.type \in {"Update", "Sdp", "Error"}
        /\ outbox[d].to # {} /\ outbox[d].msg.type = "Update" => outbox[d].msg = Update(d, info[d])
    BY DEF Support, OutboxLatest
  <2>2. CASE outbox'[d] = outbox[d] /\ info'[d] = info[d]
    BY <2>1, <2>2
  <2>3. CASE RecvUpdate(d)
    BY <1>0, <2>1, <2>3 DEF RecvUpdate, Update
  <2>4. CASE \E t \in Conns : RecvSdp(d, t)
    BY <1>0, <2>1, <2>4 DEF RecvSdp, Sdp
  <2>5. CASE AbortRecv(d)
    BY <1>0, <2>5 DEF AbortRecv, Idle, Error
  <2>6. ASSUME NEW p \in Conns, RecvSend(d, p)
        PROVE  /\ outbox'[d].msg = outbox[d].msg /\ outbox[d].to # {} /\ info'[d] = info[d]
    BY <1>0, <2>6 DEF RecvSend
  <2>7. \/ outbox'[d] = outbox[d] /\ info'[d] = info[d]
        \/ RecvUpdate(d)
        \/ \E t \in Conns : RecvSdp(d, t)
        \/ AbortRecv(d)
        \/ \E p \in Conns : RecvSend(d, p)
    <3>1. ASSUME NEW x \in Conns, x # d, Handle(x) \/ RecvTask(x) \/ SendTask(x) \/ Client(x)
          PROVE  outbox'[d] = outbox[d] /\ info'[d] = info[d]
      BY <1>0, <3>1 DEF Handle, SendJoin, SendHello, RecvEnded, Remove, SendLeft,
              Gone, RecvTask, SendTask, Client, RecvSend, RecvClosed, AbortRecv, Deliver,
              SendFailed, Refuse, Admit, Enter, RecvUpdate, RecvSdp, RecvLimited, ClientCloses,
              srvVars
    <3>2. ASSUME Handle(d) \/ SendTask(d) \/ Refuse(d) \/ Admit(d) \/ RecvLimited(d)
                    \/ ClientCloses(d) \/ RecvClosed(d) \/ ClearCounts
          PROVE  outbox'[d] = outbox[d] /\ info'[d] = info[d]
      BY <3>2 DEF Handle, SendJoin, SendHello, RecvEnded, Remove, SendLeft, Gone, SendTask,
              RecvClosed, Deliver, SendFailed, Refuse, Admit, Enter, RecvLimited, ClientCloses,
              srvVars, ClearCounts
    <3> QED BY <3>1, <3>2 DEF Next, RecvTask, Client
  <2> QED BY <2>1, <2>2, <2>3, <2>4, <2>5, <2>6, <2>7
<1> QED BY <1>1, <1>2 DEF OutboxLatest

LEMMA SupportNext ==
    ASSUME TypeOK, IInv, Support, [Next]_vars
    PROVE  Support'
<1>1. CASE UNCHANGED vars
  BY <1>1 DEF vars, Support, Fresh, JoinsLater, OutboxLatest, GoneTold
<1>2. CASE ClearCounts
  <2>1. Fresh'
    BY <1>2 DEF ClearCounts, Support, Fresh
  <2> QED BY <1>2, <2>1, JoinsLaterNext, OutboxLatestNext DEF Next, Support
<1>3. CASE Next /\ ~ClearCounts
  <2>1. Fresh'
    BY <1>3, FreshHandle, FreshOthers DEF Next
  <2> QED BY <1>3, <2>1, JoinsLaterNext, OutboxLatestNext DEF Support
<1> QED BY <1>1, <1>2, <1>3

(***************************************************************************)
(* What was heard stays the truth.                                         *)
(***************************************************************************)
\* The pair c, d needs no look when c's screen and word of d are untouched.
Untouched(c, d) ==
    /\ open'[c] => open[c]
    /\ overtaken \subseteq overtaken'
    /\ Pending(c, d) => Pending(c, d)'
    /\ Truth(d)' = Truth(d)
    /\ phase'[c] = "joining" <=> phase[c] = "joining"
    /\ hello'[c] = hello[c]
    /\ \A v : LastWord(c, d, v) => LastWord(c, d, v)'

HeardOf(c, d) ==
    c # d /\ open[c] /\ <<c, d>> \notin overtaken /\ ~Pending(c, d) => Heard(c, d, Truth(d))

LEMMA HeardPair ==
    ASSUME HeardInv, NEW c \in Conns, NEW d \in Conns, Untouched(c, d)
    PROVE  HeardOf(c, d)'
<1> SUFFICES ASSUME c # d, open'[c], <<c, d>> \notin overtaken', ~Pending(c, d)'
             PROVE  Heard(c, d, Truth(d))'
  BY DEF HeardOf
<1>1. Heard(c, d, Truth(d))
  BY DEF HeardInv, Untouched
<1>2. PICK v : v = Truth(d)
  OBVIOUS
<1>3. Heard(c, d, v)'
  BY <1>1, <1>2 DEF Heard, Untouched
<1> QED BY <1>2, <1>3 DEF Untouched, Heard

\* Word of d stays pending, and the truth the same, when d's own part stays.
LEMMA PendingStays ==
    ASSUME NEW c \in Conns, NEW d \in Conns,
           phase'[d] = phase[d] \/ {phase[d], phase'[d]} = {"out", "refused"},
           phase[d] \in {"joining", "announcing"} => todo'[d] = todo[d],
           phase[d] = "running" => outbox'[d] = outbox[d], info'[d] = info[d]
    PROVE  (Pending(c, d) => Pending(c, d)') /\ Truth(d)' = Truth(d)
  BY DEF Pending, Truth

\* A send leaves all last words, but those the message is about.
LEMMA SendWords ==
    ASSUME TypeOK, view' = view, NEW p \in Conns, NEW m \in Messages, Send(p, m),
           NEW c \in Conns, NEW d, c # p \/ Silent(m, d)
    PROVE  \A v : LastWord(c, d, v) => LastWord(c, d, v)'
  BY WordStays

LEMMA HeardSendJoin ==
    ASSUME TypeOK, IInv, HeardInv, Support, NEW x \in Conns, NEW p \in Conns, SendJoin(x, p)
    PROVE  HeardInv'
<1> SUFFICES ASSUME NEW c \in Conns, NEW d \in Conns PROVE HeardOf(c, d)'
  BY DEF HeardInv, HeardOf
<1>1. /\ Send(p, Join(x, 0)) /\ phase[x] = "joining" /\ p \in todo[x]
      /\ todo' = [todo EXCEPT ![x] = @ \ {p}]
      /\ UNCHANGED <<phase, hello, info, outbox, open, view, overtaken>>
      /\ Join(x, 0) \in Messages /\ todo \in [Conns -> SUBSET Conns]
  BY MessageTypes, ViewTypes DEF SendJoin
<1>2. CASE c = p /\ d = x
  <2>1. hello[c][d] = Unknown /\ info[d] = 0
    BY <1>1, <1>2 DEF Support, JoinsLater
  <2>2. open[c] => ~Closed(c)
    BY DEF IInv, ClosedNotOpen, Closed, RxDropped
  <2>3. open[c] => LastWord(c, d, 0)'
    BY <1>1, <1>2, <2>2, OwnWords, WordSaid
  <2> QED BY <1>1, <1>2, <2>1, <2>3 DEF HeardOf, Heard, Truth
<1>3. CASE ~(c = p /\ d = x)
  <2>1. c # p \/ Silent(Join(x, 0), d)
    BY <1>3, OwnWords
  <2>2. \A v : LastWord(c, d, v) => LastWord(c, d, v)'
    BY <1>1, <2>1, SendWords
  <2>3. (Pending(c, d) => Pending(c, d)') /\ Truth(d)' = Truth(d)
    BY <1>1, <1>3 DEF Pending, Truth
  <2> QED BY <1>1, <2>2, <2>3, HeardPair DEF Untouched
<1> QED BY <1>2, <1>3

LEMMA HeardSendHello ==
    ASSUME TypeOK, IInv, HeardInv, Support, NEW x \in Conns, SendHello(x)
    PROVE  HeardInv'
<1> SUFFICES ASSUME NEW c \in Conns, NEW d \in Conns PROVE HeardOf(c, d)'
  BY DEF HeardInv, HeardOf
<1> DEFINE m == Hello(hello[x])
<1>1. /\ Send(x, m) /\ phase[x] = "joining" /\ todo[x] = {}
      /\ phase' = [phase EXCEPT ![x] = "running"]
      /\ hello' = [hello EXCEPT ![x] = Nobody]
      /\ UNCHANGED <<info, todo, outbox, open, view, overtaken>>
      /\ m \in Messages
      /\ phase \in [Conns -> Phases] /\ hello \in [Conns -> Lists]
  BY MessageTypes, ViewTypes DEF SendHello
<1>2. IF hello[x][d] # Unknown THEN Says(m, d, hello[x][d]) ELSE Silent(m, d)
  BY OwnWords
<1> HIDE DEF m
<1>3. CASE c = x
  <2> SUFFICES ASSUME c # d, open[c], <<c, d>> \notin overtaken, ~Pending(c, d)'
               PROVE  Heard(c, d, Truth(d))'
    BY <1>1 DEF HeardOf
  <2>1. Truth(d)' = Truth(d) /\ ~Pending(c, d)
    BY <1>1, <1>3 DEF Truth, Pending
  <2>2. Heard(c, d, Truth(d))
    BY <2>1 DEF HeardInv
  <2>3. PICK v : v = Truth(d)
    OBVIOUS
  <2>4. LastWord(c, d, v)'
    <3>1. CASE hello[x][d] # Unknown
      <4>1. Says(m, d, v) /\ ~Closed(x)
        BY <1>1, <1>2, <1>3, <2>2, <2>3, <3>1 DEF Heard, Closed, RxDropped
      <4> QED BY <1>1, <1>3, <4>1, WordSaid
    <3>2. CASE hello[x][d] = Unknown
      <4>1. LastWord(c, d, v) /\ Silent(m, d)
        BY <1>2, <1>3, <2>2, <2>3, <3>2 DEF Heard
      <4> QED BY <1>1, <4>1, WordStays
    <3> QED BY <3>1, <3>2
  <2>5. phase'[c] # "joining"
    BY <1>1, <1>3
  <2> QED BY <2>1, <2>3, <2>4, <2>5 DEF Heard
<1>4. CASE c # x
  <2>1. \A v : LastWord(c, d, v) => LastWord(c, d, v)'
    BY <1>1, <1>4, SendWords
  <2>2. Pending(c, d) => Pending(c, d)'
    BY <1>1 DEF Pending
  <2>3. Truth(d)' = Truth(d)
    BY <1>1 DEF Truth
  <2>4. phase'[c] = phase[c] /\ hello'[c] = hello[c]
    BY <1>1, <1>4
  <2> QED BY <1>1, <2>1, <2>2, <2>3, <2>4, HeardPair DEF Untouched
<1> QED BY <1>3, <1>4

\* A connection ends: nobody looks at its screen, and its Left is pending.
LEMMA HeardLeaving ==
    ASSUME TypeOK, IInv, HeardInv, NEW x \in Conns, RecvEnded(x) \/ SendFailed(x)
    PROVE  HeardInv'
<1> SUFFICES ASSUME NEW c \in Conns, NEW d \in Conns PROVE HeardOf(c, d)'
  BY DEF HeardInv, HeardOf
<1>1. /\ phase[x] = "running" /\ phase' = [phase EXCEPT ![x] = "leaving"]
      /\ chan' = [chan EXCEPT ![x] = <<>>] /\ ~open'[x]
      /\ c # x => open'[c] = open[c] /\ view'[c] = view[c] /\ chan'[c] = chan[c]
      /\ UNCHANGED <<info, todo, hello, outbox, overtaken>>
      /\ phase \in [Conns -> Phases]
  BY ViewTypes DEF RecvEnded, SendFailed
<1>2. CASE c = x
  BY <1>1, <1>2 DEF HeardOf
<1>3. CASE d = x
  BY <1>1, <1>3 DEF HeardOf, Pending
<1>4. CASE c # x /\ d # x
  <2>1. (Pending(c, d) => Pending(c, d)') /\ Truth(d)' = Truth(d)
    BY <1>1, <1>4, PendingStays
  <2>2. \A v : LastWord(c, d, v) => LastWord(c, d, v)'
    BY <1>1, <1>4 DEF LastWord
  <2> QED BY <1>1, <1>4, <2>1, <2>2, HeardPair DEF Untouched
<1> QED BY <1>2, <1>3, <1>4

\* It leaves the map: everybody who is there is to be told.
LEMMA HeardRemove ==
    ASSUME TypeOK, IInv, HeardInv, NEW x \in Conns, Remove(x)
    PROVE  HeardInv'
<1> SUFFICES ASSUME NEW c \in Conns, NEW d \in Conns PROVE HeardOf(c, d)'
  BY DEF HeardInv, HeardOf
<1>1. /\ phase[x] = "leaving" /\ phase' = [phase EXCEPT ![x] = "announcing"]
      /\ todo' = [todo EXCEPT ![x] = members \ {x}]
      /\ UNCHANGED <<info, hello, outbox, overtaken, chan, view, open>>
      /\ phase \in [Conns -> Phases] /\ todo \in [Conns -> SUBSET Conns]
  BY ViewTypes DEF Remove
<1>2. CASE d = x
  <2>1. open[c] => c \in members
    BY DEF IInv, ClosedNotOpen, MembersServed
  <2> QED BY <1>1, <1>2, <2>1 DEF HeardOf, Pending
<1>3. CASE d # x
  <2>1. (Pending(c, d) => Pending(c, d)') /\ Truth(d)' = Truth(d)
    BY <1>1, <1>3, PendingStays
  <2>2. \A v : LastWord(c, d, v) => LastWord(c, d, v)'
    BY <1>1 DEF LastWord
  <2>3. phase'[c] = "joining" <=> phase[c] = "joining"
    BY <1>1
  <2> QED BY <1>1, <2>1, <2>2, <2>3, HeardPair DEF Untouched
<1> QED BY <1>2, <1>3

\* It says Left, to a client whose Hello does not list it or was overtaken.
LEMMA HeardSendLeft ==
    ASSUME TypeOK, IInv, HeardInv, NEW x \in Conns, NEW p \in Conns, SendLeft(x, p)
    PROVE  HeardInv'
<1> SUFFICES ASSUME NEW c \in Conns, NEW d \in Conns PROVE HeardOf(c, d)'
  BY DEF HeardInv, HeardOf
<1>1. /\ Send(p, Left(x)) /\ phase[x] = "announcing"
      /\ todo' = [todo EXCEPT ![x] = @ \ {p}]
      /\ overtaken' = overtaken \cup (IF OvertakesHello(p, x) THEN {<<p, x>>} ELSE {})
      /\ UNCHANGED <<phase, hello, info, outbox, open, view>>
      /\ Left(x) \in Messages /\ todo \in [Conns -> SUBSET Conns]
  BY MessageTypes, ViewTypes DEF SendLeft
<1>2. CASE c = p /\ d = x
  <2> SUFFICES ASSUME open[c], <<c, d>> \notin overtaken' PROVE Heard(c, d, Unknown)'
    BY <1>1, <1>2 DEF HeardOf, Truth
  <2>1. ~OvertakesHello(c, d)
    BY <1>1, <1>2
  <2>2. ~Closed(c)
    BY DEF IInv, ClosedNotOpen, Closed, RxDropped
  <2>3. LastWord(c, d, Unknown)'
    BY <1>1, <1>2, <2>2, OwnWords, WordSaid
  <2> QED BY <1>1, <2>1, <2>3 DEF Heard, OvertakesHello
<1>3. CASE ~(c = p /\ d = x)
  <2>1. c # p \/ Silent(Left(x), d)
    BY <1>3, OwnWords
  <2>2. \A v : LastWord(c, d, v) => LastWord(c, d, v)'
    BY <1>1, <2>1, SendWords
  <2>3. (Pending(c, d) => Pending(c, d)') /\ Truth(d)' = Truth(d)
    BY <1>1, <1>3 DEF Pending, Truth
  <2> QED BY <1>1, <2>2, <2>3, HeardPair DEF Untouched
<1> QED BY <1>2, <1>3

\* recv_task passes a message on: the latest Update, in order or overtaking.
LEMMA HeardRecvSend ==
    ASSUME TypeOK, IInv, HeardInv, Support, NEW x \in Conns, NEW p \in Conns, RecvSend(x, p)
    PROVE  HeardInv'
<1> SUFFICES ASSUME NEW c \in Conns, NEW d \in Conns PROVE HeardOf(c, d)'
  BY DEF HeardInv, HeardOf
<1> DEFINE m == outbox[x].msg
<1>1. /\ Send(p, m) /\ alive[x] /\ p \in outbox[x].to
      /\ outbox' = [outbox EXCEPT ![x].to = @ \ {p}]
      /\ overtaken' = overtaken \cup
            (IF /\ m.type = "Update"
                /\ \/ OvertakesHello(p, x)
                   \/ phase[x] \in {"announcing", "gone"} /\ p \notin todo[x]
             THEN {<<p, x>>} ELSE {})
      /\ UNCHANGED <<phase, hello, info, todo, open, view>>
      /\ m \in Messages /\ m.type \in {"Update", "Sdp", "Error"}
      /\ m.type = "Update" => m = Update(x, info[x])
      /\ outbox \in [Conns -> [to : SUBSET Conns, msg : Messages]]
      /\ phase[x] \in Phases
  BY ViewTypes DEF RecvSend, Support, OutboxLatest
<1>2. phase[x] \in {"running", "leaving", "announcing", "gone"}
  BY <1>1 DEF Support, Fresh, JoinsLater, Phases
<1> HIDE DEF m
<1>3. CASE c = p /\ d = x /\ m.type = "Update"
  <2> SUFFICES ASSUME open[c], <<c, d>> \notin overtaken', ~Pending(c, d)'
               PROVE  Heard(c, d, Truth(d))'
    BY <1>1 DEF HeardOf
  <2>1. ~OvertakesHello(c, d) /\ (phase[d] \in {"announcing", "gone"} => c \in todo[d])
    BY <1>1, <1>3
  <2>2. phase[d] = "running"
    BY <1>1, <1>2, <1>3, <2>1 DEF Pending, Support, GoneTold
  <2>3. ~Closed(c)
    BY DEF IInv, ClosedNotOpen, Closed, RxDropped
  <2>4. Says(m, d, info[d])
    BY <1>1, <1>3, OwnWords
  <2>5. LastWord(c, d, info[d])'
    BY <1>1, <1>3, <2>3, <2>4, WordSaid
  <2> QED BY <1>1, <2>1, <2>2, <2>5 DEF Heard, OvertakesHello, Truth
<1>4. CASE ~(c = p /\ d = x /\ m.type = "Update")
  <2>1. c # p \/ Silent(m, d)
    <3>1. m.type # "Update" => Silent(m, d)
      BY <1>1 DEF Silent
    <3> QED BY <1>1, <1>4, <3>1, OwnWords
  <2>2. \A v : LastWord(c, d, v) => LastWord(c, d, v)'
    BY <1>1, <2>1, SendWords
  <2>3. Truth(d)' = Truth(d)
    BY <1>1 DEF Truth
  <2>4. outbox'[d].msg = outbox[d].msg
        /\ (c \in outbox[d].to /\ outbox[d].msg.type = "Update" => c \in outbox'[d].to)
    BY <1>1, <1>4 DEF m
  <2>5. Pending(c, d) => Pending(c, d)'
    BY <1>1, <2>4 DEF Pending
  <2> QED BY <1>1, <2>2, <2>3, <2>5, HeardPair DEF Untouched
<1> QED BY <1>3, <1>4

\* It is admitted: its Hello lists the members as they are.
LEMMA HeardAdmit ==
    ASSUME TypeOK, IInv, HeardInv, Support, NEW x \in Conns, Admit(x)
    PROVE  HeardInv'
<1> SUFFICES ASSUME NEW c \in Conns, NEW d \in Conns PROVE HeardOf(c, d)'
  BY DEF HeardInv, HeardOf
<1>1. /\ phase[x] = "out" /\ phase' = [phase EXCEPT ![x] = "joining"]
      /\ todo' = [todo EXCEPT ![x] = members]
      /\ hello' = [hello EXCEPT ![x] = [e \in Conns |-> IF e \in members THEN info[e] ELSE Unknown]]
      /\ open' = [open EXCEPT ![x] = TRUE]
      /\ UNCHANGED <<info, chan, outbox, view, overtaken>>
      /\ phase \in [Conns -> Phases] /\ todo \in [Conns -> SUBSET Conns]
      /\ hello \in [Conns -> Lists] /\ open \in [Conns -> BOOLEAN] /\ info \in [Conns -> Infos]
  BY ViewTypes DEF Admit, Enter
<1>2. CASE c = x /\ d # x
  <2>1. phase'[c] = "joining" /\ phase'[d] = phase[d]
        /\ hello'[c][d] = IF d \in members THEN info[d] ELSE Unknown
    BY <1>1, <1>2
  <2>2. CASE d \in members
    <3>1. phase[d] \in {"joining", "running", "leaving"} /\ info[d] # Unknown
      BY <1>1, <2>2, ListTypes DEF IInv, MembersServed
    <3> QED BY <1>1, <2>1, <2>2, <3>1 DEF HeardOf, Heard, Pending, Truth
  <2>3. CASE d \notin members
    <3>1. phase[d] \notin {"joining", "running", "leaving"}
      BY <2>3 DEF IInv, MembersServed
    <3>2. chan[c] = <<>> /\ view[c][d] = Unknown
      BY <1>1, <1>2 DEF Support, Fresh, Nobody
    <3>3. LastWord(c, d, Unknown)'
      BY <1>1, <3>2 DEF LastWord
    <3> QED BY <1>1, <2>1, <2>3, <3>1, <3>3 DEF HeardOf, Heard, Truth
  <2> QED BY <2>2, <2>3
<1>3. CASE c # x /\ d = x
  <2>1. open[c] => c \in members
    BY DEF IInv, ClosedNotOpen, MembersServed
  <2> QED BY <1>1, <1>3, <2>1 DEF HeardOf, Pending
<1>4. CASE c # x /\ d # x
  <2>1. (Pending(c, d) => Pending(c, d)') /\ Truth(d)' = Truth(d)
    BY <1>1, <1>4, PendingStays
  <2>2. \A v : LastWord(c, d, v) => LastWord(c, d, v)'
    BY <1>1 DEF LastWord
  <2>3. phase'[c] = phase[c] /\ hello'[c] = hello[c] /\ open'[c] = open[c]
    BY <1>1, <1>4
  <2> QED BY <1>1, <2>1, <2>2, <2>3, HeardPair DEF Untouched
<1>5. CASE c = d
  BY <1>5 DEF HeardOf
<1> QED BY <1>2, <1>3, <1>4, <1>5

\* The client changes its info: all members are to be told.
LEMMA HeardRecvUpdate ==
    ASSUME TypeOK, IInv, HeardInv, Support, NEW x \in Conns, RecvUpdate(x)
    PROVE  HeardInv'
<1> SUFFICES ASSUME NEW c \in Conns, NEW d \in Conns PROVE HeardOf(c, d)'
  BY DEF HeardInv, HeardOf
<1> DEFINE r == [to |-> members \ {x}, msg |-> Update(x, sent + 1)]
<1>1. /\ UNCHANGED <<phase, todo, hello, chan, open, view, overtaken>>
      /\ outbox \in [Conns -> [to : SUBSET Conns, msg : Messages]]
      /\ info \in [Conns -> Infos] /\ phase[x] \in Phases
      /\ IF x \in members THEN info' = [info EXCEPT ![x] = sent + 1] /\ outbox' = [outbox EXCEPT ![x] = r]
                          ELSE UNCHANGED <<info, outbox>>
      /\ r.to = members \ {x} /\ r.msg.type = "Update"
      /\ alive[x]
  BY ViewTypes DEF RecvUpdate, Receiving, Update
<1> HIDE DEF r
<1>2. \A v : LastWord(c, d, v) => LastWord(c, d, v)'
  BY <1>1 DEF LastWord
<1>3. CASE d = x /\ x \in members
  <2>1. phase[x] \in {"running", "leaving"}
    BY <1>1, <1>3 DEF IInv, MembersServed, Support, JoinsLater
  <2>2. open[c] => c \in members
    BY DEF IInv, ClosedNotOpen, MembersServed
  <2> QED BY <1>1, <1>3, <2>1, <2>2 DEF HeardOf, Pending
<1>4. CASE d # x \/ x \notin members
  <2>1. outbox'[d] = outbox[d] /\ info'[d] = info[d]
    BY <1>1, <1>4
  <2>2. (Pending(c, d) => Pending(c, d)') /\ Truth(d)' = Truth(d)
    BY <1>1, <2>1, PendingStays
  <2> QED BY <1>1, <1>2, <2>2, HeardPair DEF Untouched
<1> QED BY <1>3, <1>4

\* The remaining steps touch no word.
LEMMA HeardQuiet ==
    ASSUME TypeOK, IInv, HeardInv, NEW x \in Conns,
           \/ Gone(x) \/ RecvClosed(x) \/ AbortRecv(x) \/ Deliver(x) \/ Refuse(x)
           \/ (\E t \in Conns : RecvSdp(x, t)) \/ RecvLimited(x) \/ ClientCloses(x)
    PROVE  HeardInv'
<1> SUFFICES ASSUME NEW c \in Conns, NEW d \in Conns PROVE HeardOf(c, d)'
  BY DEF HeardInv, HeardOf
<1>0. /\ phase \in [Conns -> Phases] /\ open \in [Conns -> BOOLEAN]
      /\ outbox \in [Conns -> [to : SUBSET Conns, msg : Messages]]
      /\ view \in [Conns -> Lists]
  BY ViewTypes
<1>1. CASE Gone(x)
  <2>1. /\ phase[x] = "announcing" /\ todo[x] = {} /\ phase' = [phase EXCEPT ![x] = "gone"]
        /\ UNCHANGED <<info, todo, hello, outbox, overtaken, chan, view, open>>
    BY <1>1 DEF Gone
  <2>2. (Pending(c, d) => Pending(c, d)') /\ Truth(d)' = Truth(d)
    BY <1>0, <2>1 DEF Pending, Truth
  <2>3. \A v : LastWord(c, d, v) => LastWord(c, d, v)'
    BY <2>1 DEF LastWord
  <2>4. phase'[c] = "joining" <=> phase[c] = "joining"
    BY <1>0, <2>1
  <2> QED BY <2>1, <2>2, <2>3, <2>4, HeardPair DEF Untouched
<1>2. CASE RecvClosed(x)
  <2>1. UNCHANGED <<phase, info, todo, hello, outbox, overtaken, chan, view, open>>
    BY <1>2 DEF RecvClosed, srvVars
  <2>2. (Pending(c, d) => Pending(c, d)') /\ Truth(d)' = Truth(d)
    BY <2>1, PendingStays
  <2>3. \A v : LastWord(c, d, v) => LastWord(c, d, v)'
    BY <2>1 DEF LastWord
  <2> QED BY <2>1, <2>2, <2>3, HeardPair DEF Untouched
<1>3. CASE AbortRecv(x)
  <2>1. /\ UNCHANGED <<phase, info, todo, hello, overtaken, chan, view, open>>
        /\ phase[d] = "running" => outbox'[d] = outbox[d]
    BY <1>0, <1>3 DEF AbortRecv, srvVars, Closed, RxDropped
  <2>2. (Pending(c, d) => Pending(c, d)') /\ Truth(d)' = Truth(d)
    BY <2>1, PendingStays
  <2>3. \A v : LastWord(c, d, v) => LastWord(c, d, v)'
    BY <2>1 DEF LastWord
  <2> QED BY <2>1, <2>2, <2>3, HeardPair DEF Untouched
<1>4. CASE Deliver(x)
  <2>1. UNCHANGED <<phase, info, todo, hello, outbox, overtaken, open>>
    BY <1>4 DEF Deliver, srvVars
  <2>2. (Pending(c, d) => Pending(c, d)') /\ Truth(d)' = Truth(d)
    BY <2>1, PendingStays
  <2>3. \A v : LastWord(c, d, v) => LastWord(c, d, v)'
    BY <1>4, WordDelivered
  <2> QED BY <2>1, <2>2, <2>3, HeardPair DEF Untouched
<1>5. CASE Refuse(x)
  <2>1. /\ phase[x] = "out" /\ phase' = [phase EXCEPT ![x] = "refused"]
        /\ UNCHANGED <<info, todo, hello, outbox, overtaken, chan, view, open>>
    BY <1>5 DEF Refuse
  <2>2. (Pending(c, d) => Pending(c, d)') /\ Truth(d)' = Truth(d)
    BY <1>0, <2>1 DEF Pending, Truth
  <2>3. \A v : LastWord(c, d, v) => LastWord(c, d, v)'
    BY <2>1 DEF LastWord
  <2>4. phase'[c] = "joining" <=> phase[c] = "joining"
    BY <1>0, <2>1
  <2> QED BY <2>1, <2>2, <2>3, <2>4, HeardPair DEF Untouched
<1>6. ASSUME NEW t \in Conns, RecvSdp(x, t)
      PROVE  HeardOf(c, d)'
  <2>1. UNCHANGED <<phase, info, todo, hello, overtaken, chan, view, open>>
    BY <1>6 DEF RecvSdp
  <2>2. outbox'[d] = outbox[d] \/ outbox[d].to = {}
    BY <1>0, <1>6 DEF RecvSdp, Receiving
  <2>3. (Pending(c, d) => Pending(c, d)') /\ Truth(d)' = Truth(d)
    BY <2>1, <2>2 DEF Pending, Truth
  <2>4. \A v : LastWord(c, d, v) => LastWord(c, d, v)'
    BY <2>1 DEF LastWord
  <2> QED BY <2>1, <2>3, <2>4, HeardPair DEF Untouched
<1>7. CASE RecvLimited(x)
  <2>1. /\ UNCHANGED <<phase, info, todo, hello, outbox, overtaken, view, open>>
        /\ Send(x, Error) /\ Error \in Messages /\ Silent(Error, d)
    BY <1>7, MessageTypes, OwnWords DEF RecvLimited
  <2>2. (Pending(c, d) => Pending(c, d)') /\ Truth(d)' = Truth(d)
    BY <2>1, PendingStays
  <2>3. \A v : LastWord(c, d, v) => LastWord(c, d, v)'
    BY <2>1, SendWords
  <2> QED BY <2>1, <2>2, <2>3, HeardPair DEF Untouched
<1>8. CASE ClientCloses(x)
  <2>1. /\ UNCHANGED <<phase, info, todo, hello, outbox, overtaken, chan>>
        /\ IF c = x THEN ~open'[c] ELSE open'[c] = open[c] /\ view'[c] = view[c]
    BY <1>0, <1>8 DEF ClientCloses, srvVars
  <2>2. CASE c = x
    BY <2>1, <2>2 DEF HeardOf
  <2>3. CASE c # x
    <3>1. (Pending(c, d) => Pending(c, d)') /\ Truth(d)' = Truth(d)
      BY <2>1, PendingStays
    <3>2. \A v : LastWord(c, d, v) => LastWord(c, d, v)'
      BY <2>1, <2>3 DEF LastWord
    <3> QED BY <2>1, <2>3, <3>1, <3>2, HeardPair DEF Untouched
  <2> QED BY <2>2, <2>3
<1> QED BY <1>1, <1>2, <1>3, <1>4, <1>5, <1>6, <1>7, <1>8

LEMMA HeardStutter ==
    ASSUME HeardInv, UNCHANGED <<phase, info, todo, hello, chan, outbox, open, view, overtaken>>
    PROVE  HeardInv'
  BY DEF HeardInv, Heard, LastWord, Pending, Truth

LEMMA ViewNext ==
    ASSUME TypeOK, IInv, ViewInv, [Next]_vars
    PROVE  ViewInv'
<1>1. Support /\ HeardInv
  BY DEF ViewInv, Support
<1>2. Support'
  BY <1>1, SupportNext
<1>3. HeardInv'
  <2>1. ASSUME NEW x \in Conns, Handle(x)
        PROVE  HeardInv'
    BY <1>1, <2>1, HeardSendJoin, HeardSendHello, HeardLeaving, HeardRemove, HeardSendLeft,
       HeardQuiet DEF Handle
  <2>2. ASSUME NEW x \in Conns, RecvTask(x) \/ SendTask(x)
        PROVE  HeardInv'
    BY <1>1, <2>2, HeardRecvSend, HeardLeaving, HeardQuiet DEF RecvTask, SendTask
  <2>3. ASSUME NEW x \in Conns, Client(x)
        PROVE  HeardInv'
    BY <1>1, <2>3, HeardAdmit, HeardRecvUpdate, HeardQuiet DEF Client
  <2>4. CASE ClearCounts \/ UNCHANGED vars
    BY <1>1, <2>4, HeardStutter DEF ClearCounts, vars
  <2> QED BY <2>1, <2>2, <2>3, <2>4 DEF Next
<1> QED BY <1>2, <1>3 DEF ViewInv, Support

\* The last word of a peer is the truth about it, from the start.
THEOREM LastWordIsTrue == Spec => []ViewInv
<1>1. Init => ViewInv
  <2> SUFFICES ASSUME Init PROVE ViewInv
    OBVIOUS
  <2>1. HeardInv
    BY DEF Init, HeardInv
  <2>2. Fresh /\ JoinsLater /\ OutboxLatest /\ GoneTold
    BY DEF Init, Fresh, JoinsLater, OutboxLatest, GoneTold, Nobody, Idle, Error
  <2> QED BY <2>1, <2>2 DEF ViewInv
<1>2. TypeOK /\ IInv /\ ViewInv /\ [Next]_vars => ViewInv'
  BY ViewNext
<1> QED BY <1>1, <1>2, TypeCorrect, InductiveInvariant, PTL DEF Spec

\* ViewExact: when everything that was said has been heard, a client sees
\* exactly the other members of its group with their latest info, however the
\* connections, updates and disconnections raced, unless the word of a peer
\* reached the client's channel out of order.
THEOREM ViewsAreExact == Spec => []ViewExact
<1>1. TypeOK /\ IInv /\ ViewInv => ViewExact
  <2> SUFFICES ASSUME TypeOK, IInv, ViewInv, AtRest,
                      NEW c \in members, NEW d \in Conns, c # d, <<c, d>> \notin overtaken
               PROVE  view[c][d] = IF d \in members THEN info[d] ELSE Unknown
    BY DEF ViewExact
  <2>1. c \in Conns /\ phase[d] \in Phases
    BY ViewTypes
  <2>2. /\ phase[c] = "running" /\ open[c] /\ chan[c] = <<>>
        /\ phase[d] \in {"out", "refused", "running", "gone"} /\ outbox[d].to = {}
    BY <2>1 DEF AtRest, IInv, MembersServed
  <2>3. d \in members <=> phase[d] = "running"
    BY <2>2 DEF IInv, MembersServed
  <2>4. ~Pending(c, d)
    BY <2>2 DEF Pending
  <2>5. LastWord(c, d, Truth(d))
    BY <2>1, <2>2, <2>4 DEF ViewInv, HeardInv, Heard
  <2>6. view[c][d] = Truth(d)
    BY <2>2, <2>5 DEF LastWord
  <2> QED BY <2>2, <2>3, <2>6 DEF Truth
<1> QED BY <1>1, TypeCorrect, InductiveInvariant, LastWordIsTrue, PTL

\* The whole invariant of the server, for any number of connections, capacity
\* and limits.
THEOREM InvariantHolds == Spec => []Inv
<1>1. TypeOK /\ IInv /\ ViewInv => Inv
  BY DEF Inv
<1> QED BY <1>1, TypeCorrect, InductiveInvariant, LastWordIsTrue, PTL
=============================================================================
