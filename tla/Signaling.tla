----------------------------- MODULE Signaling ------------------------------
(***************************************************************************)
(* The signaling server (localsend/server/src) for one IP group, and what  *)
(* the app (signaling_provider.dart, nearby_devices_provider.dart) makes   *)
(* of its messages.  Every websocket is served by three tasks:             *)
(*   - handle_socket enters tx_map under its lock, tells the others        *)
(*     (Join), queues its own Hello, starts the two tasks below, waits for *)
(*     one of them to end, leaves tx_map and tells the others (Left);      *)
(*   - send_task moves the messages of the connection's bounded channel to *)
(*     the websocket;                                                      *)
(*   - recv_task serves the client's Update, Offer and Answer.             *)
(* tx_map is locked only to read or change it: messages are sent outside   *)
(* the lock, to the peers that were there when it was held.                *)
(***************************************************************************)
EXTENDS Naturals, Sequences, FiniteSets

CONSTANTS
    Conns,           \* connections, each with the Uuid it is given
    Unknown,         \* "not listed" in a Hello or in a client's view
    Cap,             \* capacity of a connection's channel (mpsc::channel(4))
    MaxConnections,  \* MAX_CONNECTIONS_PER_IP
    MaxRequests,     \* MAX_REQUESTS_PER_IP_PER_HOUR
    MaxMsgs          \* bound: messages of all clients together

ASSUME CapAssumption    == Cap \in Nat \ {0}
ASSUME LimitsAssumption == MaxConnections \in Nat /\ MaxRequests \in Nat /\ MaxMsgs \in Nat
ASSUME ConnsAssumption  == IsFiniteSet(Conns)
ASSUME UnknownAssumption == Unknown \notin Nat

VARIABLES
    phase,    \* where the connection's handle_socket is
    members,  \* the keys of the group's map in tx_map
    info,     \* ClientState.client, as the number of the message it came with
    count,    \* the group's entry of request_count_map
    todo,     \* peers the Join or Left loop of handle_socket still has to reach
    hello,    \* the `peers` handle_socket collected for its Hello
    chan,     \* the connection's channel
    alive,    \* recv_task has neither returned nor been aborted
    outbox,   \* what recv_task is sending, and the peers it has yet to reach
    sent,     \* messages the clients have sent
    open,     \* the client has not closed its websocket
    view,     \* what an open connection told its client (signalingDevices)
    overtaken \* <<c, d>>: word of d reached c's channel out of order

srvVars == <<phase, members, count, todo, hello>>
vars    == <<phase, members, info, count, todo, hello, chan, alive, outbox,
             sent, open, view, overtaken>>

(***************************************************************************)
(* Data.                                                                   *)
(***************************************************************************)
Infos == 0..MaxMsgs
Lists == [Conns -> Infos \cup {Unknown}]

Hello(l)     == [type |-> "Hello", peers |-> l]
Join(c, i)   == [type |-> "Join", from |-> c, info |-> i]
Update(c, i) == [type |-> "Update", from |-> c, info |-> i]
Left(c)      == [type |-> "Left", from |-> c]
Sdp(c)       == [type |-> "Sdp", from |-> c]
Error        == [type |-> "Error"]

Messages == {Hello(l) : l \in Lists} \cup {Join(c, 0) : c \in Conns}
            \cup {Update(c, i) : c \in Conns, i \in Infos}
            \cup {Left(c) : c \in Conns} \cup {Sdp(c) : c \in Conns} \cup {Error}

Nobody == [c \in Conns |-> Unknown]
Idle   == [to |-> {}, msg |-> Error]

\* rx is dropped with send_task: from then on a send fails at once.
RxDropped == {"leaving", "announcing", "gone"}
Closed(c) == phase[c] \in RxDropped

TypeOK ==
    /\ phase   \in [Conns -> {"out", "refused", "joining", "running"} \cup RxDropped]
    /\ members \subseteq Conns
    /\ info    \in [Conns -> Infos]
    /\ count   \in 0..MaxRequests
    /\ todo    \in [Conns -> SUBSET Conns]
    /\ hello   \in [Conns -> Lists]
    /\ chan    \in [Conns -> Seq(Messages)]
    /\ alive   \in [Conns -> BOOLEAN]
    /\ outbox  \in [Conns -> [to : SUBSET Conns, msg : Messages]]
    /\ sent    \in Infos
    /\ open    \in [Conns -> BOOLEAN]
    /\ view    \in [Conns -> Lists]
    /\ overtaken \subseteq Conns \X Conns

Init ==
    /\ phase   = [c \in Conns |-> "out"]
    /\ members = {}
    /\ info    = [c \in Conns |-> 0]
    /\ count   = 0
    /\ todo    = [c \in Conns |-> {}]
    /\ hello   = [c \in Conns |-> Nobody]
    /\ chan    = [c \in Conns |-> <<>>]
    /\ alive   = [c \in Conns |-> FALSE]
    /\ outbox  = [c \in Conns |-> Idle]
    /\ sent    = 0
    /\ open    = [c \in Conns |-> FALSE]
    /\ view    = [c \in Conns |-> Nobody]
    /\ overtaken = {}

(***************************************************************************)
(* Channels.                                                               *)
(***************************************************************************)

\* (mutant) goes on waiting when the receiver is gone.
RoomWaits(p) == ~Closed(p) /\ Len(chan[p]) < Cap

\* tx.send(m).await: waits for room, and returns at once when rx is gone.
Room(p) == Closed(p) \/ Len(chan[p]) < Cap
Send(p, m) ==
    /\ Room(p)
    /\ chan' = IF Closed(p) THEN chan ELSE [chan EXCEPT ![p] = Append(@, m)]

(***************************************************************************)
(* handle_socket.                                                          *)
(***************************************************************************)

\* Too many connections, or too many requests this hour: tx_map is not entered.
Refuse(c) ==
    /\ phase[c] = "out"
    /\ Cardinality(members) >= MaxConnections \/ count >= MaxRequests
    /\ phase' = [phase EXCEPT ![c] = "refused"]
    /\ UNCHANGED <<members, info, count, todo, hello, chan, alive, outbox,
                   sent, open, view, overtaken>>

\* What happens under the lock: the peers in ps are noted for the Hello, and
\* the connection enters the map.
Enter(c, ps) ==
    /\ phase'   = [phase EXCEPT ![c] = "joining"]
    /\ members' = members \cup {c}
    /\ count'   = count + 1
    /\ todo'    = [todo EXCEPT ![c] = members]
    /\ hello'   = [hello EXCEPT ![c] = [d \in Conns |-> IF d \in ps THEN info[d] ELSE Unknown]]
    /\ open'    = [open EXCEPT ![c] = TRUE]
    /\ UNCHANGED <<info, chan, alive, outbox, sent, view, overtaken>>

\* (mutant) lets one connection too many in.
AdmitOneMore(c) ==
    /\ phase[c] = "out"
    /\ Cardinality(members) <= MaxConnections
    /\ count < MaxRequests
    /\ Enter(c, members)

\* (mutant) lists only the peers that were greeted themselves.
AdmitListsGreeted(c) ==
    /\ phase[c] = "out"
    /\ Cardinality(members) < MaxConnections
    /\ count < MaxRequests
    /\ Enter(c, {d \in members : phase[d] # "joining"})

\* Below both limits: count the request, note the peers, enter the map.
Admit(c) ==
    /\ phase[c] = "out"
    /\ Cardinality(members) < MaxConnections
    /\ count < MaxRequests
    /\ Enter(c, members)

SendJoin(c, p) ==
    /\ phase[c] = "joining"
    /\ p \in todo[c]
    /\ Send(p, Join(c, 0))
    /\ todo' = [todo EXCEPT ![c] = @ \ {p}]
    /\ UNCHANGED <<phase, members, info, count, hello, alive, outbox, sent,
                   open, view, overtaken>>

\* send_task, which drains the channel, is started only after the Hello.
SendHello(c) ==
    /\ phase[c] = "joining"
    /\ todo[c] = {}
    /\ Send(c, Hello(hello[c]))
    /\ phase' = [phase EXCEPT ![c] = "running"]
    /\ alive' = [alive EXCEPT ![c] = TRUE]
    /\ hello' = [hello EXCEPT ![c] = Nobody]
    /\ UNCHANGED <<members, info, count, todo, outbox, sent, open, view, overtaken>>

\* recv_task returned: send_task is aborted and its rx dropped.
RecvEnded(c) ==
    /\ phase[c] = "running"
    /\ ~alive[c]
    /\ phase' = [phase EXCEPT ![c] = "leaving"]
    /\ chan'  = [chan EXCEPT ![c] = <<>>]
    /\ open'  = [open EXCEPT ![c] = FALSE]
    /\ view'  = [view EXCEPT ![c] = Nobody]
    /\ UNCHANGED <<members, info, count, todo, hello, alive, outbox, sent, overtaken>>

\* send_task could not write to the websocket.  The abort of recv_task is
\* asked for, not waited for: AbortRecv.
SendFailed(c) ==
    /\ phase[c] = "running"
    /\ ~open[c]
    /\ chan[c] # <<>>
    /\ phase' = [phase EXCEPT ![c] = "leaving"]
    /\ chan'  = [chan EXCEPT ![c] = <<>>]
    /\ UNCHANGED <<members, info, count, todo, hello, alive, outbox, sent,
                   open, view, overtaken>>

\* (mutant) tells only the peers that were greeted.
RemoveTellsGreeted(c) ==
    /\ phase[c] = "leaving"
    /\ members' = members \ {c}
    /\ todo'    = [todo EXCEPT ![c] = {d \in members \ {c} : phase[d] # "joining"}]
    /\ phase'   = [phase EXCEPT ![c] = "announcing"]
    /\ UNCHANGED <<info, count, hello, chan, alive, outbox, sent, open, view, overtaken>>

\* Under the lock again: leave the map, and note who is to be told.
Remove(c) ==
    /\ phase[c] = "leaving"
    /\ members' = members \ {c}
    /\ todo'    = [todo EXCEPT ![c] = members \ {c}]
    /\ phase'   = [phase EXCEPT ![c] = "announcing"]
    /\ UNCHANGED <<info, count, hello, chan, alive, outbox, sent, open, view, overtaken>>

\* d's Hello is not queued yet, but lists c as it was when d was admitted.
OvertakesHello(d, c) == phase[d] = "joining" /\ hello[d][c] # Unknown

SendLeft(c, p) ==
    /\ phase[c] = "announcing"
    /\ p \in todo[c]
    /\ Send(p, Left(c))
    /\ todo' = [todo EXCEPT ![c] = @ \ {p}]
    /\ overtaken' = overtaken \cup (IF OvertakesHello(p, c) THEN {<<p, c>>} ELSE {})
    /\ UNCHANGED <<phase, members, info, count, hello, alive, outbox, sent, open, view>>

Gone(c) ==
    /\ phase[c] = "announcing"
    /\ todo[c] = {}
    /\ phase' = [phase EXCEPT ![c] = "gone"]
    /\ UNCHANGED <<members, info, count, todo, hello, chan, alive, outbox,
                   sent, open, view, overtaken>>

(***************************************************************************)
(* recv_task.                                                              *)
(***************************************************************************)
Receiving(c) == alive[c] /\ outbox[c].to = {} /\ sent < MaxMsgs

RecvUpdate(c) ==
    /\ Receiving(c)
    /\ count < MaxRequests
    /\ count' = count + 1
    /\ sent'  = sent + 1
    /\ IF c \in members
       THEN /\ info'   = [info EXCEPT ![c] = sent + 1]
            /\ outbox' = [outbox EXCEPT ![c] = [to  |-> members \ {c},
                                                msg |-> Update(c, sent + 1)]]
       ELSE UNCHANGED <<info, outbox>>
    /\ UNCHANGED <<phase, members, todo, hello, chan, alive, open, view, overtaken>>

\* Offer and Answer, to a peer the client has in view.
RecvSdp(c, t) ==
    /\ Receiving(c)
    /\ view[c][t] # Unknown
    /\ count < MaxRequests
    /\ count' = count + 1
    /\ sent'  = sent + 1
    /\ outbox' = IF t \in members
                 THEN [outbox EXCEPT ![c] = [to |-> {t}, msg |-> Sdp(c)]]
                 ELSE outbox
    /\ UNCHANGED <<phase, members, info, todo, hello, chan, alive, open, view, overtaken>>

\* 429: the client is told on its own channel, and the task returns.
RecvLimited(c) ==
    /\ Receiving(c)
    /\ count >= MaxRequests
    /\ Send(c, Error)
    /\ alive' = [alive EXCEPT ![c] = FALSE]
    /\ sent'  = sent + 1
    /\ UNCHANGED <<phase, members, info, count, todo, hello, outbox, open, view, overtaken>>

RecvSend(c, p) ==
    LET m == outbox[c].msg IN
    /\ alive[c]
    /\ p \in outbox[c].to
    /\ Send(p, m)
    /\ outbox' = [outbox EXCEPT ![c].to = @ \ {p}]
    /\ overtaken' = overtaken \cup
          (IF /\ m.type = "Update"
              /\ \/ OvertakesHello(p, c)
                 \/ phase[c] \in {"announcing", "gone"} /\ p \notin todo[c]
           THEN {<<p, c>>} ELSE {})
    /\ UNCHANGED <<phase, members, info, count, todo, hello, alive, sent, open, view>>

\* receiver.next() yields nothing more.
RecvClosed(c) ==
    /\ alive[c] /\ outbox[c].to = {} /\ ~open[c]
    /\ alive' = [alive EXCEPT ![c] = FALSE]
    /\ UNCHANGED <<srvVars, info, chan, outbox, sent, open, view, overtaken>>

\* recv_task.abort() takes effect when the task next yields.
AbortRecv(c) ==
    /\ Closed(c)
    /\ alive[c]
    /\ alive'  = [alive EXCEPT ![c] = FALSE]
    /\ outbox' = [outbox EXCEPT ![c] = Idle]
    /\ UNCHANGED <<srvVars, info, chan, sent, open, view, overtaken>>

(***************************************************************************)
(* send_task and the client at the other end; the hourly job.              *)
(***************************************************************************)

\* RegisterSignalingDeviceAction and UnregisterSignalingDeviceAction.
Applied(v, m) ==
    CASE m.type = "Hello" -> [d \in Conns |-> IF m.peers[d] # Unknown THEN m.peers[d] ELSE v[d]]
      [] m.type \in {"Join", "Update"} -> [v EXCEPT ![m.from] = m.info]
      [] m.type = "Left" -> [v EXCEPT ![m.from] = Unknown]
      [] OTHER -> v

\* (mutant) send_task is started before the Hello.
DeliverEarly(c) ==
    /\ phase[c] \in {"joining", "running"}
    /\ open[c]
    /\ chan[c] # <<>>
    /\ view' = [view EXCEPT ![c] = Applied(@, Head(chan[c]))]
    /\ chan' = [chan EXCEPT ![c] = Tail(@)]
    /\ UNCHANGED <<srvVars, info, alive, outbox, sent, open, overtaken>>

Deliver(c) ==
    /\ phase[c] = "running"
    /\ open[c]
    /\ chan[c] # <<>>
    /\ view' = [view EXCEPT ![c] = Applied(@, Head(chan[c]))]
    /\ chan' = [chan EXCEPT ![c] = Tail(@)]
    /\ UNCHANGED <<srvVars, info, alive, outbox, sent, open, overtaken>>

ClientCloses(c) ==
    /\ open[c]
    /\ open' = [open EXCEPT ![c] = FALSE]
    /\ view' = [view EXCEPT ![c] = Nobody]
    /\ UNCHANGED <<srvVars, info, chan, alive, outbox, sent, overtaken>>

ClearCounts ==
    /\ count > 0
    /\ count' = 0
    /\ UNCHANGED <<phase, members, info, todo, hello, chan, alive, outbox,
                   sent, open, view, overtaken>>

(***************************************************************************)
(* Specification.                                                          *)
(***************************************************************************)
Handle(c) ==
    \/ \E p \in Conns : SendJoin(c, p)
    \/ SendHello(c)
    \/ RecvEnded(c)
    \/ Remove(c)
    \/ \E p \in Conns : SendLeft(c, p)
    \/ Gone(c)

RecvTask(c) ==
    \/ \E p \in Conns : RecvSend(c, p)
    \/ RecvClosed(c)
    \/ AbortRecv(c)

SendTask(c) == Deliver(c) \/ SendFailed(c)

Client(c) ==
    \/ Refuse(c)
    \/ Admit(c)
    \/ RecvUpdate(c)
    \/ \E t \in Conns : RecvSdp(c, t)
    \/ RecvLimited(c)
    \/ ClientCloses(c)

Next ==
    \/ \E c \in Conns : Handle(c) \/ RecvTask(c) \/ SendTask(c) \/ Client(c)
    \/ ClearCounts

Spec == Init /\ [][Next]_vars

\* tokio polls every task that can make progress; clients read their socket.
Fairness ==
    \A c \in Conns : WF_vars(Handle(c)) /\ WF_vars(RecvTask(c)) /\ WF_vars(SendTask(c))

FairSpec == Spec /\ Fairness

(***************************************************************************)
(* Safety.                                                                 *)
(***************************************************************************)

\* At no time does a group hold more connections than the limit, although
\* connections are opened and closed concurrently.
GroupLimit == Cardinality(members) <= MaxConnections

\* Word of d is on its way to c: queued, to be queued by d, or in c's Hello.
Announced(c, d) ==
    \/ \E i \in 1..Len(chan[c]) :
          \/ chan[c][i].type \in {"Join", "Update"} /\ chan[c][i].from = d
          \/ chan[c][i].type = "Hello" /\ chan[c][i].peers[d] # Unknown
    \/ phase[d] = "joining" /\ c \in todo[d]
    \/ phase[c] = "joining" /\ hello[c][d] # Unknown

\* No two devices of a group miss each other, whatever order they connect in:
\* each knows of the other or is about to be told.
NobodyMissed ==
    \A c, d \in members : c # d /\ open[c] => view[c][d] # Unknown \/ Announced(c, d)

\* Everything that has been said has been heard.
AtRest ==
    \A c \in Conns : /\ phase[c] \in {"out", "refused", "running", "gone"}
                     /\ phase[c] = "running" => alive[c] /\ open[c]
                     /\ chan[c] = <<>> /\ outbox[c].to = {}

\* At rest a client sees exactly the other members, with their latest info,
\* but for a peer whose Update or Left overtook the client's Hello, or whose
\* Update overtook its own Left.
ViewExact ==
    AtRest => \A c \in members, d \in Conns :
        c # d /\ <<c, d>> \notin overtaken =>
            view[c][d] = IF d \in members THEN info[d] ELSE Unknown

\* Nobody drains a channel that is full before the Hello is in it: neither the
\* peers that wait for room nor the client, by closing, can end the wait.
JammedAt(d) == phase[d] = "joining" /\ Len(chan[d]) >= Cap
JamIsForever == [][\A d \in Conns : JammedAt(d) => JammedAt(d)']_vars

(***************************************************************************)
(* The inductive invariant behind NobodyMissed.                            *)
(***************************************************************************)

\* A connection is in the map from its admission to its removal.
MembersServed ==
    \A c \in Conns : c \in members <=> phase[c] \in {"joining", "running", "leaving"}

\* A channel is closed only after its client.
ClosedNotOpen == \A c \in Conns : open[c] => phase[c] \in {"joining", "running"}

\* Only a connection out of the map is said to have left.
LeftHasLeft ==
    \A c \in Conns : \A i \in 1..Len(chan[c]) : chan[c][i].type = "Left" =>
        phase[chan[c][i].from] \in {"announcing", "gone"}

\* recv_task never sends a Left.
OutboxNoLeft == \A c \in Conns : outbox[c].msg.type # "Left"

IInv == MembersServed /\ ClosedNotOpen /\ LeftHasLeft /\ OutboxNoLeft /\ NobodyMissed

(***************************************************************************)
(* The inductive invariant behind ViewExact.                               *)
(***************************************************************************)

\* The message m says of d that it has the value v, or says nothing of d.
Says(m, d, v) ==
    \/ m.type = "Hello" /\ m.peers[d] # Unknown /\ v = m.peers[d]
    \/ m.type \in {"Join", "Update"} /\ m.from = d /\ v = m.info
    \/ m.type = "Left" /\ m.from = d /\ v = Unknown

Silent(m, d) ==
    \/ m.type = "Hello" /\ m.peers[d] = Unknown
    \/ m.type \in {"Join", "Update", "Left"} /\ m.from # d
    \/ m.type \in {"Sdp", "Error"}

\* What c's client will make of d once its channel is drained: the last word
\* of d in the channel, or what it sees already.
LastWord(c, d, v) ==
    \/ \E i \in 1..Len(chan[c]) :
          /\ Says(chan[c][i], d, v)
          /\ \A j \in (i+1)..Len(chan[c]) : Silent(chan[c][j], d)
    \/ view[c][d] = v /\ \A j \in 1..Len(chan[c]) : Silent(chan[c][j], d)

\* The same, counting the Hello that is still to be queued.
Heard(c, d, v) ==
    IF phase[c] = "joining" /\ hello[c][d] # Unknown
    THEN hello[c][d] = v ELSE LastWord(c, d, v)

\* Word of d for c has yet to be queued.
Pending(c, d) ==
    \/ phase[d] \in {"joining", "announcing"} /\ c \in todo[d]
    \/ phase[d] = "running" /\ c \in outbox[d].to /\ outbox[d].msg.type = "Update"
    \/ phase[d] = "leaving"

Truth(d) == IF phase[d] \in {"joining", "running"} THEN info[d] ELSE Unknown

\* Unless word is pending, or came out of order, the last word is the truth.
HeardInv ==
    \A c, d \in Conns :
        c # d /\ open[c] /\ <<c, d>> \notin overtaken /\ ~Pending(c, d) => Heard(c, d, Truth(d))

\* A connection that was not admitted yet is unheard of.
Fresh ==
    \A d \in Conns : phase[d] \in {"out", "refused"} =>
        /\ chan[d] = <<>> /\ view[d] = Nobody /\ info[d] = 0 /\ ~alive[d]
        /\ \A c \in Conns : hello[c][d] = Unknown /\ d \notin todo[c] /\ d \notin outbox[c].to

\* A connection that says Join to c came after c.
JoinsLater ==
    \A d \in Conns : phase[d] = "joining" =>
        /\ info[d] = 0 /\ ~alive[d]
        /\ \A c \in todo[d] : hello[c][d] = Unknown

\* The Update under way is the latest.
OutboxLatest ==
    \A d \in Conns :
        /\ outbox[d].msg.type \in {"Update", "Sdp", "Error"}
        /\ outbox[d].to # {} /\ outbox[d].msg.type = "Update" => outbox[d].msg = Update(d, info[d])

GoneTold == \A d \in Conns : phase[d] = "gone" => todo[d] = {}

ViewInv == HeardInv /\ Fresh /\ JoinsLater /\ OutboxLatest /\ GoneTold

\* The state is well typed, the counts included; members, channels and
\* messages under way agree with each connection's phase; and the last word of
\* a peer that is on its way to a client is the truth about that peer.
Inv == TypeOK /\ IInv /\ ViewInv

(***************************************************************************)
(* Liveness.                                                               *)
(***************************************************************************)

Jammed == \E d \in Conns : JammedAt(d)

\* An admitted connection is greeted, unless such a channel is in the way.
AdmittedIsGreeted ==
    \A c \in Conns : (phase[c] = "joining") ~> (phase[c] # "joining" \/ Jammed)

\* A connection closed by its client leaves the map and the others are told,
\* with the same exception.
ClosedIsForgotten ==
    \A c \in Conns : (~open[c] /\ phase[c] = "running") ~> (phase[c] = "gone" \/ Jammed)
=============================================================================
