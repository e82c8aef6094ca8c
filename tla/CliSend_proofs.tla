--------------------------- MODULE CliSend_proofs ---------------------------
(***************************************************************************)
(* Proofs about CliSend, for any number of sends, any channel capacity,    *)
(* any number of files, with and without --file and message loss.          *)
(***************************************************************************)
EXTENDS CliSend, TLAPS

\* What Append and Tail do to a queue, position by position.
LEMMA QueueFacts ==
    ASSUME NEW S, NEW q \in Seq(S)
    PROVE  /\ Len(q) \in Nat
           /\ \A e \in S : /\ Append(q, e) \in Seq(S)
                           /\ Len(Append(q, e)) = Len(q) + 1
                           /\ \A i \in 1..Len(q) : Append(q, e)[i] = q[i]
                           /\ Append(q, e)[Len(q) + 1] = e
           /\ q # <<>> => /\ Tail(q) \in Seq(S)
                          /\ Len(Tail(q)) = Len(q) - 1
                          /\ Head(q) = q[1] /\ q[1] \in S /\ 1 \in 1..Len(q)
                          /\ \A i \in 1..Len(Tail(q)) : Tail(q)[i] = q[i + 1]
  OBVIOUS

LEMMA EventFacts ==
    /\ \A t \in Tasks : Started(t) \in Events /\ Ended(t) \in Events
    /\ \A e \in Events : /\ e.task \in Tasks
                         /\ e.type \in {"SendSessionStarted", "SendEnded"}
<1>1. \A t \in Tasks : Started(t) \in Events /\ Ended(t) \in Events
  BY DEF Events
<1>2. ASSUME NEW e \in Events
      PROVE  e.task \in Tasks /\ e.type \in {"SendSessionStarted", "SendEnded"}
  <2>1. PICK t \in Tasks : e = Started(t) \/ e = Ended(t)
    BY DEF Events
  <2> QED BY <2>1 DEF Started, Ended
<1> QED BY <1>1, <1>2

(***************************************************************************)
(* Type correctness, which needs LeftToUpload for the countdown of files.  *)
(***************************************************************************)
LEMMA AppTypes ==
    ASSUME TypeOK, LeftToUpload, Key \/ ReceiveChanges \/ HandleEvent
    PROVE  TypeOK' /\ LeftToUpload'
<1> USE DEF TypeOK, LeftToUpload, RestOfKey, taskVars, peerVars
<1>1. CASE PressSlot
  BY <1>1 DEF PressSlot, OpenPicker, StartSend
<1>2. CASE PressD
  BY <1>2 DEF PressD
<1>3. CASE ListSend
  BY <1>3 DEF ListSend, OpenPicker, StartSend
<1>4. CASE ListClosed
  BY <1>4 DEF ListClosed
<1>5. CASE Picked
  BY <1>5 DEF Picked, StartSend
<1>6. CASE PickerCancelled
  BY <1>6 DEF PickerCancelled
<1>7. CASE CtrlC
  BY <1>7 DEF CtrlC
<1>8. CASE ReceiveChanges
  BY <1>8 DEF ReceiveChanges
<1>9. CASE HandleSessionStarted
  BY <1>9, QueueFacts, EventFacts DEF HandleSessionStarted
<1>10. CASE HandleSendEnded
  BY <1>10, QueueFacts DEF HandleSendEnded
<1> QED BY <1>1, <1>2, <1>3, <1>4, <1>5, <1>6, <1>7, <1>8, <1>9, <1>10 DEF Key, HandleEvent

LEMMA TaskTypes ==
    ASSUME TypeOK, LeftToUpload, NEW t \in Tasks, TaskStep(t)
    PROVE  TypeOK' /\ LeftToUpload'
<1> USE DEF TypeOK, LeftToUpload, RestOfTask, appVars, Goes, Closes
<1>1. CASE NoClient(t)
  BY <1>1 DEF NoClient
<1>2. CASE Prepare(t)
  BY <1>2 DEF Prepare
<1>3. CASE PrepareCancelled(t)
  BY <1>3 DEF PrepareCancelled
<1>4. CASE PrepareFailed(t)
  BY <1>4 DEF PrepareFailed
<1>5. CASE PrepareRefused(t)
  BY <1>5 DEF PrepareRefused
<1>6. CASE Prepared(t)
  BY <1>6, CapAssumption DEF Prepared
<1>7. CASE Announce(t)
  BY <1>7, QueueFacts, EventFacts DEF Announce
<1>8. CASE Uploaded(t)
  <2>1. left[t] \in 0..MaxFiles /\ left[t] > 0
    BY <1>8 DEF Uploaded
  <2>2. left' \in [Tasks -> 0..MaxFiles]
    BY <1>8, <2>1, CapAssumption DEF Uploaded
  <2>3. CASE left[t] > 1
    BY <1>8, <2>1, <2>2, <2>3 DEF Uploaded
  <2>4. CASE ~(left[t] > 1)
    BY ZenonT(40), <1>8, <2>2, <2>4 DEF Uploaded
  <2> QED BY <2>3, <2>4
<1>9. CASE UploadCancelled(t)
  BY <1>9 DEF UploadCancelled
<1>10. CASE UploadFailed(t)
  BY <1>10 DEF UploadFailed
<1>11. CASE Tell(t)
  BY <1>11 DEF Tell
<1>12. CASE EmitEnded(t)
  BY <1>12, QueueFacts, EventFacts DEF EmitEnded
<1>13. CASE Panics(t)
  BY <1>13 DEF Panics
<1> QED BY <1>1, <1>2, <1>3, <1>4, <1>5, <1>6, <1>7, <1>8, <1>9, <1>10, <1>11, <1>12,
           <1>13 DEF TaskStep

LEMMA PeerTypes ==
    ASSUME TypeOK, LeftToUpload, NEW t \in Tasks,
           HandleCancelReceived(t) \/ Peer(t)
    PROVE  TypeOK' /\ LeftToUpload'
<1> USE DEF TypeOK, LeftToUpload, RestOfPeer, appVars, taskVars
<1>1. CASE HandleCancelReceived(t)
  BY <1>1 DEF HandleCancelReceived
<1>2. CASE PeerAsked(t)
  BY <1>2 DEF PeerAsked
<1>3. CASE PeerAnswers(t)
  <2>1. reply' \in [Tasks -> {"none", "accepted", "unknown", "refused"}]
    BY <1>3 DEF PeerAnswers
  <2>2. peer' \in [Tasks -> {"idle", "asked", "open", "refused", "aborted",
                             "complete", "cancelled", "told"}]
    BY <1>3 DEF PeerAnswers
  <2> QED BY <1>3, <2>1, <2>2 DEF PeerAnswers
<1>4. CASE PeerAborted(t)
  BY <1>4 DEF PeerAborted
<1>5. CASE PeerCancels(t)
  BY <1>5 DEF PeerCancels
<1> QED BY <1>1, <1>2, <1>3, <1>4, <1>5 DEF Peer

\* Every variable keeps its type, and a task that is to upload has a file
\* left: the countdown of send_inner's loop never runs below zero.
THEOREM TypeCorrect == Spec => [](TypeOK /\ LeftToUpload)
<1>1. ASSUME Init
      PROVE  TypeOK /\ LeftToUpload
  <2>1. 0 \in 0..MaxFiles /\ <<>> \in Seq(Events)
    BY CapAssumption
  <2>2. screen \in {"main", "list", "picker"}
    BY <1>1 DEF Init
  <2>3. TypeOK
    BY <1>1, <2>1, <2>2 DEF Init, TypeOK
  <2> QED BY <1>1, <2>3 DEF Init, LeftToUpload
<1>2. TypeOK /\ LeftToUpload /\ [Next]_vars => TypeOK' /\ LeftToUpload'
  <2>1. ASSUME TypeOK, LeftToUpload, Next
        PROVE  TypeOK' /\ LeftToUpload'
    BY <2>1, AppTypes, TaskTypes, PeerTypes DEF Next
  <2>2. ASSUME TypeOK, LeftToUpload, UNCHANGED vars
        PROVE  TypeOK' /\ LeftToUpload'
    BY <2>2 DEF vars, TypeOK, LeftToUpload
  <2> QED BY <2>1, <2>2
<1> QED BY <1>1, <1>2, PTL DEF Spec

(***************************************************************************)
(* The inductive invariant.                                                *)
(***************************************************************************)
\* What a new send does to the parts about the tasks: with no send tracked no
\* report can be queued, so none is mistaken for the new send's.
LEMMA StartKeeps ==
    ASSUME TypeOK, IInv, StartSend,
           UNCHANGED <<events, peer, reply, outcome, token, byPeer, lost>>
    PROVE  TaskIsSend' /\ OpenIsExpected' /\ UnbornIsClean'
<1> USE NoneAssumption DEF IInv
<1>1. CASE UNCHANGED <<send, session, task>>
  BY <1>1 DEF TaskIsSend, Active, OpenIsExpected, UnbornIsClean
<1>2. ASSUME NEW t \in Tasks, send = None, task[t] = "unborn",
             send' = t, task' = [task EXCEPT ![t] = "born"]
      PROVE  TaskIsSend' /\ OpenIsExpected' /\ UnbornIsClean'
  <2>1. \A u \in Tasks : ~Active(u)
    BY <1>2 DEF TaskIsSend
  <2>2. \A i \in 1..Len(events) : events[i].task \in Tasks
    BY QueueFacts, EventFacts DEF TypeOK
  <2>3. \A i \in 1..Len(events) : FALSE
    BY <1>2, <2>2 DEF TaskIsSend
  <2>4. TaskIsSend'
    BY <1>2, <2>1, <2>3 DEF TypeOK, TaskIsSend, Active
  <2>5. OpenIsExpected'
    BY <1>2 DEF TypeOK, OpenIsExpected, UnbornIsClean
  <2>6. UnbornIsClean'
    BY <1>2 DEF TypeOK, UnbornIsClean
  <2> QED BY <2>4, <2>5, <2>6
<1> QED BY <1>1, <1>2 DEF StartSend

\* What taking a report off the queue leaves of TaskIsSend.
LEMMA QueueTaken ==
    ASSUME TypeOK, IInv, events # <<>>
    PROVE  /\ Head(events).task = send
           /\ Head(events).type = "SendEnded" =>
                 Len(Tail(events)) = 0 /\ task[send] = "done"
           /\ \A i \in 1..Len(Tail(events)) :
                 /\ send = Tail(events)[i].task
                 /\ Tail(events)[i].type = "SendEnded" =>
                       i = Len(Tail(events)) /\ task[Tail(events)[i].task] = "done"
<1> USE DEF IInv
<1>1. events \in Seq(Events)
  BY DEF TypeOK
<1>2. Head(events).task = send
  BY <1>1, QueueFacts DEF TaskIsSend
<1>3. ASSUME Head(events).type = "SendEnded"
      PROVE  Len(Tail(events)) = 0 /\ task[send] = "done"
  <2>1. 1 \in 1..Len(events) /\ Head(events) = events[1]
    BY <1>1, QueueFacts
  <2>2. 1 = Len(events) /\ task[send] = "done"
    BY <1>2, <1>3, <2>1 DEF TaskIsSend
  <2>3. Tail(events) \in Seq(Events) /\ Len(Tail(events)) = 0
    BY <1>1, <2>2, QueueFacts
  <2> QED BY <2>2, <2>3
<1>4. ASSUME NEW i \in 1..Len(Tail(events))
      PROVE  /\ send = Tail(events)[i].task
             /\ Tail(events)[i].type = "SendEnded" =>
                   i = Len(Tail(events)) /\ task[Tail(events)[i].task] = "done"
  <2>1. /\ i + 1 \in 1..Len(events) /\ Tail(events)[i] = events[i + 1]
        /\ i \in Nat /\ Len(Tail(events)) = Len(events) - 1
    BY <1>1, <1>4, QueueFacts
  <2>2. send = Tail(events)[i].task
    BY <2>1 DEF TaskIsSend
  <2>3. Tail(events)[i].type = "SendEnded" =>
           i + 1 = Len(events) /\ task[Tail(events)[i].task] = "done"
    BY <2>1 DEF TaskIsSend
  <2>4. Len(events) \in Nat
    BY <1>1, QueueFacts
  <2>5. \A j, n \in Nat : j + 1 = n => j = n - 1
    OBVIOUS
  <2>6. i + 1 = Len(events) => i = Len(Tail(events))
    BY <2>1, <2>4, <2>5, Zenon
  <2> QED BY <2>2, <2>3, <2>6
<1> QED BY <1>2, <1>3, <1>4

\* What a task's report adds to the queue: no SendEnded is there yet.
LEMMA QueueAdded ==
    ASSUME TypeOK, IInv, NEW t \in Tasks, Active(t), NEW e \in Events,
           e.task = t, events' = Append(events, e), UNCHANGED send,
           NEW phase, task' = [task EXCEPT ![t] = phase],
           e.type = "SendEnded" => phase = "done"
    PROVE  TaskIsSend'
<1> USE DEF IInv
<1>1. send = t /\ events \in Seq(Events)
  BY DEF TaskIsSend, TypeOK
<1>2. \A u \in Tasks : Active(u)' => send' = u
  BY <1>1 DEF TaskIsSend, Active, TypeOK
<1>3. /\ Len(events) \in Nat /\ Len(events') = Len(events) + 1
      /\ \A i \in 1..Len(events) : events'[i] = events[i]
      /\ events'[Len(events) + 1] = e
  BY <1>1, QueueFacts
<1>4. \A i \in 1..Len(events) : events[i].task = t /\ events[i].type # "SendEnded"
  BY <1>1 DEF TaskIsSend, Active
<1>5. ASSUME NEW i \in 1..Len(events')
      PROVE  /\ send' = events'[i].task
             /\ events'[i].type = "SendEnded" =>
                   i = Len(events') /\ task'[events'[i].task] = "done"
  <2>1. CASE i = Len(events) + 1
    <3>1. events'[i] = e /\ i = Len(events')
      BY <1>3, <2>1
    <3>2. task'[t] = phase
      BY DEF TypeOK
    <3> QED BY <1>1, <3>1, <3>2
  <2>2. CASE i # Len(events) + 1
    <3>1. i \in 1..Len(events)
      BY <1>3, <1>5, <2>2
    <3> QED BY <1>1, <1>3, <1>4, <3>1
  <2> QED BY <2>1, <2>2
<1> QED BY <1>2, <1>5 DEF TaskIsSend

LEMMA AppSteps ==
    ASSUME TypeOK, IInv, Key \/ ReceiveChanges \/ HandleEvent
    PROVE  IInv'
<1> USE NoneAssumption DEF IInv
<1>0. LeftToUpload'
  BY AppTypes
<1>1. CASE PressSlot
  <2>1. TaskIsSend'
    BY <1>1, StartKeeps DEF PressSlot, RestOfKey, peerVars, OpenPicker,
                            StartSend
  <2>2. SessionIsOwn'
    BY <1>1 DEF TypeOK, PressSlot, OpenPicker, StartSend, RestOfKey, taskVars, peerVars, SessionIsOwn
  <2>3. ByPeerIsTrue'
    BY <1>1 DEF TypeOK, PressSlot, OpenPicker, StartSend, RestOfKey, taskVars, peerVars, ByPeerIsTrue
  <2>4. PickerMeansIdle'
    BY <1>1 DEF TypeOK, PressSlot, OpenPicker, StartSend, RestOfKey, taskVars, peerVars, PickerMeansIdle
  <2>5. UnbornIsClean'
    BY <1>1 DEF TypeOK, PressSlot, OpenPicker, StartSend, RestOfKey, taskVars, peerVars, UnbornIsClean
  <2>6. CancelsAreTrue'
    BY <1>1 DEF TypeOK, PressSlot, OpenPicker, StartSend, RestOfKey, taskVars, peerVars, CancelsAreTrue
  <2>7. OpenIsExpected'
    BY <1>1, StartKeeps DEF PressSlot, RestOfKey, peerVars, OpenPicker,
                            StartSend
  <2> QED BY <1>0, <2>1, <2>2, <2>3, <2>4, <2>5, <2>6, <2>7
<1>2. CASE PressD
  <2>1. TaskIsSend'
    BY <1>2 DEF TypeOK, PressD, RestOfKey, taskVars, peerVars, TaskIsSend, Active
  <2>2. SessionIsOwn'
    BY <1>2 DEF TypeOK, PressD, RestOfKey, taskVars, peerVars, SessionIsOwn
  <2>3. ByPeerIsTrue'
    BY <1>2 DEF TypeOK, PressD, RestOfKey, taskVars, peerVars, ByPeerIsTrue
  <2>4. PickerMeansIdle'
    BY <1>2 DEF TypeOK, PressD, RestOfKey, taskVars, peerVars, PickerMeansIdle
  <2>5. UnbornIsClean'
    BY <1>2 DEF TypeOK, PressD, RestOfKey, taskVars, peerVars, UnbornIsClean
  <2>6. CancelsAreTrue'
    BY <1>2 DEF TypeOK, PressD, RestOfKey, taskVars, peerVars, CancelsAreTrue
  <2>7. OpenIsExpected'
    BY <1>2 DEF TypeOK, PressD, RestOfKey, taskVars, peerVars, OpenIsExpected
  <2> QED BY <1>0, <2>1, <2>2, <2>3, <2>4, <2>5, <2>6, <2>7
<1>3. CASE ListSend
  <2>1. TaskIsSend'
    BY <1>3, StartKeeps DEF ListSend, RestOfKey, peerVars, OpenPicker,
                            StartSend
  <2>2. SessionIsOwn'
    BY <1>3 DEF TypeOK, ListSend, OpenPicker, StartSend, RestOfKey, taskVars, peerVars, SessionIsOwn
  <2>3. ByPeerIsTrue'
    BY <1>3 DEF TypeOK, ListSend, OpenPicker, StartSend, RestOfKey, taskVars, peerVars, ByPeerIsTrue
  <2>4. PickerMeansIdle'
    BY <1>3 DEF TypeOK, ListSend, OpenPicker, StartSend, RestOfKey, taskVars, peerVars, PickerMeansIdle
  <2>5. UnbornIsClean'
    BY <1>3 DEF TypeOK, ListSend, OpenPicker, StartSend, RestOfKey, taskVars, peerVars, UnbornIsClean
  <2>6. CancelsAreTrue'
    BY <1>3 DEF TypeOK, ListSend, OpenPicker, StartSend, RestOfKey, taskVars, peerVars, CancelsAreTrue
  <2>7. OpenIsExpected'
    BY <1>3, StartKeeps DEF ListSend, RestOfKey, peerVars, OpenPicker,
                            StartSend
  <2> QED BY <1>0, <2>1, <2>2, <2>3, <2>4, <2>5, <2>6, <2>7
<1>4. CASE ListClosed
  <2>1. TaskIsSend'
    BY <1>4 DEF TypeOK, ListClosed, RestOfKey, taskVars, peerVars, TaskIsSend, Active
  <2>2. SessionIsOwn'
    BY <1>4 DEF TypeOK, ListClosed, RestOfKey, taskVars, peerVars, SessionIsOwn
  <2>3. ByPeerIsTrue'
    BY <1>4 DEF TypeOK, ListClosed, RestOfKey, taskVars, peerVars, ByPeerIsTrue
  <2>4. PickerMeansIdle'
    BY <1>4 DEF TypeOK, ListClosed, RestOfKey, taskVars, peerVars, PickerMeansIdle
  <2>5. UnbornIsClean'
    BY <1>4 DEF TypeOK, ListClosed, RestOfKey, taskVars, peerVars, UnbornIsClean
  <2>6. CancelsAreTrue'
    BY <1>4 DEF TypeOK, ListClosed, RestOfKey, taskVars, peerVars, CancelsAreTrue
  <2>7. OpenIsExpected'
    BY <1>4 DEF TypeOK, ListClosed, RestOfKey, taskVars, peerVars, OpenIsExpected
  <2> QED BY <1>0, <2>1, <2>2, <2>3, <2>4, <2>5, <2>6, <2>7
<1>5. CASE Picked
  <2>1. TaskIsSend'
    BY <1>5, StartKeeps DEF Picked, RestOfKey, peerVars, OpenPicker,
                            StartSend
  <2>2. SessionIsOwn'
    BY <1>5 DEF TypeOK, Picked, StartSend, RestOfKey, taskVars, peerVars, SessionIsOwn
  <2>3. ByPeerIsTrue'
    BY <1>5 DEF TypeOK, Picked, StartSend, RestOfKey, taskVars, peerVars, ByPeerIsTrue
  <2>4. PickerMeansIdle'
    BY <1>5 DEF TypeOK, Picked, StartSend, RestOfKey, taskVars, peerVars, PickerMeansIdle
  <2>5. UnbornIsClean'
    BY <1>5 DEF TypeOK, Picked, StartSend, RestOfKey, taskVars, peerVars, UnbornIsClean
  <2>6. CancelsAreTrue'
    BY <1>5 DEF TypeOK, Picked, StartSend, RestOfKey, taskVars, peerVars, CancelsAreTrue
  <2>7. OpenIsExpected'
    BY <1>5, StartKeeps DEF Picked, RestOfKey, peerVars, OpenPicker,
                            StartSend
  <2> QED BY <1>0, <2>1, <2>2, <2>3, <2>4, <2>5, <2>6, <2>7
<1>6. CASE PickerCancelled
  <2>1. TaskIsSend'
    BY <1>6 DEF TypeOK, PickerCancelled, RestOfKey, taskVars, peerVars, TaskIsSend, Active
  <2>2. SessionIsOwn'
    BY <1>6 DEF TypeOK, PickerCancelled, RestOfKey, taskVars, peerVars, SessionIsOwn
  <2>3. ByPeerIsTrue'
    BY <1>6 DEF TypeOK, PickerCancelled, RestOfKey, taskVars, peerVars, ByPeerIsTrue
  <2>4. PickerMeansIdle'
    BY <1>6 DEF TypeOK, PickerCancelled, RestOfKey, taskVars, peerVars, PickerMeansIdle
  <2>5. UnbornIsClean'
    BY <1>6 DEF TypeOK, PickerCancelled, RestOfKey, taskVars, peerVars, UnbornIsClean
  <2>6. CancelsAreTrue'
    BY <1>6 DEF TypeOK, PickerCancelled, RestOfKey, taskVars, peerVars, CancelsAreTrue
  <2>7. OpenIsExpected'
    BY <1>6 DEF TypeOK, PickerCancelled, RestOfKey, taskVars, peerVars, OpenIsExpected
  <2> QED BY <1>0, <2>1, <2>2, <2>3, <2>4, <2>5, <2>6, <2>7
<1>7. CASE CtrlC
  <2>1. TaskIsSend'
    BY <1>7 DEF TypeOK, CtrlC, RestOfKey, taskVars, peerVars, TaskIsSend, Active
  <2>2. SessionIsOwn'
    BY <1>7 DEF TypeOK, CtrlC, RestOfKey, taskVars, peerVars, SessionIsOwn
  <2>3. ByPeerIsTrue'
    BY <1>7 DEF TypeOK, CtrlC, RestOfKey, taskVars, peerVars, ByPeerIsTrue
  <2>4. PickerMeansIdle'
    BY <1>7 DEF TypeOK, CtrlC, RestOfKey, taskVars, peerVars, PickerMeansIdle
  <2>5. UnbornIsClean'
    BY <1>7 DEF TypeOK, CtrlC, RestOfKey, taskVars, peerVars, UnbornIsClean
  <2>6. CancelsAreTrue'
    BY <1>7 DEF TypeOK, CtrlC, RestOfKey, taskVars, peerVars, CancelsAreTrue
  <2>7. OpenIsExpected'
    BY <1>7 DEF TypeOK, CtrlC, RestOfKey, taskVars, peerVars, OpenIsExpected
  <2> QED BY <1>0, <2>1, <2>2, <2>3, <2>4, <2>5, <2>6, <2>7
<1>8. CASE ReceiveChanges
  <2>1. TaskIsSend'
    BY <1>8 DEF TypeOK, ReceiveChanges, taskVars, peerVars, TaskIsSend, Active
  <2>2. SessionIsOwn'
    BY <1>8 DEF TypeOK, ReceiveChanges, taskVars, peerVars, SessionIsOwn
  <2>3. ByPeerIsTrue'
    BY <1>8 DEF TypeOK, ReceiveChanges, taskVars, peerVars, ByPeerIsTrue
  <2>4. PickerMeansIdle'
    BY <1>8 DEF TypeOK, ReceiveChanges, taskVars, peerVars, PickerMeansIdle
  <2>5. UnbornIsClean'
    BY <1>8 DEF TypeOK, ReceiveChanges, taskVars, peerVars, UnbornIsClean
  <2>6. CancelsAreTrue'
    BY <1>8 DEF TypeOK, ReceiveChanges, taskVars, peerVars, CancelsAreTrue
  <2>7. OpenIsExpected'
    BY <1>8 DEF TypeOK, ReceiveChanges, taskVars, peerVars, OpenIsExpected
  <2> QED BY <1>0, <2>1, <2>2, <2>3, <2>4, <2>5, <2>6, <2>7
<1>9. CASE HandleSessionStarted
  <2>1. TaskIsSend'
    <3>1. UNCHANGED <<send, task>> /\ events # <<>> /\ events' = Tail(events)
      BY <1>9 DEF HandleSessionStarted, taskVars
    <3>2. \A u \in Tasks : Active(u)' => send' = u
      BY <3>1 DEF TaskIsSend, Active
    <3> QED BY <3>1, <3>2, QueueTaken DEF TaskIsSend
  <2>2. SessionIsOwn'
    BY <1>9, QueueTaken DEF HandleSessionStarted, SessionIsOwn
  <2>3. ByPeerIsTrue'
    BY <1>9 DEF TypeOK, HandleSessionStarted, taskVars, peerVars, ByPeerIsTrue
  <2>4. PickerMeansIdle'
    BY <1>9 DEF TypeOK, HandleSessionStarted, taskVars, peerVars, PickerMeansIdle
  <2>5. UnbornIsClean'
    BY <1>9 DEF TypeOK, HandleSessionStarted, taskVars, peerVars, UnbornIsClean
  <2>6. CancelsAreTrue'
    BY <1>9 DEF TypeOK, HandleSessionStarted, taskVars, peerVars, CancelsAreTrue
  <2>7. OpenIsExpected'
    BY <1>9 DEF TypeOK, HandleSessionStarted, taskVars, peerVars, OpenIsExpected
  <2> QED BY <1>0, <2>1, <2>2, <2>3, <2>4, <2>5, <2>6, <2>7
<1>10. CASE HandleSendEnded
  <2>1. TaskIsSend'
    <3>1. Len(events') = 0 /\ UNCHANGED task /\ task[send] = "done"
      BY <1>10, QueueTaken DEF HandleSendEnded, taskVars
    <3>2. \A t \in Tasks : ~Active(t)
      BY <3>1 DEF TaskIsSend, Active
    <3> QED BY <3>1, <3>2 DEF TaskIsSend, Active
  <2>2. SessionIsOwn'
    BY <1>10 DEF TypeOK, HandleSendEnded, taskVars, peerVars, SessionIsOwn
  <2>3. ByPeerIsTrue'
    BY <1>10 DEF TypeOK, HandleSendEnded, taskVars, peerVars, ByPeerIsTrue
  <2>4. PickerMeansIdle'
    BY <1>10 DEF TypeOK, HandleSendEnded, taskVars, peerVars, PickerMeansIdle
  <2>5. UnbornIsClean'
    BY <1>10 DEF TypeOK, HandleSendEnded, taskVars, peerVars, UnbornIsClean
  <2>6. CancelsAreTrue'
    BY <1>10 DEF TypeOK, HandleSendEnded, taskVars, peerVars, CancelsAreTrue
  <2>7. OpenIsExpected'
    BY <1>10 DEF TypeOK, HandleSendEnded, taskVars, peerVars, OpenIsExpected
  <2> QED BY <1>0, <2>1, <2>2, <2>3, <2>4, <2>5, <2>6, <2>7
<1> QED BY <1>1, <1>2, <1>3, <1>4, <1>5, <1>6, <1>7, <1>8, <1>9, <1>10 DEF Key, HandleEvent

LEMMA TaskSteps ==
    ASSUME TypeOK, IInv, NEW t \in Tasks, TaskStep(t)
    PROVE  IInv'
<1> USE NoneAssumption DEF IInv
<1>0. LeftToUpload'
  BY TaskTypes
<1>1. CASE NoClient(t)
  <2>1. TaskIsSend'
    BY ZenonT(40), <1>1 DEF TypeOK, NoClient, RestOfTask, appVars, Goes, Closes, TaskIsSend, Active
  <2>2. SessionIsOwn'
    BY <1>1 DEF TypeOK, NoClient, RestOfTask, appVars, Goes, Closes, SessionIsOwn
  <2>3. ByPeerIsTrue'
    BY <1>1 DEF TypeOK, NoClient, RestOfTask, appVars, Goes, Closes, ByPeerIsTrue
  <2>4. PickerMeansIdle'
    BY <1>1 DEF TypeOK, NoClient, RestOfTask, appVars, Goes, Closes, PickerMeansIdle
  <2>5. UnbornIsClean'
    BY <1>1 DEF TypeOK, NoClient, RestOfTask, appVars, Goes, Closes, UnbornIsClean
  <2>6. CancelsAreTrue'
    BY <1>1 DEF TypeOK, NoClient, RestOfTask, appVars, Goes, Closes, CancelsAreTrue
  <2>7. OpenIsExpected'
    BY <1>1 DEF TypeOK, NoClient, RestOfTask, appVars, Goes, Closes, OpenIsExpected
  <2> QED BY <1>0, <2>1, <2>2, <2>3, <2>4, <2>5, <2>6, <2>7
<1>2. CASE Prepare(t)
  <2>1. TaskIsSend'
    BY <1>2 DEF TypeOK, Prepare, RestOfTask, appVars, Goes, Closes, TaskIsSend, Active
  <2>2. SessionIsOwn'
    BY <1>2 DEF TypeOK, Prepare, RestOfTask, appVars, Goes, Closes, SessionIsOwn
  <2>3. ByPeerIsTrue'
    BY <1>2 DEF TypeOK, Prepare, RestOfTask, appVars, Goes, Closes, ByPeerIsTrue
  <2>4. PickerMeansIdle'
    BY <1>2 DEF TypeOK, Prepare, RestOfTask, appVars, Goes, Closes, PickerMeansIdle
  <2>5. UnbornIsClean'
    BY <1>2 DEF TypeOK, Prepare, RestOfTask, appVars, Goes, Closes, UnbornIsClean
  <2>6. CancelsAreTrue'
    BY <1>2 DEF TypeOK, Prepare, RestOfTask, appVars, Goes, Closes, CancelsAreTrue
  <2>7. OpenIsExpected'
    BY <1>2 DEF TypeOK, Prepare, RestOfTask, appVars, Goes, Closes, OpenIsExpected
  <2> QED BY <1>0, <2>1, <2>2, <2>3, <2>4, <2>5, <2>6, <2>7
<1>3. CASE PrepareCancelled(t)
  <2>1. TaskIsSend'
    BY <1>3 DEF TypeOK, PrepareCancelled, RestOfTask, appVars, Goes, Closes, TaskIsSend, Active
  <2>2. SessionIsOwn'
    BY <1>3 DEF TypeOK, PrepareCancelled, RestOfTask, appVars, Goes, Closes, SessionIsOwn
  <2>3. ByPeerIsTrue'
    BY <1>3 DEF TypeOK, PrepareCancelled, RestOfTask, appVars, Goes, Closes, ByPeerIsTrue
  <2>4. PickerMeansIdle'
    BY <1>3 DEF TypeOK, PrepareCancelled, RestOfTask, appVars, Goes, Closes, PickerMeansIdle
  <2>5. UnbornIsClean'
    BY <1>3 DEF TypeOK, PrepareCancelled, RestOfTask, appVars, Goes, Closes, UnbornIsClean
  <2>6. CancelsAreTrue'
    BY <1>3 DEF TypeOK, PrepareCancelled, RestOfTask, appVars, Goes, Closes, CancelsAreTrue
  <2>7. OpenIsExpected'
    BY <1>3 DEF TypeOK, PrepareCancelled, RestOfTask, appVars, Goes, Closes, OpenIsExpected
  <2> QED BY <1>0, <2>1, <2>2, <2>3, <2>4, <2>5, <2>6, <2>7
<1>4. CASE PrepareFailed(t)
  <2>1. TaskIsSend'
    BY <1>4 DEF TypeOK, PrepareFailed, RestOfTask, appVars, Goes, Closes, TaskIsSend, Active
  <2>2. SessionIsOwn'
    BY <1>4 DEF TypeOK, PrepareFailed, RestOfTask, appVars, Goes, Closes, SessionIsOwn
  <2>3. ByPeerIsTrue'
    BY <1>4 DEF TypeOK, PrepareFailed, RestOfTask, appVars, Goes, Closes, ByPeerIsTrue
  <2>4. PickerMeansIdle'
    BY <1>4 DEF TypeOK, PrepareFailed, RestOfTask, appVars, Goes, Closes, PickerMeansIdle
  <2>5. UnbornIsClean'
    BY <1>4 DEF TypeOK, PrepareFailed, RestOfTask, appVars, Goes, Closes, UnbornIsClean
  <2>6. CancelsAreTrue'
    BY <1>4 DEF TypeOK, PrepareFailed, RestOfTask, appVars, Goes, Closes, CancelsAreTrue
  <2>7. OpenIsExpected'
    BY ZenonT(40), <1>4 DEF TypeOK, PrepareFailed, RestOfTask, appVars, Goes, Closes, OpenIsExpected
  <2> QED BY <1>0, <2>1, <2>2, <2>3, <2>4, <2>5, <2>6, <2>7
<1>5. CASE PrepareRefused(t)
  <2>1. TaskIsSend'
    BY <1>5 DEF TypeOK, PrepareRefused, RestOfTask, appVars, Goes, Closes, TaskIsSend, Active
  <2>2. SessionIsOwn'
    BY <1>5 DEF TypeOK, PrepareRefused, RestOfTask, appVars, Goes, Closes, SessionIsOwn
  <2>3. ByPeerIsTrue'
    BY <1>5 DEF TypeOK, PrepareRefused, RestOfTask, appVars, Goes, Closes, ByPeerIsTrue
  <2>4. PickerMeansIdle'
    BY <1>5 DEF TypeOK, PrepareRefused, RestOfTask, appVars, Goes, Closes, PickerMeansIdle
  <2>5. UnbornIsClean'
    BY <1>5 DEF TypeOK, PrepareRefused, RestOfTask, appVars, Goes, Closes, UnbornIsClean
  <2>6. CancelsAreTrue'
    BY <1>5 DEF TypeOK, PrepareRefused, RestOfTask, appVars, Goes, Closes, CancelsAreTrue
  <2>7. OpenIsExpected'
    BY <1>5 DEF TypeOK, PrepareRefused, RestOfTask, appVars, Goes, Closes, OpenIsExpected
  <2> QED BY <1>0, <2>1, <2>2, <2>3, <2>4, <2>5, <2>6, <2>7
<1>6. CASE Prepared(t)
  <2>1. TaskIsSend'
    BY <1>6 DEF TypeOK, Prepared, RestOfTask, appVars, Goes, Closes, TaskIsSend, Active
  <2>2. SessionIsOwn'
    BY <1>6 DEF TypeOK, Prepared, RestOfTask, appVars, Goes, Closes, SessionIsOwn
  <2>3. ByPeerIsTrue'
    BY <1>6 DEF TypeOK, Prepared, RestOfTask, appVars, Goes, Closes, ByPeerIsTrue
  <2>4. PickerMeansIdle'
    BY <1>6 DEF TypeOK, Prepared, RestOfTask, appVars, Goes, Closes, PickerMeansIdle
  <2>5. UnbornIsClean'
    BY <1>6 DEF TypeOK, Prepared, RestOfTask, appVars, Goes, Closes, UnbornIsClean
  <2>6. CancelsAreTrue'
    BY <1>6 DEF TypeOK, Prepared, RestOfTask, appVars, Goes, Closes, CancelsAreTrue
  <2>7. OpenIsExpected'
    BY <1>6 DEF TypeOK, Prepared, RestOfTask, appVars, Goes, Closes, OpenIsExpected
  <2> QED BY <1>0, <2>1, <2>2, <2>3, <2>4, <2>5, <2>6, <2>7
<1>7. CASE Announce(t)
  <2>1. TaskIsSend'
    BY <1>7, QueueAdded, EventFacts
       DEF Announce, RestOfTask, appVars, Goes, Active, Started
  <2>2. SessionIsOwn'
    BY <1>7 DEF TypeOK, Announce, RestOfTask, appVars, Goes, Closes, SessionIsOwn
  <2>3. ByPeerIsTrue'
    BY <1>7 DEF TypeOK, Announce, RestOfTask, appVars, Goes, Closes, ByPeerIsTrue
  <2>4. PickerMeansIdle'
    BY <1>7 DEF TypeOK, Announce, RestOfTask, appVars, Goes, Closes, PickerMeansIdle
  <2>5. UnbornIsClean'
    BY <1>7 DEF TypeOK, Announce, RestOfTask, appVars, Goes, Closes, UnbornIsClean
  <2>6. CancelsAreTrue'
    BY <1>7 DEF TypeOK, Announce, RestOfTask, appVars, Goes, Closes, CancelsAreTrue
  <2>7. OpenIsExpected'
    BY <1>7 DEF TypeOK, Announce, RestOfTask, appVars, Goes, Closes, OpenIsExpected
  <2> QED BY <1>0, <2>1, <2>2, <2>3, <2>4, <2>5, <2>6, <2>7
<1>8. CASE Uploaded(t)
  <2>1. TaskIsSend'
    <3>1. UNCHANGED <<send, events>> /\ task[t] = "uploading"
      BY <1>8 DEF Uploaded, RestOfTask, appVars
    <3>2. UNCHANGED task \/ task' = [task EXCEPT ![t] = "ending"]
      BY <1>8 DEF Uploaded
    <3>3. CASE UNCHANGED task
      BY <3>1, <3>3 DEF TaskIsSend, Active
    <3>4. CASE task' = [task EXCEPT ![t] = "ending"]
      <4>1. \A u \in Tasks : Active(u)' => Active(u)
        BY <3>1, <3>4 DEF TypeOK, Active
      <4>2. \A u \in Tasks : task[u] = "done" => task'[u] = "done"
        BY <3>1, <3>4 DEF TypeOK
      <4>3. \A i \in 1..Len(events) : events[i].task \in Tasks
        BY QueueFacts, EventFacts DEF TypeOK
      <4> QED BY <3>1, <4>1, <4>2, <4>3 DEF TaskIsSend
    <3> QED BY <3>2, <3>3, <3>4
  <2>2. SessionIsOwn'
    BY <1>8 DEF TypeOK, Uploaded, RestOfTask, appVars, Goes, Closes, SessionIsOwn
  <2>3. ByPeerIsTrue'
    BY <1>8 DEF TypeOK, Uploaded, RestOfTask, appVars, Goes, Closes, ByPeerIsTrue
  <2>4. PickerMeansIdle'
    BY <1>8 DEF TypeOK, Uploaded, RestOfTask, appVars, Goes, Closes, PickerMeansIdle
  <2>5. UnbornIsClean'
    BY <1>8 DEF TypeOK, Uploaded, RestOfTask, appVars, Goes, Closes, UnbornIsClean
  <2>6. CancelsAreTrue'
    BY <1>8 DEF TypeOK, Uploaded, RestOfTask, appVars, Goes, Closes, CancelsAreTrue
  <2>7. OpenIsExpected'
    BY <1>8 DEF TypeOK, Uploaded, RestOfTask, appVars, Goes, Closes, OpenIsExpected
  <2> QED BY <1>0, <2>1, <2>2, <2>3, <2>4, <2>5, <2>6, <2>7
<1>9. CASE UploadCancelled(t)
  <2>1. TaskIsSend'
    BY <1>9 DEF TypeOK, UploadCancelled, RestOfTask, appVars, Goes, Closes, TaskIsSend, Active
  <2>2. SessionIsOwn'
    BY <1>9 DEF TypeOK, UploadCancelled, RestOfTask, appVars, Goes, Closes, SessionIsOwn
  <2>3. ByPeerIsTrue'
    BY <1>9 DEF TypeOK, UploadCancelled, RestOfTask, appVars, Goes, Closes, ByPeerIsTrue
  <2>4. PickerMeansIdle'
    BY <1>9 DEF TypeOK, UploadCancelled, RestOfTask, appVars, Goes, Closes, PickerMeansIdle
  <2>5. UnbornIsClean'
    BY <1>9 DEF TypeOK, UploadCancelled, RestOfTask, appVars, Goes, Closes, UnbornIsClean
  <2>6. CancelsAreTrue'
    BY <1>9 DEF TypeOK, UploadCancelled, RestOfTask, appVars, Goes, Closes, CancelsAreTrue
  <2>7. OpenIsExpected'
    BY <1>9 DEF TypeOK, UploadCancelled, RestOfTask, Goes, Closes, OpenIsExpected,
                ByPeerIsTrue
  <2> QED BY <1>0, <2>1, <2>2, <2>3, <2>4, <2>5, <2>6, <2>7
<1>10. CASE UploadFailed(t)
  <2>1. TaskIsSend'
    BY ZenonT(40), <1>10 DEF TypeOK, UploadFailed, RestOfTask, appVars, Goes, Closes, TaskIsSend, Active
  <2>2. SessionIsOwn'
    BY <1>10 DEF TypeOK, UploadFailed, RestOfTask, appVars, Goes, Closes, SessionIsOwn
  <2>3. ByPeerIsTrue'
    BY <1>10 DEF TypeOK, UploadFailed, RestOfTask, appVars, Goes, Closes, ByPeerIsTrue
  <2>4. PickerMeansIdle'
    BY <1>10 DEF TypeOK, UploadFailed, RestOfTask, appVars, Goes, Closes, PickerMeansIdle
  <2>5. UnbornIsClean'
    BY <1>10 DEF TypeOK, UploadFailed, RestOfTask, appVars, Goes, Closes, UnbornIsClean
  <2>6. CancelsAreTrue'
    BY <1>10 DEF TypeOK, UploadFailed, RestOfTask, appVars, Goes, Closes, CancelsAreTrue
  <2>7. OpenIsExpected'
    BY <1>10 DEF TypeOK, UploadFailed, RestOfTask, appVars, Goes, Closes, OpenIsExpected
  <2> QED BY <1>0, <2>1, <2>2, <2>3, <2>4, <2>5, <2>6, <2>7
<1>11. CASE Tell(t)
  <2>1. TaskIsSend'
    BY <1>11 DEF TypeOK, Tell, RestOfTask, appVars, Goes, Closes, TaskIsSend, Active
  <2>2. SessionIsOwn'
    BY <1>11 DEF TypeOK, Tell, RestOfTask, appVars, Goes, Closes, SessionIsOwn
  <2>3. ByPeerIsTrue'
    BY <1>11 DEF TypeOK, Tell, RestOfTask, appVars, Goes, Closes, ByPeerIsTrue
  <2>4. PickerMeansIdle'
    BY <1>11 DEF TypeOK, Tell, RestOfTask, appVars, Goes, Closes, PickerMeansIdle
  <2>5. UnbornIsClean'
    BY <1>11 DEF TypeOK, Tell, RestOfTask, appVars, Goes, Closes, UnbornIsClean
  <2>6. CancelsAreTrue'
    BY <1>11 DEF TypeOK, Tell, RestOfTask, appVars, Goes, Closes, CancelsAreTrue
  <2>7. OpenIsExpected'
    BY <1>11 DEF TypeOK, Tell, RestOfTask, appVars, Goes, Closes, OpenIsExpected
  <2> QED BY <1>0, <2>1, <2>2, <2>3, <2>4, <2>5, <2>6, <2>7
<1>12. CASE EmitEnded(t)
  <2>1. TaskIsSend'
    BY <1>12, QueueAdded, EventFacts
       DEF EmitEnded, RestOfTask, appVars, Goes, Active, Ended
  <2>2. SessionIsOwn'
    BY <1>12 DEF TypeOK, EmitEnded, RestOfTask, appVars, Goes, Closes, SessionIsOwn
  <2>3. ByPeerIsTrue'
    BY <1>12 DEF TypeOK, EmitEnded, RestOfTask, appVars, Goes, Closes, ByPeerIsTrue
  <2>4. PickerMeansIdle'
    BY <1>12 DEF TypeOK, EmitEnded, RestOfTask, appVars, Goes, Closes, PickerMeansIdle
  <2>5. UnbornIsClean'
    BY <1>12 DEF TypeOK, EmitEnded, RestOfTask, appVars, Goes, Closes, UnbornIsClean
  <2>6. CancelsAreTrue'
    BY <1>12 DEF TypeOK, EmitEnded, RestOfTask, appVars, Goes, Closes, CancelsAreTrue
  <2>7. OpenIsExpected'
    BY <1>12 DEF TypeOK, EmitEnded, RestOfTask, appVars, Goes, Closes, OpenIsExpected
  <2> QED BY <1>0, <2>1, <2>2, <2>3, <2>4, <2>5, <2>6, <2>7
<1>13. CASE Panics(t)
  <2>1. TaskIsSend'
    BY <1>13 DEF TypeOK, Panics, RestOfTask, appVars, Goes, TaskIsSend, Active
  <2>2. SessionIsOwn'
    BY <1>13 DEF TypeOK, Panics, RestOfTask, appVars, Goes, SessionIsOwn
  <2>3. ByPeerIsTrue'
    BY <1>13 DEF TypeOK, Panics, RestOfTask, appVars, Goes, ByPeerIsTrue
  <2>4. PickerMeansIdle'
    BY <1>13 DEF TypeOK, Panics, RestOfTask, appVars, Goes, PickerMeansIdle
  <2>5. UnbornIsClean'
    BY <1>13 DEF TypeOK, Panics, RestOfTask, appVars, Goes, UnbornIsClean
  <2>6. CancelsAreTrue'
    BY <1>13 DEF TypeOK, Panics, RestOfTask, appVars, Goes, CancelsAreTrue
  <2>7. OpenIsExpected'
    BY <1>13 DEF TypeOK, Panics, RestOfTask, appVars, Goes, OpenIsExpected
  <2> QED BY <1>0, <2>1, <2>2, <2>3, <2>4, <2>5, <2>6, <2>7
<1> QED BY <1>1, <1>2, <1>3, <1>4, <1>5, <1>6, <1>7, <1>8, <1>9, <1>10, <1>11, <1>12,
           <1>13 DEF TaskStep

LEMMA PeerSteps ==
    ASSUME TypeOK, IInv, NEW t \in Tasks, HandleCancelReceived(t) \/ Peer(t)
    PROVE  IInv'
<1> USE NoneAssumption DEF IInv
<1>0. LeftToUpload'
  BY PeerTypes
<1>1. CASE HandleCancelReceived(t)
  <2>1. TaskIsSend'
    BY <1>1 DEF TypeOK, HandleCancelReceived, taskVars, peerVars, TaskIsSend, Active
  <2>2. SessionIsOwn'
    BY <1>1 DEF TypeOK, HandleCancelReceived, taskVars, peerVars, SessionIsOwn
  <2>3. ByPeerIsTrue'
    BY <1>1 DEF TypeOK, HandleCancelReceived, ByPeerIsTrue, SessionIsOwn,
                CancelsAreTrue
  <2>4. PickerMeansIdle'
    BY <1>1 DEF TypeOK, HandleCancelReceived, taskVars, peerVars, PickerMeansIdle
  <2>5. UnbornIsClean'
    BY <1>1 DEF TypeOK, HandleCancelReceived, taskVars, peerVars, UnbornIsClean
  <2>6. CancelsAreTrue'
    BY <1>1 DEF TypeOK, HandleCancelReceived, taskVars, peerVars, CancelsAreTrue
  <2>7. OpenIsExpected'
    BY <1>1 DEF TypeOK, HandleCancelReceived, taskVars, peerVars, OpenIsExpected
  <2> QED BY <1>0, <2>1, <2>2, <2>3, <2>4, <2>5, <2>6, <2>7
<1>2. CASE PeerAsked(t)
  <2>1. TaskIsSend'
    BY <1>2 DEF TypeOK, PeerAsked, RestOfPeer, appVars, taskVars, TaskIsSend, Active
  <2>2. SessionIsOwn'
    BY <1>2 DEF TypeOK, PeerAsked, RestOfPeer, appVars, taskVars, SessionIsOwn
  <2>3. ByPeerIsTrue'
    BY <1>2 DEF TypeOK, PeerAsked, RestOfPeer, appVars, taskVars, ByPeerIsTrue
  <2>4. PickerMeansIdle'
    BY <1>2 DEF TypeOK, PeerAsked, RestOfPeer, appVars, taskVars, PickerMeansIdle
  <2>5. UnbornIsClean'
    BY <1>2 DEF TypeOK, PeerAsked, RestOfPeer, appVars, taskVars, UnbornIsClean
  <2>6. CancelsAreTrue'
    BY <1>2 DEF TypeOK, PeerAsked, RestOfPeer, appVars, taskVars, CancelsAreTrue
  <2>7. OpenIsExpected'
    BY <1>2 DEF TypeOK, PeerAsked, RestOfPeer, appVars, taskVars, OpenIsExpected
  <2> QED BY <1>0, <2>1, <2>2, <2>3, <2>4, <2>5, <2>6, <2>7
<1>3. CASE PeerAnswers(t)
  <2>1. TaskIsSend'
    BY <1>3 DEF TypeOK, PeerAnswers, RestOfPeer, appVars, taskVars, TaskIsSend, Active
  <2>2. SessionIsOwn'
    BY <1>3 DEF TypeOK, PeerAnswers, RestOfPeer, appVars, taskVars, SessionIsOwn
  <2>3. ByPeerIsTrue'
    BY <1>3 DEF TypeOK, PeerAnswers, RestOfPeer, appVars, taskVars, ByPeerIsTrue
  <2>4. PickerMeansIdle'
    BY <1>3 DEF TypeOK, PeerAnswers, RestOfPeer, appVars, taskVars, PickerMeansIdle
  <2>5. UnbornIsClean'
    BY <1>3 DEF TypeOK, PeerAnswers, RestOfPeer, appVars, taskVars, UnbornIsClean
  <2>6. CancelsAreTrue'
    BY <1>3 DEF TypeOK, PeerAnswers, RestOfPeer, appVars, taskVars, CancelsAreTrue
  <2>7. OpenIsExpected'
    BY <1>3 DEF TypeOK, PeerAnswers, RestOfPeer, appVars, taskVars, OpenIsExpected
  <2> QED BY <1>0, <2>1, <2>2, <2>3, <2>4, <2>5, <2>6, <2>7
<1>4. CASE PeerAborted(t)
  <2>1. TaskIsSend'
    BY <1>4 DEF TypeOK, PeerAborted, RestOfPeer, appVars, taskVars, TaskIsSend, Active
  <2>2. SessionIsOwn'
    BY <1>4 DEF TypeOK, PeerAborted, RestOfPeer, appVars, taskVars, SessionIsOwn
  <2>3. ByPeerIsTrue'
    BY <1>4 DEF TypeOK, PeerAborted, RestOfPeer, appVars, taskVars, ByPeerIsTrue
  <2>4. PickerMeansIdle'
    BY <1>4 DEF TypeOK, PeerAborted, RestOfPeer, appVars, taskVars, PickerMeansIdle
  <2>5. UnbornIsClean'
    BY <1>4 DEF TypeOK, PeerAborted, RestOfPeer, appVars, taskVars, UnbornIsClean
  <2>6. CancelsAreTrue'
    BY <1>4 DEF TypeOK, PeerAborted, RestOfPeer, appVars, taskVars, CancelsAreTrue
  <2>7. OpenIsExpected'
    BY <1>4 DEF TypeOK, PeerAborted, RestOfPeer, appVars, taskVars, OpenIsExpected
  <2> QED BY <1>0, <2>1, <2>2, <2>3, <2>4, <2>5, <2>6, <2>7
<1>5. CASE PeerCancels(t)
  <2>1. TaskIsSend'
    BY <1>5 DEF TypeOK, PeerCancels, RestOfPeer, appVars, taskVars, TaskIsSend, Active
  <2>2. SessionIsOwn'
    BY <1>5 DEF TypeOK, PeerCancels, RestOfPeer, appVars, taskVars, SessionIsOwn
  <2>3. ByPeerIsTrue'
    BY <1>5 DEF TypeOK, PeerCancels, RestOfPeer, appVars, taskVars, ByPeerIsTrue
  <2>4. PickerMeansIdle'
    BY <1>5 DEF TypeOK, PeerCancels, RestOfPeer, appVars, taskVars, PickerMeansIdle
  <2>5. UnbornIsClean'
    BY <1>5 DEF TypeOK, PeerCancels, RestOfPeer, appVars, taskVars, UnbornIsClean
  <2>6. CancelsAreTrue'
    BY <1>5 DEF TypeOK, PeerCancels, RestOfPeer, appVars, taskVars, CancelsAreTrue
  <2>7. OpenIsExpected'
    BY <1>5 DEF TypeOK, PeerCancels, RestOfPeer, appVars, taskVars, OpenIsExpected
  <2> QED BY <1>0, <2>1, <2>2, <2>3, <2>4, <2>5, <2>6, <2>7
<1> QED BY <1>1, <1>2, <1>3, <1>4, <1>5 DEF Peer


\* IInv holds in every reachable state.  TaskIsSend is the part the others
\* lean on: it makes the session id, the token and by_peer of App.send those
\* of the only task that can still look at them.
THEOREM InductiveInvariant == Spec => []IInv
<1>1. Init => IInv
  BY NoneAssumption
     DEF Init, IInv, TaskIsSend, Active, SessionIsOwn, ByPeerIsTrue,
         PickerMeansIdle, UnbornIsClean, LeftToUpload, CancelsAreTrue,
         OpenIsExpected
<1>2. TypeOK /\ IInv /\ [Next]_vars => IInv'
  <2>1. ASSUME TypeOK, IInv, Next
        PROVE  IInv'
    BY <2>1, AppSteps, TaskSteps, PeerSteps DEF Next
  <2>2. ASSUME IInv, UNCHANGED vars
        PROVE  IInv'
    BY <2>2 DEF vars, IInv, TaskIsSend, Active, SessionIsOwn, ByPeerIsTrue,
                PickerMeansIdle, UnbornIsClean, LeftToUpload, CancelsAreTrue,
                OpenIsExpected
  <2> QED BY <2>1, <2>2
<1> QED BY <1>1, <1>2, TypeCorrect, PTL DEF Spec

\* There is one send at a time, and a report in the channel is the tracked
\* send's: start_send's guard is enough, because run_send reports SendEnded
\* last and the App forgets the send only then.
THEOREM OneSendAtATime == Spec => []TaskIsSend
<1>1. IInv => TaskIsSend
  BY DEF IInv
<1> QED BY <1>1, InductiveInvariant, PTL

\* The session id matched against CancelReceived is the tracked send's own.
THEOREM SessionIsTheSends == Spec => []SessionIsOwn
<1>1. IInv => SessionIsOwn
  BY DEF IInv
<1> QED BY <1>1, InductiveInvariant, PTL

\* A task that skips telling the receiver because of by_peer is right to.
THEOREM PeerFlagIsTrue == Spec => []ByPeerIsTrue
<1>1. IInv => ByPeerIsTrue
  BY DEF IInv
<1> QED BY <1>1, InductiveInvariant, PTL

\* What was picked for a device is never refused by start_send.
THEOREM PickerOnlyWhenIdle == Spec => []PickerMeansIdle
<1>1. IInv => PickerMeansIdle
  BY DEF IInv
<1> QED BY <1>1, InductiveInvariant, PTL

\* With no message lost, only a cancellation during prepare_upload can leave
\* a finished send's session open on the receiver.
THEOREM OnlyWithdrawnStaysOpen == Spec => []OpenOnlyWithdrawn
<1>1. IInv => OpenOnlyWithdrawn
  BY DEF IInv, OpenIsExpected, OpenOnlyWithdrawn
<1> QED BY <1>1, InductiveInvariant, PTL

(***************************************************************************)
(* A panic of the task.                                                    *)
(***************************************************************************)
\* Only a task's own step changes where it is, once it is spawned, and no
\* step is left to one that has panicked.
LEMMA DeadStays ==
    ASSUME TypeOK, [Next]_vars, NEW t \in Tasks, task[t] = "dead"
    PROVE  task'[t] = "dead"
<1>1. CASE Key \/ ReceiveChanges \/ HandleEvent
  BY <1>1 DEF TypeOK, Key, PressSlot, PressD, ListSend, ListClosed, Picked, PickerCancelled,
              CtrlC, StartSend, ReceiveChanges, HandleEvent, HandleSessionStarted,
              HandleSendEnded, taskVars
<1>2. ASSUME NEW u \in Tasks, TaskStep(u)
      PROVE  task'[t] = "dead"
  <2>1. task[u] # "dead"
    BY <1>2 DEF TaskStep, NoClient, Prepare, PrepareCancelled, PrepareFailed, PrepareRefused,
                Prepared, Announce, Panics, Uploaded, UploadCancelled, UploadFailed, Tell,
                EmitEnded, Goes
  <2>2. task' = task \/ \A v \in Tasks : v # u => task'[v] = task[v]
    BY <1>2 DEF TypeOK, TaskStep, NoClient, Prepare, PrepareCancelled, PrepareFailed,
                PrepareRefused, Prepared, Announce, Panics, Uploaded, UploadCancelled,
                UploadFailed, Tell, EmitEnded, Goes
  <2> QED BY <2>1, <2>2
<1>3. ASSUME NEW u \in Tasks, HandleCancelReceived(u) \/ Peer(u)
      PROVE  task'[t] = "dead"
  BY <1>3 DEF HandleCancelReceived, Peer, PeerAsked, PeerAnswers, PeerAborted, PeerCancels,
              RestOfPeer, taskVars
<1>4. CASE UNCHANGED vars
  BY <1>4 DEF vars
<1> QED BY <1>1, <1>2, <1>3, <1>4 DEF Next

\* A task that panics over the receiver's answer leaves the App with a send
\* that never ends: by TaskIsSend it is the tracked one, so that no report in
\* the channel ends it, and none is to come.
THEOREM PanicIsForever == Spec => DeadIsForever
<1>1. TypeOK /\ IInv /\ [Next]_vars =>
          [\A t \in Tasks : task[t] = "dead" =>
               task'[t] = "dead" /\ send' = t /\ (CtrlC => running')]_vars
  <2> SUFFICES ASSUME TypeOK, IInv, [Next]_vars, NEW t \in Tasks, task[t] = "dead"
               PROVE  task'[t] = "dead" /\ send' = t /\ (CtrlC => running')
    OBVIOUS
  <2>1. send = t /\ send # None
    BY NoneAssumption DEF IInv, TaskIsSend, Active
  <2>2. send' = t
    <3>1. CASE Key \/ ReceiveChanges \/ HandleSessionStarted
      BY <2>1, <3>1 DEF Key, PressSlot, PressD, ListSend, ListClosed, Picked, PickerCancelled,
                        CtrlC, StartSend, ReceiveChanges, HandleSessionStarted
    <3>2. CASE HandleSendEnded
      BY <2>1, <3>2, QueueTaken DEF HandleSendEnded
    <3>3. ASSUME NEW u \in Tasks, HandleCancelReceived(u) \/ TaskStep(u) \/ Peer(u)
          PROVE  send' = t
      BY <2>1, <3>3 DEF HandleCancelReceived, TaskStep, NoClient, Prepare, PrepareCancelled,
                        PrepareFailed, PrepareRefused, Prepared, Announce, Panics, Uploaded,
                        UploadCancelled, UploadFailed, Tell, EmitEnded, RestOfTask, Peer,
                        PeerAsked, PeerAnswers, PeerAborted, PeerCancels, RestOfPeer, appVars
    <3>4. CASE UNCHANGED vars
      BY <2>1, <3>4 DEF vars
    <3> QED BY <3>1, <3>2, <3>3, <3>4 DEF Next, HandleEvent
  <2>3. CtrlC => running'
    BY <2>1 DEF CtrlC
  <2> QED BY <2>2, <2>3, DeadStays
<1> QED BY <1>1, TypeCorrect, InductiveInvariant, PTL DEF Spec, DeadIsForever

(***************************************************************************)
(* The --file transfer.                                                    *)
(***************************************************************************)
TransferInv == OneTransferOnly /\ TransferIsSend

\* What a step may do to the transfers of a program started with --file: a
\* new one only begins when none is tracked, and the end of one is the end.
Transfers ==
    /\ fileMode' = fileMode
    /\ running' => running
    /\ \/ /\ \A t \in Tasks : task'[t] # "unborn" => task[t] # "unborn"
          /\ fileMode /\ running' => send' = send
       \/ /\ running /\ send = None
          /\ \E t \in Tasks : /\ send' = t
                              /\ \A u \in Tasks : u # t => task'[u] = task[u]

LEMMA AppTransfers ==
    ASSUME TypeOK, Key \/ ReceiveChanges \/ HandleEvent
    PROVE  Transfers
<1> USE DEF Transfers
<1>1. ASSUME running, StartSend, UNCHANGED <<fileMode, running>>
      PROVE  Transfers
  BY <1>1 DEF StartSend, TypeOK
<1>2. CASE PressSlot
  <2>1. CASE fileMode
    BY <1>1, <1>2, <2>1 DEF PressSlot, RestOfKey
  <2>2. CASE ~fileMode
    BY <1>2, <2>2 DEF PressSlot, RestOfKey
  <2> QED BY <2>1, <2>2
<1>3. CASE PressD \/ ListClosed \/ PickerCancelled
  BY <1>3 DEF PressD, ListClosed, PickerCancelled, RestOfKey
<1>4. CASE ListSend
  <2>1. CASE StartSend
    BY <1>1, <1>4, <2>1 DEF ListSend, RestOfKey
  <2>2. CASE UNCHANGED <<send, session, task>>
    BY <1>4, <2>2 DEF ListSend, RestOfKey
  <2> QED BY <1>4, <2>1, <2>2 DEF ListSend
<1>5. CASE Picked
  BY <1>1, <1>5 DEF Picked, RestOfKey
<1>6. CASE CtrlC \/ ReceiveChanges \/ HandleEvent
  BY <1>6 DEF CtrlC, ReceiveChanges, HandleEvent, HandleSessionStarted, HandleSendEnded,
              taskVars
<1> QED BY <1>2, <1>3, <1>4, <1>5, <1>6 DEF Key

LEMMA TaskTransfers ==
    ASSUME TypeOK, NEW t \in Tasks, TaskStep(t)
    PROVE  Transfers
<1>1. UNCHANGED <<fileMode, running, send>>
  BY DEF TaskStep, NoClient, Prepare, PrepareCancelled, PrepareFailed, PrepareRefused,
         Prepared, Announce, Panics, Uploaded, UploadCancelled, UploadFailed, Tell,
         EmitEnded, RestOfTask, appVars
<1>2. \/ task' = task
      \/ task[t] # "unborn" /\ \A u \in Tasks : u # t => task'[u] = task[u]
  BY DEF TypeOK, TaskStep, NoClient, Prepare, PrepareCancelled, PrepareFailed, PrepareRefused,
         Prepared, Announce, Panics, Uploaded, UploadCancelled, UploadFailed, Tell,
         EmitEnded, Goes
<1>3. \A u \in Tasks : task'[u] # "unborn" => task[u] # "unborn"
  BY <1>2
<1> QED BY <1>1, <1>3 DEF Transfers

\* With --file, the one transfer that was started is the one that is tracked.
THEOREM TransferIsTracked == Spec => []TransferInv
<1>1. Init => TransferInv
  BY DEF Init, TransferInv, TransferIsSend, OneTransferOnly
<1>2. ASSUME TypeOK, TransferInv, [Next]_vars
      PROVE  TransferInv'
  <2>1. Transfers
    <3>1. ASSUME NEW t \in Tasks, HandleCancelReceived(t) \/ Peer(t)
          PROVE  Transfers
      BY <3>1 DEF HandleCancelReceived, Peer, PeerAsked, PeerAnswers, PeerAborted, PeerCancels,
                  RestOfPeer, appVars, taskVars, Transfers
    <3>2. CASE UNCHANGED vars
      BY <3>2 DEF vars, Transfers
    <3> QED BY <1>2, <3>1, <3>2, AppTransfers, TaskTransfers DEF Next
  <2> SUFFICES ASSUME fileMode PROVE TransferInv'
    BY <2>1 DEF Transfers, TransferInv, TransferIsSend, OneTransferOnly
  <2>2. CASE /\ \A t \in Tasks : task'[t] # "unborn" => task[t] # "unborn"
             /\ running' => send' = send
    BY <1>2, <2>1, <2>2 DEF Transfers, TransferInv, TransferIsSend, OneTransferOnly
  <2>3. ASSUME running, send = None,
               NEW t \in Tasks, send' = t, \A u \in Tasks : u # t => task'[u] = task[u]
        PROVE  TransferInv'
    <3>1. \A u \in Tasks : task[u] = "unborn"
      BY <1>2, <2>3, NoneAssumption DEF TransferInv, TransferIsSend
    <3> QED BY <2>3, <3>1 DEF TransferInv, TransferIsSend, OneTransferOnly
  <2> QED BY <2>1, <2>2, <2>3 DEF Transfers
<1> QED BY <1>1, <1>2, TypeCorrect, PTL DEF Spec

\* OneTransferOnly: with --file the program makes at most one transfer, the
\* one its first Enter or number key starts, whatever keys, cancellations and
\* reports of the task come before its SendEnded is handled.
THEOREM OneTransferWithFile == Spec => []OneTransferOnly
<1>1. TransferInv => OneTransferOnly
  BY DEF TransferInv
<1> QED BY <1>1, TransferIsTracked, PTL

\* The whole invariant of sending, for any number of sends.
THEOREM InvariantHolds == Spec => []Inv
<1>1. TypeOK /\ IInv /\ TransferInv => Inv
  BY DEF Inv, TransferInv
<1> QED BY <1>1, TypeCorrect, InductiveInvariant, TransferIsTracked, PTL
=============================================================================
