------------------------------ MODULE CliSend ------------------------------
(***************************************************************************)
(* The sending side of the LocalSend CLI: the App (app/mod.rs,             *)
(* app/sending.rs, app/devices.rs), which tracks at most one send and      *)
(* turns keys into its start and its cancellation, and the send task       *)
(* (send_task.rs) spawned for each send, which talks HTTP to the receiver  *)
(* and reports to the App through the events channel.                      *)
(*                                                                         *)
(* Keys travel through the same channel; as any key may be pressed at any  *)
(* time, an action per key stands for the moment it is handled.  The       *)
(* receiver is another device: the Peer* actions say what the task and the *)
(* CancelReceived handler rely on.                                         *)
(***************************************************************************)
EXTENDS Naturals, Sequences, FiniteSets

CONSTANTS
    Tasks,       \* send tasks; each one's receiver session has its name
    None,        \* the None of Option
    EventCap,    \* capacity of the events channel
    MaxFiles     \* bound: files a receiver accepts of one send

ASSUME NoneAssumption == None \notin Tasks
ASSUME CapAssumption  == EventCap \in Nat \ {0} /\ MaxFiles \in Nat \ {0}

VARIABLES
    fileMode,    \* the CLI was started with --file
    running,     \* the event loop has not been left
    screen,      \* what takes the keys: App.picker, App.device_list or neither
    receiving,   \* App.pending or App.receive is some (see CliReceive)
    send,        \* App.send: the task it tracks
    session,     \* App.send.session_id
    token,       \* task -> its CancellationToken is cancelled
    byPeer,      \* task -> its by_peer flag
    task,        \* task -> where run_send is
    left,        \* task -> accepted files still to upload
    outcome,     \* task -> the line it closes with
    events,      \* events_rx: what the tasks report, Key and Log aside
    peer,        \* task -> the receiver's view of the session
    reply,       \* task -> the answer to prepare_upload on its way back
    cancels,     \* CancelReceived events on their way to the App
    lost         \* an answer to the task, or a request of it, has been lost

appVars  == <<fileMode, running, screen, receiving, send, session>>
taskVars == <<task, left, outcome>>
peerVars == <<peer, reply, cancels, lost>>
vars     == <<fileMode, running, screen, receiving, send, session, token,
              byPeer, task, left, outcome, events, peer, reply, cancels, lost>>

Started(t) == [type |-> "SendSessionStarted", task |-> t]
Ended(t)   == [type |-> "SendEnded", task |-> t]
Events     == {Started(t) : t \in Tasks} \cup {Ended(t) : t \in Tasks}
Room       == Len(events) < EventCap

TypeOK ==
    /\ fileMode  \in BOOLEAN
    /\ running   \in BOOLEAN
    /\ screen    \in {"main", "list", "picker"}
    /\ receiving \in BOOLEAN
    /\ send      \in Tasks \cup {None}
    /\ session   \in Tasks \cup {None}
    /\ token     \in [Tasks -> BOOLEAN]
    /\ byPeer    \in [Tasks -> BOOLEAN]
    /\ task      \in [Tasks -> {"unborn", "born", "preparing", "announcing",
                                "uploading", "telling", "ending", "done", "dead"}]
    /\ left      \in [Tasks -> 0..MaxFiles]
    /\ outcome   \in [Tasks -> {"none", "withdrawn", "declined", "failed",
                                "cancelled", "byPeer", "sent"}]
    /\ events    \in Seq(Events)
    /\ peer      \in [Tasks -> {"idle", "asked", "open", "refused", "aborted",
                                "complete", "cancelled", "told"}]
    /\ reply     \in [Tasks -> {"none", "accepted", "unknown", "refused"}]
    /\ cancels   \subseteq Tasks
    /\ lost      \in BOOLEAN

Init ==
    /\ fileMode  \in BOOLEAN
    /\ running   = TRUE
    /\ screen    = IF fileMode THEN "list" ELSE "main"
    /\ receiving = FALSE
    /\ send      = None
    /\ session   = None
    /\ token     = [t \in Tasks |-> FALSE]
    /\ byPeer    = [t \in Tasks |-> FALSE]
    /\ task      = [t \in Tasks |-> "unborn"]
    /\ left      = [t \in Tasks |-> 0]
    /\ outcome   = [t \in Tasks |-> "none"]
    /\ events    = <<>>
    /\ peer      = [t \in Tasks |-> "idle"]
    /\ reply     = [t \in Tasks |-> "none"]
    /\ cancels   = {}
    /\ lost      = FALSE

\* Spawned, and its SendEnded not queued (which of a dead task it never is).
Active(t) == task[t] \notin {"unborn", "done"}

(***************************************************************************)
(* Keys.                                                                   *)
(***************************************************************************)
\* start_send: refused while a send is tracked; gives up without a trace when
\* the device has left the store, has no dialable address or no picked path
\* is a file.  Otherwise a fresh SendState and a spawned task.
StartSend ==
    \/ UNCHANGED <<send, session, task>>
    \/ \E t \in Tasks :
         /\ send = None
         /\ task[t] = "unborn"
         /\ send'    = t
         /\ session' = None
         /\ task'    = [task EXCEPT ![t] = "born"]

\* open_picker for a device: refused while a send is tracked.
OpenPicker == screen' = IF send = None THEN "picker" ELSE "main"

RestOfKey == UNCHANGED <<fileMode, receiving, token, byPeer, left, outcome, events>>
             /\ UNCHANGED peerVars

\* '1'..'9' on the main screen, for a slot that has a device.
PressSlot ==
    /\ running /\ screen = "main"
    /\ IF fileMode
       THEN StartSend /\ UNCHANGED screen
       ELSE OpenPicker /\ UNCHANGED <<send, session, task>>
    /\ UNCHANGED running /\ RestOfKey

\* 'd' on the main screen.
PressD ==
    /\ running /\ screen = "main"
    /\ screen' = "list"
    /\ UNCHANGED <<running, send, session, task>> /\ RestOfKey

\* Enter on a row of the device list; the device may have left the store.
ListSend ==
    /\ running /\ screen = "list"
    /\ \/ fileMode /\ screen' = "main" /\ StartSend
       \/ ~fileMode /\ OpenPicker /\ UNCHANGED <<send, session, task>>
       \/ ~fileMode /\ screen' = "main" /\ UNCHANGED <<send, session, task>>
    /\ UNCHANGED running /\ RestOfKey

\* Esc, 'd' or Ctrl+C in the device list.
ListClosed ==
    /\ running /\ screen = "list"
    /\ screen'  = "main"
    /\ running' = ~fileMode
    /\ UNCHANGED <<send, session, task>> /\ RestOfKey

\* Enter in the picker.
Picked ==
    /\ running /\ screen = "picker"
    /\ screen' = "main"
    /\ StartSend
    /\ UNCHANGED running /\ RestOfKey

\* Esc or Ctrl+C in the picker.
PickerCancelled ==
    /\ running /\ screen = "picker"
    /\ screen' = "main"
    /\ UNCHANGED <<running, send, session, task>> /\ RestOfKey

\* (mutant) Ctrl+C forgets the send instead of waiting for its SendEnded.
CtrlCForgets ==
    /\ running /\ screen = "main"
    /\ token'     = [t \in Tasks |-> token[t] \/ t = send]
    /\ receiving' = FALSE
    /\ running'   = (send # None \/ receiving)
    /\ send' = None /\ session' = None
    /\ UNCHANGED <<fileMode, screen, byPeer, events>>
    /\ UNCHANGED taskVars /\ UNCHANGED peerVars

\* Ctrl+C on the main screen: cancels the send and the receive, and quits
\* when there is neither.  The send stays tracked until its SendEnded.
CtrlC ==
    /\ running /\ screen = "main"
    /\ token'     = [t \in Tasks |-> token[t] \/ t = send]
    /\ receiving' = FALSE
    /\ running'   = (send # None \/ receiving)
    /\ UNCHANGED <<fileMode, screen, send, session, byPeer, events>>
    /\ UNCHANGED taskVars /\ UNCHANGED peerVars

Key == \/ PressSlot \/ PressD \/ ListSend \/ ListClosed
       \/ Picked \/ PickerCancelled \/ CtrlC

(***************************************************************************)
(* The App's other events.                                                 *)
(***************************************************************************)
\* A request arrives, or the last one is over (CliReceive in one bit).
ReceiveChanges ==
    /\ running
    /\ receiving' = ~receiving
    /\ UNCHANGED <<fileMode, running, screen, send, session, token, byPeer, events>>
    /\ UNCHANGED taskVars /\ UNCHANGED peerVars

HandleSessionStarted ==
    /\ running /\ events # <<>> /\ Head(events).type = "SendSessionStarted"
    /\ session' = IF send # None THEN Head(events).task ELSE session
    /\ events'  = Tail(events)
    /\ UNCHANGED <<fileMode, running, screen, receiving, send, token, byPeer>>
    /\ UNCHANGED taskVars /\ UNCHANGED peerVars

\* (mutant) --file mode survives its transfer.
EndedNeverQuits ==
    /\ running /\ events # <<>> /\ Head(events).type = "SendEnded"
    /\ send' = None /\ session' = None
    /\ events' = Tail(events)
    /\ UNCHANGED <<fileMode, running, screen, receiving, token, byPeer>>
    /\ UNCHANGED taskVars /\ UNCHANGED peerVars

\* In --file mode the transfer is the whole program.
HandleSendEnded ==
    /\ running /\ events # <<>> /\ Head(events).type = "SendEnded"
    /\ send'    = None
    /\ session' = None
    /\ running' = ~fileMode
    /\ events'  = Tail(events)
    /\ UNCHANGED <<fileMode, screen, receiving, token, byPeer>>
    /\ UNCHANGED taskVars /\ UNCHANGED peerVars

HandleEvent == HandleSessionStarted \/ HandleSendEnded

\* (mutant) CancelReceived is not matched against the session.
CancelUnmatched(t) ==
    /\ running /\ t \in cancels
    /\ cancels' = cancels \ {t}
    /\ byPeer'  = [k \in Tasks |-> byPeer[k] \/ k = send]
    /\ token'   = [k \in Tasks |-> token[k] \/ k = send]
    /\ UNCHANGED <<fileMode, running, screen, receiving, send, session, events>>
    /\ UNCHANGED taskVars /\ UNCHANGED <<peer, reply, lost>>

\* The receiver's cancel request: dropped unless it names the session of the
\* tracked send, which the App learns from SendSessionStarted.
HandleCancelReceived(t) ==
    /\ running /\ t \in cancels
    /\ cancels' = cancels \ {t}
    /\ LET Hit(k) == k = send /\ session = t
       IN  /\ byPeer' = [k \in Tasks |-> byPeer[k] \/ Hit(k)]
           /\ token'  = [k \in Tasks |-> token[k] \/ Hit(k)]
    /\ UNCHANGED <<fileMode, running, screen, receiving, send, session, events>>
    /\ UNCHANGED taskVars /\ UNCHANGED <<peer, reply, lost>>

(***************************************************************************)
(* The send task.                                                          *)
(***************************************************************************)
RestOfTask == UNCHANGED appVars /\ UNCHANGED <<token, byPeer, cancels>>

\* The task goes from phase `from` to phase `to`.
Goes(t, from, to) ==
    /\ running /\ task[t] = from
    /\ task' = [task EXCEPT ![t] = to]

Closes(t, line) == outcome' = [outcome EXCEPT ![t] = line]

\* No channel or no HTTP client: over before it began.
NoClient(t) ==
    /\ Goes(t, "born", "ending") /\ Closes(t, "failed")
    /\ UNCHANGED <<left, events, peer, reply, lost>> /\ RestOfTask

Prepare(t) ==
    /\ Goes(t, "born", "preparing")
    /\ UNCHANGED <<left, outcome, events, peer, reply, lost>> /\ RestOfTask

\* (mutant) the token is only looked at once the receiver has answered.
PrepareUninterrupted(t) ==
    /\ Goes(t, "preparing", "ending") /\ token[t] /\ reply[t] # "none"
    /\ Closes(t, "withdrawn")
    /\ UNCHANGED <<left, events, peer, reply, lost>> /\ RestOfTask

\* Cancelled while waiting for the answer: the request is dropped, and with
\* it the answer that may already be under way.
PrepareCancelled(t) ==
    /\ Goes(t, "preparing", "ending") /\ token[t] /\ Closes(t, "withdrawn")
    /\ UNCHANGED <<left, events, peer, reply, lost>> /\ RestOfTask

\* The receiver cannot be reached, or its answer is lost.
PrepareFailed(t) ==
    /\ Goes(t, "preparing", "ending") /\ Closes(t, "failed")
    /\ lost' = (lost \/ peer[t] # "idle")
    /\ UNCHANGED <<left, events, peer, reply>> /\ RestOfTask

\* Declined, blocked, a PIN required, or nothing accepted.
PrepareRefused(t) ==
    /\ Goes(t, "preparing", "ending") /\ reply[t] = "refused"
    /\ Closes(t, "declined")
    /\ UNCHANGED <<left, events, peer, reply, lost>> /\ RestOfTask

\* Accepted, as far as is looked at here: ids in the answer that were not
\* offered only drop out of the sum of the sizes.
Prepared(t) ==
    /\ Goes(t, "preparing", "announcing") /\ reply[t] \in {"accepted", "unknown"}
    /\ \E n \in 1..MaxFiles : left' = [left EXCEPT ![t] = n]
    /\ UNCHANGED <<outcome, events, peer, reply, lost>> /\ RestOfTask

\* The send to the events channel waits for room.
Announce(t) ==
    /\ Goes(t, "announcing", "uploading") /\ Room
    /\ events' = Append(events, Started(t))
    /\ UNCHANGED <<left, outcome, peer, reply, lost>> /\ RestOfTask

\* The files of the answer are looked up, to sort and to read them: with an id
\* that was not offered the task panics, before its first upload.  It leaves
\* no SendEnded and tells the receiver nothing.
Panics(t) ==
    /\ Goes(t, "uploading", "dead") /\ reply[t] = "unknown"
    /\ UNCHANGED <<left, outcome, events, peer, reply, lost>> /\ RestOfTask

\* One file arrives; the last one completes the receiver's session, and only
\* then is the token no longer looked at.
Uploaded(t) ==
    /\ running /\ task[t] = "uploading" /\ reply[t] = "accepted" /\ peer[t] = "open"
    /\ left' = [left EXCEPT ![t] = @ - 1]
    /\ IF left[t] > 1
       THEN UNCHANGED <<task, outcome, peer>>
       ELSE /\ task' = [task EXCEPT ![t] = "ending"]
            /\ Closes(t, "sent")
            /\ peer' = [peer EXCEPT ![t] = "complete"]
    /\ UNCHANGED <<events, reply, lost>> /\ RestOfTask

\* The upload notices the token; by_peer decides whether the receiver still
\* has to be told.
UploadCancelled(t) ==
    /\ Goes(t, "uploading", IF byPeer[t] THEN "ending" ELSE "telling")
    /\ reply[t] = "accepted" /\ token[t]
    /\ Closes(t, IF byPeer[t] THEN "byPeer" ELSE "cancelled")
    /\ UNCHANGED <<left, events, peer, reply, lost>> /\ RestOfTask

\* (mutant) a failed upload does not cancel the session.
UploadGivesUp(t) ==
    /\ Goes(t, "uploading", "ending") /\ reply[t] = "accepted" /\ Closes(t, "failed")
    /\ UNCHANGED <<left, events, peer, reply, lost>> /\ RestOfTask

\* (mutant) a failed upload is retried for ever.
UploadRetried(t) ==
    /\ Goes(t, "uploading", "uploading") /\ reply[t] = "accepted" /\ UNCHANGED vars

\* The receiver refuses the upload, the connection breaks or the file cannot
\* be read.
UploadFailed(t) ==
    /\ Goes(t, "uploading", "telling") /\ reply[t] = "accepted" /\ Closes(t, "failed")
    /\ UNCHANGED <<left, events, peer, reply, lost>> /\ RestOfTask

\* client.cancel: its result is ignored.
Tell(t) ==
    /\ Goes(t, "telling", "ending")
    /\ \/ /\ peer' = [peer EXCEPT ![t] = IF @ = "open" THEN "told" ELSE @]
          /\ UNCHANGED lost
       \/ UNCHANGED peer /\ lost' = TRUE
    /\ UNCHANGED <<left, outcome, events, reply>> /\ RestOfTask

\* The last line of run_send, which is reached unless send_inner panics.
EmitEnded(t) ==
    /\ Goes(t, "ending", "done") /\ Room
    /\ events' = Append(events, Ended(t))
    /\ UNCHANGED <<left, outcome, peer, reply, lost>> /\ RestOfTask

TaskStep(t) == \/ NoClient(t) \/ Prepare(t) \/ PrepareCancelled(t)
               \/ PrepareFailed(t) \/ PrepareRefused(t) \/ Prepared(t)
               \/ Announce(t) \/ Panics(t) \/ Uploaded(t) \/ UploadCancelled(t)
               \/ UploadFailed(t) \/ Tell(t) \/ EmitEnded(t)

(***************************************************************************)
(* The receiving device.                                                   *)
(***************************************************************************)
RestOfPeer == UNCHANGED appVars /\ UNCHANGED taskVars
              /\ UNCHANGED <<token, byPeer, events, lost>>

PeerAsked(t) ==
    /\ running /\ task[t] = "preparing" /\ peer[t] = "idle"
    /\ peer' = [peer EXCEPT ![t] = "asked"]
    /\ UNCHANGED <<reply, cancels>> /\ RestOfPeer

\* The answer opens the session there before it has come back here.  A
\* receiver that is at fault may name a file that was not offered.
PeerAnswers(t) ==
    /\ peer[t] = "asked"
    /\ \/ /\ peer'  = [peer EXCEPT ![t] = "open"]
          /\ \E r \in {"accepted", "unknown"} : reply' = [reply EXCEPT ![t] = r]
       \/ /\ peer'  = [peer EXCEPT ![t] = "refused"]
          /\ reply' = [reply EXCEPT ![t] = "refused"]
    /\ UNCHANGED cancels /\ RestOfPeer

\* It notices that an unanswered request was dropped.
PeerAborted(t) ==
    /\ peer[t] = "asked" /\ (task[t] # "preparing" \/ ~running)
    /\ peer' = [peer EXCEPT ![t] = "aborted"]
    /\ UNCHANGED <<reply, cancels>> /\ RestOfPeer

\* It cancels the session; its request to our server may be lost, or come
\* from another address than the one the send dialled.
PeerCancels(t) ==
    /\ peer[t] = "open"
    /\ peer' = [peer EXCEPT ![t] = "cancelled"]
    /\ cancels' \in {cancels, cancels \cup {t}}
    /\ UNCHANGED reply /\ RestOfPeer

Peer(t) == PeerAsked(t) \/ PeerAnswers(t) \/ PeerAborted(t) \/ PeerCancels(t)

Next == \/ Key \/ ReceiveChanges \/ HandleEvent
        \/ \E t \in Tasks : HandleCancelReceived(t) \/ TaskStep(t) \/ Peer(t)

Spec == Init /\ [][Next]_vars

\* The runtime polls the event loop and the tasks.  Nothing is assumed of the
\* user, nor of the receiver while it is asked; but as uploads and the cancel
\* request have no timeout, each is assumed to end in a response or an error.
Proceeds(t) == \/ NoClient(t) \/ Prepare(t) \/ PrepareCancelled(t)
               \/ PrepareRefused(t) \/ Prepared(t) \/ Announce(t) \/ Panics(t)
               \/ UploadCancelled(t) \/ Tell(t) \/ EmitEnded(t)

Fairness ==
    /\ WF_vars(HandleEvent)
    /\ \A t \in Tasks : /\ WF_vars(HandleCancelReceived(t))
                        /\ WF_vars(Proceeds(t))
                        /\ WF_vars(Uploaded(t) \/ UploadFailed(t))

FairSpec == Spec /\ Fairness

(***************************************************************************)
(* Properties.                                                             *)
(***************************************************************************)
\* An unfinished task, or one whose reports are still queued, is the one send
\* the App tracks: start_send's check and SendEnded being a task's last
\* report keep a report of one send from being taken for the next one's.
TaskIsSend ==
    /\ \A t \in Tasks : Active(t) => send = t
    /\ \A i \in 1..Len(events) :
         /\ send = events[i].task
         /\ events[i].type = "SendEnded" =>
               i = Len(events) /\ task[events[i].task] = "done"

\* The session id by which CancelReceived is matched is the tracked send's
\* own: SendSessionStarted only carries an id, and start_send resets it.
SessionIsOwn == session \in {None, send}

\* by_peer is only set when the receiver has cancelled this very session, and
\* then the token is set too: the task may skip telling the receiver.
ByPeerIsTrue ==
    \A t \in Tasks : byPeer[t] => token[t] /\ peer[t] = "cancelled"

\* While the picker for a device is open no send is tracked, so what was
\* picked is never refused by start_send ("A send is already in progress").
PickerMeansIdle == screen = "picker" => send = None

\* With no message lost, the one way a finished send leaves its session open
\* on the receiver is a cancellation before the answer to prepare_upload.
OpenOnlyWithdrawn ==
    ~lost => \A t \in Tasks :
        task[t] = "done" /\ peer[t] = "open" => outcome[t] = "withdrawn"

\* In --file mode the transfer is the whole program: none follows it.
OneTransferOnly ==
    fileMode => \A t, u \in Tasks :
                    task[t] # "unborn" /\ task[u] # "unborn" => t = u

\* App.send stays Some until a SendEnded, and a panic leaves none.
Ends(t) == ~running \/ (~fileMode /\ send # t) \/ task[t] = "dead"

\* A cancelled send is over after finitely many steps, also when the receiver
\* never answers, answers late or cancels too, so that a second Ctrl+C can
\* quit; in --file mode its end quits.  The one exception is a send whose
\* task has panicked over the receiver's answer (DeadIsForever).
CancelEnds == \A t \in Tasks : (send = t /\ token[t]) ~> Ends(t)

\* A send that has been accepted ends, cancelled or not, whether its uploads
\* succeed, fail or are refused; with the same exception.
UploadEnds == \A t \in Tasks : (task[t] = "uploading") ~> Ends(t)

\* "Always ends by emitting SendEnded" fails for good when the task panics:
\* the send stays tracked, no other send is started, and Ctrl+C on the main
\* screen does not quit any more.
DeadIsForever ==
    [][\A t \in Tasks : task[t] = "dead" =>
           task'[t] = "dead" /\ send' = t /\ (CtrlC => running')]_vars

(***************************************************************************)
(* The inductive invariant.                                                *)
(***************************************************************************)
\* A task that was never spawned has left no trace.
UnbornIsClean ==
    \A t \in Tasks : task[t] = "unborn" =>
        ~token[t] /\ ~byPeer[t] /\ peer[t] = "idle" /\ send # t

\* A task that is to upload has a file left to upload.
LeftToUpload ==
    \A t \in Tasks : task[t] \in {"announcing", "uploading"} => left[t] > 0

\* A cancel request is only under way for a session its receiver has closed.
CancelsAreTrue == \A t \in cancels : peer[t] = "cancelled"

\* Where a session may still be open, given where its task is.
OpenIsExpected ==
    \A t \in Tasks :
        /\ peer[t] = "open" /\ task[t] = "preparing" => reply[t] \in {"accepted", "unknown"}
        /\ task[t] = "dead" => reply[t] = "unknown"
        /\ reply[t] \in {"accepted", "unknown"} =>
              peer[t] \in {"open", "complete", "cancelled", "told"}
        /\ reply[t] = "refused" => peer[t] = "refused"
        /\ task[t] = "born" => peer[t] = "idle"
        /\ ~lost /\ task[t] \in {"ending", "done"}
              /\ peer[t] \in {"asked", "open"} => outcome[t] = "withdrawn"
        /\ peer[t] = "asked" => task[t] \in {"preparing", "ending", "done"}

\* As long as the program runs with --file, the transfer it was started for
\* is the one it tracks.
TransferIsSend ==
    fileMode /\ running => \A t \in Tasks : task[t] # "unborn" => send = t

IInv == /\ TaskIsSend /\ SessionIsOwn /\ ByPeerIsTrue /\ PickerMeansIdle
        /\ UnbornIsClean /\ LeftToUpload /\ CancelsAreTrue /\ OpenIsExpected

\* The state is well typed, and the tracked send, its session id and the
\* reports under way belong together, whatever was cancelled by whom.
Inv == TypeOK /\ IInv /\ TransferIsSend
=============================================================================
