---------------------------- MODULE NativeServer ----------------------------
(***************************************************************************)
(* FluentSend's native shim around the LocalSend server                    *)
(* (FluentSend.Core.Native/src/server.rs): an event task takes the server's *)
(* events from event_rx, keeps the senders by which they are answered in   *)
(* the two maps of ServerRegistry and calls the host back with JSON; the   *)
(* host answers by fs_server_respond and fs_server_file_target, from any   *)
(* thread and at any time, so also between the two halves of the task's    *)
(* step.                                                                   *)
(*                                                                         *)
(* The server is a library that is not part of this repository: the Core*  *)
(* actions.  The host is any that answers what it was told of; FluentSend's *)
(* own, which also puts the requests on the screen, is OnServerEvent.      *)
(***************************************************************************)
EXTENDS Naturals, Sequences

CONSTANTS
    Sessions,    \* session ids the server hands out, each used once
    Files,       \* file ids of every request
    EventCap,    \* capacity of the server's event channel (64)
    MaxTries     \* bound: uploads of one file within one session

ASSUME BoundAssumption == EventCap \in Nat \ {0} /\ MaxTries \in Nat

VARIABLES
    core,        \* session -> what the server holds of it
    decision,    \* session -> what its handler was sent
    upload,      \* session -> file -> state of its latest upload request
    tries,       \* session -> file -> number of upload requests so far
    queue,       \* event_rx
    held,        \* the event the task has registered but not yet told
    decisions,   \* keys of pending_decisions
    targets,     \* pending_file_targets: session -> file -> request, or 0
    told,        \* events the host was called back with
    answered,    \* sessions for which fs_server_respond has returned 0
    shown        \* sessions whose ReceiveOverlay was shown

coreVars == <<core, decision, upload, tries>>
hostVars == <<told, answered, shown>>
vars     == <<core, decision, upload, tries, queue, held, decisions, targets,
              told, answered, shown>>

\* Events, by the type they have in JSON.
PrepareUpload(s)        == [type |-> "prepare_upload", session |-> s]
PrepareUploadAborted(s) == [type |-> "prepare_upload_aborted", session |-> s]
FileUpload(s, f, n)     == [type |-> "file_upload", session |-> s,
                            file |-> f, try |-> n]
SessionEnd(s)           == [type |-> "session_end", session |-> s]
NoEvent                 == [type |-> "none"]

Events == {PrepareUpload(s) : s \in Sessions}
          \cup {PrepareUploadAborted(s) : s \in Sessions}
          \cup {FileUpload(s, f, n) : s \in Sessions, f \in Files, n \in 1..MaxTries}
          \cup {SessionEnd(s) : s \in Sessions}

Queued(e) == \E i \in 1..Len(queue) : queue[i] = e
Room      == Len(queue) < EventCap

TypeOK ==
    /\ core      \in [Sessions -> {"new", "waiting", "active", "closed"}]
    /\ decision  \in [Sessions -> {"none", "accept", "decline"}]
    /\ upload    \in [Sessions -> [Files -> {"none", "waiting", "writing",
                                             "done", "failed"}]]
    /\ tries     \in [Sessions -> [Files -> 0..MaxTries]]
    /\ queue     \in Seq(Events)
    /\ held      \in Events \cup {NoEvent}
    /\ decisions \subseteq Sessions
    /\ targets   \in [Sessions -> [Files -> 0..MaxTries]]
    /\ told      \subseteq Events
    /\ answered  \subseteq Sessions
    /\ shown     \subseteq Sessions

Init ==
    /\ core      = [s \in Sessions |-> "new"]
    /\ decision  = [s \in Sessions |-> "none"]
    /\ upload    = [s \in Sessions |-> [f \in Files |-> "none"]]
    /\ tries     = [s \in Sessions |-> [f \in Files |-> 0]]
    /\ queue     = <<>>
    /\ held      = NoEvent
    /\ decisions = {}
    /\ targets   = [s \in Sessions |-> [f \in Files |-> 0]]
    /\ told      = {}
    /\ answered  = {}
    /\ shown     = {}

(***************************************************************************)
(* The server.                                                             *)
(***************************************************************************)
RestOfCore == UNCHANGED <<held, decisions, targets>> /\ UNCHANGED hostVars

\* One session at a time; the handler waits for the decision.
CorePrepare(s) ==
    /\ core[s] = "new" /\ Room
    /\ \A q \in Sessions : core[q] \in {"new", "closed"}
    /\ core'  = [core EXCEPT ![s] = "waiting"]
    /\ queue' = Append(queue, PrepareUpload(s))
    /\ UNCHANGED <<decision, upload, tries>> /\ RestOfCore

CoreDecided(s) ==
    /\ core[s] = "waiting" /\ decision[s] # "none"
    /\ core' = [core EXCEPT ![s] = IF decision[s] = "accept" THEN "active" ELSE "closed"]
    /\ UNCHANGED <<decision, upload, tries, queue>> /\ RestOfCore

\* The sender disconnects before it has its answer.
CoreAbort(s) ==
    /\ core[s] = "waiting" /\ Room
    /\ core'  = [core EXCEPT ![s] = "closed"]
    /\ queue' = Append(queue, PrepareUploadAborted(s))
    /\ UNCHANGED <<decision, upload, tries>> /\ RestOfCore

CoreUpload(s, f) ==
    /\ core[s] = "active" /\ Room
    /\ upload[s][f] \in {"none", "failed"} /\ tries[s][f] < MaxTries
    /\ upload' = [upload EXCEPT ![s][f] = "waiting"]
    /\ tries'  = [tries EXCEPT ![s][f] = @ + 1]
    /\ queue'  = Append(queue, FileUpload(s, f, tries[s][f] + 1))
    /\ UNCHANGED <<core, decision>> /\ RestOfCore

\* The file is stored or its request ends without that.
CoreUploadEnds(s, f) ==
    /\ \/ /\ upload[s][f] \in {"waiting", "writing"}
          /\ upload' = [upload EXCEPT ![s][f] = "failed"]
       \/ /\ upload[s][f] = "writing"
          /\ upload' = [upload EXCEPT ![s][f] = "done"]
    /\ UNCHANGED <<core, decision, tries, queue>> /\ RestOfCore

\* Finished, or cancelled by the sender.
CoreEnd(s) ==
    /\ core[s] = "active" /\ Room
    /\ core'  = [core EXCEPT ![s] = "closed"]
    /\ queue' = Append(queue, SessionEnd(s))
    /\ UNCHANGED <<decision, upload, tries>> /\ RestOfCore

Core == \E s \in Sessions :
            \/ CorePrepare(s) \/ CoreDecided(s) \/ CoreAbort(s) \/ CoreEnd(s)
            \/ \E f \in Files : CoreUpload(s, f) \/ CoreUploadEnds(s, f)

(***************************************************************************)
(* The event task.                                                         *)
(***************************************************************************)
\* (mutant) the entry of an earlier request is kept.
RegisterOnce(e) ==
    /\ decisions' = IF e.type = "prepare_upload" THEN decisions \cup {e.session}
                    ELSE decisions
    /\ targets'   = IF e.type = "file_upload" /\ targets[e.session][e.file] = 0
                    THEN [targets EXCEPT ![e.session][e.file] = e.try]
                    ELSE targets

\* HashMap::insert: the sender of an upload replaces that of an earlier try.
\* Nothing is removed, not even when the request is aborted.
Register(e) ==
    /\ decisions' = IF e.type = "prepare_upload" THEN decisions \cup {e.session}
                    ELSE decisions
    /\ targets'   = IF e.type = "file_upload"
                    THEN [targets EXCEPT ![e.session][e.file] = e.try]
                    ELSE targets

\* (mutant) leaves its loop with the first event there is nothing to register of.
TakeRegistered ==
    /\ held = NoEvent /\ queue # <<>>
    /\ Head(queue).type \in {"prepare_upload", "file_upload"}
    /\ held'  = Head(queue)
    /\ queue' = Tail(queue)
    /\ Register(Head(queue))
    /\ UNCHANGED coreVars /\ UNCHANGED hostVars

\* (mutant) tells the host before it registers.
TellFirst ==
    /\ held = NoEvent /\ queue # <<>>
    /\ IF Head(queue) \notin told
       THEN told' = told \cup {Head(queue)} /\ UNCHANGED <<held, queue, decisions, targets>>
       ELSE /\ held'  = Head(queue)
            /\ queue' = Tail(queue)
            /\ Register(Head(queue))
            /\ UNCHANGED told
    /\ UNCHANGED <<answered, shown>> /\ UNCHANGED coreVars

Take ==
    /\ held = NoEvent /\ queue # <<>>
    /\ held'  = Head(queue)
    /\ queue' = Tail(queue)
    /\ Register(Head(queue))
    /\ UNCHANGED coreVars /\ UNCHANGED hostVars

\* MainViewModel.OnServerEvent, in FluentSend's callback.
OnServerEvent(e) ==
    shown' = IF e.type = "receive-request" THEN shown \cup {e.session} ELSE shown

Emit ==
    /\ held # NoEvent
    /\ told' = told \cup {held}
    /\ held' = NoEvent
    /\ OnServerEvent(held)
    /\ UNCHANGED <<queue, decisions, targets, answered>> /\ UNCHANGED coreVars

(***************************************************************************)
(* The host.                                                               *)
(***************************************************************************)
\* fs_server_respond returns 0: the sender was there, the handler perhaps no
\* more.
Respond(s, d) ==
    /\ PrepareUpload(s) \in told
    /\ s \in decisions
    /\ decisions' = decisions \ {s}
    /\ answered'  = answered \cup {s}
    /\ decision'  = IF core[s] = "waiting" THEN [decision EXCEPT ![s] = d] ELSE decision
    /\ UNCHANGED <<core, upload, tries, queue, held, targets, told, shown>>

\* fs_server_file_target returns 0, likewise.  The host names session and
\* file, not the request: it may reach one it was not told of yet.
FileTarget(s, f) ==
    /\ \E n \in 1..MaxTries : FileUpload(s, f, n) \in told
    /\ targets[s][f] # 0
    /\ targets' = [targets EXCEPT ![s][f] = 0]
    /\ upload'  = IF upload[s][f] = "waiting" /\ targets[s][f] = tries[s][f]
                  THEN [upload EXCEPT ![s][f] = "writing"] ELSE upload
    /\ UNCHANGED <<core, decision, tries, queue, held, decisions>> /\ UNCHANGED hostVars

Host == \E s \in Sessions :
            \/ \E d \in {"accept", "decline"} : Respond(s, d)
            \/ \E f \in Files : FileTarget(s, f)

Next == Core \/ Take \/ Emit \/ Host

Spec == Init /\ [][Next]_vars

\* The runtime polls the task and the callback returns.
Fairness == WF_vars(Take) /\ WF_vars(Emit)

FairSpec == Spec /\ Fairness

(***************************************************************************)
(* Properties.                                                             *)
(***************************************************************************)
\* The server's handlers never wait for a sender that was dropped on the way:
\* it is in an event, or registered.  (A retried upload replaces the entry of
\* its predecessor and must not lose its own.)
NothingDropped ==
    \A s \in Sessions :
        /\ core[s] = "waiting" /\ decision[s] = "none" =>
              Queued(PrepareUpload(s)) \/ s \in decisions
        /\ \A f \in Files : upload[s][f] = "waiting" =>
              \/ Queued(FileUpload(s, f, tries[s][f]))
              \/ targets[s][f] = tries[s][f]

\* A host that answers what it was told of is understood (never -2), however
\* fast it is: the first answer to a request, and one to an upload that waits.
ToldIsAnswerable ==
    /\ \A s \in Sessions : PrepareUpload(s) \in told => s \in decisions \cup answered
    /\ \A s \in Sessions, f \in Files :
          /\ tries[s][f] > 0
          /\ FileUpload(s, f, tries[s][f]) \in told
          /\ upload[s][f] = "waiting"
          => targets[s][f] = tries[s][f]

\* The host hears of every request, whatever became of those before it.
EveryRequestTold ==
    \A s \in Sessions : (core[s] = "waiting") ~> (PrepareUpload(s) \in told)

\* README.md says of the app that it shows received requests in an overlay
\* over the whole screen, to be confirmed or cancelled.
RequestShown == \A s \in Sessions : (core[s] = "waiting") ~> (s \in shown)

(***************************************************************************)
(* The inductive invariant.                                                *)
(***************************************************************************)
\* Past the queue an event has been registered.
PassedOn(e) == held = e \/ e \in told

\* The sender of a request stays registered until it is used.
RegisteredFirst ==
    \A s \in Sessions :
        PassedOn(PrepareUpload(s)) => s \in decisions \cup answered

\* What is registered or past the queue has been asked for.
Asked ==
    \A s \in Sessions, f \in Files :
        /\ targets[s][f] <= tries[s][f]
        /\ \A n \in 1..MaxTries : PassedOn(FileUpload(s, f, n)) => n <= tries[s][f]

\* The uploads of a file are queued in their order, behind those registered.
InOrder ==
    \A s \in Sessions, f \in Files, n \in 1..MaxTries, i \in 1..Len(queue) :
        queue[i] = FileUpload(s, f, n) =>
            /\ targets[s][f] < n /\ n <= tries[s][f]
            /\ \A m \in 1..MaxTries : PassedOn(FileUpload(s, f, m)) => m < n
            /\ \A m \in 1..MaxTries, j \in (i+1)..Len(queue) :
                  queue[j] = FileUpload(s, f, m) => n < m

IInv == NothingDropped /\ RegisteredFirst /\ Asked /\ InOrder

\* The state is well typed, and queue, registry and what the host was told
\* agree on every answer that is waited for.
Inv == TypeOK /\ IInv
=============================================================================
