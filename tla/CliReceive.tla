----------------------------- MODULE CliReceive -----------------------------
(***************************************************************************)
(* The receiving side of the LocalSend CLI (localsend/cli/src/app): one    *)
(* actor, App, that owns an optional request waiting for Y/N/P (`pending`) *)
(* and an optional session being received (`receive`).  It reads           *)
(*   - server_rx, the FIFO of events of the v2 HTTP server,                *)
(*   - events_rx, which carries the keys and the result of every file.     *)
(* The per-file results are forwarded by one task per upload, so they race *)
(* with each other and with the server's own events.                       *)
(*                                                                         *)
(* The HTTP server is a library that is not part of this repository: the   *)
(* Srv* actions are how the code that consumes its events describes it,    *)
(* above all "only one session can be active at a time".                   *)
(***************************************************************************)
EXTENDS Naturals, Sequences, FiniteSets

CONSTANTS
    Sessions,     \* session ids the server hands out, each used once
    Senders,      \* fingerprints of the devices that send to us
    Files,        \* file ids a request may offer
    None,         \* "no session": the None of Option
    ServerCap,    \* capacity of the server_tx channel
    MaxAttempts,  \* bound: uploads of one file within one session
    WebModes,     \* the web link modes the App may be in
    LateAbort     \* may the sender vanish between our answer and its arrival?

ASSUME NoneAssumption == None \notin Sessions
ASSUME SendersAssumption == Senders # {}
ASSUME FilesAssumption == IsFiniteSet(Files)
ASSUME CapAssumption  == ServerCap \in Nat \ {0} /\ MaxAttempts \in Nat
ASSUME WebAssumption  == WebModes \subseteq {"none", "share", "receive"}
ASSUME LateAssumption == LateAbort \in BOOLEAN

VARIABLES
    srv,         \* session -> what the server holds of it
    offer,       \* session -> the request: who sends which files
    decision,    \* session -> contents of the request's decision oneshot
    up,          \* session -> file -> state of its latest upload request
    tries,       \* session -> file -> number of upload requests so far
    serverQ,     \* server_rx
    results,     \* per-file results on their way to the App
    pending,     \* App.pending: the session it asks about
    receive,     \* App.receive
    paired,      \* fingerprints in storage.paired
    web,         \* App.web, which is not switched while requests are handled
    cancelling,  \* sessions whose cancel task has not reached the server
    log          \* session -> the closing line the user was shown

serverVars == <<srv, offer, up, tries>>
appVars    == <<pending, receive, paired, web, cancelling, log>>
vars       == <<srv, offer, decision, up, tries, serverQ, results,
                pending, receive, paired, web, cancelling, log>>

(***************************************************************************)
(* Data.                                                                   *)
(***************************************************************************)
PrepareUpload(s)        == [type |-> "PrepareUpload", session |-> s]
PrepareUploadAborted(s) == [type |-> "PrepareUploadAborted", session |-> s]
FileUpload(s, f, n)     == [type |-> "FileUpload", session |-> s,
                            file |-> f, try |-> n]
SessionEnd(s, r)        == [type |-> "SessionEnd", session |-> s, reason |-> r]

Reasons == {"Finished", "Cancelled"}
Events  == {PrepareUpload(s) : s \in Sessions}
           \cup {PrepareUploadAborted(s) : s \in Sessions}
           \cup {FileUpload(s, f, n) : s \in Sessions, f \in Files,
                                       n \in 1..MaxAttempts}
           \cup {SessionEnd(s, r) : s \in Sessions, r \in Reasons}

Offers  == [from : Senders, files : SUBSET Files, message : BOOLEAN]
NoOffer == [from |-> CHOOSE d \in Senders : TRUE, files |-> {}, message |-> FALSE]
Results == [session : Sessions, file : Files, try : 0..MaxAttempts, ok : BOOLEAN]

ReceiveSession == [id : Sessions \cup {None}, inProgress : SUBSET Files,
                   finished : Nat, failed : Nat, ended : Reasons \cup {"no"}]
NewSession(s)  == [id |-> s, inProgress |-> {},
                   finished |-> 0, failed |-> 0, ended |-> "no"]
NoReceive      == NewSession(None)

Lines  == [kind : {"none", "Finished", "Cancelled", "cancelledByUser"},
           finished : Nat, failed : Nat]
NoLine == [kind |-> "none", finished |-> 0, failed |-> 0]
Line(k, r) == [kind |-> k, finished |-> r.finished, failed |-> r.failed]

Queued(e) == \E i \in 1..Len(serverQ) : serverQ[i] = e
Room      == Len(serverQ) < ServerCap
Busy      == {s \in Sessions : srv[s] \in {"waiting", "active"}}

TypeOK ==
    /\ srv      \in [Sessions -> {"new", "waiting", "active", "closed"}]
    /\ offer    \in [Sessions -> Offers]
    /\ decision \in [Sessions -> {"none", "accept", "acceptNone", "decline", "dropped"}]
    /\ up       \in [Sessions -> [Files -> {"none", "requested", "writing",
                                            "done", "failed"}]]
    /\ tries    \in [Sessions -> [Files -> 0..MaxAttempts]]
    /\ serverQ  \in Seq(Events)
    /\ results  \subseteq Results
    /\ pending  \in Sessions \cup {None}
    /\ receive  \in ReceiveSession
    /\ paired   \subseteq Senders
    /\ web      \in {"none", "share", "receive"}
    /\ cancelling \subseteq Sessions
    /\ log      \in [Sessions -> Lines]

\* The App is idle; a web link may have been switched on before (CliWebLink).
Init ==
    /\ srv        = [s \in Sessions |-> "new"]
    /\ offer      = [s \in Sessions |-> NoOffer]
    /\ decision   = [s \in Sessions |-> "none"]
    /\ up         = [s \in Sessions |-> [f \in Files |-> "none"]]
    /\ tries      = [s \in Sessions |-> [f \in Files |-> 0]]
    /\ serverQ    = <<>>
    /\ results    = {}
    /\ pending    = None
    /\ receive    = NoReceive
    /\ paired     \in SUBSET Senders
    /\ web        \in WebModes
    /\ cancelling = {}
    /\ log        = [s \in Sessions |-> NoLine]

(***************************************************************************)
(* The HTTP server and the senders behind it.                              *)
(***************************************************************************)

\* POST prepare-upload: the server takes one session at a time and asks us.
SrvPrepare(s, d, fs, m) ==
    /\ srv[s] = "new"
    /\ Busy = {}
    /\ fs # {}
    /\ m => Cardinality(fs) = 1
    /\ Room
    /\ srv'     = [srv EXCEPT ![s] = "waiting"]
    /\ offer'   = [offer EXCEPT ![s] = [from |-> d, files |-> fs, message |-> m]]
    /\ serverQ' = Append(serverQ, PrepareUpload(s))
    /\ UNCHANGED <<decision, up, tries, results, appVars>>

\* The request handler wakes up with the decision we put into its oneshot.
SrvDecided(s) ==
    /\ srv[s] = "waiting"
    /\ decision[s] # "none"
    /\ srv' = [srv EXCEPT ![s] = IF decision[s] = "accept" THEN "active" ELSE "closed"]
    /\ UNCHANGED <<offer, decision, up, tries, serverQ, results, appVars>>

\* The sender disconnects while its request waits.
SrvAbort(s) ==
    /\ srv[s] = "waiting"
    /\ decision[s] = "none" \/ LateAbort
    /\ Room
    /\ srv'     = [srv EXCEPT ![s] = "closed"]
    /\ serverQ' = Append(serverQ, PrepareUploadAborted(s))
    /\ UNCHANGED <<offer, decision, up, tries, results, appVars>>

\* POST upload of an accepted file, the first time or again after a failure.
SrvUpload(s, f) ==
    /\ srv[s] = "active"
    /\ f \in offer[s].files
    /\ up[s][f] \in {"none", "failed"}
    /\ tries[s][f] < MaxAttempts
    /\ Room
    /\ up'      = [up EXCEPT ![s][f] = "requested"]
    /\ tries'   = [tries EXCEPT ![s][f] = @ + 1]
    /\ serverQ' = Append(serverQ, FileUpload(s, f, tries[s][f] + 1))
    /\ UNCHANGED <<srv, offer, decision, results, appVars>>

\* The sender gives up an upload we have not answered yet.
SrvUploadAborted(s, f) ==
    /\ up[s][f] = "requested"
    /\ up' = [up EXCEPT ![s][f] = "failed"]
    /\ UNCHANGED <<srv, offer, decision, tries, serverQ, results, appVars>>

\* The file is stored, or fails (checksum, I/O, connection lost): its outcome
\* goes through result_tx and the forwarding task to the App.
SrvFileDone(s, f, ok) ==
    /\ up[s][f] = "writing"
    /\ up'      = [up EXCEPT ![s][f] = IF ok THEN "done" ELSE "failed"]
    /\ results' = results \cup {[session |-> s, file |-> f,
                                 try |-> tries[s][f], ok |-> ok]}
    /\ UNCHANGED <<srv, offer, decision, tries, serverQ, appVars>>

\* Every file of the session has an outcome.
SrvFinish(s) ==
    /\ srv[s] = "active"
    /\ \A f \in offer[s].files : up[s][f] \in {"done", "failed"}
    /\ Room
    /\ srv'     = [srv EXCEPT ![s] = "closed"]
    /\ serverQ' = Append(serverQ, SessionEnd(s, "Finished"))
    /\ UNCHANGED <<offer, decision, up, tries, results, appVars>>

\* POST cancel of the sender.  Uploads under way still report an outcome.
SrvCancelled(s) ==
    /\ srv[s] = "active"
    /\ Room
    /\ srv'     = [srv EXCEPT ![s] = "closed"]
    /\ serverQ' = Append(serverQ, SessionEnd(s, "Cancelled"))
    /\ UNCHANGED <<offer, decision, up, tries, results, appVars>>

(***************************************************************************)
(* The App: handle_server_event.                                           *)
(***************************************************************************)

\* The oneshot send succeeds only while the request is still waiting.
Answerable(s) == srv[s] = "waiting"
Decided(s, d) == IF Answerable(s) THEN [decision EXCEPT ![s] = d] ELSE decision

Take(e) ==
    /\ serverQ # <<>>
    /\ Head(serverQ) = e
    /\ serverQ' = Tail(serverQ)

\* A message request is accepted with no file and opens no session.
HandleMessage(s) ==
    /\ Take(PrepareUpload(s))
    /\ offer[s].message
    /\ decision' = Decided(s, "acceptNone")
    /\ UNCHANGED <<serverVars, results, appVars>>

\* A paired sender is accepted at once; `receive` is replaced.
HandlePairedRequest(s) ==
    /\ Take(PrepareUpload(s))
    /\ ~offer[s].message
    /\ offer[s].from \in paired
    /\ decision' = Decided(s, "accept")
    /\ receive'  = IF Answerable(s) THEN NewSession(s) ELSE receive
    /\ UNCHANGED <<serverVars, results, pending, paired, web, cancelling, log>>

\* Anyone else is prompted for; replacing `pending` drops its responder.
HandleRequest(s) ==
    /\ Take(PrepareUpload(s))
    /\ ~offer[s].message
    /\ offer[s].from \notin paired
    /\ pending'  = s
    /\ decision' = IF pending # None THEN Decided(pending, "dropped") ELSE decision
    /\ UNCHANGED <<serverVars, results, receive, paired, web, cancelling, log>>

HandlePrepareUpload(s) ==
    HandleMessage(s) \/ HandlePairedRequest(s) \/ HandleRequest(s)

\* The request behind the event is still open on the server.
Uploading(s, f, n) == srv[s] = "active" /\ up[s][f] = "requested" /\ tries[s][f] = n

\* Not our session: dropping the responder fails the request.
HandleForeignUpload(s, f, n) ==
    /\ Take(FileUpload(s, f, n))
    /\ receive.id # s
    /\ up' = IF tries[s][f] = n /\ up[s][f] = "requested"
             THEN [up EXCEPT ![s][f] = "failed"] ELSE up
    /\ UNCHANGED <<srv, offer, decision, tries, results, appVars>>

\* (mutant) the forwarding task returns when result_tx is dropped.
UploadSilentlyAborted(s, f, n) ==
    /\ Take(FileUpload(s, f, n))
    /\ receive.id = s
    /\ receive' = [receive EXCEPT !.inProgress = @ \cup {f}]
    /\ up' = IF Uploading(s, f, n) THEN [up EXCEPT ![s][f] = "writing"] ELSE up
    /\ UNCHANGED <<srv, offer, decision, tries, results, pending, paired, web,
                   cancelling, log>>

\* Ours: the file is in progress and a task waits for its result.  When the
\* request is gone, result_tx is dropped with the target: "Upload aborted".
HandleFileUpload(s, f, n) ==
    /\ Take(FileUpload(s, f, n))
    /\ receive.id = s
    /\ receive' = [receive EXCEPT !.inProgress = @ \cup {f}]
    /\ IF Uploading(s, f, n)
       THEN /\ up' = [up EXCEPT ![s][f] = "writing"]
            /\ UNCHANGED results
       ELSE /\ results' = results \cup {[session |-> s, file |-> f,
                                         try |-> n, ok |-> FALSE]}
            /\ up' = IF tries[s][f] = n /\ up[s][f] = "requested"
                     THEN [up EXCEPT ![s][f] = "failed"] ELSE up
    /\ UNCHANGED <<srv, offer, decision, tries, pending, paired, web, cancelling, log>>

\* (mutant) prints the summary at the end of the session, whatever is in flight.
FinishAtEnd(r) ==
    IF r.ended # "no"
    THEN /\ receive' = NoReceive
         /\ log'     = [log EXCEPT ![r.id] = Line(r.ended, r)]
    ELSE /\ receive' = r
         /\ UNCHANGED log

\* finish_receive_if_done: r is the session after the handler's own update.
FinishIfDone(r) ==
    IF r.ended # "no" /\ r.inProgress = {}
    THEN /\ receive' = NoReceive
         /\ log'     = [log EXCEPT ![r.id] = Line(r.ended, r)]
    ELSE /\ receive' = r
         /\ UNCHANGED log

HandleSessionEnd(s, reason) ==
    /\ Take(SessionEnd(s, reason))
    /\ IF receive.id = s
       THEN FinishIfDone([receive EXCEPT !.ended = reason])
       ELSE UNCHANGED <<receive, log>>
    /\ UNCHANGED <<serverVars, decision, results, pending, paired, web, cancelling>>

\* (mutant) logs the abort and forgets to take the request.
AbortKeepsPrompt(s) ==
    /\ Take(PrepareUploadAborted(s))
    /\ UNCHANGED <<serverVars, decision, results, appVars>>

HandleAborted(s) ==
    /\ Take(PrepareUploadAborted(s))
    /\ pending' = IF pending = s THEN None ELSE pending
    /\ UNCHANGED <<serverVars, decision, results, receive, paired, web, cancelling, log>>

(***************************************************************************)
(* The App: events_rx, that is file results and keys.                      *)
(***************************************************************************)

Counted(r) ==
    [receive EXCEPT !.inProgress = @ \ {r.file},
                    !.finished   = IF r.ok THEN @ + 1 ELSE @,
                    !.failed     = IF r.ok THEN @ ELSE @ + 1]

ReceiveFileResult(r) ==
    /\ r \in results
    /\ results' = results \ {r}
    /\ IF receive.id = r.session
       THEN FinishIfDone(Counted(r))
       ELSE UNCHANGED <<receive, log>>
    /\ UNCHANGED <<serverVars, decision, serverQ, pending, paired, web, cancelling>>

\* answer_pending(Decline): N
Decline ==
    /\ pending # None
    /\ pending'  = None
    /\ decision' = Decided(pending, "decline")
    /\ UNCHANGED <<serverVars, serverQ, results, receive, paired, web, cancelling, log>>

\* answer_pending(Accept / AcceptAndPair): Y / P.  P pairs even when the
\* request turns out to be over, but never while "receive via link" is on.
Accept(pair) ==
    /\ pending # None
    /\ pending'  = None
    /\ paired'   = IF pair /\ web # "receive"
                   THEN paired \cup {offer[pending].from} ELSE paired
    /\ decision' = Decided(pending, "accept")
    /\ receive'  = IF Answerable(pending) THEN NewSession(pending) ELSE receive
    /\ UNCHANGED <<serverVars, serverQ, results, web, cancelling, log>>

\* (mutant) clears the session on the screen and tells nobody.
CtrlCLocally ==
    /\ pending # None \/ receive.id # None
    /\ pending'  = None
    /\ decision' = IF pending # None THEN Decided(pending, "decline") ELSE decision
    /\ receive'  = NoReceive
    /\ UNCHANGED <<serverVars, serverQ, results, paired, web, cancelling, log>>

\* (mutant) reports the cancellation and leaves the session in place.
CtrlCKeepsSession ==
    /\ pending # None \/ receive.id # None
    /\ pending'  = None
    /\ decision' = IF pending # None THEN Decided(pending, "decline") ELSE decision
    /\ IF receive.id # None
       THEN /\ cancelling' = cancelling \cup {receive.id}
            /\ log' = [log EXCEPT ![receive.id] = Line("cancelledByUser", receive)]
       ELSE UNCHANGED <<cancelling, log>>
    /\ UNCHANGED <<serverVars, serverQ, results, receive, paired, web>>

\* Ctrl+C declines the prompt and cancels the session, whatever there is of
\* the two; the server and the sender are told by a task of its own.
HandleCtrlC ==
    /\ pending # None \/ receive.id # None
    /\ pending'  = None
    /\ decision' = IF pending # None THEN Decided(pending, "decline") ELSE decision
    /\ receive'  = NoReceive
    /\ IF receive.id # None
       THEN /\ cancelling' = cancelling \cup {receive.id}
            /\ log' = [log EXCEPT ![receive.id] = Line("cancelledByUser", receive)]
       ELSE UNCHANGED <<cancelling, log>>
    /\ UNCHANGED <<serverVars, serverQ, results, paired, web>>

\* A device is paired or unpaired in the device list, at any time.
Pair(d) ==
    /\ paired' = paired \cup {d}
    /\ UNCHANGED <<serverVars, decision, serverQ, results, pending, receive,
                   web, cancelling, log>>

Unpair(d) ==
    /\ paired' = paired \ {d}
    /\ UNCHANGED <<serverVars, decision, serverQ, results, pending, receive,
                   web, cancelling, log>>

\* The spawned task: server.cancel_v2_session rejects further uploads.
CancelTask(s) ==
    /\ s \in cancelling
    /\ cancelling' = cancelling \ {s}
    /\ srv' = [srv EXCEPT ![s] = "closed"]
    /\ UNCHANGED <<offer, decision, up, tries, serverQ, results,
                   pending, receive, paired, web, log>>

(***************************************************************************)
(* Specification.                                                          *)
(***************************************************************************)
SrvStep(s) ==
    \/ \E d \in Senders, fs \in SUBSET Files, m \in BOOLEAN : SrvPrepare(s, d, fs, m)
    \/ SrvDecided(s)
    \/ SrvAbort(s)
    \/ \E f \in Files : SrvUpload(s, f)
    \/ \E f \in Files : SrvUploadAborted(s, f)
    \/ \E f \in Files, ok \in BOOLEAN : SrvFileDone(s, f, ok)
    \/ SrvFinish(s)
    \/ SrvCancelled(s)

HandleServerEvent ==
    \E s \in Sessions :
        \/ HandlePrepareUpload(s)
        \/ \E f \in Files, n \in 1..MaxAttempts :
              HandleForeignUpload(s, f, n) \/ HandleFileUpload(s, f, n)
        \/ \E reason \in Reasons : HandleSessionEnd(s, reason)
        \/ HandleAborted(s)

User == \/ Decline \/ (\E pair \in BOOLEAN : Accept(pair)) \/ HandleCtrlC
        \/ \E d \in Senders : Pair(d) \/ Unpair(d)

\* Every session is used up and nothing is left to do.
Terminated ==
    /\ \A s \in Sessions : srv[s] = "closed"
    /\ serverQ = <<>> /\ results = {} /\ cancelling = {}
    /\ UNCHANGED vars

Next ==
    \/ \E s \in Sessions : SrvStep(s)
    \/ HandleServerEvent
    \/ \E r \in results : ReceiveFileResult(r)
    \/ User
    \/ \E s \in Sessions : CancelTask(s)
    \/ Terminated

Spec == Init /\ [][Next]_vars

(***************************************************************************)
(* Fairness.  tokio keeps polling the App's select loop, whose branches    *)
(* are chosen at random, and every spawned task; an upload that is being   *)
(* written ends, if only because its connection does.                      *)
(***************************************************************************)
Fairness ==
    /\ WF_vars(HandleServerEvent)
    /\ WF_vars(\E r \in results : ReceiveFileResult(r))
    /\ WF_vars(\E s \in Sessions : SrvDecided(s))
    /\ WF_vars(\E s \in Sessions : CancelTask(s))
    /\ WF_vars(\E s \in Sessions, f \in Files, ok \in BOOLEAN : SrvFileDone(s, f, ok))

FairSpec == Spec /\ Fairness

(***************************************************************************)
(* Safety.                                                                 *)
(***************************************************************************)

\* A prompt on the screen belongs to a request that still waits for it, or
\* whose end is already on its way to us: Y is never asked for in vain.
PromptIsLive ==
    pending # None =>
        \/ srv[pending] = "waiting" /\ decision[pending] = "none"
        \/ Queued(PrepareUploadAborted(pending))

\* `self.pending = Some(..)` never overwrites a prompt: by the time the next
\* request is handled the previous prompt was answered or withdrawn.
PromptNeverReplaced ==
    serverQ # <<>> /\ Head(serverQ).type = "PrepareUpload" => pending = None

\* A session the server holds open is the one on the screen, or is being
\* cancelled: no upload goes on that the user can neither see nor stop.
ActiveIsVisible ==
    \A s \in Sessions : srv[s] = "active" => receive.id = s \/ s \in cancelling

\* The session on the screen is one the server holds, or hears the end of:
\* it cannot stay there for ever, unless the sender vanished after our answer.
ReceiveTracksServer ==
    ~LateAbort /\ receive.id # None /\ receive.ended = "no" =>
        \/ srv[receive.id] = "active"
        \/ srv[receive.id] = "waiting" /\ decision[receive.id] = "accept"
        \/ \E reason \in Reasons : Queued(SessionEnd(receive.id, reason))

\* The summary of a finished session tells what became of its files: results
\* that arrive late, or belong to another session, never distort the counts.
SummaryCountsTrue ==
    \A s \in Sessions : log[s].kind = "Finished" =>
        /\ log[s].finished = Cardinality({f \in Files : up[s][f] = "done"})
        /\ log[s].failed   = Cardinality({f \in Files : up[s][f] = "failed"})

\* A session gets at most one closing line.
ClosedOnce ==
    [][\A s \in Sessions : log[s] # NoLine => log'[s] = log[s]]_log

(***************************************************************************)
(* The inductive invariant behind the first four and ClosedOnce.           *)
(***************************************************************************)
EventAt(i, e) == i \in 1..Len(serverQ) /\ serverQ[i] = e

\* The single-session rule of the server.
OneBusy == \A s, t \in Busy : s = t

\* Nothing has happened to a session the server has not handed out.
FreshUntouched ==
    \A s \in Sessions : srv[s] = "new" =>
        /\ decision[s] = "none"
        /\ pending # s
        /\ \A i \in 1..Len(serverQ) : serverQ[i].session # s

\* An event that ends a request or a session is queued after its end.
EndIsClosed ==
    \A s \in Sessions, i \in 1..Len(serverQ) :
        \/ serverQ[i] = PrepareUploadAborted(s)
        \/ \E reason \in Reasons : serverQ[i] = SessionEnd(s, reason)
        => srv[s] = "closed"

\* A queued request was neither answered nor shown, and is queued once; its
\* server still waits, or has queued the abort behind it.
RequestUnseen ==
    \A s \in Sessions, i \in 1..Len(serverQ) : serverQ[i] = PrepareUpload(s) =>
        /\ decision[s] = "none"
        /\ pending # s
        /\ \A j \in 1..Len(serverQ) : serverQ[j] = PrepareUpload(s) => j = i
        /\ \/ srv[s] = "waiting"
           \/ \E j \in (i+1)..Len(serverQ) : serverQ[j] = PrepareUploadAborted(s)

\* Between two queued requests lies the abort of the first.
RequestsSeparated ==
    \A s, t \in Sessions, i, k \in 1..Len(serverQ) :
        /\ serverQ[i] = PrepareUpload(s)
        /\ serverQ[k] = PrepareUpload(t)
        /\ i < k
        => \E j \in (i+1)..(k-1) : serverQ[j] = PrepareUploadAborted(s)

\* The abort of the prompt on the screen is queued before any new request.
PromptWithdrawnFirst ==
    pending # None => \A t \in Sessions, k \in 1..Len(serverQ) :
        serverQ[k] = PrepareUpload(t) =>
            \E j \in 1..(k-1) : serverQ[j] = PrepareUploadAborted(pending)

\* What was shown, cancelled or reported is a session we accepted; and what
\* was cancelled or reported is off the screen.
AcceptedOnly ==
    \A s \in Sessions :
        /\ receive.id = s \/ s \in cancelling \/ log[s] # NoLine => decision[s] = "accept"
        /\ s \in cancelling \/ log[s] # NoLine => receive.id # s

\* ActiveIsVisible, from the moment of our answer on.
AcceptedIsVisible ==
    \A s \in Sessions :
        srv[s] = "active" \/ (srv[s] = "waiting" /\ decision[s] = "accept")
            => receive.id = s \/ s \in cancelling

\* An end the App has heard of did happen.
EndedIsClosed ==
    receive.id # None /\ receive.ended # "no" => srv[receive.id] = "closed"

IInv ==
    /\ OneBusy
    /\ FreshUntouched
    /\ EndIsClosed
    /\ RequestUnseen
    /\ RequestsSeparated
    /\ PromptIsLive
    /\ PromptWithdrawnFirst
    /\ AcceptedOnly
    /\ AcceptedIsVisible
    /\ EndedIsClosed
    /\ ReceiveTracksServer

\* The prompt on the screen was not answered before.
PromptUndecided == pending # None => decision[pending] = "none"

\* Nobody is asked about anyone else while an accepted session is open.
AcceptedAlone ==
    \A s \in Busy : decision[s] = "accept" =>
        /\ pending = None
        /\ \A t \in Sessions : ~Queued(PrepareUpload(t))

\* The end of a session is heard before anyone is asked about the next one.
EndsFirst ==
    \A s \in Sessions, reason \in Reasons, k \in 1..Len(serverQ) :
        serverQ[k] = SessionEnd(s, reason) =>
            /\ pending = None
            /\ \A t \in Sessions, i \in 1..k : serverQ[i] # PrepareUpload(t)

\* What the refinement needs beyond IInv: one thing at a time.
OneAtATime == PromptUndecided /\ AcceptedAlone /\ EndsFirst

(***************************************************************************)
(* The inductive invariant behind SummaryCountsTrue.                       *)
(***************************************************************************)

\* Where the first and only upload of a file is: queued for the App, then
\* written, then its result is outstanding.
UploadQueued(s, f) == Queued(FileUpload(s, f, 1))
Outstanding(s, f)  == \E r \in results : r.session = s /\ r.file = f
Settled(s)         == \A f \in Files : up[s][f] \in {"none", "done", "failed"}
NoUpload(s)        == \A f \in Files : ~UploadQueued(s, f)

DoneFiles(s)   == {f \in Files : up[s][f] = "done"}
FailedFiles(s) == {f \in Files : up[s][f] = "failed"}

\* What the App has counted of session s, as long as the files in P wait.
CountedDone(s, P)   == {f \in DoneFiles(s) : f \notin P}
CountedFailed(s, P) == {f \in FailedFiles(s) : f \notin P /\ ~UploadQueued(s, f)}

\* An upload is in one place at a time ...
UploadsInv ==
    \A s \in Sessions, f \in Files :
        /\ up[s][f] = "none" => tries[s][f] = 0
        /\ up[s][f] # "none" => /\ tries[s][f] = 1
                                /\ decision[s] = "accept"
                                /\ f \in offer[s].files
        /\ up[s][f] = "requested" => UploadQueued(s, f)
        /\ UploadQueued(s, f) => up[s][f] \in {"requested", "failed"} /\ ~Outstanding(s, f)

\* ... and its result tells its outcome.
ResultsInv ==
    \A r \in results : /\ r.try = 1
                       /\ up[r.session][r.file] = IF r.ok THEN "done" ELSE "failed"

\* An upload is queued once, and before the end of its session.
OrderInv ==
    \A s \in Sessions, f \in Files, i \in 1..Len(serverQ) : serverQ[i] = FileUpload(s, f, 1) =>
        \A k \in 1..Len(serverQ) :
            /\ serverQ[k] = FileUpload(s, f, 1) => k = i
            /\ \A reason \in Reasons : serverQ[k] = SessionEnd(s, reason) => i < k

\* A session finishes with its last file.
FinishInv ==
    \A s \in Sessions : Queued(SessionEnd(s, "Finished")) => Settled(s)

\* What r has in progress is what it did not count, and its counts are right.
Right(s, r) ==
    /\ \A f \in Files : f \in r.inProgress <=> up[s][f] = "writing" \/ Outstanding(s, f)
    /\ r.finished = Cardinality(CountedDone(s, r.inProgress))
    /\ r.failed = Cardinality(CountedFailed(s, r.inProgress))
    /\ r.ended # "no" => NoUpload(s)
    /\ r.ended = "Finished" => Settled(s)

ScreenInv == \A s \in Sessions : receive.id = s => Right(s, receive)

\* A summary was true when it was printed, and nothing happens afterwards.
Final(s, line) ==
    /\ srv[s] = "closed"
    /\ Settled(s)
    /\ NoUpload(s)
    /\ line.finished = Cardinality(DoneFiles(s))
    /\ line.failed = Cardinality(FailedFiles(s))

LogInv == \A s \in Sessions : log[s].kind = "Finished" => Final(s, log[s])

CountInv == UploadsInv /\ ResultsInv /\ OrderInv /\ FinishInv /\ ScreenInv /\ LogInv

\* The prompt, the screen, the queue and the server agree: a prompt is
\* answerable or its abort is queued, the session on the screen is one whose
\* end is still to be heard of, and the user deals with one request or
\* transfer at a time.
Agreement == TypeOK /\ IInv /\ OneAtATime

\* Agreement and, when no file is sent twice, counts that are true.
Inv == Agreement /\ (MaxAttempts <= 1 => CountInv)

(***************************************************************************)
(* Liveness.                                                               *)
(***************************************************************************)

\* A session whose end was reported leaves the screen.
EndedLeavesScreen ==
    \A s \in Sessions :
        receive.id = s /\ receive.ended # "no" ~> receive.id # s

\* Once the user does not see a session any more the server ends it.
UnseenIsEnded ==
    \A s \in Sessions :
        srv[s] = "active" /\ receive.id # s ~> srv[s] = "closed"

(***************************************************************************)
(* Refinement.                                                             *)
(***************************************************************************)
\* The sender vanished after our answer, and the server has nothing to report.
Vanished(s) ==
    srv[s] = "closed" /\ \A reason \in Reasons : ~Queued(SessionEnd(s, reason))

Stage(s) ==
    IF srv[s] = "new" \/ Queued(PrepareUpload(s)) THEN "unseen"
    ELSE IF pending = s    THEN "prompted"
    ELSE IF receive.id = s THEN IF receive.ended = "no" /\ ~Vanished(s)
                                THEN "receiving" ELSE "ending"
    ELSE "over"

Promise == INSTANCE ReceivePromise WITH stage <- [s \in Sessions |-> Stage(s)]

\* The App keeps the promise ReceivePromise makes to the user.
KeepsPromise == Promise!Spec
=============================================================================
