----------------------------- MODULE NativeHome -----------------------------
(***************************************************************************)
(* FluentSend's home page (HomePageViewModel.cs, FluentSendSession.cs) on  *)
(* the native shim's discovery and sending (FluentSend.Core.Native/src/    *)
(* discovery.rs, send.rs).                                                 *)
(*                                                                         *)
(* The library finds devices and keeps them in its store; a task of the    *)
(* shim calls the host back with its events, and the host copies the store *)
(* into its list when it refreshes.  A send is one blocking call on the UI *)
(* thread: nothing else happens there until fs_send_files returns.  The    *)
(* library and the receivers are not part of this repository: the actions  *)
(* of World, and what a request comes to.                                  *)
(***************************************************************************)
EXTENDS Naturals, Sequences

CONSTANTS
    Devices,      \* the other devices, by fingerprint
    Self,         \* our own fingerprint
    Channels,     \* addresses, each with its port and protocol
    Https,        \* those that speak HTTPS
    Paths,        \* what the user sends: files, folders, texts
    Unreadable,   \* those the shim cannot read: a folder, the empty path of a text
    Nowhere,      \* no channel
    NoDevice,     \* no selection, no call
    EventCap,     \* capacity of the shim's event channel (64)
    Faulty        \* devices move and leave, requests get lost

ASSUME ConstantAssumption ==
    /\ Self \notin Devices /\ Nowhere \notin Channels /\ NoDevice \notin Devices
    /\ EventCap \in Nat \ {0} /\ Faulty \in BOOLEAN

VARIABLES
    where,       \* device -> the channel it listens on
    store,       \* device -> the channel the library knows it by
    events,      \* event_rx of fs_discovery_start, the types
    posted,      \* jobs posted to the UI thread
    items,       \* _byFingerprint, which Devices copies
    selected,    \* SelectedDevice
    call,        \* the running fs_send_files
    todo,        \* files of its answer that have not been tried
    pending,     \* device -> files its open session waits for, {}: none open
    fault        \* history: devices an upload to whose session came to nothing

worldVars == <<where, store>>
pageVars  == <<items, selected, posted>>
vars      == <<where, store, events, posted, items, selected, call, todo,
               pending, fault>>

Known  == Channels \cup {Nowhere}
Item   == [device : Devices, channel : Channels]
None   == [device |-> NoDevice, channel |-> Nowhere]
Idle   == [step |-> "none", peer |-> NoDevice, channel |-> Nowhere, paths |-> {}]
Calls  == [step : {"prepare"}, peer : {NoDevice}, channel : Channels, paths : SUBSET Paths]
          \cup [step : {"upload"}, peer : Devices, channel : Channels, paths : {{}}]

TypeOK ==
    /\ where    \in [Devices -> Known]
    /\ store    \in [Devices -> Known]
    /\ events   \in Seq({"discovered", "updated"})
    /\ posted   \in Seq({"refresh"})
    /\ items    \in [Devices -> Known]
    /\ selected \in Item \cup {None}
    /\ call     \in Calls \cup {Idle}
    /\ todo     \in SUBSET Paths
    /\ pending  \in [Devices -> SUBSET Paths]
    /\ fault    \in SUBSET Devices

UiFree == call = Idle

\* Discovery is started, and a first refresh posted, before the UI runs.
Init ==
    /\ where \in [Devices -> Known]
    /\ \A d, e \in Devices : d # e /\ where[d] # Nowhere => where[e] # where[d]
    /\ store    = [d \in Devices |-> Nowhere]
    /\ events   = <<>>
    /\ posted   = <<"refresh">>
    /\ items    = [d \in Devices |-> Nowhere]
    /\ selected = None
    /\ call     = Idle
    /\ todo     = {}
    /\ pending  = [d \in Devices |-> {}]
    /\ fault    = {}

(***************************************************************************)
(* The world: devices, the library's store and its events.                 *)
(***************************************************************************)
Move(d) ==
    /\ Faulty
    /\ \E c \in Known \ {where[d]} :
         /\ \A e \in Devices : c # Nowhere => where[e] # c
         /\ where' = [where EXCEPT ![d] = c]
    /\ UNCHANGED <<store, events, call, todo, pending, fault>>
    /\ UNCHANGED pageVars

Find(d) ==
    /\ where[d] # Nowhere /\ store[d] # where[d] /\ Len(events) < EventCap
    /\ store' = [store EXCEPT ![d] = where[d]]
    /\ events' = Append(events, IF store[d] = Nowhere THEN "discovered" ELSE "updated")
    /\ UNCHANGED <<where, call, todo, pending, fault>>
    /\ UNCHANGED pageVars

Forget(d) ==
    /\ Faulty
    /\ store[d] # Nowhere
    /\ store' = [store EXCEPT ![d] = Nowhere]
    /\ UNCHANGED <<where, events, call, todo, pending, fault>>
    /\ UNCHANGED pageVars

\* The user of a receiver cancels the session that is open there.
PeerCancels(d) ==
    /\ pending[d] # {}
    /\ pending' = [pending EXCEPT ![d] = {}]
    /\ fault' = fault \ {d}
    /\ UNCHANGED <<events, call, todo>>
    /\ UNCHANGED worldVars /\ UNCHANGED pageVars

World == \E d \in Devices : Move(d) \/ Find(d) \/ Forget(d) \/ PeerCancels(d)

(***************************************************************************)
(* Discovery in the shim and on the page.                                  *)
(***************************************************************************)
\* FluentSendSession.OnDiscoveryEvent and what the page posts on its events:
\* the types the host knows are not the ones the shim emits.
OnDiscoveryEvent(type) ==
    posted' = IF type \in {"seen", "left"} THEN Append(posted, "refresh") ELSE posted

EventTask ==
    /\ events # <<>>
    /\ OnDiscoveryEvent(Head(events))
    /\ events' = Tail(events)
    /\ UNCHANGED <<items, selected, call, todo, pending, fault>>
    /\ UNCHANGED worldVars

\* The list is cleared, and with it the selection bound to it, and filled
\* again; what the store no longer has stays as it was.
RefreshDevices ==
    /\ items' = [d \in Devices |-> IF store[d] # Nowhere THEN store[d] ELSE items[d]]
    /\ selected' = None

RunPosted ==
    /\ UiFree /\ posted # <<>>
    /\ posted' = Tail(posted)
    /\ RefreshDevices
    /\ UNCHANGED <<events, call, todo, pending, fault>>
    /\ UNCHANGED worldVars

\* The command announces us, which changes nothing here, and refreshes.
Refresh ==
    /\ UiFree
    /\ RefreshDevices
    /\ UNCHANGED <<events, posted, call, todo, pending, fault>>
    /\ UNCHANGED worldVars

Select(d) ==
    /\ UiFree /\ items[d] # Nowhere
    /\ selected' = [device |-> d, channel |-> items[d]]
    /\ UNCHANGED <<events, posted, items, call, todo, pending, fault>>
    /\ UNCHANGED worldVars

(***************************************************************************)
(* fs_send_files.                                                          *)
(***************************************************************************)
\* SendMessage, SendClipboard, SendPickedFiles: the call begins.
Send(paths) ==
    /\ UiFree /\ selected # None
    /\ call' = [step |-> "prepare", peer |-> NoDevice,
                channel |-> selected.channel, paths |-> paths]
    /\ UNCHANGED <<events, todo, pending, fault>>
    /\ UNCHANGED worldVars /\ UNCHANGED pageVars

\* Whoever listens on the channel, if the client may talk to it: over HTTPS
\* only to the fingerprint it is pinned to, which the shim takes from the
\* configuration's own identity.
Reached(p) ==
    /\ where[p] = call.channel
    /\ call.channel \in Https => p = Self

\* The call returns.  The host ignores the code, shows every message as sent
\* and can be used again.
Return == call' = Idle /\ todo' = {}

\* No client, no connection, or an answer that got lost: -3 or -5.  The
\* session the lost answer has opened stays open.
PrepareFails ==
    \/ /\ Faulty \/ ~\E p \in Devices : Reached(p)
       /\ Return
       /\ UNCHANGED <<pending, fault>>
    \/ /\ Faulty
       /\ Return
       /\ \E p \in Devices, S \in SUBSET call.paths \ {{}} :
            /\ Reached(p) /\ pending[p] = {}
            /\ pending' = [pending EXCEPT ![p] = S]
            /\ fault' = fault \cup {p}

\* An HTTP status, from a user who declines or a receiver that is busy; or
\* 204: a message that was read, or nothing wanted.
PrepareRefused(p) ==
    /\ Reached(p)
    /\ Return
    /\ UNCHANGED <<pending, fault>>

\* (mutant) files that cannot be read are not tried.
PrepareReadable(p, S) ==
    /\ Reached(p) /\ pending[p] = {}
    /\ pending' = [pending EXCEPT ![p] = S]
    /\ fault' = fault \ {p}
    /\ todo' = S \ Unreadable
    /\ call' = [call EXCEPT !.step = "upload", !.peer = p, !.paths = {}]

\* A session for the files that are wanted.
PrepareAccepted(p, S) ==
    /\ Reached(p) /\ pending[p] = {}
    /\ pending' = [pending EXCEPT ![p] = S]
    /\ fault' = fault \ {p}
    /\ todo' = S
    /\ call' = [call EXCEPT !.step = "upload", !.peer = p, !.paths = {}]

Prepare ==
    /\ call.step = "prepare"
    /\ \/ PrepareFails
       \/ \E p \in Devices :
            \/ PrepareRefused(p)
            \/ \E S \in SUBSET call.paths \ {{}} : PrepareAccepted(p, S)

Delivered(f) ==
    /\ f \notin Unreadable
    /\ Reached(call.peer) /\ f \in pending[call.peer]
    /\ pending' = [pending EXCEPT ![call.peer] = @ \ {f}]
    /\ todo' = todo \ {f}
    /\ UNCHANGED <<call, fault>>

\* The session that is open at the peer has had a failure.
Failed == IF pending[call.peer] = {} THEN fault ELSE fault \cup {call.peer}

\* An HTTP status, of the peer or of whoever has its address now, ends the
\* call; the session is not cancelled.
Refused(f) ==
    /\ \E p \in Devices : Reached(p)
    /\ Return
    /\ fault' = Failed
    /\ UNCHANGED pending

\* (mutant) an upload that failed is tried again.
LostRetried(f) ==
    /\ f \in Unreadable \/ Faulty \/ ~\E p \in Devices : Reached(p)
    /\ fault' = Failed
    /\ UNCHANGED <<call, todo, pending>>

\* Any other failure is passed over.
Lost(f) ==
    /\ f \in Unreadable \/ Faulty \/ ~\E p \in Devices : Reached(p)
    /\ fault' = Failed
    /\ todo' = todo \ {f}
    /\ UNCHANGED <<call, pending>>

\* The files in the order of the answer's map, which is none.
Upload ==
    /\ call.step = "upload"
    /\ \/ \E f \in todo : Delivered(f) \/ Refused(f) \/ Lost(f)
       \/ todo = {} /\ Return /\ UNCHANGED <<pending, fault>>

Call ==
    /\ Prepare \/ Upload
    /\ UNCHANGED events /\ UNCHANGED worldVars /\ UNCHANGED pageVars

Page == \/ RunPosted \/ Refresh
        \/ \E d \in Devices : Select(d)
        \/ \E paths \in SUBSET Paths \ {{}} : Send(paths)

Next == World \/ EventTask \/ Page \/ Call

Spec == Init /\ [][Next]_vars

\* The runtime runs the task and the call, the UI thread its jobs.  Call
\* includes the receiver: a user who never answers a request keeps the
\* UI thread waiting.
Fairness == WF_vars(EventTask) /\ WF_vars(RunPosted) /\ WF_vars(Call)

FairSpec == Spec /\ Fairness

(***************************************************************************)
(* Properties.                                                             *)
(***************************************************************************)
\* fs_send_files never cancels a session, so one that it leaves open keeps
\* the receiver from taking another sender's.  It leaves one open only after
\* an upload that failed or an answer that was lost: every file the receiver
\* wants is tried, in whatever order the answer lists them, and a receiver
\* that cancels meanwhile is not kept.
StrandedByFailureOnly ==
    \A d \in Devices : pending[d] # {} /\ d # call.peer => d \in fault

\* What the user is about to send goes to the address he sees: whatever
\* replaces the items, of a refresh or of an event, drops the selection.
SelectedIsListed ==
    selected # None => items[selected.device] = selected.channel

\* The UI thread comes back from a send: failures are passed over, files are
\* not tried twice, and the receiver answers.
CallReturns == ~UiFree ~> UiFree

\* README.md of the app: texts, files and folders are sent by one click to
\* the devices that were discovered.  A call that is over, and so shown as
\* sent, could at least reach a device, as long as none moves or is lost.
ChatWasOffered ==
    [][call.step = "prepare" /\ UiFree' => \E p \in Devices : Reached(p)]_vars

(***************************************************************************)
(* The inductive invariant.                                                *)
(***************************************************************************)
\* While a call runs, its session waits for files still to be tried, and for
\* others only after a failure; no call runs before there was a selection.
CallOwnsSession ==
    call.step = "upload" =>
        call.peer \in fault \/ pending[call.peer] \subseteq todo

IInv == StrandedByFailureOnly /\ SelectedIsListed /\ CallOwnsSession

\* The state is well typed, and the running call, its session and the
\* selection fit together.
Inv == TypeOK /\ IInv
=============================================================================
