# Verification of FluentSend and the LocalSend parts it contains

TLA+ models of the concurrent parts of this repository, TLC configurations that
check them on small instances, and TLAPS proofs of their safety for instances
of any size. Paths below are relative to `src/` of the repository snapshot
(`localsend/…` is the LocalSend fork,
`src/FluentSend…` the FluentSend app; `receive.rs`, `app/mod.rs` and the like are
in `localsend/cli/src`).

## 1. Inventory

| Component | State it keeps | Operations | Talks to | Model |
|---|---|---|---|---|
| CLI, receiving (`localsend/cli/src/app/receive.rs`) | `pending`, `receive` (in-progress files, counts, `ended`), paired set | server events, file results, Y / N / P, Ctrl+C, pair / unpair | HTTP server (FIFO + oneshots), one forwarding task per upload | `CliReceive` |
| CLI, sending (`app/sending.rs`, `send_task.rs`, parts of `app/mod.rs`, `app/devices.rs`) | `send`, its session id, token, `by_peer`, picker and list | slot keys, list, picker, Ctrl+C, `SendSessionStarted`, `SendEnded`, `CancelReceived`; the upload loop | events channel, HTTP to the receiver | `CliSend` |
| CLI, web links (`app/web_link.rs`) | `web`, the shared files, which server listens | W+S, W+R, picker, restart, `FileDownload` | HTTP server, `pending` / `receive` | `CliWebLink` |
| CLI, event loop (`app/mod.rs`) | all of the above | `select!` over keys, server, web, discovery, tick; shutdown | everything in the CLI | spread over the three and `CliModals` |
| CLI, discovery and slots (`app/discovery.rs`, `slots.rs`) | hotkeys | discovered, updated | discovery library and its store | `CliModals`, `CliStorage!Update` |
| CLI, storage (`storage/*.rs`) | config, identity and paired files; their copies in memory | load, insert, update, remove, save by temporary file and rename | file system, other processes of the CLI | `CliStorage` |
| CLI, terminal (`ui.rs`, `util.rs`, `device_list.rs`, `app/devices.rs`, `app/status.rs`, `picker.rs`) | log buffer, status line, rows, highlight, open modal | log, suspend / resume, status, open / close / hand over a modal, tick | every handler of the `App` | `CliScreen`, `CliModals`; browsing in the picker is not modelled |
| Signaling server (`localsend/server/src`) | `tx_map` and `request_count_map` per IP group, a channel per connection | connect, Join, Hello, Update, Offer / Answer, Left, hourly reset | three tasks per websocket, other peers' channels | `Signaling` |
| App, signaling client (`signaling_provider.dart`, `nearby_devices_provider.dart`) | signaling devices | Hello, Join, Update, Left | signaling server | `Signaling!Applied` |
| App, receive controller, send provider, history, settings (Dart) | server state, sessions, history | HTTP handlers, awaits between read and write | isolate, storage | – |
| Native shim, server (`src/FluentSend.Core.Native/src/server.rs`, `json_util.rs`) | `pending_decisions`, `pending_file_targets` | event task, `fs_server_respond`, `fs_server_file_target` | HTTP server, host callback on another thread | `NativeServer` |
| Native shim, sending and discovery (`send.rs`, `discovery.rs`) | the running call, the event task | `fs_send_files`, events, `fs_discovery_devices`, start / stop | HTTP, discovery library, host callback | `NativeHome`, but for start / stop |
| FluentSend UI (C#) | home page: list, selection, chat; overlay; session | refresh, select, send; `OnServerEvent`, overlay answers | native shim | `NativeHome`, `NativeServer!OnServerEvent` |
| Build scripts | – | – | – | – |

The HTTP server and client (the crate `localsend/packages/core`, on which CLI,
signaling server and shim depend) are not in this repository. They are external: each model has `Srv…`, `Core…` or `Peer…`
actions that say what the code in the repository expects of them ("one session
at a time", an abort event when the sender disconnects, and so on), marked
`external` in the map or tied to the lines that rely on it.

**What is hard here.** Two FIFO channels and free-running tasks feed one `App`,
so results, session ends, aborts, keys and cancellations arrive in any relative
order (CLI). Cancellations race acceptances, and both ends can cancel at once.
A server restart pulls a server away under requests that were already queued.
The signaling server sends outside its lock into bounded channels that nobody
drains before the greeting. The shim's host answers while the event task is
between registering and telling. Several processes of the CLI share a directory
and can die between any two calls of the file system. A dozen handlers take and
give back the terminal while transfers log, and a tick replaces the rows under
the user's finger. None of this is exercised by the repository's
tests. `PROJECT.json` lists every such place with its line under `hazards`.

**What makes each component correct.**
Receiving: a prompt is answerable or about to be withdrawn and is never
overwritten; the user sees, or has cancelled, every open session; the summary
counts what happened; one closing line per session. Sending: reports and
cancellations reach the send they are about; no session is left open at a
receiver without need; every send ends. Web links: what listens is what the
link says; a browser gets the file its page named or nothing. Signaling: nobody is
missed, limits hold, leaving is announced. Shim: no answer slot is lost, the
host hears of everything, a receiver's session is not left open without need.
Storage: one identity for good, a paired file that is always whole, and no
pairing lost but the one that could not be saved. Terminal: lines are held back
just while a modal is open, the log is append-only, and a row, the highlight and
a hotkey go on meaning the same device.

## 2. Modules

### `CliReceive` (refines `ReceivePromise`)
`pending`, `receive`, `paired` and `web` are the fields of `App`. `serverQ` is
`server_rx`. `results` holds the per-file outcomes on their way from the
forwarding tasks; as the tasks are independent it is a set.
`decision` is the oneshot of a request (`Answerable` = its receiver is still
there), `up` and `tries` are the upload requests, `cancelling` the tasks
spawned by Ctrl+C, and `log[s]` is the one line of wording that matters: what a
session was closed with and its counts. There is one action per event variant
and key; `FinishIfDone` is `finish_receive_if_done` and is part of the two
handlers that call it. A retried upload has a higher `try` but, as in the code,
the same key in `inProgress`. `ReceivePromise` is the abstract specification:
a request is unseen, prompted, receiving, ending, over; one question and one
running transfer at a time.

Abstractions: `web` is constant during a run (switching is `CliWebLink`);
a request that is accepted is accepted with all its files; the paired set is in
memory; paths, sizes and progress are left out.

### `CliSend`
`App.send` and its session id, the token and `by_peer` of each send, `task[t]`
the place in `run_send`, `left[t]` the files still to upload, `events` the
channel on which the task reports. Keys travel on that channel as well; since a
key can be pressed at any moment, an action per key stands for its handling.
`screen` says what takes the keys. The receiver is `peer[t]` (external), with
`reply[t]` its answer on the way back and `cancels` its cancel requests to our
server. `lost` records whether a message was lost, for `OpenOnlyWithdrawn`.
An answer `"unknown"` accepts, but names an id that was not offered. `Prepared` lets
it pass as line 160 of `send_task.rs` does, and `Panics` is what comes of it when
the files are sorted (179; with a single id, when it is read, 186): the task is
`"dead"`, and no step of it follows.
`receiving` is `CliReceive` in one bit: Ctrl+C also looks at it.

Abstractions: what is picked; a receiver is assumed to accept at least one file
when it accepts; progress reports and log lines; the picker of W+S, which takes
the keys in the same way (`CliWebLink` has it).

### `CliWebLink`
`server` is what listens and `gen` which start it came from. What is shared is
known in three places, as pairs of an id and a file: `page` (the configuration the
server was started with), `paths` (of `App.web`) and `downloads` (events in
`web_rx`). The ids are opaque: `Listed` (`collect_files`) takes new ones from the
counter `fresh`, which stands for `Uuid::new_v4`, and `HandleFileDownload` looks an
id up in `paths`, whichever share these are of. A handler of `App`, with the restart it awaits,
is one action, for the loop takes the next event only afterwards. `RestartPlain`
contains the fallback to the encrypted server when the plain one fails to
start. The old server's requests live on in the App (`born[r] # gen`), which is
what makes restarts interesting. `served` is a history variable. A stopped server
that still finishes a request needs no action: its event is one that is handled
late.

### `Signaling`
One IP group. `phase[c]` is where `handle_socket` is, `todo[c]` whom its Join
or Left loop still has to reach, `hello[c]` the peers collected under the lock,
`chan[c]` the bounded channel, `outbox[c]` what `recv_task` is sending. `Send`
waits for room unless the receiver is dropped, as `tx.send(..).await` does.
`RecvEnded`, `SendFailed` and `AbortRecv` are the `select!` that ends a
connection; the abort is asked for and not waited for, hence an action of its
own. `view[c]` is what the messages make of the app's list of devices.
`overtaken` records the pairs for which a Left or Update got ahead of the Hello
or Left it contradicts. The code sends outside the lock, so this can happen,
and the client cannot tell; `ViewExact` is stated for all other pairs and says
that there is no further way to be wrong.

Abstractions: the loop over the peers visits a `HashMap`, in any order; groups
share only the locks; a refused connection is sent one line and closed.

### `NativeServer`
`decisions` and `targets` are the two maps of `ServerRegistry`; `held` is the
event between its registration (`Take`) and the callback (`Emit`), so that the
host's threads can answer in between. `targets[s][f]` is the try the registered
sender belongs to (0: none), which makes `HashMap::insert` over an earlier try
visible. `OnServerEvent` is `MainViewModel.OnServerEvent`.

Not in the model: starting, stopping and freeing the handle (the server stays
up), the web download events, and the events that are only passed on (`register`,
`cancel_received`, `listener_failed`).

### `CliStorage` (implements `AtomicStore`)
The directory and every process that uses it. `idFile`, `disk` and `temp` are
`identity.pem`, `paired-v2.json` and its `.tmp`; a file is missing, empty, torn,
of a newer version, or whole. `devices[p]` is `PairedDevices.file.devices`,
`identity[p]` the identity loaded or generated, `open[p]` the file that
`fs::write` has open, which moves when another process renames it. Every call of
the file system is an action (`OpenTemp`, `WriteTemp`, `RenameTemp` are `save`;
`CreateIdentity`, `WriteIdentity` are `Identity::save`), each may fail, and
`Die` may come between any two. `onePort` says whether the processes are given
the same port: then only one of them gets past `Listen`, although all load.
`AtomicStore` is the abstract specification: a file that is replaced in one step
by a copy that was opened from it. `dirty` and `stale` are history variables.

Abstractions: the Unix build; a process crash, not a loss of power (the code does not
sync); what is kept of a device is a value; config.toml only as far as it can end a
start (a template cut short is still a comment). The user deletes a broken
`identity.pem` only as the message asks, when no process is left.

### `CliScreen`, `CliModals`
`CliScreen` is `Ui` and the terminal as operators on a record: a handler is
their composition, e.g. `Log(CloseModal(ui))`. Of the main screen only the
cursor's line is kept. What would be seen as damage is recorded in `spoiled`: a
status text that becomes part of the log, or a line on the alternate screen. The
two known ways to get there are in `mishaps` and excluded from the properties,
which say that there is no third: a modal opened over a drawn status line
("covered": `resume` prints the held lines behind it), and a modal whose
`Terminal::new` fails after the alternate screen was entered ("stranded").
`CliModals` has one action per key on the main screen, in the list and in the
picker, per event that logs, and for the tick. `rows` and `cursor` are
`DeviceList.rows` without headers and `list_state`; `slots` is
`Slots.assigned`; `found` the discovery events under way.

Abstractions: transfers are two flags that events set and clear; `start_send`
may or may not find an address and files; the picker is open or closed; a status
text differs from the one before; discovered devices are listed in the order of their
fingerprints (the paired ones are: a `BTreeMap`), whichever the library returns.

### `NativeHome`
`items` is `_byFingerprint`, which fills the list, `selected` the item that is
selected with the address it had then, `call` the running `fs_send_files` (the UI
thread does nothing else meanwhile), `todo` the files of its answer not tried
yet. `where`, `store` and `pending[d]` are external: where a device listens, what
the library knows of it, and the files a session that is open there still waits
for. `Reached` is `LsHttpClient` with the fingerprint it is pinned to. `Faulty`
switches devices that move and leave, and lost requests, on and off.
`RefreshDevices` clears the list, and with it the selection that is bound to it.

Abstractions: starting, stopping and freeing handles; malformed JSON (-1, -2);
the PIN; announcing has no effect here. A receiver's answer names offered files
only: `send.rs:169-177` skips an id it does not know, where the CLI panics.

### Proofs and instances
`*_proofs.tla` holds the theorems of a module, `MC*.tla` its instance for TLC
(names of model values and the symmetry set). Operators marked `(mutant)` are
no part of a specification: each is a plausible mistake in the operator that
follows it, and `PROJECT.json` says which property notices it.

## 3. Runs

| Run | Specification and bounds | What it shows |
|---|---|---|
| `receive_safety` | 2 sessions, 2 files, 1 sender, queue of 3, no web link or "receive via link", 1 try per file | prompt, screen and server agree, counts are right, one closing line, the inductive invariant |
| `receive_live` | fair; 1 file with 2 tries, senders that vanish after our answer, "receive via link" | refinement of `ReceivePromise`; ended sessions leave the screen; unseen sessions are ended |
| `send` | fair; 2 sends, up to 2 files, channel of 2, both modes | reports and cancellations hit the right send; cancelled and accepted sends end, but for one whose task panics; the inductive invariant |
| `signaling_safety` | 3 connections, channel of 2, limit 3, 1 request an hour, 1 message | nobody is missed, views exact at rest, a jam is for ever, the inductive invariant |
| `signaling_live` | fair; 3 connections, limit 2, no messages | the limit; greeting and leaving end but for a jam |
| `weblink` | 5 starts, 2 requests, 2 files, shares of up to 2 | listener and link agree, a late download gets the right file or none |
| `storage` | 2 processes with one or two ports, 2 devices with 2 states each, 2 identities | one identity; with one port the paired file is whole, is what memory has but for unsaved changes, and behaves as `AtomicStore` |
| `modals` | 2 devices, 1 hotkey, 2 events under way, both modes | terminal and log match the open modal on every path; rows are true; highlight and hotkeys stay on their device |
| `native` | fair; 2 sessions of 2 files, queue of 3, 2 tries | no answer slot is lost, a fast host is understood, every request is told |
| `home` | fair; 2 devices, 1 HTTP and 1 HTTPS address, a readable and an unreadable path, channel of 1, faults | sessions are left open only by failures; every send returns |
| `native_shown` | fair; 1 file, queue of 2 | *violated*: no request is ever shown |
| `home_sent` | as `home`, no faults | *violated*: an HTTPS device is never offered anything |

`Inv` of a module is its type invariant and its inductive invariants: `IInv`, and
what further properties need beyond it (`OneAtATime` and, with one try per file,
`CountInv` in `CliReceive`; `TransferIsSend` in `CliSend`; `ViewInv` in `Signaling`).
So TLC checks on an instance every invariant the proofs are by induction over, but
for the rows of `CliModals`, whose invariant is `RowsTrue` and the types.

**Why the bounds are enough for the question asked.** The interference between
sessions is between one and the next (the server holds one at a time), so two
sessions show replaced prompts, late results and replaced summaries. Two files
tell "the last" from "not the last", and two tries a retry from its predecessor.
Signaling needs three connections: one that joins, one that leaves and one that
is told. A channel of two is filled by two messages as the real one is by four.
Five starts let a link be switched on, off and on again, or one of the switches
fail and fall back; a share of two files next to one of one tells ids from places.
A queue
of three holds the end of one session and the beginning of the next. Two
processes are one that saves and one that starts or saves at the same time; two
devices tell the one that is changed from the one that must not be. Two devices
and one hotkey give a highlight a row to jump to and run out of hotkeys. In
`home` the second device can take over the first one's address.
`receive_safety` and `receive_live` differ in `LateAbort`, because
`ReceiveTracksServer` can only be promised while senders do not vanish between
our answer and its arrival; the refinement holds either way.

**Deadlock.** `CliReceive` is checked for deadlock, with `Terminated` as the
state in which every session is used up, and `NativeHome`, whose page can always
be refreshed, as it is. The other instances really stop: a program quits, a
newer paired file keeps every process from starting, connections are all gone, or
the bounds on starts, requests and tries are used up; their cfgs switch the
check off.

**Fairness.** Only weak fairness, only of what the tokio runtime polls: the
event loop, spawned tasks, the shim's event task. Nothing is assumed of users,
of senders, or of a receiver that is asked and does not answer, or names what it
was not offered. Two assumptions
go beyond the scheduler. (1) An upload and the cancel request end in a response
or an error. The code sets no timeout for them (`send_task.rs:197,225`), so
this rests on TCP and the other side; without it a send can hang. (2) In
`signaling_live` a client that has not closed its websocket reads it; the server
has no write timeout either.
`SrvFileDone` (an upload being written comes to an end) is of the same kind as
(1), and so is `Call` of `NativeHome`: `fs_send_files` has no timeout either, and
a receiver whose user never answers keeps the UI thread of the sender waiting.
`CliStorage` and `CliModals` assume no fairness: their properties are safety.
`select!` chooses among ready branches at random, so weak fairness for each
branch is a fair reading.

## 4. Disagreements between the code and its documentation

Shown by runs:

1. `native_shown`: the receive popup of `README.md:44`. The view model waits for
   `receive-request`, the shim emits `prepare_upload`.
2. `home_sent`: "一键发送文本/文件/文件夹/剪贴板" of `README.md:30`. For HTTPS the shim
   pins its client to `config.fingerprint` (`send.rs:76`), where the host puts its
   own (`FluentSendSession.cs:92,135`); the CLI pins to the device's
   (`send_task.rs:91-98`). The send fails, the return code is dropped and the chat
   shows the message as sent (`HomePageViewModel.cs:114-115`).

Met while modelling; each is a behaviour of the models, which the properties
leave room for:

3. "print the summary only once the last in-flight file has reported its
   outcome" (`receive.rs:212-214`). A retried file shares its `in_progress` entry
   with the first try, whose late result removes it.
4. "The summary is deferred until the in-flight per-file results have all
   arrived" (`receive.rs:52-53`). It is dropped when the next request is accepted
   before that.
5. "Returns `true` (quit) only when there was nothing to cancel"
   (`app/mod.rs:337-338`). In `--file` mode the device list quits first, also over
   a running transfer.
6. "not while a receive is active (the server would restart)" (`web_link.rs:53`).
   The check is made when the picker opens and not when it closes, and switching
   a link off makes none.
7. "Write-then-rename so a crash cannot leave a truncated file" (`paired.rs:181`).
   Processes with different ports share the temporary file: one may rename what
   another has just truncated, and a crash then leaves that. `FileWhole` is
   stated for one port. With any ports, a process that loaded before another's
   save writes an older map back (`stale` in `MemoryOnDisk`).
8. "An append-only log with a single in-place updated status line" (`ui.rs:37`).
   A modal opened during a transfer leaves the status line on the main screen, and
   the lines flushed by `resume` are printed behind it (`ui.rs:69-76`).
9. "Must be called exactly once per enter" (`util.rs:19`). `DeviceList::open` and
   `Picker::open` return on a failed `Terminal::new` without leaving the alternate
   screen.
10. "keeping the highlight on the same device where possible"
    (`device_list.rs:96-97`) holds; but when P unpairs a device that is offline, its
    row goes and the highlight jumps to the first device, where a second P acts.
11. Automatic discovery (`README.md:30,40`): the shim emits `discovered` and
    `updated` (`json_util.rs:78-92`), the host waits for `seen` and `left`
    (`FluentSendSession.cs:145-147`), so the list changes only on a refresh.

12. "Always ends by emitting `[AppEvent::SendEnded]`" (`send_task.rs:47`). Lines 179,
    186 and 187 index `files` and `paths` with ids of the receiver's answer, although
    160 expects that some are unknown. One that was not offered panics the spawned
    task, whose `JoinHandle` is dropped: no `SendEnded`, `App.send` stays `Some`, no
    other send is started, Ctrl+C on the main screen does not quit, and the session
    stays open at the receiver. It takes a receiver at fault. `CancelEnds` and
    `UploadEnds` except a send whose task is dead, and nothing else; that the
    exception is for ever is the theorem `PanicIsForever`.

The jam of `Signaling` contradicts no document; it is stated by `JamIsForever`
and is the one exception in `AdmittedIsGreeted` and `ClosedIsForgotten`: four
messages in the channel of a connection that is still being greeted, and the
greeting waits for ever, with everybody who sends to it.

## 5. Proofs

All theorems hold for every value of the constants that meets the named
`ASSUME`s (`None` is no session, capacities are positive, limits are naturals, the
files of a request and the connections of a group are finitely many). One
theorem has a hypothesis of its own: `SummaryIsTrue`, below. In every module the
theorem `InvariantHolds`, or `InductiveInvariant`, is `Inv` for all reachable
states. Every invariant, every action property and both refinements that the passing
runs check are proved.

* `CliReceive_proofs`: types, then `IInv`. That prompts are live and never
  replaced is not inductive: it depends on the *order* of the queue. `IInv` adds
  that queued requests are separated by the abort of the earlier one
  (`RequestsSeparated`), that the abort of the prompt on the screen precedes any
  request (`PromptWithdrawnFirst`), that a queued request is unanswered and
  queued once, and that the server has one busy session. For visibility it adds
  that what is shown or cancelled was accepted (`AcceptedOnly`) and the moment
  between our answer and its arrival (`AcceptedIsVisible`). From it:
  `PromptIsLive`, `PromptNeverReplaced`, `ActiveIsVisible`,
  `ReceiveTracksServer`, `ClosedOnce`.
  - `PromiseIsKept` is the refinement of `ReceivePromise`. `IInv` says nothing of
    a prompt that was answered already, or beside an open session, so `OneAtATime`
    comes first: a prompt is undecided, nobody else is asked while an accepted
    session is open, and its end is heard before the next request. Then for each
    action: which stages it leaves alone (`SameStage`), and the one step of the
    promise, or the stutter, for the session it is about.
  - `SummaryIsTrue` (`SummaryCountsTrue`) is by induction over `CountInv`: an upload
    is queued, written or reported, one at a time; its report is true; it is queued
    ahead of the end of its session; what the screen has in progress is what it has
    not counted; a printed summary is final. Its hypothesis is that no file is
    sent twice within a session (`MaxAttempts <= 1`). That is where the property is
    true: with retries the counts go wrong, as item 3 of section 4 says.
* `CliSend_proofs`: types need `LeftToUpload`. `IInv` says that an unfinished
  task, or one with reports queued, is the tracked send and that `SendEnded` is
  its last report; `OpenIsExpected` says where a session may still be open, by
  phase of the task. From it four of the safety properties. `OneTransferOnly` needs
  that with `--file` the transfer that was started stays the tracked one
  (`TransferIsSend`), for its end is the end of the program. `PanicIsForever`
  (`DeadIsForever`) is about the exception to `CancelEnds`: a dead task's send is
  the tracked one, so no report in the channel is a `SendEnded` that ends it.
* `CliWebLink_proofs`: `IInv` needs that the picker for files is open only
  without a link; from it the listener and `OneLinkAtATime`. `SentAsListed` is not
  inductive, for the lookup does not say of which share an id is. It needs that ids
  to come are known nowhere (`IdsAreFresh`) and that an id stands for one file in the
  page, in `App.web` and in every waiting event (`OneFileAnId`), over all shares.
* `Signaling_proofs`: `GroupLimit` from types alone, by cardinality of finite
  sets. `NobodyMissed` needs who is in the map by phase, that a Left in a
  channel is of a connection that has left, and that `recv_task` sends none.
  `JamIsForever` as an action property. `ViewExact` is about states at rest and
  needs `ViewInv` about all others: `LastWord` is the last message in a client's
  channel that says anything of a peer, or what the client sees already, and
  `HeardInv` says that it is the truth unless word is still to be queued
  (`Pending`) or came out of order (`overtaken`). It leans on what is queued being
  the latest (`OutboxLatest`), on newcomers being unheard of (`Fresh`), on Joins
  reaching only those who were there first (`JoinsLater`), and on leaving being
  announced to all (`GoneTold`).
* `NativeServer_proofs`: `IInv` says that uploads of a file are queued in the
  order of their tries and behind what is registered (`InOrder`), so that a
  replaced sender is always an older one.
* `CliStorage_proofs`: `OneIdentity` needs that at most one process is between
  `create_new` and `write_all` (`OneCreator`). The paired file needs that with one
  port one process is up (`OneUp`), that the temporary file is then its own and
  holds what it wrote (`OwnTemp`), and that nobody works over a newer file
  (`NotNewer`). `FileIsAtomic` is the whole refinement: initial states, and a step
  of `AtomicStore` or a stutter for every action.
* `CliModals_proofs`: the terminal's `IInv`, with what the log knows of the line
  under the cursor (`LineTracked`); each operator of `CliScreen` preserves the part
  of it a handler needs, and the handlers compose them. `HighlightKept` and
  `HotkeyMeansDevice` are action properties; the latter needs the least free
  hotkey, from well-foundedness of the naturals. `RowsTrue` needs that the rows
  miss no device: the ranks of the members of a finite set are an injection into
  as many numbers, hence onto them (`RanksAreOnto`, `OrderedRows`).
* `NativeHome_proofs`: `StrandedByFailureOnly` needs what the running call owes
  its session (`CallOwnsSession`): until a failure the session waits only for
  files still to be tried.

Only model-checked: liveness (`EndedLeavesScreen`, `UnseenIsEnded`, `CancelEnds`,
`UploadEnds`, `AdmittedIsGreeted`, `ClosedIsForgotten`, `EveryRequestTold`,
`CallReturns`), as fairness and `ENABLED` are beyond the prover; and the two
disagreements of section 4, which are counterexamples.

## 6. Not modelled, and the plan

Not modelled for good: drawing, formatting, translations, generated code,
platform projects, packaging, certificates and settings that are single
assignments. The external HTTP and discovery libraries are modelled only as far
as they are used. Browsing in the picker (`picker.rs`) is sequential and reads
the file system; what it means for the rest is modelled.

Not modelled yet, in the order in which it would add most:

1. The LocalSend app's receive controller, send provider and history (Dart):
   handlers that await between reading and writing the provider's state.
2. `Transfer`: `CliSend` and `CliReceive` of two devices composed, replacing the
   `Peer…` and `Srv…` actions of each by the other's.
3. Handles of the native shim: `ServerHandle.Dispose` hands a server's handle to
   `fs_discovery_stop`, which does not wait for the event task before the callback
   is freed (`DisposeAsync` of the session, which would do so, is called nowhere).
4. The overlay's answers and the history entries they write, once requests are
   shown at all.
5. The counts of the summary with retries: what remains true of them, and the
   invariant for it.
