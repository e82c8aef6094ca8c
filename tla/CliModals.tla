----------------------------- MODULE CliModals -----------------------------
(***************************************************************************)
(* What takes the keys and the terminal of the LocalSend CLI: the main     *)
(* screen, the device list and the file picker (app/devices.rs,            *)
(* app/sending.rs, app/status.rs, app/discovery.rs, device_list.rs,        *)
(* slots.rs, parts of app/mod.rs).  The App loop handles one key, event or *)
(* tick at a time; each is an action.  While the list is open, discovery   *)
(* goes on, and the tick rebuilds the rows under the cursor.               *)
(*                                                                         *)
(* Transfers appear as two flags (CliReceive and CliSend have them), the   *)
(* store of discovered devices as a set that other devices enter and leave.*)
(***************************************************************************)
EXTENDS CliScreen, Integers, Sequences, FiniteSets

CONSTANTS
    MaxFp,       \* other devices; 1..MaxFp are their fingerprints, in order
    MaxSlot,     \* hotkeys 1..MaxSlot (9 in the code)
    MaxFound     \* bound: discovery events on their way to the App

ASSUME BoundAssumption == MaxFp \in Nat /\ MaxSlot \in Nat /\ MaxFound \in Nat

Fps == 1..MaxFp

NoSlot == 0      \* seen after the hotkeys ran out
Unseen == -1     \* never seen
Hotkeys == 1..MaxSlot

VARIABLES
    running,     \* the event loop has not been left
    fileMode,    \* the CLI was started with --file
    ui,          \* Ui and the terminal, a record of CliScreen
    list,        \* App.device_list is some
    picker,      \* App.picker: what it is for
    rows,        \* DeviceList.rows, the devices only
    cursor,      \* DeviceList.list_state as a position in rows, 0: none
    paired,      \* the fingerprints in storage.paired
    store,       \* the fingerprints in the discovery store
    found,       \* discovery_rx: Discovered events
    slots,       \* Slots.assigned
    sending,     \* App.send is some
    receiving    \* App.receive is some

deviceVars   == <<paired, store, found, slots>>
listVars     == <<list, rows, cursor>>
transferVars == <<sending, receiving>>
vars == <<running, fileMode, ui, list, picker, rows, cursor, paired, store,
          found, slots, sending, receiving>>

Rows == [fp : Fps, paired : BOOLEAN, online : BOOLEAN]

ScreenOK ==
    /\ running   \in BOOLEAN
    /\ fileMode  \in BOOLEAN
    /\ ui        \in Screens
    /\ list      \in BOOLEAN
    /\ picker    \in {"none", "device", "share"}
    /\ sending   \in BOOLEAN
    /\ receiving \in BOOLEAN

TypeOK ==
    /\ ScreenOK
    /\ rows      \in Seq(Rows)
    /\ cursor    \in 0..Len(rows)
    /\ paired    \subseteq Fps
    /\ store     \subseteq Fps
    /\ found     \in Seq(Fps)
    /\ slots     \in [Fps -> Hotkeys \cup {NoSlot, Unseen}]

Modal == list \/ picker # "none"
Main  == running /\ ~Modal

(***************************************************************************)
(* The rows of the device list.                                            *)
(***************************************************************************)
\* The members of S in increasing order, each after those below it.
InOrder(S) ==
    [i \in 1..Cardinality(S) |-> CHOOSE f \in S : Cardinality({g \in S : g < f}) = i - 1]

\* device_rows: the paired devices, then the discovered ones that are not.
DeviceRows(pairs, known) ==
    LET fps == InOrder(pairs) \o InOrder(known \ pairs)
    IN [i \in DOMAIN fps |->
           [fp |-> fps[i], paired |-> fps[i] \in pairs, online |-> fps[i] \in known]]

\* The position of a device among some rows, 0 when it is not listed.
Position(rs, f) ==
    IF \E i \in DOMAIN rs : rs[i].fp = f THEN CHOOSE i \in DOMAIN rs : rs[i].fp = f ELSE 0

\* select_first_device
First(rs) == IF rs = <<>> THEN 0 ELSE 1

\* (mutant) the highlight stays on the same line of the list.
SetRowsInPlace(rs) ==
    /\ rows' = rs
    /\ cursor' = IF cursor \in DOMAIN rs THEN cursor ELSE First(rs)

\* set_rows: the highlight stays on its device while that is listed.
SetRows(rs) ==
    /\ rows' = rs
    /\ cursor' = IF cursor # 0 /\ Position(rs, rows[cursor].fp) # 0
                 THEN Position(rs, rows[cursor].fp)
                 ELSE First(rs)

NoList == list' = FALSE /\ rows' = <<>> /\ cursor' = 0

\* What is left on the terminal when a modal cannot be set up: an error
\* before the alternate screen is entered, or one after it.
Unopened(u) == {Log(u), Log([Enter(u) EXCEPT !.mishaps = @ \cup {"stranded"}])}

\* run up to the event loop: the banner, or with --file the device list.
Init ==
    /\ running   = TRUE
    /\ fileMode  \in BOOLEAN
    /\ paired    \in SUBSET Fps
    /\ store     = {}
    /\ found     = <<>>
    /\ slots     = [f \in Fps |-> Unseen]
    /\ picker    = "none"
    /\ sending   = FALSE
    /\ receiving = FALSE
    /\ list      \in {FALSE, fileMode}
    /\ rows      = IF list THEN DeviceRows(paired, store) ELSE <<>>
    /\ cursor    = First(rows)
    /\ ui \in CASE list                -> {Suspend(Enter(NewScreen))}
              [] ~list /\ fileMode    -> Unopened(NewScreen)
              [] ~fileMode            -> {Log(NewScreen)}

(***************************************************************************)
(* Opening and closing.                                                    *)
(***************************************************************************)
\* open_device_list
OpenList ==
    \/ /\ list' = TRUE
       /\ rows' = DeviceRows(paired, store) /\ cursor' = First(rows')
       /\ ui' = Suspend(Enter(ui))
    \/ ui' \in Unopened(ui) /\ UNCHANGED listVars

\* open_picker: over the list, the picker takes its alternate screen.
OpenPicker(target) ==
    IF target = "device" /\ sending
    THEN /\ ui' = Log(IF list THEN CloseModal(ui) ELSE ui)
         /\ NoList /\ UNCHANGED picker
    ELSE /\ NoList
         /\ \/ picker' = target /\ ui' = Suspend(Enter(ui))
            \/ /\ UNCHANGED picker
               /\ IF list THEN ui' = Log(CloseModal(ui)) ELSE ui' \in Unopened(ui)

\* start_send on the screen u, to a device that is known: refused while a
\* send is tracked, otherwise a send, or a reason or none why there is none.
StartSend(u, known) ==
    IF sending
    THEN ui' = Log(u) /\ UNCHANGED sending
    ELSE \/ known /\ sending' = TRUE /\ ui' = u
         \/ UNCHANGED sending /\ ui' \in {u, Log(u)}

\* What run does after the event loop.
Shutdown(u) == SetStatus(IF Modal THEN CloseModal(u) ELSE u, FALSE)

(***************************************************************************)
(* Keys on the main screen.                                                *)
(***************************************************************************)
PressD ==
    /\ Main
    /\ OpenList
    /\ UNCHANGED <<running, fileMode, picker>> /\ UNCHANGED deviceVars /\ UNCHANGED transferVars

\* start_picking
PressSlot ==
    /\ Main
    /\ \E slot \in Hotkeys :
         IF \E f \in store : slots[f] = slot
         THEN IF fileMode
              THEN StartSend(ui, TRUE) /\ UNCHANGED <<picker, receiving>> /\ UNCHANGED listVars
              ELSE OpenPicker("device") /\ UNCHANGED transferVars
         ELSE ui' = Log(ui) /\ UNCHANGED picker /\ UNCHANGED listVars /\ UNCHANGED transferVars
    /\ UNCHANGED <<running, fileMode>> /\ UNCHANGED deviceVars

\* W+S and W+R: the picker, or nothing but lines (CliWebLink has the rest).
PressWeb ==
    /\ Main
    /\ \/ ~fileMode /\ ~receiving /\ OpenPicker("share")
       \/ ui' = Log(ui) /\ UNCHANGED picker /\ UNCHANGED listVars
    /\ UNCHANGED <<running, fileMode>> /\ UNCHANGED deviceVars /\ UNCHANGED transferVars

\* Y, N, P with a prompt: P pairs a device that may be in the store or not.
PressAnswer ==
    /\ Main
    /\ paired' \in {paired} \cup {paired \cup {f} : f \in Fps}
    /\ ui' = Log(ui)
    /\ UNCHANGED <<running, fileMode, picker, store, found, slots>>
    /\ UNCHANGED listVars /\ UNCHANGED transferVars

\* Ctrl+C on the main screen: a receive ends, a send is asked to, a prompt is
\* declined; without any of them the program ends.
PressCtrlC ==
    /\ Main
    /\ \/ /\ receiving
          /\ ui' = SetStatus(Log(ui), sending) /\ receiving' = FALSE
          /\ UNCHANGED running
       \/ /\ ~receiving
          /\ ui' \in {Log(ui)} \cup (IF sending THEN {ui} ELSE {})
          /\ UNCHANGED <<running, receiving>>
       \/ /\ ~receiving /\ ~sending
          /\ running' = FALSE
          /\ ui' = Shutdown(ui)
          /\ UNCHANGED receiving
    /\ UNCHANGED <<fileMode, picker, sending>> /\ UNCHANGED listVars /\ UNCHANGED deviceVars

(***************************************************************************)
(* Keys in the device list.                                                *)
(***************************************************************************)
\* move_cursor, with Up and Down
ListMove ==
    /\ running /\ list /\ cursor # 0
    /\ \E delta \in {-1, 1} : cursor' = ((cursor - 1 + delta) % Len(rows)) + 1
    /\ UNCHANGED <<running, fileMode, ui, list, picker, rows>>
    /\ UNCHANGED deviceVars /\ UNCHANGED transferVars

\* Enter
ListSend ==
    /\ running /\ list /\ cursor # 0 /\ rows[cursor].online
    /\ LET known == rows[cursor].fp \in store
       IN \/ ~fileMode /\ known /\ OpenPicker("device") /\ UNCHANGED sending
          \/ /\ ~fileMode /\ ~known
             /\ NoList /\ ui' = CloseModal(ui) /\ UNCHANGED <<picker, sending>>
          \/ fileMode /\ NoList /\ StartSend(CloseModal(ui), known) /\ UNCHANGED picker
    /\ UNCHANGED <<running, fileMode, receiving>> /\ UNCHANGED deviceVars

\* (mutant) the list is not rebuilt.
ListPairQuietly ==
    /\ running /\ list /\ cursor # 0
    /\ LET f == rows[cursor].fp
       IN paired' = IF rows[cursor].paired THEN paired \ {f} ELSE paired \cup {f}
    /\ ui' = Log(ui)
    /\ UNCHANGED <<rows, cursor>>
    /\ UNCHANGED <<running, fileMode, list, picker, store, found, slots>>
    /\ UNCHANGED transferVars

\* P: pair and unpair
ListPair ==
    /\ running /\ list /\ cursor # 0
    /\ LET f == rows[cursor].fp
       IN \/ rows[cursor].paired /\ paired' = paired \ {f}
          \/ ~rows[cursor].paired /\ f \in store /\ paired' = paired \cup {f}
    /\ SetRows(DeviceRows(paired', store))
    /\ ui' = Log(ui)
    /\ UNCHANGED <<running, fileMode, list, picker, store, found, slots>>
    /\ UNCHANGED transferVars

\* Esc, D or Ctrl+C: with --file that is the end.
ListClosed ==
    /\ running /\ list
    /\ running' = ~fileMode
    /\ ui' = IF fileMode THEN SetStatus(CloseModal(ui), FALSE) ELSE CloseModal(ui)
    /\ NoList
    /\ UNCHANGED <<fileMode, picker>> /\ UNCHANGED deviceVars /\ UNCHANGED transferVars

(***************************************************************************)
(* Keys in the picker.                                                     *)
(***************************************************************************)
\* Enter on a selection: a send, or a share whose start logs.
Picked ==
    /\ running /\ picker # "none"
    /\ IF picker = "device"
       THEN StartSend(CloseModal(ui), TRUE)
       ELSE ui' = Log(CloseModal(ui)) /\ UNCHANGED sending
    /\ picker' = "none"
    /\ UNCHANGED <<running, fileMode, receiving>> /\ UNCHANGED listVars /\ UNCHANGED deviceVars

\* Esc or Ctrl+C
PickerCancelled ==
    /\ running /\ picker # "none"
    /\ picker' = "none"
    /\ ui' = CloseModal(ui)
    /\ UNCHANGED <<running, fileMode>> /\ UNCHANGED listVars
    /\ UNCHANGED deviceVars /\ UNCHANGED transferVars

(***************************************************************************)
(* Events and the tick.                                                    *)
(***************************************************************************)
\* Any event that logs, and a receive that starts.
Logged ==
    /\ running
    /\ ui' = Log(ui)
    /\ receiving' \in {receiving, TRUE}
    /\ UNCHANGED <<running, fileMode, picker, sending>>
    /\ UNCHANGED listVars /\ UNCHANGED deviceVars

\* finish_receive_if_done, an abort by the peer
ReceiveEnded ==
    /\ running /\ receiving
    /\ receiving' = FALSE
    /\ ui' = SetStatus(Log(ui), sending)
    /\ UNCHANGED <<running, fileMode, picker, sending>>
    /\ UNCHANGED listVars /\ UNCHANGED deviceVars

\* SendEnded: with --file that is the end.
SendEnded ==
    /\ running /\ sending
    /\ sending' = FALSE
    /\ LET u == SetStatus(ui, receiving)
       IN IF fileMode
          THEN running' = FALSE /\ ui' = Shutdown(u) /\ NoList /\ picker' = "none"
          ELSE UNCHANGED <<running, picker>> /\ ui' = u /\ UNCHANGED listVars
    /\ UNCHANGED <<fileMode, receiving>> /\ UNCHANGED deviceVars

Taken == {slots[g] : g \in Fps}

\* (mutant) every discovery assigns a hotkey.
AssignAgain(f) ==
    slots' = [slots EXCEPT ![f] =
        IF Hotkeys \subseteq Taken THEN NoSlot
        ELSE CHOOSE s \in Hotkeys \ Taken : \A t \in Hotkeys \ Taken : s <= t]

\* Slots::assign
Assign(f) ==
    slots' = [slots EXCEPT ![f] =
        IF @ # Unseen THEN @
        ELSE IF Hotkeys \subseteq Taken THEN NoSlot
        ELSE CHOOSE s \in Hotkeys \ Taken : \A t \in Hotkeys \ Taken : s <= t]

\* handle_discovery of Discovered; quiet while receiving via link.
HandleDiscovered ==
    /\ running /\ found # <<>>
    /\ Assign(Head(found))
    /\ found' = Tail(found)
    /\ ui' \in {ui, Log(ui)}
    /\ UNCHANGED <<running, fileMode, picker, paired, store>>
    /\ UNCHANGED listVars /\ UNCHANGED transferVars

Tick ==
    /\ running
    /\ IF list THEN SetRows(DeviceRows(paired, store)) /\ UNCHANGED <<list, ui>>
       ELSE /\ UNCHANGED listVars
            /\ IF picker = "none" THEN ui' = SetStatus(ui, sending \/ receiving)
               ELSE UNCHANGED ui
    /\ UNCHANGED <<running, fileMode, picker>> /\ UNCHANGED deviceVars /\ UNCHANGED transferVars

\* The store (external): a device new to it is announced, one may leave it.
Appear(f) ==
    /\ f \notin store /\ Len(found) < MaxFound
    /\ store' = store \cup {f}
    /\ found' = Append(found, f)
    /\ UNCHANGED <<running, fileMode, ui, picker, paired, slots>>
    /\ UNCHANGED listVars /\ UNCHANGED transferVars

Disappear(f) ==
    /\ f \in store
    /\ store' = store \ {f}
    /\ UNCHANGED <<running, fileMode, ui, picker, paired, found, slots>>
    /\ UNCHANGED listVars /\ UNCHANGED transferVars

Key   == \/ PressD \/ PressSlot \/ PressWeb \/ PressAnswer \/ PressCtrlC
         \/ ListMove \/ ListSend \/ ListPair \/ ListClosed
         \/ Picked \/ PickerCancelled
Event == \/ Logged \/ ReceiveEnded \/ SendEnded \/ HandleDiscovered \/ Tick
World == \E f \in Fps : Appear(f) \/ Disappear(f)

Next == Key \/ Event \/ World

Spec == Init /\ [][Next]_vars

(***************************************************************************)
(* Properties.                                                             *)
(***************************************************************************)
\* The log is held back exactly while a modal has the terminal, one modal has
\* it at a time, and, but for a modal that could not be set up, the
\* alternate screen is shown just then: enter and leave match on every path,
\* the handover from the list to the picker included (util.rs, sending.rs).
ScreenMatches ==
    /\ ui.suspended <=> Modal
    /\ ~(list /\ picker # "none")
    /\ Modal => ui.alternate
    /\ ui.alternate => Modal \/ "stranded" \in ui.mishaps

\* However the program ends, no line is held back for ever, and the terminal
\* is left on the main screen with the status line gone, unless a mishap of
\* the two kinds has happened.
ShutdownRestores ==
    ~running =>
        /\ ~ui.buffered /\ ~ui.suspended
        /\ ui.alternate => "stranded" \in ui.mishaps
        /\ ui.line = "status" => ui.mishaps # {}

\* "An append-only log with a single in-place updated status line at the
\* bottom" (ui.rs): no status text becomes part of the log and no line is
\* lost to the alternate screen, as long as no modal is opened over a status
\* line or left half open.
LogStaysClean == ~ui.spoiled

\* P does what the row under the cursor says, for no other key and no event
\* changes the pairings while the list is open; and no paired device is
\* missing from the list.
RowsTrue ==
    list =>
        /\ \A i \in DOMAIN rows : rows[i].paired <=> rows[i].fp \in paired
        /\ \A f \in paired : \E i \in DOMAIN rows : rows[i].fp = f
        /\ cursor = 0 <=> rows = <<>>

\* Rebuilding the rows under the cursor never moves the highlight to another
\* device while its own is still listed: Enter and P hit the device the user
\* chose, also when a tick came in between.
HighlightKept ==
    [][list /\ list' /\ rows' # rows /\ cursor # 0 /\ Position(rows', rows[cursor].fp) # 0
         => rows'[cursor'].fp = rows[cursor].fp]_vars

\* "Slots are never released, so a hotkey means the same device for the whole
\* run" (slots.rs), whatever enters and leaves the store; and no two devices
\* share one.
HotkeyMeansDevice ==
    [][\A f \in Fps :
         /\ slots[f] # Unseen => slots'[f] = slots[f]
         /\ \A g \in Fps \ {f} : slots'[f] \in Hotkeys => slots'[g] # slots'[f]]_vars

(***************************************************************************)
(* The inductive invariant of the terminal.                                *)
(***************************************************************************)
\* A line that waits is a line of a suspended log; a drawn status line that
\* the log does not know of was covered by a modal.
LineTracked ==
    /\ ui.buffered => ui.suspended
    /\ ui.mishaps = {} => (ui.line = "status" => ui.status /\ ~ui.suspended)

IInv == ScreenOK /\ ScreenMatches /\ ShutdownRestores /\ LogStaysClean /\ LineTracked

\* The state is well typed, the terminal is on the screen its owner draws
\* on, and the log is held back exactly while a modal is open.
Inv == TypeOK /\ IInv
=============================================================================
