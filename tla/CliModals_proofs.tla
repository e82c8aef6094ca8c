-------------------------- MODULE CliModals_proofs --------------------------
(***************************************************************************)
(* Proofs about CliModals: the terminal and the log, for any order of      *)
(* keys, events and ticks; the highlight and the hotkeys, for any number   *)
(* of devices.                                                             *)
(***************************************************************************)
EXTENDS CliModals, FiniteSetTheorems, WellFoundedInduction, TLAPS

\* A screen between two handlers: what waits, waits for a modal; the status
\* line is where the log thinks it is; nothing is spoiled.
Sound(u) ==
    /\ u \in Screens
    /\ u.buffered => u.suspended
    /\ u.mishaps = {} => (u.line = "status" => u.status /\ ~u.suspended)
    /\ u.alternate => u.suspended \/ "stranded" \in u.mishaps
    /\ ~u.spoiled

\* What a handler's lines do to a screen: they keep it sound and leave who
\* has the terminal alone.
Same(u, v) ==
    v.suspended = u.suspended /\ v.alternate = u.alternate /\ v.mishaps = u.mishaps

\* A screen in the middle of a handler: the cursor has its line to itself.
Clear(u) ==
    /\ u \in Screens
    /\ u.buffered => u.suspended
    /\ u.mishaps = {} => u.line = "blank"
    /\ u.alternate => u.suspended \/ "stranded" \in u.mishaps
    /\ ~u.spoiled

LEMMA ClearedIsClear ==
    ASSUME NEW u, Sound(u)
    PROVE  Clear(Cleared(u)) /\ Same(u, Cleared(u)) /\ Cleared(u).status = u.status
<1>1. CASE ~u.suspended /\ u.status /\ ~u.alternate
  <2>1. Cleared(u) = [u EXCEPT !.line = "blank"]
    BY <1>1 DEF Cleared
  <2> QED BY <2>1 DEF Sound, Same, Clear, Screens
<1>2. CASE ~(~u.suspended /\ u.status /\ ~u.alternate)
  <2>1. Cleared(u) = u
    BY <1>2 DEF Cleared
  <2>2. u.mishaps = {} => u.line = "blank"
    BY <1>2 DEF Sound, Screens
  <2> QED BY <2>1, <2>2 DEF Sound, Same, Clear
<1> QED BY <1>1, <1>2

\* Nothing is spoiled by text printed on a line of its own.
LEMMA PrintedOnClear ==
    ASSUME NEW u, Clear(u), ~u.suspended, NEW next \in {"blank", "status"}
    PROVE  /\ Printed(u, next) \in Screens /\ Same(u, Printed(u, next))
           /\ ~Printed(u, next).spoiled
           /\ Printed(u, next).status = u.status
           /\ Printed(u, next).buffered = u.buffered
           /\ u.mishaps = {} => Printed(u, next).line = next
<1>1. u.mishaps = {} => ~u.alternate /\ u.line = "blank"
  BY DEF Clear
<1>2. Printed(u, next) =
        [u EXCEPT !.line = IF u.alternate THEN u.line ELSE next, !.spoiled = FALSE]
  BY <1>1 DEF Printed, Clear, Screens
<1> QED BY ZenonT(40), <1>1, <1>2 DEF Clear, Same, Screens

LEMMA RedrawnIsSound ==
    ASSUME NEW u, Clear(u)
    PROVE  Sound(Redrawn(u)) /\ Same(u, Redrawn(u)) /\ Redrawn(u).status = u.status
<1>1. CASE ~u.suspended /\ u.status
  <2>1. Redrawn(u) = Printed(u, "status")
    BY <1>1 DEF Redrawn
  <2>2. Sound(Printed(u, "status"))
    BY <1>1, PrintedOnClear DEF Clear, Sound, Same
  <2> QED BY ZenonT(60), <1>1, <2>1, <2>2, PrintedOnClear
<1>2. CASE ~(~u.suspended /\ u.status)
  BY <1>2 DEF Redrawn, Sound, Same, Clear
<1> QED BY <1>1, <1>2

LEMMA LogIsSound ==
    ASSUME NEW u, Sound(u)
    PROVE  Sound(Log(u)) /\ Same(u, Log(u))
<1> DEFINE c == Cleared(u)
           p == IF c.suspended THEN [c EXCEPT !.buffered = TRUE] ELSE Printed(c, "blank")
<1>1. Clear(c) /\ Same(u, c)
  BY ClearedIsClear
<1>2. Log(u) = Redrawn(p)
  BY DEF Log
<1> HIDE DEF c
<1>3. Clear(p) /\ Same(c, p)
  <2>1. CASE c.suspended
    BY <1>1, <2>1 DEF Clear, Same, Screens
  <2>2. CASE ~c.suspended
    BY <1>1, <2>2, PrintedOnClear DEF Clear, Same
  <2> QED BY <2>1, <2>2
<1> HIDE DEF p
<1> QED BY <1>1, <1>2, <1>3, RedrawnIsSound DEF Same

LEMMA StatusIsSound ==
    ASSUME NEW u, Sound(u), NEW some \in BOOLEAN
    PROVE  /\ Sound(SetStatus(u, some)) /\ Same(u, SetStatus(u, some))
           /\ SetStatus(u, some).status = some
<1>1. CASE ~some /\ ~u.status
  BY <1>1 DEF SetStatus, Same, Sound, Screens
<1>2. CASE ~(~some /\ ~u.status)
  <2> DEFINE c == Cleared(u)
             s == [c EXCEPT !.status = some]
  <2>1. Clear(c) /\ Same(u, c)
    BY ClearedIsClear
  <2>2. SetStatus(u, some) = Redrawn(s)
    BY <1>2 DEF SetStatus
  <2> HIDE DEF c
  <2>3. Clear(s) /\ Same(c, s) /\ s.status = some
    BY <2>1 DEF Clear, Same, Screens
  <2> HIDE DEF s
  <2> QED BY <2>1, <2>2, <2>3, RedrawnIsSound DEF Same
<1> QED BY <1>1, <1>2

LEMMA OpenIsSound ==
    ASSUME NEW u, Sound(u)
    PROVE  /\ Sound(Suspend(Enter(u)))
           /\ Suspend(Enter(u)).suspended /\ Suspend(Enter(u)).alternate
BY DEF Sound, Screens, Suspend, Enter

LEMMA CloseIsSound ==
    ASSUME NEW u, Sound(u), u.suspended
    PROVE  /\ Sound(CloseModal(u))
           /\ ~CloseModal(u).suspended /\ ~CloseModal(u).alternate
           /\ CloseModal(u).mishaps = u.mishaps
<1> DEFINE r == [Leave(u) EXCEPT !.suspended = FALSE, !.buffered = FALSE]
           p == IF u.buffered THEN Printed(r, "blank") ELSE r
\* The text is back on the main screen, on a line the cursor had to itself.
<1>1. Clear(r) /\ ~r.suspended /\ ~r.buffered /\ ~r.alternate /\ r.mishaps = u.mishaps
  BY DEF Sound, Clear, Screens, Leave
<1>2. CloseModal(u) = Redrawn(p)
  BY DEF CloseModal, Resume, Leave
<1> HIDE DEF r
<1>3. Clear(p) /\ Same(r, p)
  <2>1. CASE u.buffered
    BY <1>1, <2>1, PrintedOnClear DEF Clear, Same
  <2>2. CASE ~u.buffered
    BY <1>1, <2>2 DEF Same
  <2> QED BY <2>1, <2>2
<1> HIDE DEF p
<1> QED BY <1>1, <1>2, <1>3, RedrawnIsSound DEF Same

LEMMA UnopenedIsSound ==
    ASSUME NEW u, Sound(u), ~u.suspended, NEW v \in Unopened(u)
    PROVE  Sound(v) /\ ~v.suspended
<1> DEFINE e == [Enter(u) EXCEPT !.mishaps = @ \cup {"stranded"}]
<1>1. Sound(e) /\ ~e.suspended
  BY DEF Sound, Screens, Enter
<1>2. Sound(Log(e)) /\ Same(e, Log(e))
  BY <1>1, LogIsSound
<1> QED BY <1>1, <1>2, LogIsSound DEF Unopened, Same

(***************************************************************************)
(* The screen and whoever has it.                                          *)
(***************************************************************************)
Good(u, modal) ==
    Sound(u) /\ (u.suspended <=> modal) /\ (modal => u.alternate)

Held ==
    /\ list \in BOOLEAN
    /\ picker \in {"none", "device", "share"}
    /\ ~(list /\ picker # "none")
    /\ Good(ui, Modal)

Ended == ~running => ~Modal /\ (ui.line = "status" => ui.mishaps # {})

Flags ==
    /\ running \in BOOLEAN /\ fileMode \in BOOLEAN
    /\ sending \in BOOLEAN /\ receiving \in BOOLEAN

LEMMA InvIsHeld == /\ IInv => Flags /\ Held /\ Ended
                   /\ Flags /\ Held /\ Ended => IInv
                   /\ Flags' /\ Held' /\ Ended' => IInv'
BY DEF IInv, Flags, ScreenOK, ScreenMatches, ShutdownRestores, LogStaysClean, LineTracked,
       Held, Ended, Good, Sound, Modal

LEMMA LogIsGood ==
    ASSUME NEW u, NEW m, Good(u, m)
    PROVE  Good(Log(u), m)
BY LogIsSound DEF Good, Same

LEMMA StatusIsGood ==
    ASSUME NEW u, NEW m, Good(u, m), NEW some \in BOOLEAN
    PROVE  Good(SetStatus(u, some), m)
BY StatusIsSound DEF Good, Same

LEMMA OpenIsGood ==
    ASSUME NEW u, NEW m, Good(u, m)
    PROVE  Good(Suspend(Enter(u)), TRUE)
BY OpenIsSound DEF Good

LEMMA CloseIsGood ==
    ASSUME NEW u, Good(u, TRUE)
    PROVE  Good(CloseModal(u), FALSE)
BY CloseIsSound DEF Good

LEMMA UnopenedIsGood ==
    ASSUME NEW u, Good(u, FALSE), NEW v \in Unopened(u)
    PROVE  Good(v, FALSE)
BY UnopenedIsSound DEF Good

\* The last line of run: the status goes, and with it its line.
LEMMA ShutdownIsGood ==
    ASSUME NEW u, Good(u, FALSE)
    PROVE  LET v == SetStatus(u, FALSE)
           IN Good(v, FALSE) /\ (v.line = "status" => v.mishaps # {})
BY StatusIsGood, StatusIsSound DEF Good, Sound

(***************************************************************************)
(* What the handlers share.                                                *)
(***************************************************************************)
LEMMA OpenListHeld ==
    ASSUME Held, ~Modal, OpenList, UNCHANGED picker
    PROVE  Held'
<1>1. Good(ui, FALSE) /\ picker = "none" /\ ~list
  BY DEF Held, Modal
<1>2. CASE list' = TRUE /\ ui' = Suspend(Enter(ui))
  BY <1>1, <1>2, OpenIsGood DEF Held, Modal
<1>3. CASE ui' \in Unopened(ui) /\ UNCHANGED listVars
  BY <1>1, <1>3, UnopenedIsGood DEF Held, Modal, listVars
<1> QED BY <1>2, <1>3 DEF OpenList

LEMMA OpenPickerHeld ==
    ASSUME Held, picker = "none", NEW target \in {"device", "share"}, OpenPicker(target)
    PROVE  Held'
<1>1. Good(ui, list) /\ list \in BOOLEAN
  BY DEF Held, Modal
<1>2. CASE target = "device" /\ sending
  <2>1. Good(IF list THEN CloseModal(ui) ELSE ui, FALSE)
    BY <1>1, CloseIsGood
  <2>2. Good(ui', FALSE) /\ list' = FALSE /\ picker' = "none"
    BY <1>2, <2>1, LogIsGood DEF OpenPicker, NoList
  <2> QED BY <2>2 DEF Held, Modal
<1>3. CASE ~(target = "device" /\ sending)
  <2>1. CASE picker' = target /\ ui' = Suspend(Enter(ui))
    BY <1>1, <1>3, <2>1, OpenIsGood DEF OpenPicker, NoList, Held, Modal
  <2>2. CASE /\ UNCHANGED picker
             /\ IF list THEN ui' = Log(CloseModal(ui)) ELSE ui' \in Unopened(ui)
    <3>1. CASE list
      <4>1. Good(ui', FALSE)
        BY <1>1, <2>2, <3>1, CloseIsGood, LogIsGood
      <4> QED BY <1>3, <2>2, <4>1 DEF OpenPicker, NoList, Held, Modal
    <3>2. CASE ~list
      BY <1>1, <1>3, <2>2, <3>2, UnopenedIsGood DEF OpenPicker, NoList, Held, Modal
    <3> QED BY <3>1, <3>2
  <2> QED BY <1>3, <2>1, <2>2 DEF OpenPicker
<1> QED BY <1>2, <1>3

LEMMA StartSendGood ==
    ASSUME NEW u, NEW m, Good(u, m), NEW known, StartSend(u, known)
    PROVE  Good(ui', m)
BY LogIsGood DEF StartSend

(***************************************************************************)
(* The steps.                                                              *)
(***************************************************************************)
LEMMA InitHeld == Init => IInv
<1> SUFFICES ASSUME Init PROVE IInv
  OBVIOUS
<1> Flags /\ picker = "none" /\ running = TRUE /\ list \in BOOLEAN
  BY DEF Init, Flags
<1>1. Good(NewScreen, FALSE)
  BY DEF Good, Sound, Screens, NewScreen
<1>2. Good(ui, list)
  <2>1. CASE list
    BY <1>1, <2>1, OpenIsGood DEF Init
  <2>2. CASE ~list /\ fileMode
    BY <1>1, <2>2, UnopenedIsGood DEF Init
  <2>3. CASE ~list /\ ~fileMode
    BY <1>1, <2>3, LogIsGood DEF Init
  <2> QED BY <2>1, <2>2, <2>3
<1> QED BY <1>2, InvIsHeld DEF Held, Ended, Modal

LEMMA MainKeysHeld ==
    ASSUME IInv, PressD \/ PressSlot \/ PressWeb \/ PressAnswer \/ PressCtrlC
    PROVE  IInv'
<1> Flags /\ Held /\ Ended
  BY InvIsHeld
<1> Main /\ Good(ui, FALSE) /\ ~list /\ picker = "none"
  BY DEF PressD, PressSlot, PressWeb, PressAnswer, PressCtrlC, Main, Held, Modal
<1> Flags'
  BY DEF Flags, PressD, PressSlot, PressWeb, PressAnswer, PressCtrlC, transferVars, StartSend
<1>a. ASSUME UNCHANGED <<list, picker>>, Good(ui', FALSE) PROVE Held'
  BY <1>a DEF Held, Modal
<1>b. Good(Log(ui), FALSE)
  BY LogIsGood
<1>1. CASE PressD
  BY <1>1, OpenListHeld, InvIsHeld DEF PressD, Main, Ended
<1>2. CASE PressSlot
  <2>1. CASE OpenPicker("device")
    BY <1>2, <2>1, OpenPickerHeld, InvIsHeld DEF PressSlot, Main, Ended
  <2>2. CASE StartSend(ui, TRUE) /\ UNCHANGED <<picker, receiving>> /\ UNCHANGED listVars
    BY <1>2, <2>2, <1>a, StartSendGood, InvIsHeld DEF PressSlot, Main, Ended, listVars
  <2>3. CASE ui' = Log(ui) /\ UNCHANGED picker /\ UNCHANGED listVars
    BY <1>2, <2>3, <1>a, <1>b, InvIsHeld DEF PressSlot, Main, Ended, listVars
  <2> QED BY <1>2, <2>1, <2>2, <2>3 DEF PressSlot
<1>3. CASE PressWeb
  <2>1. CASE OpenPicker("share")
    BY <1>3, <2>1, OpenPickerHeld, InvIsHeld DEF PressWeb, Main, Ended
  <2>2. CASE ui' = Log(ui) /\ UNCHANGED picker /\ UNCHANGED listVars
    BY <1>3, <2>2, <1>a, <1>b, InvIsHeld DEF PressWeb, Main, Ended, listVars
  <2> QED BY <1>3, <2>1, <2>2 DEF PressWeb
<1>4. CASE PressAnswer
  BY <1>4, <1>a, <1>b, InvIsHeld DEF PressAnswer, Main, Ended, listVars
<1>5. CASE PressCtrlC
  <2>1. UNCHANGED <<list, picker>>
    BY <1>5 DEF PressCtrlC, listVars
  <2>2. CASE receiving /\ ui' = SetStatus(Log(ui), sending) /\ UNCHANGED running
    <3>1. Good(ui', FALSE)
      BY <2>2, <1>b, StatusIsGood DEF Flags
    <3> QED BY <1>5, <1>a, <2>1, <2>2, <3>1, InvIsHeld DEF Main, Ended
  <2>3. CASE ui' \in {Log(ui)} \cup (IF sending THEN {ui} ELSE {}) /\ UNCHANGED running
    BY <1>5, <1>a, <1>b, <2>1, <2>3, InvIsHeld DEF Main, Ended
  <2>4. CASE running' = FALSE /\ ui' = Shutdown(ui)
    <3>1. ui' = SetStatus(ui, FALSE)
      BY <2>4 DEF Shutdown, Modal
    <3>2. Good(ui', FALSE) /\ (ui'.line = "status" => ui'.mishaps # {})
      BY <3>1, ShutdownIsGood
    <3> QED BY <1>5, <1>a, <2>1, <2>4, <3>2, InvIsHeld DEF Ended, Modal
  <2> QED BY <1>5, <2>2, <2>3, <2>4 DEF PressCtrlC
<1> QED BY <1>1, <1>2, <1>3, <1>4, <1>5

LEMMA ListKeysHeld ==
    ASSUME IInv, ListMove \/ ListSend \/ ListPair \/ ListClosed
    PROVE  IInv'
<1> Flags /\ Held /\ Ended
  BY InvIsHeld
<1> running /\ list /\ picker = "none" /\ Good(ui, TRUE)
  BY DEF ListMove, ListSend, ListPair, ListClosed, Held, Modal
<1> Flags'
  BY DEF Flags, ListMove, ListSend, ListPair, ListClosed, transferVars, StartSend
<1>c. Good(CloseModal(ui), FALSE)
  BY CloseIsGood
<1>1. CASE ListMove
  BY <1>1, InvIsHeld DEF ListMove, Held, Modal, Ended
<1>2. CASE ListSend
  <2>1. UNCHANGED running
    BY <1>2 DEF ListSend
  <2>2. CASE OpenPicker("device")
    BY <2>1, <2>2, OpenPickerHeld, InvIsHeld DEF Ended
  <2>3. CASE NoList /\ ui' = CloseModal(ui) /\ UNCHANGED picker
    BY <1>c, <2>1, <2>3, InvIsHeld DEF NoList, Held, Modal, Ended
  <2>4. CASE NoList /\ StartSend(CloseModal(ui), rows[cursor].fp \in store) /\ UNCHANGED picker
    <3>1. Good(ui', FALSE)
      BY <1>c, <2>4, StartSendGood
    <3> QED BY <2>1, <2>4, <3>1, InvIsHeld DEF NoList, Held, Modal, Ended
  <2> QED BY <1>2, <2>2, <2>3, <2>4 DEF ListSend
<1>3. CASE ListPair
  <2>1. Good(ui', TRUE)
    BY <1>3, LogIsGood DEF ListPair
  <2> QED BY <1>3, <2>1, InvIsHeld DEF ListPair, Held, Modal, Ended
<1>4. CASE ListClosed
  <2>1. CASE fileMode
    <3>1. Good(ui', FALSE) /\ (ui'.line = "status" => ui'.mishaps # {})
      BY <1>4, <1>c, <2>1, ShutdownIsGood DEF ListClosed
    <3> QED BY <1>4, <3>1, InvIsHeld DEF ListClosed, NoList, Held, Modal, Ended
  <2>2. CASE ~fileMode
    BY <1>4, <1>c, <2>2, InvIsHeld DEF ListClosed, NoList, Held, Modal, Ended, Flags
  <2> QED BY <2>1, <2>2
<1> QED BY <1>1, <1>2, <1>3, <1>4

LEMMA PickerKeysHeld ==
    ASSUME IInv, Picked \/ PickerCancelled
    PROVE  IInv'
<1> Flags /\ Held /\ Ended
  BY InvIsHeld
<1> running /\ ~list /\ picker # "none" /\ Good(ui, TRUE)
  BY DEF Picked, PickerCancelled, Held, Modal
<1> Flags'
  BY DEF Flags, Picked, PickerCancelled, transferVars, StartSend
<1>c. Good(CloseModal(ui), FALSE)
  BY CloseIsGood
<1>1. /\ picker' = "none" /\ list' = list /\ running' = running
  BY DEF Picked, PickerCancelled, listVars
<1>2. Good(ui', FALSE)
  BY <1>c, StartSendGood, LogIsGood DEF Picked, PickerCancelled
<1> QED BY <1>1, <1>2, InvIsHeld DEF Held, Modal, Ended

LEMMA EventsHeld ==
    ASSUME IInv, Event
    PROVE  IInv'
<1> Flags /\ Held /\ Ended
  BY InvIsHeld
<1> running /\ Good(ui, Modal)
  BY DEF Event, Logged, ReceiveEnded, SendEnded, HandleDiscovered, Tick, Held
<1> Flags'
  BY DEF Flags, Event, Logged, ReceiveEnded, SendEnded, HandleDiscovered, Tick, transferVars
<1>a. ASSUME UNCHANGED <<running, list, picker>>, Good(ui', Modal) PROVE IInv'
  BY <1>a, InvIsHeld DEF Held, Modal, Ended
<1>b. Good(Log(ui), Modal)
  BY LogIsGood
<1>1. CASE Logged
  BY <1>1, <1>a, <1>b DEF Logged, listVars
<1>2. CASE ReceiveEnded
  <2>1. Good(ui', Modal)
    BY <1>2, <1>b, StatusIsGood DEF ReceiveEnded, Flags
  <2> QED BY <1>2, <1>a, <2>1 DEF ReceiveEnded, listVars
<1>3. CASE SendEnded
  <2> DEFINE u == SetStatus(ui, receiving)
  <2>1. Good(u, Modal)
    BY StatusIsGood DEF Flags
  <2>2. CASE fileMode
    <3>1. Good(IF Modal THEN CloseModal(u) ELSE u, FALSE)
      <4>1. CASE Modal
        <5>1. Good(u, TRUE)
          BY <2>1, <4>1 DEF Good
        <5> QED BY <4>1, <5>1, CloseIsGood
      <4>2. CASE ~Modal
        BY <2>1, <4>2 DEF Good
      <4> QED BY <4>1, <4>2
    <3>2. Good(ui', FALSE) /\ (ui'.line = "status" => ui'.mishaps # {})
      BY <1>3, <2>2, <3>1, ShutdownIsGood DEF SendEnded, Shutdown
    <3> QED BY <1>3, <2>2, <3>2, InvIsHeld DEF SendEnded, NoList, Held, Modal, Ended
  <2>3. CASE ~fileMode
    BY <1>3, <1>a, <2>1, <2>3 DEF SendEnded, listVars
  <2> QED BY <2>2, <2>3
<1>4. CASE HandleDiscovered
  BY <1>4, <1>a, <1>b DEF HandleDiscovered, listVars
<1>5. CASE Tick
  <2>1. UNCHANGED <<running, list, picker>>
    BY <1>5 DEF Tick, SetRows, listVars
  <2>2. Good(ui', Modal)
    BY <1>5, StatusIsGood DEF Tick, Flags
  <2> QED BY <1>a, <2>1, <2>2
<1> QED BY <1>1, <1>2, <1>3, <1>4, <1>5 DEF Event

LEMMA NextHeld ==
    ASSUME IInv, [Next]_vars
    PROVE  IInv'
<1> Flags /\ Held /\ Ended
  BY InvIsHeld
<1>1. CASE World
  <2>1. UNCHANGED <<running, fileMode, ui, list, picker, sending, receiving>>
    BY <1>1 DEF World, Appear, Disappear, listVars, transferVars
  <2> QED BY <2>1, InvIsHeld DEF Flags, Held, Modal, Ended
<1>2. CASE UNCHANGED vars
  BY <1>2, InvIsHeld DEF vars, Flags, Held, Modal, Ended
<1> QED BY <1>1, <1>2, MainKeysHeld, ListKeysHeld, PickerKeysHeld, EventsHeld DEF Next, Key

(***************************************************************************)
(* The theorems.                                                           *)
(***************************************************************************)
\* The terminal's inductive invariant holds in every reachable state.
THEOREM ScreenInvariant == Spec => []IInv
<1>1. Init => IInv
  BY InitHeld
<1>2. IInv /\ [Next]_vars => IInv'
  BY NextHeld
<1> QED BY <1>1, <1>2, PTL DEF Spec

\* Every way into a modal and out of it, the handover from the list to the
\* picker included, leaves the log and the terminal matching the modal.
THEOREM ModalsMatch == Spec => []ScreenMatches
<1>1. IInv => ScreenMatches
  BY DEF IInv
<1> QED BY <1>1, ScreenInvariant, PTL

\* However the program ends, nothing is held back and, but for the two
\* mishaps, the terminal is as it was found.
THEOREM EndRestores == Spec => []ShutdownRestores
<1>1. IInv => ShutdownRestores
  BY DEF IInv
<1> QED BY <1>1, ScreenInvariant, PTL

\* Without a mishap the log stays append-only above one status line.
THEOREM LogIsAppendOnly == Spec => []LogStaysClean
<1>1. IInv => LogStaysClean
  BY DEF IInv
<1> QED BY <1>1, ScreenInvariant, PTL

(***************************************************************************)
(* The highlight.                                                          *)
(***************************************************************************)
LEMMA SetRowsKeeps ==
    ASSUME NEW rs, SetRows(rs), cursor # 0, Position(rs, rows[cursor].fp) # 0
    PROVE  rows'[cursor'].fp = rows[cursor].fp
<1> DEFINE f == rows[cursor].fp
<1>1. \E i \in DOMAIN rs : rs[i].fp = f
  BY DEF Position
<1>2. rs[Position(rs, f)].fp = f
  BY <1>1 DEF Position
<1>3. rows' = rs /\ cursor' = Position(rs, f)
  BY DEF SetRows
<1> QED BY <1>2, <1>3

\* The rows are rebuilt under the cursor in two places, P and the tick, and
\* neither moves it to another device.
THEOREM HighlightStays == Spec => HighlightKept
<1> DEFINE Kept ==
      list /\ list' /\ rows' # rows /\ cursor # 0 /\ Position(rows', rows[cursor].fp) # 0
        => rows'[cursor'].fp = rows[cursor].fp
<1>1. [Next]_vars => [Kept]_vars
  <2> SUFFICES ASSUME Next, list, list', rows' # rows, cursor # 0,
                      Position(rows', rows[cursor].fp) # 0
               PROVE  rows'[cursor'].fp = rows[cursor].fp
    OBVIOUS
  <2>1. CASE ListPair
    BY <2>1, SetRowsKeeps DEF ListPair, SetRows
  <2>2. CASE Tick
    BY <2>2, SetRowsKeeps DEF Tick, SetRows
  <2>3. CASE PressD \/ PressSlot \/ PressWeb \/ PressAnswer \/ PressCtrlC
    BY <2>3 DEF PressD, PressSlot, PressWeb, PressAnswer, PressCtrlC, Main, Modal
  <2>4. CASE ListMove \/ ListSend \/ ListClosed
    BY <2>4 DEF ListMove, ListSend, ListClosed, OpenPicker, NoList, listVars
  <2>5. CASE Picked \/ PickerCancelled \/ Logged \/ ReceiveEnded \/ SendEnded
             \/ HandleDiscovered
    BY <2>5 DEF Picked, PickerCancelled, Logged, ReceiveEnded, SendEnded, HandleDiscovered,
                NoList, listVars
  <2>6. CASE World
    BY <2>6 DEF World, Appear, Disappear, listVars
  <2> QED BY <2>1, <2>2, <2>3, <2>4, <2>5, <2>6 DEF Next, Key, Event
<1> QED BY <1>1, PTL DEF Spec, HighlightKept

(***************************************************************************)
(* The hotkeys.                                                            *)
(***************************************************************************)
LEMMA LeastExists ==
    ASSUME NEW T, T \subseteq Nat, T # {}
    PROVE  \E x \in T : \A y \in T : x <= y
<1> DEFINE R == {ss \in Nat \X Nat : ss[1] < ss[2]}
<1>1. IsWellFoundedOn(R, Nat)
  BY NatLessThanWellFounded DEF OpToRel
<1> HIDE DEF R
<1>2. PICK x \in T : \A y \in T : <<y, x>> \notin R
  BY <1>1, WFMin
<1>3. \A y \in T : ~ (y < x)
  BY <1>2 DEF R
<1> QED BY <1>3

SlotsUnique ==
    /\ slots \in [Fps -> Hotkeys \cup {NoSlot, Unseen}]
    /\ \A f, g \in Fps : f # g /\ slots[f] \in Hotkeys => slots[g] # slots[f]

\* A device met again keeps its hotkey, a new one gets the least free one.
LEMMA AssignIsUnique ==
    ASSUME SlotsUnique, NEW f, Assign(f)
    PROVE  /\ SlotsUnique'
           /\ \A h \in Fps : slots[h] # Unseen => slots'[h] = slots[h]
<1> DEFINE Free == Hotkeys \ Taken
           new == IF Hotkeys \subseteq Taken THEN NoSlot
                  ELSE CHOOSE s \in Free : \A t \in Free : s <= t
<1>1. new \in Free \cup {NoSlot}
  <2>1. CASE Hotkeys \subseteq Taken
    BY <2>1
  <2>2. CASE ~(Hotkeys \subseteq Taken)
    <3>1. Free # {} /\ Free \subseteq Nat
      BY <2>2, BoundAssumption DEF Hotkeys
    <3>2. \E s \in Free : \A t \in Free : s <= t
      BY <3>1, LeastExists
    <3> QED BY <2>2, <3>2
  <2> QED BY <2>1, <2>2
<1> HIDE DEF new
<1>2. slots' = [slots EXCEPT ![f] = IF @ # Unseen THEN @ ELSE new]
  BY DEF Assign, new
<1>3. new \notin {slots[g] : g \in Fps} \/ new = NoSlot
  BY <1>1 DEF Taken
<1>4. new \in Hotkeys \cup {NoSlot} /\ NoSlot \notin Hotkeys /\ Unseen \notin Hotkeys
  BY <1>1, BoundAssumption DEF Hotkeys, NoSlot, Unseen
<1>5. slots' \in [Fps -> Hotkeys \cup {NoSlot, Unseen}]
  BY <1>2, <1>4 DEF SlotsUnique
<1>6. \A h \in Fps : slots[h] # Unseen => slots'[h] = slots[h]
  BY <1>2 DEF SlotsUnique
<1>7. ASSUME NEW g \in Fps, NEW h \in Fps, g # h, slots'[g] \in Hotkeys
      PROVE  slots'[h] # slots'[g]
  <2>1. CASE slots'[g] = slots[g] /\ slots'[h] = slots[h]
    BY <1>7, <2>1 DEF SlotsUnique
  <2>2. CASE f = g /\ slots'[g] = new /\ slots'[h] = slots[h]
    BY <1>3, <1>4, <1>7, <2>2
  <2>3. CASE f = h /\ slots'[h] = new /\ slots'[g] = slots[g]
    BY <1>3, <1>4, <1>7, <2>3
  <2> QED BY <1>2, <1>7, <2>1, <2>2, <2>3 DEF SlotsUnique
<1> QED BY <1>5, <1>6, <1>7 DEF SlotsUnique

LEMMA InitSlots == Init => SlotsUnique
BY BoundAssumption DEF Init, SlotsUnique, Hotkeys, Unseen, NoSlot

LEMMA NextSlots ==
    ASSUME SlotsUnique, [Next]_vars
    PROVE  /\ SlotsUnique'
           /\ \A h \in Fps : slots[h] # Unseen => slots'[h] = slots[h]
<1>1. CASE HandleDiscovered
  BY <1>1, AssignIsUnique DEF HandleDiscovered
<1>2. CASE UNCHANGED slots
  BY <1>2 DEF SlotsUnique
<1>3. [Next]_vars => HandleDiscovered \/ UNCHANGED slots
  <2> SUFFICES ASSUME [Next]_vars, ~HandleDiscovered PROVE UNCHANGED slots
    OBVIOUS
  <2>1. CASE Key
    BY <2>1 DEF Key, PressD, PressSlot, PressWeb, PressAnswer, PressCtrlC, ListMove, ListSend,
                ListPair, ListClosed, Picked, PickerCancelled, deviceVars
  <2>2. CASE Event
    BY <2>2 DEF Event, Logged, ReceiveEnded, SendEnded, Tick, deviceVars
  <2>3. CASE World \/ UNCHANGED vars
    BY <2>3 DEF World, Appear, Disappear, vars
  <2> QED BY <2>1, <2>2, <2>3 DEF Next
<1> QED BY <1>1, <1>2, <1>3

\* A hotkey means one device for the whole run, whoever comes and goes.
THEOREM HotkeysAreStable == Spec => HotkeyMeansDevice
<1> DEFINE Stable ==
      \A f \in Fps :
         /\ slots[f] # Unseen => slots'[f] = slots[f]
         /\ \A g \in Fps \ {f} : slots'[f] \in Hotkeys => slots'[g] # slots'[f]
<1>1. Init => SlotsUnique
  BY InitSlots
<1>2. SlotsUnique /\ [Next]_vars => SlotsUnique'
  BY NextSlots
<1>3. SlotsUnique /\ [Next]_vars => Stable
  <2> SUFFICES ASSUME SlotsUnique, [Next]_vars PROVE Stable
    OBVIOUS
  <2>1. SlotsUnique' /\ \A h \in Fps : slots[h] # Unseen => slots'[h] = slots[h]
    BY NextSlots
  <2> QED BY <2>1 DEF SlotsUnique
<1> QED BY <1>1, <1>2, <1>3, PTL DEF Spec, HotkeyMeansDevice

(***************************************************************************)
(* The rows.                                                               *)
(***************************************************************************)
\* The devices of S are ranked by how many are below them, from 0 on.
LEMMA RanksAreOnto ==
    ASSUME NEW S, S \subseteq Fps
    PROVE  LET rank(f) == Cardinality({g \in S : g < f}) IN
           /\ Cardinality(S) \in Nat
           /\ \A f \in S : rank(f) \in 0..(Cardinality(S) - 1)
           /\ \A f, h \in S : rank(f) = rank(h) => f = h
           /\ \A k \in 0..(Cardinality(S) - 1) : \E f \in S : rank(f) = k
<1> DEFINE Below(f) == {g \in S : g < f}
           n == Cardinality(S)
           rank == [f \in S |-> Cardinality(Below(f))]
<1>1. IsFiniteSet(S) /\ n \in Nat /\ S \subseteq Nat
  <2>1. IsFiniteSet(Fps)
    BY FS_Interval, BoundAssumption DEF Fps
  <2>2. IsFiniteSet(S)
    BY <2>1, FS_Subset
  <2>3. S \subseteq Nat
    BY BoundAssumption DEF Fps
  <2> QED BY <2>2, <2>3, FS_CardinalityType
<1>2. ASSUME NEW T, T \subseteq S, NEW U, U \subseteq T, NEW x \in T, x \notin U
      PROVE  Cardinality(U) \in Nat /\ Cardinality(T) \in Nat /\ Cardinality(U) < Cardinality(T)
  <2>1. IsFiniteSet(T) /\ IsFiniteSet(U)
    BY <1>1, <1>2, FS_Subset
  <2>2. Cardinality(U) <= Cardinality(T) /\ Cardinality(U) # Cardinality(T)
    BY <1>2, <2>1, FS_Subset
  <2> QED BY <2>1, <2>2, FS_CardinalityType
<1>3. \A f \in S : Cardinality(Below(f)) \in 0..(n - 1)
  <2> TAKE f \in S
  <2>1. Below(f) \subseteq S /\ f \notin Below(f)
    BY <1>1
  <2> QED BY <1>1, <1>2, <2>1
<1>4. \A f, h \in S : f < h => Cardinality(Below(f)) # Cardinality(Below(h))
  <2> SUFFICES ASSUME NEW f \in S, NEW h \in S, f < h
               PROVE  Cardinality(Below(f)) # Cardinality(Below(h))
    OBVIOUS
  <2>1. \A g \in S : g < f => g < h
    BY <1>1
  <2>2. ~(f < f)
    BY <1>1
  <2>3. Below(h) \subseteq S /\ Below(f) \subseteq Below(h) /\ f \in Below(h) /\ f \notin Below(f)
    BY <2>1, <2>2
  <2> HIDE DEF Below
  <2>4. Cardinality(Below(f)) \in Nat /\ Cardinality(Below(f)) < Cardinality(Below(h))
        /\ Cardinality(Below(h)) \in Nat
    BY <1>2, <2>3
  <2> QED BY <2>4
<1> HIDE DEF Below
<1>5. \A f, h \in S : Cardinality(Below(f)) = Cardinality(Below(h)) => f = h
  <2> SUFFICES ASSUME NEW f \in S, NEW h \in S, Cardinality(Below(f)) = Cardinality(Below(h))
               PROVE  f = h
    OBVIOUS
  <2>1. ~(f < h) /\ ~(h < f)
    BY <1>4
  <2> QED BY <1>1, <2>1
<1>6. rank \in Surjection(S, 0..(n - 1))
  <2>1. rank \in Injection(S, 0..(n - 1))
    BY <1>3, <1>5 DEF Injection, IsInjective
  <2>2. IsFiniteSet(0..(n - 1)) /\ Cardinality(0..(n - 1)) = n
    <3> HIDE DEF n
    <3>1. 0 \in Int /\ n - 1 \in Int /\ n \in Nat
      BY <1>1
    <3>2. /\ IsFiniteSet(0..(n - 1))
          /\ Cardinality(0..(n - 1)) = IF 0 > n - 1 THEN 0 ELSE (n - 1) - 0 + 1
      BY <3>1, FS_Interval
    <3> QED BY <3>1, <3>2
  <2> HIDE DEF rank
  <2> QED BY <2>1, <2>2, FS_Injection
<1>7. \A k \in 0..(n - 1) : \E f \in S : Cardinality(Below(f)) = k
  BY <1>6 DEF Surjection
<1> QED BY <1>1, <1>3, <1>5, <1>7 DEF Below

LEMMA OrderedRows ==
    ASSUME NEW S, S \subseteq Fps
    PROVE  /\ InOrder(S) \in Seq(S)
           /\ \A f \in S : \E i \in 1..Len(InOrder(S)) : InOrder(S)[i] = f
<1> DEFINE rank(f) == Cardinality({g \in S : g < f})
           n == Cardinality(S)
<1>1. /\ n \in Nat
      /\ \A f \in S : rank(f) \in 0..(n - 1)
      /\ \A f, h \in S : rank(f) = rank(h) => f = h
      /\ \A k \in 0..(n - 1) : \E f \in S : rank(f) = k
  BY RanksAreOnto
<1>2. InOrder(S) = [i \in 1..n |-> CHOOSE f \in S : rank(f) = i - 1]
  BY DEF InOrder
<1> HIDE DEF rank, n
<1>3. \A i \in 1..n : InOrder(S)[i] \in S /\ rank(InOrder(S)[i]) = i - 1
  <2> TAKE i \in 1..n
  <2>1. \E f \in S : rank(f) = i - 1
    BY <1>1
  <2> QED BY <1>2, <2>1
<1>4. InOrder(S) \in Seq(S) /\ Len(InOrder(S)) = n
  BY <1>1, <1>2, <1>3
<1>5. ASSUME NEW f \in S
      PROVE  \E i \in 1..n : InOrder(S)[i] = f
  <2>1. rank(f) + 1 \in 1..n /\ (rank(f) + 1) - 1 = rank(f)
    BY <1>1
  <2>2. InOrder(S)[rank(f) + 1] \in S /\ rank(InOrder(S)[rank(f) + 1]) = rank(f)
    BY <1>3, <2>1
  <2> QED BY <1>1, <2>1, <2>2
<1> QED BY <1>4, <1>5

\* The rows are about known devices and say which are paired; every paired
\* device has one.
Told(rs, pairs) ==
    /\ rs \in Seq(Rows)
    /\ \A i \in DOMAIN rs : rs[i].paired <=> rs[i].fp \in pairs
    /\ \A f \in pairs : \E i \in DOMAIN rs : rs[i].fp = f

LEMMA DeviceRowsTold ==
    ASSUME NEW pairs, pairs \subseteq Fps, NEW known, known \subseteq Fps
    PROVE  Told(DeviceRows(pairs, known), pairs)
<1> DEFINE a == InOrder(pairs)
           b == InOrder(known \ pairs)
           fps == a \o b
<1>1. /\ a \in Seq(Fps) /\ b \in Seq(Fps)
      /\ \A f \in pairs : \E i \in 1..Len(a) : a[i] = f
  <2>1. a \in Seq(pairs) /\ b \in Seq(known \ pairs)
        /\ \A f \in pairs : \E i \in 1..Len(a) : a[i] = f
    BY OrderedRows
  <2> QED BY <2>1
<1> HIDE DEF a, b
<1>2. /\ fps \in Seq(Fps) /\ Len(fps) = Len(a) + Len(b)
      /\ \A i \in 1..Len(a) : fps[i] = a[i]
  BY <1>1
<1>3. \A f \in pairs : \E i \in DOMAIN fps : fps[i] = f
  BY <1>1, <1>2
<1>4. DeviceRows(pairs, known) =
        [i \in DOMAIN fps |->
           [fp |-> fps[i], paired |-> fps[i] \in pairs, online |-> fps[i] \in known]]
  BY DEF DeviceRows, a, b
<1> HIDE DEF fps
<1>5. DeviceRows(pairs, known) \in Seq(Rows) /\ DOMAIN DeviceRows(pairs, known) = DOMAIN fps
  <2>1. \A i \in DOMAIN fps :
          [fp |-> fps[i], paired |-> fps[i] \in pairs, online |-> fps[i] \in known] \in Rows
    BY <1>2 DEF Rows
  <2>2. Len(fps) \in Nat /\ DOMAIN fps = 1..Len(fps)
    BY <1>2
  <2> DEFINE row(i) ==
               [fp |-> fps[i], paired |-> fps[i] \in pairs, online |-> fps[i] \in known]
  <2> HIDE DEF row
  <2>3. DeviceRows(pairs, known) = [i \in 1..Len(fps) |-> row(i)]
    BY <1>4, <2>2 DEF row
  <2>4. \A i \in 1..Len(fps) : row(i) \in Rows
    BY <2>1, <2>2 DEF row
  <2> QED BY <2>2, <2>3, <2>4
<1>6. \A i \in DOMAIN fps : /\ DeviceRows(pairs, known)[i].fp = fps[i]
                            /\ DeviceRows(pairs, known)[i].paired <=> fps[i] \in pairs
  <2> TAKE i \in DOMAIN fps
  <2>1. DeviceRows(pairs, known)[i] =
          [fp |-> fps[i], paired |-> fps[i] \in pairs, online |-> fps[i] \in known]
    BY <1>4
  <2>2. DeviceRows(pairs, known)[i].fp = fps[i]
    BY <2>1
  <2>3. DeviceRows(pairs, known)[i].paired = (fps[i] \in pairs)
    BY <2>1
  <2> QED BY <2>2, <2>3
<1> QED BY <1>3, <1>5, <1>6 DEF Told

Devices == paired \subseteq Fps /\ store \subseteq Fps /\ found \in Seq(Fps)

\* The rows and the highlight, between two handlers.
Listed ==
    /\ list \in BOOLEAN
    /\ rows \in Seq(Rows)
    /\ cursor \in 0..Len(rows)
    /\ cursor = 0 <=> rows = <<>>
    /\ list => Told(rows, paired)

LEMMA FirstIsListed ==
    ASSUME NEW rs \in Seq(Rows)
    PROVE  First(rs) \in 0..Len(rs) /\ (First(rs) = 0 <=> rs = <<>>)
BY DEF First

LEMMA SetRowsListed ==
    ASSUME NEW rs \in Seq(Rows), SetRows(rs)
    PROVE  rows' = rs /\ cursor' \in 0..Len(rs) /\ (cursor' = 0 <=> rs = <<>>)
<1>1. \A f : Position(rs, f) # 0 => Position(rs, f) \in DOMAIN rs
  BY DEF Position
<1>2. DOMAIN rs = 1..Len(rs) /\ Len(rs) \in Nat /\ (Len(rs) = 0 <=> rs = <<>>)
  OBVIOUS
<1>3. CASE cursor # 0 /\ Position(rs, rows[cursor].fp) # 0
  <2>1. cursor' \in DOMAIN rs
    BY <1>1, <1>3 DEF SetRows
  <2> QED BY <1>2, <2>1 DEF SetRows
<1>4. CASE ~(cursor # 0 /\ Position(rs, rows[cursor].fp) # 0)
  BY <1>4, FirstIsListed DEF SetRows
<1> QED BY <1>3, <1>4

\* The highlight wraps around.
LEMMA MoveListed ==
    ASSUME Listed, ListMove
    PROVE  cursor' \in 1..Len(rows)
<1> DEFINE n == Len(rows)
<1>1. n \in Nat /\ n > 0 /\ cursor \in 1..n
  BY DEF Listed, ListMove
<1>2. PICK delta \in {-1, 1} : cursor' = ((cursor - 1 + delta) % n) + 1
  BY DEF ListMove
<1> HIDE DEF n
<1>3. cursor - 1 + delta \in Int
  BY <1>1
<1>4. \A k \in Int : k % n \in 0..(n - 1)
  BY <1>1
<1>5. (cursor - 1 + delta) % n \in 0..(n - 1)
  BY <1>3, <1>4
<1> QED BY <1>1, <1>2, <1>5 DEF n

\* What a step does to the list, and to the pairings it shows.
LEMMA ListSteps ==
    ASSUME [Next]_vars, list \in BOOLEAN
    PROVE  \/ UNCHANGED <<listVars, paired>>
           \/ NoList
           \/ ~list /\ UNCHANGED listVars
           \/ /\ list' = TRUE
              /\ rows' = DeviceRows(paired, store) /\ cursor' = First(rows') /\ UNCHANGED paired
           \/ list' = list /\ SetRows(DeviceRows(paired', store))
           \/ ListMove
<1>1. CASE PressD \/ PressSlot \/ PressWeb \/ PressAnswer \/ PressCtrlC
  BY <1>1 DEF PressD, PressSlot, PressWeb, PressAnswer, PressCtrlC, Main, Modal, OpenList,
              OpenPicker, deviceVars
<1>2. CASE ListMove \/ ListSend \/ ListPair \/ ListClosed
  BY <1>2 DEF ListSend, ListPair, ListClosed, OpenPicker
<1>3. CASE Picked \/ PickerCancelled
  BY <1>3 DEF Picked, PickerCancelled, deviceVars
<1>4. CASE Event
  BY <1>4 DEF Event, Logged, ReceiveEnded, SendEnded, HandleDiscovered, Tick, deviceVars
<1>5. CASE World \/ UNCHANGED vars
  BY <1>5 DEF World, Appear, Disappear, vars, listVars
<1> QED BY <1>1, <1>2, <1>3, <1>4, <1>5 DEF Next, Key

LEMMA DevicesNext ==
    ASSUME Devices, Listed, [Next]_vars
    PROVE  Devices'
<1>1. CASE PressAnswer
  BY <1>1 DEF PressAnswer, Devices
<1>2. CASE ListPair
  <2>1. rows[cursor].fp \in Fps
    <3>1. cursor \in 1..Len(rows)
      BY <1>2 DEF ListPair, Listed
    <3>2. rows[cursor] \in Rows
      BY <3>1 DEF Listed
    <3> QED BY <3>2 DEF Rows
  <2> QED BY <1>2, <2>1 DEF ListPair, Devices
<1>3. CASE HandleDiscovered
  BY <1>3 DEF HandleDiscovered, Devices
<1>4. CASE World
  BY <1>4 DEF World, Appear, Disappear, Devices
<1>5. CASE \/ PressD \/ PressSlot \/ PressWeb \/ PressCtrlC \/ ListMove \/ ListSend \/ ListClosed
           \/ Picked \/ PickerCancelled \/ Logged \/ ReceiveEnded \/ SendEnded \/ Tick
           \/ UNCHANGED vars
  <2>1. UNCHANGED <<paired, store, found>>
    BY <1>5 DEF PressD, PressSlot, PressWeb, PressCtrlC, ListMove, ListSend, ListClosed,
                Picked, PickerCancelled, Logged, ReceiveEnded, SendEnded, Tick, vars, deviceVars
  <2> QED BY <2>1 DEF Devices
<1> QED BY <1>1, <1>2, <1>3, <1>4, <1>5 DEF Next, Key, Event

LEMMA ListedNext ==
    ASSUME Devices, Listed, [Next]_vars
    PROVE  Listed'
<1> list \in BOOLEAN
  BY DEF Listed
<1>1. CASE UNCHANGED <<listVars, paired>> \/ (~list /\ UNCHANGED listVars)
  BY <1>1 DEF Listed, listVars
<1>2. CASE NoList
  <2>1. <<>> \in Seq(Rows) /\ 0 \in 0..Len(<<>>)
    OBVIOUS
  <2>2. list' = FALSE /\ rows' = <<>> /\ cursor' = 0
    BY <1>2 DEF NoList
  <2>3. rows' \in Seq(Rows) /\ cursor' \in 0..Len(rows') /\ (cursor' = 0 <=> rows' = <<>>)
    BY <2>1, <2>2
  <2> QED BY <2>2, <2>3 DEF Listed
<1>3. CASE /\ list' = TRUE
           /\ rows' = DeviceRows(paired, store) /\ cursor' = First(rows') /\ UNCHANGED paired
  <2>1. Told(DeviceRows(paired, store), paired)
    BY DeviceRowsTold DEF Devices
  <2>2. rows' \in Seq(Rows)
    BY <1>3, <2>1 DEF Told
  <2>3. cursor' \in 0..Len(rows') /\ (cursor' = 0 <=> rows' = <<>>)
    BY <1>3, <2>2, FirstIsListed
  <2> QED BY <1>3, <2>1, <2>2, <2>3 DEF Listed
<1>4. CASE list' = list /\ SetRows(DeviceRows(paired', store))
  <2> DEFINE rs == DeviceRows(paired', store)
  <2>1. Told(rs, paired')
    BY DevicesNext, DeviceRowsTold DEF Devices
  <2> HIDE DEF rs
  <2>2. rs \in Seq(Rows) /\ SetRows(rs)
    BY <1>4, <2>1 DEF Told, rs
  <2>3. rows' = rs /\ cursor' \in 0..Len(rs) /\ (cursor' = 0 <=> rs = <<>>)
    BY <2>2, SetRowsListed
  <2> QED BY <1>4, <2>1, <2>2, <2>3 DEF Listed
<1>5. CASE ListMove
  <2>1. cursor' \in 1..Len(rows)
    BY <1>5, MoveListed
  <2> QED BY <1>5, <2>1 DEF ListMove, Listed, deviceVars
<1> QED BY <1>1, <1>2, <1>3, <1>4, <1>5, ListSteps

\* The rows are those of the last handler that built them: as long as the
\* list is open only P changes the pairings, and it rebuilds the rows.
THEOREM RowsAreListed == Spec => [](Devices /\ Listed)
<1>1. Init => Devices /\ Listed
  <2> SUFFICES ASSUME Init PROVE Devices /\ Listed
    OBVIOUS
  <2>1. Devices
    BY DEF Init, Devices
  <2>2. Told(DeviceRows(paired, store), paired)
    BY <2>1, DeviceRowsTold DEF Devices
  <2>3. list \in BOOLEAN /\ rows = (IF list THEN DeviceRows(paired, store) ELSE <<>>)
    BY DEF Init
  <2>4. <<>> \in Seq(Rows) /\ DeviceRows(paired, store) \in Seq(Rows)
    BY <2>2 DEF Told
  <2>5. rows \in Seq(Rows) /\ (list => Told(rows, paired))
    BY <2>2, <2>3, <2>4
  <2> QED BY <2>1, <2>3, <2>5, FirstIsListed DEF Init, Listed
<1>2. Devices /\ Listed /\ [Next]_vars => Devices' /\ Listed'
  BY DevicesNext, ListedNext
<1> QED BY <1>1, <1>2, PTL DEF Spec

\* RowsTrue: what P does to the device under the cursor is what its row says,
\* whatever enters or leaves the store while the list is open, and no paired
\* device is missing from it.
THEOREM RowsAreTrue == Spec => []RowsTrue
<1>1. Listed => RowsTrue
  BY DEF Listed, Told, RowsTrue
<1> QED BY <1>1, RowsAreListed, PTL

\* The whole invariant of the terminal, for any number of devices.
THEOREM InvariantHolds == Spec => []Inv
<1>1. IInv /\ SlotsUnique /\ Devices /\ Listed => Inv
  BY DEF Inv, TypeOK, IInv, SlotsUnique, Devices, Listed
<1>2. Init => SlotsUnique
  BY InitSlots
<1>3. SlotsUnique /\ [Next]_vars => SlotsUnique'
  BY NextSlots
<1> QED BY <1>1, <1>2, <1>3, ScreenInvariant, RowsAreListed, PTL DEF Spec
=============================================================================
