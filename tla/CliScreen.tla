----------------------------- MODULE CliScreen -----------------------------
(***************************************************************************)
(* The terminal of the LocalSend CLI and the log it writes there (ui.rs,   *)
(* the screen helpers of util.rs), as operators on a record: the App       *)
(* composes them handler by handler (CliModals).                           *)
(*                                                                         *)
(* Of the main screen only the line the cursor is on matters, and whether  *)
(* it holds the status line.  What was printed can no longer be erased     *)
(* once anything is printed after it.                                      *)
(***************************************************************************)
Screens == [
    suspended : BOOLEAN,             \* Ui.suspended
    status    : BOOLEAN,             \* Ui.status is some
    buffered  : BOOLEAN,             \* Ui.buffer is not empty
    alternate : BOOLEAN,             \* the terminal shows the alternate screen
    line      : {"blank", "status"}, \* the line of the main screen's cursor
    mishaps   : SUBSET {"covered", "stranded"},
        \* history: the alternate screen was entered over a drawn status
        \* line; it was entered for a modal that then failed to open
    spoiled   : BOOLEAN              \* history: without a mishap, a status text has
        \* become part of the log or a line went to the alternate screen
    ]

NewScreen == [suspended |-> FALSE, status |-> FALSE, buffered |-> FALSE,
              alternate |-> FALSE, line |-> "blank",
              mishaps |-> {}, spoiled |-> FALSE]

\* Text printed where the cursor is, ending in a line break or not.
Printed(u, next) ==
    [u EXCEPT !.line = IF u.alternate THEN @ ELSE next,
              !.spoiled = @ \/ (u.mishaps = {} /\ (u.alternate \/ u.line = "status"))]

Enter(u) ==
    [u EXCEPT !.alternate = TRUE,
              !.mishaps = IF ~u.alternate /\ u.line = "status" THEN @ \cup {"covered"} ELSE @]

Leave(u)   == [u EXCEPT !.alternate = FALSE]
Suspend(u) == [u EXCEPT !.suspended = TRUE]

\* clear_status_line
Cleared(u) ==
    IF ~u.suspended /\ u.status /\ ~u.alternate THEN [u EXCEPT !.line = "blank"] ELSE u

\* redraw_status
Redrawn(u) == IF ~u.suspended /\ u.status THEN Printed(u, "status") ELSE u

\* (mutant) a log line is printed whether or not the log is suspended.
LogUnbuffered(u) == Redrawn(Printed(Cleared(u), "blank"))

\* print_block
Log(u) ==
    LET c == Cleared(u)
    IN Redrawn(IF c.suspended THEN [c EXCEPT !.buffered = TRUE] ELSE Printed(c, "blank"))

\* Ui::resume
Resume(u) ==
    LET r == [u EXCEPT !.suspended = FALSE, !.buffered = FALSE]
    IN Redrawn(IF u.buffered THEN Printed(r, "blank") ELSE r)

\* (mutant) the old status line is not cleared first.
SetStatusOver(u, some) ==
    IF ~some /\ ~u.status THEN u ELSE Redrawn([u EXCEPT !.status = some])

\* set_status: the text of a status differs from the one before.
SetStatus(u, some) ==
    IF ~some /\ ~u.status THEN u ELSE Redrawn([Cleared(u) EXCEPT !.status = some])

\* A modal closes: close, then resume.
CloseModal(u) == Resume(Leave(u))
=============================================================================
