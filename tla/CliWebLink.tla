----------------------------- MODULE CliWebLink -----------------------------
(***************************************************************************)
(* The web links of the LocalSend CLI (app/web_link.rs): "share via link"  *)
(* (W+S) and "receive via link" (W+R).  Switching a link on or off stops   *)
(* the HTTP server and starts another one, which ends whatever the old one *)
(* was serving.  What a link can disturb is modelled with it: incoming     *)
(* requests from their arrival at one of the servers to their end (their   *)
(* transfer is CliReceive) and downloads of shared files.                  *)
(*                                                                         *)
(* A handler of the App runs to its end before the next event is taken, so *)
(* each is one action, the restart it awaits included.                     *)
(***************************************************************************)
EXTENDS Naturals, FiniteSets

CONSTANTS
    Requests,     \* incoming requests, each from a sender of its own
    Files,        \* the paths that can be picked
    MaxPicked,    \* bound: files in one share
    MaxStarts,    \* bound: servers started
    FileMode      \* was the CLI started with --file?

ASSUME BoundAssumption == MaxStarts \in Nat \ {0} /\ MaxPicked \in Nat
ASSUME ModeAssumption  == FileMode \in BOOLEAN

VARIABLES
    web,        \* App.web
    picker,     \* the picker for the files to share is open and has the keys
    server,     \* what listens: the encrypted server, one with a page, nothing
    gen,        \* which start_with_port the server came from
    page,       \* the WebDownloadConfig.files of that start: <<id, file>>
    paths,      \* the paths of App.web, a WebMode::Share: <<id, file>>
    fresh,      \* file ids given out so far (each Uuid::new_v4 is a new one)
    downloads,  \* FileDownload events in web_rx: <<file_id, file>>
    served,     \* history: <<file a download asked for, file it was sent>>
    stage,      \* request -> where the App has it
    born,       \* request -> the start it arrived at
    offered,    \* request -> its prompt offered P
    paired      \* requests whose sender was paired

linkVars == <<web, picker, server, gen, page, paths, fresh>>
fileVars == <<downloads, served>>
reqVars  == <<stage, born, offered, paired>>
vars     == <<web, picker, server, gen, page, paths, fresh, downloads,
              served, stage, born, offered, paired>>

Starts == 1..MaxStarts

TypeOK ==
    /\ web       \in {"none", "share", "receive"}
    /\ picker    \in BOOLEAN
    /\ server    \in {"encrypted", "upload", "download", "down"}
    /\ gen       \in Starts
    /\ page      \subseteq Nat \X Files
    /\ paths     \subseteq Nat \X Files
    /\ fresh     \in Nat
    /\ downloads \subseteq Nat \X Files
    /\ served    \subseteq Files \X Files
    /\ stage     \in [Requests -> {"new", "queued", "prompted", "receiving", "over"}]
    /\ born      \in [Requests -> Starts]
    /\ offered   \in [Requests -> BOOLEAN]
    /\ paired    \subseteq Requests

Init ==
    /\ web       = "none"
    /\ picker    = FALSE
    /\ server    = "encrypted"
    /\ gen       = 1
    /\ page      = {}
    /\ paths     = {}
    /\ fresh     = 0
    /\ downloads = {}
    /\ served    = {}
    /\ stage     = [r \in Requests |-> "new"]
    /\ born      = [r \in Requests |-> 1]
    /\ offered   = [r \in Requests |-> FALSE]
    /\ paired    = {}

At(st)    == {r \in Requests : stage[r] = st}
Live(r)   == born[r] = gen /\ server # "down"
ReceiveActive == At("prompted") \cup At("receiving") # {}

(***************************************************************************)
(* restart_server: the old server is stopped in any case, and the new one  *)
(* listens unless its start fails.                                         *)
(***************************************************************************)
Restart(mode, files, from) ==
    /\ from < MaxStarts
    /\ gen'    = from + 1
    /\ page'   = files
    /\ server' \in {mode, "down"}

\* (mutant) the link is switched on before the plain server is known to listen.
LinkBeforeServer(mode, link, files) ==
    /\ web' = link /\ paths' = files
    /\ \/ Restart(mode, files, gen)
       \/ Restart("encrypted", {}, gen + 1)

\* A failed start of a plain server is followed by a best-effort start of the
\* encrypted one.
RestartPlain(mode, link, files) ==
    \/ /\ Restart(mode, files, gen)
       /\ server' = mode
       /\ web'    = link
       /\ paths'  = files
    \/ /\ Restart("encrypted", {}, gen + 1)
       /\ UNCHANGED <<web, paths>>

\* (mutant) a file's id is its place among the picked ones.
ListedByPlace(n, picked) == {<<i, picked[i]>> : i \in 1..n}

\* collect_files: a new id for each file, for the page and the App alike.
Listed(n, picked) == {<<fresh + i, picked[i]>> : i \in 1..n}

\* enable_web_share; nothing happens when no picked path is a file.
EnableWebShare ==
    \/ \E n \in 1..MaxPicked : \E picked \in [1..n -> Files] :
          /\ RestartPlain("download", "share", Listed(n, picked))
          /\ fresh' = fresh + n
    \/ UNCHANGED <<web, server, gen, page, paths, fresh>>

\* disable_web: the link is off whether or not the server comes back.
DisableWeb ==
    /\ web'   = "none"
    /\ paths' = {}
    /\ Restart("encrypted", {}, gen)
    /\ UNCHANGED fresh

(***************************************************************************)
(* Keys.                                                                   *)
(***************************************************************************)
\* W+S.  The other mode and an active receive are refused with a log line.
ToggleWebShare ==
    /\ ~picker
    /\ \/ /\ web = "share"
          /\ DisableWeb
          /\ UNCHANGED picker
       \/ /\ web = "none" /\ ~ReceiveActive
          /\ IF FileMode
             THEN EnableWebShare /\ UNCHANGED picker
             ELSE picker' = TRUE /\ UNCHANGED <<web, server, gen, page, paths, fresh>>
    /\ UNCHANGED fileVars /\ UNCHANGED reqVars

\* Enter in the picker: shares what was picked, whatever has come in since.
Picked ==
    /\ picker
    /\ picker' = FALSE
    /\ EnableWebShare
    /\ UNCHANGED fileVars /\ UNCHANGED reqVars

PickerCancelled ==
    /\ picker
    /\ picker' = FALSE
    /\ UNCHANGED <<web, server, gen, page, paths, fresh>>
    /\ UNCHANGED fileVars /\ UNCHANGED reqVars

\* W+R.
ToggleWebReceive ==
    /\ ~picker
    /\ \/ web = "receive" /\ DisableWeb
       \/ /\ web = "none" /\ ~ReceiveActive
          /\ RestartPlain("upload", "receive", {})
          /\ UNCHANGED fresh
    /\ UNCHANGED picker
    /\ UNCHANGED fileVars /\ UNCHANGED reqVars

\* Y and P: P pairs unless "receive via link" is on, and pairs before it is
\* known whether the request is still there to be answered.  One whose server
\* was stopped may be, as the stop is only waited for three seconds.
Answer(r, pair) ==
    /\ ~picker /\ stage[r] = "prompted"
    /\ paired' = IF pair /\ web # "receive" THEN paired \cup {r} ELSE paired
    /\ \/ stage' = [stage EXCEPT ![r] = "receiving"]
       \/ ~Live(r) /\ stage' = [stage EXCEPT ![r] = "over"]
    /\ UNCHANGED <<born, offered>>
    /\ UNCHANGED linkVars /\ UNCHANGED fileVars

(***************************************************************************)
(* Events of the server.                                                   *)
(***************************************************************************)
\* A request arrives at the server, which takes one session at a time.
Arrive(r) ==
    /\ stage[r] = "new" /\ server # "down"
    /\ \A q \in Requests : stage[q] \in {"queued", "prompted", "receiving"} =>
                               born[q] # gen
    /\ stage' = [stage EXCEPT ![r] = "queued"]
    /\ born'  = [born EXCEPT ![r] = gen]
    /\ UNCHANGED <<offered, paired>>
    /\ UNCHANGED linkVars /\ UNCHANGED fileVars

\* The App prompts, replacing the prompt it may still show; P is only offered
\* while "receive via link" is off.
HandlePrepareUpload(r) ==
    /\ stage[r] = "queued"
    /\ stage' = [q \in Requests |-> IF q = r THEN "prompted"
                                    ELSE IF stage[q] = "prompted" THEN "over"
                                    ELSE stage[q]]
    /\ offered' = [offered EXCEPT ![r] = web # "receive"]
    /\ UNCHANGED <<born, paired>>
    /\ UNCHANGED linkVars /\ UNCHANGED fileVars

\* Declined, withdrawn, finished or cancelled, see CliReceive.
HandleOver(r) ==
    /\ stage[r] \in {"prompted", "receiving"}
    /\ stage' = [stage EXCEPT ![r] = "over"]
    /\ UNCHANGED <<born, offered, paired>>
    /\ UNCHANGED linkVars /\ UNCHANGED fileVars

\* The listener fails by itself.
ListenerFailed ==
    /\ server # "down"
    /\ server' = "down"
    /\ UNCHANGED <<web, picker, gen, page, paths, fresh>>
    /\ UNCHANGED fileVars /\ UNCHANGED reqVars

\* A browser asks for a file of the page that is served; the event carries the
\* id and what the page says of it.  It may be taken much later.
Download ==
    /\ server = "download"
    /\ \E p \in page : downloads' = downloads \cup {p}
    /\ UNCHANGED served
    /\ UNCHANGED linkVars /\ UNCHANGED reqVars

\* handle_web_event: the id is looked up in what App.web shares by now; when it
\* is not there the download fails.
HandleFileDownload(d) ==
    /\ d \in downloads
    /\ downloads' = downloads \ {d}
    /\ LET found == {p \in paths : web = "share" /\ p[1] = d[1]}
       IN  served' = served \cup {<<d[2], p[2]>> : p \in found}
    /\ UNCHANGED linkVars /\ UNCHANGED reqVars

Key == \/ ToggleWebShare \/ Picked \/ PickerCancelled \/ ToggleWebReceive
       \/ \E r \in Requests, pair \in BOOLEAN : Answer(r, pair)

Event == \/ \E r \in Requests : Arrive(r) \/ HandlePrepareUpload(r) \/ HandleOver(r)
         \/ ListenerFailed \/ Download
         \/ \E d \in downloads : HandleFileDownload(d)

Next == Key \/ Event

Spec == Init /\ [][Next]_vars

(***************************************************************************)
(* Properties.                                                             *)
(***************************************************************************)
\* Whatever fails on the way, what listens is what App.web says: no page and
\* no plain HTTP without a link, no encrypted server behind a link.
ServerMatchesLink ==
    server # "down" =>
        server = CASE web = "none"    -> "encrypted"
                   [] web = "share"   -> "download"
                   [] web = "receive" -> "upload"

\* "Only one at a time": no link is switched on over another one, although
\* Picked does not repeat the check that toggle_web_share made.
OneLinkAtATime == [][web # "none" /\ web' # web => web' = "none"]_web

\* What a browser is sent is the file its page named, although the page is the
\* server's, the paths are the App's, and both may be those of a later share
\* when the request is taken.
SentAsListed == \A d \in served : d[1] = d[2]

(***************************************************************************)
(* The inductive invariant.                                                *)
(***************************************************************************)
\* The picker for files to share is open only while no link is on.
PickerMeansNoLink == picker => web = "none"

\* Wherever an id is still known it stands for the same file, and the ids to
\* come are known nowhere yet.
KnownIds == page \cup paths \cup downloads
IdsAreFresh == \A p \in KnownIds : p[1] <= fresh
OneFileAnId == \A p, q \in KnownIds : p[1] = q[1] => p[2] = q[2]

IInv == /\ ServerMatchesLink /\ PickerMeansNoLink
        /\ IdsAreFresh /\ OneFileAnId /\ SentAsListed

\* The state is well typed, and link, picker, listener and downloads agree.
Inv == TypeOK /\ IInv
=============================================================================
