----------------------------- MODULE CliStorage -----------------------------
(***************************************************************************)
(* The directory the LocalSend CLI keeps its files in, and the processes   *)
(* that share it (storage/mod.rs, config.rs, identity.rs, paired.rs).      *)
(*                                                                         *)
(* A process loads the paired devices and the identity at its start, then  *)
(* listens on its port, and from then on changes the paired devices in     *)
(* memory and saves them, one handler at a time.  Every call of the file   *)
(* system is a step of its own: between two of them the process can die    *)
(* and another one can act.  The build modelled is the Unix one.           *)
(***************************************************************************)
EXTENDS Naturals

CONSTANTS
    Procs,       \* processes of the CLI
    Fps,         \* certificate fingerprints of other devices
    Infos,       \* what is kept of a paired device: alias and channels
    Ids,         \* identities of this device, one per generated certificate
    None,        \* no file, no device
    Empty,       \* a file just created or truncated
    Torn,        \* a file no reader can parse
    Newer        \* a paired file of a version this build does not support

Contents == [Fps -> Infos \cup {None}]
Nothing  == [f \in Fps |-> None]
Bad      == {Empty, Torn}

ASSUME ValueAssumption ==
    /\ None \notin Infos
    /\ None \notin Contents /\ Empty \notin Contents
    /\ Torn \notin Contents /\ Newer \notin Contents
    /\ None \notin Ids /\ Empty \notin Ids /\ Torn \notin Ids
    /\ None \notin {Empty, Torn, Newer} /\ Newer \notin {Empty, Torn} /\ Empty # Torn

VARIABLES
    onePort,     \* the processes are given one and the same port
    idFile,      \* identity.pem
    disk,        \* paired-v2.json
    temp,        \* paired-v2.json.tmp
    pc,          \* process -> where it is
    identity,    \* process -> the identity it loaded or generated
    devices,     \* process -> PairedDevices.file.devices
    open,        \* process -> where the file it has open for writing is now
    dirty,       \* history: fingerprints changed since the file had the map
    stale        \* history: another process has saved since the load

files   == <<idFile, disk, temp>>
history == <<dirty, stale>>
memory  == <<identity, devices, open>>
vars    == <<onePort, idFile, disk, temp, pc, identity, devices, open, dirty, stale>>

Starting == {"paired", "identity", "keyless", "created", "ready"}
Up       == {"up", "saving", "opened", "written"}
Loaded   == {"identity", "keyless", "created", "ready"} \cup Up
Named    == {"ready"} \cup Up

TypeOK ==
    /\ onePort  \in BOOLEAN
    /\ idFile   \in Ids \cup {None} \cup Bad
    /\ disk     \in Contents \cup {None, Newer} \cup Bad
    /\ temp     \in Contents \cup {None} \cup Bad
    /\ pc       \in [Procs -> {"off"} \cup Starting \cup Up]
    /\ identity \in [Procs -> Ids \cup {None}]
    /\ devices  \in [Procs -> Contents]
    /\ open     \in [Procs -> {"none", "temp", "disk", "gone"}]
    /\ dirty    \in [Procs -> SUBSET Fps]
    /\ stale    \in [Procs -> BOOLEAN]

Init ==
    /\ onePort  \in BOOLEAN
    /\ idFile   = None
    /\ disk     \in {None, Newer}
    /\ temp     = None
    /\ pc       = [p \in Procs |-> "off"]
    /\ identity = [p \in Procs |-> None]
    /\ devices  = [p \in Procs |-> Nothing]
    /\ open     = [p \in Procs |-> "none"]
    /\ dirty    = [p \in Procs |-> {}]
    /\ stale    = [p \in Procs |-> FALSE]

At(p, here)  == pc[p] = here
Go(p, there) == pc' = [pc EXCEPT ![p] = there] /\ UNCHANGED onePort

\* The process ends, and its memory with it.
Off(p) ==
    /\ Go(p, "off")
    /\ identity' = [identity EXCEPT ![p] = None]
    /\ devices'  = [devices EXCEPT ![p] = Nothing]
    /\ open'     = [open EXCEPT ![p] = "none"]
    /\ dirty'    = [dirty EXCEPT ![p] = {}]
    /\ stale'    = [stale EXCEPT ![p] = FALSE]

(***************************************************************************)
(* Starting.                                                               *)
(***************************************************************************)
\* main, Repository::load up to PairedDevices::load.  A config file that
\* cannot be read ends the process here, which changes nothing; the template
\* written when there is none is read as no settings, however much of it is
\* there.
Start(p) ==
    /\ At(p, "off")
    /\ Go(p, "paired")
    /\ UNCHANGED memory /\ UNCHANGED files /\ UNCHANGED history

\* What a start takes over from a paired file it accepts.
Take(p, map) ==
    /\ Go(p, "identity")
    /\ devices' = [devices EXCEPT ![p] = map]
    /\ UNCHANGED <<identity, open>> /\ UNCHANGED history

\* (mutant) a file of another version is read as an empty one.
LoadPairedAnyVersion(p) ==
    /\ At(p, "paired")
    /\ \/ disk \in {None, Newer} /\ Take(p, Nothing)
       \/ disk \in Contents /\ Take(p, disk)
       \/ disk \in Bad /\ Off(p)
    /\ UNCHANGED files

\* PairedDevices::load: a missing file is an empty one, any other file that
\* is not of this version and whole ends the process.
LoadPaired(p) ==
    /\ At(p, "paired")
    /\ \/ disk = None /\ Take(p, Nothing)
       \/ disk \in Contents /\ Take(p, disk)
       \/ disk \in Bad \cup {Newer} /\ Off(p)
    /\ UNCHANGED files

\* Identity::load_or_generate up to save: a missing file makes the process
\* generate an identity no one has, an unusable one ends it.
Use(p, i, there) ==
    /\ Go(p, there)
    /\ identity' = [identity EXCEPT ![p] = i]
    /\ UNCHANGED <<devices, open>> /\ UNCHANGED history

LoadIdentity(p) ==
    /\ At(p, "identity")
    /\ \/ idFile \in Ids /\ Use(p, idFile, "ready")
       \/ /\ idFile = None
          /\ \E i \in Ids \ {identity[q] : q \in Procs} : Use(p, i, "keyless")
       \/ idFile \in Bad /\ Off(p)
    /\ UNCHANGED files

\* (mutant) the file is opened whether or not it exists, as fs::write does.
CreateIdentityAnyway(p) ==
    /\ At(p, "keyless")
    /\ idFile' = Empty
    /\ Go(p, "created")
    /\ UNCHANGED memory /\ UNCHANGED history /\ UNCHANGED <<disk, temp>>

\* Identity::save: create_new, which fails when another process was faster
\* (and may fail for other reasons).
CreateIdentity(p) ==
    /\ At(p, "keyless")
    /\ \/ /\ idFile = None /\ idFile' = Empty
          /\ Go(p, "created")
          /\ UNCHANGED memory /\ UNCHANGED history
       \/ Off(p) /\ UNCHANGED idFile
    /\ UNCHANGED <<disk, temp>>

\* Identity::save: write_all, which may fail halfway.
WriteIdentity(p) ==
    /\ At(p, "created")
    /\ \/ /\ idFile' = identity[p]
          /\ Go(p, "ready")
          /\ UNCHANGED memory /\ UNCHANGED history
       \/ Off(p) /\ idFile' \in Bad
    /\ UNCHANGED <<disk, temp>>

\* run: start_with_port succeeds unless another process listens on the port.
Listen(p) ==
    /\ At(p, "ready")
    /\ IF onePort /\ \E q \in Procs : pc[q] \in Up
       THEN Off(p)
       ELSE Go(p, "up") /\ UNCHANGED memory /\ UNCHANGED history
    /\ UNCHANGED files

(***************************************************************************)
(* Changing and saving the paired devices.  The handlers run one after the *)
(* other in the event loop, and save is not awaited.                       *)
(***************************************************************************)
Set(p, f, info) ==
    /\ devices' = [devices EXCEPT ![p][f] = info]
    /\ dirty'   = [dirty EXCEPT ![p] = @ \cup {f}]
    /\ Go(p, "saving")
    /\ UNCHANGED <<identity, open, stale>> /\ UNCHANGED files

\* PairedDevices::insert, for an answer with P or P in the device list.
Insert(p) ==
    /\ At(p, "up")
    /\ \E f \in Fps, info \in Infos : Set(p, f, info)

\* PairedDevices::update, for a confirmation: nothing without a change.
Update(p) ==
    /\ At(p, "up")
    /\ \E f \in Fps, info \in Infos :
         /\ devices[p][f] \notin {None, info}
         /\ Set(p, f, info)

\* PairedDevices::remove.
Remove(p) ==
    /\ At(p, "up")
    /\ \E f \in Fps : devices[p][f] # None /\ Set(p, f, None)

\* (mutant) the file itself is opened instead of a temporary one.
OpenTempInPlace(p) ==
    /\ At(p, "saving")
    /\ disk' = Empty /\ temp' = Empty
    /\ open' = [open EXCEPT ![p] = "temp"]
    /\ Go(p, "opened")
    /\ UNCHANGED <<identity, devices, idFile>> /\ UNCHANGED history

\* save: fs::write creates or truncates the temporary file, or fails.
OpenTemp(p) ==
    /\ At(p, "saving")
    /\ \/ /\ temp' = Empty
          /\ open' = [open EXCEPT ![p] = "temp"]
          /\ Go(p, "opened")
       \/ Go(p, "up") /\ UNCHANGED <<temp, open>>
    /\ UNCHANGED <<identity, devices, idFile, disk>> /\ UNCHANGED history

\* What a file holds once `whole` was written from its start: over the text
\* of another writer, a tail of that may be left.
Over(before, whole) == IF before = Empty THEN {whole} ELSE {whole, Torn}

\* (mutant) only the devices changed since the last save are written.
WriteTempChanges(p) ==
    /\ At(p, "opened")
    /\ temp' = [f \in Fps |-> IF f \in dirty[p] THEN devices[p][f] ELSE None]
    /\ open' = [open EXCEPT ![p] = "none"]
    /\ Go(p, "written")
    /\ UNCHANGED <<identity, devices, idFile, disk>> /\ UNCHANGED history

\* save: fs::write writes the text, to the file that was opened, wherever a
\* rename of another process has put it, and closes it; it may fail halfway.
WriteTemp(p) ==
    /\ At(p, "opened")
    /\ \/ Go(p, "written")
       \/ Go(p, "up")
    /\ LET After(before) == IF pc'[p] = "up" THEN {before, Torn} ELSE Over(before, devices[p])
       IN \/ open[p] = "temp" /\ temp' \in After(temp) /\ UNCHANGED disk
          \/ open[p] = "disk" /\ disk' \in After(disk) /\ UNCHANGED temp
          \/ open[p] = "gone" /\ UNCHANGED <<disk, temp>>
    /\ open' = [open EXCEPT ![p] = "none"]
    /\ UNCHANGED <<identity, devices, idFile>> /\ UNCHANGED history

\* save: fs::rename; without a temporary file, and for other reasons, it
\* fails.  Files that other processes have open move with it.
RenameTemp(p) ==
    /\ At(p, "written")
    /\ \/ /\ temp # None
          /\ disk' = temp /\ temp' = None
          /\ open' = [q \in Procs |-> CASE open[q] = "temp" -> "disk"
                                        [] open[q] = "disk" -> "gone"
                                        [] OTHER -> open[q]]
          /\ dirty' = [dirty EXCEPT ![p] = {}]
          /\ stale' = [q \in Procs |-> q # p /\ pc[q] \in Loaded]
       \/ UNCHANGED <<disk, temp, open, dirty, stale>>
    /\ Go(p, "up")
    /\ UNCHANGED <<identity, devices, idFile>>

\* The process quits, gives up or is killed.
Die(p) ==
    /\ pc[p] # "off"
    /\ Off(p)
    /\ UNCHANGED files

\* The user follows the message of a refused start and deletes the identity
\* while no process is left.
DeleteIdentity ==
    /\ idFile \in Bad
    /\ \A p \in Procs : At(p, "off")
    /\ idFile' = None
    /\ UNCHANGED <<onePort, disk, temp, pc>> /\ UNCHANGED memory /\ UNCHANGED history

Next ==
    \/ \E p \in Procs :
         \/ Start(p) \/ LoadPaired(p) \/ LoadIdentity(p)
         \/ CreateIdentity(p) \/ WriteIdentity(p) \/ Listen(p)
         \/ Insert(p) \/ Update(p) \/ Remove(p)
         \/ OpenTemp(p) \/ WriteTemp(p) \/ RenameTemp(p) \/ Die(p)
    \/ DeleteIdentity

Spec == Init /\ [][Next]_vars

(***************************************************************************)
(* Properties.                                                             *)
(***************************************************************************)
\* A process that has come as far as to use its identity uses the one in
\* identity.pem: however starts, crashes and first runs overlap, a later
\* start has the same fingerprint, so the pairings survive (identity.rs).
OneIdentity == \A p \in Procs : pc[p] \in Named => idFile = identity[p]

\* paired-v2.json is at every moment missing or whole, wherever a crash has
\* cut a save: the next start can read it (save writes, then renames).
CrashSafe == disk \notin Bad

\* ... which holds as long as the processes have one port, for then only one
\* of them saves.
FileWhole == onePort => CrashSafe

\* While no other process has saved since its load, what a process has in
\* memory and what a restart would find differ at most in the devices whose
\* change is being saved or could not be saved: no failed or cut save ever
\* costs another pairing.
MemoryOnDisk ==
    \A p \in Procs :
        onePort /\ pc[p] \in Loaded /\ ~stale[p] =>
            \A f \in Fps \ dirty[p] :
                devices[p][f] = IF disk \in Contents THEN disk[f] ELSE None

\* With one port the file behaves as AtomicStore promises.
Promise == INSTANCE AtomicStore WITH
    store <- IF onePort THEN disk ELSE None,
    copy  <- [p \in Procs |-> IF onePort /\ pc[p] \in Loaded THEN devices[p] ELSE None]

Atomic == Promise!Spec

(***************************************************************************)
(* The inductive invariant.                                                *)
(***************************************************************************)
\* At most one process is between create_new and write_all, and it finds the
\* file as it left it.
OneCreator ==
    \A p \in Procs : pc[p] = "created" =>
        /\ idFile = Empty
        /\ \A q \in Procs : pc[q] = "created" => q = p

HasIdentity ==
    \A p \in Procs : pc[p] \in Named \cup {"keyless", "created"} => identity[p] \in Ids

\* What a port shared by all gives: one process that changes anything, and
\* the temporary file is its own.
OneUp == onePort => \A p, q \in Procs : pc[p] \in Up /\ pc[q] \in Up => p = q

OwnTemp ==
    onePort => \A p \in Procs :
        /\ pc[p] = "opened" => open[p] = "temp" /\ temp = Empty
        /\ pc[p] = "written" => temp = devices[p]

\* No process works over a file it does not understand.
NotNewer == (\E p \in Procs : pc[p] \in Loaded) => disk # Newer

IInv == OneIdentity /\ OneCreator /\ HasIdentity /\ OneUp /\ OwnTemp /\ FileWhole /\ NotNewer
        /\ MemoryOnDisk

\* The state is well typed, and what processes have in memory, under way and
\* on disk fits together whatever has crashed or failed.
Inv == TypeOK /\ IInv
=============================================================================
