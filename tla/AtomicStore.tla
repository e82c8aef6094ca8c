---------------------------- MODULE AtomicStore ----------------------------
(***************************************************************************)
(* What the CLI's paired devices file promises (storage/paired.rs): the    *)
(* file is either missing or whole, a process opens a copy of it, works on *)
(* the copy, and at any moment stores the whole copy in one step.  Nothing *)
(* else ever changes the file.                                             *)
(***************************************************************************)
CONSTANTS
    Procs,       \* processes of the CLI that use one directory
    Contents,    \* the maps a file can hold
    Nothing,     \* the map a missing file stands for
    None,        \* no file, or no copy
    Newer        \* a file of a version this build does not support

VARIABLES
    store,       \* the file
    copy         \* process -> its copy

Init ==
    /\ store \in Contents \cup {None, Newer}
    /\ copy = [p \in Procs |-> None]

Open(p) ==
    /\ copy[p] = None
    /\ store # Newer
    /\ copy' = [copy EXCEPT ![p] = IF store = None THEN Nothing ELSE store]
    /\ UNCHANGED store

Change(p) ==
    /\ copy[p] # None
    /\ \E c \in Contents : copy' = [copy EXCEPT ![p] = c]
    /\ UNCHANGED store

Commit(p) ==
    /\ copy[p] # None
    /\ store' = copy[p]
    /\ UNCHANGED copy

Close(p) ==
    /\ copy[p] # None
    /\ copy' = [copy EXCEPT ![p] = None]
    /\ UNCHANGED store

Next == \E p \in Procs : Open(p) \/ Change(p) \/ Commit(p) \/ Close(p)

Spec == Init /\ [][Next]_<<store, copy>>
=============================================================================
