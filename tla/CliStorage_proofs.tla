-------------------------- MODULE CliStorage_proofs --------------------------
(***************************************************************************)
(* Proofs about CliStorage, for any number of processes, of other devices  *)
(* and of identities.                                                      *)
(***************************************************************************)
EXTENDS CliStorage, TLAPS

\* The map of a missing file is a map, and setting an entry leaves one.
LEMMA NothingIsContents == Nothing \in Contents
BY DEF Nothing, Contents

LEMMA SetIsContents ==
    ASSUME NEW c \in Contents, NEW f \in Fps, NEW info \in Infos \cup {None}
    PROVE  [c EXCEPT ![f] = info] \in Contents
BY DEF Contents

\* The end of a process, whatever ended it, keeps the invariant.
LEMMA OffStep ==
    ASSUME TypeOK, IInv, NEW p \in Procs, Off(p), UNCHANGED <<disk, temp>>,
           idFile' \in Ids \cup {None} \cup Bad,
           \A q \in Procs : q # p /\ pc[q] \in Named \cup {"created"} => idFile' = idFile
    PROVE  TypeOK' /\ IInv'
<1> USE DEF Off, Go, Loaded, Named, Starting, Up
<1>1. TypeOK'
  BY NothingIsContents DEF TypeOK
<1>2. \A q \in Procs : pc'[q] = IF q = p THEN "off" ELSE pc[q]
  BY DEF TypeOK
<1>3. \A q \in Procs : q # p => /\ identity'[q] = identity[q]
                                /\ devices'[q] = devices[q]
                                /\ open'[q] = open[q]
                                /\ dirty'[q] = dirty[q]
                                /\ stale'[q] = stale[q]
  BY DEF TypeOK
<1>4. OneIdentity' /\ OneCreator' /\ HasIdentity'
  BY <1>2, <1>3 DEF IInv, OneIdentity, OneCreator, HasIdentity
<1>5. OneUp' /\ OwnTemp' /\ NotNewer'
  BY <1>2, <1>3 DEF IInv, OneUp, OwnTemp, NotNewer
<1>6. FileWhole'
  BY DEF IInv, FileWhole, CrashSafe
<1>7. MemoryOnDisk'
  BY <1>2, <1>3 DEF IInv, MemoryOnDisk
<1> QED BY <1>1, <1>4, <1>5, <1>6, <1>7 DEF IInv

LEMMA StartStep ==
    ASSUME TypeOK, IInv, NEW p \in Procs, Start(p)
    PROVE  TypeOK' /\ IInv'
<1> USE DEF Start, At, Go, memory, files, history, Loaded, Named, Starting, Up
<1>1. TypeOK'
  BY DEF TypeOK
<1>2. \A q \in Procs : pc'[q] = IF q = p THEN "paired" ELSE pc[q]
  BY DEF TypeOK
<1>3. OneIdentity' /\ OneCreator' /\ HasIdentity' /\ OneUp' /\ OwnTemp' /\ NotNewer'
  BY <1>2 DEF IInv, OneIdentity, OneCreator, HasIdentity, OneUp, OwnTemp, NotNewer
<1>4. FileWhole' /\ MemoryOnDisk'
  BY <1>2 DEF IInv, FileWhole, CrashSafe, MemoryOnDisk
<1> QED BY <1>1, <1>3, <1>4 DEF IInv

LEMMA LoadPairedStep ==
    ASSUME TypeOK, IInv, NEW p \in Procs, LoadPaired(p)
    PROVE  TypeOK' /\ IInv'
<1>1. CASE Off(p)
  BY <1>1, OffStep DEF LoadPaired, files, TypeOK
<1>2. ASSUME NEW map \in Contents, Take(p, map), disk # Newer,
             map = IF disk \in Contents THEN disk ELSE Nothing
      PROVE  TypeOK' /\ IInv'
  <2> USE <1>2 DEF LoadPaired, At, Take, Go, files, history, Loaded, Named, Starting, Up
  <2>1. TypeOK'
    BY DEF TypeOK
  <2>2. \A q \in Procs : pc'[q] = IF q = p THEN "identity" ELSE pc[q]
    BY DEF TypeOK
  <2>3. \A q \in Procs : devices'[q] = IF q = p THEN map ELSE devices[q]
    BY DEF TypeOK
  <2>4. OneIdentity' /\ OneCreator' /\ HasIdentity' /\ OneUp' /\ OwnTemp' /\ NotNewer'
    BY <2>2, <2>3 DEF IInv, OneIdentity, OneCreator, HasIdentity, OneUp, OwnTemp, NotNewer
  <2>5. FileWhole' /\ MemoryOnDisk'
    BY <2>2, <2>3 DEF IInv, FileWhole, CrashSafe, MemoryOnDisk, Nothing
  <2> QED BY <2>1, <2>4, <2>5 DEF IInv
<1> QED BY <1>1, <1>2, NothingIsContents, ValueAssumption DEF LoadPaired

LEMMA LoadIdentityStep ==
    ASSUME TypeOK, IInv, NEW p \in Procs, LoadIdentity(p)
    PROVE  TypeOK' /\ IInv'
<1>1. CASE Off(p)
  BY <1>1, OffStep DEF LoadIdentity, files, TypeOK
<1>2. ASSUME NEW i \in Ids, NEW there \in {"ready", "keyless"}, Use(p, i, there),
             there = "ready" => i = idFile
      PROVE  TypeOK' /\ IInv'
  <2> USE <1>2 DEF LoadIdentity, At, Use, Go, files, history, Loaded, Named, Starting, Up
  <2>1. TypeOK'
    BY DEF TypeOK
  <2>2. \A q \in Procs : pc'[q] = IF q = p THEN there ELSE pc[q]
    BY DEF TypeOK
  <2>3. \A q \in Procs : identity'[q] = IF q = p THEN i ELSE identity[q]
    BY DEF TypeOK
  <2>4. OneIdentity' /\ OneCreator' /\ HasIdentity' /\ OneUp' /\ OwnTemp' /\ NotNewer'
    BY <2>2, <2>3 DEF IInv, OneIdentity, OneCreator, HasIdentity, OneUp, OwnTemp, NotNewer
  <2>5. FileWhole' /\ MemoryOnDisk'
    BY <2>2 DEF IInv, FileWhole, CrashSafe, MemoryOnDisk
  <2> QED BY <2>1, <2>4, <2>5 DEF IInv
<1> QED BY <1>1, <1>2 DEF LoadIdentity

LEMMA CreateIdentityStep ==
    ASSUME TypeOK, IInv, NEW p \in Procs, CreateIdentity(p)
    PROVE  TypeOK' /\ IInv'
<1>1. CASE Off(p) /\ UNCHANGED idFile
  BY <1>1, OffStep DEF CreateIdentity, TypeOK
<1>2. CASE /\ idFile = None /\ idFile' = Empty
           /\ Go(p, "created") /\ UNCHANGED memory /\ UNCHANGED history
  <2> USE <1>2 DEF CreateIdentity, At, Go, memory, history, Loaded, Named, Starting, Up
  <2>1. TypeOK'
    BY DEF TypeOK, Bad
  <2>2. \A q \in Procs : pc'[q] = IF q = p THEN "created" ELSE pc[q]
    BY DEF TypeOK
  <2>3. \A q \in Procs : pc[q] \notin Named \cup {"created"}
    BY ValueAssumption DEF IInv, OneIdentity, OneCreator, HasIdentity, TypeOK
  <2>4. OneIdentity' /\ OneCreator' /\ HasIdentity'
    BY <2>2, <2>3 DEF IInv, OneIdentity, OneCreator, HasIdentity, TypeOK
  <2>5. OneUp' /\ OwnTemp' /\ NotNewer' /\ FileWhole' /\ MemoryOnDisk'
    BY <2>2 DEF IInv, OneUp, OwnTemp, NotNewer, FileWhole, CrashSafe, MemoryOnDisk
  <2> QED BY <2>1, <2>4, <2>5 DEF IInv
<1> QED BY <1>1, <1>2 DEF CreateIdentity

LEMMA WriteIdentityStep ==
    ASSUME TypeOK, IInv, NEW p \in Procs, WriteIdentity(p)
    PROVE  TypeOK' /\ IInv'
<1>0. \A q \in Procs : q # p => pc[q] \notin Named \cup {"created"}
  <2> SUFFICES ASSUME NEW q \in Procs, q # p, pc[q] \in Named
               PROVE  FALSE
    BY DEF WriteIdentity, At, IInv, OneCreator
  <2>1. idFile = Empty /\ idFile = identity[q] /\ identity[q] \in Ids
    BY DEF WriteIdentity, At, IInv, OneCreator, OneIdentity, HasIdentity
  <2> QED BY <2>1, ValueAssumption
<1>1. CASE Off(p) /\ idFile' \in Bad
  BY <1>0, <1>1, OffStep DEF WriteIdentity, TypeOK
<1>2. CASE /\ idFile' = identity[p] /\ Go(p, "ready")
           /\ UNCHANGED memory /\ UNCHANGED history
  <2> USE <1>2 DEF WriteIdentity, At, Go, memory, history, Loaded, Named, Starting, Up
  <2>0. identity[p] \in Ids
    BY DEF IInv, HasIdentity
  <2>1. TypeOK'
    BY <2>0 DEF TypeOK
  <2>2. \A q \in Procs : pc'[q] = IF q = p THEN "ready" ELSE pc[q]
    BY DEF TypeOK
  <2>3. OneIdentity' /\ OneCreator' /\ HasIdentity'
    BY <1>0, <2>0, <2>2 DEF IInv, OneIdentity, OneCreator, HasIdentity
  <2>4. OneUp' /\ OwnTemp' /\ NotNewer' /\ FileWhole' /\ MemoryOnDisk'
    BY <2>2 DEF IInv, OneUp, OwnTemp, NotNewer, FileWhole, CrashSafe, MemoryOnDisk
  <2> QED BY <2>1, <2>3, <2>4 DEF IInv
<1> QED BY <1>1, <1>2 DEF WriteIdentity

LEMMA ListenStep ==
    ASSUME TypeOK, IInv, NEW p \in Procs, Listen(p)
    PROVE  TypeOK' /\ IInv'
<1>1. CASE Off(p)
  BY <1>1, OffStep DEF Listen, files, TypeOK
<1>2. CASE /\ onePort => \A q \in Procs : pc[q] \notin Up
           /\ Go(p, "up") /\ UNCHANGED memory /\ UNCHANGED history
  <2> USE <1>2 DEF Listen, At, Go, memory, history, files, Loaded, Named, Starting, Up
  <2>1. TypeOK'
    BY DEF TypeOK
  <2>2. \A q \in Procs : pc'[q] = IF q = p THEN "up" ELSE pc[q]
    BY DEF TypeOK
  <2>3. OneIdentity' /\ OneCreator' /\ HasIdentity' /\ OneUp'
    BY <2>2 DEF IInv, OneIdentity, OneCreator, HasIdentity, OneUp
  <2>4. OwnTemp' /\ NotNewer' /\ FileWhole' /\ MemoryOnDisk'
    BY <2>2 DEF IInv, OwnTemp, NotNewer, FileWhole, CrashSafe, MemoryOnDisk
  <2> QED BY <2>1, <2>3, <2>4 DEF IInv
<1> QED BY <1>1, <1>2 DEF Listen

\* Insert, Update and Remove set one entry of the map.
LEMMA SetStep ==
    ASSUME TypeOK, IInv, NEW p \in Procs, At(p, "up"),
           NEW f \in Fps, NEW info \in Infos \cup {None}, Set(p, f, info)
    PROVE  TypeOK' /\ IInv'
<1> USE DEF Set, At, Go, files, Loaded, Named, Starting, Up
<1>1. TypeOK'
  <2>1. devices' = [devices EXCEPT ![p] = [devices[p] EXCEPT ![f] = info]]
    BY DEF TypeOK
  <2>0. devices \in [Procs -> Contents] /\ devices[p] \in Contents
    BY DEF TypeOK
  <2>4. [devices[p] EXCEPT ![f] = info] \in Contents
    BY <2>0, SetIsContents
  <2>2. devices' \in [Procs -> Contents]
    BY <2>0, <2>1, <2>4
  <2>3. dirty' \in [Procs -> SUBSET Fps]
    BY DEF TypeOK
  <2> QED BY <2>2, <2>3 DEF TypeOK
<1>2. \A q \in Procs : pc'[q] = IF q = p THEN "saving" ELSE pc[q]
  BY DEF TypeOK
<1>3. \A q \in Procs : q # p => devices'[q] = devices[q] /\ dirty'[q] = dirty[q]
  BY DEF TypeOK
<1>4. /\ dirty'[p] = dirty[p] \cup {f}
      /\ \A g \in Fps : g # f => devices'[p][g] = devices[p][g]
  BY DEF TypeOK, Contents
<1>5. OneIdentity' /\ OneCreator' /\ HasIdentity' /\ OneUp'
  BY <1>2 DEF IInv, OneIdentity, OneCreator, HasIdentity, OneUp
<1>6. OwnTemp' /\ NotNewer' /\ FileWhole'
  BY <1>2, <1>3 DEF IInv, OwnTemp, NotNewer, FileWhole, CrashSafe
<1>7. MemoryOnDisk'
  BY <1>2, <1>3, <1>4 DEF IInv, MemoryOnDisk
<1> QED BY <1>1, <1>5, <1>6, <1>7 DEF IInv

LEMMA OpenTempStep ==
    ASSUME TypeOK, IInv, NEW p \in Procs, OpenTemp(p)
    PROVE  TypeOK' /\ IInv'
<1> USE DEF OpenTemp, At, Go, history, Loaded, Named, Starting, Up
<1>1. TypeOK'
  BY DEF TypeOK, Bad
<1>2. PICK there \in {"opened", "up"} :
        /\ \A q \in Procs : pc'[q] = IF q = p THEN there ELSE pc[q]
        /\ there = "opened" => open'[p] = "temp" /\ temp' = Empty
        /\ there = "up" => temp' = temp
  BY DEF TypeOK
<1>3. \A q \in Procs : q # p => open'[q] = open[q]
  BY DEF TypeOK
<1>4. OneIdentity' /\ OneCreator' /\ HasIdentity' /\ OneUp' /\ NotNewer'
  BY <1>2 DEF IInv, OneIdentity, OneCreator, HasIdentity, OneUp, NotNewer
<1>5. onePort => \A q \in Procs : q # p => pc[q] \notin Up
  BY DEF IInv, OneUp
<1>6. OwnTemp' /\ FileWhole' /\ MemoryOnDisk'
  BY <1>2, <1>3, <1>5 DEF IInv, OwnTemp, FileWhole, CrashSafe, MemoryOnDisk
<1> QED BY <1>1, <1>4, <1>6 DEF IInv

LEMMA WriteTempStep ==
    ASSUME TypeOK, IInv, NEW p \in Procs, WriteTemp(p)
    PROVE  TypeOK' /\ IInv'
<1> USE DEF WriteTemp, At, Go, history, Loaded, Named, Starting, Up
<1>1. TypeOK'
  <2>1. \A q \in Procs : devices[q] \in Contents
    BY DEF TypeOK
  <2> QED BY <2>1 DEF TypeOK, Over, Bad
<1>2. PICK there \in {"written", "up"} :
        \A q \in Procs : pc'[q] = IF q = p THEN there ELSE pc[q]
  BY DEF TypeOK
<1>3. \A q \in Procs : q # p => open'[q] = open[q]
  BY DEF TypeOK
<1>4. OneIdentity' /\ OneCreator' /\ HasIdentity' /\ OneUp'
  BY <1>2 DEF IInv, OneIdentity, OneCreator, HasIdentity, OneUp
<1>5. NotNewer'
  <2>1. disk # Newer /\ devices[p] \in Contents
    BY DEF IInv, NotNewer, TypeOK
  <2> QED BY <2>1, ValueAssumption DEF NotNewer, Over
<1>6. onePort => /\ \A q \in Procs : q # p => pc[q] \notin Up
                 /\ open[p] = "temp" /\ temp = Empty
  BY DEF IInv, OneUp, OwnTemp
<1>7. onePort => disk' = disk /\ (pc'[p] = "written" => temp' = devices[p])
  BY <1>2, <1>6 DEF Over
<1>8. OwnTemp' /\ FileWhole' /\ MemoryOnDisk'
  BY <1>2, <1>3, <1>6, <1>7 DEF IInv, OwnTemp, FileWhole, CrashSafe, MemoryOnDisk
<1> QED BY <1>1, <1>4, <1>5, <1>8 DEF IInv

LEMMA RenameTempStep ==
    ASSUME TypeOK, IInv, NEW p \in Procs, RenameTemp(p)
    PROVE  TypeOK' /\ IInv'
<1> USE DEF RenameTemp, At, Go, Loaded, Named, Starting, Up
<1>1. TypeOK'
  BY ZenonT(40) DEF TypeOK
<1>2. \A q \in Procs : pc'[q] = IF q = p THEN "up" ELSE pc[q]
  BY DEF TypeOK
<1>3. OneIdentity' /\ OneCreator' /\ HasIdentity' /\ OneUp'
  BY <1>2 DEF IInv, OneIdentity, OneCreator, HasIdentity, OneUp
<1>4. NotNewer'
  BY <1>2, ValueAssumption DEF IInv, NotNewer, TypeOK, Bad
<1>5. onePort => /\ \A q \in Procs : q # p => pc[q] \notin Up
                 /\ temp = devices[p] /\ temp \in Contents
  BY DEF IInv, OneUp, OwnTemp, TypeOK
<1>6. OwnTemp' /\ FileWhole'
  BY <1>2, <1>5, ValueAssumption DEF IInv, OwnTemp, FileWhole, CrashSafe, Bad
<1>7. MemoryOnDisk'
  <2>1. CASE UNCHANGED <<disk, temp, open, dirty, stale>>
    BY <1>2, <2>1 DEF IInv, MemoryOnDisk
  <2>2. CASE disk' = temp /\ stale' = [q \in Procs |-> q # p /\ pc[q] \in Loaded]
    BY <1>2, <1>5, <2>2 DEF MemoryOnDisk
  <2> QED BY <2>1, <2>2
<1> QED BY <1>1, <1>3, <1>4, <1>6, <1>7 DEF IInv

LEMMA DeleteIdentityStep ==
    ASSUME TypeOK, IInv, DeleteIdentity
    PROVE  TypeOK' /\ IInv'
<1> USE DEF DeleteIdentity, At, memory, history, Loaded, Named, Starting, Up
<1>1. TypeOK'
  BY DEF TypeOK
<1>2. OneIdentity' /\ OneCreator' /\ HasIdentity' /\ OneUp' /\ OwnTemp' /\ NotNewer'
  BY DEF IInv, OneIdentity, OneCreator, HasIdentity, OneUp, OwnTemp, NotNewer
<1>3. FileWhole' /\ MemoryOnDisk'
  BY DEF IInv, FileWhole, CrashSafe, MemoryOnDisk
<1> QED BY <1>1, <1>2, <1>3 DEF IInv

\* The type invariant and the inductive invariant hold in every reachable
\* state.
THEOREM InductiveInvariant == Spec => []Inv
<1>1. ASSUME Init
      PROVE  TypeOK /\ IInv
  <2>1. TypeOK
    BY <1>1, NothingIsContents DEF Init, TypeOK
  <2>2. OneIdentity /\ OneCreator /\ HasIdentity /\ OneUp /\ OwnTemp /\ NotNewer
    BY <1>1 DEF Init, OneIdentity, OneCreator, HasIdentity, OneUp, OwnTemp, NotNewer,
                Loaded, Named, Starting, Up
  <2>3. FileWhole /\ MemoryOnDisk
    BY <1>1, ValueAssumption DEF Init, FileWhole, CrashSafe, MemoryOnDisk, Bad, Loaded, Up
  <2> QED BY <2>1, <2>2, <2>3 DEF IInv
<1>2. ASSUME TypeOK, IInv, [Next]_vars
      PROVE  TypeOK' /\ IInv'
  <2>1. ASSUME NEW p \in Procs, Insert(p) \/ Update(p) \/ Remove(p)
        PROVE  TypeOK' /\ IInv'
    BY <1>2, <2>1, SetStep DEF Insert, Update, Remove
  <2>2. ASSUME NEW p \in Procs, Die(p)
        PROVE  TypeOK' /\ IInv'
    BY <1>2, <2>2, OffStep DEF Die, files, TypeOK
  <2>3. CASE UNCHANGED vars
    <3> USE <2>3 DEF vars
    <3>1. TypeOK'
      BY <1>2 DEF TypeOK
    <3>2. OneIdentity' /\ OneCreator' /\ HasIdentity' /\ OneUp' /\ OwnTemp' /\ NotNewer'
      BY <1>2 DEF IInv, OneIdentity, OneCreator, HasIdentity, OneUp, OwnTemp, NotNewer
    <3>3. FileWhole' /\ MemoryOnDisk'
      BY <1>2 DEF IInv, FileWhole, CrashSafe, MemoryOnDisk
    <3> QED BY <3>1, <3>2, <3>3 DEF IInv
  <2> QED BY <1>2, <2>1, <2>2, <2>3, StartStep, LoadPairedStep, LoadIdentityStep,
             CreateIdentityStep, WriteIdentityStep, ListenStep, OpenTempStep,
             WriteTempStep, RenameTempStep, DeleteIdentityStep DEF Next
<1> QED BY <1>1, <1>2, PTL DEF Spec, Inv

\* However starts, crashes and first runs overlap, every process that uses
\* an identity uses the one a later start will find.
THEOREM IdentitySurvives == Spec => []OneIdentity
<1>1. Inv => OneIdentity
  BY DEF Inv, IInv
<1> QED BY <1>1, InductiveInvariant, PTL

\* As long as one process at a time listens, a save that is cut off never
\* damages the file.
THEOREM SavesAreWhole == Spec => []FileWhole
<1>1. Inv => FileWhole
  BY DEF Inv, IInv
<1> QED BY <1>1, InductiveInvariant, PTL

\* ... and never costs a pairing other than the one being changed.
THEOREM PairingsSurvive == Spec => []MemoryOnDisk
<1>1. Inv => MemoryOnDisk
  BY DEF Inv, IInv
<1> QED BY <1>1, InductiveInvariant, PTL

\* What AtomicStore sees of a step: the file and every process's copy.
Seen   == IF onePort THEN disk ELSE None
Copies == [p \in Procs |-> IF onePort /\ pc[p] \in Loaded THEN devices[p] ELSE None]

\* With another port each, AtomicStore sees nothing at all.
LEMMA UnseenStep ==
    ASSUME Inv, [Next]_vars, ~onePort
    PROVE  UNCHANGED <<Seen, Copies>>
<1>1. onePort' = onePort
  BY DEF Next, vars, Start, LoadPaired, Take, LoadIdentity, Use, CreateIdentity,
         WriteIdentity, Listen, Insert, Update, Remove, Set, OpenTemp, WriteTemp,
         RenameTemp, Die, DeleteIdentity, Off, Go
<1> QED BY <1>1 DEF Seen, Copies

\* A process that starts, or ends, or does nothing to its map opens or closes
\* its copy, or is not seen.
LEMMA OffIsSeen ==
    ASSUME Inv, NEW p \in Procs, Off(p), UNCHANGED disk
    PROVE  Promise!Close(p) \/ UNCHANGED <<Seen, Copies>>
<1> USE DEF Inv, Off, Go, Seen, Copies, Loaded, Up
<1>1. \A q \in Procs : pc'[q] = IF q = p THEN "off" ELSE pc[q]
  BY DEF TypeOK
<1>2. \A q \in Procs : q # p => devices'[q] = devices[q]
  BY DEF TypeOK
<1>3. CASE onePort /\ pc[p] \in Loaded
  <2>1. Copies' = [Copies EXCEPT ![p] = None]
    <3>1. \A q \in Procs : Copies'[q] = IF q = p THEN None ELSE Copies[q]
      BY <1>1, <1>2, <1>3
    <3>2. Copies' = [q \in Procs |-> IF q = p THEN None ELSE Copies[q]]
      BY <3>1
    <3> QED BY <3>2
  <2>2. Copies[p] # None
    <3>1. Copies[p] = devices[p]
      BY <1>3
    <3>2. devices[p] \in Contents
      BY DEF TypeOK
    <3> QED BY <3>1, <3>2, ValueAssumption
  <2> QED BY <2>1, <2>2 DEF Promise!Close
<1>4. CASE ~(onePort /\ pc[p] \in Loaded)
  BY <1>1, <1>2, <1>4
<1> QED BY <1>3, <1>4

\* Steps that leave the maps and the file alone and stay on one side of the
\* load are not seen.
LEMMA QuietStep ==
    ASSUME TypeOK, NEW p \in Procs, NEW there, Go(p, there),
           there \in Loaded <=> pc[p] \in Loaded, UNCHANGED <<devices, disk>>
    PROVE  UNCHANGED <<Seen, Copies>>
<1>1. \A q \in Procs : pc'[q] = IF q = p THEN there ELSE pc[q]
  BY DEF Go, TypeOK
<1> QED BY <1>1 DEF Go, Seen, Copies

LEMMA LoadPairedIsOpen ==
    ASSUME Inv, onePort, NEW p \in Procs, At(p, "paired"), NEW map \in Contents,
           Take(p, map), disk = map \/ (disk = None /\ map = Nothing), UNCHANGED disk
    PROVE  Promise!Open(p)
<1> USE DEF Inv, At, Take, Go, Seen, Copies, Loaded, Up
<1>1. \A q \in Procs : /\ pc'[q] = IF q = p THEN "identity" ELSE pc[q]
                       /\ devices'[q] = IF q = p THEN map ELSE devices[q]
  BY DEF TypeOK
<1>2. Copies[p] = None /\ Copies' = [Copies EXCEPT ![p] = map]
  BY <1>1
<1>3. Seen # Newer /\ Seen' = Seen /\ map = IF Seen = None THEN Nothing ELSE Seen
  BY ValueAssumption
<1> QED BY <1>2, <1>3 DEF Promise!Open

LEMMA SetIsChange ==
    ASSUME Inv, onePort, NEW p \in Procs, At(p, "up"),
           NEW f \in Fps, NEW info \in Infos \cup {None}, Set(p, f, info)
    PROVE  Promise!Change(p)
<1> USE DEF Inv, Set, At, Go, files, Seen, Copies, Loaded, Up
<1>1. \A q \in Procs : pc'[q] = IF q = p THEN "saving" ELSE pc[q]
  BY DEF TypeOK
<1>2. devices[p] \in Contents /\ [devices[p] EXCEPT ![f] = info] \in Contents
  BY SetIsContents DEF TypeOK
<1>3. \A q \in Procs :
        devices'[q] = IF q = p THEN [devices[p] EXCEPT ![f] = info] ELSE devices[q]
  BY DEF TypeOK
<1>4. Copies[p] # None
  <2>1. Copies[p] = devices[p]
    OBVIOUS
  <2> QED BY <2>1, <1>2, ValueAssumption
<1>6. Copies' = [Copies EXCEPT ![p] = [devices[p] EXCEPT ![f] = info]]
  <2> DEFINE set == [devices[p] EXCEPT ![f] = info]
  <2>1. \A q \in Procs : Copies'[q] = IF q = p THEN set ELSE Copies[q]
    <3> HIDE DEF set
    <3> QED BY <1>1, <1>3 DEF set
  <2> HIDE DEF set
  <2>2. Copies' = [q \in Procs |-> IF q = p THEN set ELSE Copies[q]]
    BY <2>1
  <2> QED BY <2>2 DEF set
<1>5. Seen' = Seen
  OBVIOUS
<1> QED BY <1>2, <1>4, <1>5, <1>6 DEF Promise!Change

LEMMA RenameIsCommit ==
    ASSUME Inv, onePort, NEW p \in Procs, RenameTemp(p)
    PROVE  Promise!Commit(p) \/ UNCHANGED <<Seen, Copies>>
<1> USE DEF Inv, RenameTemp, At, Go, Loaded, Up
<1>1. \A q \in Procs : pc'[q] = IF q = p THEN "up" ELSE pc[q]
  BY DEF TypeOK
<1>2. Copies' = Copies
  BY <1>1 DEF Copies
<1>3. temp = devices[p] /\ Copies[p] = devices[p] /\ devices[p] # None
  BY ValueAssumption DEF IInv, OwnTemp, TypeOK, Copies
<1>4. CASE disk' = temp
  BY <1>2, <1>3, <1>4 DEF Promise!Commit, Seen, Copies
<1>5. CASE disk' = disk
  BY <1>2, <1>5 DEF Seen
<1> QED BY <1>4, <1>5

\* With one port, the paired devices file behaves as AtomicStore promises:
\* every start reads what the last completed save stored, and only a
\* completed save changes it.
THEOREM FileIsAtomic == Spec => Atomic
<1>1. Init => Promise!Init
  <2> SUFFICES ASSUME Init PROVE Promise!Init
    OBVIOUS
  <2>1. Seen \in Contents \cup {None, Newer}
    BY DEF Init, Seen
  <2>2. Copies = [p \in Procs |-> None]
    BY DEF Init, Copies, Loaded, Up
  <2> QED BY <2>1, <2>2 DEF Promise!Init, Seen, Copies
<1>2. Inv /\ [Next]_vars => [Promise!Next]_<<Seen, Copies>>
  <2> SUFFICES ASSUME Inv, [Next]_vars PROVE Promise!Next \/ UNCHANGED <<Seen, Copies>>
    OBVIOUS
  <2>0. CASE ~onePort
    BY <2>0, UnseenStep
  <2>1. ASSUME NEW p \in Procs, onePort, Start(p) \/ CreateIdentity(p) \/ WriteIdentity(p)
                             \/ Listen(p) \/ OpenTemp(p) \/ WriteTemp(p) \/ Die(p)
        PROVE  Promise!Next \/ UNCHANGED <<Seen, Copies>>
    <3>1. UNCHANGED disk
      BY <2>1 DEF Inv, IInv, OwnTemp, Start, CreateIdentity, WriteIdentity, Listen,
                  OpenTemp, WriteTemp, Die, At, files
    <3>2. CASE Off(p)
      BY <3>1, <3>2, OffIsSeen DEF Promise!Next
    <3>3. CASE Start(p)
      BY <3>3, QuietStep DEF Start, At, Inv, memory, files, Loaded, Up
    <3>4. CASE ~Off(p) /\ ~Start(p)
      <4>1. PICK there \in {"created", "ready", "up", "opened", "written"} :
              Go(p, there) /\ UNCHANGED devices /\ pc[p] \in Loaded
        BY <2>1, <3>4 DEF CreateIdentity, WriteIdentity, Listen, OpenTemp, WriteTemp, Die,
                          At, memory, Loaded, Up
      <4> QED BY <3>1, <4>1, QuietStep DEF Inv, Loaded, Up
    <3> QED BY <3>2, <3>3, <3>4
  <2>2. ASSUME NEW p \in Procs, onePort, LoadPaired(p)
        PROVE  Promise!Next \/ UNCHANGED <<Seen, Copies>>
    <3>1. CASE Off(p)
      BY <2>2, <3>1, OffIsSeen DEF LoadPaired, files, Promise!Next
    <3>2. CASE ~Off(p)
      <4>1. PICK map \in Contents :
              Take(p, map) /\ (disk = map \/ (disk = None /\ map = Nothing))
        BY <2>2, <3>2, NothingIsContents DEF LoadPaired
      <4> QED BY <2>2, <4>1, LoadPairedIsOpen DEF LoadPaired, files, Promise!Next
    <3> QED BY <3>1, <3>2
  <2>3. ASSUME NEW p \in Procs, onePort, LoadIdentity(p)
        PROVE  Promise!Next \/ UNCHANGED <<Seen, Copies>>
    <3>1. CASE Off(p)
      BY <2>3, <3>1, OffIsSeen DEF LoadIdentity, files, Promise!Next
    <3>2. CASE ~Off(p)
      <4>1. PICK there \in {"ready", "keyless"} : Go(p, there) /\ UNCHANGED <<devices, disk>>
        BY <2>3, <3>2 DEF LoadIdentity, Use, files
      <4> QED BY <2>3, <4>1, QuietStep DEF LoadIdentity, At, Inv, Loaded, Up
    <3> QED BY <3>1, <3>2
  <2>4. ASSUME NEW p \in Procs, onePort, Insert(p) \/ Update(p) \/ Remove(p)
        PROVE  Promise!Next \/ UNCHANGED <<Seen, Copies>>
    BY <2>4, SetIsChange DEF Insert, Update, Remove, Promise!Next
  <2>5. ASSUME NEW p \in Procs, onePort, RenameTemp(p)
        PROVE  Promise!Next \/ UNCHANGED <<Seen, Copies>>
    BY <2>5, RenameIsCommit DEF Promise!Next
  <2>6. CASE DeleteIdentity
    BY <2>6 DEF DeleteIdentity, memory, Seen, Copies
  <2>7. CASE UNCHANGED vars
    BY <2>7 DEF vars, Seen, Copies
  <2> QED BY <2>0, <2>1, <2>2, <2>3, <2>4, <2>5, <2>6, <2>7 DEF Next
<1> QED BY <1>1, <1>2, InductiveInvariant, PTL
        DEF Spec, Atomic, Promise!Spec, Seen, Copies
=============================================================================
