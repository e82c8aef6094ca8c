------------------------ MODULE NativeServer_proofs ------------------------
(***************************************************************************)
(* Proofs about NativeServer, for any number of sessions, files and        *)
(* retries and any capacity of the event channel.                          *)
(***************************************************************************)
EXTENDS NativeServer, TLAPS

\* What Append and Tail do to a queue, position by position.
LEMMA QueueFacts ==
    ASSUME NEW S, NEW q \in Seq(S)
    PROVE  /\ Len(q) \in Nat
           /\ \A e \in S : /\ Append(q, e) \in Seq(S)
                           /\ Len(Append(q, e)) = Len(q) + 1
                           /\ \A i \in 1..Len(q) : Append(q, e)[i] = q[i]
                           /\ Append(q, e)[Len(q) + 1] = e
           /\ q # <<>> => /\ Tail(q) \in Seq(S)
                          /\ Len(Tail(q)) = Len(q) - 1
                          /\ Head(q) = q[1] /\ q[1] \in S /\ 1 \in 1..Len(q)
                          /\ \A i \in 1..Len(Tail(q)) : Tail(q)[i] = q[i + 1]
  OBVIOUS

\* Events are of four kinds and determine what they are about.
LEMMA EventFacts ==
    /\ \A s \in Sessions : /\ PrepareUpload(s) \in Events
                           /\ PrepareUploadAborted(s) \in Events
                           /\ SessionEnd(s) \in Events
    /\ \A s \in Sessions, f \in Files, n \in 1..MaxTries : FileUpload(s, f, n) \in Events
    /\ \A e \in Events :
          /\ e.session \in Sessions
          /\ e.type = "prepare_upload" => e = PrepareUpload(e.session)
          /\ e.type = "file_upload" => /\ e.file \in Files /\ e.try \in 1..MaxTries
                                       /\ e = FileUpload(e.session, e.file, e.try)
          /\ e # NoEvent
<1>1. \A e \in Events :
         \/ \E s \in Sessions : e \in {PrepareUpload(s), PrepareUploadAborted(s), SessionEnd(s)}
         \/ \E s \in Sessions, f \in Files, n \in 1..MaxTries : e = FileUpload(s, f, n)
  BY DEF Events
<1>2. ASSUME NEW s \in Sessions, NEW e \in {PrepareUpload(s), PrepareUploadAborted(s), SessionEnd(s)}
      PROVE  /\ e.session \in Sessions
             /\ e.type = "prepare_upload" => e = PrepareUpload(e.session)
             /\ e.type # "file_upload" /\ e # NoEvent
  BY <1>2 DEF PrepareUpload, PrepareUploadAborted, SessionEnd, NoEvent
<1>3. ASSUME NEW s \in Sessions, NEW f \in Files, NEW n \in 1..MaxTries, NEW e,
             e = FileUpload(s, f, n)
      PROVE  /\ e.session \in Sessions /\ e.file \in Files /\ e.try \in 1..MaxTries
             /\ e = FileUpload(e.session, e.file, e.try)
             /\ e.type = "file_upload" /\ e # NoEvent
  BY <1>3 DEF FileUpload, NoEvent
<1>4. /\ \A s \in Sessions : /\ PrepareUpload(s) \in Events
                             /\ PrepareUploadAborted(s) \in Events
                             /\ SessionEnd(s) \in Events
      /\ \A s \in Sessions, f \in Files, n \in 1..MaxTries : FileUpload(s, f, n) \in Events
  BY DEF Events
<1>5. ASSUME NEW e \in Events
      PROVE  /\ e.session \in Sessions
             /\ e.type = "prepare_upload" => e = PrepareUpload(e.session)
             /\ e.type = "file_upload" => /\ e.file \in Files /\ e.try \in 1..MaxTries
                                          /\ e = FileUpload(e.session, e.file, e.try)
             /\ e # NoEvent
  <2>1. CASE \E s \in Sessions : e \in {PrepareUpload(s), PrepareUploadAborted(s), SessionEnd(s)}
    BY <1>2, <2>1
  <2>2. CASE \E s \in Sessions, f \in Files, n \in 1..MaxTries : e = FileUpload(s, f, n)
    <3>1. PICK s \in Sessions, f \in Files, n \in 1..MaxTries : e = FileUpload(s, f, n)
      BY <2>2
    <3> QED BY <1>3, <3>1, Zenon DEF FileUpload, PrepareUpload
  <2> QED BY <1>1, <2>1, <2>2
<1> QED BY <1>4, <1>5

\* The fields of the two kinds of events that carry a sender.
LEMMA Fields ==
    /\ \A s : PrepareUpload(s).type = "prepare_upload" /\ PrepareUpload(s).session = s
    /\ \A s, f, n : /\ FileUpload(s, f, n).type = "file_upload"
                    /\ FileUpload(s, f, n).session = s
                    /\ FileUpload(s, f, n).file = f
                    /\ FileUpload(s, f, n).try = n
    /\ \A s : SessionEnd(s).type = "session_end"
    /\ \A s : PrepareUploadAborted(s).type = "prepare_upload_aborted"
    /\ NoEvent.type = "none"
  BY DEF PrepareUpload, FileUpload, SessionEnd, PrepareUploadAborted, NoEvent

(***************************************************************************)
(* Type correctness.                                                       *)
(***************************************************************************)
LEMMA CoreTypes ==
    ASSUME TypeOK, Core
    PROVE  TypeOK'
<1> USE BoundAssumption DEF TypeOK, RestOfCore, hostVars
<1>1. ASSUME NEW s \in Sessions, CorePrepare(s)
      PROVE  TypeOK'
  BY <1>1, EventFacts, QueueFacts DEF CorePrepare
<1>2. ASSUME NEW s \in Sessions, CoreDecided(s)
      PROVE  TypeOK'
  BY <1>2 DEF CoreDecided
<1>3. ASSUME NEW s \in Sessions, CoreAbort(s)
      PROVE  TypeOK'
  BY <1>3, EventFacts, QueueFacts DEF CoreAbort
<1>4. ASSUME NEW s \in Sessions, CoreEnd(s)
      PROVE  TypeOK'
  BY <1>4, EventFacts, QueueFacts DEF CoreEnd
<1>5. ASSUME NEW s \in Sessions, NEW f \in Files, CoreUpload(s, f)
      PROVE  TypeOK'
  <2>1. tries[s][f] + 1 \in 1..MaxTries
    BY <1>5 DEF CoreUpload
  <2>2. FileUpload(s, f, tries[s][f] + 1) \in Events
    BY <2>1, EventFacts
  <2>3. queue' \in Seq(Events)
    BY <1>5, <2>2, QueueFacts DEF CoreUpload
  <2>4. tries' \in [Sessions -> [Files -> 0..MaxTries]]
    BY <1>5, <2>1 DEF CoreUpload
  <2> QED BY <1>5, <2>3, <2>4 DEF CoreUpload
<1>6. ASSUME NEW s \in Sessions, NEW f \in Files, CoreUploadEnds(s, f)
      PROVE  TypeOK'
  <2>1. PICK st \in {"failed", "done"} : upload' = [upload EXCEPT ![s][f] = st]
    BY <1>6 DEF CoreUploadEnds
  <2>2. upload' \in [Sessions -> [Files -> {"none", "waiting", "writing", "done", "failed"}]]
    BY <2>1
  <2> QED BY <1>6, <2>2 DEF CoreUploadEnds
<1> QED BY <1>1, <1>2, <1>3, <1>4, <1>5, <1>6 DEF Core

LEMMA ShimTypes ==
    ASSUME TypeOK, Take \/ Emit \/ Host
    PROVE  TypeOK'
<1> USE BoundAssumption DEF TypeOK, coreVars, hostVars
<1>1. CASE Take
  <2>1. queue' \in Seq(Events) /\ held' \in Events
    BY <1>1, QueueFacts DEF Take
  <2>2. Head(queue) \in Events
    BY <1>1, QueueFacts DEF Take
  <2>3. decisions' \subseteq Sessions
    BY <1>1, <2>2, EventFacts DEF Take, Register
  <2>4. targets' \in [Sessions -> [Files -> 0..MaxTries]]
    <3>1. CASE Head(queue).type = "file_upload"
      <4>1. /\ Head(queue).session \in Sessions /\ Head(queue).file \in Files
            /\ Head(queue).try \in 0..MaxTries
        BY <2>2, <3>1, EventFacts
      <4> QED BY <1>1, <3>1, <4>1 DEF Take, Register
    <3> QED BY <1>1, <3>1 DEF Take, Register
  <2> QED BY <1>1, <2>1, <2>3, <2>4 DEF Take
<1>2. CASE Emit
  <2>1. held \in Events
    BY <1>2 DEF Emit
  <2>2. shown' \subseteq Sessions
    BY <1>2, <2>1, EventFacts DEF Emit, OnServerEvent
  <2> QED BY <1>2, <2>1, <2>2 DEF Emit
<1>3. ASSUME NEW s \in Sessions, NEW d \in {"accept", "decline"}, Respond(s, d)
      PROVE  TypeOK'
  BY <1>3 DEF Respond
<1>4. ASSUME NEW s \in Sessions, NEW f \in Files, FileTarget(s, f)
      PROVE  TypeOK'
  BY <1>4 DEF FileTarget
<1> QED BY <1>1, <1>2, <1>3, <1>4 DEF Host

\* The variables have their types in every reachable state.
THEOREM TypeCorrect == Spec => []TypeOK
<1>1. Init => TypeOK
  BY BoundAssumption DEF Init, TypeOK
<1>2. TypeOK /\ [Next]_vars => TypeOK'
  <2>1. TypeOK /\ UNCHANGED vars => TypeOK'
    BY DEF TypeOK, vars
  <2> QED BY <2>1, CoreTypes, ShimTypes DEF Next
<1> QED BY <1>1, <1>2, PTL DEF Spec

(***************************************************************************)
(* The inductive invariant.  The steps of the server append to the queue   *)
(* and leave the shim alone.                                               *)
(***************************************************************************)
\* The queue after an Append, in terms of the queue before it.
LEMMA Appended ==
    ASSUME TypeOK, NEW e \in Events, queue' = Append(queue, e)
    PROVE  /\ Len(queue') = Len(queue) + 1 /\ Len(queue) \in Nat
           /\ \A i \in 1..Len(queue) : i \in 1..Len(queue') /\ queue'[i] = queue[i]
           /\ queue'[Len(queue) + 1] = e /\ Len(queue) + 1 \in 1..Len(queue')
           /\ \A i \in 1..Len(queue') : i \in 1..Len(queue) \/ i = Len(queue) + 1
           /\ \A x : Queued(x) => Queued(x)'
<1>1. queue \in Seq(Events)
  BY DEF TypeOK
<1>2. /\ Len(queue) \in Nat /\ Len(queue') = Len(queue) + 1
      /\ \A i \in 1..Len(queue) : queue'[i] = queue[i]
      /\ queue'[Len(queue) + 1] = e
  BY <1>1, QueueFacts
<1>3. \A i \in 1..Len(queue) : i \in 1..Len(queue')
  BY <1>2
<1>4. \A i \in 1..Len(queue') : i \in 1..Len(queue) \/ i = Len(queue) + 1
  BY <1>2
<1>5. Len(queue) + 1 \in 1..Len(queue')
  BY <1>2
<1>6. \A x : Queued(x) => Queued(x)'
  BY <1>2, <1>3 DEF Queued
<1> QED BY <1>2, <1>3, <1>4, <1>5, <1>6

\* With the shim as it was, a step keeps the order of the uploads if it at
\* most appends some other event.
LEMMA OrderKept ==
    ASSUME TypeOK, IInv, tries' = tries, RestOfCore,
           \/ UNCHANGED queue
           \/ \E e \in Events : e.type # "file_upload" /\ queue' = Append(queue, e)
    PROVE  RegisteredFirst' /\ Asked' /\ InOrder'
<1>1. RegisteredFirst'
  BY DEF RestOfCore, hostVars, IInv, RegisteredFirst, PassedOn
<1>2. Asked'
  BY DEF RestOfCore, hostVars, IInv, Asked, PassedOn
<1>3. \A s \in Sessions, f \in Files, n \in 1..MaxTries, i \in 1..Len(queue') :
         queue'[i] = FileUpload(s, f, n) => i \in 1..Len(queue) /\ queue[i] = FileUpload(s, f, n)
  <2>1. CASE UNCHANGED queue
    BY <2>1
  <2>2. ASSUME NEW e \in Events, e.type # "file_upload", queue' = Append(queue, e)
        PROVE  \A s \in Sessions, f \in Files, n \in 1..MaxTries, i \in 1..Len(queue') :
                  queue'[i] = FileUpload(s, f, n) =>
                      i \in 1..Len(queue) /\ queue[i] = FileUpload(s, f, n)
    BY <2>2, Appended, Fields
  <2> QED BY <2>1, <2>2
<1>4. \A i \in 1..Len(queue'), j \in Nat : j \in (i+1)..Len(queue') => j \in 1..Len(queue')
  <2>1. Len(queue') \in Nat
    BY QueueFacts DEF TypeOK
  <2> QED BY <2>1
<1>5. InOrder'
  <2> SUFFICES ASSUME NEW s \in Sessions, NEW f \in Files, NEW n \in 1..MaxTries,
                      NEW i \in 1..Len(queue'), queue'[i] = FileUpload(s, f, n)
               PROVE  /\ targets[s][f] < n /\ n <= tries[s][f]
                      /\ \A m \in 1..MaxTries : PassedOn(FileUpload(s, f, m)) => m < n
                      /\ \A m \in 1..MaxTries, j \in (i+1)..Len(queue') :
                            queue'[j] = FileUpload(s, f, m) => n < m
    BY DEF InOrder, RestOfCore, hostVars, PassedOn
  <2>1. i \in 1..Len(queue) /\ queue[i] = FileUpload(s, f, n)
    BY <1>3
  <2>2. \A m \in 1..MaxTries, j \in (i+1)..Len(queue') :
           queue'[j] = FileUpload(s, f, m) => n < m
    <3> SUFFICES ASSUME NEW m \in 1..MaxTries, NEW j \in (i+1)..Len(queue'),
                        queue'[j] = FileUpload(s, f, m)
                 PROVE  n < m
      OBVIOUS
    <3>1. j \in 1..Len(queue) /\ queue[j] = FileUpload(s, f, m)
      BY <1>3, <1>4
    <3>2. j \in (i+1)..Len(queue)
      BY <3>1
    <3> QED BY <2>1, <3>1, <3>2 DEF IInv, InOrder
  <2> QED BY <2>1, <2>2 DEF IInv, InOrder
<1> QED BY <1>1, <1>2, <1>5

LEMMA CoreSteps ==
    ASSUME TypeOK, IInv, Core
    PROVE  IInv'
<1>1. ASSUME NEW s \in Sessions, CorePrepare(s)
      PROVE  IInv'
  <2>1. /\ PrepareUpload(s) \in Events /\ queue' = Append(queue, PrepareUpload(s))
        /\ PrepareUpload(s).type # "file_upload"
    BY <1>1, EventFacts, Fields DEF CorePrepare
  <2>2. RegisteredFirst' /\ Asked' /\ InOrder'
    BY <1>1, <2>1, OrderKept DEF CorePrepare
  <2>3. Queued(PrepareUpload(s))'
    BY <2>1, Appended DEF Queued
  <2>4. NothingDropped'
    BY <1>1, <2>1, <2>3, Appended
       DEF CorePrepare, RestOfCore, TypeOK, IInv, NothingDropped
  <2> QED BY <2>2, <2>4 DEF IInv
<1>2. ASSUME NEW s \in Sessions, CoreDecided(s)
      PROVE  IInv'
  <2>1. RegisteredFirst' /\ Asked' /\ InOrder'
    BY <1>2, OrderKept DEF CoreDecided
  <2>2. NothingDropped'
    BY <1>2 DEF CoreDecided, RestOfCore, TypeOK, IInv, NothingDropped, Queued
  <2> QED BY <2>1, <2>2 DEF IInv
<1>3. ASSUME NEW s \in Sessions, CoreAbort(s) \/ CoreEnd(s)
      PROVE  IInv'
  <2>1. \E e \in Events : e.type # "file_upload" /\ queue' = Append(queue, e)
    BY <1>3, EventFacts, Fields DEF CoreAbort, CoreEnd
  <2>2. RegisteredFirst' /\ Asked' /\ InOrder'
    BY <1>3, <2>1, OrderKept DEF CoreAbort, CoreEnd
  <2>3. \A x : Queued(x) => Queued(x)'
    BY <2>1, Appended
  <2>4. \A r \in Sessions : core'[r] = "waiting" => core[r] = "waiting"
    BY <1>3 DEF CoreAbort, CoreEnd, TypeOK
  <2>5. UNCHANGED <<decision, upload, tries, decisions, targets>>
    BY <1>3 DEF CoreAbort, CoreEnd, RestOfCore
  <2>6. NothingDropped'
    BY <2>3, <2>4, <2>5 DEF IInv, NothingDropped
  <2> QED BY <2>2, <2>6 DEF IInv
<1>4. ASSUME NEW s \in Sessions, NEW f \in Files, CoreUpload(s, f)
      PROVE  IInv'
  <2> DEFINE e == FileUpload(s, f, tries[s][f] + 1)
  <2>1. /\ e \in Events /\ queue' = Append(queue, e)
        /\ tries[s][f] \in Nat /\ tries[s][f] + 1 \in 1..MaxTries
    BY <1>4, EventFacts, BoundAssumption DEF CoreUpload, TypeOK
  <2>2. /\ \A r \in Sessions, g \in Files :
              tries'[r][g] = IF r = s /\ g = f THEN tries[s][f] + 1 ELSE tries[r][g]
        /\ \A r \in Sessions, g \in Files :
              ~(r = s /\ g = f) => upload'[r][g] = upload[r][g]
    BY <1>4 DEF CoreUpload, TypeOK
  <2>3. \A r \in Sessions, g \in Files : tries[r][g] \in Nat /\ targets[r][g] \in Nat
    BY BoundAssumption DEF TypeOK
  <2>4. UNCHANGED <<held, told, decisions, targets, answered, core, decision>>
    BY <1>4 DEF CoreUpload, RestOfCore, hostVars
  <2>5. NothingDropped'
    <3>1. \E i \in 1..Len(queue') : queue'[i] = e
      BY <2>1, Appended
    <3>2. \A i \in 1..Len(queue) : i \in 1..Len(queue') /\ queue'[i] = queue[i]
      BY <2>1, Appended
    <3>4. \A x : Queued(x) => \E i \in 1..Len(queue') : queue'[i] = x
      BY <3>2 DEF Queued
    <3>5. \A r \in Sessions : core[r] = "waiting" /\ decision[r] = "none" =>
             (\E i \in 1..Len(queue') : queue'[i] = PrepareUpload(r)) \/ r \in decisions
      BY <3>4 DEF IInv, NothingDropped
    <3>3. ASSUME NEW r \in Sessions, NEW g \in Files, upload'[r][g] = "waiting"
          PROVE  \/ \E i \in 1..Len(queue') : queue'[i] = FileUpload(r, g, tries'[r][g])
                 \/ targets'[r][g] = tries'[r][g]
      <4>1. CASE r = s /\ g = f
        BY <2>2, <3>1, <4>1
      <4>2. CASE ~(r = s /\ g = f)
        <5>1. tries'[r][g] = tries[r][g] /\ upload[r][g] = "waiting"
          BY <2>2, <3>3, <4>2
        <5> QED BY <2>4, <3>4, <5>1 DEF IInv, NothingDropped
      <4> QED BY <4>1, <4>2
    <3> QED BY <2>4, <3>3, <3>5 DEF NothingDropped, Queued
  <2>6. RegisteredFirst'
    BY <2>4 DEF IInv, RegisteredFirst, PassedOn
  <2>7. Asked'
    <3>1. ASSUME NEW r \in Sessions, NEW g \in Files
          PROVE  tries[r][g] <= tries'[r][g] /\ tries'[r][g] \in Nat
      BY <2>1, <2>2, <2>3
    <3> QED BY <2>3, <2>4, <3>1 DEF IInv, Asked, PassedOn
  <2>8. InOrder'
    <3> SUFFICES ASSUME NEW r \in Sessions, NEW g \in Files, NEW n \in 1..MaxTries,
                        NEW i \in 1..Len(queue'), queue'[i] = FileUpload(r, g, n)
                 PROVE  /\ targets[r][g] < n /\ n <= tries'[r][g]
                        /\ \A m \in 1..MaxTries : PassedOn(FileUpload(r, g, m)) => m < n
                        /\ \A m \in 1..MaxTries, j \in (i+1)..Len(queue') :
                              queue'[j] = FileUpload(r, g, m) => n < m
      BY ZenonT(60), <2>4 DEF InOrder, PassedOn
    <3>1. Len(queue) \in Nat /\ Len(queue') = Len(queue) + 1
      BY <2>1, Appended
    <3>2. CASE i = Len(queue) + 1
      <4>1. FileUpload(r, g, n) = e
        BY <2>1, <3>2, Appended
      <4>2. r = s /\ g = f /\ n = tries[s][f] + 1
        BY <4>1, Fields
      <4>3. \A j \in (i+1)..Len(queue') : FALSE
        BY <3>1, <3>2
      <4>4. /\ targets[r][g] <= tries[r][g]
            /\ \A m \in 1..MaxTries : PassedOn(FileUpload(r, g, m)) => m <= tries[r][g]
        BY DEF IInv, Asked
      <4> QED BY <2>2, <2>3, <4>2, <4>3, <4>4
    <3>3. CASE i \in 1..Len(queue)
      <4>1. queue[i] = FileUpload(r, g, n)
        BY <2>1, <3>3, Appended
      <4>2. /\ targets[r][g] < n /\ n <= tries[r][g]
            /\ \A m \in 1..MaxTries : PassedOn(FileUpload(r, g, m)) => m < n
            /\ \A m \in 1..MaxTries, j \in (i+1)..Len(queue) :
                  queue[j] = FileUpload(r, g, m) => n < m
        BY <3>3, <4>1 DEF IInv, InOrder
      <4>3. n <= tries'[r][g]
        BY <2>2, <2>3, <4>2
      <4>4. ASSUME NEW m \in 1..MaxTries, NEW j \in (i+1)..Len(queue'),
                   queue'[j] = FileUpload(r, g, m)
            PROVE  n < m
        <5>1. CASE j = Len(queue) + 1
          <6>1. FileUpload(r, g, m) = e
            BY <2>1, <4>4, <5>1, Appended
          <6>2. r = s /\ g = f /\ m = tries[s][f] + 1
            BY <6>1, Fields
          <6> QED BY <2>3, <4>2, <6>2
        <5>2. CASE j # Len(queue) + 1
          <6>1. j \in (i+1)..Len(queue) /\ j \in 1..Len(queue)
            BY <3>1, <3>3, <5>2
          <6>2. queue[j] = FileUpload(r, g, m)
            BY <2>1, <4>4, <6>1, Appended
          <6> QED BY <4>2, <6>1, <6>2
        <5> QED BY <5>1, <5>2
      <4> QED BY <4>2, <4>3, <4>4
    <3> QED BY <2>1, <3>2, <3>3, Appended
  <2> QED BY <2>5, <2>6, <2>7, <2>8 DEF IInv
<1>5. ASSUME NEW s \in Sessions, NEW f \in Files, CoreUploadEnds(s, f)
      PROVE  IInv'
  <2>1. RegisteredFirst' /\ Asked' /\ InOrder'
    BY <1>5, OrderKept DEF CoreUploadEnds
  <2>2. PICK st \in {"failed", "done"} : upload' = [upload EXCEPT ![s][f] = st]
    BY <1>5 DEF CoreUploadEnds
  <2>3. \A r \in Sessions, g \in Files : upload'[r][g] = "waiting" => upload[r][g] = "waiting"
    BY <2>2 DEF TypeOK
  <2>4. NothingDropped'
    BY <1>5, <2>3 DEF CoreUploadEnds, RestOfCore, IInv, NothingDropped, Queued
  <2> QED BY <2>1, <2>4 DEF IInv
<1> QED BY <1>1, <1>2, <1>3, <1>4, <1>5 DEF Core

(***************************************************************************)
(* The steps of the event task and of the host.                            *)
(***************************************************************************)
LEMMA TakeStep ==
    ASSUME TypeOK, IInv, Take
    PROVE  IInv'
<1> DEFINE h == Head(queue)
<1>1. /\ queue' = Tail(queue) /\ held = NoEvent /\ held' = h
      /\ UNCHANGED <<core, decision, upload, tries, told, answered>>
  BY DEF Take, coreVars, hostVars
<1>2. /\ Len(queue) \in Nat /\ Len(queue') = Len(queue) - 1
      /\ h = queue[1] /\ h \in Events /\ 1 \in 1..Len(queue)
      /\ \A i \in 1..Len(queue') : queue'[i] = queue[i + 1]
  BY <1>1, QueueFacts DEF Take, TypeOK
<1>3. \A i \in 1..Len(queue') : i + 1 \in 1..Len(queue) /\ i + 1 \in (1+1)..Len(queue)
  BY <1>2
<1>4. \A i \in 1..Len(queue) :
         queue[i] = h \/ \E k \in 1..Len(queue') : queue'[k] = queue[i]
  <2> SUFFICES ASSUME NEW i \in 1..Len(queue), i # 1
               PROVE  \E k \in 1..Len(queue') : queue'[k] = queue[i]
    BY <1>2
  <2>1. i - 1 \in 1..Len(queue') /\ (i - 1) + 1 = i
    BY <1>2
  <2> QED BY <1>2, <2>1
<1>5. \A e \in Events : (held' = e \/ e \in told') <=> (e = h \/ PassedOn(e))
  BY <1>1, EventFacts DEF PassedOn
<1>6. /\ \A s \in Sessions : h = PrepareUpload(s) => s \in decisions'
      /\ decisions \subseteq decisions'
  BY Fields DEF Take, Register
<1>7. \A s \in Sessions, f \in Files :
         \/ \E n \in 1..MaxTries : h = FileUpload(s, f, n) /\ targets'[s][f] = n
         \/ /\ \A n \in 1..MaxTries : h # FileUpload(s, f, n)
            /\ targets'[s][f] = targets[s][f]
  <2>1. CASE h.type = "file_upload"
    <3>1. /\ h.session \in Sessions /\ h.file \in Files /\ h.try \in 1..MaxTries
          /\ h = FileUpload(h.session, h.file, h.try)
      BY <1>2, <2>1, EventFacts
    <3>2. targets' = [targets EXCEPT ![h.session][h.file] = h.try]
      BY <2>1 DEF Take, Register
    <3>3. ASSUME NEW s \in Sessions, NEW f \in Files, s = h.session /\ f = h.file
          PROVE  \E n \in 1..MaxTries : h = FileUpload(s, f, n) /\ targets'[s][f] = n
      BY <3>1, <3>2, <3>3 DEF TypeOK
    <3>4. ASSUME NEW s \in Sessions, NEW f \in Files, ~(s = h.session /\ f = h.file)
          PROVE  /\ \A n \in 1..MaxTries : h # FileUpload(s, f, n)
                 /\ targets'[s][f] = targets[s][f]
      <4>1. \A n \in 1..MaxTries : h # FileUpload(s, f, n)
        BY <3>4, Fields
      <4>2. targets'[s][f] = targets[s][f]
        BY <3>1, <3>2, <3>4 DEF TypeOK
      <4> QED BY <4>1, <4>2
    <3> QED BY <3>3, <3>4
  <2>2. CASE h.type # "file_upload"
    BY <2>2, Fields DEF Take, Register
  <2> QED BY <2>1, <2>2
<1>8. ASSUME NEW s \in Sessions, NEW f \in Files, NEW n \in 1..MaxTries, h = FileUpload(s, f, n)
      PROVE  /\ targets[s][f] < n /\ n <= tries[s][f]
             /\ \A m \in 1..MaxTries, i \in 1..Len(queue') :
                   queue'[i] = FileUpload(s, f, m) => n < m
  BY <1>2, <1>3, <1>8 DEF IInv, InOrder
<1>9. NothingDropped'
  <2>1. ASSUME NEW s \in Sessions, core[s] = "waiting", decision[s] = "none"
        PROVE  (\E k \in 1..Len(queue') : queue'[k] = PrepareUpload(s)) \/ s \in decisions'
    BY <1>4, <1>6, <2>1 DEF IInv, NothingDropped, Queued
  <2>2. ASSUME NEW s \in Sessions, NEW f \in Files, upload[s][f] = "waiting"
        PROVE  \/ \E k \in 1..Len(queue') : queue'[k] = FileUpload(s, f, tries[s][f])
               \/ targets'[s][f] = tries[s][f]
    <3>1. CASE Queued(FileUpload(s, f, tries[s][f]))
      <4>1. CASE h = FileUpload(s, f, tries[s][f])
        BY <1>7, <4>1, Fields, <1>2, EventFacts
      <4>2. CASE h # FileUpload(s, f, tries[s][f])
        BY <1>4, <3>1, <4>2 DEF Queued
      <4> QED BY <4>1, <4>2
    <3>2. CASE targets[s][f] = tries[s][f]
      <4>1. ASSUME NEW n \in 1..MaxTries, h = FileUpload(s, f, n)
            PROVE  FALSE
        <5>1. targets[s][f] < n /\ n <= tries[s][f]
          BY <1>8, <4>1
        <5>2. tries[s][f] \in Nat
          BY BoundAssumption DEF TypeOK
        <5> QED BY <3>2, <5>1, <5>2
      <4> QED BY <1>7, <3>2, <4>1
    <3> QED BY <2>2, <3>1, <3>2 DEF IInv, NothingDropped
  <2> QED BY <1>1, <2>1, <2>2 DEF NothingDropped, Queued
<1>10. RegisteredFirst'
  <2> SUFFICES ASSUME NEW s \in Sessions, held' = PrepareUpload(s) \/ PrepareUpload(s) \in told'
               PROVE  s \in decisions' \cup answered'
    BY DEF RegisteredFirst, PassedOn
  <2>1. h = PrepareUpload(s) \/ PassedOn(PrepareUpload(s))
    BY <1>5, EventFacts
  <2> QED BY <1>1, <1>6, <2>1 DEF IInv, RegisteredFirst
<1>11. Asked'
  <2> SUFFICES ASSUME NEW s \in Sessions, NEW f \in Files
               PROVE  /\ targets'[s][f] <= tries[s][f]
                      /\ \A n \in 1..MaxTries :
                            held' = FileUpload(s, f, n) \/ FileUpload(s, f, n) \in told'
                            => n <= tries[s][f]
    BY <1>1 DEF Asked, PassedOn
  <2>1. targets'[s][f] <= tries[s][f]
    BY <1>7, <1>8 DEF IInv, Asked
  <2>2. ASSUME NEW n \in 1..MaxTries,
               held' = FileUpload(s, f, n) \/ FileUpload(s, f, n) \in told'
        PROVE  n <= tries[s][f]
    <3>1. h = FileUpload(s, f, n) \/ PassedOn(FileUpload(s, f, n))
      BY <1>5, <2>2, EventFacts
    <3> QED BY <1>8, <3>1 DEF IInv, Asked
  <2> QED BY <2>1, <2>2
<1>12. InOrder'
  <2> SUFFICES ASSUME NEW s \in Sessions, NEW f \in Files, NEW n \in 1..MaxTries,
                      NEW i \in 1..Len(queue'), queue'[i] = FileUpload(s, f, n)
               PROVE  /\ targets'[s][f] < n /\ n <= tries[s][f]
                      /\ \A m \in 1..MaxTries :
                            held' = FileUpload(s, f, m) \/ FileUpload(s, f, m) \in told' => m < n
                      /\ \A m \in 1..MaxTries, j \in (i+1)..Len(queue') :
                            queue'[j] = FileUpload(s, f, m) => n < m
    BY ZenonT(40), <1>1 DEF InOrder, PassedOn
  <2>1. i + 1 \in 1..Len(queue) /\ queue[i + 1] = FileUpload(s, f, n)
    BY <1>2, <1>3
  <2>2. /\ targets[s][f] < n /\ n <= tries[s][f]
        /\ \A m \in 1..MaxTries : PassedOn(FileUpload(s, f, m)) => m < n
        /\ \A m \in 1..MaxTries, j \in ((i+1)+1)..Len(queue) :
              queue[j] = FileUpload(s, f, m) => n < m
    BY <2>1 DEF IInv, InOrder
  <2>3. targets'[s][f] < n
    BY <1>7, <1>8, <2>2
  <2>4. ASSUME NEW m \in 1..MaxTries,
               held' = FileUpload(s, f, m) \/ FileUpload(s, f, m) \in told'
        PROVE  m < n
    <3>1. h = FileUpload(s, f, m) \/ PassedOn(FileUpload(s, f, m))
      BY <1>5, <2>4, EventFacts
    <3> QED BY <1>8, <2>2, <3>1
  <2>5. ASSUME NEW m \in 1..MaxTries, NEW j \in (i+1)..Len(queue'),
               queue'[j] = FileUpload(s, f, m)
        PROVE  n < m
    <3>1. j \in 1..Len(queue') /\ j + 1 \in ((i+1)+1)..Len(queue)
      BY <1>2
    <3>2. queue[j + 1] = FileUpload(s, f, m)
      BY <1>2, <2>5, <3>1
    <3> QED BY <2>2, <3>1, <3>2
  <2> QED BY <2>2, <2>3, <2>4, <2>5
<1> QED BY <1>9, <1>10, <1>11, <1>12 DEF IInv

LEMMA EmitStep ==
    ASSUME TypeOK, IInv, Emit
    PROVE  IInv'
<1>1. \A e \in Events : (held' = e \/ e \in told') <=> PassedOn(e)
  BY EventFacts DEF Emit, PassedOn
<1>2. UNCHANGED <<core, decision, upload, tries, queue, decisions, targets, answered>>
  BY DEF Emit, coreVars
<1>3. NothingDropped'
  BY <1>2 DEF IInv, NothingDropped, Queued
<1>4. RegisteredFirst'
  BY <1>1, <1>2, EventFacts DEF IInv, RegisteredFirst, PassedOn
<1>5. Asked'
  BY <1>1, <1>2, EventFacts DEF IInv, Asked, PassedOn
<1>6. InOrder'
  <2>1. \A s \in Sessions, f \in Files, m \in 1..MaxTries :
           held' = FileUpload(s, f, m) \/ FileUpload(s, f, m) \in told'
           <=> PassedOn(FileUpload(s, f, m))
    BY <1>1, EventFacts
  <2> SUFFICES ASSUME NEW s \in Sessions, NEW f \in Files, NEW n \in 1..MaxTries,
                      NEW i \in 1..Len(queue), queue[i] = FileUpload(s, f, n)
               PROVE  /\ targets[s][f] < n /\ n <= tries[s][f]
                      /\ \A m \in 1..MaxTries : PassedOn(FileUpload(s, f, m)) => m < n
                      /\ \A m \in 1..MaxTries, j \in (i+1)..Len(queue) :
                            queue[j] = FileUpload(s, f, m) => n < m
    BY <1>2, <2>1 DEF InOrder, PassedOn
  <2> QED BY DEF IInv, InOrder
<1> QED BY <1>3, <1>4, <1>5, <1>6 DEF IInv

LEMMA HostSteps ==
    ASSUME TypeOK, IInv, Host
    PROVE  IInv'
<1>1. ASSUME NEW s \in Sessions, NEW d \in {"accept", "decline"}, Respond(s, d)
      PROVE  IInv'
  <2>1. UNCHANGED <<core, upload, tries, queue, held, targets, told>>
    BY <1>1 DEF Respond
  <2>2. \A r \in Sessions : core[r] = "waiting" /\ decision'[r] = "none" =>
           r # s /\ decision[r] = "none"
    BY <1>1 DEF Respond, TypeOK
  <2>3. \A r \in Sessions : r # s /\ r \in decisions => r \in decisions'
    BY <1>1 DEF Respond
  <2>4. NothingDropped'
    BY <2>1, <2>2, <2>3 DEF IInv, NothingDropped, Queued
  <2>5. RegisteredFirst'
    BY <1>1 DEF Respond, IInv, RegisteredFirst, PassedOn
  <2>6. Asked' /\ InOrder'
    BY <2>1 DEF IInv, Asked, InOrder, PassedOn
  <2> QED BY <2>4, <2>5, <2>6 DEF IInv
<1>2. ASSUME NEW s \in Sessions, NEW f \in Files, FileTarget(s, f)
      PROVE  IInv'
  <2>1. UNCHANGED <<core, decision, tries, queue, held, decisions, told, answered>>
    BY <1>2 DEF FileTarget, hostVars
  <2>2. \A r \in Sessions, g \in Files : tries[r][g] \in Nat /\ targets[r][g] \in Nat
    BY BoundAssumption DEF TypeOK
  <2>3. \A r \in Sessions, g \in Files :
           targets'[r][g] = IF r = s /\ g = f THEN 0 ELSE targets[r][g]
    BY <1>2 DEF FileTarget, TypeOK
  <2>4. \A r \in Sessions, g \in Files : upload'[r][g] = "waiting" =>
           /\ upload[r][g] = "waiting"
           /\ r = s /\ g = f => targets[r][g] # tries[r][g]
    <3>1. CASE upload[s][f] = "waiting" /\ targets[s][f] = tries[s][f]
      <4>1. upload' = [upload EXCEPT ![s][f] = "writing"]
        BY <1>2, <3>1 DEF FileTarget
      <4> QED BY <4>1 DEF TypeOK
    <3>2. CASE ~(upload[s][f] = "waiting" /\ targets[s][f] = tries[s][f])
      <4>1. upload' = upload
        BY <1>2, <3>2 DEF FileTarget
      <4> QED BY <3>2, <4>1
    <3> QED BY <3>1, <3>2
  <2>5. NothingDropped'
    <3>1. ASSUME NEW r \in Sessions, NEW g \in Files, upload'[r][g] = "waiting"
          PROVE  \/ Queued(FileUpload(r, g, tries[r][g]))
                 \/ targets'[r][g] = tries[r][g]
      BY <2>3, <2>4, <3>1 DEF IInv, NothingDropped
    <3>2. \A r \in Sessions : core[r] = "waiting" /\ decision[r] = "none" =>
              Queued(PrepareUpload(r)) \/ r \in decisions
      BY DEF IInv, NothingDropped
    <3> QED BY <2>1, <3>1, <3>2 DEF NothingDropped, Queued
  <2>6. RegisteredFirst'
    BY <2>1 DEF IInv, RegisteredFirst, PassedOn
  <2>7. \A r \in Sessions, g \in Files : targets'[r][g] \in Nat /\ targets'[r][g] <= targets[r][g]
    BY <2>2, <2>3
  <2>8. Asked'
    BY <2>1, <2>2, <2>7 DEF IInv, Asked, PassedOn
  <2>9. InOrder'
    <3> SUFFICES ASSUME NEW r \in Sessions, NEW g \in Files, NEW n \in 1..MaxTries,
                        NEW i \in 1..Len(queue), queue[i] = FileUpload(r, g, n)
                 PROVE  /\ targets'[r][g] < n /\ n <= tries[r][g]
                        /\ \A m \in 1..MaxTries : PassedOn(FileUpload(r, g, m)) => m < n
                        /\ \A m \in 1..MaxTries, j \in (i+1)..Len(queue) :
                              queue[j] = FileUpload(r, g, m) => n < m
      BY <2>1 DEF InOrder, PassedOn
    <3>1. /\ targets[r][g] < n /\ n <= tries[r][g]
          /\ \A m \in 1..MaxTries : PassedOn(FileUpload(r, g, m)) => m < n
          /\ \A m \in 1..MaxTries, j \in (i+1)..Len(queue) :
                queue[j] = FileUpload(r, g, m) => n < m
      BY DEF IInv, InOrder
    <3> QED BY <2>2, <2>7, <3>1
  <2> QED BY <2>5, <2>6, <2>8, <2>9 DEF IInv
<1> QED BY <1>1, <1>2 DEF Host

\* The inductive invariant holds in every reachable state.
THEOREM InductiveInvariant == Spec => []IInv
<1>1. Init => IInv
  BY Fields DEF Init, IInv, NothingDropped, Queued, RegisteredFirst, Asked, InOrder, PassedOn
<1>2. TypeOK /\ IInv /\ [Next]_vars => IInv'
  <2>1. IInv /\ UNCHANGED vars => IInv'
    BY DEF vars, IInv, NothingDropped, Queued, RegisteredFirst, Asked, InOrder, PassedOn
  <2> QED BY <2>1, CoreSteps, TakeStep, EmitStep, HostSteps DEF Next
<1> QED BY <1>1, <1>2, TypeCorrect, PTL DEF Spec

\* No handler of the server waits for a sender the shim has lost.
THEOREM SendersKept == Spec => []NothingDropped
<1>1. IInv => NothingDropped
  BY DEF IInv
<1> QED BY <1>1, InductiveInvariant, PTL

\* However fast the host answers what it is told of, it is understood.
THEOREM HostIsUnderstood == Spec => []ToldIsAnswerable
<1>1. TypeOK /\ IInv => ToldIsAnswerable
  <2> SUFFICES ASSUME TypeOK, IInv
               PROVE  ToldIsAnswerable
    OBVIOUS
  <2>1. \A s \in Sessions : PrepareUpload(s) \in told => s \in decisions \cup answered
    BY DEF IInv, RegisteredFirst, PassedOn
  <2>2. ASSUME NEW s \in Sessions, NEW f \in Files, tries[s][f] > 0,
               FileUpload(s, f, tries[s][f]) \in told, upload[s][f] = "waiting"
        PROVE  targets[s][f] = tries[s][f]
    <3>1. tries[s][f] \in 1..MaxTries
      BY <2>2, BoundAssumption DEF TypeOK
    <3>2. ~Queued(FileUpload(s, f, tries[s][f]))
      <4>1. ASSUME NEW i \in 1..Len(queue), queue[i] = FileUpload(s, f, tries[s][f])
            PROVE  tries[s][f] < tries[s][f]
        BY <2>2, <3>1, <4>1 DEF IInv, InOrder, PassedOn
      <4> QED BY <3>1, <4>1 DEF Queued
    <3> QED BY <2>2, <3>2 DEF IInv, NothingDropped
  <2> QED BY <2>1, <2>2 DEF ToldIsAnswerable
<1> QED BY <1>1, TypeCorrect, InductiveInvariant, PTL

\* The whole invariant of the shim, for any number of sessions.
THEOREM InvariantHolds == Spec => []Inv
<1>1. TypeOK /\ IInv => Inv
  BY DEF Inv
<1> QED BY <1>1, TypeCorrect, InductiveInvariant, PTL
=============================================================================
