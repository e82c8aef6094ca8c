------------------------- MODULE CliReceive_proofs --------------------------
(***************************************************************************)
(* Proofs about CliReceive, for any number of sessions, senders, files,    *)
(* attempts and any channel capacity.                                      *)
(***************************************************************************)
EXTENDS CliReceive, FiniteSetTheorems, TLAPS

\* What Append and Tail do to a queue, position by position.
LEMMA AppendFacts ==
    ASSUME NEW S, NEW q \in Seq(S), NEW e \in S
    PROVE  /\ Append(q, e) \in Seq(S)
           /\ Len(Append(q, e)) = Len(q) + 1
           /\ Len(q) \in Nat
           /\ \A i \in 1..Len(q) : Append(q, e)[i] = q[i]
           /\ Append(q, e)[Len(q) + 1] = e
  OBVIOUS

LEMMA TailFacts ==
    ASSUME NEW S, NEW q \in Seq(S), q # <<>>
    PROVE  /\ Tail(q) \in Seq(S)
           /\ Len(q) \in Nat \ {0}
           /\ Len(Tail(q)) = Len(q) - 1
           /\ Head(q) = q[1]
           /\ q[1] \in S
           /\ \A i \in 1..(Len(q) - 1) : Tail(q)[i] = q[i + 1]
  OBVIOUS

(***************************************************************************)
(* Type correctness.                                                       *)
(***************************************************************************)
LEMMA EventTypes ==
    ASSUME NEW s \in Sessions
    PROVE  /\ PrepareUpload(s) \in Events
           /\ PrepareUploadAborted(s) \in Events
           /\ \A f \in Files, n \in 1..MaxAttempts : FileUpload(s, f, n) \in Events
           /\ \A reason \in Reasons : SessionEnd(s, reason) \in Events
  BY DEF Events

LEMMA SessionTypes ==
    ASSUME NEW s \in Sessions \cup {None}
    PROVE  NewSession(s) \in ReceiveSession
  BY DEF NewSession, ReceiveSession

LEMMA LineTypes ==
    ASSUME NEW r \in ReceiveSession,
           NEW k \in {"none", "Finished", "Cancelled", "cancelledByUser"}
    PROVE  Line(k, r) \in Lines
  BY DEF Line, Lines, ReceiveSession

LEMMA TakeTypes ==
    ASSUME TypeOK, NEW e, Take(e)
    PROVE  serverQ' \in Seq(Events)
  BY TailFacts DEF TypeOK, Take

LEMMA DecidedTypes ==
    ASSUME TypeOK, NEW s,
           NEW d \in {"none", "accept", "acceptNone", "decline", "dropped"}
    PROVE  Decided(s, d) \in
             [Sessions -> {"none", "accept", "acceptNone", "decline", "dropped"}]
  BY DEF TypeOK, Decided

LEMMA FinishTypes ==
    ASSUME TypeOK, NEW r \in ReceiveSession, FinishIfDone(r)
    PROVE  receive' \in ReceiveSession /\ log' \in [Sessions -> Lines]
<1>1. CASE r.ended # "no" /\ r.inProgress = {}
  <2>1. r.ended \in {"none", "Finished", "Cancelled", "cancelledByUser"}
    BY <1>1 DEF ReceiveSession, Reasons
  <2>2. Line(r.ended, r) \in Lines
    BY <2>1, LineTypes
  <2>3. NoReceive \in ReceiveSession
    BY SessionTypes DEF NoReceive
  <2> QED BY <1>1, <2>2, <2>3 DEF FinishIfDone, TypeOK
<1>2. CASE ~(r.ended # "no" /\ r.inProgress = {})
  BY <1>2 DEF FinishIfDone, TypeOK
<1> QED BY <1>1, <1>2

LEMMA CountedTypes ==
    ASSUME TypeOK, NEW r
    PROVE  /\ Counted(r) \in ReceiveSession
           /\ Counted(r).id = receive.id
           /\ Counted(r).ended = receive.ended
<1>1. receive \in ReceiveSession
  BY DEF TypeOK
<1>2. /\ receive.finished + 1 \in Nat
      /\ receive.failed + 1 \in Nat
      /\ receive.inProgress \ {r.file} \in SUBSET Files
  BY <1>1 DEF ReceiveSession
<1>3. CASE r.ok
  BY <1>1, <1>2, <1>3 DEF Counted, ReceiveSession
<1>4. CASE ~r.ok
  BY <1>1, <1>2, <1>4 DEF Counted, ReceiveSession
<1> QED BY <1>3, <1>4

LEMMA ServerTypes ==
    ASSUME TypeOK, NEW s \in Sessions, SrvStep(s)
    PROVE  TypeOK'
<1> USE DEF TypeOK, appVars
<1>1. ASSUME NEW d \in Senders, NEW fs \in SUBSET Files, NEW m \in BOOLEAN,
             SrvPrepare(s, d, fs, m)
      PROVE  TypeOK'
  <2>1. serverQ' \in Seq(Events)
    BY <1>1, AppendFacts, EventTypes DEF SrvPrepare
  <2>2. offer' \in [Sessions -> Offers]
    BY <1>1 DEF SrvPrepare, Offers
  <2> QED BY <1>1, <2>1, <2>2 DEF SrvPrepare
<1>2. CASE SrvDecided(s)
  BY <1>2 DEF SrvDecided
<1>3. CASE SrvAbort(s)
  BY <1>3, AppendFacts, EventTypes DEF SrvAbort
<1>4. ASSUME NEW f \in Files, SrvUpload(s, f)
      PROVE  TypeOK'
  <2>1. tries[s][f] \in 0..MaxAttempts
    OBVIOUS
  <2>2. tries[s][f] + 1 \in 1..MaxAttempts
    BY <1>4, <2>1, CapAssumption DEF SrvUpload
  <2>3. FileUpload(s, f, tries[s][f] + 1) \in Events
    BY <2>2, EventTypes
  <2>4. serverQ' \in Seq(Events)
    BY <1>4, <2>3, AppendFacts DEF SrvUpload
  <2>5. tries' \in [Sessions -> [Files -> 0..MaxAttempts]]
    BY <1>4, <2>2, CapAssumption DEF SrvUpload
  <2> QED BY <1>4, <2>4, <2>5 DEF SrvUpload
<1>5. ASSUME NEW f \in Files, SrvUploadAborted(s, f)
      PROVE  TypeOK'
  BY <1>5 DEF SrvUploadAborted
<1>6. ASSUME NEW f \in Files, NEW ok \in BOOLEAN, SrvFileDone(s, f, ok)
      PROVE  TypeOK'
  BY <1>6 DEF SrvFileDone, Results
<1>7. CASE SrvFinish(s)
  BY <1>7, AppendFacts, EventTypes DEF SrvFinish, Reasons
<1>8. CASE SrvCancelled(s)
  BY <1>8, AppendFacts, EventTypes DEF SrvCancelled, Reasons
<1> QED BY <1>1, <1>2, <1>3, <1>4, <1>5, <1>6, <1>7, <1>8 DEF SrvStep

LEMMA EventHandlerTypes ==
    ASSUME TypeOK, HandleServerEvent
    PROVE  TypeOK'
<1> USE DEF appVars, serverVars
<1>0. PICK s \in Sessions :
        \/ HandlePrepareUpload(s)
        \/ \E f \in Files, n \in 1..MaxAttempts :
              HandleForeignUpload(s, f, n) \/ HandleFileUpload(s, f, n)
        \/ \E reason \in Reasons : HandleSessionEnd(s, reason)
        \/ HandleAborted(s)
  BY DEF HandleServerEvent
<1>1. CASE HandlePrepareUpload(s)
  <2>1. NewSession(s) \in ReceiveSession
    BY SessionTypes
  <2>2. CASE HandleMessage(s)
    BY <2>2, TakeTypes, DecidedTypes DEF HandleMessage, TypeOK
  <2>3. CASE HandlePairedRequest(s)
    BY <2>1, <2>3, TakeTypes, DecidedTypes DEF HandlePairedRequest, TypeOK
  <2>4. CASE HandleRequest(s)
    BY <2>4, TakeTypes, DecidedTypes DEF HandleRequest, TypeOK
  <2> QED BY <1>1, <2>2, <2>3, <2>4 DEF HandlePrepareUpload
<1>2. ASSUME NEW f \in Files, NEW n \in 1..MaxAttempts, HandleForeignUpload(s, f, n)
      PROVE  TypeOK'
  BY <1>2, TakeTypes DEF HandleForeignUpload, TypeOK
<1>3. ASSUME NEW f \in Files, NEW n \in 1..MaxAttempts, HandleFileUpload(s, f, n)
      PROVE  TypeOK'
  <2>1. receive' \in ReceiveSession
    BY <1>3 DEF HandleFileUpload, TypeOK, ReceiveSession
  <2>2. up' \in [Sessions -> [Files -> {"none", "requested", "writing", "done", "failed"}]]
    <3>1. \/ up' = [up EXCEPT ![s][f] = "writing"]
          \/ up' = [up EXCEPT ![s][f] = "failed"]
          \/ up' = up
      BY <1>3 DEF HandleFileUpload, Uploading
    <3>2. up \in [Sessions -> [Files -> {"none", "requested", "writing", "done", "failed"}]]
      BY DEF TypeOK
    <3>3. CASE up' = [up EXCEPT ![s][f] = "writing"]
      BY <3>2, <3>3
    <3>4. CASE up' = [up EXCEPT ![s][f] = "failed"]
      BY <3>2, <3>4
    <3> QED BY <3>1, <3>2, <3>3, <3>4
  <2>3. [session |-> s, file |-> f, try |-> n, ok |-> FALSE] \in Results
    BY CapAssumption DEF Results
  <2>4. results' \subseteq Results
    BY <1>3, <2>3 DEF HandleFileUpload, TypeOK
  <2>5. serverQ' \in Seq(Events)
    BY <1>3, TakeTypes DEF HandleFileUpload
  <2>6. UNCHANGED <<srv, offer, decision, tries, pending, paired, web, cancelling, log>>
    BY <1>3 DEF HandleFileUpload
  <2> QED BY <2>1, <2>2, <2>4, <2>5, <2>6 DEF TypeOK
<1>4. ASSUME NEW reason \in Reasons, HandleSessionEnd(s, reason)
      PROVE  TypeOK'
  <2>1. [receive EXCEPT !.ended = reason] \in ReceiveSession
    BY DEF TypeOK, ReceiveSession
  <2>2. receive' \in ReceiveSession /\ log' \in [Sessions -> Lines]
    <3>1. CASE receive.id = s
      BY <1>4, <2>1, <3>1, FinishTypes DEF HandleSessionEnd
    <3>2. CASE receive.id # s
      BY <1>4, <3>2 DEF HandleSessionEnd, TypeOK
    <3> QED BY <3>1, <3>2
  <2> QED BY <1>4, <2>2, TakeTypes DEF HandleSessionEnd, TypeOK
<1>5. CASE HandleAborted(s)
  BY <1>5, TakeTypes DEF HandleAborted, TypeOK
<1> QED BY <1>0, <1>1, <1>2, <1>3, <1>4, <1>5

LEMMA AppTypes ==
    ASSUME TypeOK,
           \/ \E r \in results : ReceiveFileResult(r)
           \/ User
           \/ \E s \in Sessions : CancelTask(s)
    PROVE  TypeOK'
<1> USE DEF appVars, serverVars
<1>1. ASSUME NEW r \in results, ReceiveFileResult(r)
      PROVE  TypeOK'
  <2>1. r \in Results
    BY DEF TypeOK
  <2>2. Counted(r) \in ReceiveSession
    BY CountedTypes
  <2>3. receive' \in ReceiveSession /\ log' \in [Sessions -> Lines]
    <3>1. CASE receive.id = r.session
      BY <1>1, <2>2, <3>1, FinishTypes DEF ReceiveFileResult
    <3>2. CASE receive.id # r.session
      BY <1>1, <3>2 DEF ReceiveFileResult, TypeOK
    <3> QED BY <3>1, <3>2
  <2>4. /\ results' \subseteq Results
        /\ UNCHANGED <<srv, offer, up, tries, decision, serverQ,
                       pending, paired, web, cancelling>>
    BY <1>1 DEF ReceiveFileResult, TypeOK
  <2> QED BY <2>3, <2>4 DEF TypeOK
<1>2. CASE Decline
  BY <1>2, DecidedTypes DEF Decline, TypeOK
<1>3. ASSUME NEW pair \in BOOLEAN, Accept(pair)
      PROVE  TypeOK'
  <2>1. pending \in Sessions
    BY <1>3 DEF Accept, TypeOK
  <2>2. NewSession(pending) \in ReceiveSession
    BY <2>1, SessionTypes
  <2>3. offer[pending].from \in Senders
    BY <2>1 DEF TypeOK, Offers
  <2> QED BY <1>3, <2>2, <2>3, DecidedTypes DEF Accept, TypeOK
<1>4. CASE HandleCtrlC
  <2>1. NoReceive \in ReceiveSession
    BY SessionTypes DEF NoReceive
  <2>2. receive.id \in Sessions \cup {None}
    BY DEF TypeOK, ReceiveSession
  <2>3. Line("cancelledByUser", receive) \in Lines
    BY LineTypes DEF TypeOK
  <2>4. cancelling' \subseteq Sessions /\ log' \in [Sessions -> Lines]
    BY <1>4, <2>2, <2>3 DEF HandleCtrlC, TypeOK
  <2> QED BY <1>4, <2>1, <2>4, DecidedTypes DEF HandleCtrlC, TypeOK
<1>5. ASSUME NEW s \in Sessions, CancelTask(s)
      PROVE  TypeOK'
  BY <1>5 DEF CancelTask, TypeOK
<1>6. ASSUME NEW d \in Senders, Pair(d) \/ Unpair(d)
      PROVE  TypeOK'
  BY <1>6 DEF Pair, Unpair, TypeOK
<1> QED BY <1>1, <1>2, <1>3, <1>4, <1>5, <1>6 DEF User

\* Every reachable state of the App, its channels and its server is well typed.
THEOREM TypeCorrect == Spec => []TypeOK
<1>1. Init => TypeOK
  <2> SUFFICES ASSUME Init PROVE TypeOK
    OBVIOUS
  <2>1. (CHOOSE d \in Senders : TRUE) \in Senders
    BY SendersAssumption
  <2>2. offer \in [Sessions -> Offers]
    BY <2>1 DEF Init, Offers, NoOffer
  <2>3. receive \in ReceiveSession
    BY SessionTypes DEF Init, NoReceive
  <2>4. log \in [Sessions -> Lines]
    BY DEF Init, NoLine, Lines
  <2>5. tries \in [Sessions -> [Files -> 0..MaxAttempts]]
    BY CapAssumption DEF Init
  <2>6. up \in [Sessions -> [Files -> {"none", "requested", "writing", "done", "failed"}]]
    BY DEF Init
  <2>7. serverQ \in Seq(Events) /\ results \subseteq Results
    BY DEF Init
  <2>8. /\ srv \in [Sessions -> {"new", "waiting", "active", "closed"}]
        /\ decision \in [Sessions -> {"none", "accept", "acceptNone", "decline", "dropped"}]
        /\ pending \in Sessions \cup {None}
        /\ paired \subseteq Senders
        /\ web \in {"none", "share", "receive"}
        /\ cancelling \subseteq Sessions
    BY WebAssumption DEF Init
  <2> QED BY <2>2, <2>3, <2>4, <2>5, <2>6, <2>7, <2>8 DEF TypeOK
<1>2. TypeOK /\ [Next]_vars => TypeOK'
  <2> SUFFICES ASSUME TypeOK, [Next]_vars PROVE TypeOK'
    OBVIOUS
  <2>1. CASE UNCHANGED vars
    BY <2>1 DEF vars, TypeOK
  <2> QED BY <2>1, ServerTypes, EventHandlerTypes, AppTypes DEF Next, Terminated
<1> QED BY <1>1, <1>2, PTL DEF Spec

(***************************************************************************)
(* The inductive invariant.                                                *)
(***************************************************************************)
LEMMA EventsDiffer ==
    ASSUME NEW s, NEW t
    PROVE  /\ PrepareUpload(s).type = "PrepareUpload"
           /\ PrepareUpload(s).session = s
           /\ PrepareUploadAborted(s).session = s
           /\ \A f, n : FileUpload(s, f, n).session = s
           /\ \A r : SessionEnd(s, r).session = s
           /\ PrepareUpload(s) # PrepareUploadAborted(t)
           /\ \A f, n : PrepareUpload(s) # FileUpload(t, f, n)
           /\ \A r : PrepareUpload(s) # SessionEnd(t, r)
           /\ \A f, n : PrepareUploadAborted(s) # FileUpload(t, f, n)
           /\ \A r : PrepareUploadAborted(s) # SessionEnd(t, r)
           /\ \A f, n, r : FileUpload(s, f, n) # SessionEnd(t, r)
           /\ PrepareUpload(s) = PrepareUpload(t) => s = t
           /\ PrepareUploadAborted(s) = PrepareUploadAborted(t) => s = t
           /\ \A q, r : SessionEnd(s, q) = SessionEnd(t, r) => s = t
<1> DEFINE P(x) == PrepareUpload(x)
           A(x) == PrepareUploadAborted(x)
           F(x, f, n) == FileUpload(x, f, n)
           E(x, r) == SessionEnd(x, r)
<1>1. \A x : P(x).type = "PrepareUpload" /\ P(x).session = x
  BY DEF PrepareUpload
<1>2. \A x : A(x).type = "PrepareUploadAborted" /\ A(x).session = x
  BY DEF PrepareUploadAborted
<1>3. \A x, f, n : F(x, f, n).type = "FileUpload" /\ F(x, f, n).session = x
  BY DEF FileUpload
<1>4. \A x, r : E(x, r).type = "SessionEnd" /\ E(x, r).session = x
  BY DEF SessionEnd
<1> HIDE DEF P, A, F, E
<1>5. /\ P(s) # A(t)
      /\ \A f, n : P(s) # F(t, f, n) /\ A(s) # F(t, f, n)
      /\ \A r : P(s) # E(t, r) /\ A(s) # E(t, r)
      /\ \A f, n, r : F(s, f, n) # E(t, r)
  BY <1>1, <1>2, <1>3, <1>4
<1>6. /\ P(s) = P(t) => s = t
      /\ A(s) = A(t) => s = t
      /\ \A q, r : E(s, q) = E(t, r) => s = t
  BY <1>1, <1>2, <1>4
<1> QED BY <1>1, <1>2, <1>3, <1>4, <1>5, <1>6 DEF P, A, F, E

LEMMA TakeQueue ==
    ASSUME TypeOK, NEW e, Take(e)
    PROVE  /\ Len(serverQ) \in Nat \ {0}
           /\ Len(serverQ') = Len(serverQ) - 1
           /\ serverQ[1] = e
           /\ \A i \in 1..Len(serverQ') :
                 i + 1 \in 1..Len(serverQ) /\ serverQ'[i] = serverQ[i + 1]
           /\ \A i \in 1..Len(serverQ) : i # 1 =>
                 i - 1 \in 1..Len(serverQ') /\ serverQ'[i - 1] = serverQ[i]
<1>1. serverQ \in Seq(Events) /\ serverQ # <<>>
  BY DEF TypeOK, Take
<1> QED BY <1>1, TailFacts DEF Take

LEMMA AppendQueue ==
    ASSUME TypeOK, NEW e \in Events, serverQ' = Append(serverQ, e)
    PROVE  /\ Len(serverQ) \in Nat
           /\ Len(serverQ') = Len(serverQ) + 1
           /\ serverQ'[Len(serverQ) + 1] = e
           /\ \A i \in 1..Len(serverQ) : serverQ'[i] = serverQ[i]
           /\ \A i \in 1..Len(serverQ') : i \in 1..Len(serverQ) \/ i = Len(serverQ) + 1
<1>1. serverQ \in Seq(Events)
  BY DEF TypeOK
<1> QED BY <1>1, AppendFacts

LEMMA InvAbort ==
    ASSUME TypeOK, IInv, NEW s \in Sessions, SrvAbort(s)
    PROVE  IInv'
<1> DEFINE e == PrepareUploadAborted(s)
           n == Len(serverQ)
<1>1. /\ n \in Nat
      /\ Len(serverQ') = n + 1
      /\ serverQ'[n + 1] = e
      /\ \A i \in 1..n : serverQ'[i] = serverQ[i]
      /\ \A i \in 1..Len(serverQ') : i \in 1..n \/ i = n + 1
  BY AppendQueue, EventTypes DEF SrvAbort
<1>2. /\ srv[s] = "waiting" /\ (decision[s] = "none" \/ LateAbort)
      /\ srv' = [srv EXCEPT ![s] = "closed"]
      /\ UNCHANGED <<decision, pending, receive, cancelling, log>>
  BY DEF SrvAbort, appVars
<1>3. srv \in [Sessions -> {"new", "waiting", "active", "closed"}]
  BY DEF TypeOK
<1>4. \A t : e # PrepareUpload(t) /\ (e = PrepareUploadAborted(t) => t = s) /\ \A r : e # SessionEnd(t, r)
  BY EventsDiffer
<1>5. e.session = s
  BY EventsDiffer
<1> HIDE DEF e, n
<1>6. OneBusy'
  BY <1>2, <1>3 DEF IInv, OneBusy, Busy
<1>7. FreshUntouched'
  BY <1>1, <1>2, <1>3, <1>5 DEF IInv, FreshUntouched, n
<1>8. EndIsClosed'
  BY <1>1, <1>2, <1>3, <1>4 DEF IInv, EndIsClosed, n
<1>9. RequestUnseen'
  BY <1>1, <1>2, <1>3, <1>4 DEF IInv, RequestUnseen, n, e
<1>10. RequestsSeparated'
  BY <1>1, <1>2, <1>3, <1>4 DEF IInv, RequestsSeparated, n
<1>11. PromptIsLive'
  BY <1>1, <1>2, <1>3, <1>4 DEF IInv, PromptIsLive, Queued, n, e
<1>12. PromptWithdrawnFirst'
  BY <1>1, <1>2, <1>3, <1>4 DEF IInv, PromptWithdrawnFirst, n
<1>13. AcceptedOnly'
  BY <1>2 DEF IInv, AcceptedOnly
<1>14. AcceptedIsVisible'
  BY <1>2, <1>3 DEF IInv, AcceptedIsVisible
<1>15. EndedIsClosed'
  BY <1>2, <1>3 DEF IInv, EndedIsClosed
<1>16. ReceiveTracksServer'
  BY <1>1, <1>2, <1>3 DEF IInv, ReceiveTracksServer, Queued, n
<1> QED BY <1>6, <1>7, <1>8, <1>9, <1>10, <1>11, <1>12, <1>13, <1>14, <1>15, <1>16 DEF IInv

\* A new request: every other session is closed or fresh.
LEMMA InvPrepare ==
    ASSUME TypeOK, IInv, NEW s \in Sessions, NEW d, NEW fs, NEW m,
           SrvPrepare(s, d, fs, m)
    PROVE  IInv'
<1> DEFINE e == PrepareUpload(s)
           n == Len(serverQ)
<1>1. /\ n \in Nat
      /\ Len(serverQ') = n + 1
      /\ serverQ'[n + 1] = e
      /\ \A i \in 1..n : serverQ'[i] = serverQ[i]
      /\ \A i \in 1..Len(serverQ') : i \in 1..n \/ i = n + 1
  BY AppendQueue, EventTypes DEF SrvPrepare
<1>2. /\ srv[s] = "new"
      /\ Busy = {}
      /\ srv' = [srv EXCEPT ![s] = "waiting"]
      /\ UNCHANGED <<decision, pending, receive, cancelling, log>>
  BY DEF SrvPrepare, appVars
<1>3. /\ srv \in [Sessions -> {"new", "waiting", "active", "closed"}]
      /\ decision \in [Sessions -> {"none", "accept", "acceptNone", "decline", "dropped"}]
  BY DEF TypeOK
<1>4. \A t : /\ e # PrepareUploadAborted(t)
                /\ (e = PrepareUpload(t) => t = s)
                /\ \A r : e # SessionEnd(t, r)
  BY EventsDiffer
<1>5. e.session = s /\ \A t : PrepareUpload(t).session = t /\ PrepareUploadAborted(t).session = t
  BY EventsDiffer
<1>6. \A t \in Sessions : srv[t] \in {"new", "closed"}
  BY <1>2, <1>3 DEF Busy
<1> HIDE DEF e, n
<1>21. OneBusy'
  BY <1>1, <1>2, <1>3, <1>4, <1>5, <1>6 DEF IInv, OneBusy, Busy, n, e
<1>22. FreshUntouched'
  BY <1>1, <1>2, <1>3, <1>4, <1>5, <1>6 DEF IInv, FreshUntouched, n, e
<1>23. EndIsClosed'
  BY <1>1, <1>2, <1>3, <1>4, <1>5, <1>6 DEF IInv, EndIsClosed, n, e
<1>24. RequestUnseen'
  <2> SUFFICES ASSUME NEW t \in Sessions, NEW i \in 1..(n + 1), serverQ'[i] = PrepareUpload(t)
               PROVE  /\ decision[t] = "none"
                      /\ pending # t
                      /\ \A j \in 1..(n + 1) : serverQ'[j] = PrepareUpload(t) => j = i
                      /\ \/ srv'[t] = "waiting"
                         \/ \E j \in (i+1)..(n+1) : serverQ'[j] = PrepareUploadAborted(t)
    BY <1>1, <1>2 DEF RequestUnseen
  <2>1. CASE i = n + 1
    BY <1>1, <1>2, <1>3, <1>4, <1>5, <2>1 DEF IInv, FreshUntouched, n
  <2>2. CASE i \in 1..n
    <3>1. /\ decision[t] = "none" /\ pending # t
          /\ \A j \in 1..n : serverQ[j] = PrepareUpload(t) => j = i
          /\ \/ srv[t] = "waiting"
             \/ \E j \in (i+1)..n : serverQ[j] = PrepareUploadAborted(t)
      BY <1>1, <2>2 DEF IInv, RequestUnseen, n
    <3>2. PICK j \in (i+1)..n : serverQ[j] = PrepareUploadAborted(t)
      BY <1>6, <3>1
    <3>3. t # s
      BY <1>1, <1>2, <1>5, <2>2 DEF IInv, FreshUntouched, n
    <3>4. j \in (i+1)..(n+1) /\ serverQ'[j] = PrepareUploadAborted(t)
      BY <1>1, <2>2, <3>2
    <3> QED BY <1>1, <1>4, <2>2, <3>1, <3>3, <3>4
  <2> QED BY <1>1, <2>1, <2>2
<1>25. RequestsSeparated'
  <2> SUFFICES ASSUME NEW t \in Sessions, NEW u \in Sessions,
                      NEW i \in 1..(n + 1), NEW k \in 1..(n + 1),
                      serverQ'[i] = PrepareUpload(t), serverQ'[k] = PrepareUpload(u), i < k
               PROVE  \E j \in (i+1)..(k-1) : serverQ'[j] = PrepareUploadAborted(t)
    BY <1>1 DEF RequestsSeparated
  <2>1. i \in 1..n /\ serverQ[i] = PrepareUpload(t)
    BY <1>1
  <2>2. CASE k = n + 1
    <3>1. PICK j \in (i+1)..n : serverQ[j] = PrepareUploadAborted(t)
      BY <1>1, <1>6, <2>1 DEF IInv, RequestUnseen, n
    <3> QED BY <1>1, <2>1, <2>2, <3>1
  <2>3. CASE k \in 1..n
    <3>1. PICK j \in (i+1)..(k-1) : serverQ[j] = PrepareUploadAborted(t)
      BY <1>1, <2>1, <2>3 DEF IInv, RequestsSeparated, n
    <3> QED BY <1>1, <2>1, <2>3, <3>1
  <2> QED BY <1>1, <2>2, <2>3
<1>26. PromptIsLive'
  BY <1>1, <1>2, <1>3, <1>4, <1>5, <1>6 DEF IInv, PromptIsLive, Queued, n, e
<1>27. PromptWithdrawnFirst'
  <2> SUFFICES ASSUME pending # None, NEW t \in Sessions,
                      NEW k \in 1..(n + 1), serverQ'[k] = PrepareUpload(t)
               PROVE  \E j \in 1..(k-1) : serverQ'[j] = PrepareUploadAborted(pending)
    BY <1>1, <1>2 DEF PromptWithdrawnFirst
  <2>1. CASE k = n + 1
    <3>1. pending \in Sessions
      BY DEF TypeOK
    <3>2. PICK j \in 1..n : serverQ[j] = PrepareUploadAborted(pending)
      BY <1>6, <3>1 DEF IInv, PromptIsLive, Queued, n
    <3> QED BY <1>1, <2>1, <3>2
  <2>2. CASE k \in 1..n
    <3>1. PICK j \in 1..(k-1) : serverQ[j] = PrepareUploadAborted(pending)
      BY <1>1, <2>2 DEF IInv, PromptWithdrawnFirst, n
    <3> QED BY <1>1, <2>2, <3>1
  <2> QED BY <1>1, <2>1, <2>2
<1>28. AcceptedOnly'
  BY <1>1, <1>2, <1>3, <1>4, <1>5, <1>6 DEF IInv, AcceptedOnly, n, e
<1>29. AcceptedIsVisible'
  BY <1>2, <1>3 DEF IInv, AcceptedIsVisible, FreshUntouched
<1>30. EndedIsClosed'
  BY <1>1, <1>2, <1>3, <1>4, <1>5, <1>6 DEF IInv, EndedIsClosed, n, e
<1>31. ReceiveTracksServer'
  BY <1>1, <1>2, <1>3, <1>4, <1>5, <1>6 DEF IInv, ReceiveTracksServer, Queued, n, e
<1> QED BY <1>21, <1>22, <1>23, <1>24, <1>25, <1>26, <1>27, <1>28, <1>29, <1>30, <1>31 DEF IInv

\* The server reads our decision.
LEMMA InvDecided ==
    ASSUME TypeOK, IInv, NEW s \in Sessions, SrvDecided(s)
    PROVE  IInv'
<1>1. serverQ' = serverQ
  BY DEF SrvDecided
<1>2. /\ srv[s] = "waiting" /\ decision[s] # "none"
      /\ srv' = [srv EXCEPT ![s] = IF decision[s] = "accept" THEN "active" ELSE "closed"]
      /\ UNCHANGED <<decision, pending, receive, cancelling, log>>
  BY DEF SrvDecided, appVars
<1>3. /\ srv \in [Sessions -> {"new", "waiting", "active", "closed"}]
      /\ decision \in [Sessions -> {"none", "accept", "acceptNone", "decline", "dropped"}]
  BY DEF TypeOK
<1>21. OneBusy'
  BY <1>1, <1>2, <1>3 DEF IInv, OneBusy, Busy
<1>22. FreshUntouched'
  BY <1>1, <1>2, <1>3 DEF IInv, FreshUntouched
<1>23. EndIsClosed'
  BY <1>1, <1>2, <1>3 DEF IInv, EndIsClosed
<1>24. RequestUnseen'
  BY <1>1, <1>2, <1>3 DEF IInv, RequestUnseen
<1>25. RequestsSeparated'
  BY <1>1, <1>2, <1>3 DEF IInv, RequestsSeparated
<1>26. PromptIsLive'
  BY <1>1, <1>2, <1>3 DEF IInv, PromptIsLive, Queued
<1>27. PromptWithdrawnFirst'
  BY <1>1, <1>2, <1>3 DEF IInv, PromptWithdrawnFirst
<1>28. AcceptedOnly'
  BY <1>1, <1>2, <1>3 DEF IInv, AcceptedOnly
<1>29. AcceptedIsVisible'
  BY <1>1, <1>2, <1>3 DEF IInv, AcceptedIsVisible
<1>30. EndedIsClosed'
  BY <1>1, <1>2, <1>3 DEF IInv, EndedIsClosed
<1>31. ReceiveTracksServer'
  BY <1>1, <1>2, <1>3 DEF IInv, ReceiveTracksServer, Queued
<1> QED BY <1>21, <1>22, <1>23, <1>24, <1>25, <1>26, <1>27, <1>28, <1>29, <1>30, <1>31 DEF IInv

\* A file upload is announced.
LEMMA InvUpload ==
    ASSUME TypeOK, IInv, NEW s \in Sessions, NEW f \in Files, SrvUpload(s, f)
    PROVE  IInv'
<1> DEFINE e == FileUpload(s, f, tries[s][f] + 1)
           n == Len(serverQ)
<1>0. e \in Events
  <2>1. tries[s][f] + 1 \in 1..MaxAttempts
    BY CapAssumption DEF SrvUpload, TypeOK
  <2> QED BY <2>1, EventTypes
<1>1. /\ n \in Nat
      /\ Len(serverQ') = n + 1
      /\ serverQ'[n + 1] = e
      /\ \A i \in 1..n : serverQ'[i] = serverQ[i]
      /\ \A i \in 1..Len(serverQ') : i \in 1..n \/ i = n + 1
  BY AppendQueue, <1>0 DEF SrvUpload
<1>2. /\ srv[s] = "active"
      /\ UNCHANGED <<srv, decision, pending, receive, cancelling, log>>
  BY DEF SrvUpload, appVars
<1>3. /\ srv \in [Sessions -> {"new", "waiting", "active", "closed"}]
      /\ decision \in [Sessions -> {"none", "accept", "acceptNone", "decline", "dropped"}]
  BY DEF TypeOK
<1>4. \A t : /\ e # PrepareUploadAborted(t)
                /\ e # PrepareUpload(t)
                /\ \A r : e # SessionEnd(t, r)
  BY EventsDiffer
<1>5. e.session = s
  BY EventsDiffer
<1> HIDE DEF e, n
<1>21. OneBusy'
  BY <1>1, <1>2, <1>3, <1>4, <1>5 DEF IInv, OneBusy, Busy, n, e
<1>22. FreshUntouched'
  BY <1>1, <1>2, <1>3, <1>4, <1>5 DEF IInv, FreshUntouched, n, e
<1>23. EndIsClosed'
  BY <1>1, <1>2, <1>3, <1>4, <1>5 DEF IInv, EndIsClosed, n, e
<1>24. RequestUnseen'
  BY <1>1, <1>2, <1>3, <1>4, <1>5 DEF IInv, RequestUnseen, n, e
<1>25. RequestsSeparated'
  BY <1>1, <1>2, <1>3, <1>4, <1>5 DEF IInv, RequestsSeparated, n, e
<1>26. PromptIsLive'
  BY <1>1, <1>2, <1>3, <1>4, <1>5 DEF IInv, PromptIsLive, Queued, n, e
<1>27. PromptWithdrawnFirst'
  BY SMTT(40), <1>1, <1>2, <1>3, <1>4, <1>5 DEF IInv, PromptWithdrawnFirst, n, e
<1>28. AcceptedOnly'
  BY <1>1, <1>2, <1>3, <1>4, <1>5 DEF IInv, AcceptedOnly, n, e
<1>29. AcceptedIsVisible'
  BY <1>1, <1>2, <1>3, <1>4, <1>5 DEF IInv, AcceptedIsVisible, n, e
<1>30. EndedIsClosed'
  BY <1>1, <1>2, <1>3, <1>4, <1>5 DEF IInv, EndedIsClosed, n, e
<1>31. ReceiveTracksServer'
  BY <1>1, <1>2, <1>3, <1>4, <1>5 DEF IInv, ReceiveTracksServer, Queued, n, e
<1> QED BY <1>21, <1>22, <1>23, <1>24, <1>25, <1>26, <1>27, <1>28, <1>29, <1>30, <1>31 DEF IInv

\* The session ends on the server, and the end is announced.
LEMMA InvEnd ==
    ASSUME TypeOK, IInv, NEW s \in Sessions, NEW reason \in Reasons,
           (SrvFinish(s) /\ reason = "Finished") \/ (SrvCancelled(s) /\ reason = "Cancelled")
    PROVE  IInv'
<1> DEFINE e == SessionEnd(s, reason)
           n == Len(serverQ)
<1>1. /\ n \in Nat
      /\ Len(serverQ') = n + 1
      /\ serverQ'[n + 1] = e
      /\ \A i \in 1..n : serverQ'[i] = serverQ[i]
      /\ \A i \in 1..Len(serverQ') : i \in 1..n \/ i = n + 1
  BY AppendQueue, EventTypes DEF SrvFinish, SrvCancelled
<1>2. /\ srv[s] = "active"
      /\ srv' = [srv EXCEPT ![s] = "closed"]
      /\ UNCHANGED <<decision, pending, receive, cancelling, log>>
  BY DEF SrvFinish, SrvCancelled, appVars
<1>3. /\ srv \in [Sessions -> {"new", "waiting", "active", "closed"}]
      /\ decision \in [Sessions -> {"none", "accept", "acceptNone", "decline", "dropped"}]
  BY DEF TypeOK
<1>4. \A t : /\ e # PrepareUploadAborted(t)
                /\ e # PrepareUpload(t)
                /\ \A r : e = SessionEnd(t, r) => t = s
  BY EventsDiffer
<1>5. e.session = s
  BY EventsDiffer
<1> HIDE DEF e, n
<1>21. OneBusy'
  BY <1>1, <1>2, <1>3, <1>4, <1>5 DEF IInv, OneBusy, Busy, n, e
<1>22. FreshUntouched'
  BY <1>1, <1>2, <1>3, <1>4, <1>5 DEF IInv, FreshUntouched, n, e
<1>23. EndIsClosed'
  BY <1>1, <1>2, <1>3, <1>4, <1>5 DEF IInv, EndIsClosed, n, e
<1>24. RequestUnseen'
  BY <1>1, <1>2, <1>3, <1>4, <1>5 DEF IInv, RequestUnseen, n, e
<1>25. RequestsSeparated'
  BY <1>1, <1>2, <1>3, <1>4, <1>5 DEF IInv, RequestsSeparated, n, e
<1>26. PromptIsLive'
  BY <1>1, <1>2, <1>3, <1>4, <1>5 DEF IInv, PromptIsLive, Queued, n, e
<1>27. PromptWithdrawnFirst'
  BY SMTT(40), <1>1, <1>2, <1>3, <1>4, <1>5 DEF IInv, PromptWithdrawnFirst, n, e
<1>28. AcceptedOnly'
  BY <1>1, <1>2, <1>3, <1>4, <1>5 DEF IInv, AcceptedOnly, n, e
<1>29. AcceptedIsVisible'
  BY <1>1, <1>2, <1>3, <1>4, <1>5 DEF IInv, AcceptedIsVisible, n, e
<1>30. EndedIsClosed'
  BY <1>1, <1>2, <1>3, <1>4, <1>5 DEF IInv, EndedIsClosed, n, e
<1>31. ReceiveTracksServer'
  BY <1>1, <1>2, <1>3, <1>4, <1>5 DEF IInv, ReceiveTracksServer, Queued, n, e
<1> QED BY <1>21, <1>22, <1>23, <1>24, <1>25, <1>26, <1>27, <1>28, <1>29, <1>30, <1>31 DEF IInv

(***************************************************************************)
(* What taking the head leaves of the queue's order.                       *)
(***************************************************************************)

\* Only the head leaves the queue.
LEMMA TakeKeepsOthers ==
    ASSUME TypeOK, NEW e, Take(e)
    PROVE  /\ \A x : x # e /\ Queued(x) => (Queued(x))'
           /\ \A i \in 1..Len(serverQ') : i + 1 \in 1..Len(serverQ)
                                          /\ serverQ'[i] = serverQ[i + 1]
<1>1. ASSUME NEW x, x # e, NEW i \in 1..Len(serverQ), serverQ[i] = x
      PROVE  \E j \in 1..Len(serverQ') : serverQ'[j] = x
  BY <1>1, TakeQueue
<1> QED BY <1>1, TakeQueue DEF Queued

\* An event between two positions stays between them.
LEMMA TakeKeepsBetween ==
    ASSUME TypeOK, NEW e, Take(e), NEW x,
           NEW i \in 1..Len(serverQ), NEW k \in Nat, k <= Len(serverQ),
           \E j \in (i + 1)..k : serverQ[j] = x
    PROVE  \E j \in i..(k - 1) : serverQ'[j] = x
<1>1. PICK j \in (i + 1)..k : serverQ[j] = x
  OBVIOUS
<1>2. j \in 1..Len(serverQ) /\ j # 1
  BY TakeQueue
<1>3. j - 1 \in i..(k - 1) /\ serverQ'[j - 1] = x
  BY <1>1, <1>2, TakeQueue
<1> QED BY <1>3

LEMMA TakeSeparated ==
    ASSUME TypeOK, IInv, NEW e, Take(e)
    PROVE  RequestsSeparated'
<1> SUFFICES ASSUME NEW s \in Sessions, NEW t \in Sessions,
                    NEW i \in 1..Len(serverQ'), NEW k \in 1..Len(serverQ'),
                    serverQ'[i] = PrepareUpload(s), serverQ'[k] = PrepareUpload(t), i < k
             PROVE  \E j \in (i + 1)..(k - 1) : serverQ'[j] = PrepareUploadAborted(s)
  BY DEF RequestsSeparated
<1>1. /\ i + 1 \in 1..Len(serverQ) /\ serverQ[i + 1] = PrepareUpload(s)
      /\ k + 1 \in 1..Len(serverQ) /\ serverQ[k + 1] = PrepareUpload(t)
      /\ Len(serverQ) \in Nat /\ Len(serverQ') = Len(serverQ) - 1
  BY TakeQueue
<1>2. \E j \in ((i + 1) + 1)..((k + 1) - 1) : serverQ[j] = PrepareUploadAborted(s)
  BY SMTT(40), <1>1 DEF IInv, RequestsSeparated
<1>3. \E j \in ((i + 1) + 1)..k : serverQ[j] = PrepareUploadAborted(s)
  BY <1>1, <1>2
<1>4. k \in Nat /\ k <= Len(serverQ)
  BY <1>1
<1> HIDE <1>2
<1> QED BY <1>1, <1>3, <1>4, TakeKeepsBetween

\* A request further back in the queue keeps all that RequestUnseen says.
LEMMA TakeRequests ==
    ASSUME TypeOK, IInv, NEW e, Take(e),
           NEW s \in Sessions, NEW i \in 1..Len(serverQ'), serverQ'[i] = PrepareUpload(s)
    PROVE  /\ e # PrepareUpload(s)
           /\ decision[s] = "none"
           /\ pending # s
           /\ \A j \in 1..Len(serverQ') : serverQ'[j] = PrepareUpload(s) => j = i
           /\ \/ srv[s] = "waiting"
              \/ \E j \in (i+1)..Len(serverQ') : serverQ'[j] = PrepareUploadAborted(s)
<1>1. /\ i + 1 \in 1..Len(serverQ) /\ serverQ[i + 1] = PrepareUpload(s)
      /\ 1 \in 1..Len(serverQ) /\ serverQ[1] = e
      /\ Len(serverQ) \in Nat /\ Len(serverQ') = Len(serverQ) - 1
  BY TakeQueue
<1>2. /\ decision[s] = "none"
      /\ pending # s
      /\ \A j \in 1..Len(serverQ) : serverQ[j] = PrepareUpload(s) => j = i + 1
      /\ \/ srv[s] = "waiting"
         \/ \E j \in ((i+1)+1)..Len(serverQ) : serverQ[j] = PrepareUploadAborted(s)
  BY <1>1 DEF IInv, RequestUnseen
<1>3. e # PrepareUpload(s)
  BY <1>1, <1>2
<1>4. \A j \in 1..Len(serverQ') : serverQ'[j] = PrepareUpload(s) => j = i
  BY <1>2, TakeQueue
<1>5. CASE \E j \in ((i+1)+1)..Len(serverQ) : serverQ[j] = PrepareUploadAborted(s)
  <2>1. Len(serverQ) \in Nat /\ Len(serverQ) <= Len(serverQ)
    BY <1>1
  <2>2. \E j \in (i+1)..(Len(serverQ) - 1) : serverQ'[j] = PrepareUploadAborted(s)
    BY <1>1, <1>5, <2>1, TakeKeepsBetween
  <2> QED BY <1>1, <1>2, <1>3, <1>4, <2>2
<1> QED BY <1>2, <1>3, <1>4, <1>5

LEMMA TakePrompt ==
    ASSUME TypeOK, IInv, NEW e, Take(e), pending # None,
           e # PrepareUploadAborted(pending),
           NEW t \in Sessions, NEW k \in 1..Len(serverQ'), serverQ'[k] = PrepareUpload(t)
    PROVE  \E j \in 1..(k - 1) : serverQ'[j] = PrepareUploadAborted(pending)
<1>1. /\ k + 1 \in 1..Len(serverQ) /\ serverQ[k + 1] = PrepareUpload(t)
      /\ serverQ[1] = e
      /\ Len(serverQ) \in Nat /\ Len(serverQ') = Len(serverQ) - 1
  BY TakeQueue
<1>2. PICK j \in 1..((k + 1) - 1) : serverQ[j] = PrepareUploadAborted(pending)
  BY <1>1 DEF IInv, PromptWithdrawnFirst
<1>3. j # 1 /\ j \in 1..Len(serverQ)
  BY <1>1, <1>2
<1>4. j - 1 \in 1..(k - 1) /\ serverQ'[j - 1] = PrepareUploadAborted(pending)
  BY <1>2, <1>3, TakeQueue
<1> QED BY <1>4

\* The request that is taken itself.
LEMMA TakenRequest ==
    ASSUME TypeOK, IInv, NEW s \in Sessions, Take(PrepareUpload(s))
    PROVE  /\ decision[s] = "none" /\ pending = None /\ srv[s] # "new"
           /\ srv[s] = "waiting" \/ (Queued(PrepareUploadAborted(s)))'
           /\ \A t \in Sessions, k \in 1..Len(serverQ') : serverQ'[k] = PrepareUpload(t) =>
                \E j \in 1..(k - 1) : serverQ'[j] = PrepareUploadAborted(s)
<1> DEFINE n == Len(serverQ)
<1>1. /\ n \in Nat \ {0} /\ 1 \in 1..n /\ serverQ[1] = PrepareUpload(s)
      /\ Len(serverQ') = n - 1
  BY TakeQueue
<1>2. decision[s] = "none"
  BY <1>1 DEF IInv, RequestUnseen
<1>3. pending = None
  BY <1>1 DEF IInv, PromptWithdrawnFirst
<1>4. srv[s] # "new"
  BY <1>1, EventsDiffer DEF IInv, FreshUntouched
<1>5. srv[s] = "waiting" \/ (Queued(PrepareUploadAborted(s)))'
  <2>1. CASE \E j \in (1+1)..n : serverQ[j] = PrepareUploadAborted(s)
    <3>1. n \in Nat /\ n <= Len(serverQ)
      BY <1>1
    <3>2. \E j \in 1..(n - 1) : serverQ'[j] = PrepareUploadAborted(s)
      BY <1>1, <2>1, <3>1, TakeKeepsBetween
    <3> QED BY <1>1, <3>2 DEF Queued
  <2> QED BY <1>1, <2>1 DEF IInv, RequestUnseen
<1>6. ASSUME NEW t \in Sessions, NEW k \in 1..Len(serverQ'), serverQ'[k] = PrepareUpload(t)
      PROVE  \E j \in 1..(k - 1) : serverQ'[j] = PrepareUploadAborted(s)
  <2>1. k + 1 \in 1..n /\ serverQ[k + 1] = PrepareUpload(t) /\ 1 < k + 1
    BY <1>6, TakeQueue
  <2>2. \E j \in (1 + 1)..((k + 1) - 1) : serverQ[j] = PrepareUploadAborted(s)
    BY <1>1, <2>1 DEF IInv, RequestsSeparated
  <2>3. \E j \in (1 + 1)..k : serverQ[j] = PrepareUploadAborted(s)
    BY <2>2
  <2>4. k \in Nat /\ k <= n
    BY <1>1
  <2> HIDE <2>2
  <2> QED BY <1>1, <2>3, <2>4, TakeKeepsBetween
<1> QED BY <1>2, <1>3, <1>4, <1>5, <1>6

\* The part of IInv about requests, the queue and the prompt.
RequestInv ==
    /\ OneBusy
    /\ FreshUntouched
    /\ EndIsClosed
    /\ RequestUnseen
    /\ RequestsSeparated
    /\ PromptIsLive
    /\ PromptWithdrawnFirst

\* The part of IInv about the session on the screen.
SessionInv ==
    /\ AcceptedOnly
    /\ AcceptedIsVisible
    /\ EndedIsClosed
    /\ ReceiveTracksServer

LEMMA TwoParts == IInv <=> RequestInv /\ SessionInv
  BY DEF IInv, RequestInv, SessionInv

\* Taking an event keeps RequestInv when no new prompt appears, no request
\* that waits in the queue is answered, and a prompt leaves with its abort.
LEMMA TakeRequestInv ==
    ASSUME TypeOK, IInv, NEW e, Take(e), srv' = srv,
           pending' # None => /\ pending' = pending
                              /\ decision'[pending] = decision[pending]
                              /\ e # PrepareUploadAborted(pending),
           \A t \in Sessions : decision'[t] # decision[t] =>
              srv[t] # "new" /\ \A i \in 1..Len(serverQ') : serverQ'[i] # PrepareUpload(t)
    PROVE  RequestInv'
<1>1. OneBusy'
  BY DEF IInv, OneBusy, Busy
<1>2. FreshUntouched'
  BY TakeQueue, NoneAssumption DEF IInv, FreshUntouched
<1>3. EndIsClosed'
  BY TakeQueue DEF IInv, EndIsClosed
<1>4. RequestUnseen'
  <2> SUFFICES ASSUME NEW s \in Sessions, NEW i \in 1..Len(serverQ'),
                      serverQ'[i] = PrepareUpload(s)
               PROVE  /\ decision'[s] = "none"
                      /\ pending' # s
                      /\ \A j \in 1..Len(serverQ') : serverQ'[j] = PrepareUpload(s) => j = i
                      /\ \/ srv'[s] = "waiting"
                         \/ \E j \in (i+1)..Len(serverQ') : serverQ'[j] = PrepareUploadAborted(s)
    BY DEF RequestUnseen
  <2> QED BY TakeRequests, NoneAssumption
<1>5. RequestsSeparated'
  BY TakeSeparated
<1>6. PromptIsLive'
  BY TakeKeepsOthers DEF IInv, PromptIsLive
<1>7. PromptWithdrawnFirst'
  BY TakePrompt DEF PromptWithdrawnFirst
<1> QED BY <1>1, <1>2, <1>3, <1>4, <1>5, <1>6, <1>7 DEF RequestInv

\* So does answering the prompt, as far as it is taken off the screen.
LEMMA AnswerRequestInv ==
    ASSUME TypeOK, IInv, serverQ' = serverQ, srv' = srv,
           pending' # None => pending' = pending /\ decision'[pending] = decision[pending],
           \A t \in Sessions : decision'[t] # decision[t] => t = pending
    PROVE  RequestInv'
<1>1. OneBusy' /\ EndIsClosed' /\ RequestsSeparated'
  BY DEF IInv, OneBusy, Busy, EndIsClosed, RequestsSeparated
<1>2. FreshUntouched'
  BY NoneAssumption DEF IInv, FreshUntouched
<1>3. RequestUnseen'
  BY NoneAssumption DEF IInv, RequestUnseen
<1>4. PromptIsLive' /\ PromptWithdrawnFirst'
  BY DEF IInv, PromptIsLive, PromptWithdrawnFirst, Queued
<1> QED BY <1>1, <1>2, <1>3, <1>4 DEF RequestInv

LEMMA TakeKeepsEnds ==
    ASSUME TypeOK, NEW e, Take(e), NEW x, \A r : e # SessionEnd(x, r)
    PROVE  \A r : Queued(SessionEnd(x, r)) =>
              \E i \in 1..Len(serverQ') : serverQ'[i] = SessionEnd(x, r)
  BY TakeKeepsOthers DEF Queued

\* SessionInv speaks of the queue only where it holds the end of the session
\* on the screen.
LEMMA SessionInvFrame ==
    ASSUME TypeOK, IInv, UNCHANGED <<srv, decision, cancelling, log>>,
           receive'.id = receive.id, receive'.ended = receive.ended,
           \A r \in Reasons : Queued(SessionEnd(receive.id, r)) =>
              \E i \in 1..Len(serverQ') : serverQ'[i] = SessionEnd(receive.id, r)
    PROVE  SessionInv'
<1>1. AcceptedOnly' /\ AcceptedIsVisible' /\ EndedIsClosed'
  BY DEF IInv, AcceptedOnly, AcceptedIsVisible, EndedIsClosed
<1>2. ReceiveTracksServer'
  <2> DEFINE Ends(x) == \E reason \in Reasons : Queued(SessionEnd(x, reason))
  <2>1. Ends(receive.id) => Ends(receive.id)'
    BY DEF Queued
  <2> HIDE DEF Ends
  <2>2. ReceiveTracksServer <=>
          (~LateAbort /\ receive.id # None /\ receive.ended = "no" =>
             \/ srv[receive.id] = "active"
             \/ srv[receive.id] = "waiting" /\ decision[receive.id] = "accept"
             \/ Ends(receive.id))
    BY DEF ReceiveTracksServer, Ends
  <2>3. ReceiveTracksServer' <=>
          (~LateAbort /\ receive'.id # None /\ receive'.ended = "no" =>
             \/ srv'[receive'.id] = "active"
             \/ srv'[receive'.id] = "waiting" /\ decision'[receive'.id] = "accept"
             \/ Ends(receive.id)')
    BY DEF ReceiveTracksServer, Ends
  <2> QED BY <2>1, <2>2, <2>3 DEF IInv
<1> QED BY <1>1, <1>2 DEF SessionInv

\* A message is answered on the spot.
LEMMA InvMessage ==
    ASSUME TypeOK, IInv, NEW s \in Sessions, HandleMessage(s)
    PROVE  IInv'
<1>1. /\ Take(PrepareUpload(s))
      /\ decision' = Decided(s, "acceptNone")
      /\ UNCHANGED <<srv, pending, receive, cancelling, log>>
  BY DEF HandleMessage, appVars, serverVars
<1>2. decision[s] = "none" /\ pending = None /\ srv[s] # "new"
  BY <1>1, TakenRequest
<1>3. \A i \in 1..Len(serverQ') : serverQ'[i] # PrepareUpload(s)
  BY <1>1, TakeRequests
<1>4. /\ \A t \in Sessions : t # s => decision'[t] = decision[t]
      /\ decision'[s] \in {"none", "acceptNone"}
  BY <1>1, <1>2 DEF Decided, TypeOK
<1>5. RequestInv'
  BY <1>1, <1>2, <1>3, <1>4, TakeRequestInv
<1>6. \A r : Queued(SessionEnd(receive.id, r)) =>
       \E i \in 1..Len(serverQ') : serverQ'[i] = SessionEnd(receive.id, r)
  <2>1. \A r : PrepareUpload(s) # SessionEnd(receive.id, r)
    BY EventsDiffer
  <2> QED BY <1>1, <2>1, TakeKeepsEnds
<1>7. AcceptedOnly' /\ AcceptedIsVisible'
  BY <1>1, <1>2, <1>4 DEF IInv, AcceptedOnly, AcceptedIsVisible
<1>8. EndedIsClosed'
  BY <1>1 DEF IInv, EndedIsClosed
<1>9. ReceiveTracksServer'
  <2>1. receive.id # None => receive.id \in Sessions /\ receive.id # s
    BY <1>2 DEF TypeOK, ReceiveSession, IInv, AcceptedOnly
  <2>2. ASSUME receive.id # None, decision[receive.id] = "accept"
        PROVE  decision'[receive.id] = "accept"
    BY <1>4, <2>1, <2>2
  <2>3. ASSUME NEW reason \in Reasons, Queued(SessionEnd(receive.id, reason))
        PROVE  (Queued(SessionEnd(receive.id, reason)))'
    BY <1>1, <1>6, <2>3 DEF Queued
  <2> QED BY <1>1, <2>2, <2>3 DEF IInv, ReceiveTracksServer
<1> QED BY <1>5, <1>7, <1>8, <1>9, TwoParts DEF IInv, RequestInv, SessionInv

\* A paired sender's session takes the screen.
LEMMA InvPairedRequest ==
    ASSUME TypeOK, IInv, NEW s \in Sessions, HandlePairedRequest(s)
    PROVE  IInv'
<1>1. /\ Take(PrepareUpload(s))
      /\ decision' = Decided(s, "accept")
      /\ receive' = IF Answerable(s) THEN NewSession(s) ELSE receive
      /\ UNCHANGED <<srv, pending, cancelling, log>>
  BY DEF HandlePairedRequest, serverVars
<1>2. decision[s] = "none" /\ pending = None /\ srv[s] # "new"
  BY <1>1, TakenRequest
<1>3. \A i \in 1..Len(serverQ') : serverQ'[i] # PrepareUpload(s)
  BY <1>1, TakeRequests
<1>4. \A t \in Sessions : t # s => decision'[t] = decision[t]
  BY <1>1 DEF Decided, TypeOK
<1>5. RequestInv'
  BY <1>1, <1>2, <1>3, <1>4, TakeRequestInv
<1>6. CASE srv[s] = "waiting"
  <2>1. decision'[s] = "accept" /\ receive'.id = s /\ receive'.ended = "no"
    BY <1>1, <1>6 DEF Decided, Answerable, NewSession, TypeOK
  <2>2. AcceptedOnly'
    BY <1>1, <1>2, <1>4, <2>1 DEF IInv, AcceptedOnly
  <2>3. AcceptedIsVisible'
    BY <1>1, <1>4, <1>6, <2>1 DEF IInv, AcceptedIsVisible, OneBusy, Busy
  <2>4. EndedIsClosed' /\ ReceiveTracksServer'
    BY <1>1, <1>6, <2>1 DEF EndedIsClosed, ReceiveTracksServer
  <2> QED BY <1>5, <2>2, <2>3, <2>4, TwoParts DEF IInv, RequestInv, SessionInv
<1>7. CASE srv[s] # "waiting"
  <2>1. decision' = decision /\ receive' = receive
    BY <1>1, <1>7 DEF Decided, Answerable
  <2>2. \A r : Queued(SessionEnd(receive.id, r)) =>
       \E i \in 1..Len(serverQ') : serverQ'[i] = SessionEnd(receive.id, r)
    <3>1. \A r : PrepareUpload(s) # SessionEnd(receive.id, r)
      BY EventsDiffer
    <3> QED BY <1>1, <3>1, TakeKeepsEnds
  <2>3. SessionInv'
    BY <1>1, <2>1, <2>2, SessionInvFrame
  <2> QED BY <1>5, <2>3, TwoParts DEF IInv, RequestInv, SessionInv
<1> QED BY <1>6, <1>7

\* A new prompt: there is none on the screen that it could replace.
LEMMA InvRequest ==
    ASSUME TypeOK, IInv, NEW s \in Sessions, HandleRequest(s)
    PROVE  IInv'
<1>1. /\ Take(PrepareUpload(s))
      /\ pending' = s
      /\ decision' = IF pending # None THEN Decided(pending, "dropped") ELSE decision
      /\ UNCHANGED <<srv, receive, cancelling, log>>
  BY DEF HandleRequest, serverVars
<1>2. /\ decision[s] = "none" /\ pending = None /\ srv[s] # "new"
      /\ srv[s] = "waiting" \/ (Queued(PrepareUploadAborted(s)))'
      /\ \A t \in Sessions, k \in 1..Len(serverQ') : serverQ'[k] = PrepareUpload(t) =>
            \E j \in 1..(k - 1) : serverQ'[j] = PrepareUploadAborted(s)
  BY <1>1, TakenRequest
<1>3. decision' = decision
  BY <1>1, <1>2
<1>4. OneBusy'
  BY <1>1 DEF IInv, OneBusy, Busy
<1>5. FreshUntouched'
  BY ZenonT(40), <1>1, <1>2, <1>3, TakeQueue DEF IInv, FreshUntouched
<1>6. EndIsClosed'
  BY <1>1, TakeQueue DEF IInv, EndIsClosed
<1>7. RequestUnseen'
  <2> SUFFICES ASSUME NEW t \in Sessions, NEW i \in 1..Len(serverQ'),
                      serverQ'[i] = PrepareUpload(t)
               PROVE  /\ decision'[t] = "none"
                      /\ pending' # t
                      /\ \A j \in 1..Len(serverQ') : serverQ'[j] = PrepareUpload(t) => j = i
                      /\ \/ srv'[t] = "waiting"
                         \/ \E j \in (i+1)..Len(serverQ') : serverQ'[j] = PrepareUploadAborted(t)
    BY DEF RequestUnseen
  <2>1. PrepareUpload(s) # PrepareUpload(t)
    BY <1>1, TakeRequests
  <2> QED BY <1>1, <1>3, <2>1, TakeRequests
<1>8. RequestsSeparated'
  BY <1>1, TakeSeparated
<1>9. PromptIsLive' /\ PromptWithdrawnFirst'
  BY <1>1, <1>2, <1>3 DEF PromptIsLive, PromptWithdrawnFirst
<1>10. \A r : Queued(SessionEnd(receive.id, r)) =>
       \E i \in 1..Len(serverQ') : serverQ'[i] = SessionEnd(receive.id, r)
  <2>1. \A r : PrepareUpload(s) # SessionEnd(receive.id, r)
    BY EventsDiffer
  <2> QED BY <1>1, <2>1, TakeKeepsEnds
<1>11. SessionInv'
  BY <1>1, <1>3, <1>10, SessionInvFrame
<1> QED BY <1>4, <1>5, <1>6, <1>7, <1>8, <1>9, <1>11, TwoParts DEF IInv, RequestInv, SessionInv

\* An upload changes neither who is on the screen nor its end.
LEMMA InvUploadEvent ==
    ASSUME TypeOK, IInv, NEW s \in Sessions, NEW f \in Files, NEW n \in 1..MaxAttempts,
           HandleForeignUpload(s, f, n) \/ HandleFileUpload(s, f, n)
    PROVE  IInv'
<1>1. /\ Take(FileUpload(s, f, n))
      /\ UNCHANGED <<srv, decision, pending, cancelling, log>>
  BY DEF HandleForeignUpload, HandleFileUpload, appVars
<1>2. receive'.id = receive.id /\ receive'.ended = receive.ended
  <2>1. receive' = receive \/ receive' = [receive EXCEPT !.inProgress = @ \cup {f}]
    BY DEF HandleForeignUpload, HandleFileUpload, appVars
  <2> QED BY <2>1 DEF TypeOK, ReceiveSession
<1>3. RequestInv'
  BY <1>1, TakeRequestInv, EventsDiffer
<1>4. \A r : Queued(SessionEnd(receive.id, r)) =>
       \E i \in 1..Len(serverQ') : serverQ'[i] = SessionEnd(receive.id, r)
  <2>1. \A r : FileUpload(s, f, n) # SessionEnd(receive.id, r)
    BY DEF FileUpload, SessionEnd
  <2> QED BY <1>1, <2>1, TakeKeepsEnds
<1>5. SessionInv'
  BY <1>1, <1>2, <1>4, SessionInvFrame
<1> QED BY <1>3, <1>5, TwoParts DEF IInv, RequestInv, SessionInv

\* The aborted request leaves the screen with its event.
LEMMA InvHandleAborted ==
    ASSUME TypeOK, IInv, NEW s \in Sessions, HandleAborted(s)
    PROVE  IInv'
<1>1. /\ Take(PrepareUploadAborted(s))
      /\ pending' = IF pending = s THEN None ELSE pending
      /\ UNCHANGED <<srv, decision, receive, cancelling, log>>
  BY DEF HandleAborted, serverVars
<1>2. pending' # None => pending' = pending /\ PrepareUploadAborted(s) # PrepareUploadAborted(pending)
  BY <1>1, EventsDiffer
<1>3. RequestInv'
  BY <1>1, <1>2, TakeRequestInv
<1>4. \A r : Queued(SessionEnd(receive.id, r)) =>
       \E i \in 1..Len(serverQ') : serverQ'[i] = SessionEnd(receive.id, r)
  <2>1. \A r : PrepareUploadAborted(s) # SessionEnd(receive.id, r)
    BY EventsDiffer
  <2> QED BY <1>1, <2>1, TakeKeepsEnds
<1>5. SessionInv'
  BY <1>1, <1>4, SessionInvFrame
<1> QED BY <1>3, <1>5, TwoParts DEF IInv, RequestInv, SessionInv

\* What finish_receive_if_done can do to the screen and the log.
LEMMA FinishCases ==
    ASSUME TypeOK, NEW r \in ReceiveSession, r.id \in Sessions, FinishIfDone(r)
    PROVE  /\ \/ receive' = r
              \/ receive'.id = None /\ r.ended # "no"
           /\ receive'.id # None => log' = log
           /\ \A t \in Sessions : t # r.id => log'[t] = log[t]
  BY NoneAssumption DEF FinishIfDone, NoReceive, NewSession, TypeOK

\* The end of a session is heard: it closes, or waits for its results.
LEMMA InvSessionEnd ==
    ASSUME TypeOK, IInv, NEW s \in Sessions, NEW reason \in Reasons, HandleSessionEnd(s, reason)
    PROVE  IInv'
<1>1. /\ Take(SessionEnd(s, reason))
      /\ UNCHANGED <<srv, decision, pending, cancelling>>
  BY DEF HandleSessionEnd, serverVars
<1>2. RequestInv'
  BY SMTT(40), <1>1, TakeRequestInv, EventsDiffer
<1>3. CASE receive.id = s
  <2> DEFINE r == [receive EXCEPT !.ended = reason]
  <2>1. r \in ReceiveSession /\ r.id = s /\ r.ended # "no"
    BY <1>3 DEF TypeOK, ReceiveSession, Reasons
  <2>2. FinishIfDone(r)
    BY <1>3 DEF HandleSessionEnd
  <2> HIDE DEF r
  <2>3. /\ \/ receive'.id = s /\ receive'.ended # "no" /\ log' = log
           \/ receive'.id = None
        /\ \A t \in Sessions : t # s => log'[t] = log[t]
    BY <2>1, <2>2, FinishCases, NoneAssumption
  <2>4. srv[s] = "closed"
    BY <1>1, TakeQueue DEF IInv, EndIsClosed
  <2>5. AcceptedOnly' /\ AcceptedIsVisible'
    BY <1>1, <1>3, <2>3, <2>4, NoneAssumption DEF IInv, AcceptedOnly, AcceptedIsVisible
  <2>6. EndedIsClosed' /\ ReceiveTracksServer'
    BY <1>1, <2>3, <2>4 DEF EndedIsClosed, ReceiveTracksServer
  <2> QED BY <1>2, <2>5, <2>6, TwoParts DEF IInv, RequestInv, SessionInv
<1>4. CASE receive.id # s
  <2>1. UNCHANGED <<receive, log>>
    BY <1>4 DEF HandleSessionEnd
  <2>2. \A r : Queued(SessionEnd(receive.id, r)) =>
       \E i \in 1..Len(serverQ') : serverQ'[i] = SessionEnd(receive.id, r)
    <3>1. \A r : SessionEnd(s, reason) # SessionEnd(receive.id, r)
      BY <1>4, EventsDiffer
    <3> QED BY <1>1, <3>1, TakeKeepsEnds
  <2>3. SessionInv'
    BY <1>1, <2>1, <2>2, SessionInvFrame
  <2> QED BY <1>2, <2>3, TwoParts DEF IInv, RequestInv, SessionInv
<1> QED BY <1>3, <1>4

\* A file result moves the counters, or takes an ended session off the screen.
LEMMA InvResult ==
    ASSUME TypeOK, IInv, NEW r \in results, ReceiveFileResult(r)
    PROVE  IInv'
<1>1. UNCHANGED <<srv, decision, serverQ, pending, cancelling>>
  BY DEF ReceiveFileResult, serverVars
<1>2. RequestInv'
  BY <1>1, AnswerRequestInv
<1>3. CASE receive.id = r.session
  <2>1. /\ Counted(r) \in ReceiveSession
        /\ Counted(r).id = receive.id
        /\ Counted(r).ended = receive.ended
    BY CountedTypes
  <2>2. FinishIfDone(Counted(r)) /\ receive.id \in Sessions
    BY <1>3 DEF ReceiveFileResult, TypeOK, Results
  <2>3. /\ \/ receive'.id = receive.id /\ receive'.ended = receive.ended /\ log' = log
           \/ receive'.id = None /\ receive.ended # "no"
        /\ \A t \in Sessions : t # receive.id => log'[t] = log[t]
    BY <2>1, <2>2, FinishCases, NoneAssumption
  <2>4. CASE receive'.id = receive.id /\ receive'.ended = receive.ended /\ log' = log
    BY <1>1, <1>2, <2>4, SessionInvFrame, TwoParts DEF IInv, RequestInv, SessionInv, Queued
  <2>5. CASE receive'.id = None /\ receive.ended # "no"
    <3>1. srv[receive.id] = "closed"
      BY <2>2, <2>5, NoneAssumption DEF IInv, EndedIsClosed
    <3>2. AcceptedOnly' /\ AcceptedIsVisible'
      BY <1>1, <2>2, <2>3, <2>5, <3>1, NoneAssumption DEF IInv, AcceptedOnly, AcceptedIsVisible
    <3>3. EndedIsClosed' /\ ReceiveTracksServer'
      BY <2>5 DEF EndedIsClosed, ReceiveTracksServer
    <3> QED BY <1>2, <3>2, <3>3, TwoParts DEF IInv, RequestInv, SessionInv
  <2> QED BY <2>3, <2>4, <2>5
<1>4. CASE receive.id # r.session
  <2>1. UNCHANGED <<receive, log>>
    BY <1>4 DEF ReceiveFileResult
  <2> QED BY <1>1, <1>2, <2>1, SessionInvFrame, TwoParts DEF IInv, RequestInv, SessionInv, Queued
<1> QED BY <1>3, <1>4

\* The prompt was not answered before, so what we answered earlier is kept.
LEMMA PromptUnanswered ==
    ASSUME TypeOK, IInv, pending # None
    PROVE  /\ pending \in Sessions
           /\ srv[pending] = "waiting" => decision[pending] = "none"
<1>1. pending \in Sessions
  BY DEF TypeOK
<1>2. Queued(PrepareUploadAborted(pending)) => srv[pending] = "closed"
  BY <1>1 DEF IInv, EndIsClosed, Queued
<1> QED BY <1>1, <1>2 DEF IInv, PromptIsLive

\* An answer other than "accept" leaves SessionInv alone.
LEMMA RefuseSessionInv ==
    ASSUME TypeOK, IInv, pending # None, NEW d, d # "accept",
           decision' = Decided(pending, d),
           UNCHANGED <<srv, serverQ, receive, cancelling, log>>
    PROVE  SessionInv'
<1>1. pending \in Sessions
  BY PromptUnanswered
<1>2. CASE srv[pending] = "waiting"
  <2>1. /\ decision[pending] = "none"
        /\ \A t \in Sessions : t # pending => decision'[t] = decision[t]
        /\ decision'[pending] = d
    BY <1>1, <1>2, PromptUnanswered DEF Decided, Answerable, TypeOK
  <2>2. AcceptedOnly' /\ AcceptedIsVisible'
    BY <1>1, <2>1 DEF IInv, AcceptedOnly, AcceptedIsVisible
  <2>3. EndedIsClosed'
    BY DEF IInv, EndedIsClosed
  <2>4. receive.id # None => receive.id \in Sessions /\ receive.id # pending
    BY <2>1 DEF TypeOK, ReceiveSession, IInv, AcceptedOnly
  <2>5. receive.id # None => decision'[receive.id] = decision[receive.id]
    BY <2>1, <2>4
  <2>6. ReceiveTracksServer'
    BY <2>5 DEF IInv, ReceiveTracksServer, Queued
  <2> QED BY <2>2, <2>3, <2>6 DEF SessionInv
<1>3. CASE srv[pending] # "waiting"
  BY <1>3, SessionInvFrame DEF Decided, Answerable, Queued
<1> QED BY <1>2, <1>3

LEMMA InvDecline ==
    ASSUME TypeOK, IInv, Decline
    PROVE  IInv'
<1>1. /\ pending # None /\ pending' = None
      /\ decision' = Decided(pending, "decline")
      /\ UNCHANGED <<srv, serverQ, receive, cancelling, log>>
  BY DEF Decline, serverVars
<1>2. \A t \in Sessions : decision'[t] # decision[t] => t = pending
  BY <1>1 DEF Decided, TypeOK
<1>3. RequestInv'
  BY <1>1, <1>2, AnswerRequestInv
<1>4. SessionInv'
  BY <1>1, RefuseSessionInv
<1> QED BY <1>3, <1>4, TwoParts DEF IInv, RequestInv, SessionInv

\* The accepted session takes the screen, or nothing does.
LEMMA InvAccept ==
    ASSUME TypeOK, IInv, NEW pair \in BOOLEAN, Accept(pair)
    PROVE  IInv'
<1>1. /\ pending # None /\ pending' = None
      /\ decision' = Decided(pending, "accept")
      /\ receive'  = IF Answerable(pending) THEN NewSession(pending) ELSE receive
      /\ UNCHANGED <<srv, serverQ, cancelling, log>>
  BY DEF Accept, serverVars
<1>2. /\ pending \in Sessions
      /\ \A t \in Sessions : t # pending => decision'[t] = decision[t]
  BY <1>1, PromptUnanswered DEF Decided, TypeOK
<1>3. RequestInv'
  BY <1>1, <1>2, AnswerRequestInv
<1>4. CASE srv[pending] = "waiting"
  <2>1. /\ decision[pending] = "none" /\ decision'[pending] = "accept"
        /\ receive'.id = pending /\ receive'.ended = "no"
    BY <1>1, <1>2, <1>4, PromptUnanswered DEF Decided, Answerable, NewSession, TypeOK
  <2>2. AcceptedOnly'
    BY <1>1, <1>2, <2>1 DEF IInv, AcceptedOnly
  <2>3. AcceptedIsVisible'
    BY <1>1, <1>2, <1>4, <2>1 DEF IInv, AcceptedIsVisible, OneBusy, Busy
  <2>4. EndedIsClosed' /\ ReceiveTracksServer'
    BY <1>1, <1>4, <2>1 DEF EndedIsClosed, ReceiveTracksServer
  <2> QED BY <1>3, <2>2, <2>3, <2>4, TwoParts DEF IInv, RequestInv, SessionInv
<1>5. CASE srv[pending] # "waiting"
  <2>1. decision' = decision /\ receive' = receive
    BY <1>1, <1>5 DEF Decided, Answerable
  <2> QED BY <1>1, <1>3, <2>1, SessionInvFrame, TwoParts DEF IInv, RequestInv, SessionInv, Queued
<1> QED BY <1>4, <1>5

\* Ctrl+C refuses the prompt and hands the session over to a cancel task.
LEMMA InvCtrlC ==
    ASSUME TypeOK, IInv, HandleCtrlC
    PROVE  IInv'
<1>1. /\ pending' = None
      /\ decision' = IF pending # None THEN Decided(pending, "decline") ELSE decision
      /\ receive'.id = None
      /\ UNCHANGED <<srv, serverQ>>
  BY DEF HandleCtrlC, serverVars, NoReceive, NewSession
<1>2. /\ receive.id # None => /\ cancelling' = cancelling \cup {receive.id}
                              /\ \A t \in Sessions : t # receive.id => log'[t] = log[t]
      /\ receive.id = None => UNCHANGED <<cancelling, log>>
  BY DEF HandleCtrlC, TypeOK
<1>3. \A t \in Sessions : decision'[t] # decision[t] => t = pending
  BY <1>1 DEF Decided, TypeOK
<1>4. RequestInv'
  BY <1>1, <1>3, AnswerRequestInv
<1>5. \A t \in Sessions : decision[t] = "accept" /\ srv[t] \in {"waiting", "active", "closed"}
                            /\ (receive.id = t \/ t \in cancelling \/ log[t] # NoLine)
                          => decision'[t] = "accept"
  <2>1. pending # None /\ srv[pending] = "waiting" => decision[pending] = "none"
    BY PromptUnanswered
  <2> QED BY <1>1, <1>3, <2>1 DEF Decided, Answerable
<1>6. \A t \in Sessions : decision[t] = "accept" => srv[t] \in {"waiting", "active", "closed"}
  BY DEF IInv, FreshUntouched, TypeOK
<1>7. AcceptedOnly'
  BY <1>1, <1>2, <1>5, <1>6, NoneAssumption DEF IInv, AcceptedOnly
<1>8. \A t \in Sessions : srv[t] = "waiting" /\ decision'[t] = "accept" => decision[t] = "accept"
  <2>1. pending # None => decision' = decision \/ decision' = [decision EXCEPT ![pending] = "decline"]
    BY <1>1 DEF Decided
  <2> QED BY <1>1, <2>1 DEF TypeOK
<1>9. AcceptedIsVisible'
  BY <1>1, <1>2, <1>8, NoneAssumption DEF IInv, AcceptedIsVisible
<1>10. EndedIsClosed' /\ ReceiveTracksServer'
  BY <1>1 DEF EndedIsClosed, ReceiveTracksServer
<1> QED BY <1>4, <1>7, <1>9, <1>10, TwoParts DEF IInv, RequestInv, SessionInv

\* The server closes what the user does not see any more.
LEMMA InvCancelTask ==
    ASSUME TypeOK, IInv, NEW s \in Sessions, CancelTask(s)
    PROVE  IInv'
<1>1. /\ s \in cancelling
      /\ cancelling' = cancelling \ {s}
      /\ srv' = [srv EXCEPT ![s] = "closed"]
      /\ UNCHANGED <<decision, serverQ, pending, receive, log>>
  BY DEF CancelTask
<1>2. decision[s] = "accept" /\ receive.id # s
  BY <1>1 DEF IInv, AcceptedOnly
<1>3. \A t \in Sessions : srv'[t] = IF t = s THEN "closed" ELSE srv[t]
  BY <1>1 DEF TypeOK
<1>4. OneBusy' /\ FreshUntouched' /\ EndIsClosed'
  BY <1>1, <1>3 DEF IInv, OneBusy, Busy, FreshUntouched, EndIsClosed
<1>5. RequestUnseen'
  BY <1>1, <1>2, <1>3 DEF IInv, RequestUnseen
<1>6. RequestsSeparated' /\ PromptWithdrawnFirst'
  BY <1>1 DEF IInv, RequestsSeparated, PromptWithdrawnFirst
<1>7. PromptIsLive'
  <2>1. pending # None => pending \in Sessions
    BY DEF TypeOK
  <2> QED BY <1>1, <1>2, <1>3, <2>1 DEF IInv, PromptIsLive, Queued
<1>8. AcceptedOnly' /\ AcceptedIsVisible'
  BY <1>1, <1>3 DEF IInv, AcceptedOnly, AcceptedIsVisible
<1>9. receive.id # None => receive.id \in Sessions
  BY DEF TypeOK, ReceiveSession
<1>10. receive.id # None => srv'[receive.id] = srv[receive.id]
  BY <1>2, <1>3, <1>9
<1>11. EndedIsClosed' /\ ReceiveTracksServer'
  BY <1>1, <1>10 DEF IInv, EndedIsClosed, ReceiveTracksServer, Queued
<1> QED BY <1>4, <1>5, <1>6, <1>7, <1>8, <1>11 DEF IInv

\* Steps of the file transfers do not concern IInv.
LEMMA InvUnchanged ==
    ASSUME TypeOK, IInv,
           UNCHANGED <<srv, decision, serverQ, pending, receive, cancelling, log>>
    PROVE  IInv'
  BY AnswerRequestInv, SessionInvFrame, TwoParts
     DEF IInv, RequestInv, SessionInv, Queued

LEMMA InvNext ==
    ASSUME TypeOK, IInv, [Next]_vars
    PROVE  IInv'
<1>1. ASSUME NEW s \in Sessions, SrvStep(s)
      PROVE  IInv'
  <2>1. ASSUME NEW f \in Files, SrvUploadAborted(s, f) \/ \E ok \in BOOLEAN : SrvFileDone(s, f, ok)
        PROVE  IInv'
    BY <2>1, InvUnchanged DEF SrvUploadAborted, SrvFileDone, appVars
  <2>2. SrvFinish(s) \/ SrvCancelled(s) => IInv'
    BY InvEnd DEF Reasons
  <2> QED BY <1>1, <2>1, <2>2, InvPrepare, InvDecided, InvAbort, InvUpload DEF SrvStep
<1>2. CASE HandleServerEvent
  BY <1>2, InvMessage, InvPairedRequest, InvRequest, InvUploadEvent, InvSessionEnd,
     InvHandleAborted DEF HandleServerEvent, HandlePrepareUpload
<1>3. CASE User
  <2>1. ASSUME NEW d \in Senders, Pair(d) \/ Unpair(d)
        PROVE  IInv'
    BY <2>1, InvUnchanged DEF Pair, Unpair, serverVars
  <2> QED BY <1>3, <2>1, InvDecline, InvAccept, InvCtrlC DEF User
<1>4. CASE Terminated \/ UNCHANGED vars
  BY <1>4, InvUnchanged DEF Terminated, vars
<1> QED BY <1>1, <1>2, <1>3, <1>4, InvResult, InvCancelTask DEF Next

\* IInv holds in every reachable state.
THEOREM InductiveInvariant == Spec => []IInv
<1>1. Init => IInv
  <2> SUFFICES ASSUME Init PROVE IInv
    OBVIOUS
  <2>1. /\ srv = [s \in Sessions |-> "new"]
        /\ decision = [s \in Sessions |-> "none"]
        /\ log = [s \in Sessions |-> NoLine]
        /\ serverQ = <<>> /\ pending = None /\ cancelling = {}
        /\ receive.id = None
    BY DEF Init, NoReceive, NewSession
  <2>2. OneBusy /\ FreshUntouched /\ EndIsClosed /\ RequestUnseen /\ RequestsSeparated
    BY <2>1, NoneAssumption
       DEF OneBusy, Busy, FreshUntouched, EndIsClosed, RequestUnseen, RequestsSeparated
  <2>3. PromptIsLive /\ PromptWithdrawnFirst
    BY <2>1 DEF PromptIsLive, PromptWithdrawnFirst
  <2>4. AcceptedOnly /\ AcceptedIsVisible /\ EndedIsClosed /\ ReceiveTracksServer
    BY <2>1, NoneAssumption
       DEF AcceptedOnly, AcceptedIsVisible, EndedIsClosed, ReceiveTracksServer
  <2> QED BY <2>2, <2>3, <2>4 DEF IInv
<1>2. TypeOK /\ IInv /\ [Next]_vars => IInv'
  BY InvNext
<1> QED BY <1>1, <1>2, TypeCorrect, PTL DEF Spec

(***************************************************************************)
(* What follows from it.                                                   *)
(***************************************************************************)

\* The prompt on the screen can be answered, or its end is on its way.
THEOREM PromptsAreLive == Spec => []PromptIsLive
<1>1. IInv => PromptIsLive
  BY DEF IInv
<1> QED BY <1>1, InductiveInvariant, PTL

\* `self.pending = Some(..)` finds no prompt to overwrite.
THEOREM PromptsNeverReplaced == Spec => []PromptNeverReplaced
<1>1. TypeOK /\ IInv => PromptNeverReplaced
  <2> SUFFICES ASSUME TypeOK, IInv, serverQ # <<>>, Head(serverQ).type = "PrepareUpload"
               PROVE  pending = None
    BY DEF PromptNeverReplaced
  <2>1. /\ 1 \in 1..Len(serverQ) /\ serverQ[1] \in Events
        /\ serverQ[1].type = "PrepareUpload"
    BY TailFacts DEF TypeOK
  <2>2. PICK s \in Sessions : serverQ[1] = PrepareUpload(s)
    BY <2>1 DEF Events, PrepareUpload, PrepareUploadAborted, FileUpload, SessionEnd
  <2> QED BY <2>1, <2>2 DEF IInv, PromptWithdrawnFirst
<1> QED BY <1>1, TypeCorrect, InductiveInvariant, PTL

\* No session is open on the server that the user cannot see, unless the task
\* that ends it is under way.
THEOREM ActiveSessionsVisible == Spec => []ActiveIsVisible
<1>1. IInv => ActiveIsVisible
  BY DEF IInv, AcceptedIsVisible, ActiveIsVisible
<1> QED BY <1>1, InductiveInvariant, PTL

\* The session on the screen is one the server will tell us the end of.
THEOREM ReceiveIsTracked == Spec => []ReceiveTracksServer
<1>1. IInv => ReceiveTracksServer
  BY DEF IInv
<1> QED BY <1>1, InductiveInvariant, PTL

\* The user is shown at most one closing line for a session.
THEOREM SessionClosedOnce == Spec => ClosedOnce
<1>1. ASSUME TypeOK, IInv, [Next]_vars
      PROVE  [\A s \in Sessions : log[s] # NoLine => log'[s] = log[s]]_log
  <2>1. CASE log' = log
    BY <2>1
  <2>2. ASSUME NEW r \in results, ReceiveFileResult(r), receive.id = r.session
        PROVE  \A s \in Sessions : log[s] # NoLine => log'[s] = log[s]
    <3>1. Counted(r) \in ReceiveSession /\ Counted(r).id = receive.id /\ receive.id \in Sessions
      BY <1>1, <2>2, CountedTypes DEF TypeOK, Results
    <3>2. \A s \in Sessions : s # receive.id => log'[s] = log[s]
      BY <1>1, <2>2, <3>1, FinishCases DEF ReceiveFileResult
    <3> QED BY <1>1, <3>2 DEF IInv, AcceptedOnly
  <2>3. ASSUME NEW s \in Sessions, NEW reason \in Reasons,
               HandleSessionEnd(s, reason), receive.id = s
        PROVE  \A t \in Sessions : log[t] # NoLine => log'[t] = log[t]
    <3>1. /\ [receive EXCEPT !.ended = reason] \in ReceiveSession
          /\ [receive EXCEPT !.ended = reason].id = receive.id
      BY <1>1 DEF TypeOK, ReceiveSession
    <3>2. \A t \in Sessions : t # receive.id => log'[t] = log[t]
      BY <1>1, <2>3, <3>1, FinishCases DEF HandleSessionEnd
    <3> QED BY <1>1, <3>2 DEF IInv, AcceptedOnly
  <2>4. ASSUME HandleCtrlC
        PROVE  \A t \in Sessions : log[t] # NoLine => log'[t] = log[t]
    <3>1. \A t \in Sessions : t # receive.id => log'[t] = log[t]
      BY <1>1, <2>4 DEF HandleCtrlC, TypeOK
    <3> QED BY <1>1, <3>1 DEF IInv, AcceptedOnly
  <2>5. \/ log' = log
        \/ \E r \in results : ReceiveFileResult(r) /\ receive.id = r.session
        \/ \E s \in Sessions, reason \in Reasons :
              HandleSessionEnd(s, reason) /\ receive.id = s
        \/ HandleCtrlC
    <3>1. ASSUME NEW s \in Sessions, SrvStep(s)
          PROVE  log' = log
      BY <3>1 DEF SrvStep, SrvPrepare, SrvDecided, SrvAbort, SrvUpload, SrvUploadAborted,
                  SrvFileDone, SrvFinish, SrvCancelled, appVars
    <3>2. ASSUME HandleServerEvent
          PROVE  \/ log' = log
                 \/ \E s \in Sessions, reason \in Reasons :
                       HandleSessionEnd(s, reason) /\ receive.id = s
      BY <3>2 DEF HandleServerEvent, HandlePrepareUpload, HandleMessage, HandlePairedRequest,
                  HandleRequest, HandleForeignUpload, HandleFileUpload, HandleSessionEnd,
                  HandleAborted, appVars
    <3>3. ASSUME NEW r \in results, ReceiveFileResult(r), receive.id # r.session
          PROVE  log' = log
      BY <3>3 DEF ReceiveFileResult
    <3>4. ASSUME User
          PROVE  log' = log \/ HandleCtrlC
      BY <3>4 DEF User, Decline, Accept, Pair, Unpair
    <3>5. ASSUME NEW s \in Sessions, CancelTask(s)
          PROVE  log' = log
      BY <3>5 DEF CancelTask
    <3>6. Terminated \/ UNCHANGED vars => log' = log
      BY DEF Terminated, vars
    <3> QED BY <1>1, <3>1, <3>2, <3>3, <3>4, <3>5, <3>6 DEF Next
  <2> QED BY <2>1, <2>2, <2>3, <2>4, <2>5
<1> QED BY <1>1, TypeCorrect, InductiveInvariant, PTL DEF Spec, ClosedOnce

(***************************************************************************)
(* One thing at a time.                                                    *)
(***************************************************************************)

\* Steps that open no session, put nothing into the queue, show no prompt and
\* accept nothing.
LEMMA OneFrame ==
    ASSUME TypeOK, OneAtATime, Busy' \subseteq Busy, pending' \in {pending, None},
           serverQ' = serverQ \/ \E e : Take(e),
           \A t \in Sessions : decision'[t] # decision[t] =>
              decision'[t] # "accept" /\ pending' # t
    PROVE  OneAtATime'
<1>1. PICK d \in {0, 1} : \A i \in 1..Len(serverQ') :
          i + d \in 1..Len(serverQ) /\ serverQ'[i] = serverQ[i + d]
  <2>1. CASE serverQ' = serverQ
    <3>1. serverQ \in Seq(Events)
      BY DEF TypeOK
    <3>2. \A i \in 1..Len(serverQ') : i + 0 \in 1..Len(serverQ) /\ serverQ'[i] = serverQ[i + 0]
      BY <2>1, <3>1
    <3> QED BY <3>2
  <2>2. CASE \E e : Take(e)
    <3>1. \A i \in 1..Len(serverQ') : i + 1 \in 1..Len(serverQ) /\ serverQ'[i] = serverQ[i + 1]
      BY <2>2, TakeQueue
    <3> QED BY <3>1
  <2> QED BY <2>1, <2>2
<1>2. pending' # None => pending' = pending /\ pending \in Sessions
  BY DEF TypeOK
<1>3. PromptUndecided'
  BY <1>2 DEF OneAtATime, PromptUndecided
<1>4. \A t \in Sessions : (Queued(PrepareUpload(t)))' => Queued(PrepareUpload(t))
  BY <1>1 DEF Queued
<1>5. AcceptedAlone'
  <2>1. \A t \in Busy' : t \in Sessions /\ t \in Busy
    BY DEF Busy
  <2> QED BY <1>2, <1>4, <2>1 DEF OneAtATime, AcceptedAlone
<1>6. EndsFirst'
  <2> SUFFICES ASSUME NEW t \in Sessions, NEW r \in Reasons, NEW k \in 1..Len(serverQ'),
                      serverQ'[k] = SessionEnd(t, r)
               PROVE  /\ pending' = None
                      /\ \A u \in Sessions, i \in 1..k : serverQ'[i] # PrepareUpload(u)
    BY DEF EndsFirst
  <2>1. k + d \in 1..Len(serverQ) /\ serverQ[k + d] = SessionEnd(t, r)
    BY <1>1
  <2>2. /\ pending = None
        /\ \A u \in Sessions, i \in 1..(k + d) : serverQ[i] # PrepareUpload(u)
    BY <2>1 DEF OneAtATime, EndsFirst
  <2>3. ASSUME NEW u \in Sessions, NEW i \in 1..k
        PROVE  serverQ'[i] # PrepareUpload(u)
    <3>1. i \in 1..Len(serverQ') /\ i + d \in 1..(k + d)
      BY DEF TypeOK
    <3> QED BY <1>1, <2>2, <3>1
  <2> QED BY <1>2, <2>2, <2>3
<1> QED BY <1>3, <1>5, <1>6 DEF OneAtATime

\* An upload or an abort is queued.
LEMMA OneAppend ==
    ASSUME TypeOK, OneAtATime, Busy' \subseteq Busy, UNCHANGED <<decision, pending>>,
           NEW e \in Events, serverQ' = Append(serverQ, e),
           \A t \in Sessions : e # PrepareUpload(t) /\ \A r : e # SessionEnd(t, r)
    PROVE  OneAtATime'
<1> DEFINE n == Len(serverQ)
<1>1. /\ n \in Nat /\ Len(serverQ') = n + 1 /\ serverQ'[n + 1] = e
      /\ \A i \in 1..n : serverQ'[i] = serverQ[i]
      /\ \A i \in 1..Len(serverQ') : i \in 1..n \/ i = n + 1
  BY AppendQueue
<1> HIDE DEF n
<1>2. PromptUndecided'
  BY DEF OneAtATime, PromptUndecided
<1>3. \A t \in Sessions : (Queued(PrepareUpload(t)))' => Queued(PrepareUpload(t))
  BY <1>1 DEF Queued, n
<1>4. AcceptedAlone'
  <2>1. \A t \in Busy' : t \in Sessions /\ t \in Busy
    BY DEF Busy
  <2> QED BY <1>3, <2>1 DEF OneAtATime, AcceptedAlone
<1>5. EndsFirst'
  <2> SUFFICES ASSUME NEW t \in Sessions, NEW r \in Reasons, NEW k \in 1..Len(serverQ'),
                      serverQ'[k] = SessionEnd(t, r)
               PROVE  /\ pending' = None
                      /\ \A u \in Sessions, i \in 1..k : serverQ'[i] # PrepareUpload(u)
    BY DEF EndsFirst
  <2>1. k \in 1..n /\ serverQ[k] = SessionEnd(t, r)
    BY <1>1
  <2>2. /\ pending = None
        /\ \A u \in Sessions, i \in 1..k : serverQ[i] # PrepareUpload(u)
    BY <2>1 DEF OneAtATime, EndsFirst, n
  <2> QED BY <1>1, <2>1, <2>2
<1> QED BY <1>2, <1>4, <1>5 DEF OneAtATime

\* A request comes in when the server has no session.
LEMMA OnePrepare ==
    ASSUME TypeOK, IInv, OneAtATime, NEW s \in Sessions,
           NEW d \in Senders, NEW fs \in SUBSET Files, NEW m \in BOOLEAN,
           SrvPrepare(s, d, fs, m)
    PROVE  OneAtATime'
<1> DEFINE n == Len(serverQ)
           e == PrepareUpload(s)
<1>1. /\ n \in Nat /\ Len(serverQ') = n + 1 /\ serverQ'[n + 1] = e
      /\ \A i \in 1..n : serverQ'[i] = serverQ[i]
      /\ \A i \in 1..Len(serverQ') : i \in 1..n \/ i = n + 1
  BY AppendQueue, EventTypes DEF SrvPrepare
<1>2. /\ Busy = {} /\ srv[s] = "new"
      /\ srv' = [srv EXCEPT ![s] = "waiting"]
      /\ UNCHANGED <<decision, pending>>
  BY DEF SrvPrepare, appVars
<1>3. \A t, r : e # SessionEnd(t, r)
  BY EventsDiffer
<1> HIDE DEF n, e
<1>4. PromptUndecided'
  BY <1>2 DEF OneAtATime, PromptUndecided
<1>5. AcceptedAlone'
  <2>1. decision[s] = "none" /\ \A t \in Busy' : t = s
    BY <1>2 DEF IInv, FreshUntouched, Busy, TypeOK
  <2> QED BY <1>2, <2>1 DEF AcceptedAlone
<1>6. EndsFirst'
  <2> SUFFICES ASSUME NEW t \in Sessions, NEW r \in Reasons, NEW k \in 1..Len(serverQ'),
                      serverQ'[k] = SessionEnd(t, r)
               PROVE  /\ pending' = None
                      /\ \A u \in Sessions, i \in 1..k : serverQ'[i] # PrepareUpload(u)
    BY DEF EndsFirst
  <2>1. k \in 1..n /\ serverQ[k] = SessionEnd(t, r)
    BY <1>1, <1>3
  <2>2. /\ pending = None
        /\ \A u \in Sessions, i \in 1..k : serverQ[i] # PrepareUpload(u)
    BY <2>1 DEF OneAtATime, EndsFirst, n
  <2> QED BY <1>1, <1>2, <2>1, <2>2
<1> QED BY <1>4, <1>5, <1>6 DEF OneAtATime

\* A session ends that the user accepted: no one was asked in the meantime.
LEMMA OneEnd ==
    ASSUME TypeOK, IInv, OneAtATime, NEW s \in Sessions, NEW r \in Reasons,
           srv[s] = "active", srv' = [srv EXCEPT ![s] = "closed"],
           serverQ' = Append(serverQ, SessionEnd(s, r)), UNCHANGED <<decision, pending>>
    PROVE  OneAtATime'
<1> DEFINE n == Len(serverQ)
           e == SessionEnd(s, r)
<1>1. /\ n \in Nat /\ Len(serverQ') = n + 1 /\ serverQ'[n + 1] = e
      /\ \A i \in 1..n : serverQ'[i] = serverQ[i]
      /\ \A i \in 1..Len(serverQ') : i \in 1..n \/ i = n + 1
  BY AppendQueue, EventTypes
<1>2. \A t : e # PrepareUpload(t)
  BY DEF SessionEnd, PrepareUpload
<1> HIDE DEF n, e
<1>3. decision[s] = "accept" /\ s \in Busy
  BY DEF IInv, AcceptedIsVisible, AcceptedOnly, Busy
<1>4. pending = None /\ \A t \in Sessions : ~Queued(PrepareUpload(t))
  BY <1>3 DEF OneAtATime, AcceptedAlone
<1>5. \A t \in Sessions, i \in 1..Len(serverQ') : serverQ'[i] # PrepareUpload(t)
  BY <1>1, <1>2, <1>4 DEF Queued, n
<1>6. EndsFirst'
  <2>1. \A k \in 1..Len(serverQ') : 1..k \subseteq 1..Len(serverQ')
    BY <1>1
  <2> QED BY <1>4, <1>5, <2>1 DEF EndsFirst
<1> QED BY <1>4, <1>5, <1>6 DEF OneAtATime, PromptUndecided, AcceptedAlone, Queued

\* A prompt appears: nothing is open, and no end is queued behind it.
LEMMA OneRequest ==
    ASSUME TypeOK, IInv, OneAtATime, NEW s \in Sessions, HandleRequest(s)
    PROVE  OneAtATime'
<1>1. /\ Take(PrepareUpload(s)) /\ pending' = s /\ srv' = srv
      /\ decision' = IF pending # None THEN Decided(pending, "dropped") ELSE decision
  BY DEF HandleRequest, serverVars
<1>2. decision[s] = "none" /\ decision' = decision
  BY <1>1, TakenRequest
<1>3. 1 \in 1..Len(serverQ) /\ serverQ[1] = PrepareUpload(s)
  BY <1>1, TakeQueue
<1>4. AcceptedAlone'
  <2>1. Queued(PrepareUpload(s))
    BY <1>3 DEF Queued
  <2> QED BY <1>1, <1>2, <2>1 DEF OneAtATime, AcceptedAlone, Busy
<1>5. ASSUME NEW t \in Sessions, NEW r \in Reasons, NEW k \in 1..Len(serverQ')
      PROVE  serverQ'[k] # SessionEnd(t, r)
  <2>1. k + 1 \in 1..Len(serverQ) /\ serverQ'[k] = serverQ[k + 1] /\ 1 \in 1..(k + 1)
    BY <1>1, TakeQueue
  <2> QED BY <1>3, <2>1 DEF OneAtATime, EndsFirst
<1> QED BY <1>1, <1>2, <1>4, <1>5 DEF OneAtATime, PromptUndecided, EndsFirst

\* A session is accepted, by the user or because its sender is paired: its
\* request still waits, so no other one is queued.
LEMMA OneAccepted ==
    ASSUME TypeOK, IInv, OneAtATime, IInv', NEW s \in Sessions, srv[s] = "waiting",
           srv' = srv, pending' = None, decision' = [decision EXCEPT ![s] = "accept"],
           \/ serverQ' = serverQ /\ pending = s
           \/ Take(PrepareUpload(s))
    PROVE  OneAtATime'
<1>1. ~(Queued(PrepareUploadAborted(s)))'
  BY DEF IInv, EndIsClosed, Queued
<1>2. \A t \in Sessions : ~(Queued(PrepareUpload(t)))'
  <2>1. CASE serverQ' = serverQ /\ pending = s
    BY <1>1, <2>1, NoneAssumption DEF IInv, PromptWithdrawnFirst, Queued, TypeOK
  <2>2. CASE Take(PrepareUpload(s))
    <3>1. Len(serverQ') \in Nat
      BY <2>2, TakeQueue
    <3> QED BY <1>1, <2>2, <3>1, TakenRequest DEF Queued
  <2> QED BY <2>1, <2>2
<1>3. EndsFirst'
  <2>1. Len(serverQ') \in Nat
    <3>1. CASE serverQ' = serverQ
      BY <3>1 DEF TypeOK
    <3>2. CASE Take(PrepareUpload(s))
      BY <3>2, TakeQueue
    <3> QED BY <3>1, <3>2
  <2>2. \A k \in 1..Len(serverQ') : 1..k \subseteq 1..Len(serverQ')
    BY <2>1
  <2> QED BY <1>2, <2>2 DEF EndsFirst, Queued
<1> QED BY <1>2, <1>3 DEF OneAtATime, PromptUndecided, AcceptedAlone

LEMMA OneNext ==
    ASSUME TypeOK, IInv, OneAtATime, IInv', [Next]_vars
    PROVE  OneAtATime'
<1>1. ASSUME NEW s \in Sessions, SrvStep(s)
      PROVE  OneAtATime'
  <2>1. ASSUME NEW d \in Senders, NEW fs \in SUBSET Files, NEW m \in BOOLEAN,
               SrvPrepare(s, d, fs, m)
        PROVE  OneAtATime'
    BY <2>1, OnePrepare
  <2>2. CASE SrvDecided(s)
    BY <2>2, OneFrame DEF SrvDecided, appVars, Busy, TypeOK
  <2>3. CASE SrvAbort(s)
    <3>1. Busy' \subseteq Busy
      BY <2>3 DEF SrvAbort, Busy, TypeOK
    <3>2. PrepareUploadAborted(s) \in Events
      BY EventTypes
    <3>3. \A t \in Sessions : /\ PrepareUploadAborted(s) # PrepareUpload(t)
                             /\ \A r : PrepareUploadAborted(s) # SessionEnd(t, r)
      BY EventsDiffer
    <3> QED BY <2>3, <3>1, <3>2, <3>3, OneAppend DEF SrvAbort, appVars
  <2>4. ASSUME NEW f \in Files, SrvUpload(s, f)
        PROVE  OneAtATime'
    <3> DEFINE e == FileUpload(s, f, tries[s][f] + 1)
    <3>1. tries[s][f] + 1 \in 1..MaxAttempts
      BY <2>4, CapAssumption DEF SrvUpload, TypeOK
    <3>2. e \in Events
      BY <3>1, EventTypes
    <3>3. \A t \in Sessions : e # PrepareUpload(t) /\ \A r : e # SessionEnd(t, r)
      BY EventsDiffer
    <3>4. Busy' \subseteq Busy /\ serverQ' = Append(serverQ, e) /\ UNCHANGED <<decision, pending>>
      BY <2>4 DEF SrvUpload, Busy, appVars
    <3> HIDE DEF e
    <3> QED BY <3>2, <3>3, <3>4, OneAppend
  <2>5. ASSUME NEW f \in Files, SrvUploadAborted(s, f) \/ \E ok \in BOOLEAN : SrvFileDone(s, f, ok)
        PROVE  OneAtATime'
    BY <2>5, OneFrame DEF SrvUploadAborted, SrvFileDone, appVars, Busy
  <2>6. CASE SrvFinish(s)
    BY <2>6, OneEnd DEF SrvFinish, appVars, Reasons
  <2>7. CASE SrvCancelled(s)
    BY <2>7, OneEnd DEF SrvCancelled, appVars, Reasons
  <2> QED BY <1>1, <2>1, <2>2, <2>3, <2>4, <2>5, <2>6, <2>7 DEF SrvStep
<1>2. ASSUME NEW s \in Sessions, HandleMessage(s)
      PROVE  OneAtATime'
  <2>1. pending = None /\ Take(PrepareUpload(s)) /\ UNCHANGED <<srv, pending>>
    BY <1>2, TakenRequest DEF HandleMessage, serverVars, appVars
  <2>2. \A t \in Sessions : decision'[t] # decision[t] => decision'[t] # "accept"
    BY <1>2 DEF HandleMessage, Decided, TypeOK
  <2> QED BY <2>1, <2>2, OneFrame, NoneAssumption DEF Busy
<1>3. ASSUME NEW s \in Sessions, HandlePairedRequest(s)
      PROVE  OneAtATime'
  <2>1. pending = None /\ Take(PrepareUpload(s)) /\ UNCHANGED <<srv, pending>>
    BY <1>3, TakenRequest DEF HandlePairedRequest, serverVars
  <2>2. CASE srv[s] = "waiting"
    BY <1>3, <2>1, <2>2, OneAccepted DEF HandlePairedRequest, Decided, Answerable
  <2>3. CASE srv[s] # "waiting"
    BY <1>3, <2>1, <2>3, OneFrame DEF HandlePairedRequest, Decided, Answerable, Busy
  <2> QED BY <2>2, <2>3
<1>4. ASSUME NEW s \in Sessions,
             \/ \E f \in Files, n \in 1..MaxAttempts :
                   HandleForeignUpload(s, f, n) \/ HandleFileUpload(s, f, n)
             \/ \E reason \in Reasons : HandleSessionEnd(s, reason)
             \/ HandleAborted(s)
      PROVE  OneAtATime'
  <2>1. /\ \E e : Take(e)
        /\ UNCHANGED <<srv, decision>> /\ pending' \in {pending, None}
    BY <1>4 DEF HandleForeignUpload, HandleFileUpload, HandleSessionEnd, HandleAborted,
                appVars, serverVars
  <2> QED BY <2>1, OneFrame DEF Busy
<1>5. ASSUME NEW r \in results, ReceiveFileResult(r)
      PROVE  OneAtATime'
  BY <1>5, OneFrame DEF ReceiveFileResult, serverVars, Busy
<1>6. CASE Decline \/ HandleCtrlC
  <2>1. /\ serverQ' = serverQ /\ srv' = srv /\ pending' = None
        /\ decision' = decision \/ decision' = Decided(pending, "decline")
    BY <1>6 DEF Decline, HandleCtrlC, serverVars
  <2>2. \A t \in Sessions : decision'[t] # decision[t] => decision'[t] # "accept"
    BY <2>1 DEF Decided, TypeOK
  <2> QED BY <2>1, <2>2, OneFrame, NoneAssumption DEF Busy
<1>7. ASSUME NEW pair \in BOOLEAN, Accept(pair)
      PROVE  OneAtATime'
  <2>1. /\ pending \in Sessions /\ pending' = None /\ UNCHANGED <<srv, serverQ>>
        /\ decision' = Decided(pending, "accept")
    BY <1>7, PromptUnanswered DEF Accept, serverVars
  <2>2. CASE srv[pending] = "waiting"
    BY <2>1, <2>2, OneAccepted DEF Decided, Answerable
  <2>3. CASE srv[pending] # "waiting"
    BY <2>1, <2>3, OneFrame DEF Decided, Answerable, Busy
  <2> QED BY <2>2, <2>3
<1>8. ASSUME NEW d \in Senders, Pair(d) \/ Unpair(d)
      PROVE  OneAtATime'
  BY <1>8, OneFrame DEF Pair, Unpair, serverVars, Busy
<1>9. ASSUME NEW s \in Sessions, CancelTask(s)
      PROVE  OneAtATime'
  BY <1>9, OneFrame DEF CancelTask, Busy, TypeOK
<1>10. CASE Terminated \/ UNCHANGED vars
  BY <1>10, OneFrame DEF Terminated, vars, Busy
<1> QED
  BY <1>1, <1>2, <1>3, <1>4, <1>5, <1>6, <1>7, <1>8, <1>9, <1>10, OneRequest
     DEF Next, HandleServerEvent, HandlePrepareUpload, User

\* One prompt or one open session at a time, and in the order of the queue.
THEOREM OneThingAtATime == Spec => []OneAtATime
<1>1. Init => OneAtATime
  BY NoneAssumption DEF Init, OneAtATime, PromptUndecided, AcceptedAlone, EndsFirst, Busy
<1>2. TypeOK /\ IInv /\ OneAtATime /\ IInv' /\ [Next]_vars => OneAtATime'
  BY OneNext
<1> QED BY <1>1, <1>2, TypeCorrect, InductiveInvariant, PTL DEF Spec

\* All the above at once.
THEOREM AgreementHolds == Spec => []Agreement
<1>1. TypeOK /\ IInv /\ OneAtATime => Agreement
  BY DEF Agreement
<1> QED BY <1>1, TypeCorrect, InductiveInvariant, OneThingAtATime, PTL

(***************************************************************************)
(* The refinement of ReceivePromise: where each session stands after a     *)
(* step, and the step of the promise that makes.                           *)
(***************************************************************************)
Shown == [s \in Sessions |-> Stage(s)]

\* The App has not taken the request of s from the queue.
Unseen(s) == srv[s] = "new" \/ Queued(PrepareUpload(s))

\* The prompt, the screen and the queue tell the stages apart.
StageParts ==
    \A s \in Sessions :
        /\ pending = s    => ~Unseen(s) /\ receive.id # s
        /\ receive.id = s => ~Unseen(s)
        /\ Stage(s) = IF Unseen(s) THEN "unseen"
                      ELSE IF pending = s THEN "prompted"
                      ELSE IF receive.id # s THEN "over"
                      ELSE IF receive.ended = "no" /\ ~Vanished(s) THEN "receiving" ELSE "ending"

LEMMA StagesApart == Agreement => StageParts
<1> SUFFICES ASSUME Agreement, NEW s \in Sessions
             PROVE  /\ pending = s    => ~Unseen(s) /\ receive.id # s
                    /\ receive.id = s => ~Unseen(s)
  BY DEF StageParts, Stage, Unseen
<1>1. Queued(PrepareUpload(s)) => decision[s] = "none" /\ pending # s
  BY DEF Agreement, IInv, RequestUnseen, Queued
<1>2. srv[s] = "new" => decision[s] = "none" /\ pending # s
  BY DEF Agreement, IInv, FreshUntouched
<1>3. pending = s => decision[s] = "none"
  BY NoneAssumption DEF Agreement, OneAtATime, PromptUndecided
<1>4. receive.id = s => decision[s] = "accept"
  BY DEF Agreement, IInv, AcceptedOnly
<1> QED BY <1>1, <1>2, <1>3, <1>4 DEF Unseen

LEMMA StagesApartNext == Agreement' => StageParts'
  BY StagesApart, PTL

\* What a step of the queue does to the events in it.
LEMMA TakenLeaves ==
    ASSUME TypeOK, NEW e, Take(e)
    PROVE  /\ \A x : (Queued(x))' => Queued(x)
           /\ \A x : x # e => ((Queued(x))' <=> Queued(x))
           /\ Queued(e)
<1>1. 1 \in 1..Len(serverQ) /\ serverQ[1] = e
  BY TakeQueue
<1>2. ASSUME NEW i \in 1..Len(serverQ')
      PROVE  \E j \in 1..Len(serverQ) : serverQ[j] = serverQ'[i]
  BY TakeQueue
<1>3. \A x : (Queued(x))' => Queued(x)
  BY <1>2 DEF Queued
<1> QED BY <1>1, <1>3, TakeKeepsOthers DEF Queued

LEMMA AppendedJoins ==
    ASSUME TypeOK, NEW e \in Events, serverQ' = Append(serverQ, e)
    PROVE  \A x : (Queued(x))' <=> Queued(x) \/ x = e
<1>1. Len(serverQ) + 1 \in 1..Len(serverQ')
  BY AppendQueue
<1> QED BY <1>1, AppendQueue DEF Queued

(***************************************************************************)
(* Steps of the promise, session by session.                               *)
(***************************************************************************)
LEMMA StagesStay ==
    ASSUME \A s \in Sessions : Stage(s)' = Stage(s)
    PROVE  UNCHANGED Shown
  BY DEF Shown

LEMMA PromptStep ==
    ASSUME NEW s \in Sessions, Stage(s) = "unseen", Stage(s)' = "prompted",
           \A t \in Sessions : t # s => Stage(t)' = Stage(t) /\ Stage(t) # "prompted"
    PROVE  Promise!Next
<1>1. Promise!At("prompted") = {}
  BY DEF Promise!At
<1>2. Promise!Prompt(s)
  BY <1>1 DEF Promise!Prompt
<1> QED BY <1>2 DEF Promise!Next

LEMMA StartStep ==
    ASSUME NEW s \in Sessions, Stage(s) \in {"unseen", "prompted"}, Stage(s)' = "receiving",
           \A t \in Sessions : t # s =>
              /\ Stage(t)' = IF Stage(t) = "ending" THEN "over" ELSE Stage(t)
              /\ Stage(t) # "receiving"
    PROVE  Promise!Next
<1>1. Promise!At("receiving") = {}
  BY DEF Promise!At
<1>2. Promise!Start(s)
  BY <1>1 DEF Promise!Start
<1> QED BY <1>2 DEF Promise!Next

LEMMA EndingStep ==
    ASSUME NEW s \in Sessions, Stage(s) = "receiving", Stage(s)' = "ending",
           \A t \in Sessions : t # s => Stage(t)' = Stage(t)
    PROVE  Promise!Next
<1>1. Promise!Ending(s)
  BY DEF Promise!Ending
<1> QED BY <1>1 DEF Promise!Next

LEMMA CloseStep ==
    ASSUME NEW S \in SUBSET Sessions, S # {},
           \A s \in S : Stage(s) # "over" /\ Stage(s)' = "over",
           \A s, t \in S : Stage(s) = Stage(t) => s = t,
           \A t \in Sessions : t \notin S => Stage(t)' = Stage(t)
    PROVE  Promise!Next
<1>1. Promise!Close(S)
  BY DEF Promise!Close
<1> QED BY <1>1 DEF Promise!Next

LEMMA CloseOne ==
    ASSUME NEW s \in Sessions, Stage(s) # "over", Stage(s)' = "over",
           \A t \in Sessions : t # s => Stage(t)' = Stage(t)
    PROVE  Promise!Next
<1>1. {s} \in SUBSET Sessions
  OBVIOUS
<1> QED BY <1>1, CloseStep

\* A session keeps its stage if nothing of what makes it changes.
LEMMA SameStage ==
    ASSUME Agreement, Agreement', NEW s \in Sessions, Unseen(s)' <=> Unseen(s),
           pending' = s <=> pending = s, receive'.id = s <=> receive.id = s,
           receive.id = s => receive'.ended = receive.ended /\ (Vanished(s)' <=> Vanished(s))
    PROVE  Stage(s)' = Stage(s)
<1>1. StageParts /\ StageParts'
  BY StagesApart, StagesApartNext
<1> QED BY <1>1 DEF StageParts

\* The server's own steps: a session the user watches may be over.
LEMMA ServerKeepsPromise ==
    ASSUME Agreement, Agreement', NEW s \in Sessions, SrvStep(s)
    PROVE  Promise!Next \/ UNCHANGED Shown
<1>0. /\ TypeOK /\ UNCHANGED <<pending, receive>>
      /\ \A t \in Sessions : t # s => srv'[t] = srv[t]
  BY DEF Agreement, TypeOK, SrvStep, SrvPrepare, SrvDecided, SrvAbort, SrvUpload, SrvUploadAborted,
         SrvFileDone, SrvFinish, SrvCancelled, appVars
\* The others are not concerned, whatever is queued about s.
<1>1. ASSUME NEW t \in Sessions, t # s,
             \/ serverQ' = serverQ
             \/ \E e \in Events : e.session = s /\ serverQ' = Append(serverQ, e)
      PROVE  Stage(t)' = Stage(t)
  <2>1. \A x : x.session = t => ((Queued(x))' <=> Queued(x))
    <3>1. CASE serverQ' = serverQ
      BY <3>1 DEF Queued
    <3>2. CASE \E e \in Events : e.session = s /\ serverQ' = Append(serverQ, e)
      BY <1>0, <1>1, <3>2, AppendedJoins
    <3> QED BY <1>1, <3>1, <3>2
  <2>2. /\ PrepareUpload(t).session = t
        /\ \A r : SessionEnd(t, r).session = t
    BY EventsDiffer
  <2>3. (Unseen(t)' <=> Unseen(t)) /\ (Vanished(t)' <=> Vanished(t))
    BY <1>0, <1>1, <2>1, <2>2 DEF Unseen, Vanished
  <2> QED BY <1>0, <2>3, SameStage
<1>2. ASSUME NEW d \in Senders, NEW fs \in SUBSET Files, NEW m \in BOOLEAN,
             SrvPrepare(s, d, fs, m)
      PROVE  UNCHANGED Shown
  <2>1. /\ PrepareUpload(s) \in Events /\ PrepareUpload(s).session = s
        /\ serverQ' = Append(serverQ, PrepareUpload(s)) /\ srv[s] = "new"
    BY <1>2, EventTypes, EventsDiffer DEF SrvPrepare
  <2>2. Unseen(s) /\ Unseen(s)'
    BY <1>0, <2>1, AppendedJoins DEF Unseen
  <2>3. Stage(s)' = Stage(s)
    BY <2>2, StagesApart, StagesApartNext DEF StageParts
  <2> QED BY <1>1, <2>1, <2>3, StagesStay
<1>3. CASE SrvDecided(s)
  <2>1. /\ srv[s] = "waiting" /\ decision[s] # "none" /\ serverQ' = serverQ
        /\ srv'[s] = IF decision[s] = "accept" THEN "active" ELSE "closed"
    BY <1>0, <1>3 DEF SrvDecided, TypeOK
  <2>2. receive.id = s => ~Vanished(s) /\ ~Vanished(s)'
    BY <2>1 DEF Agreement, IInv, AcceptedOnly, Vanished
  <2>3. Unseen(s)' <=> Unseen(s)
    BY <2>1 DEF Unseen, Queued
  <2>4. Stage(s)' = Stage(s)
    BY <1>0, <2>2, <2>3, SameStage
  <2> QED BY <1>1, <2>1, <2>4, StagesStay
<1>4. CASE SrvAbort(s)
  <2> DEFINE e == PrepareUploadAborted(s)
  <2>1. /\ srv[s] = "waiting" /\ srv'[s] = "closed" /\ serverQ' = Append(serverQ, e)
    BY <1>0, <1>4 DEF SrvAbort, TypeOK
  <2>2. e \in Events /\ e.session = s /\ e # PrepareUpload(s)
    BY EventTypes, EventsDiffer
  <2>3. Unseen(s)' <=> Unseen(s)
    BY <1>0, <2>1, <2>2, AppendedJoins DEF Unseen
  <2>4. ~Vanished(s)
    BY <2>1 DEF Vanished
  <2>5. \/ Stage(s)' = Stage(s)
        \/ Stage(s) = "receiving" /\ Stage(s)' = "ending"
    BY <1>0, <2>3, <2>4, StagesApart, StagesApartNext DEF StageParts
  <2>6. \A t \in Sessions : t # s => Stage(t)' = Stage(t)
    BY <1>1, <2>1, <2>2
  <2> QED BY <2>5, <2>6, EndingStep, StagesStay
<1>5. ASSUME NEW f \in Files, SrvUpload(s, f)
      PROVE  UNCHANGED Shown
  <2> DEFINE e == FileUpload(s, f, tries[s][f] + 1)
  <2>1. tries[s][f] + 1 \in 1..MaxAttempts
    BY <1>0, <1>5, CapAssumption DEF SrvUpload, TypeOK
  <2>2. e \in Events /\ e.session = s
    BY <2>1, EventTypes, EventsDiffer
  <2>3. e # PrepareUpload(s) /\ \A r : e # SessionEnd(s, r)
    BY EventsDiffer
  <2>4. srv' = srv /\ serverQ' = Append(serverQ, e)
    BY <1>5 DEF SrvUpload
  <2> HIDE DEF e
  <2>5. (Unseen(s)' <=> Unseen(s)) /\ (Vanished(s)' <=> Vanished(s))
    BY <1>0, <2>2, <2>3, <2>4, AppendedJoins DEF Unseen, Vanished
  <2>6. Stage(s)' = Stage(s)
    BY <1>0, <2>5, SameStage
  <2> QED BY <1>1, <2>2, <2>4, <2>6, StagesStay
<1>6. ASSUME NEW f \in Files, SrvUploadAborted(s, f) \/ \E ok \in BOOLEAN : SrvFileDone(s, f, ok)
      PROVE  UNCHANGED Shown
  <2>1. srv' = srv /\ serverQ' = serverQ
    BY <1>6 DEF SrvUploadAborted, SrvFileDone
  <2>2. \A t \in Sessions : (Unseen(t)' <=> Unseen(t)) /\ (Vanished(t)' <=> Vanished(t))
    BY <2>1 DEF Unseen, Vanished, Queued
  <2> QED BY <1>0, <2>2, SameStage, StagesStay
\* The end is reported: the transfer stays on the screen until the App hears it.
<1>7. CASE SrvFinish(s) \/ SrvCancelled(s)
  <2>1. PICK r \in Reasons : serverQ' = Append(serverQ, SessionEnd(s, r))
    BY <1>7 DEF SrvFinish, SrvCancelled, Reasons
  <2>2. /\ srv[s] = "active" /\ srv'[s] = "closed"
    BY <1>0, <1>7 DEF SrvFinish, SrvCancelled, TypeOK
  <2> DEFINE e == SessionEnd(s, r)
  <2>3. e \in Events /\ e.session = s /\ PrepareUpload(s) # e
    BY EventTypes, EventsDiffer
  <2>4. (Unseen(s)' <=> Unseen(s)) /\ ~Vanished(s) /\ ~Vanished(s)'
    BY <1>0, <2>1, <2>2, <2>3, AppendedJoins DEF Unseen, Vanished
  <2>5. Stage(s)' = Stage(s)
    BY <1>0, <2>4, SameStage
  <2> QED BY <1>1, <2>1, <2>3, <2>5, StagesStay
<1> QED BY <1>2, <1>3, <1>4, <1>5, <1>6, <1>7 DEF SrvStep

\* An event that is taken concerns its own session only.
LEMMA TakeOthers ==
    ASSUME TypeOK, NEW s, NEW e, e.session = s, Take(e), srv' = srv
    PROVE  \A t \in Sessions : t # s =>
              (Unseen(t)' <=> Unseen(t)) /\ (Vanished(t)' <=> Vanished(t))
<1> SUFFICES ASSUME NEW t \in Sessions, t # s
             PROVE  (Unseen(t)' <=> Unseen(t)) /\ (Vanished(t)' <=> Vanished(t))
  OBVIOUS
<1>1. \A x : x.session = t => ((Queued(x))' <=> Queued(x))
  BY TakenLeaves
<1>2. PrepareUpload(t).session = t /\ \A r : SessionEnd(t, r).session = t
  BY EventsDiffer
<1> QED BY <1>1, <1>2 DEF Unseen, Vanished

\* The request that is taken is not unseen any more.
LEMMA TakenIsSeen ==
    ASSUME Agreement, NEW s \in Sessions, Take(PrepareUpload(s)), srv' = srv
    PROVE  Unseen(s) /\ ~Unseen(s)' /\ Stage(s) = "unseen"
<1>1. srv[s] # "new" /\ TypeOK /\ IInv
  BY TakenRequest DEF Agreement
<1>2. \A i \in 1..Len(serverQ') : serverQ'[i] # PrepareUpload(s)
  BY <1>1, TakeRequests
<1>3. Unseen(s) /\ ~Unseen(s)'
  BY <1>1, <1>2, TakenLeaves DEF Unseen, Queued
<1> QED BY <1>3, StagesApart DEF StageParts

\* When a session starts, the one on the screen is done with.
LEMMA ScreenIsEnding ==
    ASSUME Agreement, NEW s \in Sessions, srv[s] = "waiting",
           pending = s \/ Take(PrepareUpload(s))
    PROVE  \A t \in Sessions : receive.id = t => t # s /\ Stage(t) = "ending"
<1> SUFFICES ASSUME NEW t \in Sessions, receive.id = t
             PROVE  t # s /\ Stage(t) = "ending"
  OBVIOUS
<1>1. decision[s] = "none"
  BY TakenRequest, NoneAssumption DEF Agreement, OneAtATime, PromptUndecided
<1>2. decision[t] = "accept" /\ t # s
  BY <1>1 DEF Agreement, IInv, AcceptedOnly
<1>3. srv[t] = "closed"
  BY <1>2 DEF Agreement, IInv, FreshUntouched, OneBusy, Busy, TypeOK
<1>4. ASSUME NEW r \in Reasons, Queued(SessionEnd(t, r))
      PROVE  FALSE
  <2>1. PICK k \in 1..Len(serverQ) : serverQ[k] = SessionEnd(t, r)
    BY <1>4 DEF Queued
  <2>2. pending = None /\ \A u \in Sessions, i \in 1..k : serverQ[i] # PrepareUpload(u)
    BY <2>1 DEF Agreement, OneAtATime, EndsFirst
  <2>3. Take(PrepareUpload(s))
    BY <2>2, NoneAssumption
  <2>4. 1 \in 1..k /\ serverQ[1] = PrepareUpload(s)
    BY <2>3, TakeQueue DEF Agreement
  <2> QED BY <2>2, <2>4
<1>5. Vanished(t)
  BY <1>3, <1>4 DEF Vanished
<1> QED BY <1>2, <1>5, StagesApart, NoneAssumption DEF StageParts

\* The user, or the pairing, accepts s: its transfer takes the screen.
LEMMA AcceptStarts ==
    ASSUME Agreement, Agreement', NEW s \in Sessions, srv[s] = "waiting", srv' = srv,
           receive' = NewSession(s), pending' = None,
           \/ pending = s /\ serverQ' = serverQ
           \/ pending = None /\ Take(PrepareUpload(s))
    PROVE  Promise!Next
<1>1. StageParts /\ StageParts' /\ TypeOK
  BY StagesApart, StagesApartNext DEF Agreement
<1>2. receive'.id = s /\ receive'.ended = "no"
  BY DEF NewSession
<1>3. Stage(s)' = "receiving"
  BY <1>1, <1>2, NoneAssumption DEF StageParts, Vanished
<1>4. Stage(s) \in {"unseen", "prompted"}
  BY <1>1, TakenIsSeen, NoneAssumption DEF StageParts
<1>5. ASSUME NEW t \in Sessions, t # s
      PROVE  /\ Stage(t)' = IF Stage(t) = "ending" THEN "over" ELSE Stage(t)
             /\ Stage(t) # "receiving"
  <2>1. Unseen(t)' <=> Unseen(t)
    <3>1. CASE serverQ' = serverQ
      BY <3>1 DEF Unseen, Queued
    <3>2. CASE Take(PrepareUpload(s))
      <4>1. PrepareUpload(s).session = s
        BY EventsDiffer
      <4> QED BY <1>1, <1>5, <3>2, <4>1, TakeOthers
    <3> QED BY <3>1, <3>2
  <2>2. pending # t /\ pending' # t
    BY <1>5, NoneAssumption
  <2>3. CASE receive.id = t
    <3>1. Stage(t) = "ending"
      BY <2>3, ScreenIsEnding
    <3>2. Stage(t)' = "over"
      BY <1>1, <1>2, <1>5, <2>1, <2>2, <2>3 DEF StageParts
    <3> QED BY <3>1, <3>2
  <2>4. CASE receive.id # t
    BY <1>1, <1>2, <1>5, <2>1, <2>2, <2>4 DEF StageParts
  <2> QED BY <2>3, <2>4
<1> QED BY <1>3, <1>4, <1>5, StartStep

\* A request is answered at once, or asked about.
LEMMA RequestKeepsPromise ==
    ASSUME Agreement, Agreement', NEW s \in Sessions, HandlePrepareUpload(s)
    PROVE  Promise!Next
<1>1. /\ Take(PrepareUpload(s)) /\ srv' = srv /\ TypeOK /\ IInv
      /\ StageParts /\ StageParts' /\ PrepareUpload(s).session = s
  BY StagesApart, StagesApartNext, EventsDiffer
     DEF Agreement, HandlePrepareUpload, HandleMessage, HandlePairedRequest, HandleRequest, serverVars
<1>2. Stage(s) = "unseen" /\ ~Unseen(s)' /\ pending = None /\ decision[s] = "none"
  BY <1>1, TakenIsSeen, TakenRequest
<1>3. receive.id # s
  BY <1>2 DEF Agreement, IInv, AcceptedOnly
\* Nobody else is concerned while the screen stays as it is.
<1>4. ASSUME receive' = receive, NEW t \in Sessions, t # s, pending' \in {s, None}
      PROVE  Stage(t)' = Stage(t)
  <2>1. (Unseen(t)' <=> Unseen(t)) /\ (Vanished(t)' <=> Vanished(t))
    BY <1>1, <1>4, TakeOthers
  <2> QED BY <1>2, <1>4, <2>1, SameStage, NoneAssumption
\* A message, or a request that was withdrawn meanwhile.
<1>5. CASE receive' = receive /\ pending' = pending
  <2>1. Stage(s)' = "over"
    BY <1>1, <1>2, <1>3, <1>5, NoneAssumption DEF StageParts
  <2> QED BY <1>2, <1>4, <1>5, <2>1, CloseOne
<1>6. CASE HandlePairedRequest(s)
  <2>1. CASE srv[s] = "waiting"
    BY <1>1, <1>2, <1>6, <2>1, AcceptStarts DEF HandlePairedRequest, Answerable
  <2>2. CASE srv[s] # "waiting"
    BY <1>5, <1>6, <2>2 DEF HandlePairedRequest, Answerable
  <2> QED BY <2>1, <2>2
<1>7. CASE HandleRequest(s)
  <2>1. pending' = s /\ receive' = receive
    BY <1>7 DEF HandleRequest
  <2>2. Stage(s)' = "prompted"
    BY <1>1, <1>2, <2>1 DEF StageParts
  <2>3. \A t \in Sessions : t # s => Stage(t)' = Stage(t) /\ Stage(t) # "prompted"
    BY <1>1, <1>2, <1>4, <2>1, NoneAssumption DEF StageParts
  <2> QED BY <1>2, <2>2, <2>3, PromptStep
<1> QED BY <1>5, <1>6, <1>7 DEF HandlePrepareUpload, HandleMessage, appVars

\* A file changes the counters, not the stage.
LEMMA UploadKeepsPromise ==
    ASSUME Agreement, Agreement', NEW s \in Sessions, NEW f \in Files, NEW n \in 1..MaxAttempts,
           HandleForeignUpload(s, f, n) \/ HandleFileUpload(s, f, n)
    PROVE  UNCHANGED Shown
<1>1. /\ Take(FileUpload(s, f, n)) /\ UNCHANGED <<srv, pending>> /\ TypeOK
      /\ receive' = receive \/ receive' = [receive EXCEPT !.inProgress = @ \cup {f}]
  BY DEF Agreement, HandleForeignUpload, HandleFileUpload, appVars
<1>2. receive'.id = receive.id /\ receive'.ended = receive.ended
  BY <1>1 DEF TypeOK, ReceiveSession
<1>3. ASSUME NEW t \in Sessions
      PROVE  (Unseen(t)' <=> Unseen(t)) /\ (Vanished(t)' <=> Vanished(t))
  <2>1. FileUpload(s, f, n) # PrepareUpload(t) /\ \A r : FileUpload(s, f, n) # SessionEnd(t, r)
    BY EventsDiffer
  <2>2. \A x : x # FileUpload(s, f, n) => ((Queued(x))' <=> Queued(x))
    BY <1>1, TakenLeaves
  <2> QED BY <1>1, <2>1, <2>2 DEF Unseen, Vanished
<1> QED BY <1>1, <1>2, <1>3, SameStage, StagesStay

\* A withdrawn prompt leaves the screen.
LEMMA AbortKeepsPromise ==
    ASSUME Agreement, Agreement', NEW s \in Sessions, HandleAborted(s)
    PROVE  Promise!Next \/ UNCHANGED Shown
<1>1. /\ Take(PrepareUploadAborted(s)) /\ UNCHANGED <<srv, receive>> /\ TypeOK
      /\ pending' = IF pending = s THEN None ELSE pending
      /\ StageParts /\ StageParts'
  BY StagesApart, StagesApartNext DEF Agreement, HandleAborted, serverVars
<1>2. ASSUME NEW t \in Sessions
      PROVE  (Unseen(t)' <=> Unseen(t)) /\ (Vanished(t)' <=> Vanished(t))
  <2>1. /\ PrepareUploadAborted(s) # PrepareUpload(t)
        /\ \A r : PrepareUploadAborted(s) # SessionEnd(t, r)
    BY EventsDiffer
  <2>2. \A x : x # PrepareUploadAborted(s) => ((Queued(x))' <=> Queued(x))
    BY <1>1, TakenLeaves
  <2> QED BY <1>1, <2>1, <2>2 DEF Unseen, Vanished
<1>3. \A t \in Sessions : t # s => Stage(t)' = Stage(t)
  BY <1>1, <1>2, SameStage, NoneAssumption
<1>4. CASE pending = s
  <2>1. Stage(s) # "over" /\ Stage(s)' = "over"
    BY <1>1, <1>2, <1>4, NoneAssumption DEF StageParts
  <2> QED BY <1>3, <2>1, CloseOne
<1>5. CASE pending # s
  BY <1>1, <1>2, <1>3, <1>5, SameStage, StagesStay
<1> QED BY <1>4, <1>5

\* The session on the screen closes, or waits on for its results.
LEMMA ScreenKeepsPromise ==
    ASSUME Agreement, Agreement', NEW s \in Sessions, receive.id = s, UNCHANGED <<srv, pending>>,
           \A t \in Sessions : Unseen(t)' <=> Unseen(t),
           \/ receive'.id = None
           \/ receive'.id = s /\ receive'.ended # "no"
           \/ /\ receive'.id = s /\ receive'.ended = receive.ended
              /\ Vanished(s)' <=> Vanished(s)
    PROVE  Promise!Next \/ UNCHANGED Shown
<1>1. StageParts /\ StageParts'
  BY StagesApart, StagesApartNext
<1>2. Stage(s) \in {"receiving", "ending"}
  BY <1>1, NoneAssumption DEF StageParts
<1>3. \A t \in Sessions : t # s => Stage(t)' = Stage(t)
  BY SameStage, NoneAssumption
<1>4. CASE receive'.id = None
  <2>1. Stage(s)' = "over"
    BY <1>1, <1>4, NoneAssumption DEF StageParts
  <2> QED BY <1>2, <1>3, <2>1, CloseOne
<1>5. CASE receive'.id = s /\ receive'.ended # "no"
  <2>1. Stage(s)' = "ending"
    BY <1>1, <1>5 DEF StageParts
  <2> QED BY <1>2, <1>3, <2>1, EndingStep, StagesStay
<1>6. CASE receive'.id = s /\ receive'.ended = receive.ended /\ (Vanished(s)' <=> Vanished(s))
  BY <1>3, <1>6, SameStage, StagesStay
<1> QED BY <1>4, <1>5, <1>6

LEMMA SessionEndKeepsPromise ==
    ASSUME Agreement, Agreement', NEW s \in Sessions, NEW reason \in Reasons, HandleSessionEnd(s, reason)
    PROVE  Promise!Next \/ UNCHANGED Shown
<1> DEFINE e == SessionEnd(s, reason)
<1>1. Take(e) /\ UNCHANGED <<srv, pending>> /\ TypeOK
  BY DEF Agreement, HandleSessionEnd, serverVars
<1>2. \A t \in Sessions : Unseen(t)' <=> Unseen(t)
  <2>1. \A t \in Sessions : PrepareUpload(t) # e
    BY DEF PrepareUpload, SessionEnd
  <2>2. \A x : x # e => ((Queued(x))' <=> Queued(x))
    BY <1>1, TakenLeaves
  <2> QED BY <1>1, <2>1, <2>2 DEF Unseen
<1>3. CASE receive.id = s
  <2> DEFINE r == [receive EXCEPT !.ended = reason]
  <2>1. r \in ReceiveSession /\ r.id = s /\ r.ended # "no"
    BY <1>1, <1>3 DEF TypeOK, ReceiveSession, Reasons
  <2>2. FinishIfDone(r)
    BY <1>3 DEF HandleSessionEnd
  <2> HIDE DEF r
  <2>3. receive'.id = None \/ (receive'.id = s /\ receive'.ended # "no")
    BY <1>1, <2>1, <2>2, FinishCases
  <2> QED BY <1>1, <1>2, <1>3, <2>3, ScreenKeepsPromise
<1>4. CASE receive.id # s
  <2>1. receive' = receive
    BY <1>4 DEF HandleSessionEnd
  <2>2. e.session = s
    BY EventsDiffer
  <2>3. \A t \in Sessions : t # s => (Vanished(t)' <=> Vanished(t))
    BY <1>1, <2>2, TakeOthers
  <2>4. \A t \in Sessions : Stage(t)' = Stage(t)
    BY <1>1, <1>2, <1>4, <2>1, <2>3, SameStage
  <2> QED BY <2>4, StagesStay
<1> QED BY <1>3, <1>4

LEMMA ResultKeepsPromise ==
    ASSUME Agreement, Agreement', NEW r \in results, ReceiveFileResult(r)
    PROVE  Promise!Next \/ UNCHANGED Shown
<1>1. UNCHANGED <<srv, serverQ, pending>> /\ TypeOK
  BY DEF Agreement, ReceiveFileResult, serverVars
<1>2. \A t \in Sessions : (Unseen(t)' <=> Unseen(t)) /\ (Vanished(t)' <=> Vanished(t))
  BY <1>1 DEF Unseen, Vanished, Queued
<1>3. CASE receive.id = r.session
  <2>1. /\ Counted(r) \in ReceiveSession
        /\ Counted(r).id = receive.id
        /\ Counted(r).ended = receive.ended
    BY <1>1, CountedTypes
  <2>2. FinishIfDone(Counted(r)) /\ receive.id \in Sessions
    BY <1>1, <1>3 DEF ReceiveFileResult, TypeOK, Results
  <2>3. \/ receive'.id = None
        \/ receive'.id = receive.id /\ receive'.ended = receive.ended
    BY <1>1, <2>1, <2>2, FinishCases
  <2> QED BY <1>1, <1>2, <2>2, <2>3, ScreenKeepsPromise
<1>4. CASE receive.id # r.session
  <2>1. receive' = receive
    BY <1>4 DEF ReceiveFileResult
  <2> QED BY <1>1, <1>2, <2>1, SameStage, StagesStay
<1> QED BY <1>3, <1>4

\* Y and P start the transfer if the request still waits; N, and an answer
\* that comes too late, close the prompt.
LEMMA AnswerKeepsPromise ==
    ASSUME Agreement, Agreement', Decline \/ \E pair \in BOOLEAN : Accept(pair)
    PROVE  Promise!Next
<1>1. /\ UNCHANGED <<srv, serverQ>> /\ TypeOK /\ IInv /\ pending # None /\ pending' = None
      /\ StageParts /\ StageParts'
  BY StagesApart, StagesApartNext DEF Agreement, Decline, Accept, serverVars
<1>2. PICK p \in Sessions : pending = p
  BY <1>1, PromptUnanswered
<1>3. \A t \in Sessions : (Unseen(t)' <=> Unseen(t)) /\ (Vanished(t)' <=> Vanished(t))
  BY <1>1 DEF Unseen, Vanished, Queued
<1>4. CASE receive' = receive
  <2>1. \A t \in Sessions : t # p => Stage(t)' = Stage(t)
    BY <1>1, <1>2, <1>3, <1>4, SameStage, NoneAssumption
  <2>2. Stage(p) # "over" /\ Stage(p)' = "over"
    BY <1>1, <1>2, <1>3, <1>4, NoneAssumption DEF StageParts
  <2> QED BY <1>2, <2>1, <2>2, CloseOne
<1>5. CASE receive' # receive
  <2>1. srv[p] = "waiting" /\ receive' = NewSession(p)
    BY <1>2, <1>5 DEF Decline, Accept, Answerable
  <2> QED BY <1>1, <1>2, <2>1, AcceptStarts
<1> QED BY <1>4, <1>5

\* Ctrl+C takes the prompt and the transfer off the screen at once.
LEMMA CtrlCKeepsPromise ==
    ASSUME Agreement, Agreement', HandleCtrlC
    PROVE  Promise!Next
<1>1. /\ UNCHANGED <<srv, serverQ>> /\ pending' = None /\ receive'.id = None
      /\ pending # None \/ receive.id # None
      /\ StageParts /\ StageParts'
  BY StagesApart, StagesApartNext DEF HandleCtrlC, serverVars, NoReceive, NewSession
<1>2. \A t \in Sessions : (Unseen(t)' <=> Unseen(t)) /\ (Vanished(t)' <=> Vanished(t))
  BY <1>1 DEF Unseen, Vanished, Queued
<1> DEFINE S == {t \in Sessions : pending = t \/ receive.id = t}
<1>3. S \in SUBSET Sessions /\ S # {}
  BY <1>1 DEF Agreement, TypeOK, ReceiveSession
<1>4. \A t \in S : Stage(t) # "over" /\ Stage(t)' = "over"
  BY <1>1, <1>2, NoneAssumption DEF StageParts
<1>5. \A t, u \in S : Stage(t) = Stage(u) => t = u
  BY <1>1 DEF StageParts
<1>6. \A t \in Sessions : t \notin S => Stage(t)' = Stage(t)
  BY <1>1, <1>2, SameStage, NoneAssumption
<1> HIDE DEF S
<1> QED BY <1>3, <1>4, <1>5, <1>6, CloseStep

\* The server closes a session that left the screen before.
LEMMA CancelKeepsPromise ==
    ASSUME Agreement, Agreement', NEW s \in Sessions, CancelTask(s)
    PROVE  UNCHANGED Shown
<1>1. /\ UNCHANGED <<serverQ, pending, receive>> /\ decision[s] = "accept" /\ receive.id # s
      /\ \A t \in Sessions : srv'[t] = IF t = s THEN "closed" ELSE srv[t]
  BY DEF Agreement, IInv, AcceptedOnly, CancelTask, TypeOK
<1>2. srv[s] # "new"
  BY <1>1 DEF Agreement, IInv, FreshUntouched
<1>3. \A t \in Sessions : /\ Unseen(t)' <=> Unseen(t)
                          /\ t # s => (Vanished(t)' <=> Vanished(t))
  BY <1>1, <1>2 DEF Unseen, Vanished, Queued
<1> QED BY <1>1, <1>3, SameStage, StagesStay

\* The App keeps the promise ReceivePromise makes to the user: every request
\* is dealt with once, and one question and one transfer are shown at a time.
THEOREM PromiseIsKept == Spec => KeepsPromise
<1>1. Init => Promise!Init
  <2> SUFFICES ASSUME Init PROVE Promise!Init
    OBVIOUS
  <2>1. \A s \in Sessions : Stage(s) = "unseen"
    BY DEF Init, Stage
  <2> QED BY <2>1 DEF Promise!Init
<1>2. Agreement /\ Agreement' /\ [Next]_vars => [Promise!Next]_Shown
  <2> SUFFICES ASSUME Agreement, Agreement', [Next]_vars PROVE Promise!Next \/ UNCHANGED Shown
    OBVIOUS
  <2>1. CASE HandleServerEvent
    BY <2>1, RequestKeepsPromise, UploadKeepsPromise, SessionEndKeepsPromise, AbortKeepsPromise
       DEF HandleServerEvent
  <2>2. CASE User
    <3>1. ASSUME NEW d \in Senders, Pair(d) \/ Unpair(d)
          PROVE  UNCHANGED Shown
      BY <3>1 DEF Pair, Unpair, serverVars, Shown, Stage, Queued, Vanished
    <3> QED BY <2>2, <3>1, AnswerKeepsPromise, CtrlCKeepsPromise DEF User
  <2>3. CASE Terminated \/ UNCHANGED vars
    BY <2>3 DEF Terminated, vars, Shown, Stage, Queued, Vanished
  <2> QED BY <2>1, <2>2, <2>3, ServerKeepsPromise, ResultKeepsPromise, CancelKeepsPromise DEF Next
<1> QED BY <1>1, <1>2, AgreementHolds, PTL DEF Spec, KeepsPromise, Promise!Spec, Shown

(***************************************************************************)
(* The counts of the summary, when no file is sent twice.                  *)
(***************************************************************************)

(***************************************************************************)
(* What leaves each part of CountInv alone.                                *)
(***************************************************************************)
LEMMA UploadsDiffer ==
    ASSUME NEW s, NEW f
    PROVE  /\ \A t, g, n : FileUpload(s, f, 1) = FileUpload(t, g, n) => s = t /\ f = g /\ n = 1
           /\ \A t : FileUpload(s, f, 1) # PrepareUpload(t)
           /\ \A t : FileUpload(s, f, 1) # PrepareUploadAborted(t)
           /\ \A t, r : FileUpload(s, f, 1) # SessionEnd(t, r)
<1>1. \A t, g, n : FileUpload(s, f, 1) = FileUpload(t, g, n) => s = t /\ f = g /\ n = 1
  BY DEF FileUpload
<1>2. \A t : FileUpload(s, f, 1) # PrepareUpload(t)
  BY DEF FileUpload, PrepareUpload
<1>3. \A t : FileUpload(s, f, 1) # PrepareUploadAborted(t)
  BY DEF FileUpload, PrepareUploadAborted
<1>4. \A t, r : FileUpload(s, f, 1) # SessionEnd(t, r)
  BY DEF FileUpload, SessionEnd
<1> QED BY <1>1, <1>2, <1>3, <1>4

LEMMA OrderTake ==
    ASSUME TypeOK, OrderInv, NEW e, Take(e)
    PROVE  OrderInv'
<1> SUFFICES ASSUME NEW s \in Sessions, NEW f \in Files,
                    NEW i \in 1..Len(serverQ'), serverQ'[i] = FileUpload(s, f, 1),
                    NEW k \in 1..Len(serverQ')
             PROVE  /\ serverQ'[k] = FileUpload(s, f, 1) => k = i
                    /\ \A reason \in Reasons : serverQ'[k] = SessionEnd(s, reason) => i < k
  BY DEF OrderInv
<1>1. /\ i + 1 \in 1..Len(serverQ) /\ serverQ[i + 1] = serverQ'[i]
      /\ k + 1 \in 1..Len(serverQ) /\ serverQ[k + 1] = serverQ'[k]
  BY TakeQueue
<1>2. /\ serverQ[k + 1] = FileUpload(s, f, 1) => k + 1 = i + 1
      /\ \A reason \in Reasons : serverQ[k + 1] = SessionEnd(s, reason) => i + 1 < k + 1
  BY <1>1 DEF OrderInv
<1> QED BY <1>1, <1>2

LEMMA OrderAppend ==
    ASSUME TypeOK, OrderInv, NEW e \in Events, serverQ' = Append(serverQ, e),
           \A s \in Sessions, f \in Files : e = FileUpload(s, f, 1) =>
              ~UploadQueued(s, f) /\ \A reason \in Reasons : ~Queued(SessionEnd(s, reason))
    PROVE  OrderInv'
<1> SUFFICES ASSUME NEW s \in Sessions, NEW f \in Files,
                    NEW i \in 1..Len(serverQ'), serverQ'[i] = FileUpload(s, f, 1),
                    NEW k \in 1..Len(serverQ')
             PROVE  /\ serverQ'[k] = FileUpload(s, f, 1) => k = i
                    /\ \A reason \in Reasons : serverQ'[k] = SessionEnd(s, reason) => i < k
  BY DEF OrderInv
<1> DEFINE n == Len(serverQ)
<1>1. /\ n \in Nat /\ serverQ'[n + 1] = e
      /\ \A j \in 1..n : serverQ'[j] = serverQ[j]
      /\ i \in 1..n \/ i = n + 1
      /\ k \in 1..n \/ k = n + 1
  BY AppendQueue
<1>2. \A reason : FileUpload(s, f, 1) # SessionEnd(s, reason)
  BY UploadsDiffer
<1>3. CASE i \in 1..n
  <2>1. CASE k \in 1..n
    BY <1>1, <1>3, <2>1 DEF OrderInv
  <2>2. CASE k = n + 1
    <3>1. e # FileUpload(s, f, 1)
      BY <1>1, <1>3 DEF UploadQueued, Queued
    <3> QED BY <1>1, <1>3, <2>2, <3>1
  <2> QED BY <1>1, <2>1, <2>2
<1>4. CASE i = n + 1
  <2>1. ~UploadQueued(s, f) /\ \A reason \in Reasons : ~Queued(SessionEnd(s, reason))
    BY <1>1, <1>4
  <2>2. CASE k \in 1..n
    BY <1>1, <2>1, <2>2 DEF UploadQueued, Queued
  <2>3. CASE k = n + 1
    BY <1>1, <1>2, <1>4, <2>3
  <2> QED BY <1>1, <2>2, <2>3
<1> QED BY <1>1, <1>3, <1>4

\* Neither uploads nor results move.
LEMMA UploadsStay ==
    ASSUME UploadsInv, ResultsInv, UNCHANGED <<up, tries, results>>,
           \A t \in Sessions, f \in Files : UploadQueued(t, f)' <=> UploadQueued(t, f),
           \A t \in Sessions : decision[t] = "accept" =>
              decision'[t] = "accept" /\ offer'[t] = offer[t]
    PROVE  UploadsInv' /\ ResultsInv'
<1>1. UploadsInv'
  BY DEF UploadsInv, Outstanding
<1> QED BY <1>1 DEF ResultsInv

LEMMA RightStays ==
    ASSUME NEW t \in Sessions, NEW r, Right(t, r), up'[t] = up[t],
           \A f \in Files : /\ UploadQueued(t, f)' <=> UploadQueued(t, f)
                            /\ Outstanding(t, f)' <=> Outstanding(t, f)
    PROVE  Right(t, r)'
<1>1. CountedDone(t, r.inProgress)' = CountedDone(t, r.inProgress)
  BY DEF CountedDone, DoneFiles
<1>2. CountedFailed(t, r.inProgress)' = CountedFailed(t, r.inProgress)
  BY DEF CountedFailed, FailedFiles
<1> QED BY <1>1, <1>2 DEF Right, NoUpload, Settled

\* The screen stays as it is, and so do the uploads of its session.
LEMMA ScreenStays ==
    ASSUME ScreenInv, receive' = receive,
           \A t \in Sessions : receive.id = t =>
              /\ up'[t] = up[t]
              /\ \A f \in Files : /\ UploadQueued(t, f)' <=> UploadQueued(t, f)
                                  /\ Outstanding(t, f)' <=> Outstanding(t, f)
    PROVE  ScreenInv'
<1> SUFFICES ASSUME NEW t \in Sessions, receive.id = t
             PROVE  Right(t, receive)'
  BY DEF ScreenInv
<1>1. PICK r : r = receive
  OBVIOUS
<1>2. Right(t, r)
  BY <1>1 DEF ScreenInv
<1>3. Right(t, r)'
  BY <1>2, RightStays
<1> QED BY <1>1, <1>3 DEF Right

\* A session that has its summary is over for good.
LEMMA FinalStays ==
    ASSUME TypeOK, LogInv,
           \A t \in Sessions : Final(t, log[t]) =>
              /\ up'[t] = up[t] /\ srv'[t] = "closed"
              /\ \A f \in Files : UploadQueued(t, f)' => UploadQueued(t, f)
    PROVE  \A line : \A t \in Sessions : log[t] = line /\ line.kind = "Finished" => Final(t, line)'
<1> SUFFICES ASSUME NEW t \in Sessions, NEW line, log[t] = line, line.kind = "Finished"
             PROVE  Final(t, line)'
  OBVIOUS
<1>1. Final(t, line) /\ Final(t, log[t])
  BY DEF LogInv
<1>2. DoneFiles(t)' = DoneFiles(t) /\ FailedFiles(t)' = FailedFiles(t)
  BY <1>1 DEF DoneFiles, FailedFiles
<1> QED BY <1>1, <1>2 DEF Final, Settled, NoUpload

LEMMA LogStays ==
    ASSUME TypeOK, LogInv,
           \A t \in Sessions : log'[t] = log[t] \/ log'[t].kind # "Finished",
           \A t \in Sessions : Final(t, log[t]) =>
              /\ up'[t] = up[t] /\ srv'[t] = "closed"
              /\ \A f \in Files : UploadQueued(t, f)' => UploadQueued(t, f)
    PROVE  LogInv'
<1> SUFFICES ASSUME NEW t \in Sessions, log'[t].kind = "Finished"
             PROVE  Final(t, log[t])'
  BY DEF LogInv
<1>1. PICK line : line = log[t]
  OBVIOUS
<1>2. log'[t] = line
  BY <1>1
<1>3. Final(t, line)'
  BY <1>1, <1>2, FinalStays
<1> QED BY <1>2, <1>3 DEF Final

\* finish_receive_if_done: the summary is printed when the counts are final.
LEMMA SummaryIsRight ==
    ASSUME TypeOK, LogInv, NEW r \in ReceiveSession, r.id \in Sessions, FinishIfDone(r),
           Right(r.id, r)', r.ended # "no" => srv'[r.id] = "closed",
           \A t \in Sessions : Final(t, log[t]) =>
              /\ up'[t] = up[t] /\ srv'[t] = "closed"
              /\ \A f \in Files : UploadQueued(t, f)' => UploadQueued(t, f)
    PROVE  ScreenInv' /\ LogInv'
<1>1. CASE r.ended # "no" /\ r.inProgress = {}
  <2>1. receive'.id = None /\ log' = [log EXCEPT ![r.id] = Line(r.ended, r)]
    BY <1>1 DEF FinishIfDone, NoReceive, NewSession
  <2>2. ScreenInv'
    BY <2>1, NoneAssumption DEF ScreenInv
  <2> SUFFICES ASSUME NEW t \in Sessions, log'[t].kind = "Finished"
               PROVE  Final(t, log[t])'
    BY <2>2 DEF LogInv
  <2>3. CASE t = r.id
    <3>1. log'[t] = Line(r.ended, r)
      BY <2>1, <2>3 DEF TypeOK
    <3>2. r.ended = "Finished" /\ log'[t].finished = r.finished /\ log'[t].failed = r.failed
      BY <3>1 DEF Line
    <3>3. NoUpload(t)' /\ Settled(t)'
      BY <1>1, <2>3, <3>2 DEF Right
    <3>4. /\ CountedDone(t, r.inProgress)' = DoneFiles(t)'
          /\ CountedFailed(t, r.inProgress)' = FailedFiles(t)'
      BY <1>1, <3>3 DEF CountedDone, CountedFailed, FailedFiles, NoUpload
    <3> QED BY <1>1, <2>3, <3>2, <3>3, <3>4 DEF Final, Right
  <2>4. CASE t # r.id
    <3>1. PICK line : line = log[t]
      OBVIOUS
    <3>2. log'[t] = line
      BY <2>1, <2>4, <3>1 DEF TypeOK
    <3>3. Final(t, line)'
      BY <3>1, <3>2, FinalStays
    <3> QED BY <3>2, <3>3 DEF Final
  <2> QED BY <2>3, <2>4
<1>2. CASE ~(r.ended # "no" /\ r.inProgress = {})
  <2>1. receive' = r /\ log' = log
    BY <1>2 DEF FinishIfDone
  <2>2. LogInv'
    BY <2>1, LogStays
  <2>3. ScreenInv'
    BY <2>1 DEF ScreenInv, Right
  <2> QED BY <2>2, <2>3
<1> QED BY <1>1, <1>2

\* A session that was accepted stays so, with its offer; a closed one is closed.
Lasting ==
    \A t \in Sessions :
        /\ decision[t] = "accept" => decision'[t] = "accept" /\ offer'[t] = offer[t]
        /\ srv[t] = "closed" => srv'[t] = "closed"

LEMMA StepsLast ==
    ASSUME Agreement, [Next]_vars
    PROVE  Lasting
<1> USE DEF Lasting
<1>0. TypeOK /\ IInv /\ \A t \in Sessions : pending = t => decision[t] = "none"
  BY NoneAssumption DEF Agreement, OneAtATime, PromptUndecided
<1>1. ASSUME NEW s \in Sessions, SrvStep(s)
      PROVE  Lasting
  <2>1. \A t \in Sessions : srv[t] = "new" => decision[t] = "none"
    BY <1>0 DEF IInv, FreshUntouched
  <2> QED BY <1>0, <1>1, <2>1
      DEF TypeOK, SrvStep, SrvPrepare, SrvDecided, SrvAbort, SrvUpload, SrvUploadAborted,
          SrvFileDone, SrvFinish, SrvCancelled, appVars
<1>2. ASSUME NEW s \in Sessions, HandlePrepareUpload(s)
      PROVE  Lasting
  <2>1. decision[s] = "none" /\ pending = None
    BY <1>0, <1>2, TakenRequest
       DEF HandlePrepareUpload, HandleMessage, HandlePairedRequest, HandleRequest
  <2> QED BY <1>0, <1>2, <2>1
      DEF TypeOK, HandlePrepareUpload, HandleMessage, HandlePairedRequest, HandleRequest,
          Decided, serverVars
<1>3. ASSUME NEW s \in Sessions,
             \/ \E f \in Files, n \in 1..MaxAttempts :
                   HandleForeignUpload(s, f, n) \/ HandleFileUpload(s, f, n)
             \/ \E reason \in Reasons : HandleSessionEnd(s, reason)
             \/ HandleAborted(s)
      PROVE  Lasting
  <2>1. UNCHANGED <<srv, decision, offer>>
    BY <1>3 DEF HandleForeignUpload, HandleFileUpload, HandleSessionEnd, HandleAborted,
                appVars, serverVars
  <2> QED BY <2>1
<1>4. CASE User
  BY <1>0, <1>4 DEF TypeOK, User, Decline, Accept, HandleCtrlC, Pair, Unpair, Decided, serverVars
<1>5. ASSUME NEW r \in results, ReceiveFileResult(r)
      PROVE  Lasting
  BY <1>5 DEF ReceiveFileResult, serverVars
<1>6. ASSUME NEW s \in Sessions, CancelTask(s)
      PROVE  Lasting
  BY <1>0, <1>6 DEF CancelTask, TypeOK
<1>7. CASE Terminated \/ UNCHANGED vars
  BY <1>7 DEF Terminated, vars
<1> QED BY <1>1, <1>2, <1>3, <1>4, <1>5, <1>6, <1>7 DEF Next, HandleServerEvent

LEMMA TakeUploads ==
    ASSUME TypeOK, OrderInv, NEW e, Take(e)
    PROVE  \A s \in Sessions, f \in Files :
              UploadQueued(s, f)' <=> UploadQueued(s, f) /\ e # FileUpload(s, f, 1)
<1> SUFFICES ASSUME NEW s \in Sessions, NEW f \in Files
             PROVE  UploadQueued(s, f)' <=> UploadQueued(s, f) /\ e # FileUpload(s, f, 1)
  OBVIOUS
<1>1. CASE e # FileUpload(s, f, 1)
  BY <1>1, TakenLeaves DEF UploadQueued
<1>2. CASE e = FileUpload(s, f, 1)
  <2>1. ASSUME NEW i \in 1..Len(serverQ'), serverQ'[i] = FileUpload(s, f, 1)
        PROVE  FALSE
    <3>1. /\ i + 1 \in 1..Len(serverQ) /\ serverQ[i + 1] = FileUpload(s, f, 1)
          /\ 1 \in 1..Len(serverQ) /\ serverQ[1] = FileUpload(s, f, 1)
      BY <1>2, <2>1, TakeQueue
    <3>2. i + 1 = 1
      BY <3>1 DEF OrderInv
    <3>3. i \in Nat \ {0}
      BY TakeQueue
    <3> QED BY <3>2, <3>3
  <2> QED BY <1>2, <2>1 DEF UploadQueued, Queued
<1> QED BY <1>1, <1>2

\* Everything but the prompt, the requests and the cancellation stays.
LEMMA CountQuiet ==
    ASSUME TypeOK, CountInv, Lasting, OrderInv', UNCHANGED <<up, tries, results>>,
           \A t \in Sessions, f \in Files : UploadQueued(t, f)' <=> UploadQueued(t, f),
           \A t \in Sessions : (Queued(SessionEnd(t, "Finished")))' =>
                                  Queued(SessionEnd(t, "Finished")) \/ Settled(t)
    PROVE  /\ UploadsInv' /\ ResultsInv' /\ FinishInv'
           /\ receive' = receive => ScreenInv'
           /\ (\A t \in Sessions : log'[t] = log[t] \/ log'[t].kind # "Finished") => LogInv'
           /\ receive' = receive /\ log' = log => CountInv'
<1>1. UploadsInv' /\ ResultsInv'
  BY UploadsStay DEF CountInv, Lasting
<1>2. FinishInv'
  BY DEF CountInv, FinishInv, Settled
<1>3. receive' = receive => ScreenInv'
  BY ScreenStays DEF CountInv, Outstanding
<1>4. (\A t \in Sessions : log'[t] = log[t] \/ log'[t].kind # "Finished") => LogInv'
  BY LogStays DEF CountInv, Lasting, Final
<1> QED BY <1>1, <1>2, <1>3, <1>4 DEF CountInv

\* A session takes the screen before any of its files is uploaded.
LEMMA ScreenIsNew ==
    ASSUME UploadsInv, ResultsInv, UNCHANGED <<up, results>>, NEW s \in Sessions,
           decision[s] # "accept", receive' = NewSession(s)
    PROVE  ScreenInv'
<1>1. \A f \in Files : up[s][f] = "none" /\ ~Outstanding(s, f)
  <2>1. \A f \in Files : up[s][f] = "none"
    BY DEF UploadsInv
  <2> QED BY <2>1 DEF ResultsInv, Outstanding
<1>2. /\ receive'.id = s /\ receive'.inProgress = {} /\ receive'.ended = "no"
      /\ receive'.finished = 0 /\ receive'.failed = 0
  BY DEF NewSession
<1>3. /\ DoneFiles(s)' = {} /\ FailedFiles(s)' = {}
  BY <1>1 DEF DoneFiles, FailedFiles
<1>4. CountedDone(s, {})' = {} /\ CountedFailed(s, {})' = {}
  BY <1>3 DEF CountedDone, CountedFailed
<1>5. Cardinality({}) = 0
  BY FS_EmptySet
<1>6. Right(s, receive)'
  BY <1>1, <1>2, <1>4, <1>5 DEF Right, Outstanding
<1> QED BY <1>2, <1>6 DEF ScreenInv

\* Requests, answers and cancellations.
LEMMA CountRequests ==
    ASSUME Agreement, CountInv, Lasting,
           \/ \E s \in Sessions : HandlePrepareUpload(s) \/ HandleAborted(s) \/ CancelTask(s)
           \/ User \/ Terminated \/ UNCHANGED vars
    PROVE  CountInv'
<1>1. UNCHANGED <<up, tries, results>> /\ TypeOK /\ IInv
  BY DEF Agreement, HandlePrepareUpload, HandleMessage, HandlePairedRequest, HandleRequest,
         HandleAborted, CancelTask, User, Decline, Accept, HandleCtrlC, Pair, Unpair,
         Terminated, vars, serverVars
<1>2. \/ serverQ' = serverQ
      \/ \E s \in Sessions : Take(PrepareUpload(s)) \/ Take(PrepareUploadAborted(s))
  BY DEF HandlePrepareUpload, HandleMessage, HandlePairedRequest, HandleRequest,
         HandleAborted, CancelTask, User, Decline, Accept, HandleCtrlC, Pair, Unpair,
         Terminated, vars
<1>3. /\ OrderInv'
      /\ \A t \in Sessions, f \in Files : UploadQueued(t, f)' <=> UploadQueued(t, f)
      /\ \A t \in Sessions : (Queued(SessionEnd(t, "Finished")))' => Queued(SessionEnd(t, "Finished"))
  <2>1. CASE serverQ' = serverQ
    BY <2>1 DEF CountInv, OrderInv, UploadQueued, Queued
  <2>2. ASSUME NEW s \in Sessions, NEW e \in {PrepareUpload(s), PrepareUploadAborted(s)}, Take(e)
        PROVE  /\ OrderInv'
               /\ \A t \in Sessions, f \in Files : UploadQueued(t, f)' <=> UploadQueued(t, f)
               /\ \A t \in Sessions : (Queued(SessionEnd(t, "Finished")))' => Queued(SessionEnd(t, "Finished"))
    <3>1. \A t \in Sessions, f \in Files : e # FileUpload(t, f, 1)
      BY UploadsDiffer
    <3> QED BY <1>1, <2>2, <3>1, OrderTake, TakeUploads, TakenLeaves DEF CountInv
  <2> QED BY <1>2, <2>1, <2>2
<1>4. \/ receive' = receive
      \/ receive'.id = None
      \/ \E s \in Sessions : decision[s] # "accept" /\ receive' = NewSession(s)
  <2>1. ASSUME NEW s \in Sessions, HandlePairedRequest(s)
        PROVE  receive' = receive \/ (decision[s] # "accept" /\ receive' = NewSession(s))
    BY <1>1, <2>1, TakenRequest DEF HandlePairedRequest
  <2>2. ASSUME NEW pair \in BOOLEAN, Accept(pair)
        PROVE  \/ receive' = receive
               \/ \E s \in Sessions : decision[s] # "accept" /\ receive' = NewSession(s)
    BY <1>1, <2>2, PromptUnanswered DEF Accept, Answerable
  <2>3. HandleCtrlC => receive'.id = None
    BY DEF HandleCtrlC, NoReceive, NewSession
  <2> QED BY <2>1, <2>2, <2>3
      DEF HandlePrepareUpload, HandleMessage, HandleRequest, HandleAborted, CancelTask,
          User, Decline, Pair, Unpair, Terminated, vars, appVars
<1>5. ScreenInv'
  <2>1. receive'.id = None => ScreenInv'
    BY NoneAssumption DEF ScreenInv
  <2>2. receive' = receive => ScreenInv'
    BY <1>1, <1>3, CountQuiet
  <2> QED BY <1>1, <1>4, <2>1, <2>2, ScreenIsNew DEF CountInv
<1>6. LogInv'
  <2>1. \A t \in Sessions : log'[t] = log[t] \/ log'[t].kind # "Finished"
    <3>1. HandleCtrlC => \A t \in Sessions : log'[t] = log[t] \/ log'[t].kind # "Finished"
      BY <1>1 DEF HandleCtrlC, TypeOK, Line
    <3> QED BY <3>1
        DEF HandlePrepareUpload, HandleMessage, HandlePairedRequest, HandleRequest,
            HandleAborted, CancelTask, User, Decline, Accept, Pair, Unpair, Terminated, vars, appVars
  <2> QED BY <1>1, <1>3, <2>1, CountQuiet
<1> QED BY <1>1, <1>3, <1>5, <1>6, CountQuiet DEF CountInv

\* Steps that move an upload of session s: the others see nothing of it.
LEMMA CountOthers ==
    ASSUME TypeOK, CountInv, Lasting, NEW s \in Sessions,
           \A t \in Sessions : t # s =>
              /\ up'[t] = up[t] /\ tries'[t] = tries[t]
              /\ \A f \in Files : /\ UploadQueued(t, f)' <=> UploadQueued(t, f)
                                  /\ Outstanding(t, f)' <=> Outstanding(t, f),
           \A f \in Files :
              /\ \/ up'[s][f] # "none" /\ tries'[s][f] = 1
                 \/ up'[s][f] = up[s][f] /\ tries'[s][f] = tries[s][f]
              /\ up'[s][f] # "none" => decision[s] = "accept" /\ f \in offer[s].files
              /\ up'[s][f] = "requested" => UploadQueued(s, f)'
              /\ UploadQueued(s, f)' => up'[s][f] \in {"requested", "failed"} /\ ~Outstanding(s, f)'
    PROVE  UploadsInv'
<1> SUFFICES ASSUME NEW t \in Sessions, NEW f \in Files
             PROVE  /\ up'[t][f] = "none" => tries'[t][f] = 0
                    /\ up'[t][f] # "none" => /\ tries'[t][f] = 1
                                             /\ decision'[t] = "accept"
                                             /\ f \in offer'[t].files
                    /\ up'[t][f] = "requested" => UploadQueued(t, f)'
                    /\ UploadQueued(t, f)' =>
                          up'[t][f] \in {"requested", "failed"} /\ ~Outstanding(t, f)'
  BY DEF UploadsInv
<1>1. CASE t = s
  BY <1>1 DEF CountInv, UploadsInv, Lasting
<1>2. CASE t # s
  BY <1>2 DEF CountInv, UploadsInv, Lasting
<1> QED BY <1>1, <1>2

LEMMA RightAt ==
    ASSUME NEW s \in Sessions, NEW r, NEW q, Right(s, r),
           q.finished = r.finished, q.failed = r.failed,
           \A g \in Files : g \in q.inProgress <=> up'[s][g] = "writing" \/ Outstanding(s, g)',
           \A g \in Files : /\ up'[s][g] = "done" /\ g \notin q.inProgress
                               <=> up[s][g] = "done" /\ g \notin r.inProgress
                            /\ up'[s][g] = "failed" /\ g \notin q.inProgress /\ ~UploadQueued(s, g)'
                               <=> up[s][g] = "failed" /\ g \notin r.inProgress /\ ~UploadQueued(s, g),
           q.ended # "no" => NoUpload(s)', q.ended = "Finished" => Settled(s)'
    PROVE  Right(s, q)'
<1>1. CountedDone(s, q.inProgress)' = CountedDone(s, r.inProgress)
  BY DEF CountedDone, DoneFiles
<1>2. CountedFailed(s, q.inProgress)' = CountedFailed(s, r.inProgress)
  BY DEF CountedFailed, FailedFiles
<1> QED BY <1>1, <1>2 DEF Right

\* What is left to show of a step that moves an upload of s.
LEMMA CountStep ==
    ASSUME TypeOK, CountInv, Lasting, NEW s \in Sessions, log' = log,
           \A t \in Sessions : t # s =>
              /\ up'[t] = up[t]
              /\ \A f \in Files : /\ UploadQueued(t, f)' <=> UploadQueued(t, f)
                                  /\ Outstanding(t, f)' <=> Outstanding(t, f),
           UploadsInv', ResultsInv', OrderInv',
           \A t \in Sessions : (Queued(SessionEnd(t, "Finished")))' => Queued(SessionEnd(t, "Finished")),
           Queued(SessionEnd(s, "Finished")) => Settled(s)',
           ~Final(s, log[s]),
           receive'.id = receive.id,
           receive.id # s => receive' = receive,
           receive.id = s => Right(s, receive)'
    PROVE  CountInv'
<1>1. FinishInv'
  <2> SUFFICES ASSUME NEW t \in Sessions, Queued(SessionEnd(t, "Finished")) PROVE Settled(t)'
    BY DEF FinishInv
  <2>1. Settled(t)
    BY DEF CountInv, FinishInv
  <2>2. t # s => Settled(t)'
    BY <2>1 DEF Settled
  <2> QED BY <2>2
<1>2. ScreenInv'
  <2>1. CASE receive.id = s
    BY <2>1 DEF ScreenInv
  <2>2. CASE receive.id # s
    BY <2>2, ScreenStays DEF CountInv
  <2> QED BY <2>1, <2>2
<1>3. LogInv'
  <2>1. \A t \in Sessions : Final(t, log[t]) =>
              /\ up'[t] = up[t] /\ srv'[t] = "closed"
              /\ \A f \in Files : UploadQueued(t, f)' => UploadQueued(t, f)
    BY DEF Final, Lasting
  <2> QED BY <2>1, LogStays DEF CountInv
<1> QED BY <1>1, <1>2, <1>3 DEF CountInv

LEMMA UpdateAt ==
    ASSUME TypeOK, NEW s \in Sessions, NEW f \in Files, NEW v, up' = [up EXCEPT ![s][f] = v]
    PROVE  /\ \A t \in Sessions : t # s => up'[t] = up[t]
           /\ \A g \in Files : up'[s][g] = IF g = f THEN v ELSE up[s][g]
  BY DEF TypeOK

\* The upload of a file is queued.
LEMMA CountUpload ==
    ASSUME Agreement, CountInv, Lasting, MaxAttempts <= 1,
           NEW s \in Sessions, NEW f \in Files, SrvUpload(s, f)
    PROVE  CountInv'
<1> DEFINE e == FileUpload(s, f, 1)
<1>1. /\ TypeOK /\ IInv /\ srv[s] = "active" /\ f \in offer[s].files
      /\ up[s][f] \in {"none", "failed"} /\ tries[s][f] < MaxAttempts
      /\ up' = [up EXCEPT ![s][f] = "requested"]
      /\ tries' = [tries EXCEPT ![s][f] = @ + 1]
      /\ UNCHANGED <<results, receive, log>>
  BY DEF Agreement, SrvUpload, appVars
<1>2. MaxAttempts = 1 /\ tries[s][f] = 0
  BY <1>1, CapAssumption DEF TypeOK
<1>3. /\ up[s][f] = "none" /\ ~UploadQueued(s, f)
  BY <1>1, <1>2 DEF CountInv, UploadsInv
<1>4. ~Outstanding(s, f)
  BY <1>3 DEF CountInv, ResultsInv, Outstanding
<1>5. e \in Events /\ serverQ' = Append(serverQ, e)
  BY <1>2, EventTypes DEF SrvUpload
<1>6. decision[s] = "accept"
  BY <1>1 DEF IInv, AcceptedIsVisible, AcceptedOnly
<1>7. \A reason \in Reasons : ~Queued(SessionEnd(s, reason))
  BY <1>1 DEF IInv, EndIsClosed, Queued
<1>8. /\ \A t \in Sessions : t # s => up'[t] = up[t] /\ tries'[t] = tries[t]
      /\ \A g \in Files : /\ up'[s][g] = IF g = f THEN "requested" ELSE up[s][g]
                          /\ tries'[s][g] = IF g = f THEN 1 ELSE tries[s][g]
  BY <1>1, <1>2, UpdateAt DEF TypeOK
<1>9. \A t \in Sessions, g \in Files :
        UploadQueued(t, g)' <=> UploadQueued(t, g) \/ (t = s /\ g = f)
  BY <1>1, <1>5, AppendedJoins, UploadsDiffer DEF UploadQueued
<1>10. \A t \in Sessions : (Queued(SessionEnd(t, "Finished")))' => Queued(SessionEnd(t, "Finished"))
  <2>1. \A t : e # SessionEnd(t, "Finished")
    BY UploadsDiffer
  <2> QED BY <1>1, <1>5, <2>1, AppendedJoins
<1>11. OrderInv'
  <2>1. \A t \in Sessions, g \in Files : e = FileUpload(t, g, 1) => t = s /\ g = f
    BY UploadsDiffer
  <2> QED BY <1>1, <1>3, <1>5, <1>7, <2>1, OrderAppend DEF CountInv
<1>12. \A t \in Sessions, g \in Files : Outstanding(t, g)' <=> Outstanding(t, g)
  BY <1>1 DEF Outstanding
<1>13. UploadsInv'
  <2>1. \A g \in Files :
              /\ \/ up'[s][g] # "none" /\ tries'[s][g] = 1
                 \/ up'[s][g] = up[s][g] /\ tries'[s][g] = tries[s][g]
              /\ up'[s][g] # "none" => decision[s] = "accept" /\ g \in offer[s].files
              /\ up'[s][g] = "requested" => UploadQueued(s, g)'
              /\ UploadQueued(s, g)' => up'[s][g] \in {"requested", "failed"} /\ ~Outstanding(s, g)'
    BY <1>1, <1>4, <1>6, <1>8, <1>9, <1>12 DEF CountInv, UploadsInv
  <2> QED BY <1>1, <1>8, <1>9, <1>12, <2>1, CountOthers
<1>14. ResultsInv'
  <2>1. ASSUME NEW r \in results PROVE r.session # s \/ r.file # f
    BY <1>4, <2>1 DEF Outstanding
  <2>2. ASSUME NEW r \in results PROVE r.session \in Sessions /\ r.file \in Files
    BY <1>1 DEF TypeOK, Results
  <2> QED BY <1>1, <1>8, <2>1, <2>2 DEF CountInv, ResultsInv
<1>15. receive.id = s => Right(s, receive)'
  <2> SUFFICES ASSUME receive.id = s PROVE Right(s, receive)'
    OBVIOUS
  <2>1. PICK r : r = receive
    OBVIOUS
  <2>2. Right(s, r) /\ r.ended = "no"
    <3>1. receive.ended = "no"
      BY <1>1, NoneAssumption DEF IInv, EndedIsClosed
    <3> QED BY <2>1, <3>1 DEF CountInv, ScreenInv
  <2>3. \A g \in Files : g \in r.inProgress <=> up'[s][g] = "writing" \/ Outstanding(s, g)'
    BY <1>3, <1>4, <1>8, <1>12, <2>2 DEF Right
  <2>4. \A g \in Files :
           /\ up'[s][g] = "done" /\ g \notin r.inProgress
                 <=> up[s][g] = "done" /\ g \notin r.inProgress
           /\ up'[s][g] = "failed" /\ g \notin r.inProgress /\ ~UploadQueued(s, g)'
                 <=> up[s][g] = "failed" /\ g \notin r.inProgress /\ ~UploadQueued(s, g)
    BY <1>3, <1>8, <1>9
  <2>5. Right(s, r)'
    BY <2>2, <2>3, <2>4, RightAt
  <2> QED BY <1>1, <2>1, <2>5 DEF Right
<1>16. ~Final(s, log[s])
  BY <1>1 DEF Final
<1>17. \A t \in Sessions : t # s =>
        /\ up'[t] = up[t]
        /\ \A g \in Files : /\ UploadQueued(t, g)' <=> UploadQueued(t, g)
                            /\ Outstanding(t, g)' <=> Outstanding(t, g)
  BY <1>8, <1>9, <1>12
<1>18. ~Queued(SessionEnd(s, "Finished"))
  BY <1>7 DEF Reasons
<1> QED BY <1>1, <1>10, <1>11, <1>13, <1>14, <1>15, <1>16, <1>17, <1>18, CountStep

\* The sender gives up an upload: it stays queued, and will be counted.
LEMMA CountUploadAborted ==
    ASSUME Agreement, CountInv, Lasting, NEW s \in Sessions, NEW f \in Files, SrvUploadAborted(s, f)
    PROVE  CountInv'
<1>1. /\ TypeOK /\ up[s][f] = "requested" /\ up' = [up EXCEPT ![s][f] = "failed"]
      /\ UNCHANGED <<tries, serverQ, results, receive, log>>
  BY DEF Agreement, SrvUploadAborted, appVars
<1>2. /\ UploadQueued(s, f) /\ ~Outstanding(s, f)
      /\ tries[s][f] = 1 /\ decision[s] = "accept" /\ f \in offer[s].files
  BY <1>1 DEF CountInv, UploadsInv
<1>3. ~Settled(s)
  BY <1>1 DEF Settled
<1>4. /\ \A t \in Sessions : t # s => up'[t] = up[t]
      /\ \A g \in Files : up'[s][g] = IF g = f THEN "failed" ELSE up[s][g]
  BY <1>1 DEF TypeOK
<1>5. \A t \in Sessions, g \in Files : /\ UploadQueued(t, g)' <=> UploadQueued(t, g)
                                       /\ Outstanding(t, g)' <=> Outstanding(t, g)
  BY <1>1 DEF UploadQueued, Queued, Outstanding
<1>6. /\ OrderInv'
      /\ \A t \in Sessions : (Queued(SessionEnd(t, "Finished")))' => Queued(SessionEnd(t, "Finished"))
  BY <1>1 DEF CountInv, OrderInv, Queued
<1>7. UploadsInv'
  <2>1. \A g \in Files :
              /\ \/ up'[s][g] # "none" /\ tries'[s][g] = 1
                 \/ up'[s][g] = up[s][g] /\ tries'[s][g] = tries[s][g]
              /\ up'[s][g] # "none" => decision[s] = "accept" /\ g \in offer[s].files
              /\ up'[s][g] = "requested" => UploadQueued(s, g)'
              /\ UploadQueued(s, g)' => up'[s][g] \in {"requested", "failed"} /\ ~Outstanding(s, g)'
    BY <1>1, <1>2, <1>4, <1>5 DEF CountInv, UploadsInv
  <2> QED BY <1>1, <1>4, <1>5, <2>1, CountOthers
<1>8. ResultsInv'
  <2>1. ASSUME NEW r \in results
        PROVE  /\ r.session # s \/ r.file # f
               /\ r.session \in Sessions /\ r.file \in Files
    BY <1>1, <1>2, <2>1 DEF Outstanding, TypeOK, Results
  <2> QED BY <1>1, <1>4, <2>1 DEF CountInv, ResultsInv
<1>9. receive.id = s => Right(s, receive)'
  <2> SUFFICES ASSUME receive.id = s PROVE Right(s, receive)'
    OBVIOUS
  <2>1. PICK r : r = receive
    OBVIOUS
  <2>2. Right(s, r)
    BY <2>1 DEF CountInv, ScreenInv
  <2>3. r.ended = "no"
    BY <1>2, <2>2 DEF Right, NoUpload
  <2>4. \A g \in Files : g \in r.inProgress <=> up'[s][g] = "writing" \/ Outstanding(s, g)'
    BY <1>1, <1>4, <1>5, <2>2 DEF Right
  <2>5. \A g \in Files :
           /\ up'[s][g] = "done" /\ g \notin r.inProgress
                 <=> up[s][g] = "done" /\ g \notin r.inProgress
           /\ up'[s][g] = "failed" /\ g \notin r.inProgress /\ ~UploadQueued(s, g)'
                 <=> up[s][g] = "failed" /\ g \notin r.inProgress /\ ~UploadQueued(s, g)
    BY <1>1, <1>2, <1>4, <1>5
  <2>6. Right(s, r)'
    BY <2>2, <2>3, <2>4, <2>5, RightAt
  <2> QED BY <1>1, <2>1, <2>6 DEF Right
<1>10. ~Final(s, log[s]) /\ ~Queued(SessionEnd(s, "Finished"))
  BY <1>3 DEF Final, CountInv, FinishInv
<1>11. receive'.id = receive.id /\ receive' = receive /\ log' = log
  BY <1>1
<1> QED BY <1>1, <1>4, <1>5, <1>6, <1>7, <1>8, <1>9, <1>10, <1>11, CountStep

\* A file is stored or fails: it stays in progress while its result waits.
LEMMA CountFileDone ==
    ASSUME Agreement, CountInv, Lasting,
           NEW s \in Sessions, NEW f \in Files, NEW ok \in BOOLEAN, SrvFileDone(s, f, ok)
    PROVE  CountInv'
<1> DEFINE v == IF ok THEN "done" ELSE "failed"
           x == [session |-> s, file |-> f, try |-> tries[s][f], ok |-> ok]
<1>1. /\ TypeOK /\ up[s][f] = "writing" /\ up' = [up EXCEPT ![s][f] = v]
      /\ results' = results \cup {x}
      /\ UNCHANGED <<tries, serverQ, receive, log>>
  BY DEF Agreement, SrvFileDone, appVars
<1>2. /\ ~UploadQueued(s, f)
      /\ tries[s][f] = 1 /\ decision[s] = "accept" /\ f \in offer[s].files
  BY <1>1 DEF CountInv, UploadsInv
<1>3. ~Settled(s) /\ v \in {"done", "failed"} /\ v # "none" /\ v # "requested" /\ v # "writing"
  BY <1>1 DEF Settled
<1>4. /\ \A t \in Sessions : t # s => up'[t] = up[t]
      /\ \A g \in Files : up'[s][g] = IF g = f THEN v ELSE up[s][g]
  BY <1>1 DEF TypeOK
<1>5. \A t \in Sessions, g \in Files :
         /\ UploadQueued(t, g)' <=> UploadQueued(t, g)
         /\ Outstanding(t, g)' <=> Outstanding(t, g) \/ (t = s /\ g = f)
  <2>1. \A t \in Sessions, g \in Files : UploadQueued(t, g)' <=> UploadQueued(t, g)
    BY <1>1 DEF UploadQueued, Queued
  <2>2. x.session = s /\ x.file = f
    OBVIOUS
  <2> HIDE DEF x
  <2>3. \A t \in Sessions, g \in Files : Outstanding(t, g)' <=> Outstanding(t, g) \/ (t = s /\ g = f)
    BY <1>1, <2>2 DEF Outstanding
  <2> QED BY <2>1, <2>3
<1>6. /\ OrderInv'
      /\ \A t \in Sessions : (Queued(SessionEnd(t, "Finished")))' => Queued(SessionEnd(t, "Finished"))
  BY <1>1 DEF CountInv, OrderInv, Queued
<1>7. UploadsInv'
  <2>1. \A g \in Files :
              /\ \/ up'[s][g] # "none" /\ tries'[s][g] = 1
                 \/ up'[s][g] = up[s][g] /\ tries'[s][g] = tries[s][g]
              /\ up'[s][g] # "none" => decision[s] = "accept" /\ g \in offer[s].files
              /\ up'[s][g] = "requested" => UploadQueued(s, g)'
              /\ UploadQueued(s, g)' => up'[s][g] \in {"requested", "failed"} /\ ~Outstanding(s, g)'
    <3> HIDE DEF v
    <3> QED BY <1>1, <1>2, <1>3, <1>4, <1>5 DEF CountInv, UploadsInv
  <2> QED BY <1>1, <1>4, <1>5, <2>1, CountOthers
<1>8. ResultsInv'
  <2>1. ASSUME NEW r \in results
        PROVE  r.try = 1 /\ up'[r.session][r.file] = IF r.ok THEN "done" ELSE "failed"
    <3>1. /\ r.session \in Sessions /\ r.file \in Files /\ r.try = 1
          /\ up[r.session][r.file] = IF r.ok THEN "done" ELSE "failed"
      BY <1>1, <2>1 DEF CountInv, ResultsInv, TypeOK, Results
    <3> QED BY <1>1, <1>4, <3>1
  <2>2. x.try = 1 /\ up'[x.session][x.file] = IF x.ok THEN "done" ELSE "failed"
    BY <1>2, <1>4
  <2> HIDE DEF x
  <2> QED BY <1>1, <2>1, <2>2 DEF ResultsInv
<1>9. receive.id = s => Right(s, receive)'
  <2> SUFFICES ASSUME receive.id = s PROVE Right(s, receive)'
    OBVIOUS
  <2>1. PICK r : r = receive
    OBVIOUS
  <2>2. Right(s, r)
    BY <2>1 DEF CountInv, ScreenInv
  <2>3. f \in r.inProgress /\ r.ended # "Finished"
    BY <1>1, <1>3, <2>2 DEF Right
  <2>4. \A g \in Files : g \in r.inProgress <=> up'[s][g] = "writing" \/ Outstanding(s, g)'
    BY <1>1, <1>3, <1>4, <1>5, <2>2 DEF Right
  <2>5. \A g \in Files :
           /\ up'[s][g] = "done" /\ g \notin r.inProgress
                 <=> up[s][g] = "done" /\ g \notin r.inProgress
           /\ up'[s][g] = "failed" /\ g \notin r.inProgress /\ ~UploadQueued(s, g)'
                 <=> up[s][g] = "failed" /\ g \notin r.inProgress /\ ~UploadQueued(s, g)
    BY <1>4, <1>5, <2>3
  <2>6. r.ended # "no" => NoUpload(s)'
    BY <1>5, <2>2 DEF Right, NoUpload
  <2>7. Right(s, r)'
    BY <2>2, <2>3, <2>4, <2>5, <2>6, RightAt
  <2> QED BY <1>1, <2>1, <2>7 DEF Right
<1>10. ~Final(s, log[s]) /\ ~Queued(SessionEnd(s, "Finished"))
  BY <1>3 DEF Final, CountInv, FinishInv
<1>11. receive'.id = receive.id /\ receive' = receive /\ log' = log
  BY <1>1
<1>12. \A t \in Sessions : t # s =>
        /\ up'[t] = up[t]
        /\ \A g \in Files : /\ UploadQueued(t, g)' <=> UploadQueued(t, g)
                            /\ Outstanding(t, g)' <=> Outstanding(t, g)
  BY <1>4, <1>5
<1> QED BY <1>1, <1>6, <1>7, <1>8, <1>9, <1>10, <1>11, <1>12, CountStep

\* What the App knows of an upload it takes from the queue.
LEMMA TakenUpload ==
    ASSUME Agreement, CountInv, MaxAttempts <= 1,
           NEW s \in Sessions, NEW f \in Files, NEW n \in 1..MaxAttempts, Take(FileUpload(s, f, n))
    PROVE  /\ n = 1 /\ UploadQueued(s, f) /\ ~Outstanding(s, f)
           /\ up[s][f] \in {"requested", "failed"}
           /\ tries[s][f] = 1 /\ decision[s] = "accept" /\ f \in offer[s].files
           /\ OrderInv' /\ ~Final(s, log[s])
           /\ \A t \in Sessions, g \in Files :
                 UploadQueued(t, g)' <=> UploadQueued(t, g) /\ ~(t = s /\ g = f)
           /\ \A t \in Sessions : (Queued(SessionEnd(t, "Finished")))' => Queued(SessionEnd(t, "Finished"))
<1>1. n = 1 /\ TypeOK
  BY CapAssumption DEF Agreement
<1>2. UploadQueued(s, f)
  <2>1. 1 \in 1..Len(serverQ) /\ serverQ[1] = FileUpload(s, f, 1)
    BY <1>1, TakeQueue
  <2> QED BY <2>1 DEF UploadQueued, Queued
<1>3. up[s][f] \in {"requested", "failed"} /\ ~Outstanding(s, f)
  BY <1>2 DEF CountInv, UploadsInv
<1>4. tries[s][f] = 1 /\ decision[s] = "accept" /\ f \in offer[s].files
  BY <1>3 DEF CountInv, UploadsInv
<1>5. OrderInv'
  BY <1>1, OrderTake DEF CountInv
<1>6. \A t \in Sessions, g \in Files :
         UploadQueued(t, g)' <=> UploadQueued(t, g) /\ ~(t = s /\ g = f)
  <2>1. \A t, g : FileUpload(s, f, 1) = FileUpload(t, g, 1) <=> s = t /\ f = g
    BY UploadsDiffer
  <2> QED BY <1>1, <2>1, TakeUploads DEF CountInv
<1>7. \A t \in Sessions : (Queued(SessionEnd(t, "Finished")))' => Queued(SessionEnd(t, "Finished"))
  <2>1. \A t : FileUpload(s, f, 1) # SessionEnd(t, "Finished")
    BY UploadsDiffer
  <2> QED BY <1>1, <2>1, TakenLeaves
<1>8. ~Final(s, log[s])
  BY <1>2 DEF Final, NoUpload
<1> QED BY <1>1, <1>2, <1>3, <1>4, <1>5, <1>6, <1>7, <1>8

\* An upload of a session that is not on the screen fails.
LEMMA CountForeignUpload ==
    ASSUME Agreement, CountInv, Lasting, MaxAttempts <= 1,
           NEW s \in Sessions, NEW f \in Files, NEW n \in 1..MaxAttempts, HandleForeignUpload(s, f, n)
    PROVE  CountInv'
<1>1. /\ TypeOK /\ Take(FileUpload(s, f, n)) /\ receive.id # s
      /\ UNCHANGED <<tries, results, receive, log>>
  BY DEF Agreement, HandleForeignUpload, appVars
<1>2. /\ n = 1 /\ UploadQueued(s, f) /\ ~Outstanding(s, f)
      /\ up[s][f] \in {"requested", "failed"}
      /\ tries[s][f] = 1 /\ decision[s] = "accept" /\ f \in offer[s].files
      /\ OrderInv' /\ ~Final(s, log[s])
      /\ \A t \in Sessions, g \in Files :
            UploadQueued(t, g)' <=> UploadQueued(t, g) /\ ~(t = s /\ g = f)
      /\ \A t \in Sessions : (Queued(SessionEnd(t, "Finished")))' => Queued(SessionEnd(t, "Finished"))
  BY <1>1, TakenUpload
<1>3. /\ \A t \in Sessions : t # s => up'[t] = up[t]
      /\ \A g \in Files : up'[s][g] = IF g = f THEN "failed" ELSE up[s][g]
  <2>1. CASE up[s][f] = "requested"
    BY <1>1, <1>2, <2>1 DEF HandleForeignUpload, TypeOK
  <2>2. CASE up[s][f] = "failed"
    BY <1>2, <2>2 DEF HandleForeignUpload
  <2> QED BY <1>2, <2>1, <2>2
<1>4. \A t \in Sessions, g \in Files : Outstanding(t, g)' <=> Outstanding(t, g)
  BY <1>1 DEF Outstanding
<1>5. UploadsInv'
  <2>1. \A g \in Files :
              /\ \/ up'[s][g] # "none" /\ tries'[s][g] = 1
                 \/ up'[s][g] = up[s][g] /\ tries'[s][g] = tries[s][g]
              /\ up'[s][g] # "none" => decision[s] = "accept" /\ g \in offer[s].files
              /\ up'[s][g] = "requested" => UploadQueued(s, g)'
              /\ UploadQueued(s, g)' => up'[s][g] \in {"requested", "failed"} /\ ~Outstanding(s, g)'
    BY <1>1, <1>2, <1>3, <1>4 DEF CountInv, UploadsInv
  <2> QED BY <1>1, <1>2, <1>3, <1>4, <2>1, CountOthers
<1>6. ResultsInv'
  <2>1. ASSUME NEW r \in results
        PROVE  /\ r.session # s \/ r.file # f
               /\ r.session \in Sessions /\ r.file \in Files
    BY <1>1, <1>2, <2>1 DEF Outstanding, TypeOK, Results
  <2> QED BY <1>1, <1>3, <2>1 DEF CountInv, ResultsInv
<1>7. Queued(SessionEnd(s, "Finished")) => Settled(s)'
  <2>1. Settled(s) => Settled(s)'
    BY <1>3 DEF Settled
  <2> QED BY <2>1 DEF CountInv, FinishInv
<1>8. \A t \in Sessions : t # s =>
        /\ up'[t] = up[t]
        /\ \A g \in Files : /\ UploadQueued(t, g)' <=> UploadQueued(t, g)
                            /\ Outstanding(t, g)' <=> Outstanding(t, g)
  BY <1>2, <1>3, <1>4
<1>9. receive' = receive /\ log' = log /\ receive'.id = receive.id
  BY <1>1
<1> QED BY <1>1, <1>2, <1>5, <1>6, <1>7, <1>8, <1>9, CountStep

\* An upload of the session on the screen is in progress from now on; if its
\* request is gone its failure is on its way.
LEMMA CountFileUpload ==
    ASSUME Agreement, CountInv, Lasting, MaxAttempts <= 1,
           NEW s \in Sessions, NEW f \in Files, NEW n \in 1..MaxAttempts, HandleFileUpload(s, f, n)
    PROVE  CountInv'
<1> DEFINE x == [session |-> s, file |-> f, try |-> 1, ok |-> FALSE]
<1>1. /\ TypeOK /\ Take(FileUpload(s, f, n)) /\ receive.id = s
      /\ receive' = [receive EXCEPT !.inProgress = @ \cup {f}]
      /\ UNCHANGED <<tries, log>>
  BY DEF Agreement, HandleFileUpload
<1>2. /\ n = 1 /\ UploadQueued(s, f) /\ ~Outstanding(s, f)
      /\ up[s][f] \in {"requested", "failed"}
      /\ tries[s][f] = 1 /\ decision[s] = "accept" /\ f \in offer[s].files
      /\ OrderInv' /\ ~Final(s, log[s])
      /\ \A t \in Sessions, g \in Files :
            UploadQueued(t, g)' <=> UploadQueued(t, g) /\ ~(t = s /\ g = f)
      /\ \A t \in Sessions : (Queued(SessionEnd(t, "Finished")))' => Queued(SessionEnd(t, "Finished"))
  BY <1>1, TakenUpload
<1>3. PICK v \in {"writing", "failed"} :
        /\ \A t \in Sessions : t # s => up'[t] = up[t]
        /\ \A g \in Files : up'[s][g] = IF g = f THEN v ELSE up[s][g]
        /\ v = "writing" => up[s][f] = "requested" /\ results' = results
        /\ v = "failed" => results' = results \cup {x}
  <2>1. CASE Uploading(s, f, n)
    <3>1. up[s][f] = "requested" /\ results' = results /\ up' = [up EXCEPT ![s][f] = "writing"]
      BY <2>1 DEF HandleFileUpload, Uploading
    <3> QED BY <1>1, <3>1 DEF TypeOK
  <2>2. CASE ~Uploading(s, f, n)
    <3>1. /\ results' = results \cup {x}
          /\ up' = IF tries[s][f] = n /\ up[s][f] = "requested"
                   THEN [up EXCEPT ![s][f] = "failed"] ELSE up
      BY <1>2, <2>2 DEF HandleFileUpload
    <3>2. /\ \A t \in Sessions : t # s => up'[t] = up[t]
          /\ \A g \in Files : up'[s][g] = IF g = f THEN "failed" ELSE up[s][g]
      BY <1>1, <1>2, <3>1 DEF TypeOK
    <3> QED BY <3>1, <3>2
  <2> QED BY <2>1, <2>2
<1>4. \A t \in Sessions, g \in Files :
         Outstanding(t, g)' <=> Outstanding(t, g) \/ (t = s /\ g = f /\ v = "failed")
  <2>1. x.session = s /\ x.file = f
    OBVIOUS
  <2> HIDE DEF x
  <2> QED BY <1>3, <2>1 DEF Outstanding
<1>5. UploadsInv'
  <2>1. \A g \in Files :
              /\ \/ up'[s][g] # "none" /\ tries'[s][g] = 1
                 \/ up'[s][g] = up[s][g] /\ tries'[s][g] = tries[s][g]
              /\ up'[s][g] # "none" => decision[s] = "accept" /\ g \in offer[s].files
              /\ up'[s][g] = "requested" => UploadQueued(s, g)'
              /\ UploadQueued(s, g)' => up'[s][g] \in {"requested", "failed"} /\ ~Outstanding(s, g)'
    BY <1>1, <1>2, <1>3, <1>4 DEF CountInv, UploadsInv
  <2> QED BY <1>1, <1>2, <1>3, <1>4, <2>1, CountOthers
<1>6. ResultsInv'
  <2>1. ASSUME NEW r \in results
        PROVE  r.try = 1 /\ up'[r.session][r.file] = IF r.ok THEN "done" ELSE "failed"
    <3>1. /\ r.session # s \/ r.file # f
          /\ r.session \in Sessions /\ r.file \in Files
      BY <1>1, <1>2, <2>1 DEF Outstanding, TypeOK, Results
    <3> QED BY <1>3, <2>1, <3>1 DEF CountInv, ResultsInv
  <2>2. x.try = 1 /\ ~x.ok /\ (v = "failed" => up'[x.session][x.file] = "failed")
    BY <1>3
  <2> HIDE DEF x
  <2> QED BY <1>3, <2>1, <2>2 DEF ResultsInv
<1>7. Right(s, receive)'
  <2>0. PICK r, q : r = receive /\ q = receive'
    OBVIOUS
  <2>1. /\ r = receive /\ q = receive'
        /\ q.inProgress = r.inProgress \cup {f}
        /\ q.finished = r.finished /\ q.failed = r.failed /\ q.ended = r.ended
    BY <1>1, <2>0 DEF TypeOK, ReceiveSession
  <2>2. Right(s, r)
    BY <1>1, <2>1 DEF CountInv, ScreenInv
  <2>3. (q.ended # "no" => NoUpload(s)') /\ (q.ended = "Finished" => Settled(s)')
    <3>1. q.ended = "no"
      BY <1>2, <2>1, <2>2 DEF Right, NoUpload
    <3> QED BY <3>1
  <2>4. \A g \in Files : g \in q.inProgress <=> up'[s][g] = "writing" \/ Outstanding(s, g)'
    BY <1>3, <1>4, <2>1, <2>2 DEF Right
  <2>5. \A g \in Files :
           /\ up'[s][g] = "done" /\ g \notin q.inProgress
                 <=> up[s][g] = "done" /\ g \notin r.inProgress
           /\ up'[s][g] = "failed" /\ g \notin q.inProgress /\ ~UploadQueued(s, g)'
                 <=> up[s][g] = "failed" /\ g \notin r.inProgress /\ ~UploadQueued(s, g)
    BY <1>2, <1>3, <2>1
  <2>6. Right(s, q)'
    BY <2>1, <2>2, <2>3, <2>4, <2>5, RightAt
  <2> QED BY <2>1, <2>6 DEF Right
<1>8. Queued(SessionEnd(s, "Finished")) => Settled(s)'
  <2>1. Settled(s) => Settled(s)'
    BY <1>3 DEF Settled
  <2> QED BY <2>1 DEF CountInv, FinishInv
<1>9. \A t \in Sessions : t # s =>
        /\ up'[t] = up[t]
        /\ \A g \in Files : /\ UploadQueued(t, g)' <=> UploadQueued(t, g)
                            /\ Outstanding(t, g)' <=> Outstanding(t, g)
  BY <1>2, <1>3, <1>4
<1>10. receive'.id = receive.id /\ log' = log
  BY <1>1 DEF TypeOK, ReceiveSession
<1> QED BY <1>1, <1>2, <1>5, <1>6, <1>7, <1>8, <1>9, <1>10, CountStep

\* The end of a session: of the one on the screen all uploads were handled.
LEMMA CountSessionEnd ==
    ASSUME Agreement, CountInv, Lasting,
           NEW s \in Sessions, NEW reason \in Reasons, HandleSessionEnd(s, reason)
    PROVE  CountInv'
<1>1. /\ TypeOK /\ IInv /\ Take(SessionEnd(s, reason))
      /\ UNCHANGED <<srv, up, tries, results>>
  BY DEF Agreement, HandleSessionEnd, serverVars
<1>2. \A t \in Sessions, f \in Files : UploadQueued(t, f)' <=> UploadQueued(t, f)
  <2>1. \A t \in Sessions, f \in Files : SessionEnd(s, reason) # FileUpload(t, f, 1)
    BY UploadsDiffer
  <2> QED BY <1>1, <2>1, TakeUploads DEF CountInv
<1>3. \A t \in Sessions : (Queued(SessionEnd(t, "Finished")))' => Queued(SessionEnd(t, "Finished"))
  BY <1>1, TakeQueue DEF Queued
<1>4. OrderInv'
  BY <1>1, OrderTake DEF CountInv
<1>5. UploadsInv' /\ ResultsInv' /\ FinishInv'
  BY <1>1, <1>2, <1>3, <1>4, CountQuiet
<1>6. CASE receive.id # s
  BY <1>1, <1>2, <1>3, <1>4, <1>6, CountQuiet DEF HandleSessionEnd
<1>7. CASE receive.id = s
  <2>0. PICK r, q : r = receive /\ q = [receive EXCEPT !.ended = reason]
    OBVIOUS
  <2>1. /\ r = receive /\ q = [receive EXCEPT !.ended = reason]
        /\ q \in ReceiveSession /\ q.id = s /\ q.ended = reason
        /\ q.inProgress = r.inProgress
        /\ q.finished = r.finished /\ q.failed = r.failed
    BY <1>1, <1>7, <2>0 DEF TypeOK, ReceiveSession, Reasons
  <2>2. Right(s, r) /\ FinishIfDone(q)
    BY <1>7, <2>1 DEF CountInv, ScreenInv, HandleSessionEnd
  <2>3. 1 \in 1..Len(serverQ) /\ serverQ[1] = SessionEnd(s, reason)
    BY <1>1, TakeQueue
  <2>4. srv[s] = "closed"
    BY <1>1, <2>3 DEF IInv, EndIsClosed
  <2>5. NoUpload(s)'
    <3>1. ASSUME NEW f \in Files, NEW i \in 1..Len(serverQ), serverQ[i] = FileUpload(s, f, 1)
          PROVE  FALSE
      <4>1. i < 1
        BY <2>3, <3>1 DEF CountInv, OrderInv
      <4>2. i \in Nat \ {0}
        BY <3>1 DEF TypeOK
      <4> QED BY <4>1, <4>2
    <3> QED BY <1>2, <3>1 DEF NoUpload, UploadQueued, Queued
  <2>6. reason = "Finished" => Settled(s)'
    <3>1. reason = "Finished" => Queued(SessionEnd(s, "Finished"))
      BY <2>3 DEF Queued
    <3> QED BY <1>1, <3>1 DEF CountInv, FinishInv, Settled
  <2>7. \A g \in Files : g \in q.inProgress <=> up'[s][g] = "writing" \/ Outstanding(s, g)'
    BY <1>1, <2>1, <2>2 DEF Right, Outstanding
  <2>8. \A g \in Files :
           /\ up'[s][g] = "done" /\ g \notin q.inProgress
                 <=> up[s][g] = "done" /\ g \notin r.inProgress
           /\ up'[s][g] = "failed" /\ g \notin q.inProgress /\ ~UploadQueued(s, g)'
                 <=> up[s][g] = "failed" /\ g \notin r.inProgress /\ ~UploadQueued(s, g)
    BY <1>1, <1>2, <2>1
  <2>9. Right(s, q)'
    <3>1. /\ q.finished = r.finished /\ q.failed = r.failed
          /\ (q.ended # "no" => NoUpload(s)') /\ (q.ended = "Finished" => Settled(s)')
      BY <2>1, <2>5, <2>6
    <3> QED BY <2>2, <2>7, <2>8, <3>1, RightAt
  <2>10. \A t \in Sessions : Final(t, log[t]) =>
              /\ up'[t] = up[t] /\ srv'[t] = "closed"
              /\ \A f \in Files : UploadQueued(t, f)' => UploadQueued(t, f)
    BY <1>1, <1>2 DEF Final
  <2>11. ScreenInv' /\ LogInv'
    BY <1>1, <2>1, <2>2, <2>4, <2>9, <2>10, SummaryIsRight DEF CountInv
  <2> QED BY <1>4, <1>5, <2>11 DEF CountInv
<1> QED BY <1>6, <1>7

\* The result of a file moves the file from "in progress" to one count.
LEMMA CountedIsRight ==
    ASSUME TypeOK, NEW s \in Sessions, NEW f \in Files,
           NEW r, Right(s, r), f \in r.inProgress,
           up[s][f] \in {"done", "failed"}, ~UploadQueued(s, f), UNCHANGED up,
           \A g \in Files : /\ UploadQueued(s, g)' <=> UploadQueued(s, g)
                            /\ Outstanding(s, g)' <=> Outstanding(s, g) /\ g # f,
           NEW q, q.ended = r.ended, q.inProgress = r.inProgress \ {f},
           q.finished = (IF up[s][f] = "done" THEN r.finished + 1 ELSE r.finished),
           q.failed = (IF up[s][f] = "done" THEN r.failed ELSE r.failed + 1)
    PROVE  Right(s, q)'
<1> DEFINE D == CountedDone(s, r.inProgress)
           F == CountedFailed(s, r.inProgress)
<1>1. /\ CountedDone(s, q.inProgress)' = IF up[s][f] = "done" THEN D \cup {f} ELSE D
      /\ CountedFailed(s, q.inProgress)' = IF up[s][f] = "done" THEN F ELSE F \cup {f}
  BY DEF CountedDone, DoneFiles, CountedFailed, FailedFiles
<1>2. f \notin D /\ f \notin F /\ IsFiniteSet(D) /\ IsFiniteSet(F)
  <2>1. D \subseteq Files /\ F \subseteq Files
    BY DEF CountedDone, DoneFiles, CountedFailed, FailedFiles
  <2> QED BY <2>1, FS_Subset, FilesAssumption DEF CountedDone, CountedFailed
<1>3. r.finished = Cardinality(D) /\ r.failed = Cardinality(F)
  BY DEF Right
<1> HIDE DEF D, F
<1>4. /\ Cardinality(D \cup {f}) = Cardinality(D) + 1
      /\ Cardinality(F \cup {f}) = Cardinality(F) + 1
  BY <1>2, FS_AddElement
<1>5. /\ q.finished = Cardinality(CountedDone(s, q.inProgress)')
      /\ q.failed = Cardinality(CountedFailed(s, q.inProgress)')
  BY <1>1, <1>3, <1>4
<1>6. \A g \in Files : g \in q.inProgress <=> up'[s][g] = "writing" \/ Outstanding(s, g)'
  BY DEF Right
<1>7. (q.ended # "no" => NoUpload(s)') /\ (q.ended = "Finished" => Settled(s)')
  BY DEF Right, NoUpload, Settled
<1> QED BY <1>5, <1>6, <1>7 DEF Right

LEMMA CountResult ==
    ASSUME Agreement, CountInv, Lasting,
           NEW x \in results, ReceiveFileResult(x)
    PROVE  CountInv'
<1> DEFINE s == x.session
           f == x.file
<1>1. /\ TypeOK /\ IInv /\ s \in Sessions /\ f \in Files /\ x \in Results
      /\ results' = results \ {x}
      /\ UNCHANGED <<srv, up, tries, serverQ>>
  BY DEF Agreement, TypeOK, Results, ReceiveFileResult, serverVars
<1>2. /\ up[s][f] = IF x.ok THEN "done" ELSE "failed"
      /\ Outstanding(s, f) /\ ~UploadQueued(s, f)
  <2>1. up[s][f] = IF x.ok THEN "done" ELSE "failed"
    BY DEF CountInv, ResultsInv
  <2>2. Outstanding(s, f)
    BY DEF Outstanding
  <2> QED BY <1>1, <2>1, <2>2 DEF CountInv, UploadsInv
<1>3. \A t \in Sessions, g \in Files : UploadQueued(t, g)' <=> UploadQueued(t, g)
  BY <1>1 DEF UploadQueued, Queued
<1>4. \A t \in Sessions, g \in Files :
         Outstanding(t, g)' <=> Outstanding(t, g) /\ ~(t = s /\ g = f)
  <2>1. ASSUME NEW y \in results, y.session = s, y.file = f
        PROVE  y = x
    <3>1. y \in Results /\ x \in Results
      BY <1>1, <2>1 DEF TypeOK
    <3>2. y.try = x.try
      BY <2>1 DEF CountInv, ResultsInv
    <3>3. y.ok = x.ok
      <4>1. up[s][f] = IF y.ok THEN "done" ELSE "failed"
        BY <2>1 DEF CountInv, ResultsInv
      <4> QED BY <1>2, <3>1, <4>1 DEF Results
    <3> QED BY <2>1, <3>1, <3>2, <3>3 DEF Results
  <2>2. \A y \in results : y = x \/ y \in results'
    BY <1>1
  <2> QED BY <1>1, <2>1, <2>2 DEF Outstanding
<1>5. /\ OrderInv' /\ FinishInv'
  BY <1>1 DEF CountInv, OrderInv, FinishInv, Queued, Settled
<1>6. UploadsInv' /\ ResultsInv'
  <2>1. ResultsInv'
    BY <1>1 DEF CountInv, ResultsInv
  <2>2. UploadsInv'
    BY <1>1, <1>3, <1>4 DEF CountInv, UploadsInv, Lasting
  <2> QED BY <2>1, <2>2
<1>7. \A t \in Sessions : Final(t, log[t]) =>
          /\ up'[t] = up[t] /\ srv'[t] = "closed"
          /\ \A g \in Files : UploadQueued(t, g)' => UploadQueued(t, g)
  BY <1>1, <1>3 DEF Final
<1>8. CASE receive.id # s
  <2>1. receive' = receive /\ log' = log
    BY <1>8 DEF ReceiveFileResult
  <2>2. LogInv'
    BY <1>1, <1>7, <2>1, LogStays DEF CountInv
  <2>3. ScreenInv'
    BY <1>1, <1>3, <1>4, <1>8, <2>1, ScreenStays DEF CountInv
  <2> QED BY <1>5, <1>6, <2>2, <2>3 DEF CountInv
<1>9. CASE receive.id = s
  <2>0. PICK r, q : r = receive /\ q = Counted(x)
    OBVIOUS
  <2>1. Right(s, r) /\ FinishIfDone(q)
    BY <1>1, <1>9, <2>0 DEF CountInv, ScreenInv, ReceiveFileResult
  <2>2. /\ q \in ReceiveSession /\ q.id = s /\ q.ended = r.ended
        /\ q.inProgress = r.inProgress \ {f}
        /\ q.finished = (IF x.ok THEN r.finished + 1 ELSE r.finished)
        /\ q.failed = (IF x.ok THEN r.failed ELSE r.failed + 1)
    <3>1. r \in ReceiveSession /\ r.id = s
      BY <1>1, <1>9, <2>0 DEF TypeOK
    <3>2. q = [id |-> r.id, inProgress |-> r.inProgress \ {f},
               finished |-> IF x.ok THEN r.finished + 1 ELSE r.finished,
               failed |-> IF x.ok THEN r.failed ELSE r.failed + 1, ended |-> r.ended]
      BY <2>0, <3>1 DEF Counted, ReceiveSession
    <3> HIDE DEF s, f
    <3>3. r.finished \in Nat /\ r.failed \in Nat
      BY <3>1 DEF ReceiveSession
    <3>4. r.finished + 1 \in Nat /\ r.failed + 1 \in Nat
      BY <3>3
    <3> QED BY <3>1, <3>2, <3>3, <3>4 DEF ReceiveSession
  <2>3. f \in r.inProgress
    BY <1>1, <1>2, <2>1 DEF Right
  <2>4. Right(s, q)'
    <3>1. /\ up[s][f] \in {"done", "failed"} /\ (up[s][f] = "done" <=> x.ok)
      BY <1>2
    <3>2. /\ q.ended = r.ended /\ q.inProgress = r.inProgress \ {f}
          /\ q.finished = (IF up[s][f] = "done" THEN r.finished + 1 ELSE r.finished)
          /\ q.failed = (IF up[s][f] = "done" THEN r.failed ELSE r.failed + 1)
      BY <2>2, <3>1
    <3>3. /\ up' = up
          /\ \A g \in Files : /\ UploadQueued(s, g)' <=> UploadQueued(s, g)
                              /\ Outstanding(s, g)' <=> Outstanding(s, g) /\ g # f
      BY <1>1, <1>3, <1>4
    <3> HIDE DEF s, f
    <3> QED BY <1>1, <1>2, <2>1, <2>3, <3>1, <3>2, <3>3, CountedIsRight
  <2>5. q.ended # "no" => srv'[s] = "closed"
    BY <1>1, <1>9, <2>0, <2>2, NoneAssumption DEF IInv, EndedIsClosed
  <2>6. ScreenInv' /\ LogInv'
    <3> HIDE DEF s, f
    <3> QED BY <1>1, <1>7, <2>1, <2>2, <2>4, <2>5, SummaryIsRight DEF CountInv
  <2> QED BY <1>5, <1>6, <2>6 DEF CountInv
<1> QED BY <1>8, <1>9

\* The other steps of the server queue an event that is no upload.
LEMMA CountServer ==
    ASSUME Agreement, CountInv, Lasting, NEW s \in Sessions,
           \/ \E d \in Senders, fs \in SUBSET Files, m \in BOOLEAN : SrvPrepare(s, d, fs, m)
           \/ SrvDecided(s) \/ SrvAbort(s) \/ SrvFinish(s) \/ SrvCancelled(s)
    PROVE  CountInv'
<1>1. TypeOK /\ UNCHANGED <<up, tries, results, receive, log>>
  BY DEF Agreement, SrvPrepare, SrvDecided, SrvAbort, SrvFinish, SrvCancelled, appVars
<1>2. CASE serverQ' = serverQ
  <2>1. OrderInv'
    BY <1>2 DEF CountInv, OrderInv
  <2> QED BY <1>1, <1>2, <2>1, CountQuiet DEF UploadQueued, Queued
<1>3. ASSUME NEW e \in Events, serverQ' = Append(serverQ, e),
             \A t \in Sessions, f \in Files : e # FileUpload(t, f, 1),
             \A t \in Sessions : e = SessionEnd(t, "Finished") => Settled(t)
      PROVE  CountInv'
  <2>1. OrderInv'
    BY <1>1, <1>3, OrderAppend DEF CountInv
  <2>2. \A t \in Sessions, f \in Files : UploadQueued(t, f)' <=> UploadQueued(t, f)
    BY <1>1, <1>3, AppendedJoins DEF UploadQueued
  <2>3. \A t \in Sessions : (Queued(SessionEnd(t, "Finished")))' =>
                               Queued(SessionEnd(t, "Finished")) \/ Settled(t)
    BY <1>1, <1>3, AppendedJoins
  <2> QED BY <1>1, <2>1, <2>2, <2>3, CountQuiet
<1>4. ASSUME NEW d \in Senders, NEW fs \in SUBSET Files, NEW m \in BOOLEAN, SrvPrepare(s, d, fs, m)
      PROVE  CountInv'
  <2>1. /\ serverQ' = Append(serverQ, PrepareUpload(s)) /\ PrepareUpload(s) \in Events
        /\ \A t : PrepareUpload(s) # SessionEnd(t, "Finished")
    BY <1>4 DEF SrvPrepare, Events, PrepareUpload, SessionEnd
  <2> QED BY <1>3, <2>1, UploadsDiffer
<1>5. CASE SrvAbort(s)
  <2>1. /\ serverQ' = Append(serverQ, PrepareUploadAborted(s)) /\ PrepareUploadAborted(s) \in Events
        /\ \A t : PrepareUploadAborted(s) # SessionEnd(t, "Finished")
    BY <1>5 DEF SrvAbort, Events, PrepareUploadAborted, SessionEnd
  <2> QED BY <1>3, <2>1, UploadsDiffer
<1>6. CASE SrvCancelled(s)
  <2>1. /\ serverQ' = Append(serverQ, SessionEnd(s, "Cancelled")) /\ SessionEnd(s, "Cancelled") \in Events
        /\ \A t : SessionEnd(s, "Cancelled") # SessionEnd(t, "Finished")
    BY <1>6 DEF SrvCancelled, Events, SessionEnd, Reasons
  <2> QED BY <1>3, <2>1, UploadsDiffer
<1>7. CASE SrvFinish(s)
  <2>1. /\ serverQ' = Append(serverQ, SessionEnd(s, "Finished")) /\ SessionEnd(s, "Finished") \in Events
        /\ \A t : SessionEnd(s, "Finished") = SessionEnd(t, "Finished") => t = s
    BY <1>7 DEF SrvFinish, Events, SessionEnd, Reasons
  <2>2. Settled(s)
    <3>1. \A f \in Files : f \in offer[s].files => up[s][f] \in {"done", "failed"}
      BY <1>7 DEF SrvFinish
    <3> QED BY <3>1 DEF Settled, CountInv, UploadsInv
  <2> QED BY <1>3, <2>1, <2>2, UploadsDiffer
<1> QED BY <1>2, <1>4, <1>5, <1>6, <1>7 DEF SrvDecided

LEMMA CountNext ==
    ASSUME MaxAttempts <= 1, Agreement, CountInv, [Next]_vars
    PROVE  CountInv'
<1>1. Lasting
  BY StepsLast
<1>2. ASSUME NEW s \in Sessions, SrvStep(s)
      PROVE  CountInv'
  BY <1>1, <1>2, CountServer, CountUpload, CountUploadAborted, CountFileDone DEF SrvStep
<1>3. CASE HandleServerEvent
  <2>1. ASSUME NEW s \in Sessions, NEW f \in Files, NEW n \in 1..MaxAttempts,
               HandleForeignUpload(s, f, n) \/ HandleFileUpload(s, f, n)
        PROVE  CountInv'
    BY <1>1, <2>1, CountForeignUpload, CountFileUpload
  <2>2. ASSUME NEW s \in Sessions, HandlePrepareUpload(s) \/ HandleAborted(s)
        PROVE  CountInv'
    BY <1>1, <2>2, CountRequests
  <2>3. ASSUME NEW s \in Sessions, NEW reason \in Reasons, HandleSessionEnd(s, reason)
        PROVE  CountInv'
    BY <1>1, <2>3, CountSessionEnd
  <2> QED BY <1>3, <2>1, <2>2, <2>3 DEF HandleServerEvent
<1>4. ASSUME NEW r \in results, ReceiveFileResult(r)
      PROVE  CountInv'
  BY <1>1, <1>4, CountResult
<1>5. CASE User \/ (\E s \in Sessions : CancelTask(s)) \/ Terminated \/ UNCHANGED vars
  BY <1>1, <1>5, CountRequests
<1> QED BY <1>2, <1>3, <1>4, <1>5 DEF Next

\* As long as no file is sent twice, what the App counted is what happened.
THEOREM CountsAreTrue == Spec => [](MaxAttempts <= 1 => CountInv)
<1>1. Init => CountInv
  <2> SUFFICES ASSUME Init PROVE CountInv
    OBVIOUS
  <2>1. /\ UploadsInv /\ ResultsInv /\ OrderInv /\ FinishInv
    BY DEF Init, UploadsInv, ResultsInv, OrderInv, FinishInv, UploadQueued, Queued, Outstanding
  <2>2. ScreenInv /\ LogInv
    BY NoneAssumption DEF Init, ScreenInv, LogInv, NoReceive, NewSession, NoLine
  <2> QED BY <2>1, <2>2 DEF CountInv
<1>2. ASSUME Agreement, MaxAttempts <= 1 => CountInv, [Next]_vars
      PROVE  (MaxAttempts <= 1 => CountInv)'
  BY <1>2, CountNext
<1> QED BY <1>1, <1>2, AgreementHolds, PTL DEF Spec

\* SummaryCountsTrue: as long as no file is sent twice within a session, the
\* summary finish_receive_if_done prints tells how many of the files were
\* stored and how many failed, however the results, the uploads and the end
\* of the session race with each other and with cancellations.
THEOREM SummaryIsTrue ==
    ASSUME MaxAttempts <= 1
    PROVE  Spec => []SummaryCountsTrue
<1>1. (MaxAttempts <= 1 => CountInv) => SummaryCountsTrue
  BY DEF CountInv, LogInv, Final, SummaryCountsTrue, DoneFiles, FailedFiles
<1> QED BY <1>1, CountsAreTrue, PTL

\* The whole invariant of the receiving App, for any number of sessions.
THEOREM InvariantHolds == Spec => []Inv
<1>1. Agreement /\ (MaxAttempts <= 1 => CountInv) => Inv
  BY DEF Inv
<1> QED BY <1>1, AgreementHolds, CountsAreTrue, PTL
=============================================================================
