-------------------------- MODULE CliWebLink_proofs --------------------------
(***************************************************************************)
(* Proofs about CliWebLink, for any number of requests, of shared files    *)
(* and of restarts, any of which may fail.                                 *)
(***************************************************************************)
EXTENDS CliWebLink, TLAPS

(***************************************************************************)
(* The ids of shared files.                                                *)
(***************************************************************************)
IdsInv == IdsAreFresh /\ OneFileAnId

\* collect_files gives ids that are known nowhere, one to a file.
LEMMA ListedFacts ==
    ASSUME TypeOK, NEW n \in 1..MaxPicked, NEW picked \in [1..n -> Files]
    PROVE  /\ fresh + n \in Nat
           /\ Listed(n, picked) \subseteq Nat \X Files
           /\ \A p \in Listed(n, picked) : fresh < p[1] /\ p[1] <= fresh + n
           /\ \A p, q \in Listed(n, picked) : p[1] = q[1] => p[2] = q[2]
<1>1. fresh \in Nat /\ n \in Nat
  BY BoundAssumption DEF TypeOK
<1>2. \A i \in 1..n : fresh + i \in Nat /\ fresh < fresh + i /\ fresh + i <= fresh + n
  BY <1>1
<1>3. ASSUME NEW p \in Listed(n, picked)
      PROVE  \E i \in 1..n : p = <<fresh + i, picked[i]>>
  BY DEF Listed
<1>4. \A p \in Listed(n, picked) : /\ p \in Nat \X Files
                                   /\ fresh < p[1] /\ p[1] <= fresh + n
  BY <1>2, <1>3
<1>5. ASSUME NEW p \in Listed(n, picked), NEW q \in Listed(n, picked), p[1] = q[1]
      PROVE  p[2] = q[2]
  <2>1. PICK i \in 1..n : p = <<fresh + i, picked[i]>>
    BY <1>3
  <2>2. PICK j \in 1..n : q = <<fresh + j, picked[j]>>
    BY <1>3
  <2>3. fresh + i = fresh + j
    BY <1>5, <2>1, <2>2
  <2>4. i = j
    BY <1>1, <2>3
  <2> QED BY <2>1, <2>2, <2>4
<1> QED BY <1>1, <1>4, <1>5

\* What is known of ids may be forgotten, or be told once more.
LEMMA LessKnown ==
    ASSUME IdsInv, KnownIds' \subseteq KnownIds, UNCHANGED fresh
    PROVE  IdsInv'
BY DEF IdsInv, IdsAreFresh, OneFileAnId

\* A new share's ids are told from those of every earlier one, of which a
\* request may still be waiting; also when the share is given up, because the
\* server did not start.
LEMMA ShareKnown ==
    ASSUME TypeOK, IdsInv, NEW n \in 1..MaxPicked, NEW picked \in [1..n -> Files],
           KnownIds' \subseteq KnownIds \cup Listed(n, picked), fresh' = fresh + n
    PROVE  IdsInv'
<1> USE DEF IdsInv, IdsAreFresh, OneFileAnId
<1>1. fresh \in Nat /\ n \in Nat
  BY BoundAssumption DEF TypeOK
<1>2. \A p \in KnownIds \cup Listed(n, picked) : p[1] \in Nat
  BY ListedFacts DEF TypeOK, KnownIds
<1>3. \A p \in KnownIds' : p[1] <= fresh + n
  <2>1. \A k \in Nat : k <= fresh => k <= fresh + n
    BY <1>1
  <2> QED BY <1>2, <2>1, ListedFacts
<1>4. ASSUME NEW p \in KnownIds, NEW q \in Listed(n, picked)
      PROVE  p[1] # q[1]
  <2>1. p[1] <= fresh /\ fresh < q[1] /\ p[1] \in Nat /\ q[1] \in Nat
    BY <1>2, ListedFacts
  <2> QED BY <1>1, <2>1
<1>5. \A p, q \in KnownIds \cup Listed(n, picked) : p[1] = q[1] => p[2] = q[2]
  BY <1>4, ListedFacts
<1> QED BY <1>3, <1>5

\* What enable_web_share leaves behind.
LEMMA EnableKeeps ==
    ASSUME TypeOK, IInv, EnableWebShare, UNCHANGED <<downloads, served>>
    PROVE  /\ web'    \in {"none", "share", "receive"}
           /\ server' \in {"encrypted", "upload", "download", "down"}
           /\ gen'    \in Starts /\ fresh' \in Nat
           /\ page'   \subseteq Nat \X Files /\ paths' \subseteq Nat \X Files
           /\ IdsAreFresh' /\ OneFileAnId'
<1>1. \A n \in Nat : n < MaxStarts => n + 1 \in Starts
  BY BoundAssumption DEF Starts
<1>2. gen \in Nat /\ gen + 1 \in Nat /\ IdsInv
  BY BoundAssumption DEF TypeOK, Starts, IInv, IdsInv
<1>3. CASE UNCHANGED <<web, server, gen, page, paths, fresh>>
  BY <1>3 DEF TypeOK, IInv, IdsAreFresh, OneFileAnId, KnownIds
<1>4. ASSUME NEW n \in 1..MaxPicked, NEW picked \in [1..n -> Files],
             RestartPlain("download", "share", Listed(n, picked)), fresh' = fresh + n
      PROVE  /\ web'    \in {"none", "share", "receive"}
             /\ server' \in {"encrypted", "upload", "download", "down"}
             /\ gen'    \in Starts /\ fresh' \in Nat
             /\ page'   \subseteq Nat \X Files /\ paths' \subseteq Nat \X Files
             /\ IdsInv'
  <2>1. /\ web'    \in {"none", "share", "receive"}
        /\ server' \in {"encrypted", "upload", "download", "down"}
    BY <1>4 DEF RestartPlain, Restart, TypeOK
  <2>2. gen' \in Starts
    BY <1>1, <1>2, <1>4 DEF RestartPlain, Restart
  <2>3. page' \in {{}, Listed(n, picked)} /\ paths' \in {paths, Listed(n, picked)}
    BY <1>4 DEF RestartPlain, Restart
  <2>4. fresh' \in Nat
    BY <1>4, ListedFacts
  <2>5. page' \subseteq Nat \X Files /\ paths' \subseteq Nat \X Files
    BY <2>3, ListedFacts DEF TypeOK
  <2>6. KnownIds' \subseteq KnownIds \cup Listed(n, picked)
    BY <2>3 DEF KnownIds
  <2>7. IdsInv'
    BY <1>2, <1>4, <2>6, ShareKnown
  <2> QED BY <2>1, <2>2, <2>4, <2>5, <2>7
<1> QED BY <1>3, <1>4 DEF EnableWebShare, IdsInv

(***************************************************************************)
(* Every key, every event and every stuttering step keeps TypeOK and IInv. *)
(***************************************************************************)
\* What the switches of a link share: types and ids when no file is new.
LEMMA NoNewFiles ==
    ASSUME TypeOK, IInv, page' \subseteq page, paths' \subseteq paths,
           downloads' \subseteq downloads \cup page, UNCHANGED fresh
    PROVE  /\ page' \subseteq Nat \X Files /\ paths' \subseteq Nat \X Files
           /\ downloads' \subseteq Nat \X Files /\ fresh' \in Nat
           /\ IdsAreFresh' /\ OneFileAnId'
<1>1. KnownIds' \subseteq KnownIds
  BY DEF KnownIds
<1>2. IdsInv'
  BY <1>1, LessKnown DEF IInv, IdsInv
<1> QED BY <1>2 DEF TypeOK, IdsInv

LEMMA KeySteps ==
    ASSUME TypeOK, IInv, Key
    PROVE  TypeOK' /\ IInv'
<1>0. /\ \A n \in Nat : n < MaxStarts => n + 1 \in Starts
      /\ gen \in Nat /\ gen + 1 \in Nat
  BY BoundAssumption DEF TypeOK, Starts
<1>1. ASSUME DisableWeb, UNCHANGED <<picker, fileVars, reqVars>>
      PROVE  TypeOK' /\ IInv'
  <2>1. gen' \in Starts
    BY <1>0, <1>1 DEF DisableWeb, Restart
  <2>2. TypeOK'
    BY <1>1, <2>1 DEF DisableWeb, Restart, TypeOK, fileVars, reqVars
  <2>3. IdsAreFresh' /\ OneFileAnId'
    <3>1. KnownIds' \subseteq KnownIds /\ UNCHANGED fresh
      BY <1>1 DEF DisableWeb, Restart, KnownIds, fileVars
    <3> QED BY <3>1, LessKnown DEF IInv, IdsInv
  <2> QED BY <1>1, <2>2, <2>3 DEF DisableWeb, Restart, IInv, ServerMatchesLink,
             PickerMeansNoLink, SentAsListed, fileVars
<1>2. ASSUME EnableWebShare, web = "none", picker' = FALSE, UNCHANGED <<fileVars, reqVars>>
      PROVE  TypeOK' /\ IInv'
  <2>1. UNCHANGED <<downloads, served>>
    BY <1>2 DEF fileVars
  <2>2. TypeOK'
    BY <1>2, <2>1, EnableKeeps DEF TypeOK, reqVars
  <2>3. ServerMatchesLink'
    BY <1>2 DEF EnableWebShare, RestartPlain, Restart, IInv, ServerMatchesLink
  <2> QED BY <1>2, <2>1, <2>2, <2>3, EnableKeeps DEF IInv, PickerMeansNoLink, SentAsListed
<1>3. ASSUME RestartPlain("upload", "receive", {}), web = "none", ~picker,
             UNCHANGED <<picker, fresh, fileVars, reqVars>>
      PROVE  TypeOK' /\ IInv'
  <2>1. gen' \in Starts
    BY <1>0, <1>3 DEF RestartPlain, Restart
  <2>2. TypeOK'
    BY <1>3, <2>1 DEF RestartPlain, Restart, TypeOK, fileVars, reqVars
  <2>3. IdsAreFresh' /\ OneFileAnId'
    <3>1. KnownIds' \subseteq KnownIds /\ UNCHANGED fresh
      BY <1>3 DEF RestartPlain, Restart, KnownIds, fileVars
    <3> QED BY <3>1, LessKnown DEF IInv, IdsInv
  <2>4. ServerMatchesLink'
    BY <1>3 DEF RestartPlain, Restart, IInv, ServerMatchesLink
  <2> QED BY <1>3, <2>2, <2>3, <2>4 DEF IInv, PickerMeansNoLink, SentAsListed, fileVars
<1>4. ASSUME UNCHANGED <<web, server, gen, page, paths, fresh, fileVars, reqVars>>,
             picker' \in BOOLEAN, picker' => web = "none"
      PROVE  TypeOK' /\ IInv'
  <2>1. TypeOK'
    BY <1>4 DEF TypeOK, fileVars, reqVars
  <2> QED BY <1>4, <2>1 DEF IInv, ServerMatchesLink, PickerMeansNoLink, IdsAreFresh,
             OneFileAnId, KnownIds, SentAsListed, fileVars
<1>5. CASE ToggleWebShare
  <2>1. CASE web = "share" /\ DisableWeb /\ UNCHANGED picker
    BY <1>1, <1>5, <2>1 DEF ToggleWebShare
  <2>2. CASE web = "none" /\ FileMode
    BY <1>2, <1>5, <2>2 DEF ToggleWebShare, TypeOK
  <2>3. CASE web = "none" /\ ~FileMode
    BY <1>4, <1>5, <2>3 DEF ToggleWebShare
  <2> QED BY <1>5, <2>1, <2>2, <2>3 DEF ToggleWebShare
<1>6. CASE Picked
  BY <1>2, <1>6 DEF Picked, IInv, PickerMeansNoLink
<1>7. CASE PickerCancelled
  BY <1>4, <1>7 DEF PickerCancelled
<1>8. CASE ToggleWebReceive
  <2>1. CASE DisableWeb
    BY <1>1, <1>8, <2>1 DEF ToggleWebReceive
  <2>2. CASE web = "none" /\ RestartPlain("upload", "receive", {}) /\ UNCHANGED fresh
    BY <1>3, <1>8, <2>2 DEF ToggleWebReceive
  <2> QED BY <1>8, <2>1, <2>2 DEF ToggleWebReceive
<1>9. ASSUME NEW r \in Requests, NEW pair \in BOOLEAN, Answer(r, pair)
      PROVE  TypeOK' /\ IInv'
  <2>1. TypeOK'
    BY <1>9 DEF Answer, linkVars, fileVars, TypeOK
  <2> QED BY <1>9, <2>1 DEF Answer, linkVars, fileVars, IInv, ServerMatchesLink,
             PickerMeansNoLink, IdsAreFresh, OneFileAnId, KnownIds, SentAsListed
<1> QED BY <1>5, <1>6, <1>7, <1>8, <1>9 DEF Key

LEMMA EventSteps ==
    ASSUME TypeOK, IInv, Event
    PROVE  TypeOK' /\ IInv'
<1>1. ASSUME UNCHANGED <<linkVars, fileVars>>
      PROVE  IInv'
  BY <1>1 DEF linkVars, fileVars, IInv, ServerMatchesLink, PickerMeansNoLink,
              IdsAreFresh, OneFileAnId, KnownIds, SentAsListed
<1>2. ASSUME NEW r \in Requests, Arrive(r)
      PROVE  TypeOK' /\ IInv'
  BY <1>1, <1>2 DEF Arrive, TypeOK, linkVars, fileVars
<1>3. ASSUME NEW r \in Requests, HandlePrepareUpload(r)
      PROVE  TypeOK' /\ IInv'
  BY <1>1, <1>3 DEF HandlePrepareUpload, TypeOK, linkVars, fileVars
<1>4. ASSUME NEW r \in Requests, HandleOver(r)
      PROVE  TypeOK' /\ IInv'
  BY <1>1, <1>4 DEF HandleOver, TypeOK, linkVars, fileVars
<1>5. CASE ListenerFailed
  <2>1. TypeOK'
    BY <1>5 DEF ListenerFailed, TypeOK, fileVars, reqVars
  <2> QED BY <1>5, <2>1 DEF ListenerFailed, fileVars, IInv, ServerMatchesLink,
             PickerMeansNoLink, IdsAreFresh, OneFileAnId, KnownIds, SentAsListed
<1>6. CASE Download
  <2>1. /\ UNCHANGED <<linkVars, reqVars, served>>
        /\ downloads' \subseteq downloads \cup page
    BY <1>6 DEF Download
  <2>2. UNCHANGED <<page, paths, fresh>>
    BY <2>1 DEF linkVars
  <2>3. downloads' \subseteq Nat \X Files /\ IdsAreFresh' /\ OneFileAnId'
    BY <2>1, <2>2, NoNewFiles
  <2>4. TypeOK'
    BY <2>1, <2>3 DEF TypeOK, linkVars, reqVars
  <2> QED BY <2>1, <2>3, <2>4 DEF linkVars, IInv, ServerMatchesLink, PickerMeansNoLink,
             SentAsListed
<1>7. ASSUME NEW d \in downloads, HandleFileDownload(d)
      PROVE  TypeOK' /\ IInv'
  <2>1. /\ UNCHANGED <<linkVars, reqVars>>
        /\ downloads' \subseteq downloads \cup page
    BY <1>7 DEF HandleFileDownload
  <2>2. UNCHANGED <<page, paths, fresh>>
    BY <2>1 DEF linkVars
  <2>3. downloads' \subseteq Nat \X Files /\ IdsAreFresh' /\ OneFileAnId'
    BY <2>1, <2>2, NoNewFiles
  <2>4. ASSUME NEW e \in served', e \notin served
        PROVE  e \in Files \X Files /\ e[1] = e[2]
    <3>1. PICK p \in paths : p[1] = d[1] /\ e = <<d[2], p[2]>>
      BY <1>7, <2>4 DEF HandleFileDownload
    <3>2. p \in KnownIds /\ d \in KnownIds
      BY <3>1 DEF KnownIds
    <3>3. p[2] = d[2]
      BY <3>1, <3>2 DEF IInv, OneFileAnId
    <3>4. d[2] \in Files
      BY DEF TypeOK
    <3> QED BY <3>1, <3>3, <3>4
  <2>5. served' \subseteq Files \X Files /\ SentAsListed'
    BY <2>4 DEF TypeOK, IInv, SentAsListed
  <2>6. TypeOK'
    BY <2>1, <2>3, <2>5 DEF TypeOK, linkVars, reqVars
  <2> QED BY <2>1, <2>3, <2>5, <2>6 DEF linkVars, IInv, ServerMatchesLink, PickerMeansNoLink
<1> QED BY <1>2, <1>3, <1>4, <1>5, <1>6, <1>7 DEF Event

\* The type invariant and the inductive invariant hold in every reachable
\* state.
THEOREM InductiveInvariant == Spec => [](TypeOK /\ IInv)
<1>1. ASSUME Init
      PROVE  TypeOK /\ IInv
  <2>1. 1 \in Starts
    BY BoundAssumption DEF Starts
  <2>2. TypeOK
    BY <1>1, <2>1 DEF Init, TypeOK
  <2> QED BY <1>1, <2>2 DEF Init, IInv, ServerMatchesLink, PickerMeansNoLink,
             IdsAreFresh, OneFileAnId, KnownIds, SentAsListed
<1>2. TypeOK /\ IInv /\ [Next]_vars => TypeOK' /\ IInv'
  <2>1. ASSUME TypeOK, IInv, UNCHANGED vars
        PROVE  TypeOK' /\ IInv'
    BY <2>1 DEF vars, TypeOK, IInv, ServerMatchesLink, PickerMeansNoLink,
                IdsAreFresh, OneFileAnId, KnownIds, SentAsListed
  <2> QED BY <2>1, KeySteps, EventSteps DEF Next
<1> QED BY <1>1, <1>2, PTL DEF Spec

\* Plain HTTP is served behind a link and only there, and behind a link
\* nothing else is: also after any sequence of failed restarts.
THEOREM LinkIsHonest == Spec => []ServerMatchesLink
<1>1. IInv => ServerMatchesLink
  BY DEF IInv
<1> QED BY <1>1, InductiveInvariant, PTL

\* No browser is sent another file than the one its page named: the lookup in
\* App.web, which does not say of which share an id is, is enough because the
\* ids of all shares, pages and waiting requests are told apart.
THEOREM NoStaleShare == Spec => []SentAsListed
<1>1. IInv => SentAsListed
  BY DEF IInv
<1> QED BY <1>1, InductiveInvariant, PTL

\* A link is switched on only when none is: because the picker takes every
\* key, the check made before it opened still holds when it closes.
THEOREM OneLink == Spec => OneLinkAtATime
<1>1. TypeOK /\ IInv /\ [Next]_vars =>
          [web # "none" /\ web' # web => web' = "none"]_web
  <2> SUFFICES ASSUME IInv, [Next]_vars, web # "none", web' # web
               PROVE  web' = "none"
    OBVIOUS
  <2>1. CASE Key
    BY <2>1 DEF Key, ToggleWebShare, Picked, PickerCancelled, ToggleWebReceive,
                Answer, EnableWebShare, DisableWeb, RestartPlain, linkVars,
                IInv, PickerMeansNoLink
  <2>2. CASE Event
    BY <2>2 DEF Event, Arrive, HandlePrepareUpload, HandleOver, ListenerFailed,
                Download, HandleFileDownload, linkVars
  <2>3. CASE UNCHANGED vars
    BY <2>3 DEF vars
  <2> QED BY <2>1, <2>2, <2>3 DEF Next
<1> QED BY <1>1, InductiveInvariant, PTL DEF Spec, OneLinkAtATime

\* The whole invariant of the links, for any number of requests.
THEOREM InvariantHolds == Spec => []Inv
<1>1. TypeOK /\ IInv => Inv
  BY DEF Inv
<1> QED BY <1>1, InductiveInvariant, PTL
=============================================================================
