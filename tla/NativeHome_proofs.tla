-------------------------- MODULE NativeHome_proofs --------------------------
(***************************************************************************)
(* Proofs about NativeHome, for any devices, channels and files, and for   *)
(* any failures of the network.                                            *)
(***************************************************************************)
EXTENDS NativeHome, SequenceTheorems, TLAPS

USE ConstantAssumption

LEMMA InitInv == Init => Inv
BY DEF Init, Inv, TypeOK, IInv, StrandedByFailureOnly, SelectedIsListed, CallOwnsSession,
       Known, Idle, None

\* Nothing of the transfer changes.
LEMMA PageKeepsSessions ==
    ASSUME Inv, UNCHANGED <<call, todo, pending, fault>>
    PROVE  /\ StrandedByFailureOnly' /\ CallOwnsSession'
           /\ call' \in Calls \cup {Idle} /\ todo' \in SUBSET Paths
           /\ pending' \in [Devices -> SUBSET Paths] /\ fault' \in SUBSET Devices
BY DEF Inv, TypeOK, IInv, StrandedByFailureOnly, CallOwnsSession

LEMMA WorldInv ==
    ASSUME Inv, World
    PROVE  Inv'
<1> PICK d \in Devices : Move(d) \/ Find(d) \/ Forget(d) \/ PeerCancels(d)
  BY DEF World
<1>0. UNCHANGED pageVars /\ SelectedIsListed'
  BY DEF Inv, IInv, SelectedIsListed, Move, Find, Forget, PeerCancels, pageVars
<1>1. CASE Move(d)
  <2>1. where' \in [Devices -> Known]
    BY <1>1 DEF Move, Inv, TypeOK
  <2> QED BY <1>0, <1>1, <2>1, PageKeepsSessions DEF Move, Inv, TypeOK, IInv, pageVars
<1>2. CASE Find(d)
  <2>1. store' \in [Devices -> Known]
    BY <1>2 DEF Find, Inv, TypeOK
  <2>2. events' \in Seq({"discovered", "updated"})
    BY <1>2, AppendProperties DEF Find, Inv, TypeOK
  <2> QED BY <1>0, <1>2, <2>1, <2>2, PageKeepsSessions DEF Find, Inv, TypeOK, IInv, pageVars
<1>3. CASE Forget(d)
  <2>1. store' \in [Devices -> Known]
    BY <1>3 DEF Forget, Inv, TypeOK, Known
  <2> QED BY <1>0, <1>3, <2>1, PageKeepsSessions DEF Forget, Inv, TypeOK, IInv, pageVars
<1>4. CASE PeerCancels(d)
  <2>1. /\ pending' \in [Devices -> SUBSET Paths] /\ fault' \in SUBSET Devices
        /\ \A e \in Devices : pending'[e] = IF e = d THEN {} ELSE pending[e]
    BY <1>4 DEF PeerCancels, Inv, TypeOK
  <2>2. StrandedByFailureOnly'
    BY <1>4, <2>1 DEF PeerCancels, Inv, IInv, StrandedByFailureOnly
  <2>3. CallOwnsSession'
    <3> SUFFICES ASSUME call.step = "upload"
                 PROVE  call.peer \in fault' \/ pending'[call.peer] \subseteq todo
      BY <1>4 DEF PeerCancels, CallOwnsSession
    <3>1. call.peer \in Devices
      BY DEF Inv, TypeOK, Calls, Idle
    <3>2. call.peer \in fault \/ pending[call.peer] \subseteq todo
      BY DEF Inv, IInv, CallOwnsSession
    <3> QED BY <1>4, <2>1, <3>1, <3>2 DEF PeerCancels
  <2> QED BY <1>0, <1>4, <2>1, <2>2, <2>3
          DEF PeerCancels, Inv, TypeOK, IInv, pageVars, worldVars
<1> QED BY <1>1, <1>2, <1>3, <1>4

LEMMA RefreshDrops ==
    ASSUME Inv, RefreshDevices
    PROVE  /\ items' \in [Devices -> Known] /\ selected' \in Item \cup {None}
           /\ SelectedIsListed'
BY DEF RefreshDevices, Inv, TypeOK, SelectedIsListed

LEMMA PageInv ==
    ASSUME Inv, EventTask \/ Page
    PROVE  Inv'
<1>1. CASE EventTask
  <2>1. events' \in Seq({"discovered", "updated"})
    BY <1>1, HeadTailProperties DEF EventTask, Inv, TypeOK
  <2>2. posted' \in Seq({"refresh"})
    BY <1>1, AppendProperties DEF EventTask, OnDiscoveryEvent, Inv, TypeOK
  <2>3. SelectedIsListed'
    BY <1>1 DEF EventTask, Inv, IInv, SelectedIsListed
  <2> QED BY <1>1, <2>1, <2>2, <2>3, PageKeepsSessions
          DEF EventTask, Inv, TypeOK, IInv, worldVars
<1>2. CASE RunPosted
  <2>1. posted' \in Seq({"refresh"})
    BY <1>2, HeadTailProperties DEF RunPosted, Inv, TypeOK
  <2> QED BY <1>2, <2>1, RefreshDrops, PageKeepsSessions
          DEF RunPosted, Inv, TypeOK, IInv, worldVars
<1>3. CASE Refresh
  BY <1>3, RefreshDrops, PageKeepsSessions DEF Refresh, Inv, TypeOK, IInv, worldVars
<1>4. CASE \E d \in Devices : Select(d)
  <2>1. selected' \in Item /\ SelectedIsListed'
    BY <1>4 DEF Select, Inv, TypeOK, Item, Known, SelectedIsListed
  <2> QED BY <1>4, <2>1, PageKeepsSessions DEF Select, Inv, TypeOK, IInv, worldVars
<1>5. CASE \E paths \in SUBSET Paths \ {{}} : Send(paths)
  <2>1. call' \in Calls /\ call'.step = "prepare" /\ call'.peer = NoDevice
    BY <1>5 DEF Send, Inv, TypeOK, Item, None, Calls
  <2>2. call.peer = NoDevice
    BY <1>5 DEF Send, UiFree, Idle
  <2>3. StrandedByFailureOnly' /\ CallOwnsSession' /\ SelectedIsListed'
    BY <1>5, <2>1, <2>2 DEF Send, Inv, IInv, StrandedByFailureOnly, CallOwnsSession,
                            SelectedIsListed, pageVars
  <2> QED BY <1>5, <2>1, <2>3 DEF Send, Inv, TypeOK, IInv, worldVars, pageVars
<1> QED BY <1>1, <1>2, <1>3, <1>4, <1>5 DEF Page

\* A call that is over has left nothing behind that no failure explains.
LEMMA ReturnInv ==
    ASSUME Inv, Return, fault \subseteq fault', fault' \in SUBSET Devices,
           UNCHANGED <<events, pending>>, UNCHANGED worldVars, UNCHANGED pageVars,
           call.step = "upload" =>
               call.peer \in fault' \/ pending[call.peer] = {}
    PROVE  Inv'
<1>1. call' = Idle /\ todo' = {} /\ Idle.peer = NoDevice /\ Idle.step = "none"
  BY DEF Return, Idle
<1>2. ASSUME NEW d \in Devices, pending[d] # {} PROVE d \in fault'
  <2>1. call.step # "upload" => d # call.peer
    BY DEF Inv, TypeOK, Calls, Idle
  <2> QED BY <1>2, <2>1 DEF Inv, IInv, StrandedByFailureOnly
<1>3. StrandedByFailureOnly' /\ CallOwnsSession' /\ SelectedIsListed'
  BY <1>1, <1>2 DEF Inv, IInv, StrandedByFailureOnly, CallOwnsSession, SelectedIsListed,
                    pageVars
<1> QED BY <1>1, <1>3 DEF Inv, TypeOK, IInv, worldVars, pageVars

LEMMA PrepareInv ==
    ASSUME Inv, Prepare, UNCHANGED events, UNCHANGED worldVars, UNCHANGED pageVars
    PROVE  Inv'
<1>0. /\ call.step = "prepare" /\ call.peer = NoDevice /\ call.paths \in SUBSET Paths
      /\ call.channel \in Channels /\ call \in Calls
  BY DEF Prepare, Inv, TypeOK, Calls, Idle
<1>1. CASE Return /\ UNCHANGED <<pending, fault>>
  BY <1>0, <1>1, ReturnInv DEF Inv, TypeOK
<1>2. ASSUME NEW p \in Devices, NEW S \in SUBSET call.paths \ {{}}, Return, pending[p] = {},
             pending' = [pending EXCEPT ![p] = S], fault' = fault \cup {p}
      PROVE  Inv'
  <2>1. call' = Idle /\ todo' = {} /\ Idle.peer = NoDevice /\ Idle.step = "none"
    BY <1>2 DEF Return, Idle
  <2>2. pending' \in [Devices -> SUBSET Paths] /\ fault' \in SUBSET Devices
    BY <1>0, <1>2 DEF Inv, TypeOK
  <2>3. StrandedByFailureOnly'
    BY <1>0, <1>2, <2>1 DEF Inv, TypeOK, IInv, StrandedByFailureOnly
  <2>4. CallOwnsSession' /\ SelectedIsListed'
    BY <2>1 DEF Inv, IInv, CallOwnsSession, SelectedIsListed, pageVars
  <2> QED BY <2>1, <2>2, <2>3, <2>4 DEF Inv, TypeOK, IInv, worldVars, pageVars
<1>3. ASSUME NEW p \in Devices, NEW S \in SUBSET call.paths \ {{}}, PrepareAccepted(p, S)
      PROVE  Inv'
  <2>1. call' \in Calls /\ call'.step = "upload" /\ call'.peer = p
    BY <1>0, <1>3 DEF PrepareAccepted, Calls
  <2>2. /\ pending' \in [Devices -> SUBSET Paths] /\ fault' \in SUBSET Devices
        /\ todo' \in SUBSET Paths /\ pending'[p] = todo'
    BY <1>0, <1>3 DEF PrepareAccepted, Inv, TypeOK
  <2>3. StrandedByFailureOnly'
    BY <1>0, <1>3, <2>1 DEF PrepareAccepted, Inv, TypeOK, IInv, StrandedByFailureOnly
  <2>4. CallOwnsSession' /\ SelectedIsListed'
    BY <2>1, <2>2 DEF Inv, IInv, CallOwnsSession, SelectedIsListed, pageVars
  <2> QED BY <2>1, <2>2, <2>3, <2>4 DEF Inv, TypeOK, IInv, worldVars, pageVars
<1> QED BY <1>1, <1>2, <1>3 DEF Prepare, PrepareFails, PrepareRefused

LEMMA UploadInv ==
    ASSUME Inv, Upload, UNCHANGED events, UNCHANGED worldVars, UNCHANGED pageVars
    PROVE  Inv'
<1>0. /\ call.step = "upload" /\ call.peer \in Devices /\ call \in Calls
      /\ call.peer \in fault \/ pending[call.peer] \subseteq todo
  BY DEF Upload, Inv, TypeOK, IInv, CallOwnsSession, Calls, Idle
<1>1. CASE todo = {} /\ Return /\ UNCHANGED <<pending, fault>>
  BY <1>0, <1>1, ReturnInv DEF Inv, TypeOK
<1>2. ASSUME NEW f \in todo, Refused(f) PROVE Inv'
  <2>1. /\ fault \subseteq fault' /\ fault' \in SUBSET Devices
        /\ call.peer \in fault' \/ pending[call.peer] = {}
    BY <1>0, <1>2 DEF Refused, Failed, Inv, TypeOK
  <2> QED BY <1>2, <2>1, ReturnInv DEF Refused
<1>3. ASSUME NEW f \in todo, Delivered(f) PROVE Inv'
  <2>1. /\ pending' \in [Devices -> SUBSET Paths] /\ todo' \in SUBSET Paths
        /\ pending'[call.peer] = pending[call.peer] \ {f} /\ todo' = todo \ {f}
        /\ \A d \in Devices : d # call.peer => pending'[d] = pending[d]
    BY <1>0, <1>3 DEF Delivered, Inv, TypeOK
  <2>2. StrandedByFailureOnly'
    BY <1>3, <2>1 DEF Delivered, Inv, IInv, StrandedByFailureOnly
  <2>3. CallOwnsSession' /\ SelectedIsListed'
    BY <1>0, <1>3, <2>1 DEF Delivered, Inv, IInv, CallOwnsSession, SelectedIsListed, pageVars
  <2> QED BY <1>0, <1>3, <2>1, <2>2, <2>3 DEF Delivered, Inv, TypeOK, IInv, worldVars, pageVars
<1>4. ASSUME NEW f \in todo, Lost(f) PROVE Inv'
  <2>1. /\ fault \subseteq fault' /\ fault' \in SUBSET Devices /\ todo' \in SUBSET Paths
        /\ call.peer \in fault' \/ pending[call.peer] = {}
    BY <1>0, <1>4 DEF Lost, Failed, Inv, TypeOK
  <2>2. StrandedByFailureOnly'
    BY <1>4, <2>1 DEF Lost, Inv, IInv, StrandedByFailureOnly
  <2>3. CallOwnsSession' /\ SelectedIsListed'
    BY <1>4, <2>1 DEF Lost, Inv, IInv, CallOwnsSession, SelectedIsListed, pageVars
  <2> QED BY <1>0, <1>4, <2>1, <2>2, <2>3 DEF Lost, Inv, TypeOK, IInv, worldVars, pageVars
<1> QED BY <1>1, <1>2, <1>3, <1>4 DEF Upload

LEMMA NextInv ==
    ASSUME Inv, [Next]_vars
    PROVE  Inv'
<1>1. CASE Call
  BY <1>1, PrepareInv, UploadInv DEF Call
<1>2. CASE UNCHANGED vars
  BY <1>2 DEF vars, Inv, TypeOK, IInv, StrandedByFailureOnly, SelectedIsListed, CallOwnsSession
<1> QED BY <1>1, <1>2, WorldInv, PageInv DEF Next

(***************************************************************************)
(* The theorems.                                                           *)
(***************************************************************************)
\* Types and the inductive invariant hold in every reachable state.
THEOREM InductiveInvariant == Spec => []Inv
<1>1. Init => Inv
  BY InitInv
<1>2. Inv /\ [Next]_vars => Inv'
  BY NextInv
<1> QED BY <1>1, <1>2, PTL DEF Spec

\* A session is left open at a receiver only after a failure.
THEOREM StrandedByFailure == Spec => []StrandedByFailureOnly
<1>1. Inv => StrandedByFailureOnly
  BY DEF Inv, IInv
<1> QED BY <1>1, InductiveInvariant, PTL

\* The address that is sent to is the one in the list.
THEOREM SelectionIsCurrent == Spec => []SelectedIsListed
<1>1. Inv => SelectedIsListed
  BY DEF Inv, IInv
<1> QED BY <1>1, InductiveInvariant, PTL
=============================================================================
