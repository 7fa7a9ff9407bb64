------------------------- MODULE ModelManagerProofs -------------------------
(***************************************************************************)
(* Proofs about ModelManager, for any updaters, readers, addresses and     *)
(* number of files mapped.                                                 *)
(***************************************************************************)
EXTENDS ModelManager, FiniteSetTheorems, TLAPS

-----------------------------------------------------------------------------
(* The inductive invariant, part by part.                                  *)

\* Updaters map and swap, readers infer; both reclaim.  A destroyed manager is idle.
Places ==
  /\ \A u \in Updaters : pc[u] \in {"idle", "mapped", "reclaim", "unmap"}
  /\ \A r \in Readers : pc[r] \in {"idle", "reclaim", "unmap", "begun", "infer", "last"}
  /\ \A t \in Threads : ~alive => pc[t] = "idle"

\* The holder of mu_ is the one thread between its swap and the release.
Locked == \A t \in Threads : pc[t] \in {"reclaim", "unmap"} <=> mu = t

\* A region is in the hands of an updater from the mapping to the publication.
Fresh == \A u \in Updaters : fresh[u] # NoRegion <=> pc[u] = "mapped"

\* The regions of the roles are different ones, ...
Roles == {staged, activeRegion, previousRegion} \cup retired

Apart ==
  /\ \A u, w \in Updaters : fresh[u] # NoRegion /\ fresh[u] = fresh[w] => u = w
  /\ \A u \in Updaters : fresh[u] # NoRegion => fresh[u] \notin Roles
  /\ staged # NoRegion => staged \notin {activeRegion, previousRegion} \cup retired
  /\ activeRegion # NoRegion => activeRegion \notin {previousRegion} \cup retired
  /\ previousRegion # NoRegion => previousRegion \notin retired

\* ... and they are what is mapped.
Covered ==
  \A a \in Addresses : mapped[a] # 0 <=> a \in Roles \/ \E u \in Updaters : fresh[u] = a

\* inFlight_ counts the readers inside the bracket.
Working == {r \in Readers : pc[r] \in {"begun", "infer"}}
Counted == inFlight = Cardinality(Working)

OwnershipInv == TypeOK /\ Places /\ Locked /\ Fresh /\ Counted /\ Apart /\ Covered

\* While a thread unmaps, no reader has a model: it would need mu_ to get one.
NobodyReads == \A t \in Threads, r \in Readers : pc[t] = "unmap" => pc[r] # "infer"

\* The region a reader took is still held by a role that no updater unmaps at once.
ReadersHold ==
  \A r \in Readers :
    pc[r] = "infer" /\ handle[r] # NoHandle =>
      /\ handle[r].data \in {activeRegion, previousRegion} \cup retired
      /\ found[r] # 0 /\ mapped[handle[r].data] = found[r]

ServedInv == NobodyReads /\ ReadersHold /\ HandlesMatchRegions

-----------------------------------------------------------------------------
(* Lemmas.                                                                 *)

(* Who updates does not infer, and a thread does one of the two.           *)
LEMMA TwoKinds ==
  /\ \A u \in Updaters : u \in Threads /\ u \notin Readers
  /\ \A r \in Readers : r \in Threads /\ r \notin Updaters
BY ModelAssumption DEF Threads

(* The readers inside the bracket are finitely many.                       *)
LEMMA WorkingFinite == IsFiniteSet(Working) /\ Cardinality(Working) \in Nat
<1>1. Working \in SUBSET Readers
  BY DEF Working
<1>2. QED
  BY <1>1, ModelAssumption, FS_Subset, FS_CardinalityType

(* The count grows by the reader that enters the bracket.                  *)
LEMMA WorkingEnter ==
  ASSUME NEW r \in Readers, r \notin Working, Working' = Working \cup {r}, Counted,
         inFlight' = inFlight + 1
  PROVE  Counted'
BY WorkingFinite, FS_AddElement DEF Counted

(* It shrinks by the one that leaves it.                                   *)
LEMMA WorkingLeave ==
  ASSUME NEW r \in Readers, r \in Working, Working' = Working \ {r}, Counted,
         inFlight' = inFlight - 1
  PROVE  Counted'
BY WorkingFinite, FS_RemoveElement DEF Counted

(* A step that changes no region, no mapping and no fresh one.             *)
LEMMA SameOwners ==
  ASSUME Apart, Covered, UNCHANGED <<mapped, regionVars, fresh>>
  PROVE  Apart' /\ Covered'
BY DEF Apart, Covered, Roles, regionVars

(* The initial state satisfies every part.                                  *)
LEMMA OwnershipInit == Init => OwnershipInv
<1> SUFFICES ASSUME Init PROVE OwnershipInv
  OBVIOUS
<1> USE DEF Init
<1>1. TypeOK
  <2>1. NoHandle \in Handles /\ issued \subseteq Handles \ {NoHandle} /\ stale \in BOOLEAN
    BY DEF Handles
  <2>2. handle \in [Readers -> Handles] /\ found \in [Readers -> 0..MaxStages]
    BY <2>1, ModelAssumption
  <2>3. QED
    BY <2>1, <2>2, ModelAssumption, NamesAssumption, TwoKinds DEF TypeOK, Threads
<1>2. Places /\ Locked /\ Fresh /\ Apart /\ Covered
  BY NamesAssumption, TwoKinds DEF Places, Locked, Fresh, Apart, Covered, Roles
<1>3. Counted
  <2>1. Working = {}
    BY TwoKinds DEF Working
  <2>2. QED BY <2>1, FS_EmptySet DEF Counted
<1>4. QED BY <1>1, <1>2, <1>3 DEF OwnershipInv

(* Every step keeps types, places and owners.                              *)
LEMMA OwnershipNext == OwnershipInv /\ [Next]_vars => OwnershipInv'
<1> SUFFICES ASSUME OwnershipInv, [Next]_vars PROVE OwnershipInv'
  OBVIOUS
<1> USE ModelAssumption, NamesAssumption, TwoKinds DEF callerVars, readerVars
<1>0. TypeOK /\ Places /\ Locked /\ Fresh /\ Counted /\ Apart /\ Covered
  BY DEF OwnershipInv
<1>1. ASSUME NEW u \in Updaters, MapReadOnly(u) PROVE OwnershipInv'
  <2>1. TypeOK'
    BY <1>0, <1>1 DEF TypeOK, MapReadOnly, Goto, regionVars, handleVars
  <2>2. Places' /\ Locked' /\ Fresh'
    BY <1>0, <1>1 DEF TypeOK, Places, Locked, Fresh, MapReadOnly, Goto
  <2>3. Counted'
    BY <1>0, <1>1 DEF TypeOK, Counted, Working, MapReadOnly, Goto
  <2>4. Apart' /\ Covered'
    BY <1>0, <1>1 DEF TypeOK, Apart, Covered, Roles, Fresh, MapReadOnly, Goto, regionVars
  <2>5. QED BY <2>1, <2>2, <2>3, <2>4 DEF OwnershipInv
<1>2. ASSUME NEW u \in Updaters, Stage(u) PROVE OwnershipInv'
  <2>0. fresh[u] \in Addresses /\ mapped[fresh[u]] \in Versions
    BY <1>0, <1>2 DEF TypeOK, Covered, Fresh, Stage, Goto, Versions
  <2>1. TypeOK'
    <3>1. HandleOf(fresh[u]) \in Handles \ {NoHandle}
      BY <1>0, <2>0 DEF TypeOK, HandleOf, Handles, NoHandle
    <3>2. issued' \subseteq Handles \ {NoHandle}
      BY <1>0, <1>2, <3>1 DEF TypeOK, Stage
    <3>3. QED
      BY <1>0, <1>2, <2>0, <3>2 DEF TypeOK, Stage, Goto, Unmap, handleVars
  <2>2. Places' /\ Locked' /\ Fresh'
    BY <1>0, <1>2 DEF TypeOK, Places, Locked, Fresh, Stage, Goto
  <2>3. Counted'
    BY <1>0, <1>2 DEF TypeOK, Counted, Working, Stage, Goto
  <2>4. Apart' /\ Covered'
    BY <1>0, <1>2 DEF TypeOK, Apart, Covered, Roles, Fresh, Stage, Goto, Unmap
  <2>5. QED BY <2>1, <2>2, <2>3, <2>4 DEF OwnershipInv
<1>3. ASSUME NEW u \in Updaters, NEW h \in issued, Activate(u, h) PROVE OwnershipInv'
  <2>1. TypeOK'
    BY <1>0, <1>3 DEF TypeOK, Activate, Goto, Real, storageVars
  <2>2. Places' /\ Locked' /\ Fresh'
    BY <1>0, <1>3 DEF TypeOK, Places, Locked, Fresh, Activate, Goto
  <2>3. Counted'
    BY <1>0, <1>3 DEF TypeOK, Counted, Working, Activate, Goto
  <2>4. Apart' /\ Covered'
    BY <1>0, <1>3 DEF TypeOK, Apart, Covered, Roles, Activate, Real, storageVars
  <2>5. QED BY <2>1, <2>2, <2>3, <2>4 DEF OwnershipInv
<1>4. ASSUME NEW u \in Updaters, Rollback(u) PROVE OwnershipInv'
  <2>1. TypeOK'
    BY <1>0, <1>4 DEF TypeOK, Rollback, Goto, Real, storageVars, Handles, NoHandle
  <2>2. Places' /\ Locked' /\ Fresh'
    BY <1>0, <1>4 DEF TypeOK, Places, Locked, Fresh, Rollback, Goto
  <2>3. Counted'
    BY <1>0, <1>4 DEF TypeOK, Counted, Working, Rollback, Goto
  <2>4. Apart' /\ Covered'
    BY <1>0, <1>4 DEF TypeOK, Apart, Covered, Roles, Rollback, Real, storageVars
  <2>5. QED BY <2>1, <2>2, <2>3, <2>4 DEF OwnershipInv
<1>5. ASSUME NEW t \in Threads, ReclaimLater(t) \/ ReclaimNow(t) PROVE OwnershipInv'
  <2> USE <1>0, <1>5 DEF ReclaimLater, ReclaimNow, Goto
  <2>1. TypeOK'
    BY DEF TypeOK, storageVars, regionVars, handleVars
  <2>2. Places' /\ Locked' /\ Fresh'
    BY DEF TypeOK, Places, Locked, Fresh, Threads
  <2>3. Counted'
    BY DEF TypeOK, Counted, Working
  <2>4. Apart' /\ Covered'
    BY SameOwners DEF storageVars
  <2>5. QED BY <2>1, <2>2, <2>3, <2>4 DEF OwnershipInv
<1>6. ASSUME NEW t \in Threads, UnmapRetired(t) PROVE OwnershipInv'
  <2> USE <1>0, <1>6 DEF UnmapRetired, Goto
  <2>1. TypeOK'
    BY DEF TypeOK, Unmap, handleVars
  <2>2. Places' /\ Locked' /\ Fresh'
    BY DEF TypeOK, Places, Locked, Fresh, Threads
  <2>3. Counted'
    BY DEF TypeOK, Counted, Working
  <2>4. Apart' /\ Covered'
    BY DEF TypeOK, Apart, Covered, Roles, Unmap
  <2>5. QED BY <2>1, <2>2, <2>3, <2>4 DEF OwnershipInv
<1>7. ASSUME NEW r \in Readers, BeginInference(r) PROVE OwnershipInv'
  <2> USE <1>0, <1>7 DEF BeginInference, Goto
  <2>1. TypeOK'
    BY DEF TypeOK, storageVars, regionVars, handleVars
  <2>2. Places' /\ Locked' /\ Fresh'
    BY DEF TypeOK, Places, Locked, Fresh
  <2>3. Counted'
    <3>1. r \notin Working /\ Working' = Working \cup {r}
      BY DEF TypeOK, Working
    <3>2. QED BY <3>1, WorkingEnter
  <2>4. Apart' /\ Covered'
    BY SameOwners DEF storageVars
  <2>5. QED BY <2>1, <2>2, <2>3, <2>4 DEF OwnershipInv
<1>8. ASSUME NEW r \in Readers, Current(r) PROVE OwnershipInv'
  <2> USE <1>0, <1>8 DEF Current, Goto
  <2>1. TypeOK'
    <3>1. active # NoHandle => mapped[active.data] \in 0..MaxStages
      BY DEF TypeOK, Handles
    <3>2. found' \in [Readers -> 0..MaxStages]
      BY <3>1 DEF TypeOK
    <3>3. QED
      BY <3>2 DEF TypeOK, storageVars, regionVars, handleVars
  <2>2. Places' /\ Locked' /\ Fresh'
    BY DEF TypeOK, Places, Locked, Fresh
  <2>3. Counted'
    BY DEF TypeOK, Counted, Working
  <2>4. Apart' /\ Covered'
    BY SameOwners DEF storageVars
  <2>5. QED BY <2>1, <2>2, <2>3, <2>4 DEF OwnershipInv
<1>9. ASSUME NEW r \in Readers, EndInference(r) PROVE OwnershipInv'
  <2> USE <1>0, <1>9 DEF EndInference, Goto
  <2>1. r \in Working /\ Working' = Working \ {r}
    BY DEF TypeOK, Working
  <2>2. Counted' /\ inFlight' \in Nat
    <3>1. Counted'
      BY <2>1, WorkingLeave
    <3>2. Cardinality(Working \ {r}) \in Nat
      BY WorkingFinite, FS_RemoveElement, FS_CardinalityType
    <3>3. QED BY <2>1, <3>1, <3>2 DEF Counted
  <2>3. TypeOK'
    BY <2>2 DEF TypeOK, storageVars, regionVars, handleVars, Handles
  <2>4. Places' /\ Locked' /\ Fresh'
    BY DEF TypeOK, Places, Locked, Fresh
  <2>5. Apart' /\ Covered'
    BY SameOwners DEF storageVars
  <2>6. QED BY <2>2, <2>3, <2>4, <2>5 DEF OwnershipInv
<1>10. ASSUME NEW r \in Readers, LastOut(r) PROVE OwnershipInv'
  <2> USE <1>0, <1>10 DEF LastOut, Goto
  <2>1. TypeOK'
    BY DEF TypeOK, storageVars, regionVars, handleVars
  <2>2. Places' /\ Locked' /\ Fresh'
    BY DEF TypeOK, Places, Locked, Fresh
  <2>3. Counted'
    BY DEF TypeOK, Counted, Working
  <2>4. Apart' /\ Covered'
    BY SameOwners DEF storageVars
  <2>5. QED BY <2>1, <2>2, <2>3, <2>4 DEF OwnershipInv
<1>11. CASE Destroy
  <2> USE <1>0, <1>11 DEF Destroy
  <2>1. TypeOK'
    <3>1. alive' \in BOOLEAN
      BY Zenon
    <3>2. QED BY <3>1 DEF TypeOK, Unmap, handleVars
  <2>2. Places' /\ Locked' /\ Fresh'
    BY DEF TypeOK, Places, Locked, Fresh
  <2>3. Counted'
    BY DEF TypeOK, Counted, Working
  <2>4. Apart' /\ Covered'
    BY DEF TypeOK, Apart, Covered, Roles, Fresh, Unmap
  <2>5. QED BY <2>1, <2>2, <2>3, <2>4 DEF OwnershipInv
<1>12. CASE UNCHANGED vars
  <2> USE <1>0, <1>12 DEF vars
  <2>1. TypeOK'
    BY DEF TypeOK, storageVars, regionVars, handleVars
  <2>2. Places' /\ Locked' /\ Fresh' /\ Counted'
    BY DEF Places, Locked, Fresh, Counted, Working
  <2>3. Apart' /\ Covered'
    BY SameOwners DEF storageVars
  <2>4. QED BY <2>1, <2>2, <2>3 DEF OwnershipInv
<1>13. QED
  BY <1>1, <1>2, <1>3, <1>4, <1>5, <1>6, <1>7, <1>8, <1>9, <1>10, <1>11, <1>12
     DEF Next, Update, Reclaim, Infer

(* Types and ownership hold of any number of updaters.                     *)
LEMMA OwnershipInvariant == Spec => []OwnershipInv
BY OwnershipInit, OwnershipNext, PTL DEF Spec

(* The manager's fields keep their types.                                  *)
THEOREM ModelTypeOK == Spec => []TypeOK
<1>1. OwnershipInv => TypeOK
  BY DEF OwnershipInv
<1>2. QED BY <1>1, OwnershipInvariant, PTL

(* Every mapping has exactly one owner, whatever threads stage, activate,  *)
(* roll back and destroy: nothing leaks, nothing is unmapped twice.        *)
THEOREM ModelOneOwner == Spec => []OneOwner
<1>1. OwnershipInv => OneOwner
  <2> SUFFICES ASSUME OwnershipInv, NEW a \in Addresses
               PROVE  Cardinality(Owners(a)) = IF mapped[a] = 0 THEN 0 ELSE 1
    BY DEF OneOwner
  <2>0. TypeOK /\ Apart /\ Covered /\ a # NoRegion
    BY NamesAssumption DEF OwnershipInv
  <2>1. CASE mapped[a] = 0
    <3>1. Owners(a) = {}
      BY <2>0, <2>1 DEF Covered, Roles, Owners
    <3>2. QED BY <2>1, <3>1, FS_EmptySet
  <2>2. CASE mapped[a] # 0
    <3>1. \E x : Owners(a) = {x}
      <4>1. CASE \E u \in Updaters : fresh[u] = a
        <5>1. PICK u \in Updaters : fresh[u] = a
          BY <4>1
        <5>2. Owners(a) = {u}
          BY <2>0, <5>1 DEF Apart, Roles, Owners
        <5>3. QED BY <5>2
      <4>2. CASE ~\E u \in Updaters : fresh[u] = a
        <5>1. a \in Roles
          BY <2>0, <2>2, <4>2 DEF Covered
        <5>2. \/ Owners(a) = {"staged"}
              \/ Owners(a) = {"active"}
              \/ Owners(a) = {"previous"}
              \/ Owners(a) = {"retired"}
          BY <2>0, <4>2, <5>1 DEF Apart, Roles, Owners
        <5>3. QED BY <5>2
      <4>3. QED BY <4>1, <4>2
    <3>2. QED BY <2>2, <3>1, FS_Singleton
  <2>3. QED BY <2>1, <2>2
<1>2. QED BY <1>1, OwnershipInvariant, PTL

-----------------------------------------------------------------------------
(* What the manager serves.                                                *)

(* At first nothing is served, staged or read.                             *)
LEMMA ServedInit == Init => ServedInv
BY NamesAssumption, TwoKinds
   DEF Init, ServedInv, NobodyReads, ReadersHold, HandlesMatchRegions, Describes

(* Where nothing is served, staged or unmapped, and nobody starts to read. *)
LEMMA SameServed ==
  ASSUME ServedInv, UNCHANGED <<mapped, regionVars, active, previous, stale, readerVars>>, alive' => alive,
         \A r \in Readers : pc'[r] = "infer" => pc[r] = "infer",
         \A t \in Threads : pc'[t] = "unmap" => pc[t] = "unmap"
  PROVE  ServedInv'
BY TwoKinds
   DEF ServedInv, NobodyReads, ReadersHold, HandlesMatchRegions, Describes, regionVars, readerVars

(* Every step keeps what is served and what is read mapped.                *)
LEMMA ServedNext == OwnershipInv /\ ServedInv /\ [Next]_vars => ServedInv'
<1> SUFFICES ASSUME OwnershipInv, ServedInv, [Next]_vars PROVE ServedInv'
  OBVIOUS
<1> USE ModelAssumption, NamesAssumption, TwoKinds DEF callerVars, readerVars
<1>0. /\ TypeOK /\ Places /\ Locked /\ Fresh /\ Counted /\ Apart /\ Covered
      /\ NobodyReads /\ ReadersHold /\ HandlesMatchRegions
  BY DEF OwnershipInv, ServedInv
<1>t. /\ \A r \in Readers : handle[r] # NoHandle => handle[r].data \in Addresses
      /\ active # NoHandle => active.data \in Addresses
      /\ previous # NoHandle => previous.data \in Addresses
      /\ \A a \in Addresses : mapped[a] \in 0..MaxStages
  BY <1>0 DEF TypeOK, Handles, Versions
<1>1. ASSUME NEW u \in Updaters, MapReadOnly(u) PROVE ServedInv'
  <2>1. PICK a \in Addresses : mapped[a] = 0 /\ mapped' = [mapped EXCEPT ![a] = mappings + 1]
    BY <1>1 DEF MapReadOnly
  <2>2. a \notin Roles /\ \A b \in Roles \ {NoRegion} : mapped'[b] = mapped[b]
    BY <1>0, <2>1 DEF TypeOK, Covered, Roles
  <2>3. NobodyReads'
    BY <1>0, <1>1 DEF TypeOK, NobodyReads, MapReadOnly, Goto
  <2>4. ReadersHold'
    BY <1>0, <1>t, <1>1, <2>2 DEF TypeOK, ReadersHold, Roles, MapReadOnly, Goto, regionVars, readerVars
  <2>5. HandlesMatchRegions'
    BY <1>0, <1>t, <1>1, <2>2 DEF HandlesMatchRegions, Describes, Roles, MapReadOnly, regionVars, handleVars
  <2>6. QED BY <2>3, <2>4, <2>5 DEF ServedInv
<1>2. ASSUME NEW u \in Updaters, Stage(u) PROVE ServedInv'
  <2>1. /\ pc[u] = "mapped" /\ fresh[u] \in Addresses /\ fresh[u] # staged
        /\ \A b \in Addresses : b # staged => mapped'[b] = mapped[b]
    BY <1>0, <1>2 DEF TypeOK, Fresh, Apart, Roles, Stage, Goto, Unmap
  <2>2. NobodyReads'
    BY <1>0, <1>2 DEF TypeOK, NobodyReads, Stage, Goto
  <2>3. ReadersHold'
    BY <1>0, <1>t, <1>2, <2>1 DEF TypeOK, ReadersHold, Apart, Stage, Goto
  <2>4. HandlesMatchRegions'
    BY <1>0, <1>t, <1>2, <2>1 DEF HandlesMatchRegions, Describes, Apart, Stage, handleVars
  <2>5. QED BY <2>2, <2>3, <2>4 DEF ServedInv
<1>3. ASSUME NEW u \in Updaters, NEW h \in issued, Activate(u, h) PROVE ServedInv'
  <2>1. NobodyReads'
    BY <1>0, <1>3 DEF TypeOK, NobodyReads, Activate, Goto
  <2>2. ReadersHold'
    BY <1>0, <1>t, <1>3 DEF TypeOK, ReadersHold, Activate, Goto, Real, storageVars
  <2>3. staged \in Addresses /\ mapped[staged] # 0
    BY <1>0, <1>3 DEF TypeOK, Handles, Covered, Roles, Activate
  <2>4. h.version = mapped[staged] \/ stale'
    BY <1>3, Zenon DEF Activate
  <2>5. stale => stale'
    BY <1>3, Zenon DEF Activate
  <2>6. HandlesMatchRegions'
    BY <1>0, <1>3, <2>3, <2>4, <2>5
       DEF HandlesMatchRegions, Describes, Activate, storageVars
  <2>7. QED BY <2>1, <2>2, <2>6 DEF ServedInv
<1>4. ASSUME NEW u \in Updaters, Rollback(u) PROVE ServedInv'
  <2>1. NobodyReads'
    BY <1>0, <1>4 DEF TypeOK, NobodyReads, Rollback, Goto
  <2>2. ReadersHold'
    BY <1>0, <1>t, <1>4 DEF TypeOK, ReadersHold, Rollback, Goto, Real, storageVars
  <2>3. HandlesMatchRegions'
    BY <1>0, <1>4 DEF HandlesMatchRegions, Describes, Rollback, storageVars
  <2>4. QED BY <2>1, <2>2, <2>3 DEF ServedInv
<1>5. ASSUME NEW t \in Threads, ReclaimLater(t) PROVE ServedInv'
  BY <1>0, <1>5, SameServed
     DEF ServedInv, TypeOK, ReclaimLater, Goto, storageVars, handleVars, Threads
<1>6. ASSUME NEW t \in Threads, ReclaimNow(t) PROVE ServedInv'
  <2>1. Working = {}
    BY <1>0, <1>6, WorkingFinite, FS_EmptySet DEF Counted, ReclaimNow
  <2>2. \A r \in Readers : pc[r] # "infer" /\ pc'[r] # "infer"
    BY <1>0, <1>6, <2>1 DEF TypeOK, Working, ReclaimNow, Goto
  <2>3. NobodyReads' /\ ReadersHold'
    BY <2>2 DEF NobodyReads, ReadersHold
  <2>4. HandlesMatchRegions'
    BY <1>0, <1>6
       DEF HandlesMatchRegions, Describes, ReclaimNow, storageVars, regionVars, handleVars
  <2>5. QED BY <2>3, <2>4 DEF ServedInv
<1>7. ASSUME NEW t \in Threads, UnmapRetired(t) PROVE ServedInv'
  <2>1. \A r \in Readers : pc[r] # "infer" /\ pc'[r] # "infer"
    BY <1>0, <1>7 DEF TypeOK, NobodyReads, UnmapRetired, Goto
  <2>2. NobodyReads' /\ ReadersHold'
    BY <2>1 DEF NobodyReads, ReadersHold
  <2>3. \A b \in Addresses : b \notin retired => mapped'[b] = mapped[b]
    BY <1>7 DEF UnmapRetired, Unmap
  <2>4. HandlesMatchRegions'
    BY <1>0, <1>t, <1>7, <2>3 DEF HandlesMatchRegions, Describes, Apart, UnmapRetired, handleVars
  <2>5. QED BY <2>2, <2>4 DEF ServedInv
<1>8. ASSUME NEW r \in Readers, BeginInference(r) PROVE ServedInv'
  BY <1>0, <1>8, SameServed
     DEF ServedInv, TypeOK, BeginInference, Goto, storageVars, handleVars, Threads
<1>9. ASSUME NEW r \in Readers, Current(r) PROVE ServedInv'
  <2>1. NobodyReads'
    BY <1>0, <1>9 DEF TypeOK, NobodyReads, Locked, Current, Goto
  <2>2. alive
    BY <1>0, <1>9 DEF Places, Current, Goto
  <2>3. ReadersHold'
    BY <1>0, <1>t, <1>9, <2>2
       DEF TypeOK, ReadersHold, HandlesMatchRegions, Describes, Current, Goto, storageVars, regionVars
  <2>4. HandlesMatchRegions'
    BY <1>0, <1>9
       DEF TypeOK, HandlesMatchRegions, Describes, Current, storageVars, regionVars, handleVars
  <2>5. QED BY <2>1, <2>3, <2>4 DEF ServedInv
<1>10. ASSUME NEW r \in Readers, EndInference(r) PROVE ServedInv'
  <2>1. NobodyReads'
    BY <1>0, <1>10 DEF TypeOK, NobodyReads, EndInference, Goto
  <2>2. ReadersHold'
    BY <1>0, <1>10 DEF TypeOK, ReadersHold, EndInference, Goto, storageVars, regionVars
  <2>3. HandlesMatchRegions'
    BY <1>0, <1>10
       DEF TypeOK, HandlesMatchRegions, Describes, EndInference, storageVars, regionVars,
           handleVars
  <2>4. QED BY <2>1, <2>2, <2>3 DEF ServedInv
<1>11. ASSUME NEW r \in Readers, LastOut(r) PROVE ServedInv'
  BY <1>0, <1>11, SameServed
     DEF ServedInv, TypeOK, LastOut, Goto, storageVars, handleVars, Threads
<1>12. CASE Destroy
  <2>1. \A t \in Threads : pc'[t] = "idle"
    BY <1>12 DEF Destroy
  <2>2. QED
    BY <1>0, <1>t, <1>12, <2>1
       DEF ServedInv, NobodyReads, ReadersHold, HandlesMatchRegions, Describes, Destroy
<1>13. CASE UNCHANGED vars
  BY <1>13, SameServed DEF vars, storageVars, handleVars
<1>14. QED
  BY <1>1, <1>2, <1>3, <1>4, <1>5, <1>6, <1>7, <1>8, <1>9, <1>10, <1>11, <1>12, <1>13
     DEF Next, Update, Reclaim, Infer

(* The whole invariant holds, of any number of updaters and handles.       *)
LEMMA ServedInvariant == Spec => [](OwnershipInv /\ ServedInv)
<1>1. OwnershipInv /\ ServedInv /\ [Next]_vars => ServedInv'
  BY ServedNext
<1>2. QED BY <1>1, OwnershipInvariant, ServedInit, PTL DEF Spec

(* While an inference runs, the address it took stays mapped to what it    *)
(* found there, for any number of inferences and updaters at once.         *)
THEOREM ModelNoUseAfterUnmap == Spec => []NoUseAfterUnmap
<1>1. ServedInv => NoUseAfterUnmap
  BY DEF ServedInv, ReadersHold, NoUseAfterUnmap
<1>2. QED BY <1>1, ServedInvariant, PTL

(* The regions served and restored by rollback() are really there; they    *)
(* hold the models of their handles if no handle of an earlier mapping was *)
(* ever activated.                                                         *)
THEOREM ModelHandlesMatchRegions == Spec => []HandlesMatchRegions
<1>1. ServedInv => HandlesMatchRegions
  BY DEF ServedInv
<1>2. QED BY <1>1, ServedInvariant, PTL
=============================================================================
