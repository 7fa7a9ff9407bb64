---------------------------- MODULE ModelManager ----------------------------
(***************************************************************************)
(* core/model/ModelManager: one model slot with hot-swap.  Updaters stage, *)
(* activate and roll back models under the handle lock mu_; inferences     *)
(* bracket their work with beginInference .. endInference and take the     *)
(* handle with current().  inFlight_ and generation_ are atomics that the  *)
(* bracket touches without the lock, so each access to them is a step.     *)
(*                                                                         *)
(* A region is the address a mapping got; the storage hands an unmapped    *)
(* address out again.  What a mapping holds is its version: 1, 2, ... in   *)
(* the order files were mapped.  A handle names an address; its version    *)
(* here is a history, of what was there when the handle was made.          *)
(***************************************************************************)
EXTENDS Integers, FiniteSets

CONSTANTS
  Updaters,    \* threads that stage, activate and roll back (OTA/Background)
  Readers,     \* threads that run inferences
  Addresses,   \* addresses a mapping can get
  MaxStages    \* bound: files mapped

ASSUME ModelAssumption ==
  /\ Updaters \cap Readers = {}
  /\ IsFiniteSet(Readers)
  /\ MaxStages \in Nat

Threads == Updaters \cup Readers
NoRegion == "none"
Free == "free"

ASSUME NamesAssumption == NoRegion \notin Addresses /\ Free \notin Threads

Versions == 1..MaxStages

\* ModelHandle{}: not valid()
NoHandle == [data |-> NoRegion, version |-> 0, generation |-> 0]

VARIABLES
  mapped,      \* what the storage has mapped where (0: nothing)
  mappings,    \* files mapped so far
  staged, activeRegion, previousRegion,  \* stagedRegion_, activeRegion_, previousRegion_
  retired,     \* retired_
  active, previous,     \* active_, previous_
  generation,  \* generation_
  inFlight,    \* inFlight_
  mu,          \* who holds mu_
  pc,          \* where each thread is
  fresh,       \* the region an updater mapped and has not published yet
  issued,      \* the handles stage() ever returned: a caller may keep any of them
  handle,      \* the handle a reader got from current()
  found,       \* history: what its address held when it got it (0: it got none)
  stale,       \* history: activate() once took the handle of an earlier mapping
  alive        \* the manager has not been destroyed

storageVars == <<mapped, mappings>>
regionVars == <<staged, activeRegion, previousRegion, retired>>
handleVars == <<active, previous, generation>>
readerVars == <<handle, found>>
callerVars == <<issued, stale>>
vars == <<storageVars, regionVars, handleVars, inFlight, mu, pc, fresh, callerVars,
          readerVars, alive>>

Init ==
  /\ mapped = [a \in Addresses |-> 0] /\ mappings = 0
  /\ staged = NoRegion /\ activeRegion = NoRegion /\ previousRegion = NoRegion
  /\ retired = {}
  /\ active = NoHandle /\ previous = NoHandle /\ generation = 0
  /\ inFlight = 0 /\ mu = Free
  /\ pc = [t \in Threads |-> "idle"]
  /\ fresh = [u \in Updaters |-> NoRegion]
  /\ issued = {} /\ stale = FALSE
  /\ handle = [r \in Readers |-> NoHandle]
  /\ found = [r \in Readers |-> 0]
  /\ alive = TRUE

Goto(t, from, to) == pc[t] = from /\ pc' = [pc EXCEPT ![t] = to]

\* The regions that hold something: retire() and unmap() ignore a zeroed one.
Real(regions) == regions \ {NoRegion}

Unmap(regions) ==
  mapped' = [a \in Addresses |-> IF a \in regions THEN 0 ELSE mapped[a]]

-----------------------------------------------------------------------------
(* stage: the file is mapped before the lock is taken.                     *)

\* mapReadOnly; when the file is missing stage() returns and nothing changes.
MapReadOnly(u) ==
  /\ alive /\ mappings < MaxStages
  /\ Goto(u, "idle", "mapped")
  /\ mappings' = mappings + 1
  /\ \E a \in Addresses :
       /\ mapped[a] = 0
       /\ mapped' = [mapped EXCEPT ![a] = mappings + 1]
       /\ fresh' = [fresh EXCEPT ![u] = a]
  /\ UNCHANGED <<regionVars, handleVars, inFlight, mu, callerVars, readerVars, alive>>

\* The handle stage() makes of the region it has just mapped.
HandleOf(a) == [data |-> a, version |-> mapped[a], generation |-> generation + 1]

\* mutant: a region staged before and never activated stays mapped
StageLeaks(u) ==
  /\ mu = Free
  /\ Goto(u, "mapped", "idle")
  /\ staged' = fresh[u]
  /\ fresh' = [fresh EXCEPT ![u] = NoRegion]
  /\ issued' = issued \cup {HandleOf(fresh[u])}
  /\ UNCHANGED <<storageVars, activeRegion, previousRegion, retired, handleVars,
                 inFlight, mu, stale, readerVars, alive>>

\* Under the lock: a region staged before and never activated is unmapped.
Stage(u) ==
  /\ mu = Free
  /\ Goto(u, "mapped", "idle")
  /\ Unmap({staged})
  /\ staged' = fresh[u]
  /\ fresh' = [fresh EXCEPT ![u] = NoRegion]
  /\ issued' = issued \cup {HandleOf(fresh[u])}
  /\ UNCHANGED <<mappings, activeRegion, previousRegion, retired, handleVars,
                 inFlight, mu, stale, readerVars, alive>>

-----------------------------------------------------------------------------
(* activate and rollback: a swap, then tryUnmapRetired, under the lock.    *)

\* activate() takes any handle that stage() ever made and whose address is the
\* staged one; it refuses the others, and an invalid one (nothing changes).
Activate(u, h) ==
  /\ alive /\ mu = Free
  /\ h \in issued /\ h.data = staged
  /\ Goto(u, "idle", "reclaim")
  /\ mu' = u
  /\ retired' = retired \cup Real({previousRegion})
  /\ previous' = active /\ previousRegion' = activeRegion
  /\ active' = h /\ activeRegion' = staged
  /\ staged' = NoRegion
  /\ generation' = generation + 1
  /\ stale' = (stale \/ h.version # mapped[staged])
  /\ UNCHANGED <<storageVars, inFlight, fresh, issued, readerVars, alive>>

\* mutant: the region is restored and the handle is not
RollbackRegionOnly(u) ==
  /\ alive /\ mu = Free
  /\ previous # NoHandle
  /\ Goto(u, "idle", "reclaim")
  /\ mu' = u
  /\ retired' = retired \cup Real({activeRegion})
  /\ activeRegion' = previousRegion
  /\ previous' = NoHandle /\ previousRegion' = NoRegion
  /\ generation' = generation + 1
  /\ UNCHANGED <<storageVars, staged, active, inFlight, fresh, callerVars, readerVars, alive>>

\* rollback() is refused without a valid previous model.
Rollback(u) ==
  /\ alive /\ mu = Free
  /\ previous # NoHandle
  /\ Goto(u, "idle", "reclaim")
  /\ mu' = u
  /\ retired' = retired \cup Real({activeRegion})
  /\ active' = previous /\ activeRegion' = previousRegion
  /\ previous' = NoHandle /\ previousRegion' = NoRegion
  /\ generation' = generation + 1
  /\ UNCHANGED <<storageVars, staged, inFlight, fresh, callerVars, readerVars, alive>>

\* tryUnmapRetired: an inference is in flight, so nothing is unmapped.
ReclaimLater(t) ==
  /\ mu = t /\ inFlight # 0
  /\ Goto(t, "reclaim", "idle")
  /\ mu' = Free
  /\ UNCHANGED <<storageVars, regionVars, handleVars, inFlight, fresh, callerVars, readerVars, alive>>

\* tryUnmapRetired loads inFlight_ = 0 ...
ReclaimNow(t) ==
  /\ mu = t /\ inFlight = 0
  /\ Goto(t, "reclaim", "unmap")
  /\ UNCHANGED <<storageVars, regionVars, handleVars, inFlight, mu, fresh, callerVars, readerVars, alive>>

\* ... and then unmaps, whatever inFlight_ is by now.
UnmapRetired(t) ==
  /\ mu = t
  /\ Goto(t, "unmap", "idle")
  /\ Unmap(retired) /\ retired' = {}
  /\ mu' = Free
  /\ UNCHANGED <<mappings, staged, activeRegion, previousRegion, handleVars,
                 inFlight, fresh, callerVars, readerVars, alive>>

-----------------------------------------------------------------------------
(* The inference bracket.                                                  *)

\* mutant: the inference is not counted in flight
BeginUnpinned(r) ==
  /\ alive
  /\ Goto(r, "idle", "begun")
  /\ UNCHANGED <<storageVars, regionVars, handleVars, inFlight, mu, fresh, callerVars, readerVars, alive>>

BeginInference(r) ==
  /\ alive
  /\ Goto(r, "idle", "begun")
  /\ inFlight' = inFlight + 1
  /\ UNCHANGED <<storageVars, regionVars, handleVars, mu, fresh, callerVars, readerVars, alive>>

\* current(): a copy of active_ under the lock.
Current(r) ==
  /\ mu = Free
  /\ Goto(r, "begun", "infer")
  /\ handle' = [handle EXCEPT ![r] = active]
  /\ found' = [found EXCEPT ![r] = IF active = NoHandle THEN 0 ELSE mapped[active.data]]
  /\ UNCHANGED <<storageVars, regionVars, handleVars, inFlight, mu, fresh, callerVars, alive>>

\* mutant: the last one out leaves the retired regions to the next swap
EndWithoutReclaim(r) ==
  /\ Goto(r, "infer", "idle")
  /\ inFlight' = inFlight - 1
  /\ handle' = [handle EXCEPT ![r] = NoHandle]
  /\ found' = [found EXCEPT ![r] = 0]
  /\ UNCHANGED <<storageVars, regionVars, handleVars, mu, fresh, callerVars, alive>>

\* endInference: the last one out goes on to unmap what was retired meanwhile.
EndInference(r) ==
  /\ Goto(r, "infer", IF inFlight = 1 THEN "last" ELSE "idle")
  /\ inFlight' = inFlight - 1
  /\ handle' = [handle EXCEPT ![r] = NoHandle]
  /\ found' = [found EXCEPT ![r] = 0]
  /\ UNCHANGED <<storageVars, regionVars, handleVars, mu, fresh, callerVars, alive>>

LastOut(r) ==
  /\ mu = Free
  /\ Goto(r, "last", "reclaim")
  /\ mu' = r
  /\ UNCHANGED <<storageVars, regionVars, handleVars, inFlight, fresh, callerVars, readerVars, alive>>

\* ~ModelManager: its owner destroys it when no thread is inside it.
Destroy ==
  /\ alive /\ \A t \in Threads : pc[t] = "idle"
  /\ alive' = FALSE
  /\ Unmap(retired \cup {previousRegion, activeRegion, staged})
  /\ retired' = {} /\ staged' = NoRegion
  /\ activeRegion' = NoRegion /\ previousRegion' = NoRegion
  /\ UNCHANGED <<mappings, handleVars, inFlight, mu, pc, fresh, callerVars, readerVars>>

Update(u) ==
  MapReadOnly(u) \/ Stage(u) \/ (\E h \in issued : Activate(u, h)) \/ Rollback(u)
Reclaim(t) == ReclaimLater(t) \/ ReclaimNow(t) \/ UnmapRetired(t)
Infer(r) == BeginInference(r) \/ Current(r) \/ EndInference(r) \/ LastOut(r)

Next ==
  \/ \E u \in Updaters : Update(u)
  \/ \E t \in Threads : Reclaim(t)
  \/ \E r \in Readers : Infer(r)
  \/ Destroy

Spec == Init /\ [][Next]_vars

(* A bracket once opened is closed, and a lock once taken is released;     *)
(* nobody has to start an inference or an update.                          *)
FairSpec ==
  /\ Spec
  /\ \A t \in Threads : WF_vars(Reclaim(t))
  /\ \A r \in Readers : WF_vars(Current(r)) /\ WF_vars(EndInference(r)) /\ WF_vars(LastOut(r))

-----------------------------------------------------------------------------
(* Properties.                                                             *)

Handles == [data : Addresses, version : Versions, generation : Nat] \cup {NoHandle}

\* Type invariant.
TypeOK ==
  /\ mapped \in [Addresses -> 0..MaxStages] /\ mappings \in 0..MaxStages
  /\ {staged, activeRegion, previousRegion} \subseteq Addresses \cup {NoRegion}
  /\ retired \subseteq Addresses
  /\ active \in Handles /\ previous \in Handles /\ generation \in Nat
  /\ inFlight \in Nat /\ mu \in Threads \cup {Free}
  /\ pc \in [Threads -> {"idle", "mapped", "reclaim", "unmap", "begun", "infer", "last"}]
  /\ fresh \in [Updaters -> Addresses \cup {NoRegion}]
  /\ issued \subseteq Handles \ {NoHandle} /\ stale \in BOOLEAN
  /\ handle \in [Readers -> Handles] /\ found \in [Readers -> 0..MaxStages]
  /\ alive \in BOOLEAN

(* No use after unmap: the address an inference takes is mapped, and until *)
(* the inference ends it is not unmapped, nor mapped again, whatever       *)
(* handles anybody activates meanwhile.                                    *)
NoUseAfterUnmap ==
  \A r \in Readers : pc[r] = "infer" /\ handle[r] # NoHandle
                       => found[r] # 0 /\ mapped[handle[r].data] = found[r]

(* Every mapping has exactly one owner: an updater about to publish it, or *)
(* one of the roles of the manager.  So nothing leaks, nothing is unmapped *)
(* twice, and a destroyed manager leaves nothing mapped.                   *)
Owners(a) ==
  {u \in Updaters : fresh[u] = a}
    \cup {x \in {"staged"}   : staged = a}
    \cup {x \in {"active"}   : activeRegion = a}
    \cup {x \in {"previous"} : previousRegion = a}
    \cup {x \in {"retired"}  : a \in retired}

OneOwner ==
  \A a \in Addresses : Cardinality(Owners(a)) = IF mapped[a] = 0 THEN 0 ELSE 1

(* active_ and previous_ lead to the regions they stand for, and those are *)
(* mapped, so what is served and what rollback() would restore is there.   *)
(* It is also the very model the handle was made for, as long as nobody    *)
(* activated the handle of an earlier mapping: activate() compares         *)
(* addresses only, and an address can come back.                           *)
Describes(h, region) ==
  h # NoHandle => /\ h.data = region
                  /\ mapped[region] # 0
                  /\ ~stale => mapped[region] = h.version

HandlesMatchRegions ==
  alive => Describes(active, activeRegion) /\ Describes(previous, previousRegion)

(* What was retired during an inference is unmapped after it.              *)
RetiredUnmapped == retired # {} ~> retired = {}
=============================================================================
