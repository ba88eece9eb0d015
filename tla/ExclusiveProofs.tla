-------------------------- MODULE ExclusiveProofs --------------------------
(***************************************************************************)
(* Reservations are intact for every number of harts, granules and         *)
(* domains.  ReservationIntact is not inductive: that a store reaches the  *)
(* reservations it must end rests on WatchedWhileSuspended, and that a     *)
(* restore brings back intact ones on the same statement about the image.  *)
(***************************************************************************)
EXTENDS Exclusive, TLAPS

SavedIntact ==
  \A h \in Harts : saved.tag[h] # RISCV_NO_TAG
                     => saved.tag[h] = saved.last[h] /\ h \notin saved.over

IInv == TypeOK /\ ReservationIntact /\ WatchedWhileSuspended /\ SavedIntact

(* A hart's callback names the hart, so removing it takes no other's. *)
LEMMA WatchOwner ==
  ASSUME NEW h, NEW tag, NEW dom, NEW w \in Watch(h, tag, dom)
  PROVE  w = <<h, dom, tag>>
BY DEF Watch

LEMMA InitIInv == Init => IInv
BY ExclusiveAssumption
DEF Init, IInv, TypeOK, Tags, ReservationIntact, WatchedWhileSuspended, SavedIntact

(* AbortAll clears the tags of hs and keeps every callback of the others. *)
LEMMA AbortKeepsOthers ==
  ASSUME TypeOK, NEW hs \in SUBSET Harts, AbortAll(hs)
  PROVE  /\ exclusiveTag' \in [Harts -> Tags]
         /\ watches' \subseteq Harts \X Domains \X Granules
         /\ \A o \in hs : exclusiveTag'[o] = RISCV_NO_TAG
         /\ \A o \in Harts \ hs : exclusiveTag'[o] = exclusiveTag[o]
         /\ \A o \in Harts \ hs, d \in Domains, g \in Granules :
              <<o, d, g>> \in watches => <<o, d, g>> \in watches'
<1>1. /\ exclusiveTag' \in [Harts -> Tags]
      /\ watches' \subseteq Harts \X Domains \X Granules
      /\ \A o \in hs : exclusiveTag'[o] = RISCV_NO_TAG
      /\ \A o \in Harts \ hs : exclusiveTag'[o] = exclusiveTag[o]
  BY DEF TypeOK, Tags, AbortAll
<1>2. ASSUME NEW o \in Harts \ hs, NEW d \in Domains, NEW g \in Granules,
             <<o, d, g>> \in watches
      PROVE  <<o, d, g>> \in watches'
  <2>1. ASSUME NEW h \in hs
        PROVE  <<o, d, g>> \notin Watch(h, exclusiveTag[h], dataDomain[h])
    BY <2>1 DEF Watch
  <2> QED BY <1>2, <2>1 DEF AbortAll
<1> QED BY <1>1, <1>2

(* A store of the running hart, together with the clearing of the tags of  *)
(* hs: all the harts it has to abort, and perhaps the running one.         *)
LEMMA StoreIInv ==
  ASSUME IInv, NEW h \in Harts, NEW g \in Granules, running = h,
         NEW hs \in SUBSET Harts, Aborted(g) \subseteq hs,
         AbortAll(hs), Overwrite(h, g), UNCHANGED <<dataDomain, running, saved>>
  PROVE  IInv'
<1>1. TypeOK'
  BY AbortKeepsOthers DEF IInv, TypeOK, Overwrite
<1>2. ReservationIntact'
  <2> SUFFICES ASSUME NEW o \in Harts, exclusiveTag'[o] # RISCV_NO_TAG
               PROVE  exclusiveTag'[o] = lastLR'[o] /\ o \notin overwritten'
    BY DEF ReservationIntact
  <2>1. o \notin hs /\ exclusiveTag'[o] = exclusiveTag[o]
    BY AbortKeepsOthers DEF IInv
  <2>2. exclusiveTag[o] = lastLR[o] /\ o \notin overwritten
    BY <2>1 DEF IInv, ReservationIntact
  <2>3. o # h => lastLR[o] # g
    BY <2>1, <2>2 DEF IInv, WatchedWhileSuspended
  <2> QED BY <2>1, <2>2, <2>3 DEF Overwrite
<1>3. WatchedWhileSuspended'
  <2> SUFFICES ASSUME NEW o \in Harts \ {running}, exclusiveTag'[o] # RISCV_NO_TAG
               PROVE  \E d \in Domains : <<o, d, exclusiveTag'[o]>> \in watches'
    BY DEF WatchedWhileSuspended, Aborted
  <2>1. o \in Harts \ hs /\ exclusiveTag'[o] = exclusiveTag[o]
    BY AbortKeepsOthers DEF IInv
  <2>2. exclusiveTag[o] \in Granules
    BY <2>1 DEF IInv, TypeOK, Tags
  <2>3. PICK d \in Domains : <<o, d, exclusiveTag[o]>> \in watches
    BY <2>1 DEF IInv, WatchedWhileSuspended, Aborted
  <2> QED BY <2>1, <2>2, <2>3, AbortKeepsOthers DEF IInv
<1>4. SavedIntact'
  BY DEF IInv, SavedIntact
<1> QED BY <1>1, <1>2, <1>3, <1>4 DEF IInv

(* A step that clears at most one tag and touches no callback. *)
LEMMA ClearIInv ==
  ASSUME IInv, NEW h \in Harts, clearEA(h), dataDomain' \in [Harts -> Domains]
  PROVE  IInv'
BY Zenon DEF IInv, TypeOK, Tags, ReservationIntact, WatchedWhileSuspended, SavedIntact,
       clearEA, Aborted

LEMMA DomainIInv ==
  ASSUME IInv, dataDomain' \in [Harts -> Domains],
         UNCHANGED <<exclusiveTag, watches, running, saved, lastLR, overwritten>>
  PROVE  IInv'
BY Zenon DEF IInv, TypeOK, ReservationIntact, WatchedWhileSuspended, SavedIntact, Aborted

LEMMA SwitchIInv ==
  ASSUME IInv, NEW h \in Harts, Suspend(h) \/ Resume(h)
  PROVE  IInv'
<1>1. UNCHANGED <<exclusiveTag, dataDomain, saved, lastLR, overwritten>>
  BY DEF Suspend, Resume
<1>2. TypeOK'
  BY <1>1 DEF IInv, TypeOK, Tags, Suspend, Resume, Installed, Removed, Watch
<1>3. ReservationIntact' /\ SavedIntact'
  BY <1>1 DEF IInv, ReservationIntact, SavedIntact
<1>4. WatchedWhileSuspended'
  <2> SUFFICES ASSUME NEW o \in Harts \ {running'}, exclusiveTag[o] # RISCV_NO_TAG
               PROVE  \E d \in Domains : <<o, d, exclusiveTag[o]>> \in watches'
    BY <1>1 DEF WatchedWhileSuspended, Aborted
  <2>1. CASE o = running
    <3>1. Suspend(h) /\ o = h
      BY <2>1, ExclusiveAssumption DEF Resume, Suspend
    <3>2. dataDomain[o] \in Domains
      BY DEF IInv, TypeOK
    <3> QED BY <3>1, <3>2 DEF Suspend, Installed, Watch
  <2>2. CASE o # running
    <3>1. PICK d \in Domains : <<o, d, exclusiveTag[o]>> \in watches
      BY <2>2 DEF IInv, WatchedWhileSuspended, Aborted
    <3>2. CASE Suspend(h)
      BY <3>1, <3>2 DEF Suspend, Installed
    <3>3. CASE Resume(h)
      BY <3>1, <3>3 DEF Resume, Removed, Watch
    <3> QED BY <3>2, <3>3
  <2> QED BY <2>1, <2>2
<1> QED BY <1>2, <1>3, <1>4 DEF IInv

LEMMA RestoreIInv ==
  ASSUME IInv, riscvRestoreState
  PROVE  IInv'
<1>1. /\ exclusiveTag' = saved.tag /\ lastLR' = saved.last /\ overwritten' = saved.over
      /\ saved' = saved /\ running' = running
      /\ dataDomain' \in [Harts -> Domains]
  BY DEF riscvRestoreState
<1>2. exclusiveTag' \in [Harts -> Tags] /\ lastLR' \in [Harts -> Tags]
        /\ overwritten' \subseteq Harts
  BY <1>1 DEF IInv, TypeOK
<1>3. watches' \subseteq Harts \X Domains \X Granules
  <2>1. ASSUME NEW h \in Harts
        PROVE  Watch(h, exclusiveTag'[h], dataDomain'[h]) \subseteq Harts \X Domains \X Granules
    BY <1>1, <1>2 DEF Watch, Tags
  <2> QED BY <2>1 DEF riscvRestoreState, IInv, TypeOK
<1>4. TypeOK'
  BY <1>1, <1>2, <1>3 DEF IInv, TypeOK
<1>5. ReservationIntact' /\ SavedIntact'
  BY <1>1 DEF IInv, ReservationIntact, SavedIntact
<1>6. WatchedWhileSuspended'
  <2> SUFFICES ASSUME NEW o \in Harts, exclusiveTag'[o] # RISCV_NO_TAG
               PROVE  \E d \in Domains : <<o, d, exclusiveTag'[o]>> \in watches'
    BY DEF WatchedWhileSuspended, Aborted
  <2>1. dataDomain'[o] \in Domains
    BY <1>1
  <2>2. <<o, dataDomain'[o], exclusiveTag'[o]>> \in Watch(o, exclusiveTag'[o], dataDomain'[o])
    BY DEF Watch
  <2>3. <<o, dataDomain'[o], exclusiveTag'[o]>> \in watches'
    BY <2>2 DEF riscvRestoreState
  <2> QED BY <2>1, <2>3
<1> QED BY <1>4, <1>5, <1>6 DEF IInv

LEMMA NextIInv == IInv /\ [Next]_vars => IInv'
<1> SUFFICES ASSUME IInv, [Next]_vars PROVE IInv'
  OBVIOUS
<1>1. ASSUME NEW h \in Harts, NEW g \in Granules, emitLR(h, g) PROVE IInv'
  BY <1>1, ExclusiveAssumption, Zenon DEF emitLR, IInv, TypeOK, Tags, ReservationIntact,
     WatchedWhileSuspended, SavedIntact, Aborted
<1>2. ASSUME NEW h \in Harts, NEW g \in Granules, Store(h, g) PROVE IInv'
  <2>1. Aborted(g) \in SUBSET Harts
    BY DEF Aborted
  <2> QED BY <1>2, <2>1, StoreIInv DEF Store
<1>3. ASSUME NEW h \in Harts, NEW g \in Granules, SCSucceeds(h, g) PROVE IInv'
  <2>1. Aborted(g) \cup {h} \in SUBSET Harts
    BY DEF Aborted
  <2> QED BY <1>3, <2>1, StoreIInv DEF SCSucceeds
<1>4. ASSUME NEW h \in Harts, NEW g \in Granules, SCFails(h, g) PROVE IInv'
  BY <1>4, ClearIInv DEF SCFails, IInv, TypeOK
<1>5. ASSUME NEW h \in Harts,
             Trap(h) \/ xRET(h) \/ riscvVMRefreshMPRVDomain(h) \/ riscvReset(h)
      PROVE  IInv'
  <2>1. dataDomain' \in [Harts -> Domains]
    BY <1>5 DEF Trap, xRET, riscvVMRefreshMPRVDomain, riscvReset, IInv, TypeOK
  <2>2. \/ clearEA(h)
        \/ UNCHANGED <<exclusiveTag, watches, running, saved, lastLR, overwritten>>
    BY <1>5 DEF Trap, xRET, riscvVMRefreshMPRVDomain, riscvReset
  <2> QED BY <2>1, <2>2, ClearIInv, DomainIInv
<1>6. ASSUME NEW h \in Harts, Suspend(h) \/ Resume(h) PROVE IInv'
  BY <1>6, SwitchIInv
<1>7. CASE riscvSaveState
  BY <1>7 DEF riscvSaveState, IInv, TypeOK, ReservationIntact, WatchedWhileSuspended,
     SavedIntact, Aborted
<1>8. CASE riscvRestoreState
  BY <1>8, RestoreIInv
<1>9. CASE UNCHANGED vars
  BY <1>9, Zenon DEF vars, IInv, TypeOK, ReservationIntact, WatchedWhileSuspended,
     SavedIntact, Aborted
<1> QED BY <1>1, <1>2, <1>3, <1>4, <1>5, <1>6, <1>7, <1>8, <1>9 DEF Next

(* Tags, callbacks and history stay within their types: in particular a    *)
(* callback always names a granule, never the absent tag.                  *)
THEOREM ExclusiveTypeCorrect == Spec => []TypeOK
<1>1. IInv => TypeOK
  BY DEF IInv
<1> QED BY InitIInv, NextIInv, <1>1, PTL DEF Spec

(* No SC can succeed after another hart's store to the reserved granule,   *)
(* for any number of harts, granules and data domains: the tag, the write  *)
(* callbacks and the context switch callback together keep reservations    *)
(* intact.                                                                 *)
THEOREM ReservationsIntact == Spec => []ReservationIntact
<1>1. IInv => ReservationIntact
  BY DEF IInv
<1> QED BY InitIInv, NextIInv, <1>1, PTL DEF Spec

(* A suspended hart's reservation always has a write callback, although    *)
(* resets and domain changes reach suspended harts.                        *)
THEOREM SuspendedWatched == Spec => []WatchedWhileSuspended
<1>1. IInv => WatchedWhileSuspended
  BY DEF IInv
<1> QED BY InitIInv, NextIInv, <1>1, PTL DEF Spec

-----------------------------------------------------------------------------
(* Pairing of callbacks                                                    *)

(* Steps that touch only the running hart, which has no callbacks. *)
LEMMA RunningHartCurrent ==
  ASSUME WatchesCurrent, UNCHANGED <<watches, running>>,
         \A o \in Harts \ {running} : /\ exclusiveTag'[o] = exclusiveTag[o]
                                      /\ dataDomain'[o] = dataDomain[o]
  PROVE  WatchesCurrent'
<1>1. ASSUME NEW x
      PROVE  x \in watches'
               <=> x \in UNION {Watch(h, exclusiveTag'[h], dataDomain'[h]) : h \in Harts \ {running'}}
  <2>1. x \in watches <=> \E h \in Harts \ {running} :
          exclusiveTag[h] # RISCV_NO_TAG /\ x = <<h, dataDomain[h], exclusiveTag[h]>>
    BY DEF WatchesCurrent, Watch
  <2>2. x \in UNION {Watch(h, exclusiveTag'[h], dataDomain'[h]) : h \in Harts \ {running'}}
          <=> \E h \in Harts \ {running} :
                exclusiveTag'[h] # RISCV_NO_TAG /\ x = <<h, dataDomain'[h], exclusiveTag'[h]>>
    BY DEF Watch
  <2> QED BY <2>1, <2>2
<1> QED BY <1>1 DEF WatchesCurrent

(* A store aborts the harts that are watched on its granule, which are the *)
(* suspended ones with that tag, and removes exactly their callbacks.      *)
LEMMA AbortCurrent ==
  ASSUME TypeOK, WatchesCurrent, NEW g \in Granules, NEW hs \in SUBSET Harts,
         Aborted(g) \subseteq hs, hs \subseteq Aborted(g) \cup {running},
         AbortAll(hs), UNCHANGED <<dataDomain, running>>
  PROVE  WatchesCurrent'
<1>1. ASSUME NEW x
      PROVE  x \in watches'
               <=> x \in UNION {Watch(h, exclusiveTag'[h], dataDomain'[h]) : h \in Harts \ {running'}}
  <2>1. x \in watches <=> \E h \in Harts \ {running} :
          exclusiveTag[h] # RISCV_NO_TAG /\ x = <<h, dataDomain[h], exclusiveTag[h]>>
    BY DEF WatchesCurrent, Watch
  <2>2. x \in UNION {Watch(h, exclusiveTag[h], dataDomain[h]) : h \in hs}
          <=> \E h \in hs :
                exclusiveTag[h] # RISCV_NO_TAG /\ x = <<h, dataDomain[h], exclusiveTag[h]>>
    BY DEF Watch
  <2>3. x \in UNION {Watch(h, exclusiveTag'[h], dataDomain'[h]) : h \in Harts \ {running'}}
          <=> \E h \in Harts \ {running} :
                exclusiveTag'[h] # RISCV_NO_TAG /\ x = <<h, dataDomain[h], exclusiveTag'[h]>>
    BY DEF Watch
  <2>4. x \in watches'
          <=> x \in watches /\ x \notin UNION {Watch(h, exclusiveTag[h], dataDomain[h]) : h \in hs}
    BY DEF AbortAll
  <2>5. \A h \in Harts : exclusiveTag'[h] = IF h \in hs THEN RISCV_NO_TAG ELSE exclusiveTag[h]
    BY DEF AbortAll
  <2>6. x \in watches'
          <=> \E h \in Harts \ {running} : h \notin hs /\ exclusiveTag[h] # RISCV_NO_TAG
                                           /\ x = <<h, dataDomain[h], exclusiveTag[h]>>
    BY <2>1, <2>2, <2>4
  <2> QED BY <2>3, <2>5, <2>6
<1> QED BY <1>1 DEF WatchesCurrent

LEMMA SwitchCurrent ==
  ASSUME WatchesCurrent, NEW h \in Harts, Suspend(h) \/ Resume(h)
  PROVE  WatchesCurrent'
<1>0. UNCHANGED <<exclusiveTag, dataDomain>>
  BY DEF Suspend, Resume
<1>1. ASSUME NEW x
      PROVE  x \in watches'
               <=> x \in UNION {Watch(o, exclusiveTag'[o], dataDomain'[o]) : o \in Harts \ {running'}}
  <2>1. x \in watches <=> \E o \in Harts \ {running} :
          exclusiveTag[o] # RISCV_NO_TAG /\ x = <<o, dataDomain[o], exclusiveTag[o]>>
    BY DEF WatchesCurrent, Watch
  <2>2. x \in UNION {Watch(o, exclusiveTag'[o], dataDomain'[o]) : o \in Harts \ {running'}}
          <=> \E o \in Harts \ {running'} :
                exclusiveTag[o] # RISCV_NO_TAG /\ x = <<o, dataDomain[o], exclusiveTag[o]>>
    BY <1>0 DEF Watch
  <2>3. x \in Watch(h, exclusiveTag[h], dataDomain[h])
          <=> exclusiveTag[h] # RISCV_NO_TAG /\ x = <<h, dataDomain[h], exclusiveTag[h]>>
    BY DEF Watch
  <2>4. CASE Suspend(h)
    <3>1. running = h /\ running' = NoHart /\ (x \in watches' <=> x \in watches \/ x \in Watch(h, exclusiveTag[h], dataDomain[h]))
      BY <2>4 DEF Suspend, Installed
    <3> QED BY <2>1, <2>2, <2>3, <3>1, ExclusiveAssumption
  <2>5. CASE Resume(h)
    <3>1. running = NoHart /\ running' = h /\ (x \in watches' <=> x \in watches /\ x \notin Watch(h, exclusiveTag[h], dataDomain[h]))
      BY <2>5 DEF Resume, Removed
    <3> QED BY <2>1, <2>2, <2>3, <3>1, ExclusiveAssumption
  <2> QED BY <2>4, <2>5
<1> QED BY <1>1 DEF WatchesCurrent

LEMMA RestoreCurrent ==
  ASSUME WatchesCurrent, riscvRestoreState
  PROVE  WatchesCurrent'
<1>1. Harts \ {running} = Harts /\ running' = running
  BY ExclusiveAssumption DEF riscvRestoreState
<1>2. watches \ UNION {Watch(h, exclusiveTag[h], dataDomain[h]) : h \in Harts} = {}
  BY <1>1 DEF WatchesCurrent
<1>3. watches' = UNION {Watch(h, exclusiveTag'[h], dataDomain'[h]) : h \in Harts}
  BY <1>2 DEF riscvRestoreState
<1> QED BY <1>1, <1>3 DEF WatchesCurrent

LEMMA NextCurrent ==
  ASSUME TypeOK, [Next]_vars, WatchesCurrent, ~WatchesCurrent'
  PROVE  \E h \in Harts \ {running} : riscvReset(h) \/ riscvVMRefreshMPRVDomain(h)
<1>1. ASSUME NEW h \in Harts, NEW g \in Granules, emitLR(h, g) \/ SCFails(h, g)
      PROVE  FALSE
  BY <1>1, RunningHartCurrent DEF emitLR, SCFails, clearEA, TypeOK
<1>2. ASSUME NEW h \in Harts, NEW g \in Granules, Store(h, g) PROVE FALSE
  <2>1. Aborted(g) \in SUBSET Harts
    BY DEF Aborted
  <2> QED BY <1>2, <2>1, AbortCurrent DEF Store
<1>3. ASSUME NEW h \in Harts, NEW g \in Granules, SCSucceeds(h, g) PROVE FALSE
  <2>1. Aborted(g) \cup {h} \in SUBSET Harts
    BY DEF Aborted
  <2> QED BY <1>3, <2>1, AbortCurrent DEF SCSucceeds
<1>4. ASSUME NEW h \in Harts, running = h,
             Trap(h) \/ xRET(h) \/ riscvReset(h) \/ riscvVMRefreshMPRVDomain(h)
      PROVE  FALSE
  <2>1. UNCHANGED <<watches, running>>
    BY <1>4 DEF Trap, xRET, riscvReset, riscvVMRefreshMPRVDomain, clearEA
  <2>2. ASSUME NEW o \in Harts \ {running}
        PROVE  exclusiveTag'[o] = exclusiveTag[o] /\ dataDomain'[o] = dataDomain[o]
    BY <1>4 DEF Trap, xRET, riscvReset, riscvVMRefreshMPRVDomain, clearEA, TypeOK
  <2> QED BY <2>1, <2>2, RunningHartCurrent
<1>5. ASSUME NEW h \in Harts, Trap(h) \/ xRET(h) PROVE FALSE
  BY <1>4, <1>5 DEF Trap, xRET
<1>6. ASSUME NEW h \in Harts, Suspend(h) \/ Resume(h) PROVE FALSE
  BY <1>6, SwitchCurrent
<1>7. CASE riscvSaveState \/ UNCHANGED vars
  BY <1>7, RunningHartCurrent DEF riscvSaveState, vars
<1>8. CASE riscvRestoreState
  BY <1>8, RestoreCurrent
<1>9. ASSUME NEW h \in Harts, riscvReset(h) \/ riscvVMRefreshMPRVDomain(h)
      PROVE  h \in Harts \ {running}
  BY <1>4, <1>9
<1> QED BY <1>1, <1>2, <1>3, <1>5, <1>6, <1>7, <1>8, <1>9 DEF Next

(* Every callback that is installed is removed again when its reservation  *)
(* ends or its hart runs, and the callbacks are always those of the        *)
(* suspended harts' reservations, until a suspended hart is reset or has   *)
(* its data domain changed.                                                *)
THEOREM CallbacksPaired == Spec => CallbacksPairUp
<1>1. TypeOK /\ [Next]_vars
        => [WatchesCurrent /\ ~WatchesCurrent'
              => \E h \in Harts \ {running} : riscvReset(h) \/ riscvVMRefreshMPRVDomain(h)]_vars
  BY NextCurrent
<1>2. IInv => TypeOK
  BY DEF IInv
<1> QED BY <1>1, <1>2, InitIInv, NextIInv, PTL DEF Spec, CallbacksPairUp

=============================================================================
