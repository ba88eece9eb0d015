------------------------------ MODULE Exclusive ------------------------------
(***************************************************************************)
(* LR/SC between the harts of a platform that the simulator runs one at a  *)
(* time.  A hart keeps the granule it reserved in exclusiveTag.  While it  *)
(* is suspended, a write callback on that granule, installed in its        *)
(* current data domain, lets the stores of the others abort the            *)
(* reservation; while it runs nobody else stores.                          *)
(*                                                                         *)
(* Addresses are granules of lr_sc_grain bytes, with one mapping in all    *)
(* domains.  Stores that no processor makes are ignored by abortEA and     *)
(* left out, as is a debugger's write of the LRSCAddress register.         *)
(***************************************************************************)
EXTENDS Naturals

CONSTANTS
  Harts,
  Granules,
  Domains,            \* the data domains of a hart
  RISCV_NO_TAG,
  NoHart,
  xret_preserves_lr   \* configInfo.xret_preserves_lr

ASSUME ExclusiveAssumption ==
  /\ RISCV_NO_TAG \notin Granules
  /\ NoHart \notin Harts
  /\ Domains # {}
  /\ xret_preserves_lr \in BOOLEAN

VARIABLES
  exclusiveTag,  \* the granule each hart has reserved, or RISCV_NO_TAG
  dataDomain,    \* the current data domain of each hart
  watches,       \* installed write callbacks: hart, domain and granule
  running,       \* the hart being simulated, or NoHart between two
  saved,         \* the saved state: what save and restore carry over
  lastLR,        \* history: the granule of each hart's last LR
  overwritten    \* history: harts whose lastLR granule another hart wrote since

vars == <<exclusiveTag, dataDomain, watches, running, saved, lastLR, overwritten>>

-----------------------------------------------------------------------------
(* The callback of a hart with reservation tag and domain dom, if any. *)
Watch(h, tag, dom) == IF tag = RISCV_NO_TAG THEN {} ELSE {<<h, dom, tag>>}

(* riscvUpdateExclusiveAccessCallback for hart h, with its current domain. *)
Installed(h) == watches \cup Watch(h, exclusiveTag[h], dataDomain[h])
Removed(h)   == watches \ Watch(h, exclusiveTag[h], dataDomain[h])

(* The harts whose abortEA a store to granule g calls. *)
Aborted(g) == {h \in Harts : \E d \in Domains : <<h, d, g>> \in watches}

(* Faulty variant: the tag is cleared before the callback is removed, so   *)
(* there is nothing left to say which one that is.                         *)
AbortAll_ClearFirst(hs) ==
  /\ exclusiveTag' = [h \in Harts |-> IF h \in hs THEN RISCV_NO_TAG ELSE exclusiveTag[h]]
  /\ watches' = watches

(* riscvAbortExclusiveAccess for every hart of hs: remove the callback on  *)
(* the current tag, then clear the tag.                                    *)
AbortAll(hs) ==
  /\ exclusiveTag' = [h \in Harts |-> IF h \in hs THEN RISCV_NO_TAG ELSE exclusiveTag[h]]
  /\ watches' = watches \ UNION {Watch(h, exclusiveTag[h], dataDomain[h]) : h \in hs}

(* History of a store by hart h to granule g. *)
Overwrite(h, g) ==
  /\ overwritten' = overwritten \cup {o \in Harts \ {h} : lastLR[o] = g}
  /\ UNCHANGED lastLR

-----------------------------------------------------------------------------
(* Instructions of the running hart                                        *)

(* startEA, then the load; a faulting load is followed by a Trap. *)
emitLR(h, g) ==
  /\ running = h
  /\ exclusiveTag' = [exclusiveTag EXCEPT ![h] = g]
  /\ lastLR' = [lastLR EXCEPT ![h] = g]
  /\ overwritten' = overwritten \ {h}
  /\ UNCHANGED <<dataDomain, watches, running, saved>>

(* A store or an AMO. *)
Store(h, g) ==
  /\ running = h
  /\ AbortAll(Aborted(g))
  /\ Overwrite(h, g)
  /\ UNCHANGED <<dataDomain, running, saved>>

validateEA(h, g) == exclusiveTag[h] = g

(* A store that commits aborts others like any store; endEA follows it. *)
SCSucceeds(h, g) ==
  /\ running = h
  /\ validateEA(h, g)
  /\ AbortAll(Aborted(g) \cup {h})
  /\ Overwrite(h, g)
  /\ UNCHANGED <<dataDomain, running, saved>>

(* clearEA: the tag alone. *)
clearEA(h) ==
  /\ exclusiveTag' = [exclusiveTag EXCEPT ![h] = RISCV_NO_TAG]
  /\ UNCHANGED <<watches, running, saved, lastLR, overwritten>>

SCFails(h, g) ==
  /\ running = h
  /\ ~validateEA(h, g)
  /\ clearEA(h)
  /\ UNCHANGED dataDomain

(* riscvTakeException, and the returns unless they preserve reservations. *)
Trap(h) ==
  /\ running = h
  /\ clearEA(h)
  /\ \E d \in Domains : dataDomain' = [dataDomain EXCEPT ![h] = d]

xRET(h) ==
  /\ running = h
  /\ IF xret_preserves_lr
     THEN UNCHANGED <<exclusiveTag, watches, running, saved, lastLR, overwritten>>
     ELSE clearEA(h)
  /\ \E d \in Domains : dataDomain' = [dataDomain EXCEPT ![h] = d]

-----------------------------------------------------------------------------
(* Calls made to a hart whether it runs or not                             *)

(* A mode switch by nmiPortCB or by a debugger, or a write of mstatus or   *)
(* satp: riscvVMRefreshMPRVDomain, which leaves callbacks where they are.  *)
riscvVMRefreshMPRVDomain(h) ==
  /\ \E d \in Domains : dataDomain' = [dataDomain EXCEPT ![h] = d]
  /\ UNCHANGED <<exclusiveTag, watches, running, saved, lastLR, overwritten>>

(* riscvReset by the reset port. *)
riscvReset(h) ==
  /\ clearEA(h)
  /\ \E d \in Domains : dataDomain' = [dataDomain EXCEPT ![h] = d]

-----------------------------------------------------------------------------
(* Context switch, save and restore                                        *)

(* Faulty variant: removed on suspension. *)
Suspend_Removes(h) ==
  /\ running = h
  /\ running' = NoHart
  /\ watches' = Removed(h)
  /\ UNCHANGED <<exclusiveTag, dataDomain, saved, lastLR, overwritten>>

(* riscvContextSwitchCB with RS_SUSPEND. *)
Suspend(h) ==
  /\ running = h
  /\ running' = NoHart
  /\ watches' = Installed(h)
  /\ UNCHANGED <<exclusiveTag, dataDomain, saved, lastLR, overwritten>>

(* riscvContextSwitchCB when h is about to run. *)
Resume(h) ==
  /\ running = NoHart
  /\ running' = h
  /\ watches' = Removed(h)
  /\ UNCHANGED <<exclusiveTag, dataDomain, saved, lastLR, overwritten>>

riscvSaveState ==
  /\ running = NoHart
  /\ saved' = [tag |-> exclusiveTag, last |-> lastLR, over |-> overwritten]
  /\ UNCHANGED <<exclusiveTag, dataDomain, watches, running, lastLR, overwritten>>

(* Every core: remove the callback, restore the tag and the mode (hence    *)
(* the domain), install the callback.  Memory and the history come back    *)
(* with the tag.                                                           *)
riscvRestoreState ==
  /\ running = NoHart
  /\ exclusiveTag' = saved.tag
  /\ dataDomain' \in [Harts -> Domains]
  /\ watches' = (watches \ UNION {Watch(h, exclusiveTag[h], dataDomain[h]) : h \in Harts})
                  \cup UNION {Watch(h, exclusiveTag'[h], dataDomain'[h]) : h \in Harts}
  /\ lastLR' = saved.last
  /\ overwritten' = saved.over
  /\ UNCHANGED <<running, saved>>

-----------------------------------------------------------------------------
Init ==
  /\ exclusiveTag = [h \in Harts |-> RISCV_NO_TAG]
  /\ dataDomain \in [Harts -> Domains]
  /\ watches = {}
  /\ running = NoHart
  /\ lastLR = [h \in Harts |-> RISCV_NO_TAG]
  /\ overwritten = {}
  /\ saved = [tag |-> exclusiveTag, last |-> lastLR, over |-> overwritten]

Next ==
  \/ \E h \in Harts, g \in Granules :
       emitLR(h, g) \/ Store(h, g) \/ SCSucceeds(h, g) \/ SCFails(h, g)
  \/ \E h \in Harts :
       \/ Trap(h) \/ xRET(h)
       \/ riscvVMRefreshMPRVDomain(h) \/ riscvReset(h)
       \/ Suspend(h) \/ Resume(h)
  \/ riscvSaveState
  \/ riscvRestoreState

Spec == Init /\ [][Next]_vars

-----------------------------------------------------------------------------
(* Properties                                                              *)

Tags == Granules \cup {RISCV_NO_TAG}

(* The types of the tags, callbacks and history variables. *)
TypeOK ==
  /\ exclusiveTag \in [Harts -> Tags]
  /\ dataDomain \in [Harts -> Domains]
  /\ watches \subseteq Harts \X Domains \X Granules
  /\ running \in Harts \cup {NoHart}
  /\ lastLR \in [Harts -> Tags]
  /\ overwritten \subseteq Harts
  /\ saved \in [tag : [Harts -> Tags], last : [Harts -> Tags], over : SUBSET Harts]

(* A reservation is intact: a hart whose tag would let an SC succeed has   *)
(* made an LR of that granule, and no other hart has written the granule   *)
(* since, through any number of context switches, resets, mode switches    *)
(* and restores.                                                           *)
ReservationIntact ==
  \A h \in Harts : exclusiveTag[h] # RISCV_NO_TAG
                     => exclusiveTag[h] = lastLR[h] /\ h \notin overwritten

(* A suspended hart with a reservation is watched, in some domain. *)
WatchedWhileSuspended ==
  \A h \in Harts \ {running} :
    exclusiveTag[h] # RISCV_NO_TAG => h \in Aborted(exclusiveTag[h])

(* Callbacks are exactly those of the suspended harts' reservations. *)
WatchesCurrent ==
  watches = UNION {Watch(h, exclusiveTag[h], dataDomain[h]) : h \in Harts \ {running}}

(* Installing and removing callbacks always pair up, over aborts, context  *)
(* switches, saves and restores; only a reset or a mode switch of a        *)
(* suspended hart leaves one behind.                                       *)
CallbacksPairUp ==
  [][WatchesCurrent /\ ~WatchesCurrent'
       => \E h \in Harts \ {running} : riscvReset(h) \/ riscvVMRefreshMPRVDomain(h)]_vars

=============================================================================
