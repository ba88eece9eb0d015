-------------------------------- MODULE PMP --------------------------------
(***************************************************************************)
(* The physical memory protection unit of riscvVM.c: the pmpcfg and        *)
(* pmpaddr registers, and the permissions that the unified PMP domains of  *)
(* Machine mode and of the lower modes hold for every address.  A domain   *)
(* is a cache: permissions are set on a miss, for the whole range around   *)
(* the address that the registers treat alike, and removed when a register *)
(* changes.                                                                *)
(*                                                                         *)
(* Addresses are numbers of 4-byte words, the smallest PMP region: every   *)
(* byte bound of the code is 4 * low or 4 * high + 3, so a strict          *)
(* comparison of a low with a high bound in bytes is a weak one of words.  *)
(***************************************************************************)
EXTENDS Integers, FiniteSets, FiniteSetsExt

CONSTANTS
  PMP_registers,  \* implemented entries (configInfo.PMP_registers)
  PMP_grain,      \* configInfo.PMP_grain
  entriesPerCFG,  \* entries in a pmpcfg register: 4 or 8, by XLEN
  AddrBits,       \* bound: bits of a word address (extBits - 2)
  Privs,          \* bound: the privileges that pmpcfg writes select
  WrittenModes,   \* bound: the address modes that are written
  LockedModes,    \* bound: the address modes that are written with L set
  MissModes,      \* bound: the domains that are accessed
  MissWords,      \* bound: the words of an access or mapping
  Artifact        \* bound: whether register writes may be artifact accesses

ASSUME PMPAssumption ==
  /\ PMP_registers \in Nat \ {0}
  /\ PMP_grain \in Nat
  /\ entriesPerCFG \in Nat \ {0}
  /\ AddrBits \in Nat \ {0}
  /\ PMP_grain <= AddrBits
  /\ Privs \subseteq SUBSET {"R", "W", "X"}
  /\ WrittenModes \subseteq {"OFF", "TOR", "NA4", "NAPOT"}
  /\ LockedModes \subseteq WrittenModes
  /\ MissModes \subseteq {"S", "M"}
  /\ MissWords \in Nat
  /\ Artifact \subseteq BOOLEAN

(* Arithmetic of the powers of two that the bounds of regions use. *)
ASSUME PowersOfTwo ==
  /\ \A k \in 0 .. AddrBits : 2^k \in 1 .. 2^AddrBits
  /\ 2^(AddrBits + 1) = 2 * 2^AddrBits

VARIABLES
  pmpcfg,     \* lock bit, address mode and privileges of each entry
  pmpaddr,    \* address register of each entry
  pmpDomains  \* permissions currently set, by mode and word

vars == <<pmpcfg, pmpaddr, pmpDomains>>

Entries == 0 .. PMP_registers - 1
Words   == 0 .. 2^AddrBits - 1
RWX     == {"R", "W", "X"}

(* S stands for every mode below M: they share one domain. *)
PMPModes == {"S", "M"}

AddrModes == {"OFF", "TOR", "NA4", "NAPOT"}
pmpcfgElem == [L : BOOLEAN, mode : AddrModes, priv : SUBSET RWX]

ResetElem == [L |-> FALSE, mode |-> "OFF", priv |-> {}]

-----------------------------------------------------------------------------
(* The region of an entry, for register values cfg and addr                *)

AlignDown(a, n) == a - (a % n)

getEffectivePMPAddr(e, a) ==
  CASE PMP_grain >= 2 /\ e.mode = "NAPOT" ->
         AlignDown(a, 2^(PMP_grain - 1)) + 2^(PMP_grain - 1) - 1
    [] PMP_grain >= 1 /\ e.mode # "NAPOT" -> AlignDown(a, 2^PMP_grain)
    [] OTHER -> a

getPMPRegionActive(e, a) ==
  /\ e.mode # "OFF"
  /\ e.mode = "TOR" => getEffectivePMPAddr(e, a) # 0

(* Twice the lowest bit of a NAPOT address that is zero. *)
NAPOTSize(a) == 2 * 2^Min({k \in 0 .. AddrBits + 1 : (a \div 2^k) % 2 = 0})

getPMPEntryBounds(cfg, addr, i) ==
  LET a    == getEffectivePMPAddr(cfg[i], addr[i])
      size == NAPOTSize(a)
  IN CASE cfg[i].mode = "NA4" -> [low |-> a, high |-> a]
       [] cfg[i].mode = "NAPOT" ->
            [low |-> AlignDown(a, size), high |-> AlignDown(a, size) + size - 1]
       [] OTHER ->
            [low  |-> IF i = 0 THEN 0 ELSE AlignDown(addr[i - 1], 2^PMP_grain),
             high |-> a - 1]

(* The words an entry matches: none if inactive, or TOR with low > high. *)
Region(cfg, addr, i) ==
  LET b == getPMPEntryBounds(cfg, addr, i)
  IN IF getPMPRegionActive(cfg[i], addr[i]) THEN b.low .. b.high ELSE {}

-----------------------------------------------------------------------------
(* Invalidation                                                            *)

(* Faulty variant: only the entry's own lock counts. *)
lowerPriorityPMPEntryLocked_Never(cfg, i) == FALSE

lowerPriorityPMPEntryLocked(cfg, i) ==
  \E j \in Entries : j > i /\ cfg[j].L /\ cfg[j].mode # "OFF"

(* The words whose permissions invalidatePMPEntry removes from a domain. *)
invalidatePMPEntry(cfg, addr, i, m) ==
  IF m = "S" \/ cfg[i].L \/ lowerPriorityPMPEntryLocked(cfg, i)
  THEN Region(cfg, addr, i) ELSE {}

(* Permissions after the words Gone(m) have been invalidated. *)
Without(Gone(_)) ==
  [m \in PMPModes |-> [w \in Words |->
     IF w \in Gone(m) THEN {} ELSE pmpDomains[m][w]]]

-----------------------------------------------------------------------------
(* Register writes                                                         *)

pmpLocked(i, artifact) == ~artifact /\ pmpcfg[i].L

(* Faulty variant: a locked TOR entry does not protect its lower bound. *)
pmpLockedTOR_Never(i, artifact) == FALSE

pmpLockedTOR(i, artifact) ==
  i \in Entries /\ pmpcfg[i].mode = "TOR" /\ pmpLocked(i, artifact)

(* With a grain, NA4 is not selectable. *)
SelectableElem(i, e) ==
  IF PMP_grain > 0 /\ e.mode = "NA4" THEN [e EXCEPT !.mode = pmpcfg[i].mode] ELSE e

CfgEntries(offset) == {i \in Entries : i \div entriesPerCFG = offset}

(* Entries are handled from the last to the first, each invalidated by its *)
(* old and by its new value when those after it have their new values.     *)
riscvVMWritePMPCFG(offset, new, artifact) ==
  LET final     == [i \in Entries |->
                      IF i \in CfgEntries(offset) /\ ~pmpLocked(i, artifact)
                      THEN SelectableElem(i, new[i]) ELSE pmpcfg[i]]
      Before(i) == [j \in Entries |-> IF j > i THEN final[j] ELSE pmpcfg[j]]
      Gone(m)   == UNION {invalidatePMPEntry(Before(i), pmpaddr, i, m)
                            \cup invalidatePMPEntry(final, pmpaddr, i, m) :
                            i \in {j \in Entries : final[j] # pmpcfg[j]}}
  IN /\ pmpcfg' = final
     /\ pmpDomains' = Without(Gone)
     /\ UNCHANGED pmpaddr

(* The implemented bits of an address register, down to the grain. *)
WritableAddr(a) ==
  LET masked == a % 2^AddrBits
  IN IF PMP_grain > 0 THEN AlignDown(masked, 2^(PMP_grain - 1)) ELSE masked

(* A write that changes nothing, or that a lock refuses, does nothing. *)
riscvVMWritePMPAddr(i, newValue, artifact) ==
  LET v       == WritableAddr(newValue)
      addr    == [pmpaddr EXCEPT ![i] = v]
      Gone(m) == invalidatePMPEntry(pmpcfg, pmpaddr, i, m)
                   \cup invalidatePMPEntry(pmpcfg, addr, i, m)
  IN /\ pmpaddr[i] # v
     /\ ~pmpLocked(i, artifact)
     /\ ~pmpLockedTOR(i + 1, artifact)
     /\ pmpaddr' = addr
     /\ pmpDomains' = Without(Gone)
     /\ UNCHANGED pmpcfg

(* Entries are reset from the first to the last, so that a TOR entry is    *)
(* invalidated when its lower bound is already zero.                       *)
riscvVMResetPMP ==
  LET Addr(i) == [j \in Entries |-> IF j < i THEN 0 ELSE pmpaddr[j]]
      Gone(m) == UNION {invalidatePMPEntry(pmpcfg, Addr(i), i, m) : i \in Entries}
  IN /\ pmpcfg' = [i \in Entries |-> ResetElem]
     /\ pmpaddr' = [i \in Entries |-> 0]
     /\ pmpDomains' = Without(Gone)

-----------------------------------------------------------------------------
(* Misses                                                                  *)

EntryPriv(m, e) == IF m # "M" \/ e.L THEN e.priv ELSE RWX

(* Faulty variant: the part above the address includes the entry's start. *)
refinePMPRegionRange_Inclusive(m, PA, i, r) ==
  LET b == getPMPEntryBounds(pmpcfg, pmpaddr, i)
  IN IF ~getPMPRegionActive(pmpcfg[i], pmpaddr[i]) \/ b.low > b.high THEN r
     ELSE CASE b.low <= PA /\ PA <= b.high ->
                 [low |-> b.low, high |-> b.high, priv |-> EntryPriv(m, pmpcfg[i])]
            [] b.low > PA /\ b.low <= r.high -> [r EXCEPT !.high = b.low]
            [] b.high < PA /\ b.high >= r.low -> [r EXCEPT !.low = b.high + 1]
            [] OTHER -> r

(* The range r around PA, with its privileges, as entry i refines it. *)
refinePMPRegionRange(m, PA, i, r) ==
  LET b == getPMPEntryBounds(pmpcfg, pmpaddr, i)
  IN IF ~getPMPRegionActive(pmpcfg[i], pmpaddr[i]) \/ b.low > b.high THEN r
     ELSE CASE b.low <= PA /\ PA <= b.high ->
                 [low |-> b.low, high |-> b.high, priv |-> EntryPriv(m, pmpcfg[i])]
            [] b.low > PA /\ b.low <= r.high -> [r EXCEPT !.high = b.low - 1]
            [] b.high < PA /\ b.high >= r.low -> [r EXCEPT !.low = b.high + 1]
            [] OTHER -> r

(* All entries, in lowest-to-highest priority order. *)
mapPMPInt(m, PA) ==
  LET refined[i \in 0..PMP_registers] ==
        IF i = PMP_registers
        THEN [low |-> 0, high |-> 2^AddrBits - 1, priv |-> IF m = "M" THEN RWX ELSE {}]
        ELSE refinePMPRegionRange(m, PA, i, refined[i + 1])
  IN refined[0]

(* Permissions of a domain after those of range r have been set. *)
setPMPPriv(perms, r) ==
  [w \in Words |-> IF r.low <= w /\ w <= r.high THEN r.priv ELSE perms[w]]

(* Faulty variant: only the range of the first address is mapped. *)
mapPMP_FirstRange(m, lowPA, lastPA) ==
  /\ pmpDomains' = [pmpDomains EXCEPT ![m] = setPMPPriv(@, mapPMPInt(m, lowPA))]
  /\ UNCHANGED <<pmpcfg, pmpaddr>>

(* The permissions of mode m after ranges have been mapped one after the   *)
(* other until lastPA is covered.                                          *)
RangesMapped(m, lowPA, lastPA) ==
  LET mapped[PA \in Words] ==
        [perms \in [Words -> SUBSET RWX] |->
           LET r   == mapPMPInt(m, PA)
               new == setPMPPriv(perms, r)
           IN IF r.high < lastPA THEN mapped[r.high + 1][new] ELSE new]
  IN mapped[lowPA][pmpDomains[m]]

mapPMP(m, lowPA, lastPA) ==
  /\ pmpDomains' = [pmpDomains EXCEPT ![m] = RangesMapped(m, lowPA, lastPA)]
  /\ UNCHANGED <<pmpcfg, pmpaddr>>

-----------------------------------------------------------------------------
(* createPMPDomain removes all permissions; the registers are zero. *)
Init ==
  /\ pmpcfg = [i \in Entries |-> ResetElem]
  /\ pmpaddr = [i \in Entries |-> 0]
  /\ pmpDomains = [m \in PMPModes |-> [w \in Words |-> {}]]

(* What software writes to an entry, within the bounds. *)
Writable == {e \in [L : BOOLEAN, mode : WrittenModes, priv : Privs] :
               e.L => e.mode \in LockedModes}

(* Writes of one pmpcfg register: WM64_pmpcfg leaves L, mode and priv. *)
pmpcfgW(artifact) ==
  \E offset \in {i \div entriesPerCFG : i \in Entries} :
    \E new \in [CfgEntries(offset) -> Writable] :
      riscvVMWritePMPCFG(offset, new, artifact)

(* Values of one bit more than is implemented. *)
pmpaddrW(artifact) ==
  \E i \in Entries, v \in 0 .. 2^(AddrBits + 1) - 1 : riscvVMWritePMPAddr(i, v, artifact)

(* A miss of an access, or a new TLB mapping, in the domain of a mode. *)
riscvVMMiss ==
  \E m \in MissModes, lowPA \in Words, lastPA \in Words :
    /\ lastPA - lowPA \in 0 .. MissWords - 1
    /\ mapPMP(m, lowPA, lastPA)

Next ==
  \/ \E artifact \in Artifact : pmpcfgW(artifact)
  \/ \E artifact \in Artifact : pmpaddrW(artifact)
  \/ riscvVMResetPMP
  \/ riscvVMMiss

Spec == Init /\ [][Next]_vars

-----------------------------------------------------------------------------
(* Properties                                                              *)

(* The fields of every register, and a permission for every word. *)
TypeOK ==
  /\ pmpcfg \in [Entries -> pmpcfgElem]
  /\ pmpaddr \in [Entries -> Words]
  /\ pmpDomains \in [PMPModes -> [Words -> SUBSET RWX]]

(* What the unit promises: the first entry that matches a word decides,    *)
(* and binds Machine mode only if it is locked; without a match Machine    *)
(* mode has every privilege and the other modes none.                      *)
Matching(w) == {i \in Entries : w \in Region(pmpcfg, pmpaddr, i)}

AllowedBy(m, entries) ==
  IF entries = {} THEN IF m = "M" THEN RWX ELSE {}
  ELSE EntryPriv(m, pmpcfg[Min(entries)])

Allowed(m, w) == AllowedBy(m, Matching(w))

(* A range that mapPMPInt computes contains the address it was asked for,  *)
(* and the first matching entry gives every word of it the same privileges *)
(* as the loop over refinePMPRegionRange found, however entries overlap.   *)
RangeUniform ==
  \A m \in PMPModes, PA \in Words :
    LET r == mapPMPInt(m, PA)
    IN /\ PA \in r.low .. r.high
       /\ \A w \in (r.low .. r.high) \cap Words : Allowed(m, w) = r.priv

(* No domain holds a permission that the registers do not give. *)
DomainsCurrent ==
  \A w \in Words :
    LET entries == Matching(w)
    IN \A m \in PMPModes : pmpDomains[m][w] \subseteq AllowedBy(m, entries)

(* A write of an address register that is the lower bound of a TOR entry. *)
MovesTORBound ==
  \E i \in Entries : /\ i + 1 \in Entries
                     /\ pmpcfg[i + 1].mode = "TOR"
                     /\ pmpaddr'[i] # pmpaddr[i]

(* Every register write, reset and miss keeps the domains within what the  *)
(* registers give, whatever entries it reveals, conceals, locks or moves;  *)
(* the exception is a write of pmpaddr[i] below a TOR entry i + 1, which   *)
(* riscvVMWritePMPAddr invalidates for entry i only.                       *)
WritesInvalidate == [][~DomainsCurrent' => ~DomainsCurrent \/ MovesTORBound]_vars

(* After a miss all of the range that missed has exactly the privileges    *)
(* the registers give it, over any number of region boundaries.            *)
MissMapsRange ==
  [][\A m \in PMPModes, lowPA, lastPA \in Words :
       lowPA <= lastPA /\ mapPMP(m, lowPA, lastPA)
         => \A w \in lowPA .. lastPA : pmpDomains'[m][w] = Allowed(m, w)]_vars

(* Where only instructions write the registers (Artifact = {FALSE}), only  *)
(* reset moves the region of a locked entry or changes its privileges: no  *)
(* write does, not even of the address below a locked TOR entry.           *)
LockedRegionFixed ==
  [][\A i \in Entries :
       \/ ~pmpcfg[i].L
       \/ /\ pmpcfg'[i] = pmpcfg[i]
          /\ Region(pmpcfg', pmpaddr', i) = Region(pmpcfg, pmpaddr, i)
       \/ riscvVMResetPMP]_vars

=============================================================================
