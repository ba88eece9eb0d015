-------------------------------- MODULE TLB --------------------------------
(***************************************************************************)
(* Address translation in riscvVM.c.  Two caches lie between an access and *)
(* the page tables: the TLB entries, and the aliases in the virtual memory *)
(* domains of each mode through which the simulator makes accesses without *)
(* calling the model.  An alias applies to the simulated ASID it was made  *)
(* with, which holds mstatus.MXR and mstatus.SUM as well as satp.ASID.     *)
(*                                                                         *)
(* Addresses are page numbers.  Walks that are artifact accesses by a CSR  *)
(* callback are left out (no callback of the model makes one), as are the  *)
(* PMP and PMA attributes of what is mapped: see PMP.  The simulator keeps *)
(* the order of overlapping TLB entries, so any that matches may be found; *)
(* entries that are equal are one.                                         *)
(***************************************************************************)
EXTENDS Integers, FiniteSets

CONSTANTS
  VPN_SHIFT,    \* bound: bits of a VPN[i] (SV32_VPN_SHIFT and the others)
  VABits,       \* bound: bits of a virtual page number, VPNextend included
  Tables,       \* bound: physical pages that hold page tables and can be read
  ROTables,     \* those that cannot be written
  PTEs,         \* bound: the values of a page table entry
  PTEWrites,    \* bound: what is written to page table entries, and where
  Mem0,         \* bound: the page tables at first
  Sv_modes,     \* configInfo.Sv_modes: 0 (bare), 1 (Sv32), 8 (Sv39), 9 (Sv48)
  ASID_bits,    \* implemented bits of satp.ASID
  updatePTEA,   \* configInfo.updatePTEA
  updatePTED,   \* configInfo.updatePTED
  priv_1_11,    \* RISCV_PRIV_VERSION >= RVPV_1_11
  unified,      \* code and data domains are the same
  vmiPageMax,   \* bound: pages of the largest alias (4Gb)
  MissVAs,      \* bound: the pages at which accesses start
  MissPages,    \* bound: the pages an access may touch
  MaxEntries,   \* bound: the TLB entries (the code has no limit)
  Statuses,     \* bound: the values of mstatus.MXR and mstatus.SUM
  Artifact,     \* bound: whether accesses may be artifact accesses
  Roots,        \* bound: the root tables given to satp
  Saves         \* bound: the TLB sizes of states that are saved

PTERecords == [V : BOOLEAN, priv : SUBSET {"R", "W", "X"}, U : BOOLEAN, G : BOOLEAN,
               A : BOOLEAN, D : BOOLEAN, PPN : Nat]
PTEAddrs   == Tables \X (0 .. 2^VPN_SHIFT - 1)
VAs        == 0 .. 2^VABits - 1
ASIDs      == 0 .. 2^ASID_bits - 1

ASSUME TLBAssumption ==
  /\ VPN_SHIFT \in Nat \ {0} /\ VABits \in Nat /\ vmiPageMax \in Nat \ {0}
  /\ Tables \subseteq Nat /\ ROTables \subseteq Tables /\ Roots \subseteq Tables
  /\ 0 \in Sv_modes /\ Sv_modes \subseteq {0, 1, 8, 9}
  /\ ASID_bits \in Nat
  /\ {updatePTEA, updatePTED, priv_1_11, unified} \subseteq BOOLEAN
  /\ Artifact \subseteq BOOLEAN
  /\ Statuses \subseteq [MXR : BOOLEAN, SUM : BOOLEAN]
  /\ PTEs \subseteq PTERecords
  /\ Mem0 \in [PTEAddrs -> PTEs] /\ PTEWrites \subseteq PTEAddrs \X PTEs
  /\ MissVAs \subseteq VAs /\ MissPages \in Nat

(* Page sizes, the largest alias and the ASIDs are powers of two. *)
ASSUME PowersOfTwo ==
  /\ 2^VPN_SHIFT \in Nat \ {0} /\ 2^VABits \in Nat \ {0} /\ 2^ASID_bits \in Nat \ {0}
  /\ ASID_bits # 0 => 2^ASID_bits > 1
  /\ \A i \in 0..3 :
       /\ 2^(i * VPN_SHIFT) \in Nat \ {0}
       /\ 2^(i * VPN_SHIFT) > vmiPageMax => 2^(i * VPN_SHIFT) % vmiPageMax = 0

(* Virtual addresses have the page numbers of the modes implemented, and   *)
(* the bits that extend them.                                              *)
ASSUME AddressBits ==
  \A MODE \in Sv_modes \cap {8, 9} :
    LET bits == (MODE - 5) * VPN_SHIFT
    IN /\ 2^(bits - 1) \in Nat \ {0} /\ 2^(VABits - bits) \in Nat \ {0}
       /\ 2^bits = 2 * 2^(bits - 1) /\ 2^VABits = 2^(VABits - bits) * 2^bits

VARIABLES
  mem,       \* the page table entries, by table and index
  satp,
  status,    \* mstatus.MXR and mstatus.SUM
  procASID,  \* the simulated ASID given to vmirtSetProcessorASID
  tlb,       \* the TLB entries
  maps,      \* the pages aliased in the virtual domains
  access,    \* the access that riscvVMMiss is handling, an outcome, or NoAccess
  saved      \* the saved state

vars == <<mem, satp, status, procASID, tlb, maps, access, saved>>

AccessModes == {"U", "S"}
NoAccess    == [mode |-> "none"]
Outcome(o)  == [mode |-> "done", out |-> o]

(* riscvVMMiss is at work. *)
Missing == access.mode \in AccessModes

-----------------------------------------------------------------------------
(* The simulated ASID                                                      *)

SimASID(s, st) == [ASID |-> s.ASID, MXR |-> st.MXR, SUM |-> st.SUM]

getSimASID == SimASID(satp, status)

(* Faulty variant: MXR is not part of what an alias depends on. *)
getEntryASIDMask_NoMXR(e, mode) ==
  (IF e.G THEN {} ELSE {"ASID"}) \cup (IF e.U /\ mode = "S" THEN {"SUM"} ELSE {})

(* The fields of the simulated ASID that an alias of entry e depends on. *)
getEntryASIDMask(e, mode) ==
  {"MXR"} \cup (IF e.G THEN {} ELSE {"ASID"})
          \cup (IF e.U /\ mode = "S" THEN {"SUM"} ELSE {})

MaskedASID(e, mode, asid) == [f \in getEntryASIDMask(e, mode) |-> asid[f]]

EntryTag(e, mode) == MaskedASID(e, mode, e.simASID)

-----------------------------------------------------------------------------
(* Page table walk                                                         *)

checkEntryPermission(mode, e, acc) ==
  LET withMXR == IF "X" \in e.priv /\ status.MXR THEN e.priv \cup {"R"} ELSE e.priv
      priv    == CASE mode = "U" /\ ~e.U                -> {}
                   [] mode = "S" /\ e.U /\ ~status.SUM  -> {}
                   [] mode = "S" /\ e.U /\ status.SUM /\ priv_1_11 -> withMXR \ {"X"}
                   [] OTHER -> withMXR
  IN IF acc \in priv THEN priv ELSE {}

getVPNi(va, i) == (va \div 2^(i * VPN_SHIFT)) % 2^VPN_SHIFT

(* What the entry of table a at level i is: a pointer, a leaf or an error. *)
WalkEntry(va, i, a) ==
  LET addr == <<a, getVPNi(va, i)>>
      pte  == mem[addr]
  IN IF i < 0 THEN [error |-> "LEAF"]
     ELSE IF a \notin Tables THEN [error |-> "READ"]
     ELSE IF ~pte.V THEN [error |-> "V0"]
     ELSE IF pte.priv \cap {"R", "W"} = {"W"} THEN [error |-> "R0W1"]
     ELSE IF pte.priv # {} THEN [error |-> "none", level |-> i, addr |-> addr]
     ELSE [error |-> "pointer", PPN |-> pte.PPN]

(* Follow pointers from the root table, as far as a leaf or an error. *)
WalkFrom(va, level, root) ==
  LET walk[i \in -1..3] ==
        IF i >= level THEN WalkEntry(va, level, root)
        ELSE IF walk[i + 1].error = "pointer" THEN WalkEntry(va, i, walk[i + 1].PPN)
        ELSE walk[i + 1]
  IN walk[-1]

getG(G) == G \/ ASID_bits = 0

(* The TLB entry for va that leaf pte at level i makes. *)
NewEntry(va, i, pte) ==
  LET size == 2^(i * VPN_SHIFT)
      low  == va - (va % size)
  IN [low |-> low, high |-> low + size - 1, PA |-> pte.PPN,
      simASID |-> [ASID |-> 0, MXR |-> FALSE, SUM |-> FALSE], isMapped |-> {},
      priv |-> pte.priv, U |-> pte.U, G |-> getG(pte.G), D |-> pte.D]

MarkPTE(pte, acc) == [pte EXCEPT !.A = TRUE, !.D = @ \/ acc = "W"]

(* What the walk finds: an error, or the entry with A and D as they become *)
(* and the page table entry to be written back.                            *)
LookupLeaf(mode, va, acc, w) ==
  LET pte  == mem[w.addr]
      mark == MarkPTE(pte, acc)
      new  == NewEntry(va, w.level, mark)
  IN IF pte.PPN % 2^(w.level * VPN_SHIFT) # 0 THEN [error |-> "ALIGN"]
     ELSE IF checkEntryPermission(mode, new, acc) = {} THEN [error |-> "PRIV"]
     ELSE IF ~pte.A /\ ~updatePTEA THEN [error |-> "A0"]
     ELSE IF acc = "W" /\ ~pte.D /\ ~updatePTED THEN [error |-> "D0"]
     ELSE IF mark # pte /\ w.addr[1] \in ROTables THEN [error |-> "WRITE"]
     ELSE [error |-> "none", entry |-> new, addr |-> w.addr, pte |-> mark]

Lookup(mode, va, acc, levels) ==
  LET w == WalkFrom(va, levels - 1, satp.PPN)
  IN IF w.error # "none" THEN w ELSE LookupLeaf(mode, va, acc, w)

tlbLookupSv32(mode, va, acc) == Lookup(mode, va, acc, 2)

(* VPNextend must extend VPN. *)
validVA(va, levels) ==
  LET bits == levels * VPN_SHIFT
      ext  == va \div 2^bits
  IN IF (va % 2^bits) < 2^(bits - 1) THEN ext = 0 ELSE ext = 2^(VABits - bits) - 1

tlbLookupSv39(mode, va, acc) ==
  IF validVA(va, 3) THEN Lookup(mode, va, acc, 3) ELSE [error |-> "VAEXTEND"]

tlbLookupSv48(mode, va, acc) ==
  IF validVA(va, 4) THEN Lookup(mode, va, acc, 4) ELSE [error |-> "VAEXTEND"]

tlbLookup(mode, va, acc) ==
  CASE satp.MODE = 1 -> tlbLookupSv32(mode, va, acc)
    [] satp.MODE = 8 -> tlbLookupSv39(mode, va, acc)
    [] satp.MODE = 9 -> tlbLookupSv48(mode, va, acc)

handlePTWException(error) == IF error \in {"READ", "WRITE"} THEN "access" ELSE "page"

-----------------------------------------------------------------------------
(* TLB entries and aliases                                                 *)

Covers(e, va) == e.low <= va /\ va <= e.high

matchASID(e, asid) == e.G \/ e.simASID.ASID = asid

(* The aliases ms without those of entry e in the given modes, in which it *)
(* is only then no longer mapped.                                          *)
deleteTLBEntryMappingsMode(ms, e, modes) ==
  {m \in ms : ~ /\ m.mode \in modes \cap e.isMapped
                /\ Covers(e, m.va)
                /\ m.tag = EntryTag(e, m.mode)}

unmapTLBEntry(ms, e) == deleteTLBEntryMappingsMode(ms, e, AccessModes)

(* The modes in which the new simulated ASID is another for entry e. *)
NewASIDModes(e, asid) == {mode \in AccessModes : MaskedASID(e, mode, asid) # EntryTag(e, mode)}

unmapTLBEntryNewASID(ms, e, asid) ==
  deleteTLBEntryMappingsMode(ms, e, NewASIDModes(e, asid))

(* Delete the entries del of the TLB. *)
WithoutEntries(ms, del) ==
  {m \in ms : \A e \in del : m \in unmapTLBEntry({m}, e)}

Code(acc) == ~unified /\ acc = "X"

(* The range that is aliased for va: the entry, up to the VMI maximum. *)
MappedRange(e, va) ==
  IF e.high - e.low + 1 > vmiPageMax
  THEN [low |-> va - (va % vmiPageMax), high |-> va - (va % vmiPageMax) + vmiPageMax - 1]
  ELSE [low |-> e.low, high |-> e.high]

(* The privileges of the alias: no write privilege if not dirty. *)
MappedPriv(mode, e, acc) ==
  checkEntryPermission(mode, e, acc) \ (IF e.D THEN {} ELSE {"W"})

(* The entry once it is aliased for the present simulated ASID. *)
MappedEntry(e, mode) ==
  [e EXCEPT !.simASID = getSimASID,
            !.isMapped = (@ \ NewASIDModes(e, getSimASID)) \cup {mode}]

(* Aliases ms with those of entry e for va in the domain of the access. *)
mapTLBEntry(ms, e, va, mode, acc) ==
  LET r   == MappedRange(e, va)
      new == {[mode |-> mode, code |-> Code(acc), va |-> v, PA |-> e.PA + (v - e.low),
               priv |-> MappedPriv(mode, e, acc),
               tag |-> MaskedASID(e, mode, getSimASID)] : v \in r.low .. r.high}
  IN {m \in ms : \A n \in new : <<m.mode, m.code, m.va, m.tag>> # <<n.mode, n.code, n.va, n.tag>>}
       \cup new

-----------------------------------------------------------------------------
(* Accesses                                                                *)

(* An alias that lets the simulator make the access by itself. *)
VisibleIn(ms, asid, mode, va, acc) ==
  {m \in ms : /\ m.mode = mode /\ m.code = Code(acc) /\ m.va = va
              /\ acc \in m.priv
              /\ m.tag = [f \in DOMAIN m.tag |-> asid[f]]}

Visible(mode, va, acc) == VisibleIn(maps, procASID, mode, va, acc)

Use(mode, va, acc) ==
  /\ access = NoAccess /\ satp.MODE # 0
  /\ \E m \in Visible(mode, va, acc) :
       access' = Outcome([mode |-> mode, va |-> va, acc |-> acc, PA |-> m.PA])
  /\ UNCHANGED <<mem, satp, status, procASID, tlb, maps, saved>>

(* The instruction goes on, or the exception is taken. *)
Retire ==
  /\ access.mode = "done"
  /\ access' = NoAccess
  /\ UNCHANGED <<mem, satp, status, procASID, tlb, maps, saved>>

(* Some page of the access has no alias.  All its pages are handled in     *)
(* turn.                                                                   *)
riscvVMMiss(mode, va, last, acc, artifact) ==
  /\ access = NoAccess /\ satp.MODE # 0
  /\ Cardinality(tlb) + (last - va + 1) <= MaxEntries
  /\ \E v \in va .. last : Visible(mode, v, acc) = {}
  /\ access' = [mode |-> mode, first |-> va, next |-> va, last |-> last, acc |-> acc,
                artifact |-> artifact]
  /\ UNCHANGED <<mem, satp, status, procASID, tlb, maps, saved>>

riscvRdPrivExcept(mode, va, last, artifact) == riscvVMMiss(mode, va, last, "R", artifact)

riscvWrPrivExcept(mode, va, last, artifact) == riscvVMMiss(mode, va, last, "W", artifact)

(* A fetch is of two bytes, an artifact access if it is not completed. *)
validateFetchAddressInt(mode, va, complete) == riscvVMMiss(mode, va, va, "X", ~complete)

(* The entry findTLBEntry returns, as a set: empty if there is none. *)
findTLBEntry(va) ==
  LET match == {e \in tlb : Covers(e, va) /\ matchASID(e, satp.ASID)}
  IN IF match = {} THEN {{}} ELSE {{e} : e \in match}

(* validateTLBEntryPriv: an entry may be used, or is not dirty and         *)
(* discarded by a write, or is passed over.                                *)
Adequate(e) == checkEntryPermission(access.mode, e, access.acc) # {}
Clean(e)    == access.acc = "W" /\ ~e.D

Discarded(found) == {e \in found : Adequate(e) /\ Clean(e)}
Usable(found)    == {e \in found : Adequate(e) /\ ~Clean(e)}

(* The rest of tlbMiss for entry e, with aliases ms and other entries es;  *)
(* riscvVMMiss goes on to the page after the range that is now aliased.    *)
MapEntry(e, es, ms) ==
  LET r == MappedRange(e, access.next)
  IN /\ tlb' = es \cup {MappedEntry(e, access.mode)}
     /\ maps' = mapTLBEntry(unmapTLBEntryNewASID(ms, e, getSimASID),
                            e, access.next, access.mode, access.acc)
     /\ access' = IF r.low <= access.last /\ access.last <= r.high THEN NoAccess
                  ELSE [access EXCEPT !.next = r.high + 1]

tlbMissFound ==
  /\ Missing
  /\ \E found \in findTLBEntry(access.next) : \E e \in Usable(found) :
       MapEntry(e, tlb \ {e}, maps)
  /\ UNCHANGED <<mem, satp, status, procASID, saved>>

tlbMissWalk ==
  /\ Missing
  /\ \E found \in findTLBEntry(access.next) :
       LET del == Discarded(found)
           l   == tlbLookup(access.mode, access.next, access.acc)
       IN /\ Usable(found) = {}
          /\ l.error = "none"
          /\ mem' = [mem EXCEPT ![l.addr] = l.pte]
          /\ MapEntry(l.entry, tlb \ del, WithoutEntries(maps, del))
  /\ UNCHANGED <<satp, status, procASID, saved>>

(* handleInvalidAccess: no exception if this is an artifact access. *)
tlbMissFault ==
  /\ Missing
  /\ \E found \in findTLBEntry(access.next) :
       LET del == Discarded(found)
           l   == tlbLookup(access.mode, access.next, access.acc)
       IN /\ Usable(found) = {}
          /\ l.error # "none"
          /\ tlb' = tlb \ del
          /\ maps' = WithoutEntries(maps, del)
          /\ access' = IF access.artifact THEN NoAccess
                       ELSE Outcome([mode |-> access.mode, va |-> access.next, acc |-> access.acc,
                                     fault |-> handlePTWException(l.error)])
  /\ UNCHANGED <<mem, satp, status, procASID, saved>>

-----------------------------------------------------------------------------
(* SFENCE.VMA                                                              *)

(* Delete the entries del, and with them their aliases. *)
invalidateTLBEntriesRange(del, vas, asids) ==
  /\ access = NoAccess
  /\ tlb' = tlb \ del
  /\ maps' = WithoutEntries(maps, del)
  /\ access' = Outcome([vas |-> vas, asids |-> asids])
  /\ UNCHANGED <<mem, satp, status, procASID, saved>>

(* Faulty variant: the entries of the other ASIDs go.                      *)
DeletedForASID_Other(e, asid) == ASID_bits = 0 \/ (~e.G /\ e.simASID.ASID # asid)

(* deleteTLBEntryMode with MM_ASID. *)
DeletedForASID(e, asid) == ASID_bits = 0 \/ (~e.G /\ matchASID(e, asid))

maskASID(asid) == asid % 2^ASID_bits

riscvVMInvalidateAll == invalidateTLBEntriesRange(tlb, VAs, ASIDs)

riscvVMInvalidateAllASID(asid) ==
  invalidateTLBEntriesRange({e \in tlb : DeletedForASID(e, maskASID(asid))},
                            VAs, {maskASID(asid)})

riscvVMInvalidateVA(va) ==
  invalidateTLBEntriesRange({e \in tlb : Covers(e, va)}, {va}, ASIDs)

riscvVMInvalidateVAASID(va, asid) ==
  invalidateTLBEntriesRange(
    {e \in tlb : Covers(e, va) /\ DeletedForASID(e, maskASID(asid))}, {va}, {maskASID(asid)})

-----------------------------------------------------------------------------
(* Writes of memory, satp and mstatus; save and restore                    *)

WritePTE(addr, pte) ==
  /\ access = NoAccess
  /\ mem' = [mem EXCEPT ![addr] = pte]
  /\ UNCHANGED <<satp, status, procASID, tlb, maps, access, saved>>

(* Faulty variant: a write of satp leaves the simulated ASID alone. *)
satpW_NoASID(MODE, asid, PPN) ==
  /\ access = NoAccess
  /\ MODE \in Sv_modes
  /\ satp' = [MODE |-> MODE, ASID |-> maskASID(asid), PPN |-> PPN]
  /\ UNCHANGED <<mem, status, procASID, tlb, maps, access, saved>>

(* A write with a mode that is not implemented is reverted. *)
satpW(MODE, asid, PPN) ==
  /\ access = NoAccess
  /\ MODE \in Sv_modes
  /\ satp' = [MODE |-> MODE, ASID |-> maskASID(asid), PPN |-> PPN]
  /\ procASID' = SimASID(satp', status)
  /\ UNCHANGED <<mem, status, tlb, maps, access, saved>>

statusW(mxr, sum) ==
  /\ access = NoAccess
  /\ status' = [MXR |-> mxr, SUM |-> sum]
  /\ procASID' = SimASID(satp, status')
  /\ UNCHANGED <<mem, satp, tlb, maps, access, saved>>

(* riscvVMSave: entries are saved as not mapped. *)
riscvVMSave ==
  /\ Cardinality(tlb) \in Saves /\ access = NoAccess
  /\ saved' = [mem |-> mem, satp |-> satp, status |-> status,
               tlb |-> {[e EXCEPT !.isMapped = {}] : e \in tlb}]
  /\ UNCHANGED <<mem, satp, status, procASID, tlb, maps, access>>

(* Faulty variant: entries that are mapped are forgotten, their aliases    *)
(* not deleted.                                                            *)
riscvVMRestore_NoUnmap ==
  /\ Saves # {} /\ access = NoAccess
  /\ mem' = saved.mem /\ satp' = saved.satp /\ status' = saved.status
  /\ procASID' = SimASID(satp', status')
  /\ tlb' = saved.tlb
  /\ UNCHANGED <<maps, access, saved>>

(* The registers are restored by their write callbacks, memory by the      *)
(* platform; riscvVMRestore deletes all entries before it restores others. *)
riscvVMRestore ==
  /\ Saves # {} /\ access = NoAccess
  /\ mem' = saved.mem /\ satp' = saved.satp /\ status' = saved.status
  /\ procASID' = SimASID(satp', status')
  /\ tlb' = saved.tlb
  /\ maps' = WithoutEntries(maps, tlb)
  /\ UNCHANGED <<access, saved>>

-----------------------------------------------------------------------------
Init ==
  /\ mem = Mem0
  /\ satp \in [MODE : {0}, ASID : {0}, PPN : Roots]
  /\ status = [MXR |-> FALSE, SUM |-> FALSE]
  /\ procASID = getSimASID
  /\ tlb = {}
  /\ maps = {}
  /\ access = NoAccess
  /\ saved = [mem |-> mem, satp |-> satp, status |-> status, tlb |-> tlb]

tlbMiss == tlbMissFound \/ tlbMissWalk \/ tlbMissFault

(* ASIDs are written with one bit more than is implemented. *)
WrittenASIDs == 0 .. 2^(ASID_bits + 1) - 1

Next ==
  \/ tlbMiss
  \/ Retire
  \/ \E mode \in AccessModes, va \in MissVAs, acc \in {"R", "W", "X"} : Use(mode, va, acc)
  \/ \E mode \in AccessModes, va \in MissVAs, artifact \in Artifact :
       \/ \E last \in va .. va + MissPages - 1 :
            /\ last \in VAs
            /\ riscvRdPrivExcept(mode, va, last, artifact) \/ riscvWrPrivExcept(mode, va, last, artifact)
       \/ validateFetchAddressInt(mode, va, ~artifact)
  \/ riscvVMInvalidateAll
  \/ \E va \in MissVAs : riscvVMInvalidateVA(va)
  \/ \E asid \in WrittenASIDs : riscvVMInvalidateAllASID(asid)
  \/ \E va \in MissVAs, asid \in WrittenASIDs : riscvVMInvalidateVAASID(va, asid)
  \/ \E w \in PTEWrites : WritePTE(w[1], w[2])
  \/ \E MODE \in {0, 1, 8, 9}, asid \in WrittenASIDs, PPN \in Roots : satpW(MODE, asid, PPN)
  \/ \E st \in Statuses : statusW(st.MXR, st.SUM)
  \/ riscvVMSave
  \/ riscvVMRestore

Spec == Init /\ [][Next]_vars

-----------------------------------------------------------------------------
(* Properties                                                              *)

(* Every alias is accounted for by a TLB entry that is marked as mapped in *)
(* its mode, made for the same simulated ASID: the fence that deletes the  *)
(* entry finds the alias.                                                  *)
AliasesAccounted ==
  \A m \in maps : \E e \in tlb :
    /\ m.mode \in e.isMapped
    /\ Covers(e, m.va)
    /\ m.tag = EntryTag(e, m.mode)
    /\ m.PA = e.PA + (m.va - e.low)
    /\ m.priv \subseteq e.priv \cup (IF e.simASID.MXR /\ "X" \in e.priv THEN {"R"} ELSE {})

(* The aliases as translations: what an SFENCE.VMA, a walk or a restore    *)
(* may do to them, and what accesses may use, is what Translation allows.  *)
CachedTranslation(e) ==
  [low |-> e.low, size |-> e.high - e.low + 1, PA |-> e.PA, priv |-> e.priv,
   U |-> e.U, G |-> e.G, D |-> e.D, ASID |-> IF e.G THEN 0 ELSE e.simASID.ASID]

Promise == INSTANCE Translation WITH
  cache <- {CachedTranslation(e) : e \in tlb},
  saved <- [mem |-> saved.mem, satp |-> saved.satp, status |-> saved.status,
            cache |-> {CachedTranslation(e) : e \in saved.tlb}],
  out <- IF access.mode = "done" THEN access.out ELSE [acc |-> "none"]

(* The TLB and the aliases together implement what Translation promises:   *)
(* through any interleaving of page table writes, satp and mstatus writes, *)
(* fences, saves and restores, an access only uses a translation that the  *)
(* tables made since the last fence covering it, with the permissions of   *)
(* the present MXR and SUM, and faults only if the tables now deny it.     *)
ImplementsTranslation == Promise!Spec

(* Entries that apply to the present address space overlap: the page       *)
(* tables have changed and no SFENCE.VMA has followed.                     *)
Overlapping ==
  \E e, f \in tlb : /\ e # f /\ e.low <= f.high /\ f.low <= e.high
                    /\ matchASID(e, satp.ASID) /\ matchASID(f, satp.ASID)

(* Every step of riscvVMMiss that does not fault leaves the simulator able *)
(* to make the access by itself on the pages handled: those of this step   *)
(* and, unless translations overlap, those of the steps before it.         *)
MissResolves ==
  [][tlbMissFound \/ tlbMissWalk =>
       \A v \in access.first .. access.last :
         \/ access'.mode = access.mode /\ access'.next <= v
         \/ v < access.next /\ (Overlapping \/ Visible(access.mode, v, access.acc) = {})
         \/ VisibleIn(maps', procASID', access.mode, v, access.acc) # {}]_vars
=============================================================================
