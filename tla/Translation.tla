---------------------------- MODULE Translation ----------------------------
(***************************************************************************)
(* What address translation promises software.  Translations are cached:   *)
(* a page is translated by the page tables as they are, or as they were at *)
(* some time since the last SFENCE.VMA that covers it.  A permission       *)
(* always depends on the present mode, mstatus.MXR and mstatus.SUM, and a  *)
(* fault is only taken if the page tables as they are deny the access.     *)
(***************************************************************************)
EXTENDS Integers

CONSTANTS
  VPN_SHIFT,    \* bits of a virtual page number that one table level resolves
  VABits,       \* bits of a virtual page number, its extension included
  Tables,       \* physical pages that hold page tables and can be read
  ROTables,     \* those that cannot be written
  PTEs,         \* the values of a page table entry
  Mem0,         \* the page tables at first
  Sv_modes,     \* implemented values of satp.MODE: 0 is bare, 1, 8 and 9 are
                \* Sv32, Sv39 and Sv48
  ASID_bits,    \* implemented bits of satp.ASID
  updatePTEA,   \* whether a walk sets A
  updatePTED,   \* whether a walk sets D
  priv_1_11     \* privileged architecture 1.11 or later

VARIABLES
  mem,          \* the page tables
  satp,
  status,       \* mstatus.MXR and mstatus.SUM
  cache,        \* cached translations
  saved,        \* a saved state
  out           \* the outcome of an access that is being made, or the fence
                \* that is executed, or NoOutcome

vars == <<mem, satp, status, cache, saved, out>>

Accesses == {"R", "W", "X"}
NoOutcome == [acc |-> "none"]
AccessModes == {"U", "S"}
VAs == 0 .. 2^VABits - 1
ASIDs == 0 .. 2^ASID_bits - 1

LevelsOf(MODE) == CASE MODE = 1 -> 2 [] MODE = 8 -> 3 [] MODE = 9 -> 4

-----------------------------------------------------------------------------
(* The page tables                                                         *)

Index(va, i) == (va \div 2^(i * VPN_SHIFT)) % 2^VPN_SHIFT

(* The table that a walk consults at level i, if it gets that far. *)
TableAt(va, i) ==
  LET table[j \in 0..3] ==
        IF j >= LevelsOf(satp.MODE) - 1 THEN satp.PPN
        ELSE IF table[j + 1] \in Tables THEN mem[<<table[j + 1], Index(va, j + 1)>>].PPN
        ELSE table[j + 1]
  IN table[i]

EntryAt(va, i) == mem[<<TableAt(va, i), Index(va, i)>>]

Pointer(va, i) == TableAt(va, i) \in Tables /\ EntryAt(va, i).V /\ EntryAt(va, i).priv = {}
Reached(va, i) == \A j \in i + 1 .. LevelsOf(satp.MODE) - 1 : Pointer(va, j)

(* The bits above the page numbers all equal the highest page number bit:  *)
(* the page is in the lowest or the highest part of the address space.     *)
Canonical(va) ==
  LET half == 2^(LevelsOf(satp.MODE) * VPN_SHIFT - 1)
  IN satp.MODE # 1 => va < half \/ va >= 2^VABits - half

(* The level of the valid leaf entry that maps va, if there is one. *)
LeafLevels(va) ==
  {i \in 0 .. LevelsOf(satp.MODE) - 1 :
     /\ Canonical(va)
     /\ Reached(va, i)
     /\ TableAt(va, i) \in Tables
     /\ EntryAt(va, i).V
     /\ EntryAt(va, i).priv # {}
     /\ "W" \in EntryAt(va, i).priv => "R" \in EntryAt(va, i).priv
     /\ EntryAt(va, i).PPN % 2^(i * VPN_SHIFT) = 0}

(* The translation that leaf entry pte at level i makes of va. *)
TranslationOf(va, i, pte) ==
  LET size == 2^(i * VPN_SHIFT)
  IN [low |-> va - (va % size), size |-> size, PA |-> pte.PPN, priv |-> pte.priv,
      U |-> pte.U, G |-> pte.G \/ ASID_bits = 0, D |-> pte.D, ASID |-> IF pte.G \/ ASID_bits = 0 THEN 0 ELSE satp.ASID]

(* The mode, MXR and SUM as they are let translation t be used for acc. *)
Permits(t, mode, acc) ==
  /\ acc \in t.priv \/ (acc = "R" /\ "X" \in t.priv /\ status.MXR)
  /\ mode = "U" => t.U
  /\ mode = "S" /\ t.U => status.SUM /\ (acc = "X" => ~priv_1_11)

Marked(pte, acc) == [pte EXCEPT !.A = TRUE, !.D = @ \/ acc = "W"]

(* The tables as they are allow the access through the leaf at level i,    *)
(* after setting its A and D bits where necessary and possible.            *)
Allows(mode, va, acc, i) ==
  LET pte == EntryAt(va, i)
  IN /\ i \in LeafLevels(va)
     /\ Permits(TranslationOf(va, i, pte), mode, acc)
     /\ pte.A \/ updatePTEA
     /\ acc = "W" => pte.D \/ updatePTED
     /\ Marked(pte, acc) # pte => TableAt(va, i) \notin ROTables

-----------------------------------------------------------------------------
(* Translations of the present address space, or of every one. *)
Applies(t, va) == va \in t.low .. t.low + t.size - 1 /\ (t.G \/ t.ASID = satp.ASID)

(* An access is made through a cached translation that permits it. *)
Use ==
  /\ out = NoOutcome /\ DOMAIN out' = {"mode", "va", "acc", "PA"}
  /\ UNCHANGED <<mem, satp, status, cache, saved>>
  /\ satp.MODE # 0
  /\ \E t \in cache :
       /\ Applies(t, out'.va)
       /\ Permits(t, out'.mode, out'.acc)
       /\ out'.acc = "W" => t.D
       /\ out'.PA = t.PA + (out'.va - t.low)

(* A translation is cached from the page tables, whose A and D are set.    *)
(* Others may be dropped at the same time.                                 *)
Fill(mode, va, acc) ==
  \E i \in 0..3 :
    /\ Allows(mode, va, acc, i)
    /\ LET pte == Marked(EntryAt(va, i), acc)
       IN /\ mem' = [mem EXCEPT ![<<TableAt(va, i), Index(va, i)>>] = pte]
          /\ TranslationOf(va, i, pte) \in cache'
          /\ cache' \subseteq cache \cup {TranslationOf(va, i, pte)}

(* A fault is taken if the page tables deny the access. *)
Fault ==
  /\ out = NoOutcome /\ DOMAIN out' = {"mode", "va", "acc", "fault"}
  /\ UNCHANGED <<mem, satp, status, saved>>
  /\ cache' \subseteq cache
  /\ satp.MODE # 0
  /\ \A i \in 0..3 : ~Allows(out'.mode, out'.va, out'.acc, i)

(* SFENCE.VMA of address spaces asids (one or all) and pages vas (one or   *)
(* all); global translations only go if all address spaces are meant.      *)
Fence ==
  /\ out = NoOutcome /\ DOMAIN out' = {"vas", "asids"}
  /\ UNCHANGED <<mem, satp, status, saved>>
  /\ cache' \subseteq cache
  /\ \A t \in cache' :
       ~ /\ out'.vas \cap (t.low .. t.low + t.size - 1) # {}
         /\ IF t.G /\ ASID_bits # 0 THEN out'.asids = ASIDs ELSE t.ASID \in out'.asids

(* The access, or the fence, is complete. *)
Retire ==
  /\ out # NoOutcome /\ out' = NoOutcome
  /\ UNCHANGED <<mem, satp, status, cache, saved>>

(* A page table entry is written. *)
WritePTE ==
  /\ \E addr \in DOMAIN mem : mem' = [mem EXCEPT ![addr] = mem'[addr]]
  /\ UNCHANGED <<satp, status, cache, saved, out>>

(* Cached translations outlive changes of satp and mstatus. *)
WriteCSR ==
  /\ UNCHANGED <<mem, cache, saved, out>>
  /\ satp'.MODE \in Sv_modes /\ satp'.ASID \in ASIDs

(* Cached translations may be dropped. *)
Evict ==
  /\ UNCHANGED <<mem, satp, status, saved, out>>
  /\ cache' \subseteq cache

Save ==
  /\ saved' = [mem |-> mem, satp |-> satp, status |-> status, cache |-> cache]
  /\ UNCHANGED <<mem, satp, status, cache, out>>

Restore ==
  /\ mem' = saved.mem
  /\ satp' = saved.satp
  /\ status' = saved.status
  /\ cache' = saved.cache
  /\ UNCHANGED <<saved, out>>

-----------------------------------------------------------------------------
Init ==
  /\ mem = Mem0
  /\ satp \in [MODE : {0}, ASID : {0}, PPN : Tables]
  /\ status = [MXR |-> FALSE, SUM |-> FALSE]
  /\ cache = {}
  /\ saved = [mem |-> mem, satp |-> satp, status |-> status, cache |-> cache]
  /\ out = NoOutcome

Next ==
  \/ Use \/ Fault \/ Fence \/ Retire
  \/ WriteCSR \/ WritePTE \/ Evict
  \/ Save \/ Restore
  \/ /\ satp.MODE # 0
     /\ UNCHANGED <<satp, status, saved, out>>
     /\ \E mode \in AccessModes, va \in VAs, acc \in Accesses : Fill(mode, va, acc)

Spec == Init /\ [][Next]_vars
=============================================================================
