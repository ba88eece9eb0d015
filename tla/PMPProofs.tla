----------------------------- MODULE PMPProofs -----------------------------
(***************************************************************************)
(* Proofs about PMP, for any number of entries, any grain and any address  *)
(* width.  A locked entry keeps its region and privileges.  A miss maps    *)
(* ranges on which the registers give one privilege, and a write takes     *)
(* away what it no longer gives.                                           *)
(*                                                                         *)
(* The loops over the entries and over the ranges of a miss are recursive  *)
(* functions; what they compute is shown by a least counterexample.  That  *)
(* a write invalidates enough rests on which bytes of an entry's old and   *)
(* new region the other entries leave to it.                               *)
(***************************************************************************)
EXTENDS PMP, WellFoundedInduction, TLAPS

RegistersOK ==
  /\ pmpcfg \in [Entries -> pmpcfgElem]
  /\ pmpaddr = [i \in Entries |-> pmpaddr[i]]

LEMMA InitRegisters == Init => RegistersOK
BY DEF Init, RegistersOK, pmpcfgElem, ResetElem, AddrModes, RWX

LEMMA CfgWrite ==
  ASSUME NEW offset, NEW new, NEW artifact,
         riscvVMWritePMPCFG(offset, new, artifact)
  PROVE  /\ pmpcfg' = [i \in Entries |->
                         IF i \in CfgEntries(offset) /\ ~pmpLocked(i, artifact)
                         THEN SelectableElem(i, new[i]) ELSE pmpcfg[i]]
         /\ pmpaddr' = pmpaddr
BY Zenon DEF riscvVMWritePMPCFG, Without

LEMMA CfgWriteKeepsLocked ==
  ASSUME NEW offset, NEW new, NEW artifact,
         riscvVMWritePMPCFG(offset, new, artifact),
         NEW i \in Entries, pmpLocked(i, artifact)
  PROVE  pmpcfg'[i] = pmpcfg[i] /\ pmpaddr' = pmpaddr
BY CfgWrite

LEMMA AddrWrite ==
  ASSUME NEW i, NEW v, NEW artifact, riscvVMWritePMPAddr(i, v, artifact)
  PROVE  /\ ~pmpLocked(i, artifact)
         /\ ~pmpLockedTOR(i + 1, artifact)
         /\ pmpaddr' = [pmpaddr EXCEPT ![i] = WritableAddr(v)]
         /\ pmpcfg' = pmpcfg
BY Zenon DEF riscvVMWritePMPAddr, Without

LEMMA ResetWrite ==
  riscvVMResetPMP => /\ pmpcfg' = [i \in Entries |-> ResetElem]
                     /\ pmpaddr' = [i \in Entries |-> 0]
BY Zenon DEF riscvVMResetPMP, Without

LEMMA MissKeepsRegisters == riscvVMMiss => UNCHANGED <<pmpcfg, pmpaddr>>
BY Zenon DEF riscvVMMiss, mapPMP

LEMMA WritableTyped ==
  ASSUME RegistersOK, NEW i \in Entries, NEW e \in Writable
  PROVE  SelectableElem(i, e) \in pmpcfgElem
<1>1. e \in pmpcfgElem
  BY PMPAssumption, Zenon DEF Writable, pmpcfgElem, AddrModes, RWX
<1>2. pmpcfg[i].mode \in AddrModes
  BY Zenon DEF RegistersOK, pmpcfgElem
<1>3. [e EXCEPT !.mode = pmpcfg[i].mode]
        = [L |-> e.L, mode |-> pmpcfg[i].mode, priv |-> e.priv]
  BY <1>1 DEF pmpcfgElem
<1> QED BY <1>1, <1>2, <1>3, Zenon DEF SelectableElem, pmpcfgElem

LEMMA CfgStepRegisters ==
  ASSUME RegistersOK, NEW artifact, pmpcfgW(artifact)
  PROVE  RegistersOK'
<1>0. PICK offset \in {i \div entriesPerCFG : i \in Entries} :
        \E new \in [CfgEntries(offset) -> Writable] :
          riscvVMWritePMPCFG(offset, new, artifact)
  BY Zenon DEF pmpcfgW
<1>1. PICK new \in [CfgEntries(offset) -> Writable] :
        riscvVMWritePMPCFG(offset, new, artifact)
  BY <1>0, Zenon
<1>2. ASSUME NEW i \in Entries
      PROVE  pmpcfg'[i] \in pmpcfgElem
  <2>1. i \in CfgEntries(offset) => SelectableElem(i, new[i]) \in pmpcfgElem
    BY <1>1, WritableTyped, Zenon
  <2> QED BY <1>1, <2>1, CfgWrite DEF RegistersOK
<1> QED BY <1>1, <1>2, CfgWrite, Zenon DEF RegistersOK

LEMMA NextRegisters == RegistersOK /\ [Next]_vars => RegistersOK'
<1> SUFFICES ASSUME RegistersOK, [Next]_vars PROVE RegistersOK'
  BY Zenon
<1>1. ASSUME NEW artifact \in Artifact, pmpcfgW(artifact) PROVE RegistersOK'
  BY <1>1, CfgStepRegisters, Zenon
<1>2. ASSUME NEW artifact \in Artifact, pmpaddrW(artifact) PROVE RegistersOK'
  <2>1. PICK i \in Entries, v \in 0 .. 2^(AddrBits + 1) - 1 :
          riscvVMWritePMPAddr(i, v, artifact)
    BY <1>2, Zenon DEF pmpaddrW
  <2> QED BY <2>1, AddrWrite, Zenon DEF RegistersOK
<1>3. CASE riscvVMResetPMP
  <2>1. ResetElem \in pmpcfgElem
    BY Zenon DEF pmpcfgElem, ResetElem, AddrModes
  <2> QED BY <1>3, <2>1, ResetWrite, Zenon DEF RegistersOK
<1>4. CASE riscvVMMiss
  BY <1>4, MissKeepsRegisters, Zenon DEF RegistersOK
<1>5. CASE UNCHANGED vars
  BY <1>5, Zenon DEF vars, RegistersOK
<1> QED BY <1>1, <1>2, <1>3, <1>4, <1>5, Zenon DEF Next

(* The region of an entry is a function of its registers, and of the       *)
(* address below if it is a TOR entry.                                     *)
LEMMA RegionOf ==
  ASSUME NEW c, NEW a, NEW d, NEW b, NEW i \in Entries,
         c[i].mode \in AddrModes, d[i] = c[i], b[i] = a[i],
         c[i].mode = "TOR" /\ i # 0 => b[i - 1] = a[i - 1]
  PROVE  Region(d, b, i) = Region(c, a, i)
<1>1. c[i].mode \in {"OFF", "TOR", "NA4", "NAPOT"}
  BY Zenon DEF AddrModes
<1>2. CASE c[i].mode = "OFF"
  BY <1>2, Zenon DEF Region, getPMPRegionActive
<1>3. CASE c[i].mode = "TOR"
  <2>1. getPMPEntryBounds(d, b, i) = getPMPEntryBounds(c, a, i)
    BY <1>3, Zenon DEF getPMPEntryBounds
  <2> QED BY <2>1, Zenon DEF Region
<1>4. CASE c[i].mode \in {"NA4", "NAPOT"}
  <2>1. getPMPEntryBounds(d, b, i) = getPMPEntryBounds(c, a, i)
    BY <1>4, Zenon DEF getPMPEntryBounds
  <2> QED BY <2>1, Zenon DEF Region
<1> QED BY <1>1, <1>2, <1>3, <1>4, Zenon

LEMMA RegionLocal ==
  ASSUME RegistersOK, NEW i \in Entries,
         pmpcfg'[i] = pmpcfg[i], pmpaddr'[i] = pmpaddr[i],
         pmpcfg[i].mode = "TOR" /\ i # 0 => pmpaddr'[i - 1] = pmpaddr[i - 1]
  PROVE  Region(pmpcfg', pmpaddr', i) = Region(pmpcfg, pmpaddr, i)
<1>1. pmpcfg[i].mode \in AddrModes
  BY Zenon DEF RegistersOK, pmpcfgElem
<1> QED BY <1>1, RegionOf

(* One step, for one locked entry. *)
LEMMA LockedStep ==
  ASSUME RegistersOK, [Next]_vars, NEW i \in Entries, pmpcfg[i].L,
         ~riscvVMResetPMP, TRUE \notin Artifact
  PROVE  /\ pmpcfg'[i] = pmpcfg[i]
         /\ Region(pmpcfg', pmpaddr', i) = Region(pmpcfg, pmpaddr, i)
<1>1. CASE pmpcfgW(FALSE)
  <2>0. PICK offset \in {j \div entriesPerCFG : j \in Entries} :
          \E new \in [CfgEntries(offset) -> Writable] :
            riscvVMWritePMPCFG(offset, new, FALSE)
    BY <1>1, Zenon DEF pmpcfgW
  <2>1. PICK new \in [CfgEntries(offset) -> Writable] :
          riscvVMWritePMPCFG(offset, new, FALSE)
    BY <2>0, Zenon
  <2>2. pmpLocked(i, FALSE)
    BY Zenon DEF pmpLocked
  <2>3. pmpcfg'[i] = pmpcfg[i] /\ pmpaddr' = pmpaddr
    BY <2>1, <2>2, CfgWriteKeepsLocked, Zenon
  <2> QED BY <2>3, RegionLocal, Zenon
<1>2. CASE pmpaddrW(FALSE)
  <2>1. PICK k \in Entries, v \in 0 .. 2^(AddrBits + 1) - 1 :
          riscvVMWritePMPAddr(k, v, FALSE)
    BY <1>2, Zenon DEF pmpaddrW
  <2>2. pmpcfg' = pmpcfg /\ pmpaddr' = [pmpaddr EXCEPT ![k] = WritableAddr(v)]
    BY <2>1, AddrWrite, Zenon
  <2>3. k # i
    BY <2>1, AddrWrite, Zenon DEF pmpLocked
  <2>4. pmpcfg[i].mode = "TOR" => k + 1 # i
    BY <2>1, AddrWrite, Zenon DEF pmpLockedTOR, pmpLocked
  <2>5. pmpaddr'[i] = pmpaddr[i]
    BY <2>2, <2>3, Zenon DEF RegistersOK
  <2>6. pmpcfg[i].mode = "TOR" /\ i # 0 => pmpaddr'[i - 1] = pmpaddr[i - 1]
    <3> SUFFICES ASSUME pmpcfg[i].mode = "TOR", i # 0
                 PROVE  pmpaddr'[i - 1] = pmpaddr[i - 1]
      BY Zenon
    <3>1. i - 1 \in Entries /\ i - 1 # k
      BY <2>4, PMPAssumption DEF Entries
    <3> QED BY <2>2, <3>1, Zenon DEF RegistersOK
  <2> QED BY <2>2, <2>5, <2>6, RegionLocal, Zenon
<1>3. CASE riscvVMMiss \/ UNCHANGED vars
  BY <1>3, MissKeepsRegisters, RegionLocal, Zenon DEF vars
<1> QED BY <1>1, <1>2, <1>3, PMPAssumption, Zenon DEF Next

(* Where only instructions write the registers, only reset changes the     *)
(* region or the privileges of a locked entry: riscvVMWritePMPCFG and      *)
(* riscvVMWritePMPAddr refuse, the latter also for the address below a     *)
(* locked TOR entry.                                                       *)
THEOREM LockedRegionsFixed ==
  ASSUME TRUE \notin Artifact
  PROVE  Spec => LockedRegionFixed
<1>1. RegistersOK /\ [Next]_vars =>
        [\A i \in Entries :
           \/ ~pmpcfg[i].L
           \/ /\ pmpcfg'[i] = pmpcfg[i]
              /\ Region(pmpcfg', pmpaddr', i) = Region(pmpcfg, pmpaddr, i)
           \/ riscvVMResetPMP]_vars
  BY LockedStep, Zenon
<1> QED BY InitRegisters, NextRegisters, <1>1, PTL DEF Spec, LockedRegionFixed

-----------------------------------------------------------------------------
(* Arithmetic                                                              *)

(* A set of natural numbers has a least element: what the inductions over  *)
(* the entries and over the words of a miss rest on.                       *)
LEMMA LeastNat ==
  ASSUME NEW T \in SUBSET Nat, T # {}
  PROVE  \E x \in T : \A y \in T : x <= y
<1> DEFINE R == OpToRel(<, Nat)
<1>1. IsWellFoundedOn(R, Nat)
  BY NatLessThanWellFounded, Zenon
<1> HIDE DEF R
<1>2. PICK x \in T : \A y \in T : ~(<<y, x>> \in R)
  BY <1>1, WFMin, Zenon
<1>3. \A y \in T : ~(y < x)
  BY <1>2, Zenon DEF R, OpToRel
<1> QED BY <1>3

LEMMA MinNat ==
  ASSUME NEW T \in SUBSET Nat, T # {}
  PROVE  Min(T) \in T /\ \A y \in T : Min(T) <= y
BY LeastNat, Zenon DEF Min

LEMMA WordsNat == Words \subseteq Nat /\ 0 \in Words /\ Entries \subseteq Nat
BY PowersOfTwo, PMPAssumption DEF Words, Entries

LEMMA AlignType ==
  ASSUME NEW a \in Nat, NEW n \in Nat \ {0}
  PROVE  AlignDown(a, n) \in 0 .. a
BY DEF AlignDown

(* The grain's powers of two are positive and fit the address width. *)
LEMMA GrainPowers ==
  /\ 2^PMP_grain \in 1 .. 2^AddrBits
  /\ PMP_grain >= 1 => 2^(PMP_grain - 1) \in 1 .. 2^AddrBits
  /\ 2^AddrBits \in Nat \ {0}
BY PowersOfTwo, PMPAssumption

LEMMA EffectiveType ==
  ASSUME NEW e \in pmpcfgElem, NEW a \in Words
  PROVE  getEffectivePMPAddr(e, a) \in 0 .. 2^(AddrBits + 1) - 1
<1> DEFINE W == 2^AddrBits
           n == 2^(PMP_grain - 1)
           g == 2^PMP_grain
<1>1. a \in 0 .. W - 1 /\ W \in Nat \ {0} /\ 2^(AddrBits + 1) = 2 * W
  BY PowersOfTwo, GrainPowers, Zenon DEF Words
<1>2. PMP_grain >= 1 => AlignDown(a, n) + n - 1 \in 0 .. 2 * W - 1
  <2>1. SUFFICES ASSUME PMP_grain >= 1 PROVE AlignDown(a, n) + n - 1 \in 0 .. 2 * W - 1
    BY Zenon
  <2>2. n \in 1 .. W
    BY <2>1, GrainPowers, Zenon
  <2> HIDE DEF n, W
  <2>3. AlignDown(a, n) \in 0 .. a
    BY <1>1, <2>2, AlignType
  <2> QED BY <1>1, <2>2, <2>3
<1>3. AlignDown(a, g) \in 0 .. 2 * W - 1
  <2>1. g \in 1 .. W
    BY GrainPowers, Zenon
  <2> HIDE DEF g, W
  <2>2. AlignDown(a, g) \in 0 .. a
    BY <1>1, <2>1, AlignType
  <2> QED BY <1>1, <2>2
<1>4. PMP_grain \in Nat /\ a \in 0 .. 2 * W - 1
  BY <1>1, PMPAssumption
<1> QED BY <1>1, <1>2, <1>3, <1>4 DEF getEffectivePMPAddr

LEMMA NAPOTSizeType ==
  ASSUME NEW a \in 0 .. 2^(AddrBits + 1) - 1
  PROVE  NAPOTSize(a) \in Nat \ {0}
<1> DEFINE Zeros == {k \in 0 .. AddrBits + 1 : (a \div 2^k) % 2 = 0}
<1>1. AddrBits \in Nat /\ 2^(AddrBits + 1) \in Nat
  BY PMPAssumption, PowersOfTwo, GrainPowers
<1>2. a \div 2^(AddrBits + 1) = 0
  <2> DEFINE n == 2^(AddrBits + 1)
  <2>1. a \in Nat /\ n \in Nat /\ a < n
    BY <1>1
  <2> HIDE DEF n
  <2>2. a \div n = 0
    BY <2>1
  <2> QED BY <2>2, Zenon DEF n
<1>3. AddrBits + 1 \in Zeros /\ Zeros \in SUBSET Nat
  BY <1>1, <1>2
<1> HIDE DEF Zeros
<1>4. Min(Zeros) \in Zeros
  BY <1>3, MinNat, Zenon
<1>5. 2^Min(Zeros) \in Nat \ {0}
  <2>1. Min(Zeros) \in 0 .. AddrBits + 1
    BY <1>4, Zenon DEF Zeros
  <2>2. CASE Min(Zeros) = AddrBits + 1
    BY <2>2, PowersOfTwo, GrainPowers
  <2>3. CASE Min(Zeros) \in 0 .. AddrBits
    BY <2>3, PowersOfTwo
  <2> QED BY <1>1, <2>1, <2>2, <2>3
<1>6. NAPOTSize(a) = 2 * 2^Min(Zeros)
  BY Zenon DEF NAPOTSize, Zeros
<1> DEFINE z == 2^Min(Zeros)
<1> HIDE DEF z
<1>7. 2 * z \in Nat \ {0}
  BY <1>5 DEF z
<1> QED BY <1>6, <1>7, Zenon DEF z

(* The bounds of an entry are numbers, and a region is not below zero. *)
LEMMA BoundsType ==
  ASSUME NEW cfg \in [Entries -> pmpcfgElem], NEW addr \in [Entries -> Words],
         NEW i \in Entries
  PROVE  /\ getPMPEntryBounds(cfg, addr, i).low \in Nat
         /\ getPMPEntryBounds(cfg, addr, i).high \in Int
<1> DEFINE a == getEffectivePMPAddr(cfg[i], addr[i])
           size == NAPOTSize(a)
<1>1. a \in 0 .. 2^(AddrBits + 1) - 1
  BY EffectiveType, Zenon
<1>2. a \in Nat
  BY <1>1
<1>3. size \in Nat \ {0}
  BY <1>1, NAPOTSizeType, Zenon
<1>4. i # 0 => AlignDown(addr[i - 1], 2^PMP_grain) \in Nat
  <2> SUFFICES ASSUME i # 0 PROVE AlignDown(addr[i - 1], 2^PMP_grain) \in Nat
    BY Zenon
  <2>1. i - 1 \in Entries
    BY PMPAssumption DEF Entries
  <2>2. addr[i - 1] \in Nat
    BY <2>1, WordsNat, Zenon
  <2> DEFINE n == 2^PMP_grain
  <2>3. n \in Nat \ {0}
    BY GrainPowers
  <2> HIDE DEF n
  <2>4. AlignDown(addr[i - 1], n) \in Nat
    BY <2>2, <2>3, AlignType
  <2> QED BY <2>4, Zenon DEF n
<1>5. getPMPEntryBounds(cfg, addr, i) =
        CASE cfg[i].mode = "NA4" -> [low |-> a, high |-> a]
          [] cfg[i].mode = "NAPOT" ->
               [low |-> AlignDown(a, size), high |-> AlignDown(a, size) + size - 1]
          [] OTHER ->
               [low  |-> IF i = 0 THEN 0 ELSE AlignDown(addr[i - 1], 2^PMP_grain),
                high |-> a - 1]
  BY Zenon DEF getPMPEntryBounds
<1> HIDE DEF a, size
<1>6. AlignDown(a, size) \in Nat
  BY <1>2, <1>3, AlignType
<1>7. CASE cfg[i].mode = "NA4"
  BY <1>2, <1>5, <1>7
<1>8. CASE cfg[i].mode = "NAPOT"
  BY <1>3, <1>5, <1>6, <1>8
<1>9. CASE cfg[i].mode \notin {"NA4", "NAPOT"}
  BY <1>2, <1>4, <1>5, <1>9
<1> QED BY <1>7, <1>8, <1>9, Zenon

-----------------------------------------------------------------------------
(* The range that mapPMPInt computes                                       *)

(* The range before any entry has refined it. *)
WholeRange(m) ==
  [low |-> 0, high |-> 2^AddrBits - 1, priv |-> IF m = "M" THEN RWX ELSE {}]

(* f holds the ranges of the loop over the entries from the last to k. *)
RefinedFrom(m, PA, k, f) ==
  f = [i \in k .. PMP_registers |->
         IF i = PMP_registers THEN WholeRange(m)
         ELSE refinePMPRegionRange(m, PA, i, f[i + 1])]

LEMMA RefinedStep ==
  ASSUME NEW m, NEW PA, NEW k \in Entries, NEW g, RefinedFrom(m, PA, k + 1, g)
  PROVE  \E f : RefinedFrom(m, PA, k, f)
<1> DEFINE N == PMP_registers
           f == [i \in k .. N |->
                   IF i = k THEN refinePMPRegionRange(m, PA, i, g[i + 1]) ELSE g[i]]
           body(i) == IF i = N THEN WholeRange(m)
                      ELSE refinePMPRegionRange(m, PA, i, f[i + 1])
<1>1. k \in Nat /\ N \in Nat /\ k < N
  BY PMPAssumption DEF Entries
<1>2. ASSUME NEW i \in k .. N PROVE f[i] = body(i)
  <2>1. CASE i = k
    <3>1. f[i + 1] = g[i + 1]
      BY <1>1, <2>1
    <3>2. f[i] = refinePMPRegionRange(m, PA, i, g[i + 1])
      BY <2>1, Zenon
    <3> HIDE DEF f
    <3> QED BY <1>1, <2>1, <3>1, <3>2
  <2>2. CASE i # k
    <3>1. i \in k + 1 .. N /\ f[i] = g[i]
      BY <1>1, <2>2
    <3>2. i # N => f[i + 1] = g[i + 1]
      BY <1>1, <2>2
    <3>3. g[i] = IF i = N THEN WholeRange(m)
                 ELSE refinePMPRegionRange(m, PA, i, g[i + 1])
      BY <3>1, Zenon DEF RefinedFrom
    <3> HIDE DEF f
    <3> QED BY <3>1, <3>2, <3>3, Zenon
  <2> QED BY <2>1, <2>2, Zenon
<1>3. f = [i \in k .. N |-> body(i)]
  <2> DEFINE h == [i \in k .. N |-> body(i)]
  <2>1. \A i \in k .. N : f[i] = h[i]
    BY <1>2, Zenon
  <2> HIDE DEF body
  <2>2. f = [i \in k .. N |-> f[i]] /\ h = [i \in k .. N |-> h[i]]
    BY Zenon
  <2> HIDE DEF f, h
  <2>3. f = h
    BY <2>1, <2>2, Zenon
  <2> QED BY <2>3, Zenon DEF h
<1>4. RefinedFrom(m, PA, k, f)
  BY <1>3, Zenon DEF RefinedFrom
<1> QED BY <1>4, Zenon

LEMMA RefinedExists ==
  ASSUME NEW m, NEW PA
  PROVE  \E f : RefinedFrom(m, PA, 0, f)
<1> DEFINE N == PMP_registers
           T == {n \in 0 .. N : ~ \E f : RefinedFrom(m, PA, N - n, f)}
<1>1. SUFFICES ASSUME T # {} PROVE FALSE
  <2>1. N \in 0 .. N /\ N - N = 0
    BY PMPAssumption
  <2> QED BY <2>1, Zenon
<1>2. PICK n \in T : \A y \in T : n <= y
  <2>1. T \in SUBSET Nat
    BY PMPAssumption
  <2> HIDE DEF T
  <2> QED BY <1>1, <2>1, LeastNat, Zenon
<1>3. n # 0
  <2>1. SUFFICES ASSUME n = 0 PROVE FALSE
    BY Zenon
  <2> DEFINE f == [i \in N .. N |-> WholeRange(m)]
  <2>2. f = [i \in N .. N |-> IF i = N THEN WholeRange(m)
                              ELSE refinePMPRegionRange(m, PA, i, f[i + 1])]
    BY PMPAssumption
  <2>3. RefinedFrom(m, PA, N, f)
    BY <2>2, Zenon DEF RefinedFrom
  <2> QED BY <2>1, <2>3, <1>2, PMPAssumption
<1>4. n - 1 \in 0 .. N /\ n - 1 \notin T /\ n \in 0 .. N /\ N \in Nat
  BY <1>2, <1>3, PMPAssumption
<1>5. PICK g : RefinedFrom(m, PA, N - (n - 1), g)
  BY <1>4, Zenon
<1>6. N - n \in Entries /\ N - (n - 1) = (N - n) + 1
  BY <1>3, <1>4 DEF Entries
<1>7. \E f : RefinedFrom(m, PA, N - n, f)
  BY <1>5, <1>6, RefinedStep, Zenon
<1> QED BY <1>2, <1>7, Zenon

LEMMA MapPMPIntRefined ==
  ASSUME NEW m, NEW PA
  PROVE  \E f : RefinedFrom(m, PA, 0, f) /\ mapPMPInt(m, PA) = f[0]
<1> DEFINE f == CHOOSE g : RefinedFrom(m, PA, 0, g)
<1>1. RefinedFrom(m, PA, 0, f)
  BY RefinedExists, Zenon
<1>2. mapPMPInt(m, PA) = f[0]
  BY Zenon DEF mapPMPInt, RefinedFrom, WholeRange
<1> QED BY <1>1, <1>2, Zenon

(* The entries from i on that match word w. *)
MatchingFrom(i, w) == {j \in Matching(w) : j >= i}

(* Range r is right for the entries from i on: it contains PA, and the     *)
(* first of those entries that matches a word of it gives that word its    *)
(* privileges.                                                             *)
RightFrom(m, PA, i, r) ==
  /\ r = [low |-> r.low, high |-> r.high, priv |-> r.priv]
  /\ r.low \in Nat
  /\ r.high \in Int
  /\ r.priv \in SUBSET RWX
  /\ r.low <= PA /\ PA <= r.high
  /\ \A w \in Words : r.low <= w /\ w <= r.high
                      => AllowedBy(m, MatchingFrom(i, w)) = r.priv

LEMMA MatchingTyped ==
  ASSUME NEW w
  PROVE  Matching(w) \in SUBSET Nat /\ Matching(w) \subseteq Entries
BY WordsNat, Zenon DEF Matching

LEMMA NoMatch ==
  ASSUME NEW i \in Entries, NEW w, w \notin Region(pmpcfg, pmpaddr, i)
  PROVE  MatchingFrom(i, w) = MatchingFrom(i + 1, w)
<1>1. i \notin Matching(w)
  BY Zenon DEF Matching
<1>2. i \in Nat /\ Matching(w) \in SUBSET Nat
  BY MatchingTyped, WordsNat, Zenon
<1> QED BY <1>1, <1>2 DEF MatchingFrom

LEMMA FirstMatch ==
  ASSUME NEW m, NEW i \in Entries, NEW w, w \in Region(pmpcfg, pmpaddr, i)
  PROVE  AllowedBy(m, MatchingFrom(i, w)) = EntryPriv(m, pmpcfg[i])
<1> DEFINE T == MatchingFrom(i, w)
<1>1. i \in T /\ T \in SUBSET Nat /\ \A j \in T : j >= i
  BY WordsNat, MatchingTyped DEF MatchingFrom, Matching
<1> HIDE DEF T
<1>2. Min(T) \in T /\ Min(T) <= i
  BY <1>1, MinNat, Zenon
<1>3. Min(T) = i
  <2> DEFINE k == Min(T)
  <2>1. k \in Nat /\ i \in Nat /\ k >= i /\ k <= i
    BY <1>1, <1>2, WordsNat, Zenon
  <2> HIDE DEF k
  <2> QED BY <2>1 DEF k
<1>4. AllowedBy(m, T) = EntryPriv(m, pmpcfg[i])
  BY <1>1, <1>3, Zenon DEF AllowedBy
<1> QED BY <1>4, Zenon DEF T

LEMMA PrivTyped ==
  ASSUME TypeOK, NEW m, NEW i \in Entries
  PROVE  EntryPriv(m, pmpcfg[i]) \in SUBSET RWX
BY Zenon DEF TypeOK, pmpcfgElem, EntryPriv, RWX

LEMMA RefineRight ==
  ASSUME TypeOK, NEW m, NEW PA \in Words, NEW i \in Entries, NEW r,
         RightFrom(m, PA, i + 1, r)
  PROVE  RightFrom(m, PA, i, refinePMPRegionRange(m, PA, i, r))
<1> DEFINE b == getPMPEntryBounds(pmpcfg, pmpaddr, i)
           s == refinePMPRegionRange(m, PA, i, r)
           act == getPMPRegionActive(pmpcfg[i], pmpaddr[i])
           pr == EntryPriv(m, pmpcfg[i])
           reg == Region(pmpcfg, pmpaddr, i)
<1>1. b.low \in Nat /\ b.high \in Int
  BY BoundsType, Zenon DEF TypeOK
<1>2. PA \in Nat /\ \A w \in Words : w \in Nat
  BY WordsNat, Zenon
<1>3. pr \in SUBSET RWX
  BY PrivTyped, Zenon
<1>4. reg = IF act THEN b.low .. b.high ELSE {}
  BY Zenon DEF Region
<1>5. s = IF ~act \/ b.low > b.high THEN r
          ELSE CASE b.low <= PA /\ PA <= b.high ->
                      [low |-> b.low, high |-> b.high, priv |-> pr]
                 [] b.low > PA /\ b.low <= r.high -> [r EXCEPT !.high = b.low - 1]
                 [] b.high < PA /\ b.high >= r.low -> [r EXCEPT !.low = b.high + 1]
                 [] OTHER -> r
  BY Zenon DEF refinePMPRegionRange
<1>6. \A w \in Words : w \notin reg => MatchingFrom(i, w) = MatchingFrom(i + 1, w)
  BY NoMatch, Zenon
<1>7. \A w \in Words : w \in reg => AllowedBy(m, MatchingFrom(i, w)) = pr
  BY FirstMatch, Zenon
<1>8. [r EXCEPT !.high = b.low - 1] = [low |-> r.low, high |-> b.low - 1, priv |-> r.priv]
      /\ [r EXCEPT !.low = b.high + 1] = [low |-> b.high + 1, high |-> r.high, priv |-> r.priv]
  BY DEF RightFrom
<1>0. act \in BOOLEAN
  BY Zenon DEF getPMPRegionActive
<1> SUFFICES RightFrom(m, PA, i, s)
  BY Zenon
<1> HIDE DEF b, s, act, pr, reg
<1> USE <1>1, <1>2, <1>3
(* Narrowing the range to words outside the region keeps it right. *)
<1>9. ASSUME NEW lo \in Nat, NEW hi \in Int, r.low <= lo, lo <= PA, PA <= hi, hi <= r.high,
             \A w \in Words : lo <= w /\ w <= hi => w \notin reg,
             s = [low |-> lo, high |-> hi, priv |-> r.priv]
      PROVE  RightFrom(m, PA, i, s)
  <2>1. ASSUME NEW w \in Words, lo <= w, w <= hi
        PROVE  AllowedBy(m, MatchingFrom(i, w)) = r.priv
    <3>1. MatchingFrom(i, w) = MatchingFrom(i + 1, w)
      BY <1>6, <1>9, <2>1, Zenon
    <3>2. r.low <= w /\ w <= r.high /\ r.low \in Nat /\ r.high \in Int
      BY <1>9, <2>1 DEF RightFrom
    <3> QED BY <3>1, <3>2, Zenon DEF RightFrom
  <2> QED BY <1>9, <2>1, Zenon DEF RightFrom
<1>10. r.low \in Nat /\ r.high \in Int /\ r.low <= PA /\ PA <= r.high
       /\ r = [low |-> r.low, high |-> r.high, priv |-> r.priv]
  BY Zenon DEF RightFrom
<1>11. CASE ~act \/ b.low > b.high
  <2>1. reg = {} /\ s = r
    BY <1>4, <1>5, <1>11
  <2> QED BY <1>9, <1>10, <2>1
<1>12. CASE act /\ b.low <= PA /\ PA <= b.high
  <2>1. s = [low |-> b.low, high |-> b.high, priv |-> pr] /\ reg = b.low .. b.high
    BY <1>4, <1>5, <1>12
  <2>2. \A w \in Words : b.low <= w /\ w <= b.high
                         => AllowedBy(m, MatchingFrom(i, w)) = pr
    BY <1>7, <2>1
  <2> QED BY <1>12, <2>1, <2>2, Zenon DEF RightFrom
<1>13. CASE act /\ b.low <= b.high /\ b.low > PA /\ b.low <= r.high
  <2>1. s = [low |-> r.low, high |-> b.low - 1, priv |-> r.priv] /\ reg = b.low .. b.high
    BY <1>4, <1>5, <1>8, <1>13
  <2> QED BY <1>9, <1>10, <1>13, <2>1
<1>14. CASE act /\ b.low <= b.high /\ b.high < PA /\ b.high >= r.low
  <2>1. s = [low |-> b.high + 1, high |-> r.high, priv |-> r.priv] /\ reg = b.low .. b.high
    BY <1>4, <1>5, <1>8, <1>14
  <2>2. b.high + 1 \in Nat
    BY <1>10, <1>14
  <2> QED BY <1>9, <1>10, <1>14, <2>1, <2>2
<1>15. CASE /\ act /\ b.low <= b.high
            /\ (b.low > PA /\ b.low > r.high) \/ (b.high < PA /\ b.high < r.low)
  <2>1. s = r /\ reg = b.low .. b.high
    BY <1>4, <1>5, <1>10, <1>15
  <2>2. \A w \in Words : r.low <= w /\ w <= r.high => w \notin reg
    BY <1>10, <1>15, <2>1
  <2> QED BY <1>9, <1>10, <2>1, <2>2
<1>16. \/ ~act \/ b.low > b.high
       \/ act /\ b.low <= PA /\ PA <= b.high
       \/ act /\ b.low <= b.high /\ b.low > PA /\ b.low <= r.high
       \/ act /\ b.low <= b.high /\ b.high < PA /\ b.high >= r.low
       \/ /\ act /\ b.low <= b.high
          /\ (b.low > PA /\ b.low > r.high) \/ (b.high < PA /\ b.high < r.low)
  BY <1>0, <1>10
<1> QED BY <1>11, <1>12, <1>13, <1>14, <1>15, <1>16, Zenon

LEMMA RefinedRight ==
  ASSUME TypeOK, NEW m, NEW PA \in Words, NEW f, RefinedFrom(m, PA, 0, f)
  PROVE  RightFrom(m, PA, 0, f[0])
<1> DEFINE N == PMP_registers
           T == {n \in 0 .. N : ~RightFrom(m, PA, N - n, f[N - n])}
<1>0. N \in Nat
  BY PMPAssumption, Zenon
<1>1. SUFFICES ASSUME T # {} PROVE FALSE
  <2>1. N \in 0 .. N /\ N - N = 0
    BY <1>0
  <2> QED BY <2>1, Zenon
<1>2. PICK n \in T : \A y \in T : n <= y
  <2>1. T \in SUBSET Nat
    BY <1>0
  <2> HIDE DEF T
  <2> QED BY <1>1, <2>1, LeastNat, Zenon
<1>3. \A i \in 0 .. N : f[i] = IF i = N THEN WholeRange(m)
                                ELSE refinePMPRegionRange(m, PA, i, f[i + 1])
  BY Zenon DEF RefinedFrom
<1>4. n # 0
  <2>1. SUFFICES RightFrom(m, PA, N, f[N])
    BY <1>0, <1>2
  <2>2. f[N] = WholeRange(m)
    BY <1>0, <1>3
  <2>3. \A w \in Words : MatchingFrom(N, w) = {}
    BY MatchingTyped, <1>0 DEF MatchingFrom, Entries
  <2>4. PA \in Nat /\ PA <= 2^AddrBits - 1 /\ 2^AddrBits \in Nat
    BY GrainPowers DEF Words
  <2> QED BY <2>2, <2>3, <2>4 DEF RightFrom, WholeRange, AllowedBy, RWX
<1>5. n - 1 \in 0 .. N /\ n - 1 \notin T /\ n \in 0 .. N
  BY <1>0, <1>2, <1>4
<1>6. N - n \in Entries /\ N - n \in 0 .. N /\ N - n # N /\ N - (n - 1) = (N - n) + 1
  BY <1>0, <1>4, <1>5 DEF Entries
<1>7. RightFrom(m, PA, (N - n) + 1, f[(N - n) + 1])
  BY <1>5, <1>6, Zenon
<1>8. RightFrom(m, PA, N - n, refinePMPRegionRange(m, PA, N - n, f[(N - n) + 1]))
  BY <1>6, <1>7, RefineRight, Zenon
<1>9. f[N - n] = refinePMPRegionRange(m, PA, N - n, f[(N - n) + 1])
  BY <1>3, <1>6, Zenon
<1> QED BY <1>2, <1>8, <1>9, Zenon

(* What a miss maps around an address: a range that contains it, whose     *)
(* words the registers give the same privileges.                           *)
LEMMA MapRight ==
  ASSUME TypeOK, NEW m, NEW PA \in Words
  PROVE  LET r == mapPMPInt(m, PA)
         IN /\ r.low \in Nat /\ r.high \in Int /\ r.priv \in SUBSET RWX
            /\ r.low <= PA /\ PA <= r.high
            /\ \A w \in Words : r.low <= w /\ w <= r.high => Allowed(m, w) = r.priv
<1>1. PICK f : RefinedFrom(m, PA, 0, f) /\ mapPMPInt(m, PA) = f[0]
  BY MapPMPIntRefined, Zenon
<1>2. RightFrom(m, PA, 0, f[0])
  BY <1>1, RefinedRight, Zenon
<1>3. \A w : MatchingFrom(0, w) = Matching(w)
  BY MatchingTyped DEF MatchingFrom
<1> QED BY <1>1, <1>2, <1>3, Zenon DEF RightFrom, Allowed

LEMMA TypedUniform == TypeOK => RangeUniform
<1> SUFFICES ASSUME TypeOK, NEW m \in PMPModes, NEW PA \in Words
             PROVE  LET r == mapPMPInt(m, PA)
                    IN /\ PA \in r.low .. r.high
                       /\ \A w \in (r.low .. r.high) \cap Words : Allowed(m, w) = r.priv
  BY Zenon DEF RangeUniform
<1>1. PA \in Nat
  BY WordsNat, Zenon
<1> QED BY <1>1, MapRight

-----------------------------------------------------------------------------
(* A miss                                                                  *)

Perms == [Words -> SUBSET RWX]

LastWord == 2^AddrBits - 1

(* The permissions after a miss from PA on, by f for the words after it.   *)
MappedAt(m, lastPA, f, PA, perms) ==
  LET r   == mapPMPInt(m, PA)
      new == setPMPPriv(perms, r)
  IN IF r.high < lastPA THEN f[r.high + 1][new] ELSE new

(* f holds the permissions after misses that start at word k or later. *)
MappedFrom(m, lastPA, k, f) ==
  f = [PA \in k .. LastWord |->
         [perms \in Perms |-> MappedAt(m, lastPA, f, PA, perms)]]

LEMMA WordsLast == Words = 0 .. LastWord /\ LastWord \in Nat
BY GrainPowers DEF Words, LastWord

LEMMA SetPrivTyped ==
  ASSUME TypeOK, NEW m, NEW PA \in Words, NEW perms \in Perms
  PROVE  setPMPPriv(perms, mapPMPInt(m, PA)) \in Perms
<1>1. mapPMPInt(m, PA).priv \in SUBSET RWX
  BY MapRight, Zenon
<1> QED BY <1>1, Zenon DEF setPMPPriv, Perms

(* A miss goes on behind the range it has mapped. *)
LEMMA MappedAhead ==
  ASSUME TypeOK, NEW m, NEW lastPA \in Words, NEW PA \in Words, NEW perms \in Perms,
         NEW f, NEW g,
         \A q \in PA + 1 .. LastWord : f[q] = g[q]
  PROVE  MappedAt(m, lastPA, f, PA, perms) = MappedAt(m, lastPA, g, PA, perms)
<1> DEFINE r == mapPMPInt(m, PA)
           new == setPMPPriv(perms, r)
<1>1. r.high \in Int /\ PA <= r.high
  BY MapRight, Zenon
<1>2. new \in Perms
  BY SetPrivTyped, Zenon
<1>3. PA \in Nat /\ lastPA \in 0 .. LastWord /\ LastWord \in Nat
  BY WordsLast
<1>4. /\ MappedAt(m, lastPA, f, PA, perms)
           = IF r.high < lastPA THEN f[r.high + 1][new] ELSE new
      /\ MappedAt(m, lastPA, g, PA, perms)
           = IF r.high < lastPA THEN g[r.high + 1][new] ELSE new
  BY Zenon DEF MappedAt
<1> HIDE DEF r, new
<1>5. r.high < lastPA => r.high + 1 \in PA + 1 .. LastWord
  BY <1>1, <1>3
<1> QED BY <1>2, <1>4, <1>5

LEMMA MappedStep ==
  ASSUME TypeOK, NEW m, NEW lastPA \in Words, NEW k \in Words, NEW g,
         MappedFrom(m, lastPA, k + 1, g)
  PROVE  \E f : MappedFrom(m, lastPA, k, f)
<1> DEFINE At(u, PA) == [perms \in Perms |-> MappedAt(m, lastPA, u, PA, perms)]
           f == [PA \in k .. LastWord |-> IF PA = k THEN At(g, PA) ELSE g[PA]]
           h == [PA \in k .. LastWord |-> At(f, PA)]
<1>1. k \in Nat /\ k .. LastWord \subseteq Words /\ LastWord \in Nat
  BY WordsLast
<1>2. \A q \in k + 1 .. LastWord : f[q] = g[q]
  BY <1>1
<1>3. ASSUME NEW PA \in k .. LastWord
      PROVE  f[PA] = At(f, PA)
  <2>1. \A q \in PA + 1 .. LastWord : f[q] = g[q]
    BY <1>1, <1>2
  <2>2. At(f, PA) = At(g, PA)
    <3> HIDE DEF f
    <3>1. \A perms \in Perms : MappedAt(m, lastPA, f, PA, perms) = MappedAt(m, lastPA, g, PA, perms)
      BY <1>1, <2>1, MappedAhead
    <3> QED BY <3>1, Zenon
  <2>3. CASE PA = k
    BY <2>2, <2>3, Zenon
  <2>4. CASE PA # k
    <3>1. PA \in k + 1 .. LastWord /\ f[PA] = g[PA]
      BY <1>1, <2>4
    <3>2. g[PA] = At(g, PA)
      BY <3>1, Zenon DEF MappedFrom
    <3> HIDE DEF f, At
    <3> QED BY <2>2, <3>1, <3>2, Zenon
  <2> QED BY <2>3, <2>4, Zenon
<1>4. f = h
  <2> HIDE DEF At
  <2>1. \A PA \in k .. LastWord : f[PA] = h[PA]
    BY <1>3, Zenon
  <2>2. f = [PA \in k .. LastWord |-> f[PA]] /\ h = [PA \in k .. LastWord |-> h[PA]]
    BY Zenon
  <2> HIDE DEF f, h
  <2> QED BY <2>1, <2>2, Zenon
<1>5. MappedFrom(m, lastPA, k, f)
  BY <1>4, Zenon DEF MappedFrom
<1> QED BY <1>5, Zenon

LEMMA MappedExists ==
  ASSUME TypeOK, NEW m, NEW lastPA \in Words
  PROVE  \E f : MappedFrom(m, lastPA, 0, f)
<1> DEFINE T == {n \in 0 .. LastWord + 1 :
                   ~ \E f : MappedFrom(m, lastPA, LastWord + 1 - n, f)}
<1>0. LastWord \in Nat
  BY WordsLast, Zenon
<1>1. SUFFICES ASSUME T # {} PROVE FALSE
  <2>1. LastWord + 1 \in 0 .. LastWord + 1 /\ LastWord + 1 - (LastWord + 1) = 0
    BY <1>0
  <2> QED BY <2>1, Zenon
<1>2. PICK n \in T : \A y \in T : n <= y
  <2>1. T \in SUBSET Nat
    BY <1>0
  <2> HIDE DEF T
  <2> QED BY <1>1, <2>1, LeastNat, Zenon
<1>3. n # 0
  <2>1. SUFFICES ASSUME n = 0 PROVE FALSE
    BY Zenon
  <2> DEFINE f == [PA \in {} |-> {}]
  <2>2. LastWord + 1 .. LastWord = {} /\ LastWord + 1 - 0 = LastWord + 1
    BY <1>0
  <2>3. f = [PA \in LastWord + 1 .. LastWord |->
               [perms \in Perms |-> MappedAt(m, lastPA, f, PA, perms)]]
    BY <2>2, Zenon
  <2>4. MappedFrom(m, lastPA, LastWord + 1, f)
    BY <2>3, Zenon DEF MappedFrom
  <2> QED BY <2>1, <2>2, <2>4, <1>2, Zenon
<1>4. n - 1 \in 0 .. LastWord + 1 /\ n - 1 \notin T /\ n \in 0 .. LastWord + 1
  BY <1>0, <1>2, <1>3
<1>5. PICK g : MappedFrom(m, lastPA, LastWord + 1 - (n - 1), g)
  BY <1>4, Zenon
<1>6. LastWord + 1 - n \in Words /\ LastWord + 1 - (n - 1) = (LastWord + 1 - n) + 1
  BY <1>0, <1>3, <1>4, WordsLast
<1>7. \E f : MappedFrom(m, lastPA, LastWord + 1 - n, f)
  BY <1>5, <1>6, MappedStep, Zenon
<1> QED BY <1>2, <1>7, Zenon

(* A miss from PA leaves every word up to lastPA with the privileges the   *)
(* registers give it, and any other word with those or the ones it had.    *)
MapsFrom(m, lastPA, f, PA) ==
  \A perms \in Perms :
    /\ f[PA][perms] \in Perms
    /\ \A w \in Words :
         /\ PA <= w /\ w <= lastPA => f[PA][perms][w] = Allowed(m, w)
         /\ f[PA][perms][w] \in {perms[w], Allowed(m, w)}

LEMMA MappedMaps ==
  ASSUME TypeOK, NEW m, NEW lastPA \in Words, NEW f, MappedFrom(m, lastPA, 0, f),
         NEW PA \in Words, \A q \in PA + 1 .. LastWord : MapsFrom(m, lastPA, f, q)
  PROVE  MapsFrom(m, lastPA, f, PA)
<1> SUFFICES ASSUME NEW perms \in Perms
             PROVE  /\ f[PA][perms] \in Perms
                    /\ \A w \in Words :
                         /\ PA <= w /\ w <= lastPA => f[PA][perms][w] = Allowed(m, w)
                         /\ f[PA][perms][w] \in {perms[w], Allowed(m, w)}
  BY Zenon DEF MapsFrom
<1> DEFINE r == mapPMPInt(m, PA)
           new == setPMPPriv(perms, r)
<1>1. /\ r.low \in Nat /\ r.high \in Int /\ r.low <= PA /\ PA <= r.high
      /\ \A w \in Words : r.low <= w /\ w <= r.high => Allowed(m, w) = r.priv
  BY MapRight, Zenon
<1>2. new \in Perms
  BY SetPrivTyped, Zenon
<1>3. \A w \in Words : new[w] = IF r.low <= w /\ w <= r.high THEN r.priv ELSE perms[w]
  BY Zenon DEF setPMPPriv
<1>4. f[PA][perms] = IF r.high < lastPA THEN f[r.high + 1][new] ELSE new
  <2>1. f[PA] = [p \in Perms |-> MappedAt(m, lastPA, f, PA, p)]
    BY WordsLast, Zenon DEF MappedFrom
  <2>2. f[PA][perms] = MappedAt(m, lastPA, f, PA, perms)
    BY <2>1, Zenon
  <2> QED BY <2>2, Zenon DEF MappedAt
<1>5. PA \in Nat /\ lastPA \in 0 .. LastWord /\ LastWord \in Nat /\ Words \subseteq Nat
  BY WordsLast, WordsNat, Zenon
<1> HIDE DEF r, new
<1>6. \A w \in Words : /\ r.low <= w /\ w <= r.high => new[w] = Allowed(m, w)
                       /\ new[w] \in {perms[w], Allowed(m, w)}
  BY <1>1, <1>3, Zenon
<1>7. CASE r.high < lastPA
  <2>1. r.high + 1 \in PA + 1 .. LastWord
    BY <1>1, <1>5, <1>7
  <2>2. MapsFrom(m, lastPA, f, r.high + 1)
    BY <2>1, Zenon
  <2>3. f[PA][perms] = f[r.high + 1][new]
    BY <1>4, <1>7, Zenon
  <2>4. /\ f[PA][perms] \in Perms
        /\ \A w \in Words :
             /\ r.high + 1 <= w /\ w <= lastPA => f[PA][perms][w] = Allowed(m, w)
             /\ f[PA][perms][w] \in {new[w], Allowed(m, w)}
    BY <1>2, <2>2, <2>3 DEF MapsFrom
  <2>5. ASSUME NEW w \in Words
        PROVE  /\ PA <= w /\ w <= lastPA => f[PA][perms][w] = Allowed(m, w)
               /\ f[PA][perms][w] \in {perms[w], Allowed(m, w)}
    <3>1. PA <= w /\ w <= lastPA => (r.low <= w /\ w <= r.high) \/ r.high + 1 <= w
      BY <1>1, <1>5
    <3> QED BY <1>6, <2>4, <3>1, Zenon
  <2> QED BY <2>4, <2>5, Zenon
<1>8. CASE ~(r.high < lastPA)
  <2>1. f[PA][perms] = new
    BY <1>4, <1>8, Zenon
  <2>2. \A w \in Words : PA <= w /\ w <= lastPA => r.low <= w /\ w <= r.high
    BY <1>1, <1>5, <1>8
  <2> QED BY <1>2, <1>6, <2>1, <2>2, Zenon
<1> QED BY <1>7, <1>8, Zenon

LEMMA MappedRight ==
  ASSUME TypeOK, NEW m, NEW lastPA \in Words, NEW f, MappedFrom(m, lastPA, 0, f),
         NEW PA \in Words
  PROVE  MapsFrom(m, lastPA, f, PA)
<1> DEFINE T == {n \in 0 .. LastWord : ~MapsFrom(m, lastPA, f, LastWord - n)}
<1>0. LastWord \in Nat /\ PA \in 0 .. LastWord
  BY WordsLast, Zenon
<1>1. SUFFICES ASSUME T # {} PROVE FALSE
  <2>1. LastWord - PA \in 0 .. LastWord /\ LastWord - (LastWord - PA) = PA
    BY <1>0
  <2> QED BY <2>1, Zenon
<1>2. PICK n \in T : \A y \in T : n <= y
  <2>1. T \in SUBSET Nat
    BY <1>0
  <2> HIDE DEF T
  <2> QED BY <1>1, <2>1, LeastNat, Zenon
<1>3. n \in 0 .. LastWord /\ ~MapsFrom(m, lastPA, f, LastWord - n)
  BY <1>2, Zenon
<1>4. ASSUME NEW q \in (LastWord - n) + 1 .. LastWord
      PROVE  MapsFrom(m, lastPA, f, q)
  <2>1. LastWord - q \in 0 .. LastWord /\ LastWord - q < n /\ LastWord - (LastWord - q) = q
    BY <1>0, <1>3
  <2>2. LastWord - q \notin T
    BY <1>2, <1>3, <2>1
  <2> QED BY <2>1, <2>2, Zenon
<1>5. LastWord - n \in Words
  BY <1>0, <1>3, WordsLast
<1> QED BY <1>3, <1>4, <1>5, MappedMaps, Zenon

(* What a miss in the domain of mode m does to it. *)
LEMMA MissMaps ==
  ASSUME TypeOK, NEW m \in PMPModes, NEW lowPA \in Words, NEW lastPA \in Words
  PROVE  /\ RangesMapped(m, lowPA, lastPA) \in Perms
         /\ \A w \in Words :
              /\ lowPA <= w /\ w <= lastPA
                   => RangesMapped(m, lowPA, lastPA)[w] = Allowed(m, w)
              /\ RangesMapped(m, lowPA, lastPA)[w] \in {pmpDomains[m][w], Allowed(m, w)}
<1> DEFINE f == CHOOSE g : MappedFrom(m, lastPA, 0, g)
<1>1. MappedFrom(m, lastPA, 0, f)
  BY MappedExists, Zenon
<1>2. RangesMapped(m, lowPA, lastPA) = f[lowPA][pmpDomains[m]]
  BY Zenon DEF RangesMapped, MappedFrom, MappedAt, Words, LastWord, Perms
<1> HIDE DEF f
<1>3. MapsFrom(m, lastPA, f, lowPA)
  BY <1>1, MappedRight, Zenon
<1>4. pmpDomains[m] \in Perms
  BY Zenon DEF TypeOK, Perms
<1> QED BY <1>2, <1>3, <1>4, Zenon DEF MapsFrom

-----------------------------------------------------------------------------
(* Type correctness and the range of a miss                                *)

LEMMA WritableAddrTyped ==
  ASSUME NEW v \in Nat
  PROVE  WritableAddr(v) \in Words
<1> DEFINE W == 2^AddrBits
           masked == v % W
           n == 2^(PMP_grain - 1)
<1>1. W \in Nat \ {0}
  BY GrainPowers, Zenon
<1>2. masked \in 0 .. W - 1
  <2> HIDE DEF W
  <2> QED BY <1>1
<1>3. PMP_grain > 0 => n \in Nat \ {0}
  BY GrainPowers, PMPAssumption
<1>4. PMP_grain > 0 => AlignDown(masked, n) \in 0 .. masked
  <2> HIDE DEF masked, n, W
  <2> QED BY <1>1, <1>2, <1>3, AlignType
<1>5. WritableAddr(v) = IF PMP_grain > 0 THEN AlignDown(masked, n) ELSE masked
  BY Zenon DEF WritableAddr
<1> HIDE DEF masked, n
<1> QED BY <1>1, <1>2, <1>4, <1>5 DEF Words

(* What a step does to the registers, and that it leaves the domains       *)
(* typed.                                                                  *)
LEMMA NextTyped == TypeOK /\ [Next]_vars => TypeOK'
<1> SUFFICES ASSUME TypeOK, [Next]_vars PROVE TypeOK'
  BY Zenon
<1>1. RegistersOK
  BY Zenon DEF TypeOK, RegistersOK
<1>2. pmpcfg' \in [Entries -> pmpcfgElem]
  BY <1>1, NextRegisters, Zenon DEF RegistersOK
<1>3. ASSUME NEW artifact \in Artifact, pmpcfgW(artifact) PROVE TypeOK'
  <2>1. PICK offset \in {i \div entriesPerCFG : i \in Entries} :
          \E new \in [CfgEntries(offset) -> Writable] :
            riscvVMWritePMPCFG(offset, new, artifact)
    BY <1>3, Zenon DEF pmpcfgW
  <2>2. PICK new : riscvVMWritePMPCFG(offset, new, artifact)
    BY <2>1, Zenon
  <2>3. pmpaddr' = pmpaddr
    BY <2>2, CfgWrite, Zenon
  <2>4. pmpDomains' \in [PMPModes -> [Words -> SUBSET RWX]]
    BY <2>2, Zenon DEF riscvVMWritePMPCFG, Without, TypeOK
  <2> QED BY <1>2, <2>3, <2>4, Zenon DEF TypeOK
<1>4. ASSUME NEW artifact \in Artifact, pmpaddrW(artifact) PROVE TypeOK'
  <2>1. PICK i \in Entries, v \in 0 .. 2^(AddrBits + 1) - 1 :
          riscvVMWritePMPAddr(i, v, artifact)
    BY <1>4, Zenon DEF pmpaddrW
  <2>2. pmpaddr' \in [Entries -> Words]
    BY <2>1, AddrWrite, WritableAddrTyped DEF TypeOK
  <2>3. pmpDomains' \in [PMPModes -> [Words -> SUBSET RWX]]
    BY <2>1, Zenon DEF riscvVMWritePMPAddr, Without, TypeOK
  <2> QED BY <1>2, <2>2, <2>3, Zenon DEF TypeOK
<1>5. CASE riscvVMResetPMP
  <2>1. pmpaddr' \in [Entries -> Words]
    BY <1>5, ResetWrite, WordsNat, Zenon
  <2>2. pmpDomains' \in [PMPModes -> [Words -> SUBSET RWX]]
    BY <1>5, Zenon DEF riscvVMResetPMP, Without, TypeOK
  <2> QED BY <1>2, <2>1, <2>2, Zenon DEF TypeOK
<1>6. CASE riscvVMMiss
  <2>1. PICK m \in MissModes, lowPA \in Words, lastPA \in Words : mapPMP(m, lowPA, lastPA)
    BY <1>6, Zenon DEF riscvVMMiss
  <2>2. m \in PMPModes
    BY PMPAssumption, Zenon DEF PMPModes
  <2>3. RangesMapped(m, lowPA, lastPA) \in [Words -> SUBSET RWX]
    BY <2>2, MissMaps, Zenon DEF Perms
  <2> QED BY <2>1, <2>3, Zenon DEF mapPMP, TypeOK
<1>7. CASE UNCHANGED vars
  BY <1>7, Zenon DEF vars, TypeOK
<1> QED BY <1>3, <1>4, <1>5, <1>6, <1>7, Zenon DEF Next

(* The registers keep their fields, and a domain has a permission for      *)
(* every word, whatever the writes, resets and misses.                     *)
THEOREM PMPTypeCorrect == Spec => []TypeOK
<1>1. Init => TypeOK
  BY WordsNat DEF Init, TypeOK, pmpcfgElem, ResetElem, AddrModes, RWX
<1> QED BY <1>1, NextTyped, PTL DEF Spec

(* The range that mapPMPInt computes contains the address it was asked     *)
(* for, and the first matching entry gives every word of it the privileges *)
(* that the loop over refinePMPRegionRange found.                          *)
THEOREM RangesUniform == Spec => []RangeUniform
BY PMPTypeCorrect, TypedUniform, PTL

(* After mapPMP every word of the range that missed has exactly the        *)
(* privileges the registers give it, over any number of region boundaries. *)
THEOREM MissesMapRange == Spec => MissMapsRange
<1>1. TypeOK /\ [Next]_vars =>
        [\A m \in PMPModes, lowPA, lastPA \in Words :
           lowPA <= lastPA /\ mapPMP(m, lowPA, lastPA)
             => \A w \in lowPA .. lastPA : pmpDomains'[m][w] = Allowed(m, w)]_vars
  <2> SUFFICES ASSUME TypeOK, NEW m \in PMPModes, NEW lowPA \in Words, NEW lastPA \in Words,
                      mapPMP(m, lowPA, lastPA), NEW w \in lowPA .. lastPA
               PROVE  pmpDomains'[m][w] = Allowed(m, w)
    BY Zenon
  <2>1. w \in Words /\ lowPA <= w /\ w <= lastPA
    BY WordsLast
  <2>2. pmpDomains'[m] = RangesMapped(m, lowPA, lastPA)
    BY Zenon DEF mapPMP, TypeOK
  <2> QED BY <2>1, <2>2, MissMaps
<1> QED BY PMPTypeCorrect, <1>1, PTL DEF Spec, MissMapsRange

-----------------------------------------------------------------------------
(* What register writes invalidate                                         *)

(* The entries that match w, and what they allow, by registers c and a. *)
MatchIn(c, a, w) == {i \in Entries : w \in Region(c, a, i)}

AllowIn(m, c, a, w) ==
  IF MatchIn(c, a, w) = {} THEN IF m = "M" THEN RWX ELSE {}
  ELSE EntryPriv(m, c[Min(MatchIn(c, a, w))])

LEMMA CurrentIn ==
  /\ DomainsCurrent <=> \A w \in Words, m \in PMPModes :
                          pmpDomains[m][w] \subseteq AllowIn(m, pmpcfg, pmpaddr, w)
  /\ DomainsCurrent' <=> \A w \in Words, m \in PMPModes :
                          pmpDomains'[m][w] \subseteq AllowIn(m, pmpcfg', pmpaddr', w)
BY Zenon DEF DomainsCurrent, Matching, AllowedBy, AllowIn, MatchIn

LEMMA FirstIn ==
  ASSUME NEW c, NEW a, NEW w, MatchIn(c, a, w) # {}
  PROVE  \E k \in MatchIn(c, a, w) : /\ \A j \in MatchIn(c, a, w) : k <= j
                                     /\ \A m : AllowIn(m, c, a, w) = EntryPriv(m, c[k])
<1> DEFINE K == MatchIn(c, a, w)
<1>1. K \in SUBSET Nat
  BY WordsNat, Zenon DEF MatchIn
<1>2. Min(K) \in K /\ \A j \in K : Min(K) <= j
  <2> HIDE DEF K
  <2> QED BY <1>1, MinNat, Zenon DEF K
<1>3. \A m : AllowIn(m, c, a, w) = EntryPriv(m, c[Min(K)])
  BY Zenon DEF AllowIn
<1> QED BY <1>2, <1>3, Zenon

LEMMA AllowTyped ==
  ASSUME NEW c \in [Entries -> pmpcfgElem], NEW a, NEW w, NEW m
  PROVE  AllowIn(m, c, a, w) \subseteq RWX
<1>1. CASE MatchIn(c, a, w) = {}
  BY <1>1, Zenon DEF AllowIn
<1>2. CASE MatchIn(c, a, w) # {}
  <2>1. PICK k \in MatchIn(c, a, w) : AllowIn(m, c, a, w) = EntryPriv(m, c[k])
    BY <1>2, FirstIn, Zenon
  <2>2. c[k] \in pmpcfgElem
    BY Zenon DEF MatchIn
  <2> QED BY <2>1, <2>2, Zenon DEF EntryPriv, pmpcfgElem
<1> QED BY <1>1, <1>2, Zenon

(* Registers c and a become d and b; only the entries of ch change, and    *)
(* for mode m no changed entry that it heeds (S: any; M: locked) matches   *)
(* w, nor did one match w in front of an entry that it heeds.              *)
Unaffected(c, a, d, b, ch, m, w) ==
  /\ \A i \in Entries \ ch : d[i] = c[i] /\ Region(d, b, i) = Region(c, a, i)
  /\ \A i \in ch : m = "S" \/ d[i].L => w \notin Region(d, b, i)
  /\ \A i \in ch : m = "S" \/ lowerPriorityPMPEntryLocked(d, i) => w \notin Region(c, a, i)

(* Then w loses no privilege of the mode. *)
LEMMA NothingLost ==
  ASSUME NEW c \in [Entries -> pmpcfgElem], NEW d \in [Entries -> pmpcfgElem],
         NEW a, NEW b, NEW w, NEW m \in PMPModes, NEW ch \in SUBSET Entries,
         Unaffected(c, a, d, b, ch, m, w)
  PROVE  AllowIn(m, c, a, w) \subseteq AllowIn(m, d, b, w)
<1>0. /\ \A i \in Entries \ ch : d[i] = c[i] /\ Region(d, b, i) = Region(c, a, i)
      /\ \A i \in ch : m = "S" \/ d[i].L => w \notin Region(d, b, i)
      /\ \A i \in ch : m = "S" \/ lowerPriorityPMPEntryLocked(d, i) => w \notin Region(c, a, i)
  BY Zenon DEF Unaffected
<1> USE <1>0
<1> DEFINE K == MatchIn(c, a, w)
           L == MatchIn(d, b, w)
<1>1. \A i \in Entries \ ch : i \in K <=> i \in L
  BY Zenon DEF MatchIn
<1>2. K \subseteq Entries /\ L \subseteq Entries /\ Entries \subseteq Nat
  BY WordsNat, Zenon DEF MatchIn
<1>3. CASE m = "S"
  <2>1. \A i \in ch : i \notin K /\ i \notin L
    BY <1>3, Zenon DEF MatchIn
  <2>2. K = L
    BY <1>1, <1>2, <2>1, Zenon
  <2>3. CASE K = {}
    BY <2>2, <2>3, Zenon DEF AllowIn
  <2>4. CASE K # {}
    <3>1. Min(K) \in K
      <4>1. K \in SUBSET Nat
        BY <1>2, Zenon
      <4> HIDE DEF K
      <4> QED BY <2>4, <4>1, MinNat, Zenon
    <3>2. d[Min(K)] = c[Min(K)]
      BY <1>2, <2>1, <3>1, Zenon
    <3> QED BY <2>2, <2>4, <3>2, Zenon DEF AllowIn
  <2> QED BY <2>3, <2>4, Zenon
<1>4. CASE m = "M"
  <2>1. AllowIn(m, c, a, w) \subseteq RWX
    BY AllowTyped, Zenon
  <2>2. CASE L = {}
    BY <1>4, <2>1, <2>2, Zenon DEF AllowIn
  <2>3. CASE L # {}
    <3>1. PICK l \in L : /\ \A j \in L : l <= j
                         /\ AllowIn(m, d, b, w) = EntryPriv(m, d[l])
      BY <2>3, FirstIn, Zenon
    <3>2. CASE ~d[l].L
      BY <1>4, <2>1, <3>1, <3>2, Zenon DEF EntryPriv
    <3>3. CASE d[l].L
      <4>1. w \in Region(d, b, l) /\ l \in Entries
        BY Zenon DEF MatchIn
      <4>2. l \notin ch
        BY <3>3, <4>1, Zenon
      <4>3. l \in K /\ d[l] = c[l]
        BY <1>1, <4>1, <4>2, Zenon
      <4>4. PICK k \in K : /\ \A j \in K : k <= j
                           /\ AllowIn(m, c, a, w) = EntryPriv(m, c[k])
        BY <4>3, FirstIn, Zenon
      <4>5. k = l
        <5>1. SUFFICES ASSUME k # l PROVE FALSE
          BY Zenon
        <5>0. k \in Nat /\ l \in Nat
          BY <1>2, <4>1, Zenon
        <5>2. k < l
          <6> HIDE DEF K, L
          <6>1. k <= l
            BY <4>3, <4>4, Zenon
          <6> QED BY <5>0, <5>1, <6>1
        <5>3. k \notin L
          <6> HIDE DEF K, L
          <6>1. ~(l <= k)
            BY <5>0, <5>2
          <6> QED BY <3>1, <6>1, Zenon
        <5>4. k \in ch /\ w \in Region(c, a, k)
          BY <1>1, <1>2, <5>3, Zenon DEF MatchIn
        <5>5. d[l].mode # "OFF"
          BY <4>1, Zenon DEF Region, getPMPRegionActive
        <5>6. lowerPriorityPMPEntryLocked(d, k)
          BY <1>2, <3>3, <4>1, <5>2, <5>5, Zenon DEF lowerPriorityPMPEntryLocked
        <5> QED BY <5>4, <5>6, Zenon
      <4> QED BY <3>1, <4>3, <4>4, <4>5, Zenon
    <3>4. d[l].L \in BOOLEAN
      BY Zenon DEF MatchIn, pmpcfgElem
    <3> QED BY <3>2, <3>3, <3>4, Zenon
  <2> QED BY <2>2, <2>3, Zenon
<1> QED BY <1>3, <1>4, Zenon DEF PMPModes

(* It is enough that a word that is not invalidated loses no privilege. *)
LEMMA KeepsCurrent ==
  ASSUME DomainsCurrent,
         \A w \in Words, m \in PMPModes :
           \/ pmpDomains'[m][w] = {}
           \/ /\ pmpDomains'[m][w] = pmpDomains[m][w]
              /\ AllowIn(m, pmpcfg, pmpaddr, w) \subseteq AllowIn(m, pmpcfg', pmpaddr', w)
  PROVE  DomainsCurrent'
<1>1. \A w \in Words, m \in PMPModes : pmpDomains[m][w] \subseteq AllowIn(m, pmpcfg, pmpaddr, w)
  BY CurrentIn, Zenon
<1>2. \A w \in Words, m \in PMPModes : pmpDomains'[m][w] \subseteq AllowIn(m, pmpcfg', pmpaddr', w)
  BY <1>1, Zenon
<1> QED BY <1>2, CurrentIn, Zenon

LEMMA CfgWriteCurrent ==
  ASSUME TypeOK, TypeOK', DomainsCurrent, NEW offset, NEW new, NEW artifact,
         riscvVMWritePMPCFG(offset, new, artifact)
  PROVE  DomainsCurrent'
<1> DEFINE Before(i) == [j \in Entries |-> IF j > i THEN pmpcfg'[j] ELSE pmpcfg[j]]
           ch == {j \in Entries : pmpcfg'[j] # pmpcfg[j]}
           Gone(m) == UNION {invalidatePMPEntry(Before(i), pmpaddr, i, m)
                               \cup invalidatePMPEntry(pmpcfg', pmpaddr, i, m) : i \in ch}
<1>1. pmpaddr' = pmpaddr
  BY Zenon DEF riscvVMWritePMPCFG
<1>2. pmpDomains' = [m \in PMPModes |-> [w \in Words |->
                       IF w \in Gone(m) THEN {} ELSE pmpDomains[m][w]]]
  BY DEF riscvVMWritePMPCFG, Without
<1> SUFFICES ASSUME NEW w \in Words, NEW m \in PMPModes, w \notin Gone(m)
             PROVE  AllowIn(m, pmpcfg, pmpaddr, w) \subseteq AllowIn(m, pmpcfg', pmpaddr', w)
  <2>1. \A w \in Words, m \in PMPModes :
          pmpDomains'[m][w] = IF w \in Gone(m) THEN {} ELSE pmpDomains[m][w]
    BY <1>2, Zenon
  <2> HIDE DEF Gone
  <2> QED BY <2>1, KeepsCurrent, Zenon
<1>3. \A i \in ch : w \notin invalidatePMPEntry(Before(i), pmpaddr, i, m)
                   /\ w \notin invalidatePMPEntry(pmpcfg', pmpaddr, i, m)
  OBVIOUS
<1>4. ASSUME NEW i \in Entries \ ch
      PROVE  pmpcfg'[i] = pmpcfg[i] /\ Region(pmpcfg', pmpaddr', i) = Region(pmpcfg, pmpaddr, i)
  <2>1. RegistersOK /\ pmpcfg'[i] = pmpcfg[i]
    BY Zenon DEF TypeOK, RegistersOK
  <2> QED BY <1>1, <2>1, RegionLocal, Zenon
<1>5. ASSUME NEW i \in ch, m = "S" \/ pmpcfg'[i].L
      PROVE  w \notin Region(pmpcfg', pmpaddr', i)
  BY <1>1, <1>3, <1>5, Zenon DEF invalidatePMPEntry
<1>6. ASSUME NEW i \in ch, m = "S" \/ lowerPriorityPMPEntryLocked(pmpcfg', i)
      PROVE  w \notin Region(pmpcfg, pmpaddr, i)
  <2>1. i \in Nat /\ Before(i)[i] = pmpcfg[i]
    BY WordsNat
  <2>2. pmpcfg[i].mode \in AddrModes
    BY Zenon DEF TypeOK, pmpcfgElem
  <2>3. Region(Before(i), pmpaddr, i) = Region(pmpcfg, pmpaddr, i)
    <3> HIDE DEF Before
    <3> QED BY <2>1, <2>2, RegionOf
  <2>4. lowerPriorityPMPEntryLocked(pmpcfg', i) => lowerPriorityPMPEntryLocked(Before(i), i)
    BY Zenon DEF lowerPriorityPMPEntryLocked
  <2>5. w \notin invalidatePMPEntry(Before(i), pmpaddr, i, m)
    BY <1>3, Zenon
  <2> HIDE DEF Before
  <2> QED BY <1>6, <2>3, <2>4, <2>5, Zenon DEF invalidatePMPEntry
<1>7. pmpcfg \in [Entries -> pmpcfgElem] /\ pmpcfg' \in [Entries -> pmpcfgElem]
  BY Zenon DEF TypeOK
<1>8. ch \in SUBSET Entries
  BY Zenon
<1> HIDE DEF ch
<1>9. Unaffected(pmpcfg, pmpaddr, pmpcfg', pmpaddr', ch, m, w)
  BY <1>4, <1>5, <1>6, Zenon DEF Unaffected
<1> QED BY <1>7, <1>8, <1>9, NothingLost, Zenon

LEMMA AddrWriteCurrent ==
  ASSUME TypeOK, DomainsCurrent, ~MovesTORBound,
         NEW k \in Entries, NEW v, NEW artifact, riscvVMWritePMPAddr(k, v, artifact)
  PROVE  DomainsCurrent'
<1> DEFINE Gone(m) == invalidatePMPEntry(pmpcfg, pmpaddr, k, m)
                        \cup invalidatePMPEntry(pmpcfg, pmpaddr', k, m)
<1>1. /\ pmpcfg' = pmpcfg
      /\ pmpaddr[k] # WritableAddr(v)
      /\ pmpaddr' = [pmpaddr EXCEPT ![k] = WritableAddr(v)]
  BY Zenon DEF riscvVMWritePMPAddr
<1>2. pmpDomains' = [m \in PMPModes |-> [w \in Words |->
                       IF w \in Gone(m) THEN {} ELSE pmpDomains[m][w]]]
  BY Zenon DEF riscvVMWritePMPAddr, Without
<1> SUFFICES ASSUME NEW w \in Words, NEW m \in PMPModes, w \notin Gone(m)
             PROVE  AllowIn(m, pmpcfg, pmpaddr, w) \subseteq AllowIn(m, pmpcfg, pmpaddr', w)
  <2>1. \A w \in Words, m \in PMPModes :
          pmpDomains'[m][w] = IF w \in Gone(m) THEN {} ELSE pmpDomains[m][w]
    BY <1>2, Zenon
  <2> HIDE DEF Gone
  <2> QED BY <1>1, <2>1, KeepsCurrent, Zenon
<1>3. RegistersOK /\ pmpcfg \in [Entries -> pmpcfgElem]
  BY Zenon DEF TypeOK, RegistersOK
<1>4. pmpaddr'[k] # pmpaddr[k]
  BY <1>1, Zenon DEF TypeOK
<1>5. ASSUME NEW i \in Entries \ {k}
      PROVE  Region(pmpcfg, pmpaddr', i) = Region(pmpcfg, pmpaddr, i)
  <2>1. pmpaddr'[i] = pmpaddr[i]
    BY <1>1, Zenon DEF TypeOK
  <2>2. pmpcfg[i].mode = "TOR" /\ i # 0 => pmpaddr'[i - 1] = pmpaddr[i - 1]
    <3> SUFFICES ASSUME pmpcfg[i].mode = "TOR", i # 0
                 PROVE  pmpaddr'[i - 1] = pmpaddr[i - 1]
      BY Zenon
    <3>1. i - 1 \in Entries /\ (i - 1) + 1 = i
      BY PMPAssumption DEF Entries
    <3> QED BY <3>1, Zenon DEF MovesTORBound
  <2>3. pmpcfg[i].mode \in AddrModes
    BY <1>3, Zenon DEF pmpcfgElem
  <2> QED BY <2>1, <2>2, <2>3, RegionOf
<1>6. m = "S" \/ pmpcfg[k].L => w \notin Region(pmpcfg, pmpaddr', k)
  BY Zenon DEF invalidatePMPEntry
<1>7. m = "S" \/ lowerPriorityPMPEntryLocked(pmpcfg, k) => w \notin Region(pmpcfg, pmpaddr, k)
  BY Zenon DEF invalidatePMPEntry
<1> DEFINE ch == {k}
<1>8. ch \in SUBSET Entries /\ Unaffected(pmpcfg, pmpaddr, pmpcfg, pmpaddr', ch, m, w)
  BY <1>5, <1>6, <1>7, Zenon DEF Unaffected
<1> HIDE DEF ch
<1> QED BY <1>3, <1>8, NothingLost, Zenon

(* Resetting the addresses below entry i first can only move the start of  *)
(* its region down.                                                        *)
LEMMA ResetRegion ==
  ASSUME TypeOK, NEW i \in Entries, NEW w \in Region(pmpcfg, pmpaddr, i)
  PROVE  w \in Region(pmpcfg, [j \in Entries |-> IF j < i THEN 0 ELSE pmpaddr[j]], i)
<1> DEFINE a == [j \in Entries |-> IF j < i THEN 0 ELSE pmpaddr[j]]
<1>1. i \in Nat /\ 0 \in Words /\ a \in [Entries -> Words] /\ a[i] = pmpaddr[i]
  BY WordsNat DEF TypeOK
<1>2. pmpcfg \in [Entries -> pmpcfgElem] /\ pmpaddr \in [Entries -> Words]
  BY Zenon DEF TypeOK
<1>3. CASE pmpcfg[i].mode = "TOR" /\ i # 0
  <2> DEFINE n == 2^PMP_grain
             e == getEffectivePMPAddr(pmpcfg[i], pmpaddr[i])
  <2>0. i - 1 \in Entries /\ i - 1 < i
    BY <1>3, PMPAssumption DEF Entries
  <2>1. i - 1 \in Entries /\ a[i - 1] = 0 /\ n \in Nat \ {0}
    BY <2>0, GrainPowers
  <2>2. AlignDown(0, n) = 0 /\ AlignDown(pmpaddr[i - 1], n) \in Nat
    <3>1. pmpaddr[i - 1] \in Nat
      BY <1>2, <2>1, WordsNat, Zenon
    <3> HIDE DEF n
    <3>2. AlignDown(0, n) \in 0 .. 0 /\ AlignDown(pmpaddr[i - 1], n) \in 0 .. pmpaddr[i - 1]
      BY <2>1, <3>1, AlignType, Zenon
    <3> QED BY <3>1, <3>2
  <2>3. Region(pmpcfg, pmpaddr, i) = IF getPMPRegionActive(pmpcfg[i], pmpaddr[i])
                                     THEN AlignDown(pmpaddr[i - 1], n) .. e - 1 ELSE {}
    BY <1>3, Zenon DEF Region, getPMPEntryBounds
  <2>4. Region(pmpcfg, a, i) = IF getPMPRegionActive(pmpcfg[i], pmpaddr[i])
                               THEN AlignDown(0, n) .. e - 1 ELSE {}
    BY <1>1, <1>3, <2>1, Zenon DEF Region, getPMPEntryBounds
  <2>5. e \in Nat
    BY <1>2, EffectiveType
  <2> HIDE DEF a, e, n
  <2>6. w \in Region(pmpcfg, a, i)
    BY <2>2, <2>3, <2>4, <2>5
  <2> QED BY <2>6, Zenon DEF a
<1>4. CASE ~(pmpcfg[i].mode = "TOR" /\ i # 0)
  <2>1. pmpcfg[i].mode \in AddrModes
    BY <1>2, Zenon DEF pmpcfgElem
  <2> HIDE DEF a
  <2>2. Region(pmpcfg, a, i) = Region(pmpcfg, pmpaddr, i)
    BY <1>1, <1>4, <2>1, RegionOf
  <2> QED BY <2>2, Zenon DEF a
<1> QED BY <1>3, <1>4, Zenon

LEMMA ResetCurrent ==
  ASSUME TypeOK, DomainsCurrent, riscvVMResetPMP
  PROVE  DomainsCurrent'
<1> DEFINE Addr(i) == [j \in Entries |-> IF j < i THEN 0 ELSE pmpaddr[j]]
           Gone(m) == UNION {invalidatePMPEntry(pmpcfg, Addr(i), i, m) : i \in Entries}
<1>1. pmpDomains' = [m \in PMPModes |-> [w \in Words |->
                       IF w \in Gone(m) THEN {} ELSE pmpDomains[m][w]]]
  BY Zenon DEF riscvVMResetPMP, Without
<1> SUFFICES ASSUME NEW w \in Words, NEW m \in PMPModes, w \notin Gone(m)
             PROVE  AllowIn(m, pmpcfg, pmpaddr, w) \subseteq AllowIn(m, pmpcfg', pmpaddr', w)
  <2>1. \A w \in Words, m \in PMPModes :
          pmpDomains'[m][w] = IF w \in Gone(m) THEN {} ELSE pmpDomains[m][w]
    BY <1>1, Zenon
  <2> HIDE DEF Gone
  <2> QED BY <2>1, KeepsCurrent, Zenon
<1>2. MatchIn(pmpcfg', pmpaddr', w) = {}
  <2>1. \A i \in Entries : pmpcfg'[i].mode = "OFF"
    BY ResetWrite DEF ResetElem
  <2> QED BY <2>1, Zenon DEF MatchIn, Region, getPMPRegionActive
<1>3. CASE m = "M"
  <2>1. AllowIn(m, pmpcfg, pmpaddr, w) \subseteq RWX
    BY AllowTyped, Zenon DEF TypeOK
  <2> QED BY <1>2, <1>3, <2>1, Zenon DEF AllowIn
<1>4. CASE m = "S"
  <2>1. ASSUME NEW i \in Entries, w \in Region(pmpcfg, pmpaddr, i) PROVE FALSE
    <3>1. w \in Region(pmpcfg, Addr(i), i)
      BY <2>1, ResetRegion, Zenon
    <3>2. w \in invalidatePMPEntry(pmpcfg, Addr(i), i, m)
      BY <1>4, <3>1, Zenon DEF invalidatePMPEntry
    <3> QED BY <3>2, Zenon
  <2>2. MatchIn(pmpcfg, pmpaddr, w) = {}
    BY <2>1, Zenon DEF MatchIn
  <2> QED BY <1>4, <2>2, Zenon DEF AllowIn
<1> QED BY <1>3, <1>4, Zenon DEF PMPModes

LEMMA MissCurrent ==
  ASSUME TypeOK, DomainsCurrent, riscvVMMiss
  PROVE  DomainsCurrent'
<1>1. PICK n \in MissModes, lowPA \in Words, lastPA \in Words : mapPMP(n, lowPA, lastPA)
  BY Zenon DEF riscvVMMiss
<1>2. n \in PMPModes
  BY PMPAssumption, Zenon DEF PMPModes
<1>3. pmpcfg' = pmpcfg /\ pmpaddr' = pmpaddr
  BY MissKeepsRegisters, Zenon
<1>4. \A w \in Words : RangesMapped(n, lowPA, lastPA)[w] \in {pmpDomains[n][w], Allowed(n, w)}
  BY <1>2, MissMaps, Zenon
<1>5. \A m \in PMPModes, w \in Words :
        pmpDomains'[m][w] \in {pmpDomains[m][w], Allowed(m, w)}
  BY <1>1, <1>4, Zenon DEF mapPMP, TypeOK
<1>6. \A m, w : Allowed(m, w) = AllowIn(m, pmpcfg, pmpaddr, w)
  BY Zenon DEF Allowed, AllowedBy, Matching, AllowIn, MatchIn
<1>7. \A w \in Words, m \in PMPModes : pmpDomains[m][w] \subseteq AllowIn(m, pmpcfg, pmpaddr, w)
  BY CurrentIn, Zenon
<1>8. \A w \in Words, m \in PMPModes :
        pmpDomains'[m][w] \subseteq AllowIn(m, pmpcfg', pmpaddr', w)
  BY <1>3, <1>5, <1>6, <1>7, Zenon
<1> QED BY <1>8, CurrentIn, Zenon

(* Whatever riscvVMWritePMPCFG, riscvVMWritePMPAddr, riscvVMResetPMP or a  *)
(* miss does, no domain is left with a permission that the registers do    *)
(* not give, unless it was before or the lower bound of a TOR entry moved. *)
THEOREM WritesInvalidated == Spec => WritesInvalidate
<1>1. TypeOK /\ TypeOK' /\ [Next]_vars =>
        [~DomainsCurrent' => ~DomainsCurrent \/ MovesTORBound]_vars
  <2> SUFFICES ASSUME TypeOK, TypeOK', Next, DomainsCurrent, ~MovesTORBound
               PROVE  DomainsCurrent'
    BY Zenon
  <2>1. ASSUME NEW artifact \in Artifact, pmpcfgW(artifact) PROVE DomainsCurrent'
    <3>1. PICK offset \in {i \div entriesPerCFG : i \in Entries} :
            \E new \in [CfgEntries(offset) -> Writable] :
              riscvVMWritePMPCFG(offset, new, artifact)
      BY <2>1, Zenon DEF pmpcfgW
    <3>2. PICK new : riscvVMWritePMPCFG(offset, new, artifact)
      BY <3>1, Zenon
    <3> QED BY <3>2, CfgWriteCurrent, Zenon
  <2>2. ASSUME NEW artifact \in Artifact, pmpaddrW(artifact) PROVE DomainsCurrent'
    <3>1. PICK i \in Entries, v \in 0 .. 2^(AddrBits + 1) - 1 :
            riscvVMWritePMPAddr(i, v, artifact)
      BY <2>2, Zenon DEF pmpaddrW
    <3> QED BY <3>1, AddrWriteCurrent, Zenon
  <2>3. CASE riscvVMResetPMP
    BY <2>3, ResetCurrent, Zenon
  <2>4. CASE riscvVMMiss
    BY <2>4, MissCurrent, Zenon
  <2> QED BY <2>1, <2>2, <2>3, <2>4, Zenon DEF Next
<1> QED BY PMPTypeCorrect, <1>1, PTL DEF Spec, WritesInvalidate

=============================================================================
