----------------------------- MODULE TLBProofs -----------------------------
(***************************************************************************)
(* Proofs about TLB, for every page table, TLB size and address width.     *)
(*                                                                         *)
(* The inductive invariant TLBInv adds to the properties of TLB what an    *)
(* alias rests on: an entry has the shape and size that a walk gives it,   *)
(* and the privileges of an alias are those that the entry has under its   *)
(* own MXR and SUM (simASID), with no write unless the entry is dirty.     *)
(*                                                                         *)
(* A walk and the table that Translation consults at a level are recursive *)
(* functions of at most four levels; they are unfolded level by level.     *)
(***************************************************************************)
EXTENDS TLB, TLAPS

(* One step of a walk after what it has found at the level above. *)
WalkOn(va, i, w) == IF w.error = "pointer" THEN WalkEntry(va, i, w.PPN) ELSE w

WalkStep(va, level, root, w, i) ==
  IF i >= level THEN WalkEntry(va, level, root) ELSE WalkOn(va, i, w[i + 1])

(* A walk is a function of the level that satisfies its recursion. *)
LEMMA WalkExists ==
  ASSUME NEW va, NEW level \in 0..3, NEW root
  PROVE  \E w : /\ WalkFrom(va, level, root) = w[-1]
                /\ \A i \in -1..3 : w[i] = WalkStep(va, level, root, w, i)
<1> DEFINE top == WalkEntry(va, level, root)
           w2 == IF 2 >= level THEN top ELSE WalkOn(va, 2, top)
           w1 == IF 1 >= level THEN top ELSE WalkOn(va, 1, w2)
           w0 == IF 0 >= level THEN top ELSE WalkOn(va, 0, w1)
           wm == WalkOn(va, -1, w0)
           f == [i \in -1..3 |-> IF i = 3 THEN top ELSE IF i = 2 THEN w2
                                  ELSE IF i = 1 THEN w1 ELSE IF i = 0 THEN w0 ELSE wm]
           D(w) == w = [i \in -1..3 |->
                          IF i >= level THEN WalkEntry(va, level, root)
                          ELSE IF w[i + 1].error = "pointer" THEN WalkEntry(va, i, w[i + 1].PPN)
                          ELSE w[i + 1]]
<1>1. f[3] = top /\ f[2] = w2 /\ f[1] = w1 /\ f[0] = w0 /\ f[-1] = wm
  <2> HIDE DEF top, w2, w1, w0, wm
  <2> QED OBVIOUS
<1>2. \A i \in -1..3 : f[i] = WalkStep(va, level, root, f, i)
  <2> HIDE DEF f
  <2>1. f[3] = WalkStep(va, level, root, f, 3)
    BY <1>1 DEF WalkStep
  <2>2. f[2] = WalkStep(va, level, root, f, 2)
    <3>1. 2 + 1 = 3 OBVIOUS
    <3> QED BY <1>1, <3>1, Zenon DEF WalkStep
  <2>3. f[1] = WalkStep(va, level, root, f, 1)
    <3>1. 1 + 1 = 2 OBVIOUS
    <3> HIDE DEF w2
    <3> QED BY <1>1, <3>1, Zenon DEF WalkStep
  <2>4. f[0] = WalkStep(va, level, root, f, 0)
    <3>1. 0 + 1 = 1 OBVIOUS
    <3> HIDE DEF w1
    <3> QED BY <1>1, <3>1, Zenon DEF WalkStep
  <2>5. f[-1] = WalkStep(va, level, root, f, -1)
    <3>1. -1 + 1 = 0 /\ ~(-1 >= level) OBVIOUS
    <3> HIDE DEF w0
    <3> QED BY <1>1, <3>1, Zenon DEF WalkStep
  <2>6. -1..3 = {-1, 0, 1, 2, 3} OBVIOUS
  <2> QED BY <2>1, <2>2, <2>3, <2>4, <2>5, <2>6, Zenon
<1>3. D(f)
  <2>1. f = [i \in -1..3 |-> f[i]]
    <3> HIDE DEF top, w2, w1, w0, wm
    <3> QED BY Zenon
  <2> HIDE DEF f
  <2>2. \A i \in -1..3 : f[i] = IF i >= level THEN WalkEntry(va, level, root)
                          ELSE IF f[i + 1].error = "pointer" THEN WalkEntry(va, i, f[i + 1].PPN)
                          ELSE f[i + 1]
    BY <1>2, Zenon DEF WalkStep, WalkOn
  <2> QED BY <2>1, <2>2, Zenon
<1> HIDE DEF f
<1> DEFINE c == CHOOSE w : D(w)
<1>4. D(c)
  <2> HIDE DEF D
  <2> QED BY <1>3, Zenon
<1>5. WalkFrom(va, level, root) = c[-1]
  BY Zenon DEF WalkFrom
<1>6. \A i \in -1..3 : c[i] = WalkStep(va, level, root, c, i)
  <2> HIDE DEF c
  <2> QED BY <1>4, Zenon DEF WalkStep, WalkOn
<1> HIDE DEF c
<1> QED BY <1>5, <1>6, Zenon

(* The table that Translation consults at each level, likewise. *)
TableStep(va, t, j) ==
  IF j >= Promise!LevelsOf(satp.MODE) - 1 THEN satp.PPN
  ELSE IF t[j + 1] \in Tables THEN mem[<<t[j + 1], getVPNi(va, j + 1)>>].PPN
  ELSE t[j + 1]

LEMMA TablesExist ==
  ASSUME NEW va, Promise!LevelsOf(satp.MODE) \in 2..4
  PROVE  \E t : /\ \A i \in 0..3 : Promise!TableAt(va, i) = t[i]
                /\ \A j \in 0..3 : t[j] = TableStep(va, t, j)
<1> DEFINE n == Promise!LevelsOf(satp.MODE)
           Down(j, t) == IF j >= n - 1 THEN satp.PPN
                         ELSE IF t \in Tables THEN mem[<<t, getVPNi(va, j + 1)>>].PPN ELSE t
           t2 == Down(2, satp.PPN)
           t1 == Down(1, t2)
           t0 == Down(0, t1)
           f == [j \in 0..3 |-> IF j = 3 THEN satp.PPN ELSE IF j = 2 THEN t2
                                ELSE IF j = 1 THEN t1 ELSE t0]
           D(t) == t = [j \in 0..3 |->
                          IF j >= n - 1 THEN satp.PPN
                          ELSE IF t[j + 1] \in Tables
                               THEN mem[<<t[j + 1], Promise!Index(va, j + 1)>>].PPN
                          ELSE t[j + 1]]
<1>0. \A j : Promise!Index(va, j) = getVPNi(va, j)
  BY Zenon DEF Promise!Index, getVPNi
<1>1. f[3] = satp.PPN /\ f[2] = t2 /\ f[1] = t1 /\ f[0] = t0
  <2> HIDE DEF t2, t1, t0
  <2> QED OBVIOUS
<1>2. \A j \in 0..3 : f[j] = TableStep(va, f, j)
  <2> HIDE DEF f
  <2>1. f[3] = TableStep(va, f, 3)
    BY <1>1 DEF TableStep
  <2>2. f[2] = TableStep(va, f, 2)
    <3>1. 2 + 1 = 3 OBVIOUS
    <3> QED BY <1>1, <3>1, Zenon DEF TableStep
  <2>3. f[1] = TableStep(va, f, 1)
    <3>1. 1 + 1 = 2 OBVIOUS
    <3> HIDE DEF t2
    <3> QED BY <1>1, <3>1, Zenon DEF TableStep
  <2>4. f[0] = TableStep(va, f, 0)
    <3>1. 0 + 1 = 1 OBVIOUS
    <3> HIDE DEF t1
    <3> QED BY <1>1, <3>1, Zenon DEF TableStep
  <2>5. 0..3 = {0, 1, 2, 3} OBVIOUS
  <2> QED BY <2>1, <2>2, <2>3, <2>4, <2>5, Zenon
<1>3. D(f)
  <2>1. f = [j \in 0..3 |-> f[j]]
    <3> HIDE DEF t2, t1, t0
    <3> QED BY Zenon
  <2> HIDE DEF f
  <2>2. \A j \in 0..3 : f[j] = IF j >= n - 1 THEN satp.PPN
                          ELSE IF f[j + 1] \in Tables
                               THEN mem[<<f[j + 1], Promise!Index(va, j + 1)>>].PPN
                          ELSE f[j + 1]
    BY <1>0, <1>2, Zenon DEF TableStep
  <2> QED BY <2>1, <2>2, Zenon
<1> HIDE DEF f
<1> DEFINE c == CHOOSE t : D(t)
<1>4. D(c)
  <2> HIDE DEF D
  <2> QED BY <1>3, Zenon
<1>5. \A i \in 0..3 : Promise!TableAt(va, i) = c[i]
  BY Zenon DEF Promise!TableAt
<1>6. \A j \in 0..3 : c[j] = TableStep(va, c, j)
  <2> HIDE DEF c
  <2> QED BY <1>0, <1>4, Zenon DEF TableStep
<1> HIDE DEF c
<1> QED BY <1>5, <1>6, Zenon

Last == Promise!LevelsOf(satp.MODE) - 1

(* The entry at level i is a valid leaf that the walk gets to, and what    *)
(* the walk then returns.                                                  *)
ValidLeaf(va, i) ==
  /\ Promise!TableAt(va, i) \in Tables
  /\ Promise!EntryAt(va, i).V
  /\ Promise!EntryAt(va, i).priv # {}
  /\ Promise!EntryAt(va, i).priv \cap {"R", "W"} # {"W"}

LeafAt(va, i) == Promise!Reached(va, i) /\ ValidLeaf(va, i)

Found(va, i) ==
  [error |-> "none", level |-> i, addr |-> <<Promise!TableAt(va, i), getVPNi(va, i)>>]

(* What the walk has found, w, once it has done level k. *)
WalkedTo(va, w, k) ==
  /\ w.error = "pointer" <=> \A j \in k .. Last : Promise!Pointer(va, j)
  /\ w.error = "pointer" /\ k > 0 => w.PPN = Promise!TableAt(va, k - 1)
  /\ w.error = "none" => \E i \in k .. Last : LeafAt(va, i) /\ w = Found(va, i)
  /\ \A i \in k .. Last : LeafAt(va, i) => w = Found(va, i)

(* The entry of the right table decides whether the walk goes on. *)
LEMMA WalkEntryAt ==
  ASSUME NEW va, NEW i \in 0..3
  PROVE  LET w == WalkEntry(va, i, Promise!TableAt(va, i))
         IN /\ w.error = "pointer" <=> Promise!Pointer(va, i)
            /\ w.error = "pointer" => w.PPN = Promise!EntryAt(va, i).PPN
            /\ w.error = "none" <=> ValidLeaf(va, i)
            /\ w.error = "none" => w = Found(va, i)
<1> DEFINE a == Promise!TableAt(va, i)
           pte == mem[<<a, getVPNi(va, i)>>]
           w == WalkEntry(va, i, a)
<1>1. Promise!EntryAt(va, i) = pte
  BY Zenon DEF Promise!EntryAt, Promise!Index, getVPNi
<1>2. w = IF a \notin Tables THEN [error |-> "READ"]
          ELSE IF ~pte.V THEN [error |-> "V0"]
          ELSE IF pte.priv \cap {"R", "W"} = {"W"} THEN [error |-> "R0W1"]
          ELSE IF pte.priv # {} THEN Found(va, i)
          ELSE [error |-> "pointer", PPN |-> pte.PPN]
  BY DEF WalkEntry, Found
<1>3. /\ Found(va, i).error = "none"
      /\ [error |-> "pointer", PPN |-> pte.PPN].error = "pointer"
      /\ [error |-> "pointer", PPN |-> pte.PPN].PPN = pte.PPN
  BY Zenon DEF Found
<1>4. Promise!Pointer(va, i) <=> a \in Tables /\ pte.V /\ pte.priv = {}
  BY <1>1, Zenon DEF Promise!Pointer
<1>5. ValidLeaf(va, i) <=> a \in Tables /\ pte.V /\ pte.priv # {} /\ pte.priv \cap {"R", "W"} # {"W"}
  BY <1>1, Zenon DEF ValidLeaf
<1>6. pte.priv = {} => pte.priv \cap {"R", "W"} # {"W"}
  BY Zenon
<1> HIDE DEF a, pte, w
<1>7. /\ w.error = "pointer" <=> Promise!Pointer(va, i)
      /\ w.error = "pointer" => w.PPN = Promise!EntryAt(va, i).PPN
      /\ w.error = "none" <=> ValidLeaf(va, i)
      /\ w.error = "none" => w = Found(va, i)
  BY <1>1, <1>2, <1>3, <1>4, <1>5, <1>6, Zenon
<1> QED BY <1>7, Zenon DEF w, a

(* A pointer leads to the table of the level below. *)
LEMMA PointerLeads ==
  ASSUME NEW va, Last \in 1..3, NEW k \in 1..3, k <= Last, Promise!Pointer(va, k)
  PROVE  Promise!EntryAt(va, k).PPN = Promise!TableAt(va, k - 1)
<1>1. PICK t : /\ \A i \in 0..3 : Promise!TableAt(va, i) = t[i]
               /\ \A j \in 0..3 : t[j] = TableStep(va, t, j)
  BY TablesExist DEF Last
<1>2. k - 1 \in 0..3 /\ (k - 1) + 1 = k /\ ~(k - 1 >= Last)
  OBVIOUS
<1>3. t[k] \in Tables
  BY <1>1 DEF Promise!Pointer
<1>4. t[k - 1] = mem[<<t[k], getVPNi(va, k)>>].PPN
  BY <1>1, <1>2, <1>3, Zenon DEF TableStep, Last
<1> QED BY <1>1, <1>2, <1>4 DEF Promise!EntryAt, Promise!Index, getVPNi

(* The walk, level by level. *)
LEMMA WalkDown ==
  ASSUME NEW va, Last \in 1..3, NEW k \in 0..3, k < Last, NEW w,
         WalkedTo(va, w, k + 1)
  PROVE  WalkedTo(va, WalkOn(va, k, w), k)
<1> DEFINE e == WalkEntry(va, k, Promise!TableAt(va, k))
           x == WalkOn(va, k, w)
<1>1. w.error = "pointer" => x = e
  BY DEF WalkedTo, WalkOn
<1>2. w.error # "pointer" => x = w
  BY Zenon DEF WalkOn
<1>3. /\ e.error = "pointer" <=> Promise!Pointer(va, k)
      /\ e.error = "pointer" => e.PPN = Promise!EntryAt(va, k).PPN
      /\ e.error = "none" <=> ValidLeaf(va, k)
      /\ e.error = "none" => e = Found(va, k)
  BY WalkEntryAt, Zenon
<1>4. Promise!Reached(va, k) <=> w.error = "pointer"
  BY Zenon DEF WalkedTo, Promise!Reached, Last
<1>5. (\A j \in k .. Last : Promise!Pointer(va, j)) <=> Promise!Pointer(va, k) /\ w.error = "pointer"
  <2>1. \A j : j \in k .. Last <=> j = k \/ j \in k + 1 .. Last
    OBVIOUS
  <2> QED BY <2>1, Zenon DEF WalkedTo
<1>6. \A i \in k .. Last : i = k \/ i \in k + 1 .. Last
  OBVIOUS
<1>7. k > 0 /\ Promise!Pointer(va, k) => Promise!EntryAt(va, k).PPN = Promise!TableAt(va, k - 1)
  BY PointerLeads
<1> HIDE DEF e, x
<1>8. x.error = "pointer" <=> \A j \in k .. Last : Promise!Pointer(va, j)
  BY <1>1, <1>2, <1>3, <1>5, Zenon
<1>9. x.error = "pointer" /\ k > 0 => x.PPN = Promise!TableAt(va, k - 1)
  BY <1>1, <1>2, <1>3, <1>7, Zenon
<1>10. x.error = "none" => \E i \in k .. Last : LeafAt(va, i) /\ x = Found(va, i)
  <2>1. CASE w.error = "pointer"
    <3>1. k \in k .. Last OBVIOUS
    <3> QED BY <2>1, <3>1, <1>1, <1>3, <1>4, Zenon DEF LeafAt
  <2>2. CASE w.error # "pointer"
    <3>1. \A i \in k + 1 .. Last : i \in k .. Last OBVIOUS
    <3> QED BY <2>2, <3>1, <1>2 DEF WalkedTo
  <2> QED BY <2>1, <2>2, Zenon
<1>11. \A i \in k .. Last : LeafAt(va, i) => x = Found(va, i)
  <2> SUFFICES ASSUME NEW i \in k .. Last, LeafAt(va, i) PROVE x = Found(va, i)
    BY Zenon
  <2>1. CASE i = k
    BY <2>1, <1>1, <1>3, <1>4, Zenon DEF LeafAt
  <2>2. CASE i \in k + 1 .. Last
    <3>1. w = Found(va, i)
      BY <2>2, Zenon DEF WalkedTo
    <3>2. w.error = "none"
      BY <3>1, Zenon DEF Found
    <3> QED BY <1>2, <3>1, <3>2, Zenon
  <2> QED BY <2>1, <2>2, <1>6, Zenon
<1> QED BY <1>8, <1>9, <1>10, <1>11, Zenon DEF WalkedTo, x

(* A walk finds a leaf exactly where Translation has one. *)
LEMMA WalkFindsLeaf ==
  ASSUME NEW va, Last \in 1..3
  PROVE  LET w == WalkFrom(va, Last, satp.PPN)
         IN /\ w.error = "none" => \E i \in 0 .. Last : LeafAt(va, i) /\ w = Found(va, i)
            /\ \A i \in 0 .. Last : LeafAt(va, i) => w = Found(va, i)
<1>1. PICK w : /\ WalkFrom(va, Last, satp.PPN) = w[-1]
               /\ \A i \in -1..3 : w[i] = WalkStep(va, Last, satp.PPN, w, i)
  <2>1. Last \in 0..3 OBVIOUS
  <2> QED BY <2>1, WalkExists, Zenon
<1>2. Promise!TableAt(va, Last) = satp.PPN
  <2>1. PICK t : /\ \A i \in 0..3 : Promise!TableAt(va, i) = t[i]
                 /\ \A j \in 0..3 : t[j] = TableStep(va, t, j)
    BY TablesExist DEF Last
  <2> QED BY <2>1 DEF TableStep, Last
<1>3. WalkedTo(va, w[Last], Last)
  <2> DEFINE e == WalkEntry(va, Last, Promise!TableAt(va, Last))
  <2>1. w[Last] = e
    BY <1>1, <1>2 DEF WalkStep
  <2>2. /\ e.error = "pointer" <=> Promise!Pointer(va, Last)
        /\ e.error = "pointer" => e.PPN = Promise!EntryAt(va, Last).PPN
        /\ e.error = "none" <=> ValidLeaf(va, Last)
        /\ e.error = "none" => e = Found(va, Last)
    BY WalkEntryAt
  <2>3. Last .. Last = {Last} OBVIOUS
  <2>4. Promise!Reached(va, Last)
    <3>1. Last + 1 .. Last = {} OBVIOUS
    <3> QED BY <3>1, Zenon DEF Promise!Reached, Last
  <2>5. e.error = "pointer" => e.PPN = Promise!TableAt(va, Last - 1)
    BY <2>2, PointerLeads
  <2> HIDE DEF e
  <2> QED BY <2>1, <2>2, <2>3, <2>4, <2>5, Zenon DEF WalkedTo, LeafAt
<1>4. ASSUME NEW k \in 0..3, k < Last, WalkedTo(va, w[k + 1], k + 1)
      PROVE  WalkedTo(va, w[k], k)
  <2>1. w[k] = WalkOn(va, k, w[k + 1])
    BY <1>1, <1>4 DEF WalkStep
  <2> QED BY <1>4, <2>1, WalkDown, Zenon
<1>5. WalkedTo(va, w[0], 0)
  <2>1. CASE Last = 1
    BY <2>1, <1>3, <1>4
  <2>2. CASE Last = 2
    <3>1. WalkedTo(va, w[1], 1)
      BY <2>2, <1>3, <1>4
    <3> QED BY <2>2, <3>1, <1>4
  <2>3. CASE Last = 3
    <3>1. WalkedTo(va, w[2], 2)
      BY <2>3, <1>3, <1>4
    <3>2. WalkedTo(va, w[1], 1)
      BY <2>3, <3>1, <1>4
    <3> QED BY <2>3, <3>2, <1>4
  <2> QED BY <2>1, <2>2, <2>3
<1>6. w[-1] = WalkOn(va, -1, w[0])
  BY <1>1 DEF WalkStep
<1>7. w[0].error = "pointer" => w[-1] = [error |-> "LEAF"]
  BY <1>6 DEF WalkOn, WalkEntry
<1>8. w[0].error # "pointer" => w[-1] = w[0]
  BY <1>6, Zenon DEF WalkOn
<1>9. \A i : Found(va, i).error = "none"
  BY Zenon DEF Found
<1>10. w[-1].error = "none" => w[-1] = w[0]
  BY <1>7, <1>8
<1>11. \A i \in 0 .. Last : LeafAt(va, i) => w[-1] = Found(va, i)
  <2> SUFFICES ASSUME NEW i \in 0 .. Last, LeafAt(va, i) PROVE w[-1] = Found(va, i)
    BY Zenon
  <2>1. w[0] = Found(va, i)
    BY <1>5, Zenon DEF WalkedTo
  <2>2. w[0].error = "none"
    BY <2>1, <1>9, Zenon
  <2> QED BY <2>1, <2>2, <1>8, Zenon
<1>12. w[-1].error = "none" => \E i \in 0 .. Last : LeafAt(va, i) /\ w[-1] = Found(va, i)
  BY <1>5, <1>10, Zenon DEF WalkedTo
<1> QED BY <1>1, <1>11, <1>12, Zenon

-----------------------------------------------------------------------------
SimASIDs     == [ASID : ASIDs, MXR : BOOLEAN, SUM : BOOLEAN]
SatpValues   == [MODE : Sv_modes, ASID : ASIDs, PPN : Nat]
StatusValues == [MXR : BOOLEAN, SUM : BOOLEAN]
Accesses     == {"R", "W", "X"}
Entries      == [low : Nat, high : Nat, PA : Nat, simASID : SimASIDs,
                 isMapped : SUBSET AccessModes, priv : SUBSET {"R", "W", "X"},
                 U : BOOLEAN, G : BOOLEAN, D : BOOLEAN]

(* An entry is aliased whole, or in parts that it is a multiple of. *)
Sized(e) ==
  /\ e.low <= e.high
  /\ e.high - e.low + 1 > vmiPageMax
       => e.low % vmiPageMax = 0 /\ (e.high + 1) % vmiPageMax = 0

TablesOK == mem \in [PTEAddrs -> PTERecords] /\ satp \in SatpValues /\ status \in StatusValues

(* The mode, MXR and SUM have the same effect in both specifications. *)
LEMMA PermissionAgrees ==
  ASSUME status \in StatusValues, NEW e, NEW t, e.priv \in SUBSET {"R", "W", "X"},
         e.U \in BOOLEAN, t.priv = e.priv, t.U = e.U, NEW mode \in AccessModes, NEW acc \in Accesses
  PROVE  (checkEntryPermission(mode, e, acc) # {}) <=> Promise!Permits(t, mode, acc)
<1>1. status.MXR \in BOOLEAN /\ status.SUM \in BOOLEAN
  BY Zenon DEF StatusValues
<1>2. priv_1_11 \in BOOLEAN
  BY TLBAssumption, Zenon
<1> QED BY <1>1, <1>2, Zenon DEF checkEntryPermission, Promise!Permits, AccessModes, Accesses

(* Marking sets A, sets D for a write, and changes nothing else. *)
LEMMA MarkKeeps ==
  ASSUME NEW pte \in PTERecords, NEW acc
  PROVE  /\ MarkPTE(pte, acc) \in PTERecords
         /\ MarkPTE(pte, acc).priv = pte.priv /\ MarkPTE(pte, acc).U = pte.U
         /\ MarkPTE(pte, acc).G = pte.G /\ MarkPTE(pte, acc).PPN = pte.PPN
         /\ MarkPTE(pte, acc).D = (pte.D \/ acc = "W")
<1>1. (pte.D \/ acc = "W") \in BOOLEAN
  BY Zenon
<1> DEFINE d == pte.D \/ acc = "W"
<1>2. MarkPTE(pte, acc) = [pte EXCEPT !.A = TRUE, !.D = d]
  BY Zenon DEF MarkPTE
<1> HIDE DEF d
<1>3. d \in BOOLEAN
  BY <1>1, Zenon DEF d
<1>4. /\ [pte EXCEPT !.A = TRUE, !.D = d] \in PTERecords
      /\ [pte EXCEPT !.A = TRUE, !.D = d].priv = pte.priv
      /\ [pte EXCEPT !.A = TRUE, !.D = d].U = pte.U
      /\ [pte EXCEPT !.A = TRUE, !.D = d].G = pte.G
      /\ [pte EXCEPT !.A = TRUE, !.D = d].PPN = pte.PPN
      /\ [pte EXCEPT !.A = TRUE, !.D = d].D = d
  BY <1>3, Zenon DEF PTERecords
<1> QED BY <1>2, <1>4, Zenon DEF d

(* The index of an entry is one of its table. *)
LEMMA IndexInTable ==
  ASSUME NEW va \in Nat, NEW i \in 0..3
  PROVE  getVPNi(va, i) \in 0 .. 2^VPN_SHIFT - 1
<1> DEFINE n == 2^(i * VPN_SHIFT)
           s == 2^VPN_SHIFT
<1>1. n \in Nat \ {0} /\ s \in Nat \ {0}
  BY PowersOfTwo, Zenon
<1>2. getVPNi(va, i) = (va \div n) % s
  BY Zenon DEF getVPNi
<1> HIDE DEF n, s
<1>3. va \div n \in Nat
  BY <1>1
<1>4. (va \div n) % s \in 0 .. s - 1
  BY <1>1, <1>3
<1> QED BY <1>2, <1>4, Zenon DEF s

LEMMA EntryTyped ==
  ASSUME TablesOK, NEW va \in Nat, NEW i \in 0..3, Promise!TableAt(va, i) \in Tables
  PROVE  /\ <<Promise!TableAt(va, i), getVPNi(va, i)>> \in PTEAddrs
         /\ Promise!EntryAt(va, i) = mem[<<Promise!TableAt(va, i), getVPNi(va, i)>>]
         /\ Promise!EntryAt(va, i) \in PTERecords
<1>1. <<Promise!TableAt(va, i), getVPNi(va, i)>> \in PTEAddrs
  BY IndexInTable, Zenon DEF PTEAddrs
<1>2. Promise!EntryAt(va, i) = mem[<<Promise!TableAt(va, i), getVPNi(va, i)>>]
  BY Zenon DEF Promise!EntryAt, Promise!Index, getVPNi
<1> QED BY <1>1, <1>2, Zenon DEF TablesOK

(* validVA holds of the addresses that sign extension makes. *)
LEMMA ValidIsCanonical ==
  ASSUME NEW va \in VAs, satp.MODE \in Sv_modes, satp.MODE \in {8, 9}
  PROVE  validVA(va, satp.MODE - 5) <=> Promise!Canonical(va)
<1> DEFINE bits == (satp.MODE - 5) * VPN_SHIFT
           h == 2^(bits - 1)
           q == 2^(VABits - bits)
           m == 2^bits
           n == 2^VABits
<1>1. h \in Nat \ {0} /\ q \in Nat \ {0} /\ m = 2 * h /\ n = q * m
  BY AddressBits, Zenon
<1>2. Promise!LevelsOf(satp.MODE) = satp.MODE - 5
  BY DEF Promise!LevelsOf
<1>3. Promise!Canonical(va) <=> va < h \/ va >= n - h
  BY <1>2 DEF Promise!Canonical
<1>4. validVA(va, satp.MODE - 5) <=> IF (va % m) < h THEN va \div m = 0 ELSE va \div m = q - 1
  BY Zenon DEF validVA
<1>5. va \in Nat /\ va < n
  <2>1. n \in Nat
    BY PowersOfTwo, Zenon
  <2> QED BY <2>1 DEF VAs, n
<1> HIDE DEF bits, h, q, m, n
<1>6. PICK d \in Nat, r \in Nat : /\ va \div m = d /\ va % m = r /\ r < m /\ va = m * d + r
  BY <1>1, <1>5
<1>7. d = 0 => m * d = 0
  BY <1>1
<1>8. d = q - 1 => m * d = n - m
  BY <1>1
<1>9. d > 0 => m * d >= m
  BY <1>1
<1>10. d < q - 1 => m * d <= n - 2 * m
  <2> SUFFICES ASSUME d < q - 1 PROVE m * d <= n - 2 * m
    BY Zenon
  <2>1. PICK c \in Nat : q = d + 2 + c
    <3>1. q - d - 2 \in Nat /\ q = d + 2 + (q - d - 2)
      BY <1>1
    <3> QED BY <3>1, Zenon
  <2>2. n = m * d + 2 * m + c * m
    BY <2>1, <1>1
  <2>3. c * m \in Nat
    BY <1>1
  <2> QED BY <2>2, <2>3, <1>1
<1>11. d <= q - 1
  <2> SUFFICES ASSUME d >= q PROVE FALSE
    BY <1>1
  <2>1. PICK c \in Nat : d = q + c
    <3>1. d - q \in Nat /\ d = q + (d - q)
      BY <1>1
    <3> QED BY <3>1, Zenon
  <2>2. m * d = n + c * m
    BY <2>1, <1>1
  <2>3. c * m \in Nat
    BY <1>1
  <2> QED BY <2>2, <2>3, <1>1, <1>5, <1>6
<1>12. m * d \in Nat /\ n \in Nat /\ m \in Nat
  BY <1>1
<1> DEFINE z == m * d
<1>13. va = z + r /\ (d = 0 => z = 0) /\ (d = q - 1 => z = n - m) /\ (d > 0 => z >= m)
       /\ (d < q - 1 => z <= n - 2 * m) /\ z \in Nat
  BY <1>6, <1>7, <1>8, <1>9, <1>10, <1>12, Zenon
<1> HIDE DEF z
<1>14. (IF r < h THEN d = 0 ELSE d = q - 1) <=> (va < h \/ va >= n - h)
  <2>1. CASE r < h
    <3>1. d = 0 => va < h
      BY <1>13, <2>1, <1>1
    <3>2. d # 0 => ~(va < h)
      BY <1>13, <2>1, <1>1
    <3>3. d # 0 => ~(va >= n - h)
      <4> SUFFICES ASSUME d # 0 PROVE va < n - h
        BY <1>5, <1>1, <1>12
      <4>1. CASE d = q - 1
        BY <4>1, <1>13, <2>1, <1>1, <1>12
      <4>2. CASE d < q - 1
        BY <4>2, <1>13, <2>1, <1>1, <1>12
      <4> QED BY <4>1, <4>2, <1>11, <1>1
    <3> QED BY <3>1, <3>2, <3>3, <2>1, Zenon
  <2>2. CASE ~(r < h)
    <3>1. d = q - 1 => va >= n - h
      BY <1>13, <2>2, <1>1, <1>12
    <3>2. d # q - 1 => ~(va < h)
      BY <1>13, <2>2, <1>1, <1>12
    <3>3. d # q - 1 => ~(va >= n - h)
      BY <1>13, <2>2, <1>1, <1>12, <1>11, <1>6
    <3> QED BY <3>1, <3>2, <3>3, <2>2, Zenon
  <2> QED BY <2>1, <2>2, Zenon
<1> QED BY <1>3, <1>4, <1>6, <1>14, Zenon

(* What tlbLookup returns for the leaf at level i. *)
Filled(va, i, acc) ==
  LET mark == MarkPTE(Promise!EntryAt(va, i), acc)
  IN [error |-> "none", entry |-> NewEntry(va, i, mark),
      addr |-> <<Promise!TableAt(va, i), getVPNi(va, i)>>, pte |-> mark]

(* The checks of a leaf, which are made one after the other. *)
LeafAllowed(mode, va, acc, i) ==
  LET pte == Promise!EntryAt(va, i)
  IN /\ pte.PPN % 2^(i * VPN_SHIFT) = 0
     /\ Promise!Permits(Promise!TranslationOf(va, i, pte), mode, acc)
     /\ pte.A \/ updatePTEA
     /\ acc = "W" => pte.D \/ updatePTED
     /\ MarkPTE(pte, acc) # pte => Promise!TableAt(va, i) \notin ROTables

LEMMA LeafChecked ==
  ASSUME TablesOK, NEW va \in Nat, NEW i \in 0..3, ValidLeaf(va, i),
         NEW mode \in AccessModes, NEW acc \in Accesses
  PROVE  LET l == LookupLeaf(mode, va, acc, Found(va, i))
         IN /\ l.error = "none" <=> LeafAllowed(mode, va, acc, i)
            /\ l.error = "none" => l = Filled(va, i, acc)
<1> DEFINE a == Promise!TableAt(va, i)
           addr == <<a, getVPNi(va, i)>>
           pte == Promise!EntryAt(va, i)
           mark == MarkPTE(pte, acc)
           new == NewEntry(va, i, mark)
           t == Promise!TranslationOf(va, i, pte)
           l == LookupLeaf(mode, va, acc, Found(va, i))
<1>1. pte \in PTERecords /\ mem[addr] = pte
  BY EntryTyped, Zenon DEF ValidLeaf
<1>2. Found(va, i).addr = addr /\ Found(va, i).level = i
  BY Zenon DEF Found
<1>3. addr[1] = a
  BY Zenon
<1>4. /\ mark.priv = pte.priv /\ mark.U = pte.U
  BY <1>1, MarkKeeps, Zenon
<1>5. (checkEntryPermission(mode, new, acc) # {}) <=> Promise!Permits(t, mode, acc)
  <2>1. new.priv = pte.priv /\ new.U = pte.U
    BY <1>4, Zenon DEF NewEntry
  <2>2. t.priv = pte.priv /\ t.U = pte.U
    BY Zenon DEF Promise!TranslationOf
  <2>3. pte.priv \in SUBSET {"R", "W", "X"} /\ pte.U \in BOOLEAN
    BY <1>1, Zenon DEF PTERecords
  <2> HIDE DEF new, t, pte
  <2> QED BY <2>1, <2>2, <2>3, PermissionAgrees, Zenon DEF TablesOK
<1> DEFINE perm == checkEntryPermission(mode, new, acc)
           ppn == pte.PPN % 2^(i * VPN_SHIFT)
           fill == Filled(va, i, acc)
<1>6. l = IF ppn # 0 THEN [error |-> "ALIGN"]
          ELSE IF perm = {} THEN [error |-> "PRIV"]
          ELSE IF ~pte.A /\ ~updatePTEA THEN [error |-> "A0"]
          ELSE IF acc = "W" /\ ~pte.D /\ ~updatePTED THEN [error |-> "D0"]
          ELSE IF mark # pte /\ a \in ROTables THEN [error |-> "WRITE"]
          ELSE fill
  <2> DEFINE w == Found(va, i)
  <2>1. l = IF mem[w.addr].PPN % 2^(w.level * VPN_SHIFT) # 0 THEN [error |-> "ALIGN"]
            ELSE IF checkEntryPermission(mode, NewEntry(va, w.level, MarkPTE(mem[w.addr], acc)), acc) = {}
            THEN [error |-> "PRIV"]
            ELSE IF ~mem[w.addr].A /\ ~updatePTEA THEN [error |-> "A0"]
            ELSE IF acc = "W" /\ ~mem[w.addr].D /\ ~updatePTED THEN [error |-> "D0"]
            ELSE IF MarkPTE(mem[w.addr], acc) # mem[w.addr] /\ w.addr[1] \in ROTables
            THEN [error |-> "WRITE"]
            ELSE [error |-> "none", entry |-> NewEntry(va, w.level, MarkPTE(mem[w.addr], acc)),
                  addr |-> w.addr, pte |-> MarkPTE(mem[w.addr], acc)]
    BY Zenon DEF LookupLeaf
  <2>2. w.addr = addr /\ w.level = i /\ mem[w.addr] = pte /\ w.addr[1] = a
    BY <1>1, <1>2, <1>3, Zenon
  <2>3. fill = [error |-> "none", entry |-> new, addr |-> addr, pte |-> mark]
    BY Zenon DEF Filled
  <2> HIDE DEF w, l, addr, pte, a, fill
  <2> QED BY <2>1, <2>2, <2>3, Zenon
<1>7. fill.error = "none"
  BY Zenon DEF Filled
<1>8. LeafAllowed(mode, va, acc, i)
        <=> /\ ppn = 0 /\ perm # {} /\ (pte.A \/ updatePTEA) /\ (acc = "W" => pte.D \/ updatePTED)
            /\ (mark # pte => a \notin ROTables)
  <2> HIDE DEF perm
  <2> QED BY <1>5, Zenon DEF LeafAllowed, perm
<1> HIDE DEF a, pte, mark, l, perm, ppn, fill
<1>9. /\ l.error = "none" <=> LeafAllowed(mode, va, acc, i)
      /\ l.error = "none" => l = fill
  BY <1>6, <1>7, <1>8, Zenon
<1> QED BY <1>9, Zenon DEF l, fill

(* tlbLookup succeeds exactly if the tables allow the access, and returns  *)
(* the translation that they make.                                         *)
LEMMA LookupAllows ==
  ASSUME TablesOK, satp.MODE # 0, NEW va \in VAs, NEW mode \in AccessModes, NEW acc \in Accesses
  PROVE  LET l == tlbLookup(mode, va, acc)
         IN /\ l.error = "none" => \E i \in 0..3 : /\ Promise!Allows(mode, va, acc, i)
                                                   /\ ValidLeaf(va, i)
                                                   /\ l = Filled(va, i, acc)
            /\ l.error # "none" => \A i \in 0..3 : ~Promise!Allows(mode, va, acc, i)
<1> DEFINE l == tlbLookup(mode, va, acc)
           w == WalkFrom(va, Last, satp.PPN)
           k == IF w.error # "none" THEN w ELSE LookupLeaf(mode, va, acc, w)
<1>1. satp.MODE \in Sv_modes /\ satp.MODE \in {1, 8, 9}
  BY TLBAssumption, Zenon DEF TablesOK, SatpValues
<1>2. Last = (IF satp.MODE = 1 THEN 1 ELSE satp.MODE - 6) /\ Last \in 1..3
  BY <1>1 DEF Last, Promise!LevelsOf
<1>3. l = IF Promise!Canonical(va) THEN k ELSE [error |-> "VAEXTEND"]
  <2>1. CASE satp.MODE = 1
    <3>1. Last = 1 /\ 2 - 1 = 1
      BY <2>1, <1>2
    <3>2. Promise!Canonical(va)
      BY <2>1, Zenon DEF Promise!Canonical
    <3>3. l = Lookup(mode, va, acc, 2)
      BY <2>1 DEF tlbLookup, tlbLookupSv32
    <3> QED BY <3>1, <3>2, <3>3, Zenon DEF Lookup
  <2>2. CASE satp.MODE = 8
    <3>1. Last = 2 /\ 3 - 1 = 2 /\ satp.MODE - 5 = 3
      BY <2>2, <1>2
    <3>2. Promise!Canonical(va) <=> validVA(va, 3)
      BY <2>2, <3>1, <1>1, ValidIsCanonical, Zenon
    <3>3. l = IF validVA(va, 3) THEN Lookup(mode, va, acc, 3) ELSE [error |-> "VAEXTEND"]
      BY <2>2 DEF tlbLookup, tlbLookupSv39
    <3> QED BY <3>1, <3>2, <3>3, Zenon DEF Lookup
  <2>3. CASE satp.MODE = 9
    <3>1. Last = 3 /\ 4 - 1 = 3 /\ satp.MODE - 5 = 4
      BY <2>3, <1>2
    <3>2. Promise!Canonical(va) <=> validVA(va, 4)
      BY <2>3, <3>1, <1>1, ValidIsCanonical, Zenon
    <3>3. l = IF validVA(va, 4) THEN Lookup(mode, va, acc, 4) ELSE [error |-> "VAEXTEND"]
      BY <2>3 DEF tlbLookup, tlbLookupSv48
    <3> QED BY <3>1, <3>2, <3>3, Zenon DEF Lookup
  <2> QED BY <2>1, <2>2, <2>3, <1>1, Zenon
<1>4. va \in Nat
  BY PowersOfTwo DEF VAs
<1>5. \A i \in 0 .. Last : i \in 0..3
  BY <1>2
<1>6. ASSUME NEW i \in 0..3
      PROVE  Promise!Allows(mode, va, acc, i)
               <=> i \in 0 .. Last /\ Promise!Canonical(va) /\ LeafAt(va, i)
                   /\ LeafAllowed(mode, va, acc, i)
  <2> DEFINE pte == Promise!EntryAt(va, i)
  <2>1. Promise!TableAt(va, i) \in Tables
          => (pte.priv \cap {"R", "W"} # {"W"} <=> ("W" \in pte.priv => "R" \in pte.priv))
    <3> SUFFICES ASSUME Promise!TableAt(va, i) \in Tables
                 PROVE  pte.priv \cap {"R", "W"} # {"W"} <=> ("W" \in pte.priv => "R" \in pte.priv)
      BY Zenon
    <3>1. pte.priv \in SUBSET {"R", "W", "X"}
      BY <1>4, EntryTyped, Zenon DEF PTERecords
    <3> HIDE DEF pte
    <3> QED BY <3>1
  <2>2. i \in Promise!LeafLevels(va)
          <=> i \in 0 .. Last /\ Promise!Canonical(va) /\ LeafAt(va, i)
              /\ pte.PPN % 2^(i * VPN_SHIFT) = 0
    <3>1. i \in Promise!LeafLevels(va)
            <=> /\ i \in 0 .. Last
                /\ Promise!Canonical(va)
                /\ Promise!Reached(va, i)
                /\ Promise!TableAt(va, i) \in Tables
                /\ pte.V
                /\ pte.priv # {}
                /\ "W" \in pte.priv => "R" \in pte.priv
                /\ pte.PPN % 2^(i * VPN_SHIFT) = 0
      BY Zenon DEF Promise!LeafLevels, Last
    <3> HIDE DEF pte
    <3> QED BY <2>1, <3>1, Zenon DEF LeafAt, ValidLeaf, pte
  <2>3. Promise!Marked(pte, acc) = MarkPTE(pte, acc)
    BY Zenon DEF Promise!Marked, MarkPTE
  <2> QED BY <2>2, <2>3, Zenon DEF Promise!Allows, LeafAllowed
<1>7. /\ w.error = "none" => \E i \in 0 .. Last : LeafAt(va, i) /\ w = Found(va, i)
      /\ \A i \in 0 .. Last : LeafAt(va, i) => w = Found(va, i)
  BY <1>2, WalkFindsLeaf, Zenon
<1> HIDE DEF w, l
<1>8. ASSUME l.error = "none"
      PROVE  \E i \in 0..3 : /\ Promise!Allows(mode, va, acc, i)
                             /\ ValidLeaf(va, i)
                             /\ l = Filled(va, i, acc)
  <2>1. Promise!Canonical(va) /\ l = k
    BY <1>3, <1>8, Zenon
  <2>2. w.error = "none" /\ k = LookupLeaf(mode, va, acc, w)
    BY <2>1, <1>8, Zenon
  <2>3. PICK i \in 0 .. Last : LeafAt(va, i) /\ w = Found(va, i)
    BY <2>2, <1>7, Zenon
  <2>4. ValidLeaf(va, i) /\ i \in 0..3
    BY <2>3, <1>5, Zenon DEF LeafAt
  <2>5. LeafAllowed(mode, va, acc, i) /\ l = Filled(va, i, acc)
    BY <1>4, <1>8, <2>1, <2>2, <2>3, <2>4, LeafChecked, Zenon
  <2> QED BY <1>6, <2>1, <2>3, <2>4, <2>5, Zenon
<1>9. ASSUME l.error # "none", NEW i \in 0..3, Promise!Allows(mode, va, acc, i)
      PROVE  FALSE
  <2>1. i \in 0 .. Last /\ Promise!Canonical(va) /\ LeafAt(va, i) /\ LeafAllowed(mode, va, acc, i)
    BY <1>6, <1>9, Zenon
  <2>2. w = Found(va, i)
    BY <2>1, <1>7, Zenon
  <2>3. w.error = "none"
    BY <2>2, Zenon DEF Found
  <2>4. l = LookupLeaf(mode, va, acc, w)
    BY <2>1, <2>3, <1>3, Zenon
  <2> QED BY <1>4, <1>9, <2>1, <2>2, <2>4, LeafChecked, Zenon DEF LeafAt
<1> QED BY <1>8, <1>9, Zenon DEF l

-----------------------------------------------------------------------------
(* Entries and the ranges that are aliased for them                        *)

LEMMA DivMod ==
  ASSUME NEW x \in Nat, NEW n \in Nat \ {0}
  PROVE  \E d \in Nat : /\ x - (x % n) = n * d /\ x % n \in 0 .. n - 1
                        /\ x = n * d + (x % n)
<1>1. x = n * (x \div n) + (x % n) /\ x \div n \in Nat /\ x % n \in 0 .. n - 1
  OBVIOUS
<1>2. n * (x \div n) \in Nat /\ x % n \in Nat
  BY <1>1
<1>3. x - (x % n) = n * (x \div n)
  BY <1>1, <1>2
<1> QED BY <1>1, <1>3, Zenon

LEMMA ProductMod ==
  ASSUME NEW n \in Nat \ {0}, NEW d \in Nat
  PROVE  (n * d) % n = 0
<1> DEFINE x == n * d
<1>0. x \in Nat
  OBVIOUS
<1> HIDE DEF x
<1>1. PICK c \in Nat : x - (x % n) = n * c /\ x % n \in 0 .. n - 1 /\ x = n * c + (x % n)
  BY <1>0, DivMod, Zenon
<1>2. n * d - n * c = x % n
  BY <1>1 DEF x
<1>3. CASE d = c
  BY <1>2, <1>3 DEF x
<1>4. CASE d > c
  <2>1. PICK k \in Nat : d = c + 1 + k
    <3>1. d - c - 1 \in Nat /\ d = c + 1 + (d - c - 1)
      BY <1>4
    <3> QED BY <3>1, Zenon
  <2> DEFINE p == n * d
             q == n * c
             r == n * k
  <2>2. p = q + n + r /\ r \in Nat /\ q \in Nat
    BY <2>1
  <2>3. p - q = x % n
    BY <1>2, Zenon
  <2> HIDE DEF p, q, r
  <2> QED BY <2>2, <2>3, <1>1
<1>5. CASE d < c
  <2>1. PICK k \in Nat : c = d + 1 + k
    <3>1. c - d - 1 \in Nat /\ c = d + 1 + (c - d - 1)
      BY <1>5
    <3> QED BY <3>1, Zenon
  <2>2. n * c = n * d + n + n * k /\ n * k \in Nat /\ n * d \in Nat
    BY <2>1
  <2> QED BY <2>2, <1>1, <1>2
<1> QED BY <1>3, <1>4, <1>5

(* The entry that a walk makes covers the address. *)
LEMMA NewEntryOK ==
  ASSUME NEW va \in Nat, NEW i \in 0..3, NEW pte \in PTERecords
  PROVE  LET e == NewEntry(va, i, pte)
         IN /\ e \in Entries /\ Sized(e) /\ Covers(e, va) /\ e.isMapped = {}
            /\ e.high - e.low + 1 = 2^(i * VPN_SHIFT)
<1> DEFINE n == 2^(i * VPN_SHIFT)
           low == va - (va % n)
           e == NewEntry(va, i, pte)
<1>1. n \in Nat \ {0} /\ (n > vmiPageMax => n % vmiPageMax = 0) /\ vmiPageMax \in Nat \ {0}
  BY PowersOfTwo, TLBAssumption, Zenon
<1>2. e = [low |-> low, high |-> low + n - 1, PA |-> pte.PPN,
           simASID |-> [ASID |-> 0, MXR |-> FALSE, SUM |-> FALSE], isMapped |-> {},
           priv |-> pte.priv, U |-> pte.U, G |-> getG(pte.G), D |-> pte.D]
  BY Zenon DEF NewEntry
<1> HIDE DEF n
<1>3. PICK d \in Nat : low = n * d /\ va % n \in 0 .. n - 1 /\ va = n * d + (va % n)
  BY <1>1, DivMod, Zenon
<1>4. n * d \in Nat
  BY <1>1
<1> HIDE DEF e
<1>5. low \in Nat /\ low + n - 1 \in Nat /\ low <= va /\ va <= low + n - 1
      /\ (low + n - 1) - low + 1 = n /\ low <= low + n - 1
  <2> DEFINE x == n * d
             r == va % n
  <2>1. low = x /\ r \in 0 .. n - 1 /\ va = x + r /\ x \in Nat
    BY <1>3, <1>4, Zenon
  <2> HIDE DEF x, r, low
  <2> QED BY <2>1, <1>1
<1>6. n > vmiPageMax => low % vmiPageMax = 0 /\ ((low + n - 1) + 1) % vmiPageMax = 0
  <2> SUFFICES ASSUME n > vmiPageMax
               PROVE  low % vmiPageMax = 0 /\ ((low + n - 1) + 1) % vmiPageMax = 0
    BY Zenon
  <2>1. PICK k \in Nat : n - (n % vmiPageMax) = vmiPageMax * k
    BY <1>1, DivMod, ZenonT(30)
  <2>2. n = vmiPageMax * k
    BY <1>1, <2>1
  <2>3. n * d = vmiPageMax * (k * d) /\ k * d \in Nat
    BY <1>1, <2>2
  <2>4. n * d + n = vmiPageMax * (k * d + k) /\ k * d + k \in Nat
    BY <1>1, <2>2
  <2>5. (low + n - 1) + 1 = n * d + n
    BY <1>3, <1>1, <1>4
  <2>6. low % vmiPageMax = 0
    BY <1>1, <1>3, <2>3, ProductMod, Zenon
  <2>7. (n * d + n) % vmiPageMax = 0
    BY <1>1, <2>4, ProductMod, Zenon
  <2> QED BY <2>5, <2>6, <2>7, Zenon
<1> HIDE DEF low
<1>7. e \in Entries
  <2>1. [ASID |-> 0, MXR |-> FALSE, SUM |-> FALSE] \in SimASIDs
    BY PowersOfTwo DEF SimASIDs, ASIDs
  <2>2. /\ pte.priv \in SUBSET {"R", "W", "X"} /\ pte.U \in BOOLEAN /\ pte.PPN \in Nat
        /\ pte.D \in BOOLEAN
    BY Zenon DEF PTERecords
  <2>3. getG(pte.G) \in BOOLEAN
    BY Zenon DEF getG
  <2> QED BY <1>2, <1>5, <2>1, <2>2, <2>3, Zenon DEF Entries
<1>8. e.low = low /\ e.high = low + n - 1 /\ e.isMapped = {}
  BY <1>2, Zenon
<1>9. Sized(e) /\ Covers(e, va) /\ e.high - e.low + 1 = n
  BY <1>5, <1>6, <1>8, Zenon DEF Sized, Covers
<1> QED BY <1>7, <1>8, <1>9, Zenon DEF e, n

(* What is aliased for va includes va and is part of the entry. *)
LEMMA RangeInEntry ==
  ASSUME NEW e \in Entries, Sized(e), NEW va \in Nat, Covers(e, va)
  PROVE  LET r == MappedRange(e, va)
         IN /\ r.low \in Nat /\ r.high \in Nat
            /\ e.low <= r.low /\ r.low <= va /\ va <= r.high /\ r.high <= e.high
<1> DEFINE P == vmiPageMax
           r == MappedRange(e, va)
<1>0. P \in Nat \ {0} /\ e.low \in Nat /\ e.high \in Nat /\ e.low <= va /\ va <= e.high
  BY TLBAssumption, Zenon DEF Entries, Covers
<1>1. CASE ~(e.high - e.low + 1 > P)
  <2>1. r = [low |-> e.low, high |-> e.high]
    BY <1>1, Zenon DEF MappedRange
  <2> QED BY <2>1, <1>0
<1>2. CASE e.high - e.low + 1 > P
  <2>1. r = [low |-> va - (va % P), high |-> va - (va % P) + P - 1]
    BY <1>2, Zenon DEF MappedRange
  <2>2. e.low % P = 0 /\ (e.high + 1) % P = 0
    BY <1>2, Zenon DEF Sized
  <2>3. PICK a \in Nat : e.low - (e.low % P) = P * a
    BY <1>0, DivMod, Zenon
  <2>4. PICK b \in Nat : (e.high + 1) - ((e.high + 1) % P) = P * b
    <3>1. e.high + 1 \in Nat
      BY <1>0
    <3> QED BY <1>0, <3>1, DivMod, Zenon
  <2>5. PICK d \in Nat : va - (va % P) = P * d /\ va % P \in 0 .. P - 1 /\ va = P * d + (va % P)
    BY <1>0, DivMod, Zenon
  <2>6. e.low = P * a /\ e.high + 1 = P * b
    <3>1. e.low - 0 = e.low /\ (e.high + 1) - 0 = e.high + 1
      BY <1>0
    <3> HIDE DEF P
    <3> QED BY <2>2, <2>3, <2>4, <3>1, Zenon
  <2>7. P * a \in Nat /\ P * b \in Nat /\ P * d \in Nat
    BY <1>0
  <2>8. a <= d
    <3> SUFFICES ASSUME d < a PROVE FALSE
      OBVIOUS
    <3>1. PICK k \in Nat : a = d + 1 + k
      <4>1. a - d - 1 \in Nat /\ a = d + 1 + (a - d - 1)
        OBVIOUS
      <4> QED BY <4>1, Zenon
    <3>2. P * a = P * d + P + P * k /\ P * k \in Nat
      BY <3>1, <1>0
    <3> QED BY <3>2, <2>5, <2>6, <2>7, <1>0
  <2>9. d + 1 <= b
    <3> SUFFICES ASSUME b <= d PROVE FALSE
      OBVIOUS
    <3>1. PICK k \in Nat : d = b + k
      <4>1. d - b \in Nat /\ d = b + (d - b)
        OBVIOUS
      <4> QED BY <4>1, Zenon
    <3>2. P * d = P * b + P * k /\ P * k \in Nat
      BY <3>1, <1>0
    <3> QED BY <3>2, <2>5, <2>6, <2>7, <1>0
  <2>10. P * a <= P * d
    <3>1. PICK k \in Nat : d = a + k
      <4>1. d - a \in Nat /\ d = a + (d - a)
        BY <2>8
      <4> QED BY <4>1, Zenon
    <3>2. P * d = P * a + P * k /\ P * k \in Nat
      BY <3>1, <1>0
    <3> QED BY <3>2, <2>7
  <2>11. P * d + P <= P * b
    <3>1. PICK k \in Nat : b = d + 1 + k
      <4>1. b - d - 1 \in Nat /\ b = d + 1 + (b - d - 1)
        BY <2>9
      <4> QED BY <4>1, Zenon
    <3>2. P * b = P * d + P + P * k /\ P * k \in Nat
      BY <3>1, <1>0
    <3> QED BY <3>2, <2>7, <1>0
  <2> DEFINE x == P * d
             y == va % P
  <2>12. r = [low |-> x, high |-> x + P - 1]
    BY <2>1, <2>5, Zenon
  <2>13. x \in Nat /\ y \in 0 .. P - 1 /\ va = x + y /\ e.low <= x /\ x + P <= e.high + 1
    BY <2>5, <2>6, <2>7, <2>10, <2>11, Zenon
  <2> HIDE DEF x, y, r, P
  <2>14. r.low = x /\ r.high = x + P - 1
    BY <2>12, Zenon
  <2>15. /\ r.low \in Nat /\ r.high \in Nat
         /\ e.low <= r.low /\ r.low <= va /\ va <= r.high /\ r.high <= e.high
    BY <1>0, <2>13, <2>14
  <2> QED BY <2>15, Zenon DEF r
<1> QED BY <1>1, <1>2, Zenon

-----------------------------------------------------------------------------
(* The invariant                                                           *)

(* The privileges that an alias of e may have in a mode, with MXR and SUM  *)
(* as in the simulated ASID of the entry.                                  *)
PrivIn(e, mode) ==
  LET withMXR == IF "X" \in e.priv /\ e.simASID.MXR THEN e.priv \cup {"R"} ELSE e.priv
      priv    == IF (mode = "U" /\ ~e.U) \/ (mode = "S" /\ e.U /\ ~e.simASID.SUM) THEN {}
                 ELSE IF mode = "S" /\ e.U /\ priv_1_11 THEN withMXR \ {"X"}
                 ELSE withMXR
  IN priv \ (IF e.D THEN {} ELSE {"W"})

AliasOf(m, e) ==
  /\ m.mode \in e.isMapped
  /\ Covers(e, m.va)
  /\ m.tag = EntryTag(e, m.mode)
  /\ m.PA = e.PA + (m.va - e.low)
  /\ m.priv \subseteq PrivIn(e, m.mode)

Accounted == \A m \in maps : \E e \in tlb : AliasOf(m, e)

EntriesOK(es) == \A e \in es : e \in Entries /\ Sized(e)

SavedOK ==
  /\ saved.mem \in [PTEAddrs -> PTERecords]
  /\ saved.satp \in SatpValues /\ saved.status \in StatusValues
  /\ EntriesOK(saved.tlb)

Misses == [mode : AccessModes, first : Nat, next : Nat, last : VAs, acc : Accesses,
           artifact : BOOLEAN]

AccessOK ==
  \/ access = NoAccess
  \/ access.mode = "done"
  \/ /\ access \in Misses
     /\ access.first <= access.next /\ access.next <= access.last
     /\ satp.MODE # 0

TLBInv ==
  TablesOK /\ procASID = getSimASID /\ EntriesOK(tlb) /\ SavedOK /\ AccessOK /\ Accounted

(* The fields of an entry once it is aliased. *)
LEMMA MappedEntryOK ==
  ASSUME TablesOK, NEW e \in Entries, Sized(e), NEW mode \in AccessModes
  PROVE  LET f == MappedEntry(e, mode)
         IN /\ f \in Entries /\ Sized(f)
            /\ f.simASID = getSimASID
            /\ f.isMapped = (e.isMapped \ NewASIDModes(e, getSimASID)) \cup {mode}
            /\ f.low = e.low /\ f.high = e.high /\ f.PA = e.PA /\ f.priv = e.priv
            /\ f.U = e.U /\ f.G = e.G /\ f.D = e.D
<1> DEFINE x == getSimASID
           y == (e.isMapped \ NewASIDModes(e, getSimASID)) \cup {mode}
           f == [e EXCEPT !.simASID = x, !.isMapped = y]
<1>1. MappedEntry(e, mode) = f
  BY Zenon DEF MappedEntry
<1>2. x \in SimASIDs
  BY Zenon DEF getSimASID, SimASID, SimASIDs, TablesOK, SatpValues, StatusValues
<1>3. y \in SUBSET AccessModes
  <2>1. e.isMapped \in SUBSET AccessModes
    BY Zenon DEF Entries
  <2> QED BY <2>1, Zenon
<1> HIDE DEF x, y
<1>4. f \in Entries
  BY <1>2, <1>3, Zenon DEF Entries
<1>5. /\ f.simASID = x /\ f.isMapped = y
      /\ f.low = e.low /\ f.high = e.high /\ f.PA = e.PA /\ f.priv = e.priv
      /\ f.U = e.U /\ f.G = e.G /\ f.D = e.D
  BY Zenon DEF Entries
<1>6. Sized(f)
  <2> HIDE DEF f
  <2> QED BY <1>5, Zenon DEF Sized
<1> QED BY <1>1, <1>4, <1>5, <1>6, Zenon DEF x, y

(* What checkEntryPermission gives an alias, it may have. *)
LEMMA MappedPrivIn ==
  ASSUME status \in StatusValues, NEW e, NEW f, NEW mode \in AccessModes, NEW acc,
         e.priv \in SUBSET {"R", "W", "X"}, e.U \in BOOLEAN, e.D \in BOOLEAN,
         f.priv = e.priv, f.U = e.U, f.D = e.D, f.simASID = getSimASID
  PROVE  MappedPriv(mode, e, acc) \subseteq PrivIn(f, mode)
<1>1. f.simASID.MXR = status.MXR /\ f.simASID.SUM = status.SUM
  BY DEF getSimASID, SimASID
<1>2. status.MXR \in BOOLEAN /\ status.SUM \in BOOLEAN /\ priv_1_11 \in BOOLEAN
  BY TLBAssumption, Zenon DEF StatusValues
<1> QED BY <1>1, <1>2, Zenon DEF MappedPriv, PrivIn, checkEntryPermission, AccessModes

(* The fields that the simulated ASIDs must share for an alias to stay. *)
LEMMA SameTag ==
  ASSUME NEW e, NEW mode, NEW a, NEW b, MaskedASID(e, mode, a) = MaskedASID(e, mode, b)
  PROVE  \A f \in getEntryASIDMask(e, mode) : a[f] = b[f]
<1> SUFFICES ASSUME NEW f \in getEntryASIDMask(e, mode) PROVE a[f] = b[f]
  BY Zenon
<1>1. MaskedASID(e, mode, a)[f] = a[f] /\ MaskedASID(e, mode, b)[f] = b[f]
  BY Zenon DEF MaskedASID
<1> QED BY <1>1, Zenon

(* An alias of e that is not deleted for the present simulated ASID is one *)
(* of the entry as it is then.                                             *)
LEMMA AliasStays ==
  ASSUME TablesOK, NEW e \in Entries, Sized(e), NEW mode \in AccessModes, NEW m, AliasOf(m, e),
         NEW ms, m \in unmapTLBEntryNewASID(ms, e, getSimASID)
  PROVE  AliasOf(m, MappedEntry(e, mode))
<1> DEFINE f == MappedEntry(e, mode)
<1>1. /\ f.simASID = getSimASID
      /\ f.isMapped = (e.isMapped \ NewASIDModes(e, getSimASID)) \cup {mode}
      /\ f.low = e.low /\ f.high = e.high /\ f.PA = e.PA /\ f.priv = e.priv
      /\ f.U = e.U /\ f.G = e.G /\ f.D = e.D
  BY MappedEntryOK, Zenon
<1> HIDE DEF f
<1>2. m.mode \in AccessModes
  BY Zenon DEF AliasOf, Entries
<1>3. m.mode \notin NewASIDModes(e, getSimASID)
  BY Zenon DEF AliasOf, unmapTLBEntryNewASID, deleteTLBEntryMappingsMode
<1>4. MaskedASID(e, m.mode, getSimASID) = MaskedASID(e, m.mode, e.simASID)
  BY <1>2, <1>3, Zenon DEF NewASIDModes, EntryTag
<1>5. EntryTag(f, m.mode) = MaskedASID(e, m.mode, getSimASID)
  BY <1>1, Zenon DEF EntryTag, MaskedASID, getEntryASIDMask
<1>6. m.tag = EntryTag(f, m.mode)
  BY <1>4, <1>5, Zenon DEF AliasOf, EntryTag
<1>7. PrivIn(f, m.mode) = PrivIn(e, m.mode)
  <2>1. \A x \in getEntryASIDMask(e, m.mode) : getSimASID[x] = e.simASID[x]
    BY <1>4, SameTag
  <2>2. getSimASID.MXR = e.simASID.MXR
    BY <2>1, Zenon DEF getEntryASIDMask
  <2>3. e.U /\ m.mode = "S" => getSimASID.SUM = e.simASID.SUM
    BY <2>1, Zenon DEF getEntryASIDMask
  <2>4. m.mode = "S" /\ e.U /\ ~f.simASID.SUM <=> m.mode = "S" /\ e.U /\ ~e.simASID.SUM
    BY <1>1, <2>3, Zenon
  <2>5. f.simASID.MXR = e.simASID.MXR
    BY <1>1, <2>2, Zenon
  <2> QED BY <1>1, <2>4, <2>5, Zenon DEF PrivIn
<1>8. Covers(f, m.va) /\ m.PA = f.PA + (m.va - f.low) /\ m.priv \subseteq PrivIn(f, m.mode)
  BY <1>1, <1>7, Zenon DEF AliasOf, Covers
<1>9. m.mode \in f.isMapped
  BY <1>1, <1>3, Zenon DEF AliasOf
<1> QED BY <1>6, <1>8, <1>9, Zenon DEF AliasOf, f

NewAlias(e, va, mode, acc) ==
  [mode |-> mode, code |-> Code(acc), va |-> va, PA |-> e.PA + (va - e.low),
   priv |-> MappedPriv(mode, e, acc), tag |-> MaskedASID(e, mode, getSimASID)]

(* The aliases after mapTLBEntry are new ones or were there. *)
LEMMA MapTLBEntryMaps ==
  ASSUME NEW ms, NEW e, NEW va, NEW mode, NEW acc
  PROVE  /\ \A m \in mapTLBEntry(ms, e, va, mode, acc) :
              m \in ms \/ \E v \in MappedRange(e, va).low .. MappedRange(e, va).high :
                            m = NewAlias(e, v, mode, acc)
         /\ \A v \in MappedRange(e, va).low .. MappedRange(e, va).high :
              NewAlias(e, v, mode, acc) \in mapTLBEntry(ms, e, va, mode, acc)
         /\ \A m \in ms : m \in mapTLBEntry(ms, e, va, mode, acc)
              \/ \E v \in MappedRange(e, va).low .. MappedRange(e, va).high :
                   LET n == NewAlias(e, v, mode, acc)
                   IN <<m.mode, m.code, m.va, m.tag>> = <<n.mode, n.code, n.va, n.tag>>
<1> DEFINE R == MappedRange(e, va).low .. MappedRange(e, va).high
           new == {NewAlias(e, v, mode, acc) : v \in R}
<1>1. mapTLBEntry(ms, e, va, mode, acc) =
        {m \in ms : \A n \in new : <<m.mode, m.code, m.va, m.tag>> # <<n.mode, n.code, n.va, n.tag>>}
          \cup new
  BY Zenon DEF mapTLBEntry, NewAlias
<1> HIDE DEF R
<1>2. \A m \in mapTLBEntry(ms, e, va, mode, acc) :
        m \in ms \/ \E v \in R : m = NewAlias(e, v, mode, acc)
  BY <1>1, Zenon
<1>3. \A v \in R : NewAlias(e, v, mode, acc) \in mapTLBEntry(ms, e, va, mode, acc)
  BY <1>1, Zenon
<1>4. ASSUME NEW m \in ms, m \notin mapTLBEntry(ms, e, va, mode, acc)
      PROVE  \E v \in R : LET n == NewAlias(e, v, mode, acc)
                          IN <<m.mode, m.code, m.va, m.tag>> = <<n.mode, n.code, n.va, n.tag>>
  <2>1. PICK n \in new : <<m.mode, m.code, m.va, m.tag>> = <<n.mode, n.code, n.va, n.tag>>
    BY <1>1, <1>4, Zenon
  <2>2. PICK v \in R : n = NewAlias(e, v, mode, acc)
    BY Zenon
  <2> HIDE DEF new
  <2> QED BY <2>1, <2>2, Zenon
<1> QED BY <1>2, <1>3, <1>4, Zenon DEF R

(* A new alias is one of the entry as it is then. *)
LEMMA NewAliasOf ==
  ASSUME TablesOK, NEW e \in Entries, Sized(e), NEW mode \in AccessModes, NEW acc,
         NEW v \in Nat, Covers(e, v)
  PROVE  AliasOf(NewAlias(e, v, mode, acc), MappedEntry(e, mode))
<1> DEFINE f == MappedEntry(e, mode)
           n == NewAlias(e, v, mode, acc)
<1>1. /\ f.simASID = getSimASID
      /\ f.isMapped = (e.isMapped \ NewASIDModes(e, getSimASID)) \cup {mode}
      /\ f.low = e.low /\ f.high = e.high /\ f.PA = e.PA /\ f.priv = e.priv
      /\ f.U = e.U /\ f.G = e.G /\ f.D = e.D
  BY MappedEntryOK, Zenon
<1>2. /\ n.mode = mode /\ n.va = v /\ n.PA = e.PA + (v - e.low)
      /\ n.priv = MappedPriv(mode, e, acc) /\ n.tag = MaskedASID(e, mode, getSimASID)
  BY Zenon DEF NewAlias
<1> HIDE DEF f, n
<1>3. EntryTag(f, mode) = MaskedASID(e, mode, getSimASID)
  BY <1>1, Zenon DEF EntryTag, MaskedASID, getEntryASIDMask
<1>4. MappedPriv(mode, e, acc) \subseteq PrivIn(f, mode)
  <2>1. e.priv \in SUBSET {"R", "W", "X"} /\ e.U \in BOOLEAN /\ e.D \in BOOLEAN
    BY Zenon DEF Entries
  <2> QED BY <1>1, <2>1, MappedPrivIn, Zenon DEF TablesOK
<1>5. Covers(f, v)
  BY <1>1, Zenon DEF Covers
<1>6. mode \in f.isMapped
  BY <1>1, Zenon
<1> QED BY <1>1, <1>2, <1>3, <1>4, <1>5, <1>6, Zenon DEF AliasOf, n, f

(* riscvVMMiss handles a page with entry e: the rest of tlbMiss. *)
LEMMA MapEntryInv ==
  ASSUME TablesOK, access \in Misses, access.first <= access.next, access.next <= access.last,
         satp.MODE # 0, UNCHANGED satp,
         NEW e \in Entries, Sized(e), Covers(e, access.next), NEW es, EntriesOK(es),
         NEW ms, \A m \in ms : AliasOf(m, e) \/ \E f \in es : AliasOf(m, f),
         MapEntry(e, es, ms)
  PROVE  EntriesOK(tlb') /\ AccessOK' /\ Accounted'
<1> DEFINE r == MappedRange(e, access.next)
           f == MappedEntry(e, access.mode)
<1>0. /\ access.mode \in AccessModes /\ access.next \in Nat /\ access.first \in Nat
      /\ access.last \in VAs /\ access.last \in Nat
  BY PowersOfTwo DEF Misses, VAs
<1>1. /\ r.low \in Nat /\ r.high \in Nat
      /\ e.low <= r.low /\ r.low <= access.next /\ access.next <= r.high /\ r.high <= e.high
  BY <1>0, RangeInEntry, Zenon
<1>2. tlb' = es \cup {f}
  BY Zenon DEF MapEntry
<1>3. maps' = mapTLBEntry(unmapTLBEntryNewASID(ms, e, getSimASID), e, access.next,
                          access.mode, access.acc)
  BY Zenon DEF MapEntry
<1>4. access' = IF r.low <= access.last /\ access.last <= r.high THEN NoAccess
                ELSE [access EXCEPT !.next = r.high + 1]
  BY Zenon DEF MapEntry
<1>5. f \in Entries /\ Sized(f)
  BY <1>0, MappedEntryOK, Zenon
<1> HIDE DEF f, r
<1>6. EntriesOK(tlb')
  BY <1>2, <1>5, Zenon DEF EntriesOK
<1>7. AccessOK'
  <2>1. CASE access' = NoAccess
    BY <2>1, Zenon DEF AccessOK
  <2>2. CASE access' # NoAccess
    <3>1. access' = [access EXCEPT !.next = r.high + 1] /\ ~(access.last <= r.high)
      BY <2>2, <1>0, <1>1, <1>4
    <3>2. access' \in Misses /\ access'.first = access.first /\ access'.next = r.high + 1
          /\ access'.last = access.last
      BY <3>1, <1>1 DEF Misses
    <3> QED BY <3>1, <3>2, <1>0, <1>1 DEF AccessOK
  <2> QED BY <2>1, <2>2, Zenon
<1>8. ASSUME NEW m \in maps' PROVE \E g \in tlb' : AliasOf(m, g)
  <2> DEFINE us == unmapTLBEntryNewASID(ms, e, getSimASID)
  <2>1. m \in us \/ \E v \in r.low .. r.high : m = NewAlias(e, v, access.mode, access.acc)
    BY <1>3, MapTLBEntryMaps DEF r
  <2>2. CASE m \in us
    <3>1. m \in ms
      BY <2>2, Zenon DEF unmapTLBEntryNewASID, deleteTLBEntryMappingsMode
    <3>2. CASE AliasOf(m, e)
      <4>1. AliasOf(m, f)
        BY <2>2, <3>2, <1>0, AliasStays, Zenon DEF f
      <4> QED BY <4>1, <1>2, Zenon
    <3>3. CASE \E g \in es : AliasOf(m, g)
      BY <3>3, <1>2, Zenon
    <3> QED BY <3>1, <3>2, <3>3, Zenon
  <2>3. CASE \E v \in r.low .. r.high : m = NewAlias(e, v, access.mode, access.acc)
    <3>1. PICK v \in r.low .. r.high : m = NewAlias(e, v, access.mode, access.acc)
      BY <2>3, Zenon
    <3>2. v \in Nat /\ Covers(e, v)
      <4>1. e.low \in Nat /\ e.high \in Nat
        BY Zenon DEF Entries
      <4> QED BY <4>1, <1>1 DEF Covers
    <3>3. AliasOf(m, f)
      BY <3>1, <3>2, <1>0, NewAliasOf, Zenon DEF f
    <3> QED BY <3>3, <1>2, Zenon
  <2> QED BY <2>1, <2>2, <2>3, Zenon
<1> QED BY <1>6, <1>7, <1>8, Zenon DEF Accounted

(* Aliases that are left when entries are deleted are those of others. *)
LEMMA WithoutKeeps ==
  ASSUME EntriesOK(tlb), Accounted, NEW del \in SUBSET tlb
  PROVE  \A m \in WithoutEntries(maps, del) : \E e \in tlb \ del : AliasOf(m, e)
<1> SUFFICES ASSUME NEW m \in WithoutEntries(maps, del) PROVE \E e \in tlb \ del : AliasOf(m, e)
  BY Zenon
<1>1. m \in maps /\ \A e \in del : m \in unmapTLBEntry({m}, e)
  BY Zenon DEF WithoutEntries
<1>2. PICK e \in tlb : AliasOf(m, e)
  BY <1>1, Zenon DEF Accounted
<1>3. m.mode \in AccessModes
  BY <1>2, Zenon DEF AliasOf, EntriesOK, Entries
<1>4. e \notin del
  BY <1>1, <1>2, <1>3, Zenon DEF AliasOf, unmapTLBEntry, deleteTLBEntryMappingsMode
<1> QED BY <1>2, <1>4, Zenon

-----------------------------------------------------------------------------
(* The invariant holds                                                     *)

LEMMA InitTLBInv == Init => TLBInv
<1> SUFFICES ASSUME Init PROVE TLBInv
  BY Zenon
<1>1. mem \in [PTEAddrs -> PTERecords]
  BY TLBAssumption, Zenon DEF Init
<1>2. satp \in SatpValues /\ status \in StatusValues
  <2>1. 0 \in ASIDs
    BY PowersOfTwo DEF ASIDs
  <2>2. Roots \subseteq Nat /\ 0 \in Sv_modes
    BY TLBAssumption, Zenon
  <2>3. satp \in [MODE : {0}, ASID : {0}, PPN : Roots]
        /\ status = [MXR |-> FALSE, SUM |-> FALSE]
    BY Zenon DEF Init
  <2> QED BY <2>1, <2>2, <2>3, Zenon DEF SatpValues, StatusValues
<1>3. /\ saved.mem = mem /\ saved.satp = satp /\ saved.status = status /\ saved.tlb = {}
      /\ tlb = {} /\ maps = {} /\ access = NoAccess /\ procASID = getSimASID
  BY Zenon DEF Init
<1> QED BY <1>1, <1>2, <1>3, Zenon DEF TLBInv, TablesOK, EntriesOK, SavedOK, AccessOK, Accounted

(* What a miss that needs a walk has of its access. *)
LEMMA MissingAccess ==
  ASSUME TLBInv, Missing
  PROVE  /\ access \in Misses /\ access.first <= access.next /\ access.next <= access.last
         /\ satp.MODE # 0 /\ access.mode \in AccessModes /\ access.acc \in Accesses
         /\ access.next \in VAs /\ access.next \in Nat
<1>1. /\ access \in Misses /\ access.first <= access.next /\ access.next <= access.last
      /\ satp.MODE # 0
  BY DEF TLBInv, AccessOK, Missing, NoAccess, AccessModes
<1>2. 2^VABits \in Nat
  BY PowersOfTwo, Zenon
<1>3. access.next \in Nat /\ access.last \in VAs
  BY <1>1, Zenon DEF Misses
<1>4. access.next \in VAs
  <2> DEFINE n == 2^VABits
  <2>1. access.last \in 0 .. n - 1 /\ n \in Nat
    BY <1>2, <1>3, Zenon DEF VAs
  <2> HIDE DEF n
  <2>2. access.next \in 0 .. n - 1
    BY <1>1, <1>3, <2>1
  <2> QED BY <2>2, Zenon DEF VAs, n
<1> QED BY <1>1, <1>3, <1>4, Zenon DEF Misses

(* The entry that findTLBEntry returns covers the page, and applies to the *)
(* present address space.                                                  *)
LEMMA FoundEntry ==
  ASSUME NEW va, NEW found \in findTLBEntry(va)
  PROVE  /\ found \subseteq tlb
         /\ \A e \in found : Covers(e, va) /\ matchASID(e, satp.ASID)
BY Zenon DEF findTLBEntry

LEMMA FoundInv == TLBInv /\ tlbMissFound => TLBInv'
<1> SUFFICES ASSUME TLBInv, tlbMissFound PROVE TLBInv'
  BY Zenon
<1>1. PICK found \in findTLBEntry(access.next) :
        \E e \in Usable(found) : MapEntry(e, tlb \ {e}, maps)
  BY Zenon DEF tlbMissFound
<1>2. PICK e \in Usable(found) : MapEntry(e, tlb \ {e}, maps)
  BY <1>1, Zenon
<1>3. UNCHANGED <<mem, satp, status, procASID, saved>>
  BY Zenon DEF tlbMissFound
<1>4. e \in tlb /\ Covers(e, access.next)
  BY <1>2, FoundEntry, Zenon DEF Usable
<1>5. e \in Entries /\ Sized(e) /\ EntriesOK(tlb \ {e})
  BY <1>4, Zenon DEF TLBInv, EntriesOK
<1>6. \A m \in maps : AliasOf(m, e) \/ \E f \in tlb \ {e} : AliasOf(m, f)
  BY Zenon DEF TLBInv, Accounted
<1>7. EntriesOK(tlb') /\ AccessOK' /\ Accounted'
  <2>1. TablesOK /\ Missing
    BY Zenon DEF TLBInv, tlbMissFound
  <2> QED BY <1>2, <1>3, <1>4, <1>5, <1>6, <2>1, MissingAccess, MapEntryInv, Zenon
<1>8. TablesOK' /\ procASID' = getSimASID' /\ SavedOK'
  BY <1>3, Zenon DEF TLBInv, TablesOK, SavedOK, getSimASID
<1> QED BY <1>7, <1>8, Zenon DEF TLBInv

(* What tlbLookup returns if it succeeds. *)
LEMMA LookupOK ==
  ASSUME TLBInv, Missing, tlbLookup(access.mode, access.next, access.acc).error = "none"
  PROVE  LET l == tlbLookup(access.mode, access.next, access.acc)
         IN \E i \in 0..3 :
              /\ Promise!Allows(access.mode, access.next, access.acc, i)
              /\ l = Filled(access.next, i, access.acc)
              /\ l.pte = MarkPTE(Promise!EntryAt(access.next, i), access.acc)
              /\ l.addr = <<Promise!TableAt(access.next, i), getVPNi(access.next, i)>>
              /\ l.entry = NewEntry(access.next, i, l.pte)
              /\ l.pte \in PTERecords /\ l.addr \in PTEAddrs
              /\ l.entry \in Entries /\ Sized(l.entry) /\ Covers(l.entry, access.next)
              /\ l.entry.isMapped = {}
              /\ l.entry.high - l.entry.low + 1 = 2^(i * VPN_SHIFT)
<1> DEFINE l == tlbLookup(access.mode, access.next, access.acc)
<1>1. PICK i \in 0..3 : /\ Promise!Allows(access.mode, access.next, access.acc, i)
                        /\ ValidLeaf(access.next, i)
                        /\ l = Filled(access.next, i, access.acc)
  <2>1. TablesOK
    BY Zenon DEF TLBInv
  <2> QED BY <2>1, MissingAccess, LookupAllows, Zenon
<1>2. access.next \in Nat
  BY MissingAccess, Zenon
<1>3. /\ l.pte = MarkPTE(Promise!EntryAt(access.next, i), access.acc)
      /\ l.addr = <<Promise!TableAt(access.next, i), getVPNi(access.next, i)>>
      /\ l.entry = NewEntry(access.next, i, l.pte)
  <2> HIDE DEF l
  <2> QED BY <1>1, Zenon DEF Filled
<1>4. Promise!EntryAt(access.next, i) \in PTERecords /\ l.addr \in PTEAddrs
  <2>1. TablesOK
    BY Zenon DEF TLBInv
  <2> HIDE DEF l
  <2> QED BY <1>1, <1>2, <1>3, <2>1, EntryTyped, Zenon DEF ValidLeaf
<1> HIDE DEF l
<1>5. l.pte \in PTERecords
  BY <1>3, <1>4, MarkKeeps
<1>6. /\ l.entry \in Entries /\ Sized(l.entry) /\ Covers(l.entry, access.next)
      /\ l.entry.isMapped = {}
      /\ l.entry.high - l.entry.low + 1 = 2^(i * VPN_SHIFT)
  BY <1>2, <1>3, <1>5, NewEntryOK
<1> QED BY <1>1, <1>3, <1>4, <1>5, <1>6, Zenon DEF l

LEMMA WalkInv == TLBInv /\ tlbMissWalk => TLBInv'
<1> SUFFICES ASSUME TLBInv, tlbMissWalk PROVE TLBInv'
  BY Zenon
<1> DEFINE l == tlbLookup(access.mode, access.next, access.acc)
<1>1. PICK found \in findTLBEntry(access.next) :
        /\ l.error = "none"
        /\ mem' = [mem EXCEPT ![l.addr] = l.pte]
        /\ MapEntry(l.entry, tlb \ Discarded(found), WithoutEntries(maps, Discarded(found)))
  BY Zenon DEF tlbMissWalk
<1>2. UNCHANGED <<satp, status, procASID, saved>> /\ Missing
  BY Zenon DEF tlbMissWalk
<1>3. PICK i \in 0..3 : /\ l.pte \in PTERecords /\ l.addr \in PTEAddrs
              /\ l.entry \in Entries /\ Sized(l.entry) /\ Covers(l.entry, access.next)
  BY <1>1, <1>2, LookupOK, Zenon
<1> HIDE DEF l
<1>4. Discarded(found) \in SUBSET tlb
  BY FoundEntry, Zenon DEF Discarded
<1>5. EntriesOK(tlb \ Discarded(found))
  BY Zenon DEF TLBInv, EntriesOK
<1>6. \A m \in WithoutEntries(maps, Discarded(found)) :
        \E f \in tlb \ Discarded(found) : AliasOf(m, f)
  BY <1>4, WithoutKeeps, Zenon DEF TLBInv
<1>7. EntriesOK(tlb') /\ AccessOK' /\ Accounted'
  <2>1. TablesOK
    BY Zenon DEF TLBInv
  <2> QED BY <1>1, <1>2, <1>3, <1>5, <1>6, <2>1, MissingAccess, MapEntryInv, Zenon
<1>8. TablesOK' /\ procASID' = getSimASID' /\ SavedOK'
  BY <1>1, <1>2, <1>3, Zenon DEF TLBInv, TablesOK, SavedOK, getSimASID
<1> QED BY <1>7, <1>8, Zenon DEF TLBInv

LEMMA FaultInv == TLBInv /\ tlbMissFault => TLBInv'
<1> SUFFICES ASSUME TLBInv, tlbMissFault PROVE TLBInv'
  BY Zenon
<1>1. PICK found \in findTLBEntry(access.next) :
        /\ tlb' = tlb \ Discarded(found)
        /\ maps' = WithoutEntries(maps, Discarded(found))
        /\ access' = NoAccess \/ access'.mode = "done"
  BY DEF tlbMissFault, Outcome
<1>2. Discarded(found) \in SUBSET tlb
  BY FoundEntry, Zenon DEF Discarded
<1>3. Accounted'
  BY <1>1, <1>2, WithoutKeeps, Zenon DEF TLBInv, Accounted
<1>4. EntriesOK(tlb') /\ AccessOK'
  BY <1>1, Zenon DEF TLBInv, EntriesOK, AccessOK
<1>5. TablesOK' /\ procASID' = getSimASID' /\ SavedOK'
  BY Zenon DEF tlbMissFault, TLBInv, TablesOK, SavedOK, getSimASID
<1> QED BY <1>3, <1>4, <1>5, Zenon DEF TLBInv

(* SFENCE.VMA deletes entries and their aliases. *)
LEMMA FenceInv ==
  ASSUME TLBInv, NEW del \in SUBSET tlb, NEW vas, NEW asids,
         invalidateTLBEntriesRange(del, vas, asids)
  PROVE  TLBInv'
<1>1. /\ tlb' = tlb \ del /\ maps' = WithoutEntries(maps, del) /\ access'.mode = "done"
      /\ UNCHANGED <<mem, satp, status, procASID, saved>>
  BY Zenon DEF invalidateTLBEntriesRange, Outcome
<1>2. Accounted'
  BY <1>1, WithoutKeeps, Zenon DEF TLBInv, Accounted
<1>3. EntriesOK(tlb') /\ AccessOK'
  BY <1>1, Zenon DEF TLBInv, EntriesOK, AccessOK
<1>4. TablesOK' /\ procASID' = getSimASID' /\ SavedOK'
  BY <1>1, Zenon DEF TLBInv, TablesOK, SavedOK, getSimASID
<1> QED BY <1>2, <1>3, <1>4, Zenon DEF TLBInv

(* Steps that leave the TLB, the aliases and the saved state alone. *)
LEMMA OtherInv ==
  ASSUME TLBInv, UNCHANGED <<tlb, maps, saved>>, TablesOK', procASID' = getSimASID', AccessOK'
  PROVE  TLBInv'
BY Zenon DEF TLBInv, SavedOK, Accounted

(* An access begins that has to be handled. *)
LEMMA MissInv ==
  ASSUME TLBInv, NEW mode \in AccessModes, NEW va \in MissVAs, NEW last \in VAs, va <= last,
         NEW acc \in Accesses, NEW artifact \in BOOLEAN,
         riscvVMMiss(mode, va, last, acc, artifact)
  PROVE  TLBInv'
<1>1. va \in Nat
  BY TLBAssumption, PowersOfTwo DEF VAs
<1>2. /\ access' = [mode |-> mode, first |-> va, next |-> va, last |-> last, acc |-> acc,
                    artifact |-> artifact]
      /\ satp.MODE # 0 /\ UNCHANGED <<mem, satp, status, procASID, tlb, maps, saved>>
  BY Zenon DEF riscvVMMiss
<1>3. access' \in Misses /\ access'.first <= access'.next /\ access'.next <= access'.last
  BY <1>1, <1>2 DEF Misses
<1>4. AccessOK'
  BY <1>2, <1>3, Zenon DEF AccessOK
<1>5. TablesOK' /\ procASID' = getSimASID'
  BY <1>2, Zenon DEF TLBInv, TablesOK, getSimASID
<1> QED BY <1>2, <1>4, <1>5, OtherInv, Zenon

LEMMA WriteInv ==
  ASSUME TLBInv, \/ \E w \in PTEWrites : WritePTE(w[1], w[2])
                 \/ \E MODE \in {0, 1, 8, 9}, asid \in WrittenASIDs, PPN \in Roots :
                      satpW(MODE, asid, PPN)
                 \/ \E st \in Statuses : statusW(st.MXR, st.SUM)
  PROVE  TLBInv'
<1>1. CASE \E w \in PTEWrites : WritePTE(w[1], w[2])
  <2>1. PICK w \in PTEWrites : WritePTE(w[1], w[2])
    BY <1>1, Zenon
  <2>2. w[1] \in PTEAddrs /\ w[2] \in PTERecords
    BY TLBAssumption, Zenon
  <2>3. mem' \in [PTEAddrs -> PTERecords]
    BY <2>1, <2>2, Zenon DEF WritePTE, TLBInv, TablesOK
  <2>4. UNCHANGED <<satp, status, procASID, tlb, maps, access, saved>>
    BY <2>1, Zenon DEF WritePTE
  <2>5. TablesOK' /\ procASID' = getSimASID' /\ AccessOK'
    BY <2>3, <2>4, Zenon DEF TLBInv, TablesOK, getSimASID, AccessOK
  <2> QED BY <2>4, <2>5, OtherInv, Zenon
<1>2. CASE \E MODE \in {0, 1, 8, 9}, asid \in WrittenASIDs, PPN \in Roots : satpW(MODE, asid, PPN)
  <2>1. PICK MODE \in {0, 1, 8, 9}, asid \in WrittenASIDs, PPN \in Roots : satpW(MODE, asid, PPN)
    BY <1>2, Zenon
  <2>2. maskASID(asid) \in ASIDs
    <3> DEFINE n == 2^ASID_bits
    <3>1. n \in Nat \ {0} /\ asid \in Int
      BY PowersOfTwo DEF WrittenASIDs
    <3> HIDE DEF n
    <3>2. asid % n \in 0 .. n - 1
      BY <3>1
    <3> QED BY <3>2, Zenon DEF maskASID, ASIDs, n
  <2>3. Roots \subseteq Nat
    BY TLBAssumption, Zenon
  <2>4. /\ access = NoAccess /\ MODE \in Sv_modes
        /\ satp' = [MODE |-> MODE, ASID |-> maskASID(asid), PPN |-> PPN]
        /\ procASID' = SimASID(satp', status)
        /\ UNCHANGED <<mem, status, tlb, maps, access, saved>>
    BY <2>1, Zenon DEF satpW
  <2>5. satp' \in SatpValues
    BY <2>2, <2>3, <2>4, Zenon DEF SatpValues
  <2>6. TablesOK' /\ procASID' = getSimASID' /\ AccessOK'
    BY <2>4, <2>5, Zenon DEF TLBInv, TablesOK, getSimASID, AccessOK
  <2> QED BY <2>4, <2>6, OtherInv, Zenon
<1>3. CASE \E st \in Statuses : statusW(st.MXR, st.SUM)
  <2>1. PICK st \in Statuses : statusW(st.MXR, st.SUM)
    BY <1>3, Zenon
  <2>2. st.MXR \in BOOLEAN /\ st.SUM \in BOOLEAN
    BY TLBAssumption, Zenon
  <2>3. /\ access = NoAccess /\ status' = [MXR |-> st.MXR, SUM |-> st.SUM]
        /\ procASID' = SimASID(satp, status')
        /\ UNCHANGED <<mem, satp, tlb, maps, access, saved>>
    BY <2>1, Zenon DEF statusW
  <2>4. status' \in StatusValues
    BY <2>2, <2>3, Zenon DEF StatusValues
  <2>5. TablesOK' /\ procASID' = getSimASID' /\ AccessOK'
    BY <2>3, <2>4, Zenon DEF TLBInv, TablesOK, getSimASID, AccessOK
  <2> QED BY <2>3, <2>5, OtherInv, Zenon
<1> QED BY <1>1, <1>2, <1>3, Zenon

LEMMA UnmappedOK ==
  ASSUME NEW e \in Entries, Sized(e)
  PROVE  /\ [e EXCEPT !.isMapped = {}] \in Entries /\ Sized([e EXCEPT !.isMapped = {}])
         /\ CachedTranslation([e EXCEPT !.isMapped = {}]) = CachedTranslation(e)
<1> DEFINE f == [e EXCEPT !.isMapped = {}]
<1>1. f \in Entries
  BY Zenon DEF Entries
<1>2. /\ f.low = e.low /\ f.high = e.high /\ f.PA = e.PA /\ f.priv = e.priv
      /\ f.U = e.U /\ f.G = e.G /\ f.D = e.D /\ f.simASID = e.simASID
  BY Zenon DEF Entries
<1> HIDE DEF f
<1>3. Sized(f)
  BY <1>2, Zenon DEF Sized
<1>4. CachedTranslation(f) = CachedTranslation(e)
  BY <1>2, Zenon DEF CachedTranslation
<1> QED BY <1>1, <1>3, <1>4, Zenon DEF f

LEMMA SaveRestoreInv == TLBInv /\ (riscvVMSave \/ riscvVMRestore) => TLBInv'
<1> SUFFICES ASSUME TLBInv, riscvVMSave \/ riscvVMRestore PROVE TLBInv'
  BY Zenon
<1>1. CASE riscvVMSave
  <2>1. /\ saved' = [mem |-> mem, satp |-> satp, status |-> status,
                     tlb |-> {[e EXCEPT !.isMapped = {}] : e \in tlb}]
        /\ UNCHANGED <<mem, satp, status, procASID, tlb, maps, access>>
    BY <1>1, Zenon DEF riscvVMSave
  <2>2. EntriesOK({[e EXCEPT !.isMapped = {}] : e \in tlb})
    BY UnmappedOK, Zenon DEF TLBInv, EntriesOK
  <2>3. SavedOK'
    <3>1. /\ saved'.mem = mem /\ saved'.satp = satp /\ saved'.status = status
          /\ saved'.tlb = {[e EXCEPT !.isMapped = {}] : e \in tlb}
      BY <2>1, Zenon
    <3> QED BY <3>1, <2>2, Zenon DEF SavedOK, TLBInv, TablesOK
  <2> QED BY <2>1, <2>3, Zenon DEF TLBInv, TablesOK, getSimASID, AccessOK, Accounted
<1>2. CASE riscvVMRestore
  <2>1. /\ mem' = saved.mem /\ satp' = saved.satp /\ status' = saved.status
        /\ procASID' = SimASID(satp', status')
        /\ tlb' = saved.tlb /\ maps' = WithoutEntries(maps, tlb)
        /\ access = NoAccess /\ UNCHANGED <<access, saved>>
    BY <1>2, Zenon DEF riscvVMRestore
  <2>2. maps' = {}
    BY <2>1, WithoutKeeps, Zenon DEF TLBInv
  <2> QED BY <2>1, <2>2, Zenon DEF TLBInv, TablesOK, SavedOK, getSimASID, AccessOK, Accounted
<1> QED BY <1>1, <1>2, Zenon

LEMMA NextTLBInv == TLBInv /\ [Next]_vars => TLBInv'
<1> SUFFICES ASSUME TLBInv, [Next]_vars PROVE TLBInv'
  BY Zenon
<1>0. \A va \in MissVAs : va \in VAs /\ va \in Nat
  BY TLBAssumption, PowersOfTwo DEF VAs
<1>1. CASE tlbMiss
  BY <1>1, FoundInv, WalkInv, FaultInv, Zenon DEF tlbMiss
<1>2. CASE Retire \/ \E mode \in AccessModes, va \in MissVAs, acc \in {"R", "W", "X"} :
             Use(mode, va, acc)
  <2>1. /\ UNCHANGED <<mem, satp, status, procASID, tlb, maps, saved>>
        /\ access' = NoAccess \/ access'.mode = "done"
    BY <1>2 DEF Retire, Use, Outcome
  <2>2. TablesOK' /\ procASID' = getSimASID' /\ AccessOK'
    BY <2>1, Zenon DEF TLBInv, TablesOK, getSimASID, AccessOK
  <2> QED BY <2>1, <2>2, OtherInv, Zenon
<1>3. CASE \E mode \in AccessModes, va \in MissVAs, artifact \in Artifact :
             \/ \E last \in va .. va + MissPages - 1 :
                  /\ last \in VAs
                  /\ \/ riscvRdPrivExcept(mode, va, last, artifact)
                     \/ riscvWrPrivExcept(mode, va, last, artifact)
             \/ validateFetchAddressInt(mode, va, ~artifact)
  <2>1. PICK mode \in AccessModes, va \in MissVAs, artifact \in Artifact :
             \/ \E last \in va .. va + MissPages - 1 :
                  /\ last \in VAs
                  /\ \/ riscvRdPrivExcept(mode, va, last, artifact)
                     \/ riscvWrPrivExcept(mode, va, last, artifact)
             \/ validateFetchAddressInt(mode, va, ~artifact)
    BY <1>3, Zenon
  <2>2. artifact \in BOOLEAN /\ va \in VAs /\ va \in Nat /\ va <= va
    BY <1>0, TLBAssumption
  <2>3. CASE validateFetchAddressInt(mode, va, ~artifact)
    <3>1. riscvVMMiss(mode, va, va, "X", ~~artifact) /\ (~~artifact) \in BOOLEAN /\ "X" \in Accesses
      BY <2>3, Zenon DEF validateFetchAddressInt, Accesses
    <3> QED BY <2>2, <3>1, MissInv, Zenon
  <2>4. CASE \E last \in va .. va + MissPages - 1 :
               /\ last \in VAs
               /\ \/ riscvRdPrivExcept(mode, va, last, artifact)
                  \/ riscvWrPrivExcept(mode, va, last, artifact)
    <3>1. PICK last \in va .. va + MissPages - 1 :
               /\ last \in VAs
               /\ \/ riscvVMMiss(mode, va, last, "R", artifact)
                  \/ riscvVMMiss(mode, va, last, "W", artifact)
      BY <2>4, Zenon DEF riscvRdPrivExcept, riscvWrPrivExcept
    <3>2. va <= last
      BY <2>2
    <3>3. "R" \in Accesses /\ "W" \in Accesses
      BY Zenon DEF Accesses
    <3> QED BY <2>2, <3>1, <3>2, <3>3, MissInv, Zenon
  <2> QED BY <2>1, <2>3, <2>4, Zenon
<1>4. CASE \/ riscvVMInvalidateAll
           \/ \E va \in MissVAs : riscvVMInvalidateVA(va)
           \/ \E asid \in WrittenASIDs : riscvVMInvalidateAllASID(asid)
           \/ \E va \in MissVAs, asid \in WrittenASIDs : riscvVMInvalidateVAASID(va, asid)
  <2>1. \E del \in SUBSET tlb : \E vas, asids : invalidateTLBEntriesRange(del, vas, asids)
    <3>1. CASE riscvVMInvalidateAll
      BY <3>1, Zenon DEF riscvVMInvalidateAll
    <3>2. CASE \E va \in MissVAs : riscvVMInvalidateVA(va)
      BY <3>2, Zenon DEF riscvVMInvalidateVA
    <3>3. CASE \E asid \in WrittenASIDs : riscvVMInvalidateAllASID(asid)
      BY <3>3, Zenon DEF riscvVMInvalidateAllASID
    <3>4. CASE \E va \in MissVAs, asid \in WrittenASIDs : riscvVMInvalidateVAASID(va, asid)
      BY <3>4, Zenon DEF riscvVMInvalidateVAASID
    <3> QED BY <1>4, <3>1, <3>2, <3>3, <3>4, Zenon
  <2> QED BY <2>1, FenceInv, Zenon
<1>5. CASE \/ \E w \in PTEWrites : WritePTE(w[1], w[2])
           \/ \E MODE \in {0, 1, 8, 9}, asid \in WrittenASIDs, PPN \in Roots :
                satpW(MODE, asid, PPN)
           \/ \E st \in Statuses : statusW(st.MXR, st.SUM)
  BY <1>5, WriteInv, Zenon
<1>6. CASE riscvVMSave \/ riscvVMRestore
  BY <1>6, SaveRestoreInv, Zenon
<1>7. CASE UNCHANGED vars
  BY <1>7, Zenon DEF vars, TLBInv, TablesOK, SavedOK, getSimASID, AccessOK, Accounted
<1> QED BY <1>1, <1>2, <1>3, <1>4, <1>5, <1>6, <1>7, Zenon DEF Next

(* The TLB, the aliases and the state of an access agree in every          *)
(* reachable state.                                                        *)
THEOREM TLBInvariant == Spec => []TLBInv
<1> QED BY InitTLBInv, NextTLBInv, PTL DEF Spec

(* Every alias is accounted for by a TLB entry, whatever the page tables,  *)
(* address spaces and entries: what deleteTLBEntry relies on.              *)
THEOREM EveryAliasAccounted == Spec => []AliasesAccounted
<1>1. TLBInv => AliasesAccounted
  <2> SUFFICES ASSUME TLBInv, NEW m \in maps
               PROVE  \E e \in tlb :
                        /\ m.mode \in e.isMapped
                        /\ Covers(e, m.va)
                        /\ m.tag = EntryTag(e, m.mode)
                        /\ m.PA = e.PA + (m.va - e.low)
                        /\ m.priv \subseteq e.priv \cup (IF e.simASID.MXR /\ "X" \in e.priv
                                                         THEN {"R"} ELSE {})
    BY Zenon DEF AliasesAccounted
  <2>1. PICK e \in tlb : AliasOf(m, e)
    BY Zenon DEF TLBInv, Accounted
  <2>2. PrivIn(e, m.mode) \subseteq e.priv \cup (IF e.simASID.MXR /\ "X" \in e.priv
                                                 THEN {"R"} ELSE {})
    BY Zenon DEF PrivIn
  <2> QED BY <2>1, <2>2, Zenon DEF AliasOf
<1> QED BY <1>1, TLBInvariant, PTL

-----------------------------------------------------------------------------
(* An alias that the simulator uses is for the present simulated ASID,     *)
(* and that of its entry has the same fields as far as they matter.        *)
LEMMA VisibleEntry ==
  ASSUME TLBInv, NEW mode, NEW va, NEW acc, NEW m \in Visible(mode, va, acc)
  PROVE  /\ m \in maps /\ m.mode = mode /\ m.va = va /\ acc \in m.priv
         /\ \A e : m.tag = EntryTag(e, mode) => /\ m.tag = MaskedASID(e, mode, getSimASID)
                                                /\ e.simASID.MXR = status.MXR
                                                /\ e.G \/ e.simASID.ASID = satp.ASID
                                                /\ e.U /\ mode = "S" => e.simASID.SUM = status.SUM
<1>1. /\ m \in maps /\ m.mode = mode /\ m.va = va /\ acc \in m.priv
      /\ m.tag = [f \in DOMAIN m.tag |-> getSimASID[f]]
  BY Zenon DEF Visible, VisibleIn, TLBInv
<1>2. ASSUME NEW e, m.tag = EntryTag(e, mode)
      PROVE  /\ m.tag = MaskedASID(e, mode, getSimASID)
             /\ e.simASID.MXR = status.MXR
             /\ e.G \/ e.simASID.ASID = satp.ASID
             /\ e.U /\ mode = "S" => e.simASID.SUM = status.SUM
  <2>1. DOMAIN m.tag = getEntryASIDMask(e, mode)
    BY <1>2, Zenon DEF EntryTag, MaskedASID
  <2>2. m.tag = MaskedASID(e, mode, getSimASID)
    BY <1>1, <2>1, Zenon DEF MaskedASID
  <2>3. \A f \in getEntryASIDMask(e, mode) : e.simASID[f] = getSimASID[f]
    <3>1. MaskedASID(e, mode, e.simASID) = MaskedASID(e, mode, getSimASID)
      BY <1>2, <2>2, Zenon DEF EntryTag
    <3>2. ASSUME NEW f \in getEntryASIDMask(e, mode) PROVE e.simASID[f] = getSimASID[f]
      <4>1. MaskedASID(e, mode, e.simASID)[f] = e.simASID[f]
        BY <3>2, Zenon DEF MaskedASID
      <4>2. MaskedASID(e, mode, getSimASID)[f] = getSimASID[f]
        BY <3>2, Zenon DEF MaskedASID
      <4> QED BY <3>1, <4>1, <4>2, Zenon
    <3> QED BY <3>2, Zenon
  <2>4. "MXR" \in getEntryASIDMask(e, mode)
    BY Zenon DEF getEntryASIDMask
  <2>5. ~e.G => "ASID" \in getEntryASIDMask(e, mode)
    BY Zenon DEF getEntryASIDMask
  <2>6. e.U /\ mode = "S" => "SUM" \in getEntryASIDMask(e, mode)
    BY Zenon DEF getEntryASIDMask
  <2>7. /\ getSimASID["MXR"] = status.MXR /\ getSimASID["ASID"] = satp.ASID
        /\ getSimASID["SUM"] = status.SUM
    BY Zenon DEF getSimASID, SimASID
  <2> QED BY <2>2, <2>3, <2>4, <2>5, <2>6, <2>7, Zenon
<1> QED BY <1>1, <1>2, Zenon

(* The aliases that a miss makes let the access be made. *)
LEMMA NewVisible ==
  ASSUME TLBInv, Missing, UNCHANGED procASID, NEW e, NEW es, NEW ms, MapEntry(e, es, ms),
         access.acc \in MappedPriv(access.mode, e, access.acc),
         NEW v \in MappedRange(e, access.next).low .. MappedRange(e, access.next).high
  PROVE  VisibleIn(maps', procASID', access.mode, v, access.acc) # {}
<1> DEFINE n == NewAlias(e, v, access.mode, access.acc)
<1>1. n \in maps'
  BY MapTLBEntryMaps, Zenon DEF MapEntry
<1>2. /\ n.mode = access.mode /\ n.code = Code(access.acc) /\ n.va = v
      /\ n.priv = MappedPriv(access.mode, e, access.acc)
      /\ n.tag = MaskedASID(e, access.mode, getSimASID)
  BY Zenon DEF NewAlias
<1>3. procASID' = getSimASID
  BY Zenon DEF TLBInv
<1>4. n.tag = [f \in DOMAIN n.tag |-> procASID'[f]]
  <2> HIDE DEF n
  <2> QED BY <1>2, <1>3, Zenon DEF MaskedASID
<1> HIDE DEF n
<1>5. n \in VisibleIn(maps', procASID', access.mode, v, access.acc)
  BY <1>1, <1>2, <1>4, Zenon DEF VisibleIn
<1> QED BY <1>5, Zenon

(* An alias used for an earlier page is still there if it was not deleted  *)
(* with an entry.                                                          *)
LEMMA EarlierVisible ==
  ASSUME TLBInv, Missing, UNCHANGED procASID, NEW e \in Entries, Sized(e), Covers(e, access.next),
         NEW es, NEW ms, MapEntry(e, es, ms), NEW v \in Nat,
         NEW m \in Visible(access.mode, v, access.acc), m \in ms,
         ~(v \in MappedRange(e, access.next).low .. MappedRange(e, access.next).high)
  PROVE  VisibleIn(maps', procASID', access.mode, v, access.acc) # {}
<1> DEFINE us == unmapTLBEntryNewASID(ms, e, getSimASID)
<1>1. /\ m.mode = access.mode /\ m.va = v
      /\ m.tag = EntryTag(e, access.mode) => m.tag = MaskedASID(e, access.mode, getSimASID)
  BY VisibleEntry
<1>2. m \in us
  <2> SUFFICES ASSUME m \notin us PROVE FALSE
    BY Zenon
  <2>1. m.mode \in NewASIDModes(e, getSimASID) /\ m.tag = EntryTag(e, m.mode)
    BY Zenon DEF unmapTLBEntryNewASID, deleteTLBEntryMappingsMode
  <2> QED BY <1>1, <2>1, Zenon DEF NewASIDModes
<1>3. m \in maps'
  <2>1. maps' = mapTLBEntry(us, e, access.next, access.mode, access.acc)
    BY Zenon DEF MapEntry
  <2> SUFFICES ASSUME m \notin maps' PROVE FALSE
    BY Zenon
  <2> HIDE DEF us
  <2>2. PICK w \in MappedRange(e, access.next).low .. MappedRange(e, access.next).high :
          LET n == NewAlias(e, w, access.mode, access.acc)
          IN <<m.mode, m.code, m.va, m.tag>> = <<n.mode, n.code, n.va, n.tag>>
    BY <1>2, <2>1, MapTLBEntryMaps
  <2>3. m.va = NewAlias(e, w, access.mode, access.acc).va
    BY <2>2, Zenon
  <2>4. m.va = w
    BY <2>3, Zenon DEF NewAlias
  <2> QED BY <1>1, <2>4, Zenon
<1>4. procASID' = procASID
  BY Zenon
<1>5. m \in VisibleIn(maps', procASID', access.mode, v, access.acc)
  BY <1>3, <1>4, Zenon DEF Visible, VisibleIn
<1> QED BY <1>5, Zenon

(* A page after the range that is aliased is still to be handled. *)
LEMMA LaterPage ==
  ASSUME TLBInv, Missing, NEW e \in Entries, Sized(e), Covers(e, access.next),
         NEW es, NEW ms, MapEntry(e, es, ms), NEW v \in Nat, v <= access.last,
         MappedRange(e, access.next).high < v
  PROVE  access'.mode = access.mode /\ access'.next <= v
<1> DEFINE r == MappedRange(e, access.next)
<1>1. access' = IF r.low <= access.last /\ access.last <= r.high THEN NoAccess
                ELSE [access EXCEPT !.next = r.high + 1]
  BY Zenon DEF MapEntry
<1>2. access \in Misses /\ access.next \in Nat
  BY MissingAccess, Zenon
<1>3. r.low \in Nat /\ r.high \in Nat
  BY <1>2, RangeInEntry, Zenon
<1>4. access.last \in Nat
  BY <1>2, PowersOfTwo DEF Misses, VAs
<1> HIDE DEF r
<1>5. r.high < v
  BY Zenon DEF r
<1>6. access' = [access EXCEPT !.next = r.high + 1]
  BY <1>1, <1>3, <1>4, <1>5
<1>7. access'.mode = access.mode /\ access'.next = r.high + 1
  BY <1>2, <1>6, Zenon DEF Misses
<1> QED BY <1>3, <1>5, <1>7

ResolvedAt(v) ==
  \/ access'.mode = access.mode /\ access'.next <= v
  \/ v < access.next /\ (Overlapping \/ Visible(access.mode, v, access.acc) = {})
  \/ VisibleIn(maps', procASID', access.mode, v, access.acc) # {}

(* The three kinds of pages of an access, in turn. *)
LEMMA PageResolved ==
  ASSUME TLBInv, Missing, UNCHANGED procASID, NEW e \in Entries, Sized(e), Covers(e, access.next),
         NEW es, NEW ms, MapEntry(e, es, ms),
         access.acc \in MappedPriv(access.mode, e, access.acc),
         NEW v \in access.first .. access.last,
         \A m \in Visible(access.mode, v, access.acc) : m \in ms \/ Overlapping
  PROVE  ResolvedAt(v)
<1> DEFINE r == MappedRange(e, access.next)
<1>1. access \in Misses /\ access.next \in Nat /\ access.first \in Nat /\ access.last \in Nat
  BY MissingAccess, PowersOfTwo DEF Misses, VAs
<1>2. v \in Nat /\ v <= access.last
  BY <1>1
<1>3. r.low \in Nat /\ r.high \in Nat /\ r.low <= access.next
  BY <1>1, RangeInEntry, Zenon
<1>4. CASE r.high < v
  BY <1>2, <1>4, LaterPage, Zenon DEF ResolvedAt
<1>5. CASE v \in r.low .. r.high
  BY <1>5, NewVisible, Zenon DEF ResolvedAt
<1>6. CASE v < r.low
  <2>1. v < access.next /\ ~(v \in r.low .. r.high)
    BY <1>1, <1>2, <1>3, <1>6
  <2>2. CASE Overlapping \/ Visible(access.mode, v, access.acc) = {}
    BY <2>1, <2>2, Zenon DEF ResolvedAt
  <2>3. CASE ~Overlapping /\ Visible(access.mode, v, access.acc) # {}
    <3>1. PICK m \in Visible(access.mode, v, access.acc) : m \in ms
      BY <2>3, Zenon
    <3> QED BY <1>2, <2>1, <3>1, EarlierVisible, Zenon DEF ResolvedAt
  <2> QED BY <2>2, <2>3, Zenon
<1> QED BY <1>2, <1>3, <1>4, <1>5, <1>6

LEMMA FoundResolves ==
  ASSUME TLBInv, tlbMissFound, NEW v \in access.first .. access.last
  PROVE  ResolvedAt(v)
<1>1. PICK found \in findTLBEntry(access.next) :
        \E e \in Usable(found) : MapEntry(e, tlb \ {e}, maps)
  BY Zenon DEF tlbMissFound
<1>2. PICK e \in Usable(found) : MapEntry(e, tlb \ {e}, maps)
  BY <1>1, Zenon
<1>3. UNCHANGED procASID /\ Missing
  BY Zenon DEF tlbMissFound
<1>4. e \in tlb /\ Covers(e, access.next) /\ Adequate(e) /\ ~Clean(e)
  BY <1>2, FoundEntry, Zenon DEF Usable
<1>5. e \in Entries /\ Sized(e)
  BY <1>4, Zenon DEF TLBInv, EntriesOK
<1>6. access.acc \in MappedPriv(access.mode, e, access.acc)
  <2>1. access.acc \in checkEntryPermission(access.mode, e, access.acc)
    BY <1>4, Zenon DEF Adequate, checkEntryPermission
  <2> QED BY <1>4, <2>1, Zenon DEF MappedPriv, Clean
<1>7. \A m \in Visible(access.mode, v, access.acc) : m \in maps
  BY Zenon DEF Visible, VisibleIn
<1> QED BY <1>2, <1>3, <1>4, <1>5, <1>6, <1>7, PageResolved, Zenon

(* A write discards an entry that is not dirty, and with it aliases that   *)
(* cannot be those that a write uses, unless entries overlap.              *)
LEMMA DiscardHarmless ==
  ASSUME TLBInv, Missing, NEW found \in findTLBEntry(access.next), NEW v \in Nat,
         NEW m \in Visible(access.mode, v, access.acc)
  PROVE  m \in WithoutEntries(maps, Discarded(found)) \/ Overlapping
<1> SUFFICES ASSUME m \notin WithoutEntries(maps, Discarded(found)) PROVE Overlapping
  BY Zenon
<1>1. /\ m \in maps /\ m.mode = access.mode /\ m.va = v /\ access.acc \in m.priv
      /\ \A e : m.tag = EntryTag(e, access.mode) => e.G \/ e.simASID.ASID = satp.ASID
  BY VisibleEntry
<1>2. PICK d \in Discarded(found) : m \notin unmapTLBEntry({m}, d)
  BY <1>1, Zenon DEF WithoutEntries
<1>3. d \in tlb /\ matchASID(d, satp.ASID) /\ access.acc = "W" /\ ~d.D
  BY <1>2, FoundEntry, Zenon DEF Discarded, Clean
<1>4. Covers(d, v)
  BY <1>1, <1>2, Zenon DEF unmapTLBEntry, deleteTLBEntryMappingsMode
<1>5. PICK f \in tlb : AliasOf(m, f)
  BY <1>1, Zenon DEF TLBInv, Accounted
<1>6. Covers(f, v) /\ matchASID(f, satp.ASID)
  BY <1>1, <1>5, Zenon DEF AliasOf, matchASID
<1>7. f.D
  BY <1>1, <1>3, <1>5, Zenon DEF AliasOf, PrivIn
<1>8. f # d
  BY <1>3, <1>7, Zenon
<1>9. d.low <= f.high /\ f.low <= d.high
  <2>1. d \in Entries /\ f \in Entries
    BY <1>3, <1>5, Zenon DEF TLBInv, EntriesOK
  <2>2. d.low \in Nat /\ d.high \in Nat /\ f.low \in Nat /\ f.high \in Nat
    BY <2>1, Zenon DEF Entries
  <2>3. d.low <= v /\ v <= d.high /\ f.low <= v /\ v <= f.high
    BY <1>4, <1>6, Zenon DEF Covers
  <2> QED BY <2>2, <2>3
<1> QED BY <1>3, <1>5, <1>6, <1>8, <1>9, Zenon DEF Overlapping

LEMMA WalkResolves ==
  ASSUME TLBInv, tlbMissWalk, NEW v \in access.first .. access.last
  PROVE  ResolvedAt(v)
<1> DEFINE l == tlbLookup(access.mode, access.next, access.acc)
<1>1. PICK found \in findTLBEntry(access.next) :
        /\ l.error = "none"
        /\ MapEntry(l.entry, tlb \ Discarded(found), WithoutEntries(maps, Discarded(found)))
  BY Zenon DEF tlbMissWalk
<1>2. UNCHANGED procASID /\ Missing
  BY Zenon DEF tlbMissWalk
<1>3. PICK i \in 0..3 :
         /\ Promise!Allows(access.mode, access.next, access.acc, i)
         /\ l.pte = MarkPTE(Promise!EntryAt(access.next, i), access.acc)
         /\ l.entry = NewEntry(access.next, i, l.pte)
         /\ l.entry \in Entries /\ Sized(l.entry) /\ Covers(l.entry, access.next)
  BY <1>1, <1>2, LookupOK, Zenon
<1> HIDE DEF l
<1>4. access.acc \in MappedPriv(access.mode, l.entry, access.acc)
  <2> DEFINE pte == Promise!EntryAt(access.next, i)
             t == Promise!TranslationOf(access.next, i, pte)
  <2>1. Promise!Permits(t, access.mode, access.acc) /\ Promise!TableAt(access.next, i) \in Tables
    BY <1>3, Zenon DEF Promise!Allows, Promise!LeafLevels
  <2>2. pte \in PTERecords
    BY <1>2, <2>1, EntryTyped, MissingAccess, ZenonT(30) DEF TLBInv
  <2>3. l.entry.priv = pte.priv /\ l.entry.U = pte.U /\ l.entry.D = (pte.D \/ access.acc = "W")
    <3>1. l.pte.priv = pte.priv /\ l.pte.U = pte.U /\ l.pte.D = (pte.D \/ access.acc = "W")
      BY <1>3, <2>2, MarkKeeps
    <3> QED BY <1>3, <3>1 DEF NewEntry
  <2>4. t.priv = pte.priv /\ t.U = pte.U
    BY Zenon DEF Promise!TranslationOf
  <2>5. pte.priv \in SUBSET {"R", "W", "X"} /\ pte.U \in BOOLEAN
    BY <2>2, Zenon DEF PTERecords
  <2> HIDE DEF t, pte
  <2>6. checkEntryPermission(access.mode, l.entry, access.acc) # {}
    BY <1>2, <2>1, <2>3, <2>4, <2>5, MissingAccess, PermissionAgrees, Zenon DEF TLBInv, TablesOK
  <2>7. access.acc \in checkEntryPermission(access.mode, l.entry, access.acc)
    BY <2>6, Zenon DEF checkEntryPermission
  <2> QED BY <2>3, <2>7, Zenon DEF MappedPriv
<1>5. \A m \in Visible(access.mode, v, access.acc) :
        m \in WithoutEntries(maps, Discarded(found)) \/ Overlapping
  <2>1. access.first \in Nat /\ access.last \in Nat
    BY <1>2, MissingAccess, PowersOfTwo DEF Misses, VAs
  <2>2. v \in Nat
    BY <2>1
  <2> QED BY <1>2, <2>2, DiscardHarmless, Zenon
<1> QED BY <1>1, <1>2, <1>3, <1>4, <1>5, PageResolved, Zenon

(* Every step of riscvVMMiss that does not fault leaves the simulator able *)
(* to make the access on the pages handled, however many pages the access  *)
(* has and whatever entries there are.                                     *)
THEOREM MissesResolve == Spec => MissResolves
<1>1. TLBInv /\ [Next]_vars =>
        [tlbMissFound \/ tlbMissWalk =>
           \A v \in access.first .. access.last :
             \/ access'.mode = access.mode /\ access'.next <= v
             \/ v < access.next /\ (Overlapping \/ Visible(access.mode, v, access.acc) = {})
             \/ VisibleIn(maps', procASID', access.mode, v, access.acc) # {}]_vars
  BY FoundResolves, WalkResolves, Zenon DEF ResolvedAt
<1> QED BY <1>1, TLBInvariant, PTL DEF Spec, MissResolves

-----------------------------------------------------------------------------
(* The TLB implements Translation, step by step                            *)

Cache(es) == {CachedTranslation(e) : e \in es}
Out       == IF access.mode = "done" THEN access.out ELSE [acc |-> "none"]

LEMMA InitRefines == Init => Promise!Init
<1> SUFFICES ASSUME Init PROVE Promise!Init
  BY Zenon
<1>1. Roots \subseteq Tables
  BY TLBAssumption, Zenon
<1>2. {CachedTranslation(e) : e \in tlb} = {}
  BY Zenon DEF Init
<1>3. saved = [mem |-> mem, satp |-> satp, status |-> status, tlb |-> tlb]
  BY Zenon DEF Init
<1>4. /\ saved.mem = mem /\ saved.satp = satp /\ saved.status = status /\ saved.tlb = tlb
  BY <1>3, Zenon
<1>5. Out = Promise!NoOutcome
  BY Zenon DEF Init, Out, NoAccess, Promise!NoOutcome
<1>6. satp \in [MODE : {0}, ASID : {0}, PPN : Tables]
  BY <1>1, Zenon DEF Init
<1> QED BY <1>2, <1>4, <1>5, <1>6, Zenon DEF Init, Promise!Init, Out

(* An alias is used: its entry is a translation that permits the access. *)
LEMMA UseRefines ==
  ASSUME TLBInv, NEW mode \in AccessModes, NEW va \in MissVAs, NEW acc \in Accesses,
         Use(mode, va, acc)
  PROVE  Promise!Use
<1>1. PICK m \in Visible(mode, va, acc) :
        access' = Outcome([mode |-> mode, va |-> va, acc |-> acc, PA |-> m.PA])
  BY Zenon DEF Use
<1>2. UNCHANGED <<mem, satp, status, tlb, saved>> /\ access = NoAccess /\ satp.MODE # 0
  BY Zenon DEF Use
<1> DEFINE o == [mode |-> mode, va |-> va, acc |-> acc, PA |-> m.PA]
<1>3. Out = Promise!NoOutcome /\ Out' = o
  BY <1>1, <1>2, Zenon DEF Out, NoAccess, Outcome, Promise!NoOutcome
<1>4. /\ m \in maps /\ m.mode = mode /\ m.va = va /\ acc \in m.priv
      /\ \A e : m.tag = EntryTag(e, mode) => /\ e.simASID.MXR = status.MXR
                                             /\ e.G \/ e.simASID.ASID = satp.ASID
                                             /\ e.U /\ mode = "S" => e.simASID.SUM = status.SUM
  BY VisibleEntry
<1>5. PICK e \in tlb : AliasOf(m, e)
  BY <1>4, Zenon DEF TLBInv, Accounted
<1>6. /\ e.simASID.MXR = status.MXR
      /\ e.G \/ e.simASID.ASID = satp.ASID
      /\ e.U /\ mode = "S" => e.simASID.SUM = status.SUM
  BY <1>4, <1>5, Zenon DEF AliasOf
<1>7. /\ e.low <= va /\ va <= e.high /\ m.PA = e.PA + (va - e.low) /\ acc \in PrivIn(e, mode)
  BY <1>4, <1>5, Zenon DEF AliasOf, Covers
<1>8. va \in Nat /\ e.low \in Nat /\ e.high \in Nat
  BY TLBAssumption, PowersOfTwo DEF VAs, TLBInv, EntriesOK, Entries
<1> DEFINE t == CachedTranslation(e)
<1>9. /\ t.low = e.low /\ t.size = e.high - e.low + 1 /\ t.PA = e.PA /\ t.priv = e.priv
      /\ t.U = e.U /\ t.G = e.G /\ t.D = e.D /\ t.ASID = IF e.G THEN 0 ELSE e.simASID.ASID
  BY Zenon DEF CachedTranslation
<1>10. t \in Cache(tlb)
  BY Zenon DEF Cache
<1> HIDE DEF t
<1>11. Promise!Applies(t, va)
  <2>1. va \in t.low .. t.low + t.size - 1
    BY <1>7, <1>8, <1>9
  <2> QED BY <2>1, <1>6, <1>9, Zenon DEF Promise!Applies
<1>12. Promise!Permits(t, mode, acc) /\ (acc = "W" => t.D)
  BY <1>6, <1>7, <1>9, Zenon DEF PrivIn, Promise!Permits, AccessModes, Accesses
<1>13. m.PA = t.PA + (va - t.low)
  BY <1>7, <1>9, Zenon
<1>14. DOMAIN o = {"mode", "va", "acc", "PA"} /\ o.mode = mode /\ o.va = va /\ o.acc = acc
       /\ o.PA = m.PA
  BY Zenon
<1> HIDE DEF o
<1>15. /\ DOMAIN Out' = {"mode", "va", "acc", "PA"}
       /\ \E s \in Cache(tlb) : /\ Promise!Applies(s, Out'.va)
                                /\ Promise!Permits(s, Out'.mode, Out'.acc)
                                /\ Out'.acc = "W" => s.D
                                /\ Out'.PA = s.PA + (Out'.va - s.low)
  BY <1>3, <1>10, <1>11, <1>12, <1>13, <1>14, Zenon
<1> QED BY <1>2, <1>3, <1>15, Zenon DEF Promise!Use, Out, Cache

(* Steps that drop translations only. *)
LEMMA EvictRefines ==
  ASSUME UNCHANGED <<mem, satp, status, saved>>, Cache(tlb') \subseteq Cache(tlb), Out' = Out
  PROVE  Promise!Evict
BY Zenon DEF Promise!Evict, Cache, Out

(* riscvVMMiss has no outcome as long as it handles pages. *)
LEMMA MapEntryOut ==
  ASSUME TLBInv, Missing, NEW e, NEW es, NEW ms, MapEntry(e, es, ms)
  PROVE  Out' = Out /\ Out = Promise!NoOutcome
<1>1. access \in Misses /\ access.mode \in AccessModes
  BY MissingAccess, Zenon
<1>2. access' = NoAccess \/ access' = [access EXCEPT !.next = MappedRange(e, access.next).high + 1]
  BY Zenon DEF MapEntry
<1>3. access.mode # "done"
  BY <1>1, Zenon DEF AccessModes
<1>4. access'.mode # "done"
  BY <1>1, <1>2, <1>3 DEF NoAccess, Misses
<1> QED BY <1>3, <1>4, Zenon DEF Out, Promise!NoOutcome

(* An entry that is found is the same translation once it is aliased. *)
LEMMA FoundRefines ==
  ASSUME TLBInv, tlbMissFound
  PROVE  Promise!Evict
<1>1. PICK found \in findTLBEntry(access.next) :
        \E e \in Usable(found) : MapEntry(e, tlb \ {e}, maps)
  BY Zenon DEF tlbMissFound
<1>2. PICK e \in Usable(found) : MapEntry(e, tlb \ {e}, maps)
  BY <1>1, Zenon
<1>3. UNCHANGED <<mem, satp, status, saved>> /\ Missing
  BY Zenon DEF tlbMissFound
<1>4. e \in tlb /\ matchASID(e, satp.ASID)
  BY <1>2, FoundEntry, Zenon DEF Usable
<1>5. e \in Entries /\ Sized(e)
  BY <1>4, Zenon DEF TLBInv, EntriesOK
<1> DEFINE f == MappedEntry(e, access.mode)
<1>6. /\ f.simASID = getSimASID /\ f.low = e.low /\ f.high = e.high /\ f.PA = e.PA
      /\ f.priv = e.priv /\ f.U = e.U /\ f.G = e.G /\ f.D = e.D
  BY <1>3, <1>5, MissingAccess, MappedEntryOK, Zenon DEF TLBInv
<1>7. tlb' = (tlb \ {e}) \cup {f}
  BY <1>2, Zenon DEF MapEntry
<1> HIDE DEF f
<1>8. (IF f.G THEN 0 ELSE f.simASID.ASID) = (IF e.G THEN 0 ELSE e.simASID.ASID)
  BY <1>4, <1>6 DEF matchASID, getSimASID, SimASID
<1>9. CachedTranslation(f) = CachedTranslation(e)
  BY <1>6, <1>8, Zenon DEF CachedTranslation
<1>10. Cache(tlb') \subseteq Cache(tlb)
  BY <1>4, <1>7, <1>9, Zenon DEF Cache
<1> QED BY <1>2, <1>3, <1>10, MapEntryOut, EvictRefines, Zenon

(* The entry of a walk is the translation that the page tables make. *)
LEMMA WalkRefines ==
  ASSUME TLBInv, tlbMissWalk
  PROVE  Promise!Next
<1> DEFINE l == tlbLookup(access.mode, access.next, access.acc)
           va == access.next
           acc == access.acc
<1>1. PICK found \in findTLBEntry(access.next) :
        /\ l.error = "none"
        /\ mem' = [mem EXCEPT ![l.addr] = l.pte]
        /\ MapEntry(l.entry, tlb \ Discarded(found), WithoutEntries(maps, Discarded(found)))
  BY Zenon DEF tlbMissWalk
<1>2. UNCHANGED <<satp, status, saved>> /\ Missing
  BY Zenon DEF tlbMissWalk
<1>3. PICK i \in 0..3 :
         /\ Promise!Allows(access.mode, va, acc, i)
         /\ l.pte = MarkPTE(Promise!EntryAt(va, i), acc)
         /\ l.addr = <<Promise!TableAt(va, i), getVPNi(va, i)>>
         /\ l.entry = NewEntry(va, i, l.pte)
         /\ l.pte \in PTERecords
         /\ l.entry \in Entries /\ Sized(l.entry)
         /\ l.entry.high - l.entry.low + 1 = 2^(i * VPN_SHIFT)
  BY <1>1, <1>2, LookupOK, Zenon
<1> HIDE DEF l
<1>4. /\ access.mode \in AccessModes /\ acc \in Accesses /\ va \in VAs /\ va \in Nat /\ satp.MODE # 0
  BY <1>2, MissingAccess, Zenon
<1> DEFINE f == MappedEntry(l.entry, access.mode)
           pte == Promise!Marked(Promise!EntryAt(va, i), acc)
           t == Promise!TranslationOf(va, i, pte)
<1>5. pte = l.pte
  BY <1>3, Zenon DEF Promise!Marked, MarkPTE
<1>6. CachedTranslation(f) = t
  <2>1. /\ f.simASID = getSimASID /\ f.low = l.entry.low /\ f.high = l.entry.high
        /\ f.PA = l.entry.PA /\ f.priv = l.entry.priv
        /\ f.U = l.entry.U /\ f.G = l.entry.G /\ f.D = l.entry.D
    BY <1>3, <1>4, MappedEntryOK, ZenonT(30) DEF TLBInv
  <2>2. /\ l.entry.low = va - (va % 2^(i * VPN_SHIFT)) /\ l.entry.PA = l.pte.PPN
        /\ l.entry.priv = l.pte.priv /\ l.entry.U = l.pte.U
        /\ l.entry.G = (l.pte.G \/ ASID_bits = 0) /\ l.entry.D = l.pte.D
    BY <1>3 DEF NewEntry, getG
  <2>3. f.simASID.ASID = satp.ASID
    BY <2>1 DEF getSimASID, SimASID
  <2> HIDE DEF f, pte
  <2>4. CachedTranslation(f) =
          [low |-> va - (va % 2^(i * VPN_SHIFT)), size |-> 2^(i * VPN_SHIFT), PA |-> pte.PPN,
           priv |-> pte.priv, U |-> pte.U, G |-> pte.G \/ ASID_bits = 0, D |-> pte.D,
           ASID |-> IF pte.G \/ ASID_bits = 0 THEN 0 ELSE satp.ASID]
    <3>1. f.high - f.low + 1 = 2^(i * VPN_SHIFT)
      BY <1>3, <2>1, Zenon
    <3>2. f.G = (pte.G \/ ASID_bits = 0)
      BY <1>5, <2>1, <2>2, Zenon
    <3>3. (IF f.G THEN 0 ELSE f.simASID.ASID) = (IF pte.G \/ ASID_bits = 0 THEN 0 ELSE satp.ASID)
      BY <2>3, <3>2, Zenon
    <3>4. /\ f.low = va - (va % 2^(i * VPN_SHIFT)) /\ f.PA = pte.PPN /\ f.priv = pte.priv
          /\ f.U = pte.U /\ f.D = pte.D
      BY <1>5, <2>1, <2>2, Zenon
    <3> QED BY <3>1, <3>2, <3>3, <3>4, Zenon DEF CachedTranslation
  <2> QED BY <2>4, Zenon DEF Promise!TranslationOf
<1>7. tlb' = (tlb \ Discarded(found)) \cup {f}
  BY <1>1, Zenon DEF MapEntry
<1> HIDE DEF f, t, pte
<1>8. t \in Cache(tlb') /\ Cache(tlb') \subseteq Cache(tlb) \cup {t}
  BY <1>6, <1>7, Zenon DEF Cache
<1>9. mem' = [mem EXCEPT ![<<Promise!TableAt(va, i), Promise!Index(va, i)>>] = pte]
  <2>1. Promise!Index(va, i) = getVPNi(va, i)
    BY Zenon DEF Promise!Index, getVPNi
  <2> QED BY <1>1, <1>3, <1>5, <2>1, Zenon
<1>10. Promise!Fill(access.mode, va, acc)
  BY <1>3, <1>8, <1>9, Zenon DEF Promise!Fill, Cache, t, pte
<1>11. Out' = Out
  BY <1>1, <1>2, MapEntryOut, Zenon
<1>12. /\ UNCHANGED <<satp, status, saved>> /\ satp.MODE # 0 /\ Out' = Out
       /\ \E m \in Promise!AccessModes, v \in Promise!VAs, a \in Promise!Accesses : Promise!Fill(m, v, a)
  BY <1>2, <1>4, <1>10, <1>11, Zenon
  DEF Promise!AccessModes, Promise!VAs, Promise!Accesses, AccessModes, VAs, Accesses
<1> QED BY <1>12, Zenon DEF Promise!Next, Out

(* A fault is taken if the page tables deny the access. *)
LEMMA FaultRefines ==
  ASSUME TLBInv, tlbMissFault
  PROVE  Promise!Fault \/ Promise!Evict
<1> DEFINE l == tlbLookup(access.mode, access.next, access.acc)
           o == [mode |-> access.mode, va |-> access.next, acc |-> access.acc,
                 fault |-> handlePTWException(l.error)]
<1>1. PICK found \in findTLBEntry(access.next) :
        /\ l.error # "none"
        /\ tlb' = tlb \ Discarded(found)
        /\ access' = IF access.artifact THEN NoAccess ELSE Outcome(o)
  BY Zenon DEF tlbMissFault
<1>2. UNCHANGED <<mem, satp, status, saved>> /\ Missing
  BY Zenon DEF tlbMissFault
<1>3. /\ access.mode \in AccessModes /\ access.acc \in Accesses /\ access.next \in VAs
      /\ satp.MODE # 0 /\ TablesOK
  BY <1>2, MissingAccess, Zenon DEF TLBInv
<1>4. \A i \in 0..3 : ~Promise!Allows(access.mode, access.next, access.acc, i)
  BY <1>1, <1>3, LookupAllows, Zenon
<1>5. Cache(tlb') \subseteq Cache(tlb)
  BY <1>1, Zenon DEF Cache
<1>6. Out = Promise!NoOutcome
  BY <1>3, Zenon DEF Out, AccessModes, Promise!NoOutcome
<1>7. DOMAIN o = {"mode", "va", "acc", "fault"} /\ o.mode = access.mode /\ o.va = access.next
      /\ o.acc = access.acc
  BY Zenon
<1> HIDE DEF o, l
<1>8. CASE access' = NoAccess
  <2>1. Out' = Out
    BY <1>6, <1>8, Zenon DEF Out, NoAccess, Promise!NoOutcome
  <2> QED BY <1>2, <1>5, <2>1, EvictRefines, Zenon
<1>9. CASE access' = Outcome(o)
  <2>1. Out' = o
    BY <1>9, Zenon DEF Out, Outcome
  <2>2. /\ DOMAIN Out' = {"mode", "va", "acc", "fault"}
        /\ \A i \in 0..3 : ~Promise!Allows(Out'.mode, Out'.va, Out'.acc, i)
    BY <1>4, <1>7, <2>1, Zenon
  <2> QED BY <1>2, <1>3, <1>5, <1>6, <2>2, Zenon DEF Promise!Fault, Out, Cache
<1> QED BY <1>1, <1>8, <1>9, Zenon

(* A fence leaves no translation that it names. *)
LEMMA FenceRefines ==
  ASSUME TLBInv, NEW del \in SUBSET tlb, NEW vas, NEW asids,
         invalidateTLBEntriesRange(del, vas, asids),
         \A e \in tlb \ del : ~ /\ vas \cap (e.low .. e.high) # {}
                                /\ IF e.G /\ ASID_bits # 0 THEN asids = ASIDs
                                   ELSE (IF e.G THEN 0 ELSE e.simASID.ASID) \in asids
  PROVE  Promise!Fence
<1> DEFINE o == [vas |-> vas, asids |-> asids]
<1>1. /\ access = NoAccess /\ tlb' = tlb \ del /\ access' = Outcome(o)
      /\ UNCHANGED <<mem, satp, status, saved>>
  BY Zenon DEF invalidateTLBEntriesRange
<1>2. Out = Promise!NoOutcome /\ Out' = o
  BY <1>1, Zenon DEF Out, NoAccess, Outcome, Promise!NoOutcome
<1>3. DOMAIN o = {"vas", "asids"} /\ o.vas = vas /\ o.asids = asids
  BY Zenon
<1> HIDE DEF o
<1>4. Cache(tlb') \subseteq Cache(tlb)
  BY <1>1, Zenon DEF Cache
<1>5. ASSUME NEW t \in Cache(tlb')
      PROVE  ~ /\ Out'.vas \cap (t.low .. t.low + t.size - 1) # {}
               /\ IF t.G /\ ASID_bits # 0 THEN Out'.asids = Promise!ASIDs ELSE t.ASID \in Out'.asids
  <2>1. PICK e \in tlb \ del : t = CachedTranslation(e)
    BY <1>1, <1>5, Zenon DEF Cache
  <2>2. /\ t.low = e.low /\ t.size = e.high - e.low + 1 /\ t.G = e.G
        /\ t.ASID = IF e.G THEN 0 ELSE e.simASID.ASID
    BY <2>1, Zenon DEF CachedTranslation
  <2>3. e.low \in Nat /\ e.high \in Nat
    BY Zenon DEF TLBInv, EntriesOK, Entries
  <2>4. t.low + t.size - 1 = e.high
    BY <2>2, <2>3
  <2>5. Promise!ASIDs = ASIDs
    BY Zenon DEF Promise!ASIDs, ASIDs
  <2> QED BY <1>2, <1>3, <2>2, <2>4, <2>5, Zenon
<1> QED BY <1>1, <1>2, <1>3, <1>4, <1>5, Zenon DEF Promise!Fence, Out, Cache

(* The four kinds of SFENCE.VMA. *)
LEMMA FencesRefine ==
  ASSUME TLBInv, \/ riscvVMInvalidateAll
                 \/ \E va \in MissVAs : riscvVMInvalidateVA(va)
                 \/ \E asid \in WrittenASIDs : riscvVMInvalidateAllASID(asid)
                 \/ \E va \in MissVAs, asid \in WrittenASIDs : riscvVMInvalidateVAASID(va, asid)
  PROVE  Promise!Fence
<1>1. ASSUME NEW asid \in WrittenASIDs
      PROVE  ASID_bits # 0 => {maskASID(asid)} # ASIDs
  <2> DEFINE n == 2^ASID_bits
  <2>1. ASID_bits # 0 => n > 1
    BY PowersOfTwo, Zenon
  <2>2. n \in Nat
    BY PowersOfTwo, Zenon
  <2>3. ASIDs = 0 .. n - 1
    BY Zenon DEF ASIDs
  <2> HIDE DEF n
  <2>4. n > 1 => 0 \in ASIDs /\ 1 \in ASIDs
    BY <2>2, <2>3
  <2> QED BY <2>1, <2>4
<1>2. ASSUME NEW e \in tlb, NEW asid \in WrittenASIDs, ~DeletedForASID(e, maskASID(asid))
      PROVE  ~(IF e.G /\ ASID_bits # 0 THEN {maskASID(asid)} = ASIDs
               ELSE (IF e.G THEN 0 ELSE e.simASID.ASID) \in {maskASID(asid)})
  <2>1. ASID_bits # 0 /\ (e.G \/ e.simASID.ASID # maskASID(asid))
    BY <1>2, Zenon DEF DeletedForASID, matchASID
  <2>2. {maskASID(asid)} # ASIDs
    BY <2>1, <1>1, Zenon
  <2> QED BY <2>1, <2>2, Zenon
<1>3. ASSUME NEW e \in tlb, NEW va \in MissVAs, ~Covers(e, va)
      PROVE  {va} \cap (e.low .. e.high) = {}
  <2>1. va \in Nat /\ e.low \in Nat /\ e.high \in Nat
    BY TLBAssumption, PowersOfTwo DEF VAs, TLBInv, EntriesOK, Entries
  <2> QED BY <1>3, <2>1 DEF Covers
<1>4. CASE riscvVMInvalidateAll
  BY <1>4, FenceRefines, Zenon DEF riscvVMInvalidateAll
<1>5. CASE \E va \in MissVAs : riscvVMInvalidateVA(va)
  <2>1. PICK va \in MissVAs : invalidateTLBEntriesRange({e \in tlb : Covers(e, va)}, {va}, ASIDs)
    BY <1>5, Zenon DEF riscvVMInvalidateVA
  <2>2. \A e \in tlb \ {x \in tlb : Covers(x, va)} : {va} \cap (e.low .. e.high) = {}
    BY <1>3, Zenon
  <2>3. {e \in tlb : Covers(e, va)} \in SUBSET tlb
    BY Zenon
  <2> QED BY <2>1, <2>2, <2>3, FenceRefines, Zenon
<1>6. CASE \E asid \in WrittenASIDs : riscvVMInvalidateAllASID(asid)
  <2>1. PICK asid \in WrittenASIDs : riscvVMInvalidateAllASID(asid)
    BY <1>6, Zenon
  <2> DEFINE del == {e \in tlb : DeletedForASID(e, maskASID(asid))}
  <2>2. invalidateTLBEntriesRange(del, VAs, {maskASID(asid)})
    BY <2>1, Zenon DEF riscvVMInvalidateAllASID
  <2>3. del \in SUBSET tlb
    BY Zenon
  <2>4. \A e \in tlb \ del :
          ~(IF e.G /\ ASID_bits # 0 THEN {maskASID(asid)} = ASIDs
            ELSE (IF e.G THEN 0 ELSE e.simASID.ASID) \in {maskASID(asid)})
    BY <1>2, Zenon
  <2> HIDE DEF del
  <2> QED BY <2>2, <2>3, <2>4, FenceRefines, Zenon
<1>7. CASE \E va \in MissVAs, asid \in WrittenASIDs : riscvVMInvalidateVAASID(va, asid)
  <2>1. PICK va \in MissVAs, asid \in WrittenASIDs : riscvVMInvalidateVAASID(va, asid)
    BY <1>7, Zenon
  <2> DEFINE del == {e \in tlb : Covers(e, va) /\ DeletedForASID(e, maskASID(asid))}
  <2>2. invalidateTLBEntriesRange(del, {va}, {maskASID(asid)})
    BY <2>1, Zenon DEF riscvVMInvalidateVAASID
  <2>3. del \in SUBSET tlb
    BY Zenon
  <2>4. \A e \in tlb \ del :
          ~ /\ {va} \cap (e.low .. e.high) # {}
            /\ IF e.G /\ ASID_bits # 0 THEN {maskASID(asid)} = ASIDs
               ELSE (IF e.G THEN 0 ELSE e.simASID.ASID) \in {maskASID(asid)}
    BY <1>2, <1>3, Zenon
  <2> HIDE DEF del
  <2> QED BY <2>2, <2>3, <2>4, FenceRefines, Zenon
<1> QED BY <1>4, <1>5, <1>6, <1>7, Zenon

(* Writes of memory and registers: entries and aliases stay as they are. *)
LEMMA WritesRefine ==
  ASSUME TLBInv, TLBInv',
         \/ \E w \in PTEWrites : WritePTE(w[1], w[2])
         \/ \E MODE \in {0, 1, 8, 9}, asid \in WrittenASIDs, PPN \in Roots :
              satpW(MODE, asid, PPN)
         \/ \E st \in Statuses : statusW(st.MXR, st.SUM)
  PROVE  Promise!WritePTE \/ Promise!WriteCSR
<1>1. CASE \E w \in PTEWrites : WritePTE(w[1], w[2])
  <2>1. PICK w \in PTEWrites : WritePTE(w[1], w[2])
    BY <1>1, Zenon
  <2>2. w[1] \in PTEAddrs
    BY TLBAssumption, Zenon
  <2>3. mem' = [mem EXCEPT ![w[1]] = w[2]] /\ UNCHANGED <<satp, status, tlb, access, saved>>
    BY <2>1, Zenon DEF WritePTE
  <2>4. w[1] \in DOMAIN mem
    BY <2>2, Zenon DEF TLBInv, TablesOK
  <2>5. mem'[w[1]] = w[2]
    BY <2>3, <2>4, Zenon
  <2>6. \E addr \in DOMAIN mem : mem' = [mem EXCEPT ![addr] = mem'[addr]]
    BY <2>3, <2>4, <2>5, Zenon
  <2> QED BY <2>3, <2>6, Zenon DEF Promise!WritePTE
<1>2. CASE \/ \E MODE \in {0, 1, 8, 9}, asid \in WrittenASIDs, PPN \in Roots : satpW(MODE, asid, PPN)
           \/ \E st \in Statuses : statusW(st.MXR, st.SUM)
  <2>1. UNCHANGED <<mem, tlb, saved, access>>
    BY <1>2, Zenon DEF satpW, statusW
  <2>2. satp' \in SatpValues
    BY Zenon DEF TLBInv, TablesOK
  <2>3. satp'.MODE \in Sv_modes /\ satp'.ASID \in Promise!ASIDs
    BY <2>2, Zenon DEF SatpValues, ASIDs, Promise!ASIDs
  <2> QED BY <2>1, <2>3, Zenon DEF Promise!WriteCSR
<1> QED BY <1>1, <1>2, Zenon

(* A saved state has the translations that the TLB had. *)
LEMMA SaveRefines ==
  ASSUME TLBInv, riscvVMSave
  PROVE  Promise!Save
<1>1. /\ saved' = [mem |-> mem, satp |-> satp, status |-> status,
                   tlb |-> {[e EXCEPT !.isMapped = {}] : e \in tlb}]
      /\ UNCHANGED <<mem, satp, status, tlb, access>>
  BY Zenon DEF riscvVMSave
<1> DEFINE es == {[e EXCEPT !.isMapped = {}] : e \in tlb}
<1>2. Cache(es) = Cache(tlb)
  <2>1. ASSUME NEW e \in tlb
        PROVE  CachedTranslation([e EXCEPT !.isMapped = {}]) = CachedTranslation(e)
    BY UnmappedOK, Zenon DEF TLBInv, EntriesOK
  <2> QED BY <2>1, Zenon DEF Cache
<1> HIDE DEF es
<1>3. /\ saved'.mem = mem /\ saved'.satp = satp /\ saved'.status = status /\ saved'.tlb = es
  BY <1>1, Zenon DEF es
<1>4. {CachedTranslation(e) : e \in saved'.tlb} = {CachedTranslation(e) : e \in tlb}
  BY <1>2, <1>3, Zenon DEF Cache
<1> QED BY <1>1, <1>3, <1>4, Zenon DEF Promise!Save

LEMMA RestoreRefines ==
  ASSUME riscvVMRestore
  PROVE  Promise!Restore
BY Zenon DEF riscvVMRestore, Promise!Restore

LEMMA RetireRefines ==
  ASSUME Retire
  PROVE  [Promise!Next]_Promise!vars
<1>1. /\ access.mode = "done" /\ access' = NoAccess
      /\ UNCHANGED <<mem, satp, status, tlb, saved>>
  BY Zenon DEF Retire
<1>2. Out' = Promise!NoOutcome
  BY <1>1, Zenon DEF Out, NoAccess, Promise!NoOutcome
<1>3. CASE Out = Promise!NoOutcome
  BY <1>1, <1>2, <1>3, Zenon DEF Promise!vars, Out
<1>4. CASE Out # Promise!NoOutcome
  BY <1>1, <1>2, <1>4, Zenon DEF Promise!Next, Promise!Retire, Out
<1> QED BY <1>3, <1>4, Zenon

(* A step that only begins to handle an access. *)
LEMMA StutterRefines ==
  ASSUME UNCHANGED <<mem, satp, status, tlb, saved>>, Out' = Out
  PROVE  UNCHANGED Promise!vars
BY Zenon DEF Promise!vars, Out

LEMMA NextRefines == TLBInv /\ TLBInv' /\ [Next]_vars => [Promise!Next]_Promise!vars
<1> SUFFICES ASSUME TLBInv, TLBInv', [Next]_vars PROVE [Promise!Next]_Promise!vars
  BY Zenon
<1>1. CASE tlbMiss
  BY <1>1, FoundRefines, WalkRefines, FaultRefines, Zenon DEF tlbMiss, Promise!Next
<1>2. CASE Retire
  BY <1>2, RetireRefines, Zenon
<1>3. CASE \E mode \in AccessModes, va \in MissVAs, acc \in {"R", "W", "X"} : Use(mode, va, acc)
  BY <1>3, UseRefines, Zenon DEF Promise!Next, Accesses
<1>4. CASE \E mode \in AccessModes, va \in MissVAs, artifact \in Artifact :
             \/ \E last \in va .. va + MissPages - 1 :
                  /\ last \in VAs
                  /\ \/ riscvRdPrivExcept(mode, va, last, artifact)
                     \/ riscvWrPrivExcept(mode, va, last, artifact)
             \/ validateFetchAddressInt(mode, va, ~artifact)
  <2>1. PICK mode, va, last, acc, artifact :
          mode \in AccessModes /\ riscvVMMiss(mode, va, last, acc, artifact)
    BY <1>4, Zenon DEF riscvRdPrivExcept, riscvWrPrivExcept, validateFetchAddressInt
  <2>2. /\ UNCHANGED <<mem, satp, status, tlb, saved>> /\ access = NoAccess
        /\ access' = [mode |-> mode, first |-> va, next |-> va, last |-> last, acc |-> acc,
                      artifact |-> artifact]
    BY <2>1, Zenon DEF riscvVMMiss
  <2>3. access.mode # "done" /\ access'.mode # "done"
    BY <2>1, <2>2, Zenon DEF NoAccess, AccessModes
  <2>4. Out' = Out
    BY <2>3, Zenon DEF Out
  <2> QED BY <2>2, <2>4, StutterRefines, Zenon
<1>5. CASE \/ riscvVMInvalidateAll
           \/ \E va \in MissVAs : riscvVMInvalidateVA(va)
           \/ \E asid \in WrittenASIDs : riscvVMInvalidateAllASID(asid)
           \/ \E va \in MissVAs, asid \in WrittenASIDs : riscvVMInvalidateVAASID(va, asid)
  BY <1>5, FencesRefine, Zenon DEF Promise!Next
<1>6. CASE \/ \E w \in PTEWrites : WritePTE(w[1], w[2])
           \/ \E MODE \in {0, 1, 8, 9}, asid \in WrittenASIDs, PPN \in Roots :
                satpW(MODE, asid, PPN)
           \/ \E st \in Statuses : statusW(st.MXR, st.SUM)
  BY <1>6, WritesRefine, Zenon DEF Promise!Next
<1>7. CASE riscvVMSave \/ riscvVMRestore
  BY <1>7, SaveRefines, RestoreRefines, Zenon DEF Promise!Next
<1>8. CASE UNCHANGED vars
  <2>1. UNCHANGED <<mem, satp, status, tlb, saved>> /\ Out' = Out
    BY <1>8, Zenon DEF vars, Out
  <2> QED BY <2>1, StutterRefines, Zenon
<1> QED BY <1>1, <1>2, <1>3, <1>4, <1>5, <1>6, <1>7, <1>8, Zenon DEF Next

(* The TLB and the aliases implement Translation, for every depth of the   *)
(* page tables, number of entries, address spaces and length of access.    *)
THEOREM TLBImplementsTranslation == Spec => ImplementsTranslation
<1>1. Init => Promise!Init
  BY InitRefines, Zenon
<1>2. TLBInv /\ TLBInv' /\ [Next]_vars => [Promise!Next]_Promise!vars
  BY NextRefines, Zenon
<1> QED BY <1>1, <1>2, TLBInvariant, PTL DEF Spec, ImplementsTranslation, Promise!Spec
=============================================================================
