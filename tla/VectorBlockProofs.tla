--------------------------- MODULE VectorBlockProofs ---------------------------
(***************************************************************************)
(* Proofs about what the code generator believes of vtype, vl and vstart   *)
(* (VectorBlock), for every vector length and sequence of instructions.    *)
(*                                                                         *)
(* VBInv has one part for the registers and the key, one for the block     *)
(* that runs, one for what is known in it, and one for its accesses;       *)
(* TopInv, for the registers known to be zero above a width, is added to   *)
(* it for ElisionsHarmless.                                                *)
(***************************************************************************)
EXTENDS VectorBlock, TLAPS

-----------------------------------------------------------------------------
(* vtype, vl and the key                                                   *)

LEMMA SEWs ==
  ASSUME NEW k \in 0..7
  PROVE  \/ (k = 0 /\ vsewToSEW(k) = 8) \/ (k = 1 /\ vsewToSEW(k) = 16)
         \/ (k = 2 /\ vsewToSEW(k) = 32) \/ (k = 3 /\ vsewToSEW(k) = 64)
         \/ (k = 4 /\ vsewToSEW(k) = 128) \/ (k = 5 /\ vsewToSEW(k) = 256)
         \/ (k = 6 /\ vsewToSEW(k) = 512) \/ (k = 7 /\ vsewToSEW(k) = 1024)
<1>1. ASSUME k = 0 PROVE vsewToSEW(k) = 8
  BY <1>1 DEF vsewToSEW
<1>2. ASSUME k = 1 PROVE vsewToSEW(k) = 16
  BY <1>2 DEF vsewToSEW
<1>3. ASSUME k = 2 PROVE vsewToSEW(k) = 32
  BY <1>3 DEF vsewToSEW
<1>4. ASSUME k = 3 PROVE vsewToSEW(k) = 64
  BY <1>4 DEF vsewToSEW
<1>5. ASSUME k = 4 PROVE vsewToSEW(k) = 128
  BY <1>5 DEF vsewToSEW
<1>6. ASSUME k = 5 PROVE vsewToSEW(k) = 256
  BY <1>6 DEF vsewToSEW
<1>7. ASSUME k = 6 PROVE vsewToSEW(k) = 512
  BY <1>7 DEF vsewToSEW
<1>8. ASSUME k = 7 PROVE vsewToSEW(k) = 1024
  BY <1>8 DEF vsewToSEW
<1> QED
  BY <1>1, <1>2, <1>3, <1>4, <1>5, <1>6, <1>7, <1>8

LEMMA LMULs ==
  ASSUME NEW k \in 0..3
  PROVE  \/ (k = 0 /\ vlmulToVLMUL(k) = 1) \/ (k = 1 /\ vlmulToVLMUL(k) = 2)
         \/ (k = 2 /\ vlmulToVLMUL(k) = 4) \/ (k = 3 /\ vlmulToVLMUL(k) = 8)
<1>1. ASSUME k = 0 PROVE vlmulToVLMUL(k) = 1
  BY <1>1 DEF vlmulToVLMUL
<1>2. ASSUME k = 1 PROVE vlmulToVLMUL(k) = 2
  BY <1>2 DEF vlmulToVLMUL
<1>3. ASSUME k = 2 PROVE vlmulToVLMUL(k) = 4
  BY <1>3 DEF vlmulToVLMUL
<1>4. ASSUME k = 3 PROVE vlmulToVLMUL(k) = 8
  BY <1>4 DEF vlmulToVLMUL
<1> QED
  BY <1>1, <1>2, <1>3, <1>4

LEMMA SEWInjective ==
  ASSUME NEW j \in 0..7, NEW k \in 0..7, vsewToSEW(j) = vsewToSEW(k)
  PROVE  j = k
BY SEWs

LEMMA LMULInjective ==
  ASSUME NEW j \in 0..3, NEW k \in 0..3, vlmulToVLMUL(j) = vlmulToVLMUL(k)
  PROVE  j = k
BY LMULs

(* The states of the registers. *)
Types == [vill : BOOLEAN, vsew : 0..7, vlmul : 0..3, vl : Nat]
Csrs  == {c \in Types : c.vl <= getMaxVL(c)}

LEMMA SEWPositive ==
  ASSUME NEW c \in Types
  PROVE  vsewToSEW(c.vsew) \in Nat \ {0} /\ vlmulToVLMUL(c.vlmul) \in Nat \ {0}
<1>1. c.vsew \in 0..7 /\ c.vlmul \in 0..3
  BY Zenon DEF Types
<1>2. vsewToSEW(c.vsew) \in Nat \ {0}
  BY <1>1, SEWs
<1>3. vlmulToVLMUL(c.vlmul) \in Nat \ {0}
  BY <1>1, LMULs
<1> QED
  BY <1>2, <1>3, Zenon

LEMMA QuotientNat ==
  ASSUME NEW a \in Nat, NEW b \in Nat \ {0}
  PROVE  a \div b \in Nat
OBVIOUS

LEMMA ProductNat ==
  ASSUME NEW a \in Nat, NEW b \in Nat
  PROVE  a * b \in Nat
OBVIOUS

LEMMA MaxVLNat ==
  ASSUME NEW c \in Types
  PROVE  getMaxVL(c) \in Nat
<1>1. 8 * VLENB * vlmulToVLMUL(c.vlmul) \in Nat
  BY SEWPositive, ProductNat, VBAssumption, Zenon
<1> QED
  BY <1>1, SEWPositive, QuotientNat, Zenon DEF getMaxVL

LEMMA MaxVLSame ==
  ASSUME NEW c, NEW d, c.vsew = d.vsew, c.vlmul = d.vlmul
  PROVE  getMaxVL(c) = getMaxVL(d)
BY Zenon DEF getMaxVL

LEMMA RegistersTyped == Registers \subseteq Csrs
<1> SUFFICES ASSUME NEW c \in Registers PROVE c \in Csrs
  BY Zenon
<1>1. CASE /\ c \in [vill : {FALSE}, vsew : {v \in VSEWs : riscvValidSEW(v)}, vlmul : VLMULs,
                     vl : 0..(8 * VLENB)]
           /\ c.vl <= getMaxVL(c)
  <2>1. /\ c = [vill |-> c.vill, vsew |-> c.vsew, vlmul |-> c.vlmul, vl |-> c.vl]
        /\ c.vill = FALSE /\ c.vsew \in VSEWs /\ c.vlmul \in VLMULs /\ c.vl \in 0..(8 * VLENB)
    BY <1>1, Zenon
  <2>2. c.vl \in Nat
    BY <2>1, VBAssumption
  <2>3. c \in Types
    BY <2>1, <2>2, VBAssumption, Zenon DEF Types
  <2> QED
    BY <1>1, <2>3, Zenon DEF Csrs
<1>2. ASSUME NEW b \in BOOLEAN, c = [vill |-> b, vsew |-> 0, vlmul |-> 0, vl |-> 0]
      PROVE  c \in Csrs
  <2>1. c \in Types /\ c.vl = 0
    BY <1>2 DEF Types
  <2> QED
    BY <2>1, MaxVLNat DEF Csrs
<1> QED
  BY <1>1, <1>2, Zenon DEF Registers

LEMMA SetTyped ==
  ASSUME NEW c, NEW vill \in BOOLEAN, NEW vsew \in 0..7, NEW vlmul \in 0..3, NEW vl \in Nat
  PROVE  /\ riscvSetVL(riscvSetVType(c, vill, vsew, vlmul), vl) \in Csrs
         /\ riscvSetVL(riscvSetVType(c, vill, vsew, vlmul), vl).vill = vill
<1> DEFINE z == [vill |-> vill, vsew |-> vsew, vlmul |-> vlmul, vl |-> 0]
           t == riscvSetVType(c, vill, vsew, vlmul)
           n == BMin(vl, getMaxVL(t))
           d == [vill |-> vill, vsew |-> vsew, vlmul |-> vlmul, vl |-> n]
<1>1. riscvSetVL(t, vl) = d
  BY DEF riscvSetVL, riscvSetVType
<1>2. getMaxVL(t) = getMaxVL(z) /\ getMaxVL(d) = getMaxVL(z)
  BY MaxVLSame, Zenon DEF riscvSetVType
<1>3. getMaxVL(z) \in Nat
  BY MaxVLNat, Zenon DEF Types
<1>4. n \in Nat /\ n <= getMaxVL(z)
  BY <1>2, <1>3 DEF BMin
<1> HIDE DEF n
<1>5. d \in Types /\ d.vl = n /\ d.vill = vill
  BY <1>4, Zenon DEF Types
<1> QED
  BY <1>1, <1>2, <1>4, <1>5, Zenon DEF Csrs

LEMMA CutTyped ==
  ASSUME NEW c \in Csrs, NEW vl \in Nat
  PROVE  riscvSetVL(c, vl) \in Csrs
<1> DEFINE n == BMin(vl, getMaxVL(c))
           d == [vill |-> c.vill, vsew |-> c.vsew, vlmul |-> c.vlmul, vl |-> n]
<1>1. riscvSetVL(c, vl) = d
  BY DEF riscvSetVL, Csrs, Types
<1>2. getMaxVL(c) \in Nat /\ getMaxVL(d) = getMaxVL(c)
  BY MaxVLNat, MaxVLSame, Zenon DEF Csrs
<1>3. n \in Nat /\ n <= getMaxVL(c)
  BY <1>2 DEF BMin
<1> HIDE DEF n
<1>4. d \in Types /\ d.vl = n
  BY <1>3, Zenon DEF Types, Csrs
<1> QED
  BY <1>1, <1>2, <1>3, <1>4, Zenon DEF Csrs

(* The class of vl in the key. *)
ClassOf(c) ==
  IF c.vl = 0 THEN VLCLASSMT_ZERO
  ELSE IF c.vl = getMaxVL(c) THEN VLCLASSMT_MAX ELSE VLCLASSMT_NONZERO

LEMMA ClassValues ==
  /\ VLCLASSMT_UNKNOWN = 0 /\ VLCLASSMT_ZERO = 1 /\ VLCLASSMT_NONZERO = 2 /\ VLCLASSMT_MAX = 3
  /\ PMK_TRANSACTION = 32768
BY DEF VLCLASSMT_UNKNOWN, VLCLASSMT_ZERO, VLCLASSMT_NONZERO, VLCLASSMT_MAX, PMK_TRANSACTION

LEMMA KeyIs ==
  ASSUME NEW c \in Csrs
  PROVE  /\ ClassOf(c) \in {1, 2, 3}
         /\ VectorKey(c) = IF c.vill THEN 4 ELSE (c.vlmul + 4 * c.vsew) * 4 + ClassOf(c)
         /\ VectorKey(c) \in 1..127
<1>1. ClassOf(c) \in {1, 2, 3}
  BY ClassValues DEF ClassOf
<1>2. VectorKey(c) = IF c.vill THEN 4 ELSE (c.vlmul + 4 * c.vsew) * 4 + ClassOf(c)
  BY ClassValues DEF VectorKey, ClassOf
<1>3. c.vill \in BOOLEAN /\ c.vlmul \in 0..3 /\ c.vsew \in 0..7
  BY Zenon DEF Csrs, Types
<1> QED
  BY <1>1, <1>2, <1>3

(* The key tells the configurations and the classes of vl apart. *)
LEMMA KeySame ==
  ASSUME NEW c \in Csrs, NEW d \in Csrs, VectorKey(c) = VectorKey(d), ~d.vill
  PROVE  ~c.vill /\ c.vsew = d.vsew /\ c.vlmul = d.vlmul /\ ClassOf(c) = ClassOf(d)
<1>1. /\ c.vill \in BOOLEAN /\ c.vlmul \in 0..3 /\ c.vsew \in 0..7
      /\ d.vill \in BOOLEAN /\ d.vlmul \in 0..3 /\ d.vsew \in 0..7
  BY Zenon DEF Csrs, Types
<1>2. ClassOf(c) \in {1, 2, 3} /\ ClassOf(d) \in {1, 2, 3}
  BY KeyIs, Zenon
<1>3. VectorKey(d) = (d.vlmul + 4 * d.vsew) * 4 + ClassOf(d)
  BY KeyIs, Zenon
<1>4. ~c.vill
  BY <1>1, <1>2, <1>3, KeyIs
<1>5. VectorKey(c) = (c.vlmul + 4 * c.vsew) * 4 + ClassOf(c)
  BY <1>4, KeyIs, Zenon
<1> QED
  BY <1>1, <1>2, <1>3, <1>4, <1>5, SMTT(30)

-----------------------------------------------------------------------------
(* What a block knows                                                      *)

Shaped(b) ==
  /\ b = [SEWMt |-> b.SEWMt, VLMULMt |-> b.VLMULMt, VLClassMt |-> b.VLClassMt,
          VStartZeroMt |-> b.VStartZeroMt, single |-> b.single, group |-> b.group]
  /\ b.VStartZeroMt \in BOOLEAN

(* b knows nothing of vtype and vl, or all there is to know of c's. *)
KnowsOf(b, c) ==
  /\ ~c.vill
  /\ b.SEWMt = vsewToSEW(c.vsew)
  /\ b.VLMULMt = vlmulToVLMUL(c.vlmul)
  /\ b.VLClassMt = ClassOf(c)

TrueOf(b, c) ==
  \/ b.SEWMt = 0 /\ b.VLMULMt = 0 /\ b.VLClassMt = VLCLASSMT_UNKNOWN
  \/ KnowsOf(b, c)

LEMMA TrueKnowledge ==
  ASSUME csr \in Csrs, TrueOf(blk, csr)
  PROVE  KnowledgeTrue
<1>1. csr.vl \in Nat /\ csr.vl <= getMaxVL(csr) /\ getMaxVL(csr) \in Nat
  BY MaxVLNat DEF Csrs, Types
<1>2. CASE blk.SEWMt = 0 /\ blk.VLMULMt = 0 /\ blk.VLClassMt = VLCLASSMT_UNKNOWN
  BY <1>2, ClassValues DEF KnowledgeTrue
<1>3. CASE KnowsOf(blk, csr)
  <2>1. ClassOf(csr) = 1 => csr.vl = 0
    BY ClassValues DEF ClassOf
  <2>2. ClassOf(csr) = 2 => csr.vl \in 1..(getMaxVL(csr) - 1)
    BY <1>1, ClassValues DEF ClassOf
  <2>3. ClassOf(csr) = 3 => csr.vl = getMaxVL(csr)
    BY ClassValues DEF ClassOf
  <2> QED
    BY <1>3, <2>1, <2>2, <2>3, ClassValues DEF KnowledgeTrue, KnowsOf
<1> QED
  BY <1>2, <1>3, Zenon DEF TrueOf

LEMMA KnowsAll ==
  ASSUME NEW b, NEW c \in Csrs, KnowsOf(b, c)
  PROVE  KnowsType(b)
BY SEWPositive, KeyIs, ClassValues DEF KnowsOf, KnowsType, Csrs

(* fillVectorOperationData learns the truth: what it does not know it      *)
(* reads from a state of the same key.                                     *)
LEMMA FilledTrue ==
  ASSUME csr \in Csrs, tr.csr \in Csrs, NEW i, NEW b, Shaped(b), TrueOf(b, csr),
         ~isWhole(i) => ~tr.csr.vill,
         ~isWhole(i) /\ ~KnowsType(b) => VectorKey(tr.csr) = VectorKey(csr)
  PROVE  LET f == fillVectorOperationData(i, b)
         IN  /\ Shaped(f) /\ TrueOf(f, csr) /\ (~isWhole(i) => KnowsOf(f, csr))
             /\ f.VStartZeroMt = b.VStartZeroMt /\ f.single = b.single /\ f.group = b.group
<1>1. CASE isWhole(i)
  BY <1>1, Zenon DEF fillVectorOperationData
<1>2. CASE ~isWhole(i)
  <2> DEFINE f == [SEWMt |-> getSEWMt(b), VLMULMt |-> getVLMULMt(b),
                   VLClassMt |-> getVLClassMt(b), VStartZeroMt |-> b.VStartZeroMt,
                   single |-> b.single, group |-> b.group]
  <2>1. fillVectorOperationData(i, b) = f
    BY <1>2, Zenon DEF fillVectorOperationData, Shaped
  <2>2. Shaped(f)
    BY Zenon DEF Shaped
  <2>3. KnowsOf(f, csr)
    <3>1. CASE KnowsOf(b, csr)
      <4>1. b.SEWMt # 0 /\ b.VLMULMt # 0 /\ b.VLClassMt # VLCLASSMT_UNKNOWN
        BY <3>1, KnowsAll, Zenon DEF KnowsType
      <4> QED
        BY <3>1, <4>1, Zenon DEF KnowsOf, getSEWMt, getVLMULMt, getVLClassMt
    <3>2. CASE b.SEWMt = 0 /\ b.VLMULMt = 0 /\ b.VLClassMt = VLCLASSMT_UNKNOWN
      <4>1. /\ ~csr.vill /\ csr.vsew = tr.csr.vsew /\ csr.vlmul = tr.csr.vlmul
            /\ ClassOf(csr) = ClassOf(tr.csr)
        BY <1>2, <3>2, KeySame, Zenon DEF KnowsType
      <4>2. getSEWMt(b) = vsewToSEW(tr.csr.vsew) /\ getVLMULMt(b) = vlmulToVLMUL(tr.csr.vlmul)
        BY <3>2, Zenon DEF getSEWMt, getVLMULMt
      <4>3. (8 * VLENB * getVLMULMt(b)) \div getSEWMt(b) = getMaxVL(tr.csr)
        BY <4>2, Zenon DEF getMaxVL
      <4>4. tr.csr.vl \in Nat /\ tr.csr.vl <= getMaxVL(tr.csr) /\ getMaxVL(tr.csr) \in Nat
        BY MaxVLNat, Zenon DEF Csrs, Types
      <4>5. tr.csr.vl >= getMaxVL(tr.csr) <=> tr.csr.vl = getMaxVL(tr.csr)
        BY <4>4
      <4>6. getVLClassMt(b) = ClassOf(tr.csr)
        BY <3>2, <4>3, <4>5, Zenon DEF getVLClassMt, ClassOf
      <4> QED
        BY <4>1, <4>2, <4>6, Zenon DEF KnowsOf
    <3> QED
      BY <3>1, <3>2, Zenon DEF TrueOf
  <2> QED
    BY <2>1, <2>2, <2>3 DEF TrueOf
<1> QED
  BY <1>1, <1>2, Zenon

(* The steps of an instruction that change other knowledge. *)
SameType(b, c) ==
  Shaped(c) /\ c.SEWMt = b.SEWMt /\ c.VLMULMt = b.VLMULMt /\ c.VLClassMt = b.VLClassMt

LEMMA TypeKept ==
  ASSUME NEW b, NEW c, NEW d, SameType(b, c)
  PROVE  (TrueOf(b, d) => TrueOf(c, d)) /\ (KnowsOf(b, d) => KnowsOf(c, d))
BY Zenon DEF SameType, TrueOf, KnowsOf

LEMMA VStartOnly ==
  ASSUME NEW b, Shaped(b), NEW v \in BOOLEAN
  PROVE  /\ SameType(b, [b EXCEPT !.VStartZeroMt = v])
         /\ [b EXCEPT !.VStartZeroMt = v].VStartZeroMt = v
         /\ [b EXCEPT !.VStartZeroMt = v].single = b.single
         /\ [b EXCEPT !.VStartZeroMt = v].group = b.group
<1> DEFINE c == [SEWMt |-> b.SEWMt, VLMULMt |-> b.VLMULMt, VLClassMt |-> b.VLClassMt,
                 VStartZeroMt |-> v, single |-> b.single, group |-> b.group]
<1>1. [b EXCEPT !.VStartZeroMt = v] = c
  BY DEF Shaped
<1>2. Shaped(c) /\ c.VStartZeroMt = v
  BY Zenon DEF Shaped
<1> QED
  BY <1>1, <1>2, Zenon DEF SameType

LEMMA TopZeroOnly ==
  ASSUME NEW i, NEW b, Shaped(b)
  PROVE  SameType(b, endVectorOp(i, b)) /\ endVectorOp(i, b).VStartZeroMt = b.VStartZeroMt
<1>1. PICK s, g : endVectorOp(i, b) = [SEWMt |-> b.SEWMt, VLMULMt |-> b.VLMULMt,
                                       VLClassMt |-> b.VLClassMt,
                                       VStartZeroMt |-> b.VStartZeroMt, single |-> s, group |-> g]
  BY Zenon DEF endVectorOp, requireTopZero, updateScalarTopZero, Shaped
<1> QED
  BY <1>1 DEF SameType, Shaped

-----------------------------------------------------------------------------
(* The inductive invariant                                                 *)

(* The key is the one of registers c, in transaction mode or not. *)
KeyOf(k, c) == k \in {VectorKey(c), VectorKey(c) + PMK_TRANSACTION}

(* The registers and the key, whose transaction bit is set only once       *)
(* transaction mode has been used; every older block is then gone.         *)
StateInv ==
  /\ csr \in Csrs
  /\ vstart \in Nat
  /\ KeyOf(pmKey, csr)
  /\ useTMode \in BOOLEAN /\ oldest = useTMode
  /\ pmKey >= PMK_TRANSACTION => useTMode

(* A block runs with the key it was entered with, and was made in a state  *)
(* of the registers, before transaction mode was used only if it still has *)
(* not been.                                                               *)
BlockInv ==
  /\ live \in BOOLEAN
  /\ live => /\ entry = pmKey
             /\ tr.csr \in Csrs
             /\ KeyOf(tr.pmKey, tr.csr)
             /\ tr.useTMode = useTMode
             /\ tr.pmKey >= PMK_TRANSACTION => tr.useTMode

(* What is known is true, and nothing is between blocks. *)
KnownInv ==
  /\ Shaped(blk)
  /\ TrueOf(blk, csr)
  /\ VStartKnown
  /\ ~live => blk = NoKnowledge

VBInv == StateInv /\ BlockInv /\ KnownInv /\ AccessInMode

LEMMA NoKnowledgeTrue ==
  ASSUME NEW c
  PROVE  Shaped(NoKnowledge) /\ TrueOf(NoKnowledge, c) /\ NoKnowledge.VStartZeroMt = FALSE
BY Zenon DEF NoKnowledge, Shaped, TrueOf

LEMMA KeyRange ==
  ASSUME NEW c \in Csrs, NEW k, KeyOf(k, c)
  PROVE  /\ k \in Nat /\ k % 256 = VectorKey(c) /\ k \div 256 \in {0, 128}
         /\ k >= PMK_TRANSACTION <=> k = VectorKey(c) + PMK_TRANSACTION
         /\ k % PMK_TRANSACTION = VectorKey(c)
         /\ \A d \in Csrs : KeyOf(riscvRefreshVectorPMKey(d, k), d)
                             /\ (riscvRefreshVectorPMKey(d, k) >= PMK_TRANSACTION
                                   <=> k >= PMK_TRANSACTION)
<1>1. VectorKey(c) \in 1..127
  BY KeyIs
<1>2. k = VectorKey(c) \/ k = VectorKey(c) + 32768
  BY ClassValues DEF KeyOf
<1>3. k \in Nat /\ k % 256 = VectorKey(c) /\ k \div 256 \in {0, 128} /\ k % 32768 = VectorKey(c)
  BY <1>1, <1>2
<1>4. k >= 32768 <=> k = VectorKey(c) + 32768
  BY <1>1, <1>2
<1>5. ASSUME NEW d \in Csrs
      PROVE  KeyOf(riscvRefreshVectorPMKey(d, k), d)
             /\ (riscvRefreshVectorPMKey(d, k) >= PMK_TRANSACTION <=> k >= PMK_TRANSACTION)
  <2>2. VectorKey(d) \in 1..127
    BY KeyIs
  <2>1. riscvRefreshVectorPMKey(d, k) = (k - VectorKey(c)) + VectorKey(d)
    BY <1>1, <1>3, <2>2 DEF riscvRefreshVectorPMKey
  <2>3. CASE k = VectorKey(c)
    <3>1. riscvRefreshVectorPMKey(d, k) = VectorKey(d) /\ ~(VectorKey(d) >= 32768) /\ ~(k >= 32768)
      BY <1>1, <2>1, <2>2, <2>3
    <3> QED
      BY <3>1, ClassValues DEF KeyOf
  <2>4. CASE k = VectorKey(c) + 32768
    <3>1. /\ riscvRefreshVectorPMKey(d, k) = VectorKey(d) + 32768
          /\ VectorKey(d) + 32768 >= 32768 /\ k >= 32768
      BY <1>1, <2>1, <2>2, <2>4
    <3> QED
      BY <3>1, ClassValues DEF KeyOf
  <2> QED
    BY <1>2, <2>3, <2>4
<1> QED
  BY <1>3, <1>4, <1>5, ClassValues

(* Code that has checked the key was made for the present registers. *)
LEMMA CheckedKey ==
  ASSUME StateInv, BlockInv, live, emitCheckPolymorphic
  PROVE  VectorKey(tr.csr) = VectorKey(csr) /\ tr.pmKey = pmKey
<1>1. tr.pmKey = pmKey /\ KeyOf(pmKey, csr) /\ KeyOf(pmKey, tr.csr)
  BY Zenon DEF StateInv, BlockInv, emitCheckPolymorphic
<1>2. csr \in Csrs /\ tr.csr \in Csrs
  BY Zenon DEF StateInv, BlockInv
<1>3. pmKey % 256 = VectorKey(csr) /\ pmKey % 256 = VectorKey(tr.csr)
  BY <1>1, <1>2, KeyRange
<1> QED
  BY <1>1, <1>3, Zenon

(* An access is made as the mode requires, with or without a check.        *)
LEMMA CheckedMode ==
  ASSUME StateInv, BlockInv, live, ModeChecked
  PROVE  (~inTransactionMode) = (pmKey < PMK_TRANSACTION)
<1>1. pmKey \in Nat /\ tr.pmKey \in Nat
  BY KeyRange DEF StateInv, BlockInv
<1>2. CASE tr.useTMode
  <2>1. tr.pmKey = pmKey
    BY <1>2, CheckedKey DEF ModeChecked
  <2> QED
    BY <1>1, <2>1, ClassValues DEF inTransactionMode
<1>3. CASE ~tr.useTMode
  <2>1. ~(tr.pmKey >= PMK_TRANSACTION) /\ ~(pmKey >= PMK_TRANSACTION)
    BY <1>3, Zenon DEF StateInv, BlockInv
  <2> QED
    BY <1>1, <2>1, ClassValues DEF inTransactionMode
<1> QED
  BY <1>2, <1>3, Zenon

-----------------------------------------------------------------------------
(* Steps                                                                   *)

(* A step that leaves the block, or is made between blocks. *)
LEMMA LeavingKeeps ==
  ASSUME StateInv', EndBlock, AccessInMode'
  PROVE  VBInv'
<1>1. BlockInv'
  BY Zenon DEF BlockInv, EndBlock
<1>2. KnownInv'
  BY NoKnowledgeTrue, Zenon DEF KnownInv, EndBlock, VStartKnown
<1> QED
  BY <1>1, <1>2, Zenon DEF VBInv

LEMMA OutsideKeeps ==
  ASSUME VBInv, ~live, StateInv', UNCHANGED <<live, tr, entry, blk, plain>>
  PROVE  VBInv'
<1>1. BlockInv'
  BY Zenon DEF VBInv, BlockInv
<1>2. KnownInv'
  <2>1. blk' = NoKnowledge
    BY Zenon DEF VBInv, KnownInv
  <2> QED
    BY <2>1, NoKnowledgeTrue, Zenon DEF KnownInv, VStartKnown
<1>3. AccessInMode'
  BY Zenon DEF VBInv, AccessInMode
<1> QED
  BY <1>1, <1>2, <1>3, Zenon DEF VBInv

(* One that goes on with knowledge b. *)
LEMMA ContinuingKeeps ==
  ASSUME VBInv, live, UNCHANGED <<csr, pmKey, useTMode, oldest, live, tr, entry>>,
         vstart' \in Nat, AccessInMode', Shaped(blk'), TrueOf(blk', csr),
         blk'.VStartZeroMt => vstart' = 0
  PROVE  VBInv'
<1>1. StateInv'
  BY Zenon DEF VBInv, StateInv
<1>2. BlockInv'
  BY Zenon DEF VBInv, BlockInv
<1>3. KnownInv'
  BY Zenon DEF VBInv, KnownInv, BlockInv, VStartKnown
<1> QED
  BY <1>1, <1>2, <1>3, Zenon DEF VBInv

LEMMA StateKept ==
  ASSUME StateInv, UNCHANGED <<csr, pmKey, useTMode, oldest>>, vstart' \in Nat
  PROVE  StateInv'
BY Zenon DEF StateInv

(* The registers change and the key with them. *)
LEMMA StateRefreshed ==
  ASSUME StateInv, NEW c \in Csrs, csr' = c, pmKey' = riscvRefreshVectorPMKey(c, pmKey),
         UNCHANGED <<useTMode, oldest>>, vstart' \in Nat
  PROVE  StateInv'
<1>1. csr \in Csrs /\ KeyOf(pmKey, csr)
  BY Zenon DEF StateInv
<1>2. KeyOf(pmKey', csr') /\ (pmKey' >= PMK_TRANSACTION <=> pmKey >= PMK_TRANSACTION)
  BY <1>1, KeyRange
<1> QED
  BY <1>2, Zenon DEF StateInv

LEMMA InstructionTyped ==
  ASSUME NEW i \in VectorInstructions
  PROVE  i.loop \in BOOLEAN /\ i.vs0 \in BOOLEAN
<1>1. PICK k \in Kinds, q \in VRegs : i = [k EXCEPT !.r = q]
  BY DEF VectorInstructions
<1>2. \/ k = Scalar("S") \/ k = Scalar("X")
      \/ \E to, mem : \E b \in BOOLEAN : k = Loop(to, mem, b)
      \/ \E w, mem : k = Whole(w, mem)
  BY Zenon DEF Kinds
<1>3. CASE k = Scalar("S") \/ k = Scalar("X")
  <2>1. PICK to, b :
          k = [to |-> to, loop |-> FALSE, whole |-> "NA", mem |-> "no", vs0 |-> FALSE, nochk |-> b,
               r |-> 0]
    BY <1>3, Zenon DEF Scalar
  <2> QED
    BY <1>1, <2>1, Zenon
<1>4. CASE \E to, mem : \E b \in BOOLEAN : k = Loop(to, mem, b)
  <2>1. PICK to, mem : \E b \in BOOLEAN : k = Loop(to, mem, b)
    BY <1>4, Zenon
  <2>2. PICK b \in BOOLEAN : k = Loop(to, mem, b)
    BY <2>1, Zenon
  <2>3. k = [to |-> to, loop |-> TRUE, whole |-> "NA", mem |-> mem, vs0 |-> b, nochk |-> FALSE,
             r |-> 0]
    BY <2>2, Zenon DEF Loop
  <2> QED
    BY <1>1, <2>3, Zenon
<1>5. CASE \E w, mem : k = Whole(w, mem)
  <2>1. PICK w, mem : k = Whole(w, mem)
    BY <1>5, Zenon
  <2>2. k = [to |-> "V", loop |-> TRUE, whole |-> w, mem |-> mem, vs0 |-> FALSE, nochk |-> FALSE,
             r |-> 0]
    BY <2>1, Zenon DEF Whole
  <2> QED
    BY <1>1, <2>2, Zenon
<1> QED
  BY <1>2, <1>3, <1>4, <1>5, Zenon

(* Where an instruction executes, what it knows is true. *)
LEMMA KnownTrue ==
  ASSUME VBInv, NEW i \in VectorInstructions, Executes(i)
  PROVE  /\ live
         /\ Shaped(Known(i)) /\ TrueOf(Known(i), csr)
         /\ Known(i).VStartZeroMt \in BOOLEAN
         /\ Known(i).VStartZeroMt => vstart = 0
         /\ ~isWhole(i) => KnowsOf(Known(i), csr)
         /\ Known(i).single = blk.single /\ Known(i).group = blk.group
<1> DEFINE f == fillVectorOperationData(i, blk)
           v == blk.VStartZeroMt \/ i.vs0
<1>1. live
  BY Zenon DEF Executes, Translated
<1>2. csr \in Csrs /\ tr.csr \in Csrs /\ Shaped(blk) /\ TrueOf(blk, csr)
  BY <1>1, Zenon DEF VBInv, StateInv, BlockInv, KnownInv
<1>3. ~isWhole(i) => ~tr.csr.vill
  BY Zenon DEF Executes, Translated
<1>4. ~isWhole(i) /\ ~KnowsType(blk) => VectorKey(tr.csr) = VectorKey(csr)
  BY <1>1, CheckedKey, Zenon DEF Executes, Translated, VBInv
<1>5. /\ Shaped(f) /\ TrueOf(f, csr) /\ (~isWhole(i) => KnowsOf(f, csr))
      /\ f.VStartZeroMt = blk.VStartZeroMt /\ f.single = blk.single /\ f.group = blk.group
  BY <1>2, <1>3, <1>4, FilledTrue, Zenon
<1> HIDE DEF f
<1>6. v \in BOOLEAN
  BY Zenon
<1>7. Known(i) = [f EXCEPT !.VStartZeroMt = v]
  BY <1>5, Zenon DEF Known, checkVStartZero, f
<1>8. /\ SameType(f, Known(i)) /\ Known(i).VStartZeroMt = v
      /\ Known(i).single = blk.single /\ Known(i).group = blk.group
  BY <1>5, <1>6, <1>7, VStartOnly, ZenonT(30)
<1>9. v => vstart = 0
  BY Zenon DEF VBInv, KnownInv, VStartKnown, Executes
<1>10. TrueOf(Known(i), csr) /\ (~isWhole(i) => KnowsOf(Known(i), csr))
  BY <1>5, <1>8, TypeKept, Zenon
<1> QED
  BY <1>1, <1>6, <1>8, <1>9, <1>10, Zenon DEF SameType

LEMMA AccessKeeps ==
  ASSUME VBInv, NEW i, Translated(i), Access(i)
  PROVE  AccessInMode'
<1>1. CASE i.mem = "no"
  BY <1>1, Zenon DEF Access, VBInv, AccessInMode
<1>2. CASE i.mem # "no"
  <2>1. (~inTransactionMode) = (pmKey < PMK_TRANSACTION)
    BY <1>2, CheckedMode, Zenon DEF Translated, VBInv
  <2>2. plain' = <<~inTransactionMode, pmKey < PMK_TRANSACTION>>
    BY <1>2, Zenon DEF Access
  <2> QED
    BY <2>1, <2>2, Zenon DEF AccessInMode
<1> QED
  BY <1>1, <1>2, Zenon

LEMMA IllegalKeeps ==
  ASSUME VBInv, Illegal
  PROVE  VBInv'
<1>1. StateInv'
  BY StateKept, Zenon DEF VBInv, Illegal, StateInv
<1>2. AccessInMode'
  BY Zenon DEF VBInv, Illegal, AccessInMode
<1> QED
  BY <1>1, <1>2, LeavingKeeps, Zenon DEF Illegal

LEMMA StartKeeps ==
  ASSUME VBInv, riscvStartBlock
  PROVE  VBInv'
<1>1. StateInv'
  <2>1. StateInv /\ vstart' \in Nat
    BY Zenon DEF VBInv, StateInv, riscvStartBlock
  <2> QED
    BY <2>1, StateKept, Zenon DEF riscvStartBlock
<1>2. BlockInv'
  <2>1. PICK c \in Registers, t \in {0, PMK_TRANSACTION}, u \in {oldest, useTMode} :
          tr' = [csr |-> c, pmKey |-> VectorKey(c) + t, useTMode |-> u]
    BY DEF riscvStartBlock, Translations
  <2>2. c \in Csrs /\ VectorKey(c) \in Nat
    BY RegistersTyped, KeyIs
  <2>3. tr'.csr = c /\ tr'.pmKey = VectorKey(c) + t /\ tr'.useTMode = u
    BY <2>1, Zenon
  <2>4. KeyOf(tr'.pmKey, c)
    BY <2>2, <2>3, ClassValues DEF KeyOf
  <2>5. u = useTMode /\ useTMode' = useTMode
    BY Zenon DEF VBInv, StateInv, riscvStartBlock
  <2>6. tr'.pmKey >= PMK_TRANSACTION => tr'.useTMode
    BY Zenon DEF riscvStartBlock
  <2>7. live' = TRUE /\ entry' = pmKey'
    BY Zenon DEF riscvStartBlock
  <2> QED
    BY <2>2, <2>3, <2>4, <2>5, <2>6, <2>7, Zenon DEF BlockInv
<1>3. KnownInv'
  BY NoKnowledgeTrue, Zenon DEF KnownInv, riscvStartBlock, VStartKnown
<1>4. AccessInMode'
  BY Zenon DEF VBInv, riscvStartBlock, AccessInMode
<1> QED
  BY <1>1, <1>2, <1>3, <1>4, Zenon DEF VBInv

LEMMA AccessStepKeeps ==
  ASSUME VBInv, emitLoadStoreCommonMBO
  PROVE  VBInv'
<1>1. AccessInMode'
  <2>1. (~inTransactionMode) = (pmKey < PMK_TRANSACTION)
    BY CheckedMode, Zenon DEF VBInv, emitLoadStoreCommonMBO
  <2> QED
    BY <2>1, Zenon DEF AccessInMode, emitLoadStoreCommonMBO
<1>2. StateInv /\ vstart' \in Nat
  BY Zenon DEF VBInv, StateInv, emitLoadStoreCommonMBO
<1>3. CASE inTransactionMode
  <2>1. EndBlock
    BY <1>3, Zenon DEF emitLoadStoreCommonMBO, Continue
  <2>2. CASE pmKey' = pmKey
    BY <1>1, <1>2, <2>1, <2>2, StateKept, LeavingKeeps, Zenon DEF emitLoadStoreCommonMBO
  <2>3. CASE pmKey' = pmKey % PMK_TRANSACTION
    <3>1. csr \in Csrs /\ KeyOf(pmKey, csr)
      BY <1>2, Zenon DEF StateInv
    <3>2. pmKey' = VectorKey(csr) /\ VectorKey(csr) \in 1..127
      BY <2>3, <3>1, KeyRange, KeyIs
    <3>3. KeyOf(pmKey', csr) /\ ~(pmKey' >= PMK_TRANSACTION)
      BY <3>2, ClassValues DEF KeyOf
    <3>4. StateInv'
      BY <1>2, <3>3, Zenon DEF StateInv, emitLoadStoreCommonMBO
    <3> QED
      BY <1>1, <2>1, <3>4, LeavingKeeps, Zenon
  <2> QED
    BY <1>3, <2>2, <2>3, Zenon DEF emitLoadStoreCommonMBO
<1>4. CASE ~inTransactionMode
  <2>1. /\ live /\ blk' = blk /\ vstart' = vstart
        /\ UNCHANGED <<csr, pmKey, useTMode, oldest, live, tr, entry>>
    BY <1>4, Zenon DEF emitLoadStoreCommonMBO, Continue
  <2>2. Shaped(blk') /\ TrueOf(blk', csr) /\ (blk'.VStartZeroMt => vstart' = 0)
    BY <2>1, Zenon DEF VBInv, KnownInv, VStartKnown
  <2> QED
    BY <1>1, <1>2, <2>1, <2>2, ContinuingKeeps, Zenon
<1> QED
  BY <1>3, <1>4, Zenon

LEMMA TModeKeeps ==
  ASSUME VBInv, NEW enable \in BOOLEAN, riscvSetTMode(enable)
  PROVE  VBInv'
<1>1. csr \in Csrs /\ KeyOf(pmKey, csr) /\ useTMode \in BOOLEAN /\ oldest = useTMode
  BY Zenon DEF VBInv, StateInv
<1>2. pmKey' = VectorKey(csr) + (IF enable THEN PMK_TRANSACTION ELSE 0)
  BY <1>1, KeyRange DEF riscvSetTMode
<1>3. VectorKey(csr) \in 1..127
  BY <1>1, KeyIs, Zenon
<1>4. KeyOf(pmKey', csr) /\ (pmKey' >= PMK_TRANSACTION => enable)
  BY <1>2, <1>3, ClassValues DEF KeyOf
<1>5. StateInv'
  BY <1>1, <1>4 DEF VBInv, StateInv, riscvSetTMode
<1> QED
  BY <1>5, OutsideKeeps, Zenon DEF riscvSetTMode

LEMMA ReplaceKeeps ==
  ASSUME VBInv, NEW c \in Csrs, Replace(c), vstart' \in Nat
  PROVE  VBInv'
<1>1. StateInv'
  BY StateRefreshed, Zenon DEF VBInv, Replace
<1> QED
  BY <1>1, OutsideKeeps, Zenon DEF Replace

LEMMA ZeroKeeps ==
  ASSUME VBInv, NEW i \in VectorInstructions, VectorZero(i)
  PROVE  VBInv'
<1>1. /\ live /\ Shaped(Known(i)) /\ TrueOf(Known(i), csr)
      /\ Known(i).VStartZeroMt \in BOOLEAN /\ (Known(i).VStartZeroMt => vstart = 0)
  BY KnownTrue, Zenon DEF VectorZero
<1>2. /\ blk' = setVStartZero(Known(i))
      /\ UNCHANGED <<csr, pmKey, useTMode, oldest, live, tr, entry, plain>>
  BY Zenon DEF VectorZero, Continue
<1>3. vstart' = 0
  BY <1>1, Zenon DEF VectorZero, Finish
<1>4. SameType(Known(i), blk')
  BY <1>1, <1>2, VStartOnly, Zenon DEF setVStartZero
<1>5. Shaped(blk') /\ TrueOf(blk', csr)
  BY <1>1, <1>4, TypeKept, Zenon DEF SameType
<1>6. AccessInMode'
  BY <1>2, Zenon DEF VBInv, AccessInMode
<1> QED
  BY <1>1, <1>2, <1>3, <1>5, <1>6, ContinuingKeeps, Zenon

LEMMA DoneKeeps ==
  ASSUME VBInv, NEW i \in VectorInstructions, VectorDone(i)
  PROVE  VBInv'
<1> DEFINE b == handleNonZeroVStart(i, Known(i))
           e == endVectorOp(i, b)
           z == Known(i).VStartZeroMt /\ ~i.loop
<1>1. /\ live /\ Shaped(Known(i)) /\ TrueOf(Known(i), csr)
      /\ Known(i).VStartZeroMt \in BOOLEAN /\ (Known(i).VStartZeroMt => vstart = 0)
  BY KnownTrue, Zenon DEF VectorDone
<1>2. z \in BOOLEAN
  BY Zenon
<1>3. b = [Known(i) EXCEPT !.VStartZeroMt = z]
  BY Zenon DEF handleNonZeroVStart
<1>4. SameType(Known(i), b) /\ b.VStartZeroMt = z
  BY <1>1, <1>2, <1>3, VStartOnly, Zenon
<1>5. Finish(b, IF i.loop THEN Limit(i) ELSE StartsAt(i, Known(i)))
  BY Zenon DEF VectorDone
<1>6. /\ Continue(i.mem = "ff" \/ (i.mem # "no" /\ inTransactionMode), setVStartZero(e),
                  byScalarAfter(i, b))
      /\ Access(i) /\ Translated(i) /\ UNCHANGED <<csr, pmKey>>
  BY Zenon DEF VectorDone, Executes
<1> HIDE DEF b
<1>7. vstart' = 0
  <2>1. CASE z
    BY <1>1, <1>4, <1>5, <2>1, Zenon DEF Finish, StartsAt
  <2>2. CASE ~z
    BY <1>4, <1>5, <2>2, Zenon DEF Finish
  <2> QED
    BY <2>1, <2>2, Zenon
<1>8. SameType(b, e)
  BY <1>4, TopZeroOnly DEF SameType
<1> HIDE DEF e
<1>9. SameType(e, setVStartZero(e))
  BY <1>8, VStartOnly, Zenon DEF SameType, setVStartZero
<1>10. TrueOf(setVStartZero(e), csr)
  BY <1>1, <1>4, <1>8, <1>9, TypeKept, Zenon
<1>11. AccessInMode'
  BY <1>6, AccessKeeps, Zenon
<1>12. UNCHANGED <<useTMode, oldest>>
  BY <1>6, Zenon DEF Access
<1>13. CASE EndBlock
  <2>1. StateInv'
    BY <1>6, <1>7, <1>12, StateKept, Zenon DEF VBInv
  <2> QED
    BY <1>11, <1>13, <2>1, LeavingKeeps, Zenon
<1>14. CASE blk' = setVStartZero(e) /\ UNCHANGED <<live, tr, entry>>
  <2>1. Shaped(blk') /\ TrueOf(blk', csr)
    BY <1>9, <1>10, <1>14, Zenon DEF SameType
  <2> QED
    BY <1>1, <1>6, <1>7, <1>11, <1>12, <1>14, <2>1, ContinuingKeeps, Zenon
<1> QED
  BY <1>6, <1>13, <1>14, Zenon DEF Continue

LEMMA FaultNat ==
  ASSUME VBInv, NEW i, NEW k \in FaultsAt(i)
  PROVE  k \in Nat
<1>1. vstart \in Nat /\ csr.vl \in Nat
  BY Zenon DEF VBInv, StateInv, Csrs, Types
<1>2. StartsAt(i, Known(i)) \in Nat
  BY <1>1, Zenon DEF StartsAt
<1>3. Limit(i) \in Nat
  BY <1>1, VBAssumption, Zenon DEF Limit, VLMAXOp
<1>4. k \in StartsAt(i, Known(i))..(Limit(i) - 1)
  BY Zenon DEF FaultsAt
<1> QED
  BY <1>2, <1>3, <1>4

LEMMA FaultKeeps ==
  ASSUME VBInv, NEW i \in VectorInstructions, VectorFault(i)
  PROVE  VBInv'
<1>1. vstart' \in Nat
  BY FaultNat, Zenon DEF VectorFault
<1>2. AccessInMode'
  BY AccessKeeps, Zenon DEF VectorFault, Executes
<1>3. StateInv'
  BY <1>1, StateKept, Zenon DEF VBInv, VectorFault, Access
<1> QED
  BY <1>2, <1>3, LeavingKeeps, Zenon DEF VectorFault

LEMMA FFKeeps ==
  ASSUME VBInv, NEW i \in VectorInstructions, handleFF(i)
  PROVE  VBInv'
<1>1. PICK k \in FaultsAt(i) : csr' = riscvSetVL(csr, k)
  BY Zenon DEF handleFF
<1>2. csr' \in Csrs
  BY <1>1, FaultNat, CutTyped, Zenon DEF VBInv, StateInv
<1>3. AccessInMode'
  BY AccessKeeps, Zenon DEF handleFF, Executes
<1>4. StateInv'
  BY <1>2, StateRefreshed, Zenon DEF VBInv, handleFF, Access
<1> QED
  BY <1>3, <1>4, LeavingKeeps, Zenon DEF handleFF

LEMMA OptionIs ==
  ASSUME NEW a, NEW d
  PROVE  getSetVLOption(a, d) \in {"SVT_SET", "SVT_MAX", "SVT_PRESERVE"}
BY Zenon DEF getSetVLOption

LEMMA SetVLTyped ==
  ASSUME NEW vl \in Nat, NEW vsew \in 0..7, NEW vlmul \in 0..3
  PROVE  setVLSEWLMULInt(vl, vsew, vlmul) \in Csrs
<1>1. riscvSetVL(riscvSetVType(csr, FALSE, vsew, vlmul), vl) \in Csrs
  BY SetTyped, Zenon
<1>2. TRUE \in BOOLEAN /\ 0 \in 0..7 /\ 0 \in 0..3 /\ 0 \in Nat
  OBVIOUS
<1>3. riscvSetVL(riscvSetVType(csr, TRUE, 0, 0), 0) \in Csrs
  BY <1>2, SetTyped, Zenon
<1> QED
  BY <1>1, <1>3, Zenon DEF setVLSEWLMULInt

LEMMA ConfiguredTyped ==
  ASSUME VBInv, NEW option \in {"SVT_SET", "SVT_MAX", "SVT_PRESERVE"},
         NEW avl \in Nat, NEW vsew \in 0..7, NEW vlmul \in 0..3
  PROVE  handleVSetVLArg1(option, avl, vsew, vlmul) \in Csrs
<1>1. CASE option = "SVT_SET"
  BY <1>1, SetVLTyped, Zenon DEF handleVSetVLArg1
<1>2. CASE option = "SVT_MAX"
  <2>1. vlmulToVLMUL(vlmul) \in Nat \ {0} /\ vsewToSEW(vsew) \in Nat \ {0}
    BY SEWs, LMULs
  <2>2. 8 * VLENB * vlmulToVLMUL(vlmul) \in Nat
    BY <2>1, ProductNat, VBAssumption, Zenon
  <2>3. (8 * VLENB * vlmulToVLMUL(vlmul)) \div vsewToSEW(vsew) \in Nat
    BY <2>1, <2>2, QuotientNat, Zenon
  <2> QED
    BY <1>2, <2>3, SetVLTyped, Zenon DEF handleVSetVLArg1, setMaxVLSEWLMUL
<1>3. CASE option = "SVT_PRESERVE"
  <2>1. csr.vl \in Nat
    BY Zenon DEF VBInv, StateInv, Csrs, Types
  <2> QED
    BY <1>3, <2>1, SetVLTyped, Zenon DEF handleVSetVLArg1
<1> QED
  BY <1>1, <1>2, <1>3, Zenon

(* vstart after an instruction that requires nothing of it. *)
LEMMA Finished ==
  ASSUME VBInv, Finish(blk, vstart)
  PROVE  vstart' = 0
BY Zenon DEF VBInv, KnownInv, Shaped, VStartKnown, Finish

LEMMA ConfigureKeeps ==
  ASSUME VBInv, NEW c \in Csrs, Configure(c), Finish(blk, vstart),
         UNCHANGED <<useTMode, oldest, plain>>
  PROVE  VBInv'
<1>1. StateInv'
  BY Finished, StateRefreshed DEF VBInv, Configure
<1>2. AccessInMode'
  BY Zenon DEF VBInv, AccessInMode
<1> QED
  BY <1>1, <1>2, LeavingKeeps, Zenon DEF Configure

LEMMA VSetKeeps ==
  ASSUME VBInv, NEW rs1zero, NEW rdzero, NEW avl \in Nat, NEW vsew \in 0..7, NEW vlmul \in 0..3,
         \/ emitVSetVLRRR(rs1zero, rdzero, avl, vsew, vlmul)
         \/ emitVSetVLRRC(rs1zero, rdzero, avl, vsew, vlmul)
  PROVE  VBInv'
<1> DEFINE option == getSetVLOption(rs1zero, rdzero)
<1>1. live /\ Finish(blk, vstart) /\ UNCHANGED <<useTMode, oldest, plain>>
  BY Zenon DEF emitVSetVLRRR, emitVSetVLRRC
<1>2. CASE Configure(handleVSetVLArg1(option, avl, vsew, vlmul))
  <2>1. handleVSetVLArg1(option, avl, vsew, vlmul) \in Csrs
    BY OptionIs, ConfiguredTyped, Zenon
  <2> QED
    BY <1>1, <1>2, <2>1, ConfigureKeeps, Zenon
<1>3. CASE Unconfigured(blk)
  <2>1. blk' = setVStartZero(blk) /\ UNCHANGED <<csr, pmKey, live, tr, entry>>
    BY <1>3, Zenon DEF Unconfigured, Continue
  <2>2. Shaped(blk) /\ TrueOf(blk, csr)
    BY Zenon DEF VBInv, KnownInv
  <2>3. SameType(blk, blk')
    BY <2>1, <2>2, VStartOnly, Zenon DEF setVStartZero
  <2>4. Shaped(blk') /\ TrueOf(blk', csr)
    BY <2>2, <2>3, TypeKept, Zenon DEF SameType
  <2>5. AccessInMode'
    BY <1>1, Zenon DEF VBInv, AccessInMode
  <2> QED
    BY <1>1, <2>1, <2>4, <2>5, Finished, ContinuingKeeps
<1> QED
  BY <1>2, <1>3, Zenon DEF emitVSetVLRRR, emitVSetVLRRC

LEMMA WVStartKeeps ==
  ASSUME VBInv, NEW v \in VStarts, NEW immediate \in BOOLEAN, riscvWVStart(v, immediate)
  PROVE  VBInv'
<1> DEFINE z == immediate /\ v = 0
<1>1. /\ live /\ vstart' = v /\ v \in Nat /\ blk' = [blk EXCEPT !.VStartZeroMt = z]
      /\ UNCHANGED <<csr, pmKey, useTMode, oldest, live, tr, entry, plain>>
  BY VBAssumption, Zenon DEF riscvWVStart, Continue
<1>2. z \in BOOLEAN
  BY Zenon
<1>3. Shaped(blk) /\ TrueOf(blk, csr)
  BY Zenon DEF VBInv, KnownInv
<1>4. SameType(blk, blk') /\ blk'.VStartZeroMt = z
  BY <1>1, <1>2, <1>3, VStartOnly, Zenon
<1>5. Shaped(blk') /\ TrueOf(blk', csr)
  BY <1>3, <1>4, TypeKept, Zenon DEF SameType
<1>6. AccessInMode'
  BY <1>1, Zenon DEF VBInv, AccessInMode
<1> QED
  BY <1>1, <1>4, <1>5, <1>6, ContinuingKeeps, Zenon

-----------------------------------------------------------------------------
(* The theorems                                                            *)

(* The invariant holds of every behaviour: the key is the key of the       *)
(* registers through vsetvl, the cut of vl by a fault-only-first load,     *)
(* reset and restore; what is known of a block is true where it runs.      *)
THEOREM VBInvariant == VBSpec => []VBInv
<1>1. VBInit => VBInv
  <2> SUFFICES ASSUME VBInit PROVE VBInv
    BY Zenon
  <2>1. csr \in Csrs
    <3>1. csr \in Registers
      BY Zenon DEF VBInit, Registers
    <3> QED
      BY <3>1, RegistersTyped, Zenon
  <2>2. VectorKey(csr) \in 1..127
    BY <2>1, KeyIs, Zenon
  <2>3. StateInv
    <3>1. pmKey = VectorKey(csr) /\ vstart = 0 /\ useTMode = FALSE /\ oldest = FALSE
      BY DEF VBInit
    <3>2. KeyOf(pmKey, csr) /\ ~(pmKey >= PMK_TRANSACTION)
      BY <2>2, <3>1, ClassValues DEF KeyOf
    <3> QED
      BY <2>1, <3>1, <3>2, Zenon DEF StateInv
  <2>4. BlockInv
    BY Zenon DEF VBInit, BlockInv
  <2>5. KnownInv
    BY NoKnowledgeTrue, Zenon DEF VBInit, KnownInv, VStartKnown
  <2>6. AccessInMode
    BY Zenon DEF VBInit, AccessInMode
  <2> QED
    BY <2>3, <2>4, <2>5, <2>6, Zenon DEF VBInv
<1>2. VBInv /\ [VBNext]_vbVars => VBInv'
  <2> SUFFICES ASSUME VBInv, [VBNext]_vbVars PROVE VBInv'
    BY Zenon
  <2>1. CASE UNCHANGED vbVars
    BY <2>1, Zenon DEF vbVars, VBInv, StateInv, BlockInv, KnownInv, VStartKnown, AccessInMode
  <2>2. CASE riscvStartBlock
    BY <2>2, StartKeeps, Zenon
  <2>3. CASE Leave
    BY <2>3, IllegalKeeps, Zenon DEF Leave, Illegal
  <2>4. CASE emitLoadStoreCommonMBO
    BY <2>4, AccessStepKeeps, Zenon
  <2>5. ASSUME NEW i \in VectorInstructions,
               \/ emitCheckVILL(i) \/ IllegalVStart(i)
               \/ VectorZero(i) \/ VectorDone(i) \/ VectorFault(i) \/ handleFF(i)
        PROVE  VBInv'
    BY <2>5, IllegalKeeps, ZeroKeeps, DoneKeeps, FaultKeeps, FFKeeps, Zenon DEF emitCheckVILL, IllegalVStart
  <2>6. ASSUME NEW rs1zero \in BOOLEAN, NEW rdzero \in BOOLEAN, NEW vsew \in VSEWs,
               NEW vlmul \in VLMULs, NEW avl \in (IF rs1zero THEN {0} ELSE AVLs),
               \/ emitVSetVLRRR(rs1zero, rdzero, avl, vsew, vlmul)
               \/ emitVSetVLRRC(rs1zero, rdzero, avl, vsew, vlmul)
        PROVE  VBInv'
    <3>1. avl \in Nat /\ vsew \in 0..7 /\ vlmul \in 0..3
      BY VBAssumption
    <3> QED
      BY <2>6, <3>1, VSetKeeps, Zenon
  <2>7. ASSUME NEW v \in VStarts, NEW immediate \in BOOLEAN, riscvWVStart(v, immediate)
        PROVE  VBInv'
    BY <2>7, WVStartKeeps, Zenon
  <2>8. ASSUME NEW enable \in BOOLEAN, riscvSetTMode(enable)
        PROVE  VBInv'
    BY <2>8, TModeKeeps, Zenon
  <2>9. CASE riscvCSRReset
    <3>1. resetVLVType \in Csrs
      <4>1. (~riscvValidSEW(0)) \in BOOLEAN /\ 0 \in 0..7 /\ 0 \in 0..3 /\ 0 \in Nat
        BY DEF riscvValidSEW
      <4> QED
        BY <4>1, SetTyped, Zenon DEF resetVLVType
    <3>2. vstart' \in Nat
      BY <2>9, Zenon DEF riscvCSRReset, VBInv, StateInv
    <3> QED
      BY <2>9, <3>1, <3>2, ReplaceKeeps, Zenon DEF riscvCSRReset
  <2>10. CASE riscvCSRRestore
    BY <2>10, RegistersTyped, ReplaceKeeps, VBAssumption, Zenon DEF riscvCSRRestore
  <2> QED
    BY <2>1, <2>2, <2>3, <2>4, <2>5, <2>6, <2>7, <2>8, <2>9, <2>10, Zenon DEF VBNext
<1> QED
  BY <1>1, <1>2, PTL DEF VBSpec

(* A block runs only in the configuration it was made for: the polymorphic *)
(* key is the one of vtype and vl, what fillVectorOperationData recorded   *)
(* is true of them, and vstart is zero where the code takes it to be.      *)
THEOREM TranslationStaysCurrent == VBSpec => []TranslationCurrent
<1>1. VBInv => TranslationCurrent
  <2> SUFFICES ASSUME VBInv PROVE TranslationCurrent
    BY Zenon
  <2>1. csr \in Csrs /\ KeyOf(pmKey, csr) /\ TrueOf(blk, csr)
    BY Zenon DEF VBInv, StateInv, KnownInv
  <2>2. pmKey % 256 = VectorKey(csr) /\ pmKey \div 256 \in {0, 128}
    BY <2>1, KeyRange
  <2>3. PMK_TRANSACTION \div 256 = 128
    BY ClassValues
  <2>4. KeyCurrent
    BY <2>2, <2>3, Zenon DEF KeyCurrent
  <2>5. KnowledgeTrue
    BY <2>1, TrueKnowledge, Zenon
  <2> QED
    BY <2>4, <2>5, Zenon DEF TranslationCurrent, VBInv, KnownInv
<1> QED
  BY <1>1, VBInvariant, PTL

(* A load or store goes through the transaction callbacks exactly in       *)
(* transaction mode, though code made before riscvSetTMode was first       *)
(* called has no test for it: the dictionaries are flushed then.           *)
THEOREM AccessesInMode == VBSpec => []AccessInMode
<1>1. VBInv => AccessInMode
  BY Zenon DEF VBInv
<1> QED
  BY <1>1, VBInvariant, PTL

-----------------------------------------------------------------------------
(* A vsetvli that is not executed                                          *)

(* A vsetvli for which emitVSetVLRR0MaxVL or emitVSetVLRR0SameVL generates *)
(* no call would have left vtype and vl as they are.                       *)
THEOREM ElidedSetsHarmless == VBSpec => []ElidedSetHarmless
<1>1. VBInv => ElidedSetHarmless
  <2> SUFFICES ASSUME VBInv, NEW option \in {"SVT_MAX", "SVT_PRESERVE"}, NEW vsew \in VSEWs,
                      NEW vlmul \in VLMULs, riscvValidSEW(vsew),
                      SameConfiguration(option, vsew, vlmul)
               PROVE  handleVSetVLArg1(option, 0, vsew, vlmul) = csr
    BY Zenon DEF ElidedSetHarmless
  <2> DEFINE t == riscvSetVType(csr, FALSE, vsew, vlmul)
  <2>1. csr \in Csrs /\ TrueOf(blk, csr)
    BY Zenon DEF VBInv, StateInv, KnownInv
  <2>2. vsew \in 0..7 /\ vlmul \in 0..3 /\ csr.vsew \in 0..7 /\ csr.vlmul \in 0..3
    BY <2>1, VBAssumption, Zenon DEF Csrs, Types
  <2>3. blk.SEWMt = vsewToSEW(vsew) /\ blk.VLMULMt = vlmulToVLMUL(vlmul) /\ vsewToSEW(vsew) # 0
    BY <2>2, SEWs DEF SameConfiguration
  <2>4. KnowsOf(blk, csr)
    BY <2>1, <2>3, Zenon DEF TrueOf
  <2>5. vsew = csr.vsew /\ vlmul = csr.vlmul /\ csr.vill = FALSE
    <3>1. vsewToSEW(vsew) = vsewToSEW(csr.vsew) /\ vlmulToVLMUL(vlmul) = vlmulToVLMUL(csr.vlmul)
      BY <2>3, <2>4, Zenon DEF KnowsOf
    <3>2. csr.vill = FALSE
      BY <2>1, <2>4, Zenon DEF KnowsOf, Csrs, Types
    <3> QED
      BY <2>2, <3>1, <3>2, SEWInjective, LMULInjective, Zenon
  <2>6. /\ csr = [vill |-> FALSE, vsew |-> vsew, vlmul |-> vlmul, vl |-> csr.vl]
        /\ csr.vl \in Nat /\ csr.vl <= getMaxVL(csr) /\ getMaxVL(csr) \in Nat
    BY <2>1, <2>5, MaxVLNat, Zenon DEF Csrs, Types
  <2>7. t = csr
    BY <2>6, Zenon DEF riscvSetVType
  <2>8. ASSUME NEW vl \in Nat, vl >= csr.vl, vl = csr.vl \/ csr.vl = getMaxVL(csr)
        PROVE  setVLSEWLMULInt(vl, vsew, vlmul) = csr
    <3>1. BMin(vl, getMaxVL(csr)) = csr.vl
      BY <2>6, <2>8 DEF BMin
    <3>2. riscvSetVL(csr, vl) = csr
      BY <2>6, <3>1, Zenon DEF riscvSetVL
    <3> QED
      BY <2>7, <3>2, Zenon DEF setVLSEWLMULInt
  <2>9. CASE option = "SVT_PRESERVE"
    BY <2>6, <2>8, <2>9 DEF handleVSetVLArg1
  <2>10. CASE option = "SVT_MAX"
    <3>1. blk.VLClassMt = VLCLASSMT_MAX
      BY <2>10, Zenon DEF SameConfiguration
    <3>2. csr.vl = getMaxVL(csr)
      BY <2>4, <3>1, ClassValues DEF KnowsOf, ClassOf
    <3>3. (8 * VLENB * vlmulToVLMUL(vlmul)) \div vsewToSEW(vsew) = getMaxVL(csr)
      BY <2>5, Zenon DEF getMaxVL
    <3>4. setVLSEWLMULInt(getMaxVL(csr), vsew, vlmul) = csr
      BY <2>6, <2>8, <3>2, Zenon
    <3> QED
      BY <2>10, <3>3, <3>4, Zenon DEF handleVSetVLArg1, setMaxVLSEWLMUL
  <2> QED
    BY <2>9, <2>10, Zenon
<1> QED
  BY <1>1, VBInvariant, PTL

-----------------------------------------------------------------------------
(* Tails that are not cleared                                              *)

(* Where the elements below vl end in a register of its own, and in q as a *)
(* part of its group.                                                      *)
SingleBytes(c) == (c.vl * (vsewToSEW(c.vsew) \div vlmulToVLMUL(c.vlmul))) \div 8
GroupBytes(c, q) ==
  BytesIn((c.vl * vsewToSEW(c.vsew)) \div 8, q - (q % vlmulToVLMUL(c.vlmul)), q)

(* Top-zero knowledge is of registers there are, and is only gathered by   *)
(* the version that zeroes tails, when vl is known and is not its maximum. *)
TopInv ==
  /\ nz \in [VRegs -> Nat]
  /\ csr.vlmul \in VLMULs \cup {0}
  /\ blk.single \subseteq VRegs /\ blk.group \subseteq VRegs
  /\ blk.single # {} \/ blk.group # {}
       => requireZeroTail /\ KnowsOf(blk, csr) /\ ClassOf(csr) # VLCLASSMT_MAX
  /\ TopZeroKnown

LEMMA InstructionShape ==
  ASSUME NEW i \in VectorInstructions
  PROVE  /\ i.to \in {"V", "P", "S", "X"} /\ i.r \in VRegs
         /\ requireZeroTail => ~isWhole(i)
<1>1. PICK k \in Kinds, q \in VRegs : i = [k EXCEPT !.r = q]
  BY DEF VectorInstructions
<1>2. \/ k = Scalar("S") \/ k = Scalar("X")
      \/ \E to \in {"V", "P"} : \E mem, b : k = Loop(to, mem, b)
      \/ ~requireZeroTail /\ \E w, mem : k = Whole(w, mem)
  BY Zenon DEF Kinds
<1>3. CASE k = Scalar("S") \/ k = Scalar("X")
  <2>1. PICK to \in {"S", "X"} : k = Scalar(to)
    BY <1>3, Zenon
  <2>2. PICK b :
          k = [to |-> to, loop |-> FALSE, whole |-> "NA", mem |-> "no", vs0 |-> FALSE, nochk |-> b,
               r |-> 0]
    BY <2>1, Zenon DEF Scalar
  <2> QED
    BY <1>1, <2>2, Zenon DEF isWhole
<1>4. CASE \E to \in {"V", "P"} : \E mem, b : k = Loop(to, mem, b)
  <2>1. PICK to \in {"V", "P"} : \E mem, b : k = Loop(to, mem, b)
    BY <1>4, Zenon
  <2>2. PICK mem, b : k = Loop(to, mem, b)
    BY <2>1, Zenon
  <2>3. k = [to |-> to, loop |-> TRUE, whole |-> "NA", mem |-> mem, vs0 |-> b, nochk |-> FALSE,
             r |-> 0]
    BY <2>2, Zenon DEF Loop
  <2> QED
    BY <1>1, <2>3, Zenon DEF isWhole
<1>5. CASE ~requireZeroTail /\ \E w, mem : k = Whole(w, mem)
  <2>1. PICK w, mem : k = Whole(w, mem)
    BY <1>5, Zenon
  <2>2. k = [to |-> "V", loop |-> TRUE, whole |-> w, mem |-> mem, vs0 |-> FALSE, nochk |-> FALSE,
             r |-> 0]
    BY <2>1, Zenon DEF Whole
  <2> QED
    BY <1>1, <1>5, <2>2, Zenon
<1> QED
  BY <1>2, <1>3, <1>4, <1>5, Zenon

LEMMA BytesNat ==
  ASSUME NEW a \in Nat, NEW f \in Nat, NEW q \in Nat
  PROVE  BytesIn(a, f, q) \in Nat
<1>1. VLENB * (q - f) \in Int
  BY VBAssumption
<1>2. a - VLENB * (q - f) \in Int
  BY <1>1
<1>3. BMin(VLENB, a - VLENB * (q - f)) \in Int
  BY <1>2, VBAssumption DEF BMin
<1> QED
  BY <1>3 DEF BytesIn, BMax

LEMMA OccupiedNat ==
  ASSUME csr \in Csrs, NEW i \in VectorInstructions, NEW b, KnowsOf(b, csr), NEW n \in Nat,
         NEW q \in VRegs
  PROVE  Occupied(i, b, n)[q] \in Nat
<1>1. b.SEWMt \in Nat \ {0} /\ b.VLMULMt \in Nat \ {0}
  BY SEWPositive, Zenon DEF KnowsOf, Csrs
<1>2. i.r \in Nat /\ q \in Nat
  <2>1. i.r \in VRegs
    BY InstructionShape, Zenon
  <2> QED
    BY <2>1, VBAssumption, Zenon
<1>3. (n * b.SEWMt) \div 8 \in Nat
  BY <1>1, ProductNat, QuotientNat
<1>4. BytesIn((n * b.SEWMt) \div 8, i.r, q) \in Nat
  BY <1>2, <1>3, BytesNat, Zenon
<1>5. b.SEWMt \div b.VLMULMt \in Nat
  BY <1>1, QuotientNat, Zenon
<1>6. (n * (b.SEWMt \div b.VLMULMt)) \div 8 \in Nat
  BY <1>5, ProductNat, QuotientNat
<1> QED
  BY <1>4, <1>6, Zenon DEF Occupied

LEMMA OccupiedOutside ==
  ASSUME NEW i \in VectorInstructions, NEW b, NEW n, NEW q \in VRegs, q \notin Targets(i, b)
  PROVE  Occupied(i, b, n)[q] = 0
BY InstructionShape, Zenon DEF Occupied, Targets

(* The registers after the body, written or not. *)
LEMMA BodyNat ==
  ASSUME csr \in Csrs, nz \in [VRegs -> Nat], NEW i \in VectorInstructions, NEW b,
         requireZeroTail => KnowsOf(b, csr), NEW n \in Nat
  PROVE  BodyDone(i, b, n) \in [VRegs -> Nat]
<1>1. CASE ~requireZeroTail
  BY <1>1, Zenon DEF BodyDone
<1>2. CASE requireZeroTail
  <2>1. b.SEWMt \div 8 \in Nat
    BY <1>2, SEWPositive, QuotientNat DEF KnowsOf, Csrs
  <2>2. ASSUME NEW q \in VRegs
        PROVE  BMax(nz[q], Occupied(i, b, n)[q]) \in Nat
    BY <1>2, OccupiedNat, Zenon DEF BMax
  <2>3. Written(i, b, n) \in [VRegs -> Nat]
    BY <2>2, Zenon DEF Written
  <2>4. [nz EXCEPT ![i.r] = b.SEWMt \div 8] \in [VRegs -> Nat]
    BY <2>1, Zenon
  <2> QED
    BY <2>3, <2>4, Zenon DEF BodyDone
<1> QED
  BY <1>1, <1>2, Zenon

(* A register of an aligned group starts where the group does. *)
LEMMA GroupStart ==
  ASSUME NEW r \in Nat, NEW q \in Nat, NEW m \in {1, 2, 4, 8}, r % m = 0, r <= q, q <= r + m - 1
  PROVE  q - (q % m) = r
<1>1. CASE m = 1
  BY <1>1
<1>2. CASE m = 2
  BY <1>2
<1>3. CASE m = 4
  BY <1>3
<1>4. CASE m = 8
  BY <1>4
<1> QED
  BY <1>1, <1>2, <1>3, <1>4, Zenon

(* What an instruction writes lies below the bound of its view. *)
LEMMA OccupiedWithin ==
  ASSUME csr \in Csrs, csr.vlmul \in VLMULs \cup {0}, NEW i \in VectorInstructions, NEW b,
         KnowsOf(b, csr), i.to = "V" => i.r % b.VLMULMt = 0, NEW q \in Targets(i, b)
  PROVE  /\ q \in VRegs
         /\ SingleView(i, b) => Occupied(i, b, csr.vl)[q] <= SingleBytes(csr)
         /\ ~SingleView(i, b) => Occupied(i, b, csr.vl)[q] <= GroupBytes(csr, q)
<1> DEFINE S == vsewToSEW(csr.vsew)
           L == vlmulToVLMUL(csr.vlmul)
           N == (csr.vl * S) \div 8
<1>1. b.SEWMt = S /\ b.VLMULMt = L /\ csr.vl \in Nat
  BY Zenon DEF KnowsOf, Csrs, Types
<1>2. S \in Nat \ {0} /\ L \in {1, 2, 4, 8}
  BY SEWPositive, LMULs, Zenon DEF Csrs, Types
<1>3. i.r \in VRegs /\ i.r \in Nat /\ i.to \in {"V", "P", "S", "X"}
  BY InstructionShape, VBAssumption, Zenon
<1>4. N \in Nat
  BY <1>1, <1>2, ProductNat, QuotientNat
<1>5. CASE i.to = "P"
  <2>1. q = i.r /\ SingleView(i, b)
    BY <1>5, Zenon DEF Targets, SingleView
  <2>2. Occupied(i, b, csr.vl)[q] = SingleBytes(csr)
    BY <1>1, <1>3, <1>5, <2>1, Zenon DEF Occupied, SingleBytes
  <2>3. SingleBytes(csr) \in Nat
    <3>1. S \div L \in Nat
      BY <1>2, QuotientNat
    <3> QED
      BY <1>1, <3>1, ProductNat, QuotientNat DEF SingleBytes
  <2> QED
    BY <1>3, <2>1, <2>2, <2>3
<1>6. CASE i.to = "V"
  <2>1. q \in i.r..(i.r + L - 1) /\ i.r % L = 0
    BY <1>1, <1>6, Zenon DEF Targets, Group
  <2>2. q \in VRegs
    <3>1. CASE csr.vlmul \in VLMULs
      BY <1>3, <2>1, <3>1, WholeGroups, Zenon
    <3>2. CASE csr.vlmul = 0
      <4>1. L = 1
        BY <3>2, LMULs
      <4> QED
        BY <1>3, <2>1, <4>1
    <3> QED
      BY <3>1, <3>2, Zenon
  <2>3. Occupied(i, b, csr.vl)[q] = BytesIn(N, i.r, q)
    BY <1>1, <1>6, <2>1, <2>2, Zenon DEF Occupied, Group
  <2>6. q \in Nat
    BY <2>2, VBAssumption, Zenon
  <2>4. CASE L = 1
    <3>1. q = i.r /\ SingleView(i, b)
      BY <1>1, <1>3, <2>1, <2>4 DEF SingleView
    <3>2. VLENB * (q - i.r) = 0
      BY <1>3, <3>1, VBAssumption
    <3>3. BytesIn(N, i.r, q) <= N
      BY <1>4, <3>2, VBAssumption DEF BytesIn, BMax, BMin
    <3>4. S \div L = S
      BY <1>2, <2>4
    <3>5. SingleBytes(csr) = N
      BY <3>4, Zenon DEF SingleBytes
    <3> QED
      BY <2>2, <2>3, <3>1, <3>3, <3>5, Zenon
  <2>5. CASE L # 1
    <3>1. ~SingleView(i, b)
      BY <1>1, <1>6, <2>5, Zenon DEF SingleView
    <3>2. q - (q % L) = i.r
      <4>1. ASSUME NEW m \in {1, 2, 4, 8}, m = L
            PROVE  q - (q % m) = i.r
        <5>1. i.r % m = 0 /\ i.r <= q /\ q <= i.r + m - 1
          BY <1>3, <2>1, <4>1
        <5> QED
          BY <1>3, <2>6, <5>1, GroupStart, Zenon
      <4> QED
        BY <1>2, <4>1, Zenon
    <3>3. GroupBytes(csr, q) = BytesIn(N, i.r, q)
      BY <3>2, Zenon DEF GroupBytes
    <3>4. BytesIn(N, i.r, q) \in Nat
      BY <1>3, <1>4, <2>6, BytesNat, Zenon
    <3> QED
      BY <2>2, <2>3, <3>1, <3>3, <3>4
  <2> QED
    BY <2>4, <2>5, Zenon
<1>7. CASE i.to \in {"S", "X"}
  BY <1>7, Zenon DEF Targets
<1> QED
  BY <1>3, <1>5, <1>6, <1>7, Zenon

LEMMA BoundsNat ==
  ASSUME csr \in Csrs
  PROVE  SingleBytes(csr) \in Nat /\ \A q \in VRegs : GroupBytes(csr, q) \in Nat
<1> DEFINE S == vsewToSEW(csr.vsew)
           L == vlmulToVLMUL(csr.vlmul)
<1>1. S \in Nat \ {0} /\ L \in {1, 2, 4, 8} /\ csr.vl \in Nat
  BY SEWPositive, LMULs, Zenon DEF Csrs, Types
<1>2. S \div L \in Nat
  BY <1>1, QuotientNat
<1>3. SingleBytes(csr) \in Nat
  BY <1>1, <1>2, ProductNat, QuotientNat DEF SingleBytes
<1>4. (csr.vl * S) \div 8 \in Nat
  BY <1>1, ProductNat, QuotientNat
<1>5. ASSUME NEW q \in VRegs PROVE GroupBytes(csr, q) \in Nat
  <2>1. q \in Nat
    BY VBAssumption, Zenon
  <2>2. ASSUME NEW m \in {1, 2, 4, 8} PROVE q - (q % m) \in Nat
    BY <2>1
  <2>3. q - (q % L) \in Nat
    BY <1>1, <2>2, Zenon
  <2> QED
    BY <1>4, <2>1, <2>3, BytesNat, Zenon DEF GroupBytes
<1> QED
  BY <1>3, <1>5, Zenon

(* Where no top-zero knowledge is left. *)
LEMMA TopLeft ==
  ASSUME nz' \in [VRegs -> Nat], csr'.vlmul \in VLMULs \cup {0}, blk' = NoKnowledge
  PROVE  TopInv'
<1>1. blk'.single = {} /\ blk'.group = {}
  BY Zenon DEF NoKnowledge
<1> QED
  BY <1>1, Zenon DEF TopInv, TopZeroKnown

(* Register contents n, knowledge e and scalar history s agree. *)
TopOf(n, e, s) ==
  /\ n \in [VRegs -> Nat]
  /\ e.single \subseteq VRegs /\ e.group \subseteq VRegs
  /\ e.single # {} \/ e.group # {}
       => requireZeroTail /\ KnowsOf(e, csr) /\ ClassOf(csr) # VLCLASSMT_MAX
  /\ \A q \in e.single \ s : n[q] <= SingleBytes(csr)
  /\ \A q \in e.group : n[q] <= GroupBytes(csr, q)

LEMMA TopInvIs ==
  TopInv <=> csr.vlmul \in VLMULs \cup {0} /\ TopOf(nz, blk, byScalar)
BY Zenon DEF TopInv, TopOf, TopZeroKnown, SingleBytes, GroupBytes

LEMMA TopContinues ==
  ASSUME csr.vlmul \in VLMULs \cup {0}, UNCHANGED <<version, csr>>, TopOf(nz', blk', byScalar')
  PROVE  TopInv'
<1>1. requireZeroTail' = requireZeroTail
  BY Zenon DEF requireZeroTail
<1> QED
  BY <1>1, Zenon DEF TopInv, TopOf, TopZeroKnown, SingleBytes, GroupBytes, KnowsOf, ClassOf

LEMMA TopSame ==
  ASSUME NEW n, NEW e, NEW f, NEW s, TopOf(n, e, s), f.single = e.single, f.group = e.group,
         KnowsOf(e, csr) => KnowsOf(f, csr)
  PROVE  TopOf(n, f, s)
BY Zenon DEF TopOf

(* The tail of a vector or predicate destination is cleared, or needs not  *)
(* be: `file' is what the body left.                                       *)
LEMMA TailDone ==
  ASSUME csr \in Csrs, csr.vlmul \in VLMULs \cup {0}, NEW i \in VectorInstructions,
         i.to \in {"V", "P"}, NEW b, Shaped(b), KnowsOf(b, csr), TopOf(nz, b, byScalar),
         i.to = "V" => i.r % b.VLMULMt = 0,
         TopZeros(i, b), ClassOf(csr) # VLCLASSMT_MAX,
         NEW file \in [VRegs -> Nat],
         \A q \in VRegs : file[q] = nz[q]
                            \/ file[q] = BMax(nz[q], Occupied(i, b, csr.vl)[q])
  PROVE  TopOf(zeroVdPdTop(i, b, file), endVectorOp(i, b), byScalarAfter(i, b))
<1> DEFINE T == Targets(i, b)
           n == zeroVdPdTop(i, b, file)
           e == endVectorOp(i, b)
           s == byScalarAfter(i, b)
           occ(q) == Occupied(i, b, csr.vl)[q]
<1>1. nz \in [VRegs -> Nat] /\ b.single \subseteq VRegs /\ b.group \subseteq VRegs
  BY Zenon DEF TopOf
<1>2. csr.vl \in Nat /\ i.to # "S" /\ requireZeroTail
  BY Zenon DEF Csrs, Types, TopZeros
<1>3. \A q \in VRegs : occ(q) \in Nat
  BY <1>2, OccupiedNat, Zenon
<1>4. T \subseteq VRegs
  BY OccupiedWithin, Zenon
<1>5. \A q \in T : /\ SingleView(i, b) => occ(q) <= SingleBytes(csr)
                   /\ ~SingleView(i, b) => occ(q) <= GroupBytes(csr, q)
  BY OccupiedWithin, Zenon
<1>6. \A q \in VRegs \ T : occ(q) = 0
  BY OccupiedOutside
<1> HIDE DEF occ
<1>7. \A q \in VRegs : file[q] = nz[q] \/ file[q] = BMax(nz[q], occ(q))
  BY Zenon DEF occ
<1>8. n = IF TopUnknown(i, b)
          THEN [q \in VRegs |-> IF q \in T THEN BMin(file[q], occ(q)) ELSE file[q]]
          ELSE file
  BY <1>2, Zenon DEF zeroVdPdTop, occ
<1>9. s = IF TopUnknown(i, b) THEN byScalar \ T ELSE byScalar
  BY <1>2, Zenon DEF byScalarAfter
<1>10. e = requireTopZero(i, b)
  BY <1>2, Zenon DEF endVectorOp
<1>11. e = IF SingleView(i, b)
           THEN [SEWMt |-> b.SEWMt, VLMULMt |-> b.VLMULMt, VLClassMt |-> b.VLClassMt,
                 VStartZeroMt |-> b.VStartZeroMt, single |-> b.single \cup T,
                 group |-> b.group \ T]
           ELSE [SEWMt |-> b.SEWMt, VLMULMt |-> b.VLMULMt, VLClassMt |-> b.VLClassMt,
                 VStartZeroMt |-> b.VStartZeroMt, single |-> b.single \ T,
                 group |-> b.group \cup T]
  BY <1>10, Zenon DEF requireTopZero, Shaped
<1>12. /\ e.single = IF SingleView(i, b) THEN b.single \cup T ELSE b.single \ T
       /\ e.group = IF SingleView(i, b) THEN b.group \ T ELSE b.group \cup T
       /\ KnowsOf(e, csr)
  BY <1>11 DEF KnowsOf
<1>13. TopUnknown(i, b) \/ T \subseteq (IF SingleView(i, b) THEN b.single ELSE b.group)
  BY Zenon DEF TopUnknown
<1> HIDE DEF n, e, s, T
<1>14. n \in [VRegs -> Nat]
  <2>1. ASSUME NEW q \in VRegs PROVE BMin(file[q], occ(q)) \in Nat
    BY <1>3, Zenon DEF BMin
  <2> QED
    BY <1>8, <2>1, Zenon
<1>15. ASSUME NEW q \in VRegs \ T
       PROVE  n[q] = nz[q]
  <2>1. file[q] = nz[q]
    BY <1>1, <1>6, <1>7 DEF BMax
  <2> QED
    BY <1>8, <2>1, Zenon
<1>16. ASSUME NEW q \in T
       PROVE  \/ n[q] <= occ(q)
              \/ ~TopUnknown(i, b) /\ n[q] <= nz[q]
  <2>1. q \in VRegs /\ occ(q) \in Nat /\ nz[q] \in Nat /\ file[q] \in Nat
    BY <1>1, <1>3, <1>4, <1>16, Zenon
  <2>2. CASE TopUnknown(i, b)
    <3>1. n[q] = BMin(file[q], occ(q))
      BY <1>8, <1>16, <2>1, <2>2, Zenon
    <3> QED
      BY <2>1, <3>1 DEF BMin
  <2>3. CASE ~TopUnknown(i, b)
    <3>1. n[q] = nz[q] \/ n[q] = BMax(nz[q], occ(q))
      BY <1>7, <1>8, <2>1, <2>3, Zenon
    <3> QED
      BY <2>1, <2>3, <3>1 DEF BMax
  <2> QED
    BY <2>2, <2>3, Zenon
<1>17. SingleBytes(csr) \in Nat /\ \A q \in VRegs : GroupBytes(csr, q) \in Nat
  BY BoundsNat, Zenon
<1>18. ASSUME NEW q \in e.single \ s
       PROVE  n[q] <= SingleBytes(csr)
  <2>1. CASE q \in T
    <3>1. SingleView(i, b)
      BY <1>12, <1>18, <2>1, Zenon
    <3>2. q \in VRegs /\ occ(q) <= SingleBytes(csr)
      BY <1>4, <1>5, <2>1, <3>1, Zenon DEF occ
    <3>3. CASE n[q] <= occ(q)
      BY <1>3, <1>14, <1>17, <3>2, <3>3
    <3>4. CASE ~TopUnknown(i, b) /\ n[q] <= nz[q]
      <4>1. q \in b.single \ byScalar
        BY <1>9, <1>13, <1>18, <2>1, <3>1, <3>4, Zenon
      <4>2. nz[q] <= SingleBytes(csr)
        BY <4>1, Zenon DEF TopOf
      <4> QED
        BY <1>1, <1>14, <1>17, <3>2, <3>4, <4>2
    <3> QED
      BY <1>16, <2>1, <3>3, <3>4, Zenon
  <2>2. CASE q \notin T
    <3>1. q \in b.single \ byScalar
      BY <1>9, <1>12, <1>18, <2>2, Zenon
    <3>2. n[q] = nz[q]
      BY <1>1, <1>15, <2>2, <3>1, Zenon
    <3> QED
      BY <3>1, <3>2, Zenon DEF TopOf
  <2> QED
    BY <2>1, <2>2, Zenon
<1>19. ASSUME NEW q \in e.group
       PROVE  n[q] <= GroupBytes(csr, q)
  <2>1. CASE q \in T
    <3>1. ~SingleView(i, b)
      BY <1>12, <1>19, <2>1, Zenon
    <3>2. q \in VRegs /\ occ(q) <= GroupBytes(csr, q)
      BY <1>4, <1>5, <2>1, <3>1, Zenon DEF occ
    <3>3. CASE n[q] <= occ(q)
      BY <1>3, <1>14, <1>17, <3>2, <3>3
    <3>4. CASE ~TopUnknown(i, b) /\ n[q] <= nz[q]
      <4>1. q \in b.group
        BY <1>13, <2>1, <3>1, <3>4, Zenon
      <4>2. nz[q] <= GroupBytes(csr, q)
        BY <4>1, Zenon DEF TopOf
      <4> QED
        BY <1>1, <1>14, <1>17, <3>2, <3>4, <4>2
    <3> QED
      BY <1>16, <2>1, <3>3, <3>4, Zenon
  <2>2. CASE q \notin T
    <3>1. q \in b.group
      BY <1>12, <1>19, <2>2, Zenon
    <3>2. n[q] = nz[q]
      BY <1>1, <1>15, <2>2, <3>1, Zenon
    <3> QED
      BY <3>1, <3>2, Zenon DEF TopOf
  <2> QED
    BY <2>1, <2>2, Zenon
<1>20. e.single \subseteq VRegs /\ e.group \subseteq VRegs
  BY <1>1, <1>4, <1>12, Zenon
<1>21. TopOf(n, e, s)
  BY <1>2, <1>12, <1>14, <1>18, <1>19, <1>20, Zenon DEF TopOf
<1> QED
  BY <1>21, Zenon DEF n, e, s

LEMMA ScalarTopZero ==
  ASSUME NEW i, NEW b, Shaped(b)
  PROVE  updateScalarTopZero(i, b) =
           [SEWMt |-> b.SEWMt, VLMULMt |-> b.VLMULMt, VLClassMt |-> b.VLClassMt,
            VStartZeroMt |-> b.VStartZeroMt, single |-> b.single \cup {i.r},
            group |-> b.group \ {i.r}]
<1> DEFINE s == b.single \cup {i.r}
           g == b.group \ {i.r}
<1>1. updateScalarTopZero(i, b) = [b EXCEPT !.single = s, !.group = g]
  BY Zenon DEF updateScalarTopZero
<1> HIDE DEF s, g
<1>2. updateScalarTopZero(i, b) =
        [SEWMt |-> b.SEWMt, VLMULMt |-> b.VLMULMt, VLClassMt |-> b.VLClassMt,
         VStartZeroMt |-> b.VStartZeroMt, single |-> s, group |-> g]
  BY <1>1, Zenon DEF Shaped
<1> QED
  BY <1>2, Zenon DEF s, g

(* The registers and knowledge VectorDone leaves. *)
LEMMA OpDone ==
  ASSUME csr \in Csrs, csr.vlmul \in VLMULs \cup {0}, NEW i \in VectorInstructions, NEW b,
         Shaped(b), ~isWhole(i) => KnowsOf(b, csr), TopOf(nz, b, byScalar),
         i.to = "V" /\ ~isWhole(i) => i.r % b.VLMULMt = 0,
         NEW file, file = nz \/ file = BodyDone(i, b, Limit(i))
  PROVE  TopOf(zeroVdPdTop(i, b, file), endVectorOp(i, b), byScalarAfter(i, b))
<1>1. nz \in [VRegs -> Nat] /\ i.to \in {"V", "P", "S", "X"} /\ i.r \in VRegs
  BY InstructionShape, Zenon DEF TopOf
<1>2. CASE ~requireZeroTail
  <2>1. file = nz /\ ~TopZeros(i, b)
    BY <1>2, Zenon DEF BodyDone, TopZeros
  <2> QED
    BY <2>1, Zenon DEF zeroVdPdTop, endVectorOp, byScalarAfter
<1>3. CASE requireZeroTail
  <2>1. ~isWhole(i) /\ KnowsOf(b, csr)
    BY <1>3, InstructionShape, Zenon
  <2>2. Limit(i) = csr.vl /\ csr.vl \in Nat /\ Class(i, b) = ClassOf(csr)
    BY <2>1, Zenon DEF Limit, Class, KnowsOf, Csrs, Types
  <2>3. BodyDone(i, b, csr.vl) \in [VRegs -> Nat]
    BY <1>1, <2>1, <2>2, BodyNat, Zenon
  <2>4. file \in [VRegs -> Nat]
    BY <1>1, <2>2, <2>3, Zenon
  <2>5. CASE ClassOf(csr) = VLCLASSMT_MAX \/ i.to = "X"
    <3>1. ~TopZeros(i, b)
      BY <2>2, <2>5, Zenon DEF TopZeros
    <3>2. zeroVdPdTop(i, b, file) = file /\ endVectorOp(i, b) = b /\ byScalarAfter(i, b) = byScalar
      BY <3>1, Zenon DEF zeroVdPdTop, endVectorOp, byScalarAfter
    <3>3. CASE ClassOf(csr) = VLCLASSMT_MAX
      BY <2>4, <3>2, <3>3, Zenon DEF TopOf
    <3>4. CASE i.to = "X"
      <4>1. ASSUME NEW q \in VRegs PROVE Written(i, b, csr.vl)[q] = nz[q]
        <5>1. Occupied(i, b, csr.vl)[q] = 0
          BY <3>4, OccupiedOutside, Zenon DEF Targets
        <5> QED
          BY <1>1, <5>1 DEF Written, BMax
      <4>2. ASSUME NEW q \in VRegs PROVE file[q] = nz[q]
        BY <1>3, <2>2, <3>4, <4>1, Zenon DEF BodyDone
      <4> QED
        BY <2>4, <3>2, <4>2, Zenon DEF TopOf
    <3> QED
      BY <2>5, <3>3, <3>4, Zenon
  <2>6. CASE ClassOf(csr) # VLCLASSMT_MAX /\ i.to = "S"
    <3>1. TopZeros(i, b)
      BY <1>3, <2>2, <2>6, Zenon DEF TopZeros
    <3>2. /\ zeroVdPdTop(i, b, file) = file
          /\ endVectorOp(i, b) = updateScalarTopZero(i, b)
          /\ byScalarAfter(i, b) = byScalar \cup {i.r}
      BY <2>6, <3>1, Zenon DEF zeroVdPdTop, endVectorOp, byScalarAfter
    <3>3. updateScalarTopZero(i, b) =
            [SEWMt |-> b.SEWMt, VLMULMt |-> b.VLMULMt, VLClassMt |-> b.VLClassMt,
             VStartZeroMt |-> b.VStartZeroMt, single |-> b.single \cup {i.r},
             group |-> b.group \ {i.r}]
      BY ScalarTopZero, Zenon
    <3>4. /\ updateScalarTopZero(i, b).single = b.single \cup {i.r}
          /\ updateScalarTopZero(i, b).group = b.group \ {i.r}
          /\ KnowsOf(updateScalarTopZero(i, b), csr)
      BY <2>1, <3>3 DEF KnowsOf
    <3>5. ASSUME NEW q \in VRegs \ {i.r} PROVE file[q] = nz[q]
      BY <1>1, <1>3, <2>2, <2>6, Zenon DEF BodyDone
    <3>6. ASSUME NEW q \in (b.single \cup {i.r}) \ (byScalar \cup {i.r})
          PROVE  file[q] <= SingleBytes(csr)
      <4>1. q \in b.single \ byScalar /\ q # i.r
        BY <3>6, Zenon
      <4>2. q \in VRegs \ {i.r} /\ nz[q] <= SingleBytes(csr)
        BY <4>1, Zenon DEF TopOf
      <4> QED
        BY <3>5, <4>2, Zenon
    <3>7. ASSUME NEW q \in b.group \ {i.r}
          PROVE  file[q] <= GroupBytes(csr, q)
      BY <3>5, <3>7, Zenon DEF TopOf
    <3>8. b.single \cup {i.r} \subseteq VRegs /\ b.group \ {i.r} \subseteq VRegs
      BY <1>1, Zenon DEF TopOf
    <3>9. TopOf(file, updateScalarTopZero(i, b), byScalar \cup {i.r})
      BY <1>3, <2>4, <2>6, <3>4, <3>6, <3>7, <3>8, Zenon DEF TopOf
    <3> QED
      BY <3>2, <3>9, Zenon
  <2>7. CASE ClassOf(csr) # VLCLASSMT_MAX /\ i.to \in {"V", "P"}
    <3>1. TopZeros(i, b)
      BY <1>3, <2>2, <2>7, Zenon DEF TopZeros
    <3>2. ASSUME NEW q \in VRegs
          PROVE  file[q] = nz[q] \/ file[q] = BMax(nz[q], Occupied(i, b, csr.vl)[q])
      <4>1. file = nz \/ file = Written(i, b, csr.vl)
        BY <2>2, <2>7, <1>3, Zenon DEF BodyDone
      <4> QED
        BY <4>1, Zenon DEF Written
    <3> QED
      BY <2>1, <2>4, <2>7, <3>1, <3>2, TailDone, Zenon
  <2> QED
    BY <1>1, <2>5, <2>6, <2>7, Zenon
<1> QED
  BY <1>2, <1>3, Zenon

LEMMA TopDone ==
  ASSUME VBInv, TopInv, NEW i \in VectorInstructions, VectorDone(i)
  PROVE  TopInv'
<1> DEFINE b == handleNonZeroVStart(i, Known(i))
           z == Known(i).VStartZeroMt /\ ~i.loop
           file == IF Skips(i, Known(i)) THEN nz ELSE BodyDone(i, b, Limit(i))
           e == endVectorOp(i, b)
<1>1. /\ Shaped(Known(i)) /\ (~isWhole(i) => KnowsOf(Known(i), csr))
      /\ Known(i).single = blk.single /\ Known(i).group = blk.group
  BY KnownTrue, Zenon DEF VectorDone
<1>2. z \in BOOLEAN
  BY Zenon
<1>3. b = [Known(i) EXCEPT !.VStartZeroMt = z]
  BY Zenon DEF handleNonZeroVStart
<1>4. SameType(Known(i), b) /\ b.single = blk.single /\ b.group = blk.group
  <2> HIDE DEF b, z
  <2>1. SameType(Known(i), b) /\ b.single = Known(i).single /\ b.group = Known(i).group
    BY <1>1, <1>2, <1>3, VStartOnly, Zenon
  <2> QED
    BY <1>1, <2>1, Zenon
<1>5. i.to = "V" /\ ~isWhole(i) => i.r % Known(i).VLMULMt = 0
  BY Zenon DEF VectorDone, Executes, Aligned
<1>6. /\ nz' = zeroVdPdTop(i, b, file)
      /\ Continue(i.mem = "ff" \/ (i.mem # "no" /\ inTransactionMode), setVStartZero(e),
                  byScalarAfter(i, b))
      /\ UNCHANGED <<version, csr>>
  BY Zenon DEF VectorDone, Access
<1>7. file = nz \/ file = BodyDone(i, b, Limit(i))
  BY Zenon
<1> HIDE DEF b, file
<1>8. ~isWhole(i) => KnowsOf(b, csr)
  BY <1>1, <1>4, TypeKept, Zenon
<1>9. csr \in Csrs /\ csr.vlmul \in VLMULs \cup {0} /\ TopOf(nz, blk, byScalar)
  BY TopInvIs, Zenon DEF VBInv, StateInv
<1>10. TopOf(nz, b, byScalar)
  <2>1. CASE isWhole(i)
    <3>1. ~requireZeroTail
      BY <2>1, InstructionShape, Zenon
    <3>2. blk.single = {} /\ blk.group = {}
      BY <1>9, <3>1, Zenon DEF TopOf
    <3> QED
      BY <1>4, <1>9, <3>2, Zenon DEF TopOf
  <2>2. CASE ~isWhole(i)
    BY <1>4, <1>8, <1>9, <2>2, TopSame, Zenon
  <2> QED
    BY <2>1, <2>2, Zenon
<1>11. Shaped(b) /\ b.VLMULMt = Known(i).VLMULMt
  BY <1>4, Zenon DEF SameType
<1>12. TopOf(nz', e, byScalarAfter(i, b))
  BY <1>5, <1>6, <1>7, <1>8, <1>9, <1>10, <1>11, OpDone, Zenon
<1>13. SameType(b, e)
  BY <1>11, TopZeroOnly, Zenon
<1> HIDE DEF e
<1>14. /\ SameType(e, setVStartZero(e))
       /\ setVStartZero(e).single = e.single /\ setVStartZero(e).group = e.group
  BY <1>13, VStartOnly, Zenon DEF SameType, setVStartZero
<1>15. TopOf(nz', setVStartZero(e), byScalarAfter(i, b))
  BY <1>12, <1>14, TypeKept, TopSame, Zenon
<1>16. CASE EndBlock
  <2>1. nz' \in [VRegs -> Nat] /\ blk' = NoKnowledge
    BY <1>12, <1>16, Zenon DEF TopOf, EndBlock
  <2> QED
    BY <1>6, <1>9, <2>1, TopLeft, Zenon
<1>17. CASE blk' = setVStartZero(e) /\ byScalar' = byScalarAfter(i, b)
  BY <1>6, <1>9, <1>15, <1>17, TopContinues, Zenon
<1> QED
  BY <1>6, <1>16, <1>17, Zenon DEF Continue

LEMMA TopZeroOp ==
  ASSUME VBInv, TopInv, NEW i \in VectorInstructions, VectorZero(i)
  PROVE  TopInv'
<1>1. Executes(i) /\ Empty(i)
  BY DEF VectorZero
<1>2. ~isWhole(i)
  BY <1>1, ClassValues DEF Empty, Class
<1>3. /\ Shaped(Known(i)) /\ KnowsOf(Known(i), csr)
      /\ Known(i).single = blk.single /\ Known(i).group = blk.group
  BY <1>1, <1>2, KnownTrue, Zenon
<1>4. /\ blk' = setVStartZero(Known(i)) /\ byScalar' = byScalar /\ nz' = nz
      /\ UNCHANGED <<version, csr>>
  BY Zenon DEF VectorZero, Continue
<1>5. /\ SameType(Known(i), blk')
      /\ blk'.single = Known(i).single /\ blk'.group = Known(i).group
  BY <1>3, <1>4, VStartOnly, Zenon DEF setVStartZero
<1>6. KnowsOf(blk', csr)
  BY <1>3, <1>5, TypeKept, Zenon
<1>7. csr.vlmul \in VLMULs \cup {0} /\ TopOf(nz, blk, byScalar)
  BY TopInvIs, Zenon
<1>8. TopOf(nz', blk', byScalar')
  BY <1>3, <1>4, <1>5, <1>6, <1>7, TopSame, Zenon
<1> QED
  BY <1>4, <1>7, <1>8, TopContinues, Zenon

(* Only vstart becomes known, or unknown. *)
LEMMA TopVStart ==
  ASSUME VBInv, TopInv, NEW v \in BOOLEAN, blk' = [blk EXCEPT !.VStartZeroMt = v],
         UNCHANGED <<version, csr, nz, byScalar>>
  PROVE  TopInv'
<1>1. Shaped(blk)
  BY Zenon DEF VBInv, KnownInv
<1>2. SameType(blk, blk') /\ blk'.single = blk.single /\ blk'.group = blk.group
  BY <1>1, VStartOnly, Zenon
<1>3. csr.vlmul \in VLMULs \cup {0} /\ TopOf(nz, blk, byScalar)
  BY TopInvIs, Zenon
<1>4. TopOf(nz', blk', byScalar')
  BY <1>2, <1>3, TypeKept, TopSame, Zenon
<1> QED
  BY <1>3, <1>4, TopContinues, Zenon

(* An exception or a cut of vl: elements below k have been written. *)
LEMMA TopFault ==
  ASSUME VBInv, TopInv, NEW i \in VectorInstructions, Executes(i), NEW k \in FaultsAt(i),
         nz' = BodyDone(i, Known(i), k), csr'.vlmul = csr.vlmul, EndBlock
  PROVE  TopInv'
<1>1. csr \in Csrs /\ nz \in [VRegs -> Nat] /\ csr.vlmul \in VLMULs \cup {0}
  BY Zenon DEF VBInv, StateInv, TopInv
<1>2. requireZeroTail => KnowsOf(Known(i), csr)
  BY KnownTrue, InstructionShape, Zenon
<1>3. nz' \in [VRegs -> Nat]
  BY <1>1, <1>2, FaultNat, BodyNat, Zenon
<1> QED
  BY <1>1, <1>3, TopLeft, Zenon DEF EndBlock

LEMMA SetVLGroup ==
  ASSUME NEW vl, NEW vsew, NEW vlmul \in VLMULs
  PROVE  setVLSEWLMULInt(vl, vsew, vlmul).vlmul \in VLMULs \cup {0}
BY Zenon DEF setVLSEWLMULInt, riscvSetVL, riscvSetVType

LEMMA ConfiguredGroup ==
  ASSUME NEW option \in {"SVT_SET", "SVT_MAX", "SVT_PRESERVE"}, NEW avl, NEW vsew,
         NEW vlmul \in VLMULs
  PROVE  handleVSetVLArg1(option, avl, vsew, vlmul).vlmul \in VLMULs \cup {0}
<1>1. CASE option = "SVT_SET"
  BY <1>1, SetVLGroup, Zenon DEF handleVSetVLArg1
<1>2. CASE option = "SVT_MAX"
  BY <1>2, SetVLGroup, Zenon DEF handleVSetVLArg1, setMaxVLSEWLMUL
<1>3. CASE option = "SVT_PRESERVE"
  BY <1>3, SetVLGroup, Zenon DEF handleVSetVLArg1
<1> QED
  BY <1>1, <1>2, <1>3, Zenon

LEMMA TopOutside ==
  ASSUME VBInv, TopInv, ~live, csr'.vlmul \in VLMULs \cup {0}, UNCHANGED <<nz, blk>>
  PROVE  TopInv'
BY TopLeft, Zenon DEF VBInv, KnownInv, TopInv

LEMMA TopEnds ==
  ASSUME TopInv, EndBlock, csr'.vlmul \in VLMULs \cup {0}, nz' = nz
  PROVE  TopInv'
BY TopLeft, Zenon DEF TopInv, EndBlock

LEMMA TopStep ==
  ASSUME VBInv, TopInv, [VBNext]_vbVars
  PROVE  TopInv'
<1>1. nz \in [VRegs -> Nat] /\ csr.vlmul \in VLMULs \cup {0} /\ TopOf(nz, blk, byScalar)
  BY TopInvIs, Zenon DEF TopInv
<1>2. CASE UNCHANGED <<version, csr, nz, blk, byScalar>>
  BY <1>1, <1>2, TopContinues, Zenon
<1>3. CASE UNCHANGED vbVars
  BY <1>2, <1>3, Zenon DEF vbVars
<1>4. CASE riscvStartBlock
  BY <1>1, <1>4, TopLeft, Zenon DEF riscvStartBlock
<1>5. CASE Leave
  BY <1>1, <1>5, TopEnds, Zenon DEF Leave
<1>6. CASE emitLoadStoreCommonMBO
  <2>1. CASE EndBlock
    BY <1>1, <1>6, <2>1, TopEnds, Zenon DEF emitLoadStoreCommonMBO
  <2>2. CASE UNCHANGED <<blk, byScalar>>
    BY <1>2, <1>6, <2>2, Zenon DEF emitLoadStoreCommonMBO
  <2> QED
    BY <1>6, <2>1, <2>2, Zenon DEF emitLoadStoreCommonMBO, Continue
<1>7. ASSUME NEW i \in VectorInstructions,
             \/ emitCheckVILL(i) \/ IllegalVStart(i)
             \/ VectorZero(i) \/ VectorDone(i) \/ VectorFault(i) \/ handleFF(i)
      PROVE  TopInv'
  <2>1. CASE emitCheckVILL(i) \/ IllegalVStart(i)
    BY <1>1, <2>1, TopEnds, Zenon DEF emitCheckVILL, IllegalVStart, Illegal
  <2>2. CASE VectorFault(i)
    <3>1. PICK k \in FaultsAt(i) : nz' = BodyDone(i, Known(i), k)
      BY <2>2, Zenon DEF VectorFault
    <3> QED
      BY <2>2, <3>1, TopFault, Zenon DEF VectorFault
  <2>3. CASE handleFF(i)
    <3>1. PICK k \in FaultsAt(i) : csr' = riscvSetVL(csr, k) /\ nz' = BodyDone(i, Known(i), k)
      BY <2>3, Zenon DEF handleFF
    <3>2. csr'.vlmul = csr.vlmul
      BY <3>1, Zenon DEF riscvSetVL, VBInv, StateInv, Csrs, Types
    <3> QED
      BY <2>3, <3>1, <3>2, TopFault, Zenon DEF handleFF
  <2> QED
    BY <1>7, <2>1, <2>2, <2>3, TopZeroOp, TopDone, Zenon
<1>8. ASSUME NEW rs1zero, NEW rdzero, NEW vsew, NEW vlmul \in VLMULs, NEW avl,
             \/ emitVSetVLRRR(rs1zero, rdzero, avl, vsew, vlmul)
             \/ emitVSetVLRRC(rs1zero, rdzero, avl, vsew, vlmul)
      PROVE  TopInv'
  <2> DEFINE option == getSetVLOption(rs1zero, rdzero)
  <2>1. UNCHANGED <<version, nz>>
    BY <1>8, Zenon DEF emitVSetVLRRR, emitVSetVLRRC
  <2>2. CASE Configure(handleVSetVLArg1(option, avl, vsew, vlmul))
    <3>1. csr'.vlmul \in VLMULs \cup {0}
      BY <2>2, OptionIs, ConfiguredGroup, Zenon DEF Configure
    <3> QED
      BY <2>1, <2>2, <3>1, TopEnds, Zenon DEF Configure
  <2>3. CASE Unconfigured(blk)
    BY <2>1, <2>3, TopVStart, Zenon DEF Unconfigured, Continue, setVStartZero
  <2> QED
    BY <1>8, <2>2, <2>3, Zenon DEF emitVSetVLRRR, emitVSetVLRRC
<1>9. ASSUME NEW v, NEW immediate \in BOOLEAN, riscvWVStart(v, immediate)
      PROVE  TopInv'
  <2>1. (immediate /\ v = 0) \in BOOLEAN
    BY Zenon
  <2> QED
    BY <1>9, <2>1, TopVStart, Zenon DEF riscvWVStart, Continue
<1>10. ASSUME NEW enable, riscvSetTMode(enable)
       PROVE  TopInv'
  BY <1>1, <1>10, TopOutside, Zenon DEF riscvSetTMode
<1>11. CASE riscvCSRReset
  <2>1. resetVLVType.vlmul = 0
    BY Zenon DEF resetVLVType, riscvSetVL, riscvSetVType
  <2> QED
    BY <1>11, <2>1, TopOutside, Zenon DEF riscvCSRReset, Replace
<1>12. CASE riscvCSRRestore
  <2>1. PICK c \in Registers : Replace(c)
    BY <1>12, Zenon DEF riscvCSRRestore
  <2>2. c.vlmul \in VLMULs \cup {0}
    <3>1. CASE c \in [vill : {FALSE}, vsew : {v \in VSEWs : riscvValidSEW(v)}, vlmul : VLMULs,
                      vl : 0..(8 * VLENB)]
      BY <3>1, Zenon
    <3>2. CASE \E b : c = [vill |-> b, vsew |-> 0, vlmul |-> 0, vl |-> 0]
      BY <3>2
    <3> QED
      BY <3>1, <3>2, Zenon DEF Registers
  <2> QED
    BY <2>1, <2>2, TopOutside, Zenon DEF Replace
<1> QED
  BY <1>3, <1>4, <1>5, <1>6, <1>7, <1>8, <1>9, <1>10, <1>11, <1>12, Zenon DEF VBNext

(* What a block leaves out makes no difference: a vsetvli that is not      *)
(* executed, a tail that requireTopZero does not clear again, a test for   *)
(* transaction mode.                                                       *)
THEOREM ElisionsStayHarmless == VBSpec => []ElisionsHarmless
<1>1. VBInit => TopInv
  <2> SUFFICES ASSUME VBInit PROVE TopInv
    BY Zenon
  <2>1. nz \in [VRegs -> Nat] /\ csr.vlmul = 0 /\ blk.single = {} /\ blk.group = {}
    BY Zenon DEF VBInit, NoKnowledge
  <2> QED
    BY <2>1, Zenon DEF TopInv, TopZeroKnown
<1>2. VBInv /\ TopInv /\ [VBNext]_vbVars => TopInv'
  BY TopStep, Zenon
<1>3. VBInv /\ TopInv => TopZeroKnown /\ AccessInMode
  BY Zenon DEF TopInv, VBInv
<1>4. ElidedSetHarmless /\ TopZeroKnown /\ AccessInMode => ElisionsHarmless
  BY Zenon DEF ElisionsHarmless
<1> QED
  BY <1>1, <1>2, <1>3, <1>4, VBInvariant, ElidedSetsHarmless, PTL DEF VBSpec

=============================================================================
