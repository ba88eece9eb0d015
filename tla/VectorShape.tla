---------------------------- MODULE VectorShape ----------------------------
(***************************************************************************)
(* The shapes of vector instructions: how wide each operand is, which are  *)
(* masks or scalars, and which registers the destination may not overlap.  *)
(* An instruction is a record of                                           *)
(*   op      its row of the dispatch table (see VectorOp)                  *)
(*   shape   attrs->vShape                                                 *)
(*   r       the vector registers of arguments 0..3, NoReg for any other   *)
(*   mask    info.mask: the mask register, or NoReg                        *)
(*   nf      info.nf: the number of fields, less one                       *)
(*   whole   info.isWhole: RV_WD_NA, RV_WD_LD_ST or RV_WD_MV               *)
(*   ff      info.isFF                                                     *)
(*   memBits info.memBits, 0 for a register instruction                    *)
(***************************************************************************)
EXTENDS VectorVersion, VectorLayout

NoReg == -1
AnySEW == -1           \* memBits of an access that is SEW bits wide
RV_MAX_AREGS == 4

(* A row of shapeDetails: width multipliers of the three operands; the     *)
(* operands that are floating point, masks, scalars and not indexed by the *)
(* loop; the remaining flags that are set; the overlap constraints.        *)
Row(mul, float, masks, scalars, unindexed, flags, ot) ==
  [mul |-> mul, float |-> float, masks |-> masks, scalars |-> scalars,
   unindexed |-> unindexed, flags |-> flags, ot |-> ot]

shapeDetails ==
  [S111_II    |-> Row(<<1,1,1>>, {}, {}, {}, {}, {}, {}),
   S111_IIXSM |-> Row(<<1,1,1>>, {}, {}, {}, {}, {}, {"OT_XSM"}),
   S111_IIS   |-> Row(<<1,1,1>>, {}, {}, {}, {}, {"isSaturating", "usesVXRM"}, {}),
   S111_IIX   |-> Row(<<1,1,1>>, {}, {}, {}, {}, {"usesVXRM"}, {}),
   SBBB_II    |-> Row(<<1,1,1>>, {}, {}, {}, {}, {"SEW8"}, {}),
   S111_IS    |-> Row(<<1,1,1>>, {}, {}, {1}, {}, {"noVStartCheck"}, {}),
   S111_SI    |-> Row(<<1,1,1>>, {}, {}, {0}, {}, {}, {}),
   S111_PI    |-> Row(<<1,1,1>>, {}, {0}, {}, {}, {}, {}),
   S111_SIS   |-> Row(<<1,1,1>>, {}, {}, {0,2}, {}, {}, {}),
   SCIN_II    |-> Row(<<1,1,1>>, {}, {}, {}, {}, {"isMaskCIn"}, {}),
   SCIN_PI    |-> Row(<<1,1,1>>, {}, {0}, {}, {}, {"isMaskCIn"}, {}),
   S212_SIS   |-> Row(<<2,1,2>>, {}, {}, {0,2}, {}, {}, {}),
   S121_II    |-> Row(<<1,2,1>>, {}, {}, {}, {}, {"isNarrowing"}, {}),
   S121_IIS   |-> Row(<<1,2,1>>, {}, {}, {}, {}, {"isNarrowing", "isSaturating", "usesVXRM"}, {}),
   S211_IIQ   |-> Row(<<2,1,1>>, {}, {}, {}, {}, {"implicitWiden"}, {}),
   S211_II    |-> Row(<<2,1,1>>, {}, {}, {}, {}, {}, {}),
   S211_IIS   |-> Row(<<2,1,1>>, {}, {}, {}, {}, {"isSaturating", "usesVXRM"}, {}),
   S411_II    |-> Row(<<4,1,1>>, {}, {}, {}, {}, {}, {}),
   S221_II    |-> Row(<<2,2,1>>, {}, {}, {}, {}, {}, {}),
   S111_FF    |-> Row(<<1,1,1>>, {0,1,2}, {}, {}, {}, {}, {}),
   S111_PF    |-> Row(<<1,1,1>>, {0,1,2}, {0}, {}, {}, {}, {}),
   S111_SFS   |-> Row(<<1,1,1>>, {0,1,2}, {}, {0,2}, {}, {}, {}),
   S212_SFS   |-> Row(<<2,1,2>>, {0,1,2}, {}, {0,2}, {}, {}, {}),
   S121_FFQ   |-> Row(<<1,2,1>>, {0,1,2}, {}, {}, {}, {"implicitWiden"}, {}),
   S211_FFQ   |-> Row(<<2,1,1>>, {0,1,2}, {}, {}, {}, {"implicitWiden"}, {}),
   S211_FF    |-> Row(<<2,1,1>>, {0,1,2}, {}, {}, {}, {}, {}),
   S221_FF    |-> Row(<<2,2,1>>, {0,1,2}, {}, {}, {}, {}, {}),
   S111_FI    |-> Row(<<1,1,1>>, {0}, {}, {}, {}, {}, {}),
   S111_IF    |-> Row(<<1,1,1>>, {1,2}, {}, {}, {}, {}, {}),
   S21_FIQ    |-> Row(<<2,1,0>>, {0}, {}, {}, {}, {"implicitWiden"}, {}),
   S21_IFQ    |-> Row(<<2,1,0>>, {1}, {}, {}, {}, {"implicitWiden"}, {}),
   S12_FIQ    |-> Row(<<1,2,0>>, {0}, {}, {}, {}, {"implicitWiden"}, {}),
   S12_IFQ    |-> Row(<<1,2,0>>, {1}, {}, {}, {}, {"implicitWiden"}, {}),
   S111_PP    |-> Row(<<1,1,1>>, {}, {0,1,2}, {}, {}, {}, {}),
   S111_IP    |-> Row(<<1,1,1>>, {}, {1,2}, {}, {}, {}, {"OT_S", "OT_M"}),
   S111_GR    |-> Row(<<1,1,1>>, {}, {}, {}, {1}, {}, {"OT_S", "OT_M"}),
   S111_UP    |-> Row(<<1,1,1>>, {}, {}, {}, {1}, {}, {"OT_S", "OT_M71"}),
   S111_DN    |-> Row(<<1,1,1>>, {}, {}, {}, {1}, {}, {"OT_M71"}),
   S111_CMP   |-> Row(<<1,1,1>>, {}, {}, {}, {0}, {}, {"OT_S", "OT_M"})]

(* The largest width multiplier of a shape. *)
getWidthMultiplier(s) ==
  LET mul == shapeDetails[s].mul
  IN  CHOOSE m \in {mul[1], mul[2], mul[3]} : \A a \in 1..3 : mul[a] <= m

clampArgIndex(a) == IF a > 2 THEN 2 ELSE a

(* Facts about argument a, then about the whole operation. *)
isFloatN(s, a)            == clampArgIndex(a) \in shapeDetails[s].float
isScalarN(s, a)           == clampArgIndex(a) \in shapeDetails[s].scalars
isMaskN(s, a)             == clampArgIndex(a) \in shapeDetails[s].masks
isUnindexedN(s, a)        == clampArgIndex(a) \in shapeDetails[s].unindexed
getWidthMultiplierN(s, a) == shapeDetails[s].mul[clampArgIndex(a) + 1]
argIsGroup(s, a)          == ~(isMaskN(s, a) \/ isScalarN(s, a))
isMaskCIn(s)              == "isMaskCIn" \in shapeDetails[s].flags
isNarrowing(s)            == "isNarrowing" \in shapeDetails[s].flags
noVStartCheck(s)          == "noVStartCheck" \in shapeDetails[s].flags

-----------------------------------------------------------------------------
(* Registers of an argument, with multiplier VLMUL                         *)

isVReg(r) == r # NoReg

getVLMULMtN(i, VLMUL, a) == IF argIsGroup(i.shape, a) THEN VLMUL ELSE 1

getVRegNumN(i, VLMUL, a) ==
  IF argIsGroup(i.shape, a) THEN VLMUL * getWidthMultiplierN(i.shape, a) ELSE 1

(* The largest number of registers of an argument is over n. *)
getVRegNumMaxExceeds(i, VLMUL, n) ==
  \E a \in 0..(RV_MAX_AREGS - 1) : isVReg(i.r[a]) /\ getVRegNumN(i, VLMUL, a) > n

getVRegNum(i, VLMUL) == VLMUL * (i.nf + 1)

legalVRegIndex(i, VLMUL, a) == i.r[a] + getVRegNum(i, VLMUL) - 1 < VREG_NUM

(* The registers of argument a that validateNoOverlap looks at. *)
ArgRegs(i, VLMUL, a) ==
  {reg \in 0..(VREG_NUM - 1) : reg \in i.r[a]..(i.r[a] + getVRegNumN(i, VLMUL, a) - 1)}

(* Faulty variant: a source that differs in size from the destination may  *)
(* overlap it.                                                             *)
validateNoOverlap_SameSize(version, i, VLMUL) ==
  LET ot == shapeDetails[i.shape].ot
      bad == ArgRegs(i, VLMUL, 0)
  IN  isVReg(i.r[0]) /\ ~isScalarN(i.shape, 0) =>
        /\ isVReg(i.mask) /\ ("OT_M" \in ot \/ getVRegNumN(i, VLMUL, 0) # 1) => i.mask \notin bad
        /\ \A a \in 1..(RV_MAX_AREGS - 1) :
             isVReg(i.r[a]) /\ "OT_S" \in ot => bad \cap ArgRegs(i, VLMUL, a) = {}

(* The destination overlaps no source or mask it may not overlap. *)
validateNoOverlap(version, i, VLMUL) ==
  LET given == shapeDetails[i.shape].ot
      ot    == given
               \cup (IF "OT_XSM" \in given /\ i.nf > 0 THEN {"OT_S", "OT_M"} ELSE {})
               \cup (IF "OT_M71" \in given /\ riscvVFSupport(version, "STRICT_OVERLAP")
                     THEN {"OT_M"} ELSE {})
      dst   == getVRegNumN(i, VLMUL, 0)
      bad   == ArgRegs(i, VLMUL, 0)
  IN  isVReg(i.r[0]) /\ ~isScalarN(i.shape, 0) =>
        /\ isVReg(i.mask) /\ ("OT_M" \in ot \/ dst # 1) => i.mask \notin bad
        /\ \A a \in 1..(RV_MAX_AREGS - 1) :
             isVReg(i.r[a]) /\ ("OT_S" \in ot \/ dst # getVRegNumN(i, VLMUL, a))
               => bad \cap ArgRegs(i, VLMUL, a) = {}

(* Operands of SEW bits are floating point values the processor has. *)
validateFPArgWidth(conf, SEW) ==
  \/ SEW = 16 /\ conf.fp16
  \/ SEW = 32 /\ conf.ISA_F
  \/ SEW = 64 /\ conf.ISA_D

validateVArgWidths(conf, i, VLMUL, SEW) ==
  LET mul == getWidthMultiplier(i.shape)
  IN  /\ validateNoOverlap(conf.version, i, VLMUL)
      /\ mul # 1 => mul * SEW <= conf.ELEN /\ ~getVRegNumMaxExceeds(i, VLMUL, 8)
      /\ \A a \in 0..2 : isFloatN(i.shape, a)
           => validateFPArgWidth(conf, getWidthMultiplierN(i.shape, a) * SEW)

(* getVMIRegV, for every argument: a group starts at a multiple of its     *)
(* size.                                                                   *)
getVectorOpRegisters(i, VLMUL) ==
  \A a \in 0..(RV_MAX_AREGS - 1) :
    isVReg(i.r[a]) /\ argIsGroup(i.shape, a)
      => i.r[a] % (getVLMULMtN(i, VLMUL, a) * getWidthMultiplierN(i.shape, a)) = 0

-----------------------------------------------------------------------------
(* Checks of loads, stores, AMOs and whole register moves                  *)

getVMemBits(i, SEW) == IF i.memBits = AnySEW THEN SEW ELSE i.memBits

legalVMemBits(SEW, memBits) == memBits <= SEW

emitVLdStCheckSeg(conf, i) ==
  \/ i.whole # "RV_WD_NA"
  \/ conf.Zvlsseg /\ (i.memBits = AnySEW \/ ~riscvVFSupport(conf.version, "SEG_ONLY_SEW"))

emitVLdStCheckWhole(conf, i) ==
  i.whole # "RV_WD_NA" => i.nf = 0 \/ ~riscvVFSupport(conf.version, "FP_RESTRICT_WHOLE")

emitVLdStCheckCB(conf, i, VLMUL, SEW) ==
  /\ legalVMemBits(SEW, getVMemBits(i, SEW))
  /\ i.ff => ~conf.vectorNoFaultOnlyFirst
  /\ i.nf > 0 => /\ emitVLdStCheckSeg(conf, i)
                 /\ emitVLdStCheckWhole(conf, i)
                 /\ getVRegNum(i, VLMUL) <= 8
                 /\ legalVRegIndex(i, VLMUL, 0)

(* Checks of vmv<n>r.v: a copy that goes up must not overlap its source.   *)
emitVMVRCheckCB(conf, i, VLMUL) ==
  LET d == i.r[0]  s == i.r[1]  n == getVRegNum(i, VLMUL)
  IN  /\ legalVRegIndex(i, VLMUL, 0)
      /\ legalVRegIndex(i, VLMUL, 1)
      /\ ~(d > s /\ d - s < n)
      /\ riscvVFSupport(conf.version, "FP_RESTRICT_WHOLE")
           => n \in {1, 2, 4, 8} /\ d % n = 0 /\ s % n = 0

doVAMOCheck(conf, i, SEW) ==
  LET memBits == getVMemBits(i, SEW)
  IN  legalVMemBits(SEW, memBits) /\ memBits >= 32 /\ SEW <= conf.XLEN

(* Only unit stride accesses may be all there are. *)
nonUnitStrideVLdStOk(conf) == ~conf.unitStrideOnly

emitVAMOCheckCB(conf, i, SEW) == doVAMOCheck(conf, i, SEW) /\ conf.Zvamo

=============================================================================
