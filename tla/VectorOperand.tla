--------------------------- MODULE VectorOperand ----------------------------
(***************************************************************************)
(* A vector instruction i in a setting e: which there are, the locations   *)
(* of their operands, the checks their callbacks make and what they clear  *)
(* first.                                                                  *)
(***************************************************************************)
EXTENDS VectorDispatch

-----------------------------------------------------------------------------
(* fillVectorOperationData, for instruction i in setting e                 *)

isWhole(i) == i.whole # "RV_WD_NA"

VLMUL(i, e) == IF isWhole(i) THEN 1 ELSE e.VLMUL
SEW(i, e)   == IF isWhole(i) THEN 8 ELSE e.SEW
NF(i)       == IF isWhole(i) THEN 0 ELSE i.nf
MLEN(i, e)  == SEW(i, e) \div VLMUL(i, e)

(* getVLMAXOp *)
getVLMAXOp(i, e) ==
  ((IF isWhole(i) THEN VLEN * (i.nf + 1) ELSE VLEN) * VLMUL(i, e)) \div SEW(i, e)

(* Where the loop stops: validateVStart compares with this. *)
Limit(i, e, len) == IF isWhole(i) THEN getVLMAXOp(i, e) ELSE len

(* getVLClassMt *)
getVLClassMt(i, e) ==
  IF isWhole(i) \/ e.vl >= getVLMAXOp(i, e) THEN "MAX" ELSE IF e.vl = 0 THEN "ZERO" ELSE "NONZERO"

-----------------------------------------------------------------------------
(* The settings and instructions there are                                 *)

(* What the configuration, vsetvl (riscvValidSEW, riscvSetVL) and writes   *)
(* of vstart leave.  No element is wider than a stripe, which applyParams  *)
(* does not enforce.                                                       *)
Setting(e) ==
  /\ e.conf.ELEN \in {32, 64} /\ SLEN % e.conf.ELEN = 0
  /\ e.SEW \in {8, 16, 32, 64} /\ e.SEW <= e.conf.ELEN
  /\ e.VLMUL \in {1, 2, 4, 8}
  /\ (e.SEW \div e.VLMUL) % GRAN = 0
  /\ e.vl \in 0..((VLEN * e.VLMUL) \div e.SEW)
  /\ e.vstart \in Nat

MemoryCBs == {"emitVLdUCB", "emitVLdSCB", "emitVLdICB", "emitVStUCB", "emitVStSCB", "emitVStICB",
              "emitVAMOBinopRRR"}

(* Instructions whose result goes to an X or F register. *)
XResultCBs == {"emitVPOPCCB", "emitVFIRSTCB", "emitVEXTXV", "emitVFMVFS"}

(* What the decoder makes of an instruction: getWholeReg, getFirstFault,   *)
(* getNumFields and getMask.                                               *)
Decoded(i) ==
  /\ i.row \in dispatchTable /\ i.shape = i.row.shape
  /\ i.r \in [0..(RV_MAX_AREGS - 1) -> {NoReg} \cup 0..(VREG_NUM - 1)]
  /\ \A a \in 0..(RV_MAX_AREGS - 1) : isVReg(i.r[a]) => getWidthMultiplierN(i.shape, a) # 0
  /\ isVReg(i.r[0]) \/ i.row.tcb \in XResultCBs \cup {"emitVAMOBinopRRR"}
  /\ i.row.tcb \in XResultCBs => ~isVReg(i.r[0])
  /\ i.mask \in {NoReg} \cup (IF i.row.tcb = "emitVCOMPRESSCB" THEN 0..(VREG_NUM - 1) ELSE {0})
  /\ i.row.morph = "emitScalarOp" => i.mask = NoReg
  /\ i.c \in Nat /\ i.nf \in 0..7
  /\ i.nf > 0 => i.row.tcb \in MemoryCBs \ {"emitVAMOBinopRRR"} \/ i.whole = "RV_WD_MV"
  /\ i.ff \in BOOLEAN
  /\ i.ff => i.row.tcb = "emitVLdUCB" /\ i.whole = "RV_WD_NA"
  /\ i.whole \in {"RV_WD_NA", "RV_WD_LD_ST", "RV_WD_MV"}
  /\ i.whole = "RV_WD_LD_ST" => i.row.tcb \in {"emitVLdUCB", "emitVStUCB"}
  /\ i.whole = "RV_WD_MV" <=> i.row.check = "emitVMVRCheckCB"
  /\ i.whole # "RV_WD_NA" => i.mask = NoReg /\ i.r[2] = NoReg /\ i.r[3] = NoReg
  /\ i.row.tcb = "emitVIRGATHERCB" => ~isVReg(i.r[2])

(* Cases in which the code does otherwise than it should, listed in        *)
(* README.md: an index register overlapped by a later field, a slide by    *)
(* zero in place and, in version 0.7.1, the tail of what a store reads and *)
(* of a widened result.                                                    *)
IndexOverlapped(i, e) ==
  i.nf > 0 /\ isVReg(i.r[2]) /\ i.r[2] \in i.r[0]..(i.r[0] + getVRegNum(i, VLMUL(i, e)) - 1)

SlidInPlace(i) == i.row.tcb = "emitVRSLIDEDOWNCB" /\ i.c = 0 /\ i.r[0] = i.r[1]

TailMistaken(i, e) ==
  /\ riscvVFSupport(e.conf.version, "ZERO_TAIL") /\ e.vl < getVLMAXOp(i, e)
  /\ \/ i.row.tcb \in {"emitVStUCB", "emitVStSCB", "emitVStICB"}
     \/ isVReg(i.r[0]) /\ argIsGroup(i.shape, 0) /\ getWidthMultiplierN(i.shape, 0) # 1

-----------------------------------------------------------------------------
(* Operands and checks                                                     *)

(* getIndexedVRegisters: the locations of element k of argument a, none if *)
(* that is not a vector register.                                          *)
ArgBits(i, e, a, k) ==
  IF ~isVReg(i.r[a]) THEN {}
  ELSE IF isScalarN(i.shape, a) THEN Bits(i.r[a], 0, SEW(i, e) * getWidthMultiplierN(i.shape, a))
  ELSE IF isMaskN(i.shape, a) THEN MaskBits(i.r[a], k, MLEN(i, e))
  ELSE LET mulE == getWidthMultiplierN(i.shape, a)
       IN  ElementBits(i.r[a], k, VLMUL(i, e) * mulE, SEW(i, e) * mulE, isWhole(i))

(* getSegmentRegisterV0: field f of element k of argument 0. *)
FieldBits(i, e, f, k) ==
  LET reg == (i.r[0] + f * VLMUL(i, e)) % VREG_NUM
  IN  ElementBits(reg, k, VLMUL(i, e), SEW(i, e), isWhole(i))

(* checkCB *)
checkCB(i, e) ==
  CASE i.row.check = "emitVLdStCheckUCB" -> emitVLdStCheckCB(e.conf, i, VLMUL(i, e), SEW(i, e))
    [] i.row.check \in {"emitVLdStCheckSCB", "emitVLdStCheckXCB"} ->
         nonUnitStrideVLdStOk(e.conf) /\ emitVLdStCheckCB(e.conf, i, VLMUL(i, e), SEW(i, e))
    [] i.row.check = "emitVAMOCheckCB" -> emitVAMOCheckCB(e.conf, i, SEW(i, e))
    [] i.row.check = "emitVMVRCheckCB" -> emitVMVRCheckCB(e.conf, i, VLMUL(i, e))
    [] i.row.check = "emitQMACCheckCB" -> e.conf.Zvqmac
    [] i.row.check = "emitEDIVCheckCB" -> FALSE
    [] OTHER -> TRUE

(* VCOMPRESS and moves to a vector register clear it if tails are zeroed. *)
zeroTail(i, e) ==
  IF ~riscvVFSupport(e.conf.version, "ZERO_TAIL") THEN {}
  ELSE CASE i.row.init = "initVCOMPRESSCB"              -> RegisterBits(i.r[0], VLMUL(i, e))
         [] i.row.tcb \in {"emitVMVSX", "emitVFMVSF"}   -> RegisterBits(i.r[0], 1)
         [] OTHER                                       -> {}

=============================================================================
