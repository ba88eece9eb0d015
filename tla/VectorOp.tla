------------------------------ MODULE VectorOp ------------------------------
(***************************************************************************)
(* The code emitVectorOp and emitScalarOp generate for one vector          *)
(* instruction, executed element by element: vstart is the index of the    *)
(* loop, kept when a memory access faults so that the instruction can be   *)
(* restarted there.                                                        *)
(*                                                                         *)
(* Values are abstract.  The register file is the function `file' on the   *)
(* locations written so far, which gives the element whose result was put  *)
(* there (or Zero); a location outside its domain holds what it held       *)
(* before the instruction.  Mask bits, which steer the loop, and the       *)
(* predicate bits the mask instructions compute with are given by env.bits *)
(* and env.pred, the elements selected and those of the source predicate.  *)
(***************************************************************************)
EXTENDS VectorOperand, Sequences

CONSTANTS
  Instructions(_),  \* the instructions to start in a setting
  Settings,         \* configurations, vtype, vl, vstart and predicates
  MaxFaults         \* bound on the faults one instruction takes

VARIABLES
  pc,           \* "idle", "loop", "skip", "end", "done", "trap" or "illegal"
  ins,          \* the instruction
  env,          \* the setting it was started in
  vl,
  vstart,
  file,         \* the locations written, with the element written to each
  VTMP,         \* riscv->vTmp where it is an index, a count or a flag
  xd,           \* the X register result
  order,        \* history: the elements processed, in order
  stale,        \* history: elements that read a location already overwritten
  vFirstFault,
  faults        \* faults taken

vars == <<pc, ins, env, vl, vstart, file, VTMP, xd, order, stale, vFirstFault, faults>>

Zero == -2      \* what a cleared location holds
Rs1 == -4       \* the X register a slide puts in an end element
NoResult == -3  \* xd of an instruction without an X register result

(* Those of VectorOperand, less the cases it sets apart. *)
ASSUME InstructionAssumption ==
  /\ MaxFaults \in Nat
  /\ \A e \in Settings : Setting(e) /\ \A i \in Instructions(e) : Decoded(i)

ASSUME ExceptionAssumption ==
  \A e \in Settings : \A i \in Instructions(e) :
    ~IndexOverlapped(i, e) /\ ~SlidInPlace(i) /\ ~TailMistaken(i, e)

-----------------------------------------------------------------------------
(* Accesses to the register file                                           *)

Rd(at) == [write |-> FALSE, at |-> at]
Wr(at) == [write |-> TRUE, at |-> at]

(* Some access of the sequence reads a location that was overwritten. *)
ReadsOverwritten(accs) ==
  \E p \in DOMAIN accs :
    /\ ~accs[p].write
    /\ \/ accs[p].at \cap DOMAIN file # {}
       \/ \E q \in 1..(p - 1) : accs[q].write /\ accs[q].at \cap accs[p].at # {}

Written(accs) == UNION {accs[p].at : p \in {q \in DOMAIN accs : accs[q].write}}

(* The file g, changed where f says so; value v put in the locations of at. *)
Over(f, g) == [l \in DOMAIN f \cup DOMAIN g |-> IF l \in DOMAIN f THEN f[l] ELSE g[l]]
Put(at, v) == Over([l \in at |-> v], file)

-----------------------------------------------------------------------------
(* Per-element callbacks                                                   *)

(* A callback's accesses, the value it writes, VTMP and xd after it.  The  *)
(* element is number vstart.                                               *)
Does(accs) == [accs |-> accs, value |-> vstart, tmp |-> VTMP, xd |-> xd]

Src(a) == Rd(ArgBits(ins, env, a, vstart))
Dst    == Wr(ArgBits(ins, env, 0, vstart))

emitVRMERGETCB    == Does(<<Src(2), Dst>>)
emitVRMERGEFCB    == Does(<<Src(1), Dst>>)
emitVRBinaryIntCB == Does(<<Src(1), Src(2), Dst>>)
emitVIShiftIntCB  == Does(<<Src(1), Dst>>)
emitVRMulHIntCB   == Does(<<Src(1), Src(2), Dst>>)
emitVRMAddIntCB   == Does(<<Src(0), Src(1), Src(2), Dst>>)

(* getVCarryIn and setVCarryOut: the carry is a bit of v0. *)
CarryIn == IF isVReg(ins.mask) THEN <<Rd(MaskBits(ins.mask, vstart, MLEN(ins, env)))>> ELSE <<>>
emitVRAdcIntCB == Does(CarryIn \o <<Src(1), Src(2), Dst>>)

(* startCompare and endCompare: the flag goes through a temporary. *)
emitVRCmpIntCB == Does(<<Src(1), Src(2), Dst>>)

(* Fixed point: rounding reads back the result it has just written, or a   *)
(* temporary.                                                              *)
emitVRSBinaryCB   == Does(<<Src(1), Src(2), Dst>>)
emitVRABinaryCB   == Does(<<Src(1), Src(2), Dst, Dst>>)
emitVRRShiftIntCB == Does(<<Src(1), Src(2), Dst>>)
emitVRSMULCB      == Does(<<Src(1), Src(2), Dst, Dst>>)
emitVRSMAccIntCB  == Does(<<Src(2), Src(1), Src(0), Dst>>)

(* Floating point. *)
emitVRBinaryFltCB  == Does(<<Src(1), Src(2), Dst>>)
emitVRMAddFltCB    == Does(<<Src(0), Src(1), Src(2), Dst>>)
emitVRFSgnFltCB    == Does(<<Src(2), Src(1), Dst>>)
emitVRFCmpFltCB    == Does(<<Src(1), Src(2), Dst>>)
emitVRFClassFltCB  == Does(<<Src(1), Dst, Dst>>)
emitVRConvertFltCB == Does(<<Src(1), Dst>>)

(* Reductions accumulate in VTMP; see endVRedCB. *)
emitVRedBinaryIntCB == Does(<<Src(1)>>)
emitVRedBinaryFltCB == Does(<<Src(1)>>)

(* Masks.  A predicate bit is 0 or 1. *)
Pa == IF vstart \in env.pred THEN 1 ELSE 0

emitMBinaryCB == Does(<<Src(1), Src(2), Dst>>)
emitVPOPCCB   == [Does(<<Src(1)>>) EXCEPT !.xd = xd + Pa]
emitVFIRSTCB  == [Does(IF xd = -1 THEN <<Src(1)>> ELSE <<>>)
                    EXCEPT !.xd = IF xd = -1 /\ Pa = 1 THEN vstart ELSE xd]

(* VTMP is 1 until a set bit has been met. *)
MSF == IF Pa = 1 THEN 0 ELSE VTMP
emitVMSBFCB == [Does(<<Src(1), Dst>>) EXCEPT !.value = MSF, !.tmp = MSF]
emitVMSIFCB == [Does(<<Src(1), Dst>>) EXCEPT !.value = VTMP, !.tmp = MSF]
emitVMSOFCB == [Does(<<Src(1), Dst>>) EXCEPT !.value = IF Pa = 1 THEN VTMP ELSE 0, !.tmp = MSF]

(* The count so far is written before the bit is read. *)
emitVIOTACB == [Does(<<Dst, Src(1)>>) EXCEPT !.value = VTMP, !.tmp = VTMP + Pa]
emitVIDTCB  == [Does(<<Dst>>) EXCEPT !.value = VTMP, !.tmp = VTMP + 1]
emitVIDFCB  == [Does(<<>>) EXCEPT !.tmp = VTMP + 1]

(* moveIndexedVd0Vs1, after accesses accs: the value a permutation writes  *)
(* is the number of the element it copies.                                 *)
moveIndexedVd0Vs1(accs, index) ==
  [Does(accs \o <<Rd(ArgBits(ins, env, 1, index)), Dst>>) EXCEPT !.value = index]

(* ins.c is the offset of a slide, from a register or the instruction. *)
emitVRSLIDEUPCB ==
  IF vstart < ins.c THEN Does(<<>>) ELSE moveIndexedVd0Vs1(<<>>, vstart - ins.c)

(* The result is zeroed before the source is read. *)
emitVRSLIDEDOWNCB ==
  LET index == vstart + ins.c
  IN  IF index >= getVLMAXOp(ins, env) THEN [Does(<<Dst>>) EXCEPT !.value = Zero]
      ELSE moveIndexedVd0Vs1(<<Dst>>, index)

(* The scalar is written first, then replaced. *)
emitVRSLIDE1UPCB ==
  IF vstart = 0 THEN [Does(<<Dst>>) EXCEPT !.value = Rs1] ELSE moveIndexedVd0Vs1(<<Dst>>, vstart - 1)

(* Faulty variant: the last element of the group, not of the vector. *)
emitVRSLIDE1DOWNCB_Max ==
  IF vstart + 1 >= getVLMAXOp(ins, env) THEN [Does(<<Dst>>) EXCEPT !.value = Rs1]
  ELSE moveIndexedVd0Vs1(<<Dst>>, vstart + 1)

emitVRSLIDE1DOWNCB ==
  IF vstart + 1 >= vl THEN [Does(<<Dst>>) EXCEPT !.value = Rs1]
  ELSE moveIndexedVd0Vs1(<<Dst>>, vstart + 1)

(* The index of a gather: ins.c, or what element vstart of the index       *)
(* vector holds, here the elements in reverse from ins.c on.               *)
GatherIndex(i, k) == IF isVReg(i.r[2]) THEN (IF i.c >= k THEN i.c - k ELSE i.c) ELSE i.c

emitVRRGATHERCB ==
  LET index == GatherIndex(ins, vstart)
  IN  IF index >= getVLMAXOp(ins, env) THEN [Does(<<Dst, Src(2)>>) EXCEPT !.value = Zero]
      ELSE moveIndexedVd0Vs1(<<Dst, Src(2)>>, index)

(* initVIRGATHERCB has put the element in VTMP. *)
emitVIRGATHERCB ==
  [Does(<<Dst>>) EXCEPT !.value = IF ins.c < getVLMAXOp(ins, env) THEN ins.c ELSE Zero]

emitVCOMPRESSCB ==
  [Does(<<Src(1), Wr(ArgBits(ins, env, 0, VTMP))>>) EXCEPT !.tmp = VTMP + 1]

(* Scalar moves: VEXT.X.V, VFMV.F.S, VMV.S.X and VFMV.S.F.  Those to a     *)
(* vector register clear it first if tails are zeroed.                     *)
ToScalar(i) == IF i.c < VLEN \div SEW(i, env) THEN <<Rd(Bits(i.r[1], i.c * SEW(i, env), SEW(i, env)))>> ELSE <<>>
emitVEXTXV == [Does(ToScalar(ins)) EXCEPT !.xd = IF ToScalar(ins) = <<>> THEN Zero ELSE ins.c]
emitVFMVFS == [Does(<<Src(1)>>) EXCEPT !.xd = 0]
emitVMVSX  == [Does(<<Dst>>) EXCEPT !.value = 0]
emitVFMVSF == [Does(<<Dst>>) EXCEPT !.value = 0]

-----------------------------------------------------------------------------
(* Dispatch                                                                *)

opTCB ==
  CASE ins.row.tcb = "emitVRMERGETCB"      -> emitVRMERGETCB
    [] ins.row.tcb = "emitVRBinaryIntCB"   -> emitVRBinaryIntCB
    [] ins.row.tcb = "emitVIShiftIntCB"    -> emitVIShiftIntCB
    [] ins.row.tcb = "emitVRMulHIntCB"     -> emitVRMulHIntCB
    [] ins.row.tcb = "emitVRMAddIntCB"     -> emitVRMAddIntCB
    [] ins.row.tcb = "emitVRAdcIntCB"      -> emitVRAdcIntCB
    [] ins.row.tcb = "emitVRCmpIntCB"      -> emitVRCmpIntCB
    [] ins.row.tcb = "emitVRSBinaryCB"     -> emitVRSBinaryCB
    [] ins.row.tcb = "emitVRABinaryCB"     -> emitVRABinaryCB
    [] ins.row.tcb = "emitVRRShiftIntCB"   -> emitVRRShiftIntCB
    [] ins.row.tcb = "emitVRSMULCB"        -> emitVRSMULCB
    [] ins.row.tcb = "emitVRSMAccIntCB"    -> emitVRSMAccIntCB
    [] ins.row.tcb = "emitVRBinaryFltCB"   -> emitVRBinaryFltCB
    [] ins.row.tcb = "emitVRMAddFltCB"     -> emitVRMAddFltCB
    [] ins.row.tcb = "emitVRFSgnFltCB"     -> emitVRFSgnFltCB
    [] ins.row.tcb = "emitVRFCmpFltCB"     -> emitVRFCmpFltCB
    [] ins.row.tcb = "emitVRFClassFltCB"   -> emitVRFClassFltCB
    [] ins.row.tcb = "emitVRConvertFltCB"  -> emitVRConvertFltCB
    [] ins.row.tcb = "emitVRedBinaryIntCB" -> emitVRedBinaryIntCB
    [] ins.row.tcb = "emitVRedBinaryFltCB" -> emitVRedBinaryFltCB
    [] ins.row.tcb = "emitMBinaryCB"       -> emitMBinaryCB
    [] ins.row.tcb = "emitVPOPCCB"         -> emitVPOPCCB
    [] ins.row.tcb = "emitVFIRSTCB"        -> emitVFIRSTCB
    [] ins.row.tcb = "emitVMSBFCB"         -> emitVMSBFCB
    [] ins.row.tcb = "emitVMSIFCB"         -> emitVMSIFCB
    [] ins.row.tcb = "emitVMSOFCB"         -> emitVMSOFCB
    [] ins.row.tcb = "emitVIOTACB"         -> emitVIOTACB
    [] ins.row.tcb = "emitVIDTCB"          -> emitVIDTCB
    [] ins.row.tcb = "emitVRSLIDEUPCB"     -> emitVRSLIDEUPCB
    [] ins.row.tcb = "emitVRSLIDEDOWNCB"   -> emitVRSLIDEDOWNCB
    [] ins.row.tcb = "emitVRSLIDE1UPCB"    -> emitVRSLIDE1UPCB
    [] ins.row.tcb = "emitVRSLIDE1DOWNCB"  -> emitVRSLIDE1DOWNCB
    [] ins.row.tcb = "emitVRRGATHERCB"     -> emitVRRGATHERCB
    [] ins.row.tcb = "emitVIRGATHERCB"     -> emitVIRGATHERCB
    [] ins.row.tcb = "emitVCOMPRESSCB"     -> emitVCOMPRESSCB
    [] ins.row.tcb = "emitVEXTXV"          -> emitVEXTXV
    [] ins.row.tcb = "emitVFMVFS"          -> emitVFMVFS
    [] ins.row.tcb = "emitVMVSX"           -> emitVMVSX
    [] ins.row.tcb = "emitVFMVSF"          -> emitVFMVSF

opFCB == IF ins.row.fcb = "emitVRMERGEFCB" THEN emitVRMERGEFCB ELSE emitVIDFCB

(* The callbacks that seed xd are check callbacks. *)
seedXd(i) == CASE i.row.check = "initVPOPCCB" -> 0 [] i.row.check = "initVFIRSTCB" -> -1 [] OTHER -> NoResult

(* VTMP after initCB. *)
initCB(i, vs) ==
  CASE i.row.init = "initVMSFCB" -> 1 [] i.row.init = "initVIOTACB" -> vs [] OTHER -> 0

checkVStartZero(i, e, vs) ==
  \/ vs = 0
  \/ i.row.vstart0 = "RVVS_ANY"
  \/ i.row.vstart0 = "RVVS_NO_INT" /\ ~e.conf.require_vstart0

-----------------------------------------------------------------------------
(* Start of an instruction                                                 *)

(* The checks made before any element is processed. *)
Legal(i, e, vs) ==
  /\ getVectorOpRegisters(i, VLMUL(i, e))
  /\ checkVStartZero(i, e, vs)
  /\ validateVArgWidths(e.conf, i, VLMUL(i, e), SEW(i, e))
  /\ checkCB(i, e)

(* startVectorOp: skip the elements if vstart is past the last, else call  *)
(* initCB and go on to the first.                                          *)
startVectorOp(i, e, len, vs) ==
  LET noCheck == i.whole = "RV_WD_MV" \/ noVStartCheck(i.shape)
      first   == IF noCheck THEN 0 ELSE vs
      iterVStart == i.row.morph = "emitVectorOp"
  IN  IF ~noCheck /\ vs >= Limit(i, e, len)
      THEN /\ pc' = "skip"
           /\ vstart' = IF iterVStart THEN Limit(i, e, len) ELSE vs
           /\ UNCHANGED <<file, VTMP, vFirstFault>>
      ELSE /\ pc' = "loop"
           /\ vstart' = first
           /\ file' = Put(zeroTail(i, e), Zero)
           /\ VTMP' = initCB(i, first)
           /\ vFirstFault' = (vFirstFault \/ (i.row.init = "emitVLdStInitCB" /\ i.ff))

(* emitVectorOp and emitScalarOp as far as the first element. *)
emitVectorOp ==
  /\ IF ~Legal(ins, env, vstart)
     THEN pc' = "illegal" /\ UNCHANGED <<vstart, xd, file, VTMP, vFirstFault>>
     ELSE /\ xd' = seedXd(ins)
          /\ IF getVLClassMt(ins, env) = "ZERO" /\ ~(ins.row.morph = "emitScalarOp" /\ ~isVReg(ins.r[0]))
             THEN pc' = "done" /\ vstart' = 0 /\ UNCHANGED <<file, VTMP, vFirstFault>>
             ELSE startVectorOp(ins, env, vl, vstart)
  /\ UNCHANGED <<ins, env, vl, order, stale, faults>>

Start == pc = "idle" /\ emitVectorOp

(* A trap handler returns to the instruction. *)
Restart == pc = "trap" /\ emitVectorOp

-----------------------------------------------------------------------------
(* One element                                                             *)

(* skipIfMask0 tests the mask, unless it is a carry. *)
Masked == isVReg(ins.mask) /\ ~isMaskCIn(ins.shape)
MaskRead == IF Masked THEN <<Rd(Bits(ins.mask, vstart * MLEN(ins, env), 1))>> ELSE <<>>
Selected == Masked => vstart \in env.bits

Perform(accs, value) ==
  /\ file' = Put(Written(accs), value)
  /\ stale' = IF ReadsOverwritten(MaskRead \o accs) THEN stale \cup {vstart} ELSE stale

(* Faulty variant: an element the mask does not select branches past the   *)
(* increment.                                                              *)
endVectorLoop_Stuck(len) ==
  /\ vstart' = IF ins.row.morph = "emitScalarOp" \/ (~Selected /\ ins.row.fcb = "none") THEN vstart ELSE vstart + 1
  /\ pc' = IF ins.row.morph = "emitVectorOp" /\ vstart' < Limit(ins, env, len) THEN "loop" ELSE "end"

endVectorLoop(len) ==
  /\ vstart' = IF ins.row.morph = "emitScalarOp" THEN vstart ELSE vstart + 1
  /\ pc' = IF ins.row.morph = "emitVectorOp" /\ vstart' < Limit(ins, env, len) THEN "loop" ELSE "end"

(* doPerElementOp *)
doPerElementOp ==
  /\ pc = "loop"
  /\ ins.row.tcb \notin MemoryCBs
  /\ LET res == IF Selected THEN opTCB ELSE IF ins.row.fcb # "none" THEN opFCB ELSE Does(<<>>)
     IN  /\ Perform(res.accs, res.value)
         /\ VTMP' = res.tmp
         /\ xd' = res.xd
  /\ order' = IF Selected THEN Append(order, vstart) ELSE order
  /\ endVectorLoop(vl)
  /\ UNCHANGED <<ins, env, vl, vFirstFault, faults>>

(* The index read by emitVLdStIOffset, if any. *)
emitVLdStIOffset == IF ins.row.tcb \in {"emitVLdICB", "emitVStICB", "emitVAMOBinopRRR"} THEN <<Src(2)>> ELSE <<>>

(* The accesses to registers of fields 0 to n - 1. *)
emitVLdInt(n) == emitVLdStIOffset \o [f \in 1..n |-> Wr(FieldBits(ins, env, f - 1, vstart))]
emitVStInt(n) == emitVLdStIOffset \o [f \in 1..n |-> Rd(FieldBits(ins, env, f - 1, vstart))]

(* emitAMOCommonInt: the register is written when the store is done. *)
emitVAMOCommonRRR == emitVLdStIOffset \o <<Src(3), Dst>>

Accesses(n) ==
  CASE ins.row.tcb \in {"emitVLdUCB", "emitVLdSCB", "emitVLdICB"} -> emitVLdInt(n)
    [] ins.row.tcb \in {"emitVStUCB", "emitVStSCB", "emitVStICB"} -> emitVStInt(n)
    [] ins.row.tcb = "emitVAMOBinopRRR" -> IF n = 0 THEN emitVLdStIOffset ELSE emitVAMOCommonRRR

(* A load, store or AMO of an element none of whose fields faults. *)
MemoryElement ==
  /\ pc = "loop"
  /\ ins.row.tcb \in MemoryCBs
  /\ Perform(IF Selected THEN Accesses(NF(ins) + 1) ELSE <<>>, vstart)
  /\ order' = IF Selected THEN Append(order, vstart) ELSE order
  /\ endVectorLoop(vl)
  /\ UNCHANGED <<ins, env, vl, VTMP, xd, vFirstFault, faults>>

(* Faulty variant: the indication outlives the fault. *)
handleFF_Keep ==
  /\ vFirstFault' = vFirstFault
  /\ IF vFirstFault /\ vstart > 0
     THEN vl' = vstart /\ endVectorLoop(vstart)
     ELSE pc' = "trap" /\ UNCHANGED <<vl, vstart>>

(* Faulty variant: a trap forgets how far the instruction had come. *)
handleFF_Forget ==
  /\ vFirstFault' = FALSE
  /\ IF vFirstFault /\ vstart > 0
     THEN vl' = vstart /\ endVectorLoop(vstart)
     ELSE pc' = "trap" /\ vstart' = 0 /\ UNCHANGED vl

(* handleFF: past element zero, a fault of a fault-only-first load ends    *)
(* the vector there; any other fault is a trap, which leaves vstart.       *)
handleFF ==
  /\ vFirstFault' = FALSE
  /\ IF vFirstFault /\ vstart > 0
     THEN vl' = vstart /\ endVectorLoop(vstart)
     ELSE pc' = "trap" /\ UNCHANGED <<vl, vstart>>

(* Field f of the element faults: those before it have been transferred.   *)
MemoryFault(f) ==
  /\ pc = "loop"
  /\ ins.row.tcb \in MemoryCBs
  /\ Selected
  /\ faults < MaxFaults
  /\ faults' = faults + 1
  /\ Perform(Accesses(f), vstart)
  /\ handleFF
  /\ UNCHANGED <<ins, env, VTMP, xd, order>>

-----------------------------------------------------------------------------
(* End of an instruction                                                   *)

(* endVRedCB *)
endVRedCB ==
  LET at == ArgBits(ins, env, 0, 0)
  IN  IF riscvVFSupport(env.conf.version, "ZERO_TAIL")
      THEN Over([l \in at |-> 0], [l \in RegisterBits(ins.r[0], 1) |-> Zero])
      ELSE [l \in at |-> 0]

elemNum(i, e) == VLEN \div MLEN(i, e)

(* The locations zeroVdPdTop clears from element vs on.  No register is    *)
(* known to have a zero tail already.                                      *)
zeroVdPdTop(i, e, vs) ==
  LET mulE    == getWidthMultiplierN(i.shape, 0)
      Reg(f)  == (i.r[0] + f * VLMUL(i, e)) % VREG_NUM
      \* per element, or as one block
      PE(f)   == UNION {Bits(Reg(f), ElementAt(k, VLMUL(i, e) * mulE, SEW(i, e) * mulE, FALSE), SEW(i, e))
                          : k \in vs..(elemNum(i, e) - 1)}
      BLT(f)  == Bits(Reg(f), vs * SEW(i, e) * mulE, (elemNum(i, e) - vs) * SEW(i, e))
  IN  IF ~isVReg(i.r[0]) \/ vs >= elemNum(i, e) THEN {}
      ELSE IF isMaskN(i.shape, 0)
           THEN UNION {MaskBits(i.r[0], k, MLEN(i, e)) : k \in vs..(elemNum(i, e) - 1)}
      ELSE UNION {IF isStriped(VLMUL(i, e) * mulE, FALSE) THEN PE(f) ELSE BLT(f) : f \in 0..NF(i)}

(* Faulty variant: tails are also cleared after a fault. *)
topZeroed_NoFF ==
  /\ getVLClassMt(ins, env) # "MAX"
  /\ riscvVFSupport(env.conf.version, "ZERO_TAIL")
  /\ ~isScalarN(ins.shape, 0)
  /\ ~ins.row.implicitTZ

(* The conditions under which endVectorOp clears the tail. *)
topZeroed ==
  /\ getVLClassMt(ins, env) # "MAX"
  /\ riscvVFSupport(env.conf.version, "ZERO_TAIL")
  /\ ~isScalarN(ins.shape, 0)
  /\ ~ins.row.implicitTZ
  /\ ins.ff => vFirstFault

(* endVectorOp, and setVStartZero. *)
endVectorOp ==
  /\ pc \in {"end", "skip"}
  /\ LET written == IF pc = "end" /\ ins.row.end = "endVRedCB" THEN endVRedCB ELSE <<>>
         zeroed  == IF topZeroed THEN zeroVdPdTop(ins, env, vstart) ELSE {}
     IN  file' = Over([l \in zeroed |-> Zero], Over(written, file))
  /\ vFirstFault' = (vFirstFault /\ ~ins.ff)
  /\ vstart' = 0
  /\ pc' = "done"
  /\ UNCHANGED <<ins, env, vl, VTMP, xd, order, stale, faults>>

(* The next instruction is another behavior. *)
Done == pc \in {"done", "illegal"} /\ UNCHANGED vars

-----------------------------------------------------------------------------
(* Any instruction in any setting.  vFirstFault is off then, as it is when *)
(* an instruction is done: see FaultOnlyFirst.                             *)
Init ==
  /\ env \in Settings
  /\ ins \in Instructions(env)
  /\ pc = "idle" /\ vl = env.vl /\ vstart = env.vstart /\ file = <<>> /\ VTMP = 0
  /\ xd = NoResult /\ order = <<>> /\ stale = {} /\ faults = 0
  /\ vFirstFault = FALSE

Next ==
  \/ Start
  \/ Restart
  \/ doPerElementOp
  \/ MemoryElement
  \/ \E f \in 0..NF(ins) : MemoryFault(f)
  \/ endVectorOp
  \/ Done

(* The generated code runs on.  Faults are bounded: what causes one is put *)
(* right before the instruction is restarted.                              *)
Spec == Init /\ [][Next]_vars /\ WF_vars(Next)

-----------------------------------------------------------------------------
(* Properties                                                              *)

(* No element reads a register location that an earlier element, or an     *)
(* earlier field or try of the same element, has overwritten: the overlap  *)
(* checks of validateNoOverlap and emitVMVRCheckCB leave only overlaps that *)
(* the order of the element loop makes safe, restarts included.            *)
SourcesIntact == stale = {}

(* What the instruction is to compute, all elements at once.               *)
First    == IF ins.whole = "RV_WD_MV" \/ noVStartCheck(ins.shape) THEN 0 ELSE env.vstart
Body     == First..(Limit(ins, env, vl) - 1)
Elements == {k \in Body : Masked => k \in env.bits}
SetBits  == Elements \cap env.pred
SetBelow(k) == {j \in SetBits : j < k}
VLMAX    == getVLMAXOp(ins, env)
Number(b) == IF b THEN 1 ELSE 0

(* The value of element k of the destination. *)
ResultOf(k) ==
  LET op == ins.row.tcb
  IN  CASE op = "emitVMSBFCB" -> Number(SetBelow(k + 1) = {})
        [] op = "emitVMSIFCB" -> Number(SetBelow(k) = {})
        [] op = "emitVMSOFCB" -> Number(SetBelow(k + 1) = {k})
        [] op = "emitVIOTACB" -> Cardinality(SetBelow(k))
        [] op = "emitVRSLIDEUPCB" -> k - ins.c
        [] op = "emitVRSLIDEDOWNCB" -> IF k + ins.c < VLMAX THEN k + ins.c ELSE Zero
        [] op = "emitVRSLIDE1UPCB" -> IF k = 0 THEN Rs1 ELSE k - 1
        [] op = "emitVRSLIDE1DOWNCB" -> IF k = vl - 1 THEN Rs1 ELSE k + 1
        [] op \in {"emitVRRGATHERCB", "emitVIRGATHERCB"} ->
             IF GatherIndex(ins, k) < VLMAX THEN GatherIndex(ins, k) ELSE Zero
        [] OTHER -> k

(* The results: locations and what goes there. *)
Results ==
  LET At(k) == ArgBits(ins, env, 0, k)
      op    == ins.row.tcb
  IN  CASE op \in {"emitVStUCB", "emitVStSCB", "emitVStICB"} -> {}
        [] op \in {"emitVLdUCB", "emitVLdSCB", "emitVLdICB"} ->
             {<<FieldBits(ins, env, f, k), k>> : f \in 0..NF(ins), k \in Elements}
        [] op = "emitVRSLIDEUPCB" -> {<<At(k), ResultOf(k)>> : k \in {j \in Elements : j >= ins.c}}
        [] op = "emitVRMERGETCB" -> {<<At(k), k>> : k \in Body}
        [] op = "emitVCOMPRESSCB" ->
             {<<At(Cardinality({j \in Elements : j < k})), k>> : k \in Elements}
        [] ins.row.end = "endVRedCB" \/ op \in {"emitVMVSX", "emitVFMVSF"} ->
             IF Body = {} THEN {} ELSE {<<At(0), 0>>}
        [] OTHER -> {<<At(k), ResultOf(k)>> : k \in Elements}

(* The X register result. *)
ScalarResult ==
  CASE ins.row.tcb = "emitVPOPCCB" -> Cardinality(SetBits)
    [] ins.row.tcb = "emitVFIRSTCB" ->
         IF SetBits = {} THEN -1 ELSE CHOOSE k \in SetBits : SetBelow(k) = {}
    [] ins.row.tcb = "emitVEXTXV" -> IF ins.c < VLEN \div SEW(ins, env) THEN ins.c ELSE Zero
    [] ins.row.tcb = "emitVFMVFS" -> 0
    [] OTHER -> NoResult

(* A completed instruction has put the result of every selected element of *)
(* the body in its place, and the loop, its masks and temporaries computed *)
(* the same as the definition of the instruction does for all elements     *)
(* together; every other location it wrote was cleared as part of a tail,  *)
(* or is a field of the element where a fault-only-first load stopped.     *)
(* This holds through faults and restarts.                                 *)
BodyExact ==
  pc = "done" /\ vl # 0 =>
    /\ \A res \in Results : \A l \in res[1] : l \in DOMAIN file /\ file[l] = res[2]
    /\ xd = ScalarResult
    /\ \A l \in DOMAIN file \ UNION {res[1] : res \in Results} :
         \/ file[l] = Zero /\ riscvVFSupport(env.conf.version, "ZERO_TAIL")
         \/ ins.ff /\ vl # env.vl /\ file[l] = vl

(* The tail of the destination: its locations past element vl. *)
TailBits ==
  LET mulE == getWidthMultiplierN(ins.shape, 0)
      past == vl..(VLMAX - 1)
  IN  CASE isScalarN(ins.shape, 0) ->
             IF Body = {} THEN {} ELSE RegisterBits(ins.r[0], 1) \ ArgBits(ins, env, 0, 0)
        [] isMaskN(ins.shape, 0) -> UNION {ArgBits(ins, env, 0, k) : k \in past}
        [] OTHER -> UNION {ElementBits(ins.r[0] + f * VLMUL(ins, env), k, VLMUL(ins, env) * mulE,
                                       SEW(ins, env) * mulE, FALSE) : f \in 0..NF(ins), k \in past}

(* In version 0.7.1 a completed instruction leaves zero in the elements of *)
(* its destination past vl and keeps those before vstart, unless a         *)
(* fault-only-first load was cut short: those registers are left alone.    *)
TailZeroed ==
  pc = "done" /\ vl # 0 /\ riscvVFSupport(env.conf.version, "ZERO_TAIL") /\ isVReg(ins.r[0]) /\ ~isWhole(ins) =>
    IF ins.ff /\ vl # env.vl
    THEN \A l \in DOMAIN file : file[l] # Zero
    ELSE ~(ins.ff /\ Body = {}) => \A l \in TailBits : l \in DOMAIN file /\ file[l] = Zero

(* An element is processed once, in order, and none is left out, whatever  *)
(* faults interrupt the loop: a vector AMO updates memory once for each    *)
(* selected element.                                                       *)
ProcessedOnce ==
  /\ \A p \in 1..(Len(order) - 1) : order[p] < order[p + 1]
  /\ pc = "done" /\ vl # 0 /\ ins.row.morph = "emitVectorOp" => {order[p] : p \in DOMAIN order} = Elements

(* The fault-only-first indication is on only in the element loop of such  *)
(* a load, so handleFF never suppresses the fault of another instruction;  *)
(* vl is what it was unless such a load was cut short, past element zero.  *)
FaultOnlyFirst ==
  /\ vFirstFault => pc \in {"loop", "end"} /\ ins.ff
  /\ vl # env.vl => ins.ff /\ faults > 0 /\ vl > 0 /\ vl < env.vl

(* The operands of an element, its mask field included, lie in one column  *)
(* of SLEN bits of the registers, however wide they are: what striping the *)
(* registers of a group (offsetsLMULx) is for.                             *)
LanesAligned ==
  pc = "loop" /\ ~isWhole(ins) =>
    \A a \in 0..3 :
      isVReg(ins.r[a]) /\ ~isScalarN(ins.shape, a) =>
        \A l \in ArgBits(ins, env, a, vstart) :
          ((l * GRAN) % VLEN) \div SLEN = (vstart * MLEN(ins, env)) \div SLEN

(* A vector instruction comes to its end. *)
Completes == (pc = "loop") ~> (pc = "done")

=============================================================================
