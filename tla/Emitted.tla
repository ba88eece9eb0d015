------------------------------- MODULE Emitted -------------------------------
(***************************************************************************)
(* One instruction, or one element of a vector instruction, executed as    *)
(* the operations that its callback emits (ScalarOp, ElementOp), and what  *)
(* the instruction should have done, stated over the integers and over the *)
(* operands it started with.                                               *)
(***************************************************************************)
EXTENDS ScalarOp, ElementOp, TLC

CONSTANTS
  Values,        \* X register values
  Accumulators,  \* values of a wide accumulator
  JumpTargets

VARIABLES
  ins,    \* the instruction
  from,   \* the state it starts in
  done,   \* has it been executed?
  to      \* the state it leaves

vars == <<ins, from, done, to>>

-----------------------------------------------------------------------------
(* The instructions and the states they start in                           *)

RMs == {"RNU", "RNE", "RDN", "ROD"}

Machine(x1, x2, mem, allowed, unaligned, unalignedAMO, C) ==
  [x |-> 1 :> x1 @@ 2 :> x2 @@ tmp1 :> 0 @@ tmp2 :> 0, mem |-> mem, pc |-> 8, trap |-> "none",
   allowed |-> allowed, unaligned |-> unaligned, unalignedAMO |-> unalignedAMO, C |-> C]

XRegisters(x1, x2) == Machine(x1, x2, 0, {"R", "W"}, FALSE, FALSE, TRUE)

Rs(a, b, c) == 0 :> a @@ 1 :> b @@ 2 :> c

Instruction(kind, op, r, bits, c, memBits, unsExt) ==
  [kind |-> kind, op |-> op, r |-> r, bits |-> bits, c |-> c, memBits |-> memBits, unsExt |-> unsExt, bytes |-> 4]

X == {0, 1, 2}

InitInteger ==
  \E x1, x2 \in Values, rd, rs1, rs2 \in X :
    /\ from = XRegisters(x1, x2)
    /\ \/ ins = Instruction("emitNOP", "NOP", Rs(rd, rs1, rs2), XLEN, 0, 0, FALSE)
       \/ \E op \in {"ADD", "SUB"}, bits \in {WORD, XLEN} :
            ins = Instruction("emitBinopRRR", op, Rs(rd, rs1, rs2), bits, 0, 0, FALSE)
       \/ \E op \in {"MUL", "IMUL", "IMULSU"} :
            ins = Instruction("emitMulopHRRR", op, Rs(rd, rs1, rs2), XLEN, 0, 0, FALSE)
       \/ \E op \in {"L", "B"} : ins = Instruction("emitCmpopRRR", op, Rs(rd, rs1, rs2), XLEN, 0, 0, FALSE)

InitConstant ==
  \E x1, x2, c \in Values, rd, rs1 \in X :
    /\ from = XRegisters(x1, x2)
    /\ \/ \E bits \in {WORD, XLEN} : ins = Instruction("emitBinopRRC", "ADD", Rs(rd, rs1, 0), bits, c, 0, FALSE)
       \/ \E op \in {"L", "B"} : ins = Instruction("emitCmpopRRC", op, Rs(rd, rs1, 0), XLEN, c, 0, FALSE)
       \/ ins = Instruction("emitMoveRR", "MV", Rs(rd, rs1, 0), XLEN, 0, 0, FALSE)
       \/ \E kind \in {"emitMoveRC", "emitMoveRPC"} : ins = Instruction(kind, "MV", Rs(rd, 0, 0), XLEN, c, 0, FALSE)

InitJump ==
  \E x1, x2 \in Values, r0, r1 \in X, C \in BOOLEAN :
    /\ from = Machine(x1, x2, 0, {}, FALSE, FALSE, C)
    /\ \/ \E op \in {"EQ", "NE", "L", "NL", "B", "NB"}, tgt \in JumpTargets :
            ins = Instruction("emitBranchRR", op, Rs(r0, r1, 0), XLEN, tgt, 0, FALSE)
       \/ \E tgt \in JumpTargets : ins = Instruction("emitJAL", "J", Rs(r0, 0, 0), XLEN, tgt, 0, FALSE)
       \/ \E c \in {0, 1, 2} : ins = Instruction("emitJALR", "J", Rs(r0, r1, 0), XLEN, c, 0, FALSE)

Loads ==
  {[bits |-> XLEN, memBits |-> n, unsExt |-> u] : n \in {BYTE, WORD}, u \in BOOLEAN}
    \cup {[bits |-> XLEN, memBits |-> XLEN, unsExt |-> FALSE]}

InitMemory ==
  \E x1, mem \in Values, allowed \in SUBSET {"R", "W"}, u, ua \in BOOLEAN :
    /\ from = Machine(x1, 5, mem, allowed, u, ua, TRUE)
    /\ \/ \E l \in Loads, c \in {0, 1}, r0, r1 \in X, kind \in {"emitLoad", "emitStore"} :
            ins = Instruction(kind, "M", Rs(r0, r1, 0), l.bits, c, l.memBits, l.unsExt)
       \/ \E op \in {"ADD", "MIN", "IMIN", "SWAP"}, bits \in {WORD, XLEN}, r0, r1 \in X :
            ins = Instruction("emitAMO", op, Rs(r0, r1, 1), bits, 0, bits, FALSE)

(* Elements: two narrow sources that may be one register, and a            *)
(* destination that may be one of them; wide registers have names of their *)
(* own (they may not overlap narrow ones).                                 *)
Element(a, b, c, wide, vxsat) ==
  [x |-> "a" :> a @@ "b" :> b @@ "c" :> c @@ "w0" :> wide @@ "w1" :> wide
           @@ "w2" :> 0 @@ "t0" :> 0 @@ "t1" :> 0 @@ "t2" :> 0, vxsat |-> vxsat]

N == 0..(2^SEW - 1)

VR(kind, op, rm, r) == [kind |-> kind, op |-> op, rm |-> rm, r |-> r, c |-> 0]

Operands == {Rs(Reg(d), Reg("a"), Reg(s)) : d \in {"a", "b", "c"}, s \in {"a", "b"}}

InitFixed ==
  \E a, b \in N, r \in Operands :
    /\ from = Element(a, b, 0, 0, a = 0)
    /\ \/ \E op \in {"ADDUQ", "ADDSQ", "SUBUQ", "SUBSQ"} : ins = VR("emitVRSBinaryCB", op, "RDN", r)
       \/ \E op \in {"ADDUH", "ADDSH", "SUBUH", "SUBSH"}, rm \in RMs : ins = VR("emitVRABinaryCB", op, rm, r)
       \/ \E op \in {"SHR", "SAR"}, rm \in RMs : ins = VR("emitVRRShiftIntCB", op, rm, r)
       \/ \E rm \in RMs : ins = VR("emitVRSMULCB", "IMUL", rm, r)
       \/ \E op \in {"MUL", "IMUL", "IMULSU"} : ins = VR("emitVRMulHIntCB", op, "RDN", r)

InitFixedConstant ==
  \E a, c \in N, d \in {"a", "c"}, rm \in RMs :
    /\ from = Element(a, 0, 0, 0, a = 0)
    /\ \/ \E op \in {"ADDUQ", "ADDSQ"} : ins = [VR("emitVISBinaryCB", op, "RDN", Rs(Reg(d), Reg("a"), Reg("a"))) EXCEPT !.c = c]
       \/ ins = [VR("emitVIABinaryCB", "ADDSH", rm, Rs(Reg(d), Reg("a"), Reg("a"))) EXCEPT !.c = c]
       \/ \E op \in {"SHR", "SAR"} :
            ins = [VR("emitVIRShiftIntCB", op, rm, Rs(Reg(d), Reg("a"), Reg("a"))) EXCEPT !.c = c]

(* vnclip: a wide source, shifted by the lower bits of b. *)
InitClip ==
  \E w \in 0..(2^(2 * SEW) - 1), sh \in 0..(2 * SEW - 1), rm \in RMs, op \in {"SHR", "SAR"} :
    /\ from = Element(0, sh, 0, w, FALSE)
    /\ ins = VR("VNCLIP", op, rm, Rs(Reg("c"), Reg("w1"), Reg("b")))

InitMultiplyAdd ==
  \E a, b \in N, r \in Operands :
    \/ \E c \in {0, 1, 7, 8, 15}, kind \in {"emitVRMAddIntCB", "emitVRMAccIntCB"}, op \in {"ADD", "SUB"} :
         /\ from = Element(a, b, c, 0, FALSE)
         /\ ins = VR(kind, op, "RDN", r)
    \/ \E w \in Accumulators, rm \in RMs, types \in {"UU", "SS", "SU", "US"} :
         /\ from = Element(a, b, 0, w, FALSE)
         /\ ins = VR("emitVRSMAccIntCB", types, rm, Rs(Reg("w0"), Reg("a"), Reg("b")))

F == 0..(2 * SIGN - 1)

InitFloat ==
  \E a, b \in F :
    /\ from = Element(a, b, 0, 0, FALSE)
    /\ \/ \E op \in {"FMIN", "FMAX"}, v \in {"2.2", "2.3"} : ins = VR("FMINMAX", op, v, Rs(Reg("c"), Reg("a"), Reg("b")))
       \/ \E op \in {"FSGNJ", "FSGNJN", "FSGNJX"}, r \in Operands : ins = VR("emitFSgn", op, "RDN", r)
       \/ ins = VR("emitFClass", "FCLASS", "RDN", Rs(Reg("c"), Reg("a"), Reg("b")))
       \/ \E op \in {"S", "U"}, bits \in {2, 3} :
            ins = [VR("emitFConvert", op, "RDN", Rs(Reg("c"), Reg("a"), Reg("b"))) EXCEPT !.c = bits]

Init ==
  /\ \/ InitInteger \/ InitConstant \/ InitJump \/ InitMemory
     \/ InitFixed \/ InitFixedConstant \/ InitClip \/ InitMultiplyAdd \/ InitFloat
  /\ done = FALSE
  /\ to = from

-----------------------------------------------------------------------------
(* Execution                                                               *)

ScalarKinds ==
  {"emitNOP", "emitMoveRR", "emitMoveRC", "emitMoveRPC", "emitBinopRRR", "emitMulopHRRR", "emitCmpopRRR",
   "emitBinopRRC", "emitCmpopRRC", "emitLoad", "emitStore", "emitBranchRR", "emitJAL", "emitJALR", "emitAMO"}

ExecuteScalar ==
  /\ ~done /\ ins.kind \in ScalarKinds
  /\ done' = TRUE
  /\ to' = CASE ins.kind = "emitNOP"       -> emitNOP(from, ins)
             [] ins.kind = "emitMoveRR"    -> emitMoveRR(from, ins)
             [] ins.kind = "emitMoveRC"    -> emitMoveRC(from, ins)
             [] ins.kind = "emitMoveRPC"   -> emitMoveRPC(from, ins)
             [] ins.kind = "emitBinopRRR"  -> emitBinopRRR(from, ins)
             [] ins.kind = "emitMulopHRRR" -> emitMulopHRRR(from, ins)
             [] ins.kind = "emitCmpopRRR"  -> emitCmpopRRR(from, ins)
             [] ins.kind = "emitBinopRRC"  -> emitBinopRRC(from, ins)
             [] ins.kind = "emitCmpopRRC"  -> emitCmpopRRC(from, ins)
             [] ins.kind = "emitLoad"      -> emitLoad(from, ins)
             [] ins.kind = "emitStore"     -> emitStore(from, ins)
             [] ins.kind = "emitBranchRR"  -> emitBranchRR(from, ins)
             [] ins.kind = "emitJAL"       -> emitJAL(from, ins)
             [] ins.kind = "emitJALR"      -> emitJALR(from, ins)
             [] ins.kind = "emitAMO"       -> emitAMOCommonRRR(from, ins)
  /\ UNCHANGED <<ins, from>>

FixedKinds ==
  {"emitVRSBinaryCB", "emitVISBinaryCB", "emitVRABinaryCB", "emitVIABinaryCB", "emitVRRShiftIntCB",
   "emitVIRShiftIntCB", "VNCLIP", "emitVRSMULCB", "emitVRSMAccIntCB"}

MultiplyKinds == {"emitVRMulHIntCB", "emitVRMAddIntCB", "emitVRMAccIntCB"}

(* vnclip: widenOperands gives the callback a wide temporary for the       *)
(* result, narrowResult saturates it.                                      *)
Clip(x, r, op, rm) ==
  LET wide == Rs(Reg("w0"), r[1], r[2])
      x1   == emitVRRShiftIntCB(x, wide, op, rm, 2 * SEW).x
  IN narrowResult(x1, Reg("w0"), r[0], op = "SAR")

(* vwsmacc: the sources are extended into temporaries first. *)
WideAccumulate(x, r, types, rm) ==
  LET x1 == Set(x, Reg("w1"), Widened(x, r, 1, types \in {"SS", "SU"}))
      x2 == Set(x1, Reg("w2"), Widened(x1, r, 2, types \in {"SS", "US"}))
  IN emitVRSMAccIntCB(x2, Rs(r[0], Reg("w1"), Reg("w2")), IF types = "UU" THEN "ADDUQ" ELSE "ADDSQ", rm, types # "UU")

Callback(x, i) ==
  CASE i.kind = "emitVRSBinaryCB"   -> emitVRSBinaryCB(x, i.r, i.op)
    [] i.kind = "emitVISBinaryCB"   -> emitVISBinaryCB(x, i.r, i.op, i.c)
    [] i.kind = "emitVRABinaryCB"   -> emitVRABinaryCB(x, i.r, i.op, i.rm)
    [] i.kind = "emitVIABinaryCB"   -> emitVIABinaryCB(x, i.r, i.op, i.rm, i.c)
    [] i.kind = "emitVRRShiftIntCB" -> emitVRRShiftIntCB(x, i.r, i.op, i.rm, SEW)
    [] i.kind = "emitVIRShiftIntCB" -> emitVIRShiftIntCB(x, i.r, i.op, i.rm, SEW, i.c)
    [] i.kind = "VNCLIP"            -> Clip(x, i.r, i.op, i.rm)
    [] i.kind = "emitVRSMULCB"      -> emitVRSMULCB(x, i.r, i.rm)
    [] i.kind = "emitVRSMAccIntCB"  -> WideAccumulate(x, i.r, i.op, i.rm)
    [] i.kind = "emitVRMulHIntCB"   -> emitVRMulHIntCB(x, i.r, i.op # "MUL", i.op = "IMUL")
    [] i.kind = "emitVRMAddIntCB"   -> emitVRMAddIntCB(x, i.r, i.op)
    [] i.kind = "emitVRMAccIntCB"   -> emitVRMAccIntCB(x, i.r, i.op)

(* updateVXSat accumulates the saturation flag. *)
ExecuteElement ==
  /\ ~done /\ ins.kind \in FixedKinds \cup MultiplyKinds
  /\ done' = TRUE
  /\ LET out == Callback(from.x, ins)
     IN to' = [x |-> out.x, vxsat |-> from.vxsat \/ out.sat]
  /\ UNCHANGED <<ins, from>>

FloatResult(x, i) ==
  CASE i.kind = "emitFSgn"     -> emitFSgnInt(x, i.r, i.op # "FSGNJX", i.op = "FSGNJN")
    [] i.kind = "emitFClass"   -> Set(x, i.r[0], doFClass(Value(x, i.r[1])))
    [] i.kind = "emitFConvert" -> Set(x, i.r[0], Converted(Value(x, i.r[1]), i.c, i.op = "S"))

ExecuteFloat ==
  /\ ~done /\ ins.kind \in {"emitFSgn", "emitFClass", "emitFConvert"}
  /\ done' = TRUE
  /\ to' = [from EXCEPT !.x = FloatResult(@, ins)]
  /\ UNCHANGED <<ins, from>>

(* vxsat stands here for the Invalid flag. *)
ExecuteMinMax ==
  /\ ~done /\ ins.kind = "FMINMAX"
  /\ done' = TRUE
  /\ \E raw \in RawMinMax(ins.op, from.x["a"], from.x["b"]) :
       LET out == getFPControl(ins.op, ins.rm, raw, from.x["a"], from.x["b"])
       IN to' = [from EXCEPT !.x["c"] = out.f, !.vxsat = out.I]
  /\ UNCHANGED <<ins, from>>

Finished == done /\ UNCHANGED vars

Next == ExecuteScalar \/ ExecuteElement \/ ExecuteFloat \/ ExecuteMinMax \/ Finished

Spec == Init /\ [][Next]_vars

-----------------------------------------------------------------------------
(* Properties                                                              *)

(* What an X register instruction writes, over the integers. *)
Rd1   == Read(from, ins.r[1], ins.bits)
Rd2   == Read(from, ins.r[2], ins.bits)
S(v)  == Signed(v, ins.bits)
Loaded == IF ins.unsExt THEN Low(from.mem, ins.memBits) ELSE Signed(from.mem, ins.memBits)

Result ==
  CASE ins.kind = "emitMoveRR"    -> Rd1
    [] ins.kind = "emitMoveRC"    -> ins.c
    [] ins.kind = "emitMoveRPC"   -> from.pc + ins.c
    [] ins.kind = "emitBinopRRR"  -> S(IF ins.op = "ADD" THEN Rd1 + Rd2 ELSE Rd1 - Rd2)
    [] ins.kind = "emitBinopRRC"  -> S(Rd1 + ins.c)
    [] ins.kind = "emitMulopHRRR" ->
         ((IF ins.op = "MUL" THEN Rd1 ELSE S(Rd1)) * (IF ins.op = "IMUL" THEN S(Rd2) ELSE Rd2)) \div (2^ins.bits)
    [] ins.kind = "emitCmpopRRR"  -> Flag(IF ins.op = "L" THEN S(Rd1) < S(Rd2) ELSE Rd1 < Rd2)
    [] ins.kind = "emitCmpopRRC"  -> Flag(IF ins.op = "L" THEN S(Rd1) < S(ins.c) ELSE Rd1 < ins.c)
    [] ins.kind = "emitLoad"      -> Loaded
    [] ins.kind = "emitAMO"       -> S(from.mem)
    [] ins.kind \in {"emitJAL", "emitJALR"} -> from.pc + ins.bytes

(* An integer instruction, a load, an atomic operation or a jump that      *)
(* takes no exception writes its destination, sign-extended, with the      *)
(* function of the operands it started with, and no other X register:      *)
(* whichever of them are one register or x0, and although the emitted      *)
(* operations write parts of it in several steps.                          *)
ScalarExact ==
  done /\ ins.kind \in ScalarKinds /\ to.trap = "none"
    => \A n \in {1, 2} :
         to.x[n] = IF ins.kind \notin {"emitNOP", "emitStore", "emitBranchRR"} /\ ins.r[0] = n
                   THEN Low(Result, XLEN) ELSE from.x[n]

(* An instruction that takes an exception changes nothing else: a load or  *)
(* AMO that faults keeps its destination, a jump to a misaligned target    *)
(* does not write its link, an AMO that fails does not write memory.       *)
TrapChangesNothing ==
  done /\ ins.kind \in ScalarKinds /\ to.trap # "none"
    => /\ \A n \in {1, 2} : to.x[n] = from.x[n]
       /\ to.mem = from.mem
       /\ to.pc = from.pc

AMOAddress == Address(from, ins.r[2], 0)

(* An atomic operation at a location that may not be written, or that is   *)
(* not aligned when it has to be, takes a Store/AMO exception, never a     *)
(* Load one, even where reading is not allowed either; unaligned atomics   *)
(* need both configuration parameters.                                     *)
AMOFaultIsStore ==
  done /\ ins.kind = "emitAMO"
    => (to.trap = "Store") <=> (\/ "W" \notin from.allowed
                                \/ /\ ~(from.unaligned /\ from.unalignedAMO)
                                   /\ ~NaturallyAligned(ins.bits, AMOAddress))

JumpTarget ==
  IF ins.kind = "emitJALR" THEN Low(Read(from, ins.r[1], XLEN) + ins.c, XLEN) ELSE ins.c

Taken ==
  \/ ins.kind \in {"emitJAL", "emitJALR"}
  \/ LET a == Read(from, ins.r[0], XLEN)
         b == Read(from, ins.r[1], XLEN)
     IN CASE ins.op = "EQ" -> a = b
          [] ins.op = "NE" -> a # b
          [] ins.op = "L"  -> S(a) < S(b)
          [] ins.op = "NL" -> S(a) >= S(b)
          [] ins.op = "B"  -> a < b
          [] ins.op = "NB" -> a >= b

(* A branch or jump goes where it should, also when it overwrites the      *)
(* register it jumps to; it takes an Instruction Address Misaligned        *)
(* exception exactly if it is taken, its target is not a multiple of four  *)
(* and there are no compressed instructions.                               *)
JumpsExact ==
  done /\ ins.kind \in {"emitBranchRR", "emitJAL", "emitJALR"}
    => LET bad == Taken /\ ~from.C /\ JumpTarget % 4 \in {2, 3}
       IN /\ (to.trap = "Misaligned") <=> bad
          /\ to.pc = IF Taken /\ ~bad THEN JumpTarget - (JumpTarget % 2) ELSE from.pc

(* v divided by 2^d and rounded: to the nearest, ties up or to even, down, *)
(* or to odd.                                                              *)
RoundOff(v, d, rm) ==
  LET down == v \div (2^d)
      rest == v - (down * (2^d))
  IN CASE rest = 0   -> down
       [] rm = "RDN" -> down
       [] rm = "ROD" /\ rest # 0 -> IF down % 2 = 1 THEN down ELSE down + 1
       [] rm = "RNU" /\ rest # 0 -> IF 2 * rest >= 2^d THEN down + 1 ELSE down
       [] rm = "RNE" /\ rest # 0 -> IF 2 * rest > 2^d \/ (2 * rest = 2^d /\ down % 2 = 1) THEN down + 1 ELSE down

(* A scalar instruction does what it is defined to do, taking the right    *)
(* exception or none, whichever of its operands coincide.                  *)
ScalarCorrect == ScalarExact /\ TrapChangesNothing /\ AMOFaultIsStore /\ JumpsExact

V1(signed) == Number(from.x[ins.r[1].n], SEW, signed)
V2(signed) == IF ins.kind \in {"emitVISBinaryCB", "emitVIABinaryCB"} THEN Number(ins.c, SEW, signed)
              ELSE Number(from.x[ins.r[2].n], SEW, signed)

IsSigned == ins.op \in {"ADDSQ", "SUBSQ", "ADDSH", "SUBSH", "SAR", "IMUL", "SS", "SU", "US"}
Combined == IF ins.op \in {"ADDUQ", "ADDSQ", "ADDUH", "ADDSH"} THEN V1(IsSigned) + V2(IsSigned)
                                                             ELSE V1(IsSigned) - V2(IsSigned)

Exact(v) == [v |-> v, bits |-> SEW, signed |-> IsSigned, clamps |-> TRUE]

(* The result before it is limited to the destination's range, and whether *)
(* it is limited (saturating) or wraps.                                    *)
FixedResult ==
  CASE ins.kind \in {"emitVRSBinaryCB", "emitVISBinaryCB"} -> Exact(Combined)
    [] ins.kind \in {"emitVRABinaryCB", "emitVIABinaryCB"} ->
         [Exact(RoundOff(Combined, 1, ins.rm)) EXCEPT !.clamps = FALSE]
    [] ins.kind = "emitVRRShiftIntCB" ->
         [Exact(RoundOff(V1(IsSigned), V2(FALSE) % SEW, ins.rm)) EXCEPT !.clamps = FALSE]
    [] ins.kind = "emitVIRShiftIntCB" ->
         [Exact(RoundOff(V1(IsSigned), ins.c % SEW, ins.rm)) EXCEPT !.clamps = FALSE]
    [] ins.kind = "VNCLIP" ->
         Exact(RoundOff(Number(from.x["w1"], 2 * SEW, IsSigned), from.x["b"], ins.rm))
    [] ins.kind = "emitVRSMULCB" -> Exact(RoundOff(V1(TRUE) * V2(TRUE), SEW - 1, ins.rm))
    [] ins.kind = "emitVRSMAccIntCB" ->
         [v |-> Number(from.x["w0"], 2 * SEW, IsSigned)
                  + RoundOff(V1(ins.op \in {"SS", "SU"}) * V2(ins.op \in {"SS", "US"}), SEW \div 2, ins.rm),
          bits |-> 2 * SEW, signed |-> IsSigned, clamps |-> TRUE]

(* A fixed-point instruction gives the exact result, rounded as vxrm says  *)
(* and limited to the range of the destination, and vxsat becomes set      *)
(* exactly when it was limited and is never cleared: in place or not, for  *)
(* every rounding mode.                                                    *)
FixedPointExact ==
  done /\ ins.kind \in FixedKinds
    => LET e == FixedResult
           limited == e.clamps /\ Clamp(e.v, e.bits, e.signed) # e.v
       IN /\ to.x[ins.r[0].n] = Wrap(IF e.clamps THEN Clamp(e.v, e.bits, e.signed) ELSE e.v, e.bits)
          /\ to.vxsat = (from.vxsat \/ limited)

(* The multiply-add instructions overwrite the operand they should with    *)
(* the right sum, and a high product is right in either signedness, also   *)
(* when registers coincide.                                                *)
MultiplyExact ==
  done /\ ins.kind \in MultiplyKinds
    => LET d == from.x[ins.r[0].n]
           sign == IF ins.op = "SUB" THEN -1 ELSE 1
           want == CASE ins.kind = "emitVRMAddIntCB" -> V2(FALSE) + (sign * V1(FALSE) * d)
                     [] ins.kind = "emitVRMAccIntCB" -> d + (sign * V1(FALSE) * V2(FALSE))
                     [] ins.kind = "emitVRMulHIntCB" -> (V1(ins.op # "MUL") * V2(ins.op = "IMUL")) \div (2^SEW)
       IN to.x[ins.r[0].n] = Wrap(want, SEW)

A == from.x["a"]
B == from.x["b"]
C == to.x["c"]

(* FMIN and FMAX give an operand that is not a NaN if there is one, the    *)
(* default NaN otherwise; the result is at most (at least) both operands;  *)
(* from version 2.3 -0 is less than +0 and a signalling NaN counts as a    *)
(* quiet one, before it the result is then the default NaN.  Invalid is    *)
(* raised for signalling NaNs alone.                                       *)
MinMaxExact ==
  done /\ ins.kind = "FMINMAX"
    => /\ to.vxsat = (isSNaN(A) \/ isSNaN(B))
       /\ IF (isNaN(A) /\ isNaN(B)) \/ (to.vxsat /\ ins.rm = "2.2") THEN C = DEFAULT_QNAN
          ELSE /\ C \in {A, B} /\ ~isNaN(C)
               /\ \A f \in {A, B} : ~isNaN(f) =>
                    IF ins.op = "FMIN" THEN Order(C) <= Order(f) ELSE Order(C) >= Order(f)
               /\ ins.rm = "2.3" /\ isZero(A) /\ isZero(B) /\ A # B => FP_SIGN(C) = (ins.op = "FMIN")

(* Sign injection takes all but the sign from the first operand and the    *)
(* sign that the operation gives from the two, in place or not.            *)
SignInjected ==
  done /\ ins.kind = "emitFSgn"
    => LET f1 == from.x[ins.r[1].n]
           f2 == from.x[ins.r[2].n]
           fd == to.x[ins.r[0].n]
       IN /\ fd % SIGN = f1 % SIGN
          /\ FP_SIGN(fd) = CASE ins.op = "FSGNJ"  -> FP_SIGN(f2)
                             [] ins.op = "FSGNJN" -> ~FP_SIGN(f2)
                             [] ins.op = "FSGNJX" -> FP_SIGN(f1) # FP_SIGN(f2)

(* Classification follows the order of the values: a value is in a class   *)
(* no higher than a greater one, zeros and infinities are alone in theirs, *)
(* and NaNs are told apart.                                                *)
ClassOrdered ==
  done /\ ins.kind = "emitFClass"
    => /\ isNaN(A) <=> C >= 8
       /\ isNaN(A) => (isSNaN(A) <=> C = 8)
       /\ ~isNaN(A) /\ ~isNaN(B) =>
            /\ Order(A) < Order(B) => C <= doFClass(B)
            /\ isZero(A) \/ isInf(A) => (C = doFClass(B) <=> A = B)

(* A conversion to an integer type that cannot hold the value gives the    *)
(* nearest integer it holds; a NaN, of either sign, the greatest.          *)
ConvertClamps ==
  done /\ ins.kind = "emitFConvert"
    => LET signed == ins.op = "S"
       IN C = Wrap(IF isNaN(A) \/ A = DEFAULT_QNAN - QNAN_MASK THEN Greatest(ins.c, signed)
                   ELSE IF isInf(A) THEN Least(ins.c, signed)
                   ELSE Clamp(Truncated(A), ins.c, signed), ins.c)

(* One element of a vector instruction, or one floating point operation,   *)
(* gives the result it is defined to give at every edge of its operands.   *)
ElementCorrect ==
  FixedPointExact /\ MultiplyExact /\ MinMaxExact /\ SignInjected /\ ClassOrdered /\ ConvertClamps

=============================================================================
