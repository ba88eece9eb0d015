------------------------------- MODULE ScalarOp ------------------------------
(***************************************************************************)
(* The integer, jump, load, store and atomic instructions, each as the     *)
(* sequence of VMI operations its callback emits.  The state m holds the X *)
(* registers and temporaries, one memory location, the program counter and *)
(* the exception taken; once one is taken the rest is not executed.        *)
(*                                                                         *)
(* Widths are small: XLEN and WORD bits stand for 64 and 32, BYTE for 8.   *)
(* Endianness and transactional accesses are left out, as are the delay    *)
(* slots that only an extension library can create.                        *)
(***************************************************************************)
EXTENDS Integers

CONSTANTS
  XLEN,   \* bits of an X register
  WORD,   \* bits of a word instruction's operands
  BYTE    \* bits of a byte

ASSUME ScalarAssumption ==
  /\ XLEN \in Nat /\ WORD \in Nat /\ BYTE \in Nat
  /\ 1 < BYTE /\ BYTE <= WORD /\ WORD < XLEN

-----------------------------------------------------------------------------
(* Registers: x0 is VMI_NOREG                                              *)

Low(v, bits)   == v % (2^bits)
Signed(v, bits) == IF Low(v, bits) >= 2^(bits - 1) THEN Low(v, bits) - 2^bits ELSE Low(v, bits)

VMI_NOREG == 0

Read(m, r, bits) == IF r = VMI_NOREG THEN 0 ELSE Low(m.x[r], bits)

(* An operation of some bits leaves the higher bits of its target. *)
Write(m, r, bits, v) ==
  IF r = VMI_NOREG THEN m
  ELSE [m EXCEPT !.x[r] = (@ - Low(@, bits)) + Low(v, bits)]

(* For an X register: sign extension to the register width. *)
riscvWriteRegSize(m, r, srcBits) == Write(m, r, XLEN, Signed(Read(m, r, srcBits), srcBits))

writeReg(m, r, bits) == riscvWriteRegSize(m, r, bits)

-----------------------------------------------------------------------------
(* VMI operations and conditions                                           *)

vmiBinop(op, bits, a, b) ==
  CASE op = "ADD" -> Low(a + b, bits)
    [] op = "SUB" -> Low(a - b, bits)
    [] op = "MIN" -> IF a < b THEN a ELSE b
    [] op = "IMIN" -> IF Signed(a, bits) < Signed(b, bits) THEN a ELSE b

(* vmimtMulopRRR, the higher half of the product. *)
vmiMulopH(op, bits, a, b) ==
  Low(((IF op = "MUL" THEN a ELSE Signed(a, bits)) * (IF op = "IMUL" THEN Signed(b, bits) ELSE b))
        \div (2^bits), bits)

vmiCond(cond, bits, a, b) ==
  CASE cond = "EQ" -> a = b
    [] cond = "NE" -> a # b
    [] cond = "L"  -> Signed(a, bits) < Signed(b, bits)
    [] cond = "NL" -> Signed(a, bits) >= Signed(b, bits)
    [] cond = "B"  -> a < b
    [] cond = "NB" -> a >= b

Flag(b) == IF b THEN 1 ELSE 0

(* Memory: the bits at address a, when the accesses there are allowed. *)
NaturallyAligned(memBits, a) == a % (memBits \div BYTE) = 0

Faults(m, memBits, a, constraint, access) ==
  (constraint = "ALIGNED" /\ ~NaturallyAligned(memBits, a)) \/ access \notin m.allowed

Trap(m, cause) == [m EXCEPT !.trap = cause]

vmimtTryStore(m, memBits, a, constraint) ==
  IF Faults(m, memBits, a, constraint, "W") THEN Trap(m, "Store") ELSE m

vmimtLoad(m, rdBits, memBits, rd, a, sExtend, constraint) ==
  IF Faults(m, memBits, a, constraint, "R") THEN Trap(m, "Load")
  ELSE Write(m, rd, rdBits, IF sExtend THEN Signed(m.mem, memBits) ELSE Low(m.mem, memBits))

vmimtStore(m, memBits, a, v, constraint) ==
  IF Faults(m, memBits, a, constraint, "W") THEN Trap(m, "Store")
  ELSE [m EXCEPT !.mem = (@ - Low(@, memBits)) + Low(v, memBits)]

(* The next operation of a sequence, unless an exception was taken. *)
Then(m, next) == IF m.trap = "none" THEN next ELSE m

(* vmimtUncondJumpReg and the others: the link is written with the jump. *)
Jump(m, lr, linkPC, tgt) == [Write(m, lr, XLEN, linkPC) EXCEPT !.pc = tgt - (tgt % 2)]

tmp1 == 100
tmp2 == 101

-----------------------------------------------------------------------------
(* Instruction callbacks.  i is the decoded instruction: its registers r,  *)
(* width bits, constant c, operation op and, where they matter, memBits    *)
(* and unsExt; thisPC and bytes are the instruction's place and size.      *)

emitNOP(m, i) == m

emitMoveRR(m, i) == writeReg(Write(m, i.r[0], i.bits, Read(m, i.r[1], i.bits)), i.r[0], i.bits)

emitMoveRC(m, i) == writeReg(Write(m, i.r[0], i.bits, i.c), i.r[0], i.bits)

emitMoveRPC(m, i) ==
  LET m1 == Write(m, i.r[0], i.bits, m.pc)
      m2 == Write(m1, i.r[0], i.bits, vmiBinop("ADD", i.bits, Read(m1, i.r[0], i.bits), i.c))
  IN writeReg(m2, i.r[0], i.bits)

emitBinopRRR(m, i) ==
  writeReg(Write(m, i.r[0], i.bits, vmiBinop(i.op, i.bits, Read(m, i.r[1], i.bits), Read(m, i.r[2], i.bits))),
           i.r[0], i.bits)

emitMulopHRRR(m, i) ==
  writeReg(Write(m, i.r[0], i.bits, vmiMulopH(i.op, i.bits, Read(m, i.r[1], i.bits), Read(m, i.r[2], i.bits))),
           i.r[0], i.bits)

emitBinopRRC(m, i) ==
  writeReg(Write(m, i.r[0], i.bits, vmiBinop(i.op, i.bits, Read(m, i.r[1], i.bits), Low(i.c, i.bits))),
           i.r[0], i.bits)

(* The comparison writes one byte. *)
emitCmpopRRR(m, i) ==
  riscvWriteRegSize(
    Write(m, i.r[0], BYTE, Flag(vmiCond(i.op, i.bits, Read(m, i.r[1], i.bits), Read(m, i.r[2], i.bits)))),
    i.r[0], BYTE)

emitCmpopRRC(m, i) ==
  riscvWriteRegSize(
    Write(m, i.r[0], BYTE, Flag(vmiCond(i.op, i.bits, Read(m, i.r[1], i.bits), Low(i.c, i.bits)))),
    i.r[0], BYTE)

getLoadStoreConstraint(m) == IF m.unaligned THEN "NONE" ELSE "ALIGNED"

getLoadStoreConstraintAMO(m) == IF m.unaligned /\ m.unalignedAMO THEN "NONE" ELSE "ALIGNED"

Address(m, ra, c) == Low(Read(m, ra, XLEN) + c, XLEN)

emitLoad(m, i) ==
  LET m1 == vmimtLoad(m, i.bits, i.memBits, i.r[0], Address(m, i.r[1], i.c), ~i.unsExt, getLoadStoreConstraint(m))
  IN Then(m1, writeReg(m1, i.r[0], i.bits))

emitStore(m, i) ==
  vmimtStore(m, i.memBits, Address(m, i.r[1], i.c), Read(m, i.r[0], i.memBits), getLoadStoreConstraint(m))

isTargetAddressAlignedC(m, tgt) == (tgt \div 2) % 2 = 0 \/ m.C

emitTargetAddressUnalignedC(m) == Trap(m, "Misaligned")

emitBranchRR(m, i) ==
  LET taken == vmiCond(i.op, i.bits, Read(m, i.r[0], i.bits), Read(m, i.r[1], i.bits))
      m1    == IF ~isTargetAddressAlignedC(m, i.c) /\ taken THEN emitTargetAddressUnalignedC(m) ELSE m
  IN Then(m1, IF taken THEN Jump(m1, VMI_NOREG, 0, i.c) ELSE m1)

getLinkPC(m, i) == m.pc + i.bytes

emitJAL(m, i) ==
  LET m1 == IF isTargetAddressAlignedC(m, i.c) THEN m ELSE emitTargetAddressUnalignedC(m)
  IN Then(m1, Jump(m1, i.r[0], getLinkPC(m1, i), i.c))

checkTargetAddressAlignedR(m, ra) ==
  IF ~m.C /\ (Read(m, ra, XLEN) \div 2) % 2 = 1 THEN Trap(m, "Misaligned") ELSE m

(* Faulty variant: the link is written first. *)
emitJALR_LinkFirst(m, i) ==
  LET m0 == Write(m, i.r[0], XLEN, getLinkPC(m, i))
      ra == IF i.c = 0 THEN i.r[1] ELSE tmp1
      m1 == IF i.c = 0 THEN m0 ELSE Write(m0, tmp1, XLEN, Read(m0, i.r[1], XLEN) + i.c)
      m2 == checkTargetAddressAlignedR(m1, ra)
  IN Then(m2, Jump(m2, VMI_NOREG, 0, Read(m2, ra, XLEN)))

emitJALR(m, i) ==
  LET ra == IF i.c = 0 THEN i.r[1] ELSE tmp1
      m1 == IF i.c = 0 THEN m ELSE Write(m, tmp1, XLEN, vmiBinop("ADD", XLEN, Read(m, i.r[1], XLEN), i.c))
      m2 == checkTargetAddressAlignedR(m1, ra)
  IN Then(m2, Jump(m2, i.r[0], getLinkPC(m2, i), Read(m2, ra, XLEN)))

-----------------------------------------------------------------------------
(* Atomic memory operations                                                *)

(* emitAMOBinopRRRCB, or emitAMOSwapRRRCB. *)
AMOResult(op, bits, loaded, rs) == IF op = "SWAP" THEN rs ELSE vmiBinop(op, bits, loaded, rs)

(* emitTryStoreCommon, so that an inaccessible location gives a Store/AMO  *)
(* exception, then load, operation, store and result.                      *)
emitAMOCommonInt(m, op, rd, rs, ra, bits) ==
  LET a  == Address(m, ra, 0)
      k  == getLoadStoreConstraintAMO(m)
      m1 == vmimtTryStore(m, bits, a, k)
      m2 == Then(m1, vmimtLoad(m1, bits, bits, tmp1, a, TRUE, k))
      m3 == Then(m2, Write(m2, tmp2, bits, AMOResult(op, bits, Read(m2, tmp1, bits), Read(m2, rs, bits))))
      m4 == Then(m3, vmimtStore(m3, bits, a, Read(m3, tmp2, bits), k))
  IN Then(m4, Write(m4, rd, bits, Read(m4, tmp1, bits)))

emitAMOCommonRRR(m, i) ==
  LET m1 == emitAMOCommonInt(m, i.op, i.r[0], i.r[1], i.r[2], i.bits)
  IN Then(m1, writeReg(m1, i.r[0], i.bits))

=============================================================================
