------------------------------ MODULE ElementOp ------------------------------
(***************************************************************************)
(* The arithmetic of one element: what the per-element callbacks of the    *)
(* fixed-point and multiply instructions, the floating point result        *)
(* handlers and the sign-injection and classification code compute.        *)
(*                                                                         *)
(* A callback is the sequence of VMI operations it emits, each reading and *)
(* writing registers: x is the register contents, and the operands of an   *)
(* instruction may be the same register.  Values are naturals below 2^bits.*)
(* Widths are small: the code is the same for each element width, and one  *)
(* small floating point format stands for the 16-, 32- and 64-bit ones.    *)
(***************************************************************************)
EXTENDS Integers

CONSTANTS
  SEW,    \* the element width
  EXP,    \* exponent bits of a floating point value
  FRAC    \* fraction bits

ASSUME ElementAssumption ==
  /\ SEW \in {4, 8}
  /\ EXP \in Nat \ {0, 1}
  /\ FRAC \in Nat \ {0, 1}

-----------------------------------------------------------------------------
(* VMI integer operations.  Each gives the result and the flag (carry for  *)
(* an unsigned operation, overflow for a signed one).                      *)

Wrap(v, bits)     == v % (2^bits)
SignedOf(v, bits) == IF v >= 2^(bits - 1) THEN v - 2^bits ELSE v
Number(v, bits, signed) == IF signed THEN SignedOf(v, bits) ELSE v

Least(bits, signed)    == IF signed THEN -(2^(bits - 1)) ELSE 0
Greatest(bits, signed) == IF signed THEN 2^(bits - 1) - 1 ELSE 2^bits - 1

Clamp(v, bits, signed) ==
  IF v < Least(bits, signed) THEN Least(bits, signed)
  ELSE IF v > Greatest(bits, signed) THEN Greatest(bits, signed)
  ELSE v

Saturated(v, bits, signed) == [v |-> Wrap(Clamp(v, bits, signed), bits), flag |-> Clamp(v, bits, signed) # v]
Unflagged(v, bits) == [v |-> Wrap(v, bits), flag |-> FALSE]

Binop(op, bits, a, b) ==
  LET sa == SignedOf(a, bits)
      sb == SignedOf(b, bits)
  IN CASE op = "ADD"   -> Unflagged(a + b, bits)
       [] op = "SUB"   -> Unflagged(a - b, bits)
       [] op = "MUL"   -> Unflagged(a * b, bits)
       [] op = "ADDUQ" -> Saturated(a + b, bits, FALSE)
       [] op = "ADDSQ" -> Saturated(sa + sb, bits, TRUE)
       [] op = "SUBUQ" -> Saturated(a - b, bits, FALSE)
       [] op = "SUBSQ" -> Saturated(sa - sb, bits, TRUE)
       [] op = "ADDUH" -> Unflagged((a + b) \div 2, bits)
       [] op = "ADDSH" -> Unflagged((sa + sb) \div 2, bits)
       [] op = "SUBUH" -> Unflagged((a - b) \div 2, bits)
       [] op = "SUBSH" -> Unflagged((sa - sb) \div 2, bits)
       [] op = "SHL"   -> Unflagged(a * (2^b), bits)
       [] op = "SHR"   -> Unflagged(a \div (2^b), bits)
       [] op = "SAR"   -> Unflagged(sa \div (2^b), bits)
       [] op = "SHLUQ" -> Saturated(a * (2^b), bits, FALSE)
       [] op = "SHLSQ" -> Saturated(sa * (2^b), bits, TRUE)
       [] op = "ROR"   -> Unflagged((a \div (2^b)) + (a * (2^(bits - b))), bits)
       [] op = "ROL"   -> Unflagged((a * (2^b)) + (a \div (2^(bits - b))), bits)

(* The double-width product, signed in either operand. *)
Product(bits, a, b, sa, sb) == Wrap(Number(a, bits, sa) * Number(b, bits, sb), 2 * bits)

(* An operand is a register or, in the VI forms, a constant. *)
Reg(n)   == [reg |-> TRUE, n |-> n]
Const(n) == [reg |-> FALSE, n |-> n]

Value(x, o)  == IF o.reg THEN x[o.n] ELSE o.n
Set(x, o, v) == [x EXCEPT ![o.n] = v]

t0 == Reg("t0")
t1 == Reg("t1")
t2 == Reg("t2")

-----------------------------------------------------------------------------
(* Fixed-point rounding                                                    *)

(* Faulty variant: ties are not told from other halves. *)
getRound_NoTie(rm, bits, result, discard) == 
  LET vdm1 == discard >= 2^(bits - 1)
  IN IF CASE rm = "RNU" -> vdm1
          [] rm = "RNE" -> vdm1
          [] rm = "RDN" -> FALSE
          [] rm = "ROD" -> result % 2 = 0 /\ discard # 0
     THEN 1 ELSE 0

(* The discarded bits are at the top of discard. *)
getRound(rm, bits, result, discard) ==
  LET msb  == 2^(bits - 1)
      vd   == result % 2 = 1
      vdm1 == discard >= msb
  IN IF CASE rm = "RNU" -> vdm1
          [] rm = "RNE" -> IF discard = msb THEN vd ELSE vdm1
          [] rm = "RDN" -> FALSE
          [] rm = "ROD" -> ~vd /\ discard # 0
     THEN 1 ELSE 0

emitGetFixedPointRoundingAdjust(x, rm, bits, rd, discard) ==
  Set(x, discard, getRound(rm, bits, Value(x, rd), Value(x, discard)))

emitFixedPointRounding(x, rm, bits, rd, discard) ==
  LET x1 == emitGetFixedPointRoundingAdjust(x, rm, bits, rd, discard)
  IN Set(x1, rd, Binop("ADD", bits, Value(x1, rd), Value(x1, discard)).v)

-----------------------------------------------------------------------------
(* Fixed-point callbacks: the registers afterwards and whether vxsat is    *)
(* set (updateVXSat).  r is the operands, r[0] the destination.            *)

Out(x, sat) == [x |-> x, sat |-> sat]

Saturating(x, r, op, arg2) ==
  LET res == Binop(op, SEW, Value(x, r[1]), Value(x, arg2))
  IN Out(Set(x, r[0], res.v), res.flag)

emitVRSBinaryCB(x, r, op)    == Saturating(x, r, op, r[2])
emitVISBinaryCB(x, r, op, c) == Saturating(x, r, op, Const(c))

(* The discarded bit is the exclusive or of the lowest bits. *)
Averaging(x, r, op, rm, arg2) ==
  LET x1 == Set(x, t0, Binop("ROR", SEW, (Value(x, r[1]) + Value(x, arg2)) % 2, 1).v)
      x2 == Set(x1, r[0], Binop(op, SEW, Value(x1, r[1]), Value(x1, arg2)).v)
  IN Out(emitFixedPointRounding(x2, rm, SEW, r[0], t0), FALSE)

emitVRABinaryCB(x, r, op, rm)    == Averaging(x, r, op, rm, r[2])
emitVIABinaryCB(x, r, op, rm, c) == Averaging(x, r, op, rm, Const(c))

emitVRRShiftIntCB(x, r, op, rm, bits) ==
  LET x0 == Set(x, t1, Value(x, r[1]))
      shr == Value(x0, r[2]) % bits
      x1 == Set(x0, t2, Binop("SHL", bits, Value(x0, t1), bits - shr).v)
      x2 == Set(x1, t1, Binop(op, bits, Value(x1, t1), shr).v)
      x3 == IF shr = 0 THEN x0 ELSE emitFixedPointRounding(x2, rm, bits, t1, t2)
  IN Out(Set(x3, r[0], Value(x3, t1)), FALSE)

emitVIRShiftIntCB(x, r, op, rm, bits, c) ==
  LET shr == c % bits
      x1  == Set(x, t0, Binop("SHL", bits, Value(x, r[1]), bits - shr).v)
      x2  == Set(x1, r[0], Binop(op, bits, Value(x1, r[1]), shr).v)
  IN IF shr = 0
     THEN Out(Set(x, r[0], Value(x, r[1])), FALSE)
     ELSE Out(emitFixedPointRounding(x2, rm, bits, r[0], t0), FALSE)

(* narrowResult: the wide result in r[0] is narrowed with saturation. *)
narrowResult(x, wide, rdNarrow, signed) ==
  LET res == Binop(IF signed THEN "SHLSQ" ELSE "SHLUQ", 2 * SEW, Value(x, wide), SEW)
  IN Out(Set(x, rdNarrow, res.v \div (2^SEW)), res.flag)

emitVRSMULCB(x, r, rm) ==
  LET p    == Product(SEW, Value(x, r[1]), Value(x, r[2]), TRUE, TRUE)
      x1   == Set(Set(x, r[0], p \div (2^SEW)), t1, Wrap(p, SEW))
      high == Binop("SHLSQ", SEW, Value(x1, r[0]), 1)
      x2   == Set(Set(x1, r[0], high.v), t1, Binop("ROL", SEW, Value(x1, t1), 1).v)
      low  == Value(x2, t1) % 2
      top  == Value(x2, r[0])
      x3   == Set(x2, r[0], IF top % 2 = 1 THEN top ELSE top + low)
      x4   == Set(x3, t1, Value(x3, t1) - low)
  IN Out(emitFixedPointRounding(x4, rm, SEW, r[0], t1), high.flag)

(* In the width of the accumulator, to which widenOperands has extended    *)
(* the sources.                                                            *)
emitVRSMAddIntInt(x, arg1, arg2, arg3, rd, op, rm, signed) ==
  LET bits  == 2 * SEW
      rBits == bits \div 4
      x1 == Set(x, t0, Binop("MUL", bits, Value(x, arg2), Value(x, arg3)).v)
      x2 == Set(x1, t1, Binop("ROR", bits, Value(x1, t0) % (2^rBits), rBits).v)
      x3 == Set(x2, t0, Binop(IF signed THEN "SAR" ELSE "SHR", bits, Value(x2, t0), rBits).v)
      x4 == emitFixedPointRounding(x3, rm, bits, t0, t1)
      res == Binop(op, bits, Value(x4, arg1), Value(x4, t0))
  IN Out(Set(x4, rd, res.v), res.flag)

emitVRSMAccIntCB(x, r, op, rm, signed) == emitVRSMAddIntInt(x, r[0], r[2], r[1], r[0], op, rm, signed)

(* widenOperands: source i extended to the width of the destination. *)
Widened(x, r, i, signed) == Wrap(Number(Value(x, r[i]), SEW, signed), 2 * SEW)

-----------------------------------------------------------------------------
(* Integer multiply                                                        *)

emitVRMulHIntCB(x, r, s1, s2) ==
  Out(Set(x, r[0], Product(SEW, Value(x, r[1]), Value(x, r[2]), s1, s2) \div (2^SEW)), FALSE)

emitVRMAddIntInt(x, arg1, arg2, arg3, rd, op) ==
  LET x1 == Set(x, t0, Binop("MUL", SEW, Value(x, arg2), Value(x, arg3)).v)
  IN Out(Set(x1, rd, Binop(op, SEW, Value(x1, arg1), Value(x1, t0)).v), FALSE)

emitVRMAddIntCB(x, r, op) == emitVRMAddIntInt(x, r[2], r[0], r[1], r[0], op)

emitVRMAccIntCB(x, r, op) == emitVRMAddIntInt(x, r[0], r[2], r[1], r[0], op)

-----------------------------------------------------------------------------
(* Floating point values: sign, exponent, fraction                         *)

FBITS == 1 + EXP + FRAC
SIGN  == 2^(EXP + FRAC)

FP_SIGN(f)     == f >= SIGN
FP_EXPONENT(f) == (f % SIGN) \div (2^FRAC)
FP_FRACTION(f) == f % (2^FRAC)

QNAN_MASK    == 2^(FRAC - 1)
DEFAULT_QNAN == ((2^EXP - 1) * (2^FRAC)) + QNAN_MASK

isNaNorInf(f) == FP_EXPONENT(f) = 2^EXP - 1
isNaN(f)    == isNaNorInf(f) /\ FP_FRACTION(f) # 0
isInf(f)    == isNaNorInf(f) /\ FP_FRACTION(f) = 0
isDenorm(f) == FP_EXPONENT(f) = 0 /\ FP_FRACTION(f) # 0
isZero(f)   == f % SIGN = 0
isQNaN(f)   == isNaN(f) /\ FP_FRACTION(f) >= QNAN_MASK
isSNaN(f)   == isNaN(f) /\ FP_FRACTION(f) < QNAN_MASK

(* The order of the values that are not NaNs: equal for the two zeros. *)
Order(f) == IF FP_SIGN(f) THEN -(f % SIGN) ELSE f

-----------------------------------------------------------------------------
(* FMIN and FMAX: VMI gives a result, a result handler adjusts it          *)

(* The unadjusted results: any NaN when an operand is one; of two equal    *)
(* operands, either.                                                       *)
RawMinMax(op, a, b) ==
  IF isNaN(a) \/ isNaN(b) THEN {f \in 0..(2 * SIGN - 1) : isNaN(f)}
  ELSE IF Order(a) = Order(b) THEN {a, b}
  ELSE IF (Order(a) < Order(b)) = (op = "FMIN") THEN {a} ELSE {b}

FOut(f, invalid) == [f |-> f, I |-> invalid]

doMinMax_2_2(result, a, b) ==
  IF isSNaN(a) \/ isSNaN(b) THEN FOut(DEFAULT_QNAN, TRUE)
  ELSE IF isNaN(a) /\ isNaN(b) THEN FOut(DEFAULT_QNAN, FALSE)
  ELSE IF isNaN(a) THEN FOut(b, FALSE)
  ELSE IF isNaN(b) THEN FOut(a, FALSE)
  ELSE FOut(result, FALSE)

doMinMax_2_3(result, a, b) ==
  FOut(IF isNaN(a) /\ isNaN(b) THEN DEFAULT_QNAN
       ELSE IF isNaN(a) THEN b
       ELSE IF isNaN(b) THEN a
       ELSE result,
       isSNaN(a) \/ isSNaN(b))

doFMin_2_2(result, a, b) ==
  IF isZero(a) /\ isZero(b) THEN FOut(b, FALSE)
  ELSE IF isNaNorInf(result) THEN doMinMax_2_2(result, a, b)
  ELSE FOut(result, FALSE)

doFMax_2_2(result, a, b) ==
  IF isZero(a) /\ isZero(b) THEN FOut(a, FALSE)
  ELSE IF isNaNorInf(result) THEN doMinMax_2_2(result, a, b)
  ELSE FOut(result, FALSE)

Zero(sign) == IF sign THEN SIGN ELSE 0

doFMin_2_3(result, a, b) ==
  IF isZero(a) /\ isZero(b) THEN FOut(Zero(FP_SIGN(a) \/ FP_SIGN(b)), FALSE)
  ELSE IF isNaNorInf(result) THEN doMinMax_2_3(result, a, b)
  ELSE FOut(result, FALSE)

doFMax_2_3(result, a, b) ==
  IF isZero(a) /\ isZero(b) THEN FOut(Zero(FP_SIGN(a) /\ FP_SIGN(b)), FALSE)
  ELSE IF isNaNorInf(result) THEN doMinMax_2_3(result, a, b)
  ELSE FOut(result, FALSE)

(* getFPControl: the handlers change with user version 2.3. *)
getFPControl(op, version, result, a, b) ==
  CASE op = "FMIN" /\ version = "2.2" -> doFMin_2_2(result, a, b)
    [] op = "FMAX" /\ version = "2.2" -> doFMax_2_2(result, a, b)
    [] op = "FMIN" /\ version = "2.3" -> doFMin_2_3(result, a, b)
    [] op = "FMAX" /\ version = "2.3" -> doFMax_2_3(result, a, b)

-----------------------------------------------------------------------------
(* Conversion to an integer, sign injection, classification                *)

getIndeterminateSign(f) == FP_SIGN(f) /\ ~isNaN(f)

handleIndeterminate(f, bits, signed) ==
  Wrap(IF getIndeterminateSign(f) THEN Least(bits, signed) ELSE Greatest(bits, signed), bits)

(* The magnitude of a finite value in units of the least positive one, and *)
(* the value truncated to an integer (the exponent bias is 2^(EXP-1)-1).   *)
Units(f) ==
  LET e == FP_EXPONENT(f)
  IN IF e = 0 THEN FP_FRACTION(f) ELSE (2^FRAC + FP_FRACTION(f)) * (2^(e - 1))

One == 2^(FRAC + (2^(EXP - 1)) - 2)

Truncated(f) == IF FP_SIGN(f) THEN -(Units(f) \div One) ELSE Units(f) \div One

(* vmimtFConvertRR towards zero: handleIndeterminate gives the result of   *)
(* a value that the integer type does not hold.                            *)
Converted(f, bits, signed) ==
  IF isNaNorInf(f) \/ Truncated(f) \notin Least(bits, signed)..Greatest(bits, signed)
  THEN handleIndeterminate(f, bits, signed)
  ELSE Wrap(Truncated(f), bits)

(* The part of fs1 that is kept, then the sign of fs2, then both (their    *)
(* exclusive or differs from the sum only above the sign).                 *)
emitFSgnInt(x, r, clearFS1, negFS2) ==
  LET kept == IF clearFS1 THEN Value(x, r[1]) % SIGN ELSE Value(x, r[1])
      x1   == Set(x, t0, kept)
      sign == FP_SIGN(Value(x1, r[2]))
      x2   == Set(x1, r[0], Zero(IF negFS2 THEN ~sign ELSE sign))
  IN Set(x2, r[0], (Value(x2, r[0]) + Value(x2, t0)) % (2 * SIGN))

(* The number of the bit that is set, in the order of riscvFClass. *)
doFClass(f) ==
  CASE isSNaN(f)   -> 8
    [] isQNaN(f)   -> 9
    [] isInf(f)    -> IF FP_SIGN(f) THEN 0 ELSE 7
    [] isDenorm(f) -> IF FP_SIGN(f) THEN 2 ELSE 5
    [] isZero(f)   -> IF FP_SIGN(f) THEN 3 ELSE 4
    [] OTHER       -> IF FP_SIGN(f) THEN 1 ELSE 6

=============================================================================
