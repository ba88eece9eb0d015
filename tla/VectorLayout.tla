---------------------------- MODULE VectorLayout ----------------------------
(***************************************************************************)
(* Where the elements of a vector operand lie in the register file.  A     *)
(* location is a run of GRAN bits; locations are numbered through the      *)
(* whole file, register after register.                                    *)
(***************************************************************************)
EXTENDS Integers, FiniteSets

CONSTANTS
  VLEN,     \* configInfo.VLEN, in bits
  SLEN,     \* configInfo.SLEN: the striping distance, in bits
  GRAN      \* bits to a location: divides every element and mask width used

ASSUME LayoutAssumption ==
  /\ VLEN \in Nat /\ SLEN \in Nat /\ GRAN \in {1, 2, 4, 8}
  /\ 8 <= SLEN /\ SLEN % 8 = 0 /\ SLEN <= VLEN /\ VLEN % SLEN = 0

VREG_NUM == 32

vRegBytes   == VLEN \div 8
stripeBytes == SLEN \div 8

-----------------------------------------------------------------------------
(* Faulty variant: the stripes of the registers follow one another. *)
offsetsLMULx_Packed(n) ==
  [index \in 0..(vRegBytes * n - 1) |-> index]

(* The index table of a group of n registers: the byte of the group that   *)
(* holds byte number index of its elements.                                *)
offsetsLMULx(n) ==
  [index \in 0..(vRegBytes * n - 1) |->
     CHOOSE value \in 0..(vRegBytes * n - 1) :
       \E stripe \in 0..(vRegBytes \div stripeBytes - 1), byte \in 0..(stripeBytes - 1), i \in 0..(n - 1) :
         /\ index = byte + stripeBytes * i + stripe * stripeBytes * n
         /\ value = byte + vRegBytes * i + stripe * stripeBytes]

offsetsLMULx2 == offsetsLMULx(2)
offsetsLMULx4 == offsetsLMULx(4)
offsetsLMULx8 == offsetsLMULx(8)

(* getOffsetIndexTable *)
getOffsetIndexTable(VLMUL) ==
  CASE VLMUL = 2 -> offsetsLMULx2 [] VLMUL = 4 -> offsetsLMULx4 [] VLMUL = 8 -> offsetsLMULx8

(* The locations of n bits from bit b of register r on. *)
Bits(r, b, n) == ((r * VLEN + b) \div GRAN)..((r * VLEN + b + n - 1) \div GRAN)

(* Element k, of SEW bits, of the group of VLMUL registers from r on: the  *)
(* first two cases of initializeBase.  A whole-register operation has one  *)
(* long register, which is not striped.                                    *)
isStriped(VLMUL, whole) == ~whole /\ VLMUL > 1 /\ VLEN > SLEN

ElementAt(k, VLMUL, SEW, whole) ==
  LET at == k * (SEW \div 8)
  IN  8 * (IF isStriped(VLMUL, whole) THEN getOffsetIndexTable(VLMUL)[at] ELSE at)

ElementBits(r, k, VLMUL, SEW, whole) == Bits(r, ElementAt(k, VLMUL, SEW, whole), SEW)

(* Mask field k of register r: a run of bytes, or the bits of a byte that  *)
(* prepareMasks rotates its masks to.                                      *)
MaskBits(r, k, MLEN) ==
  IF MLEN >= 8 THEN Bits(r, k * MLEN, MLEN)
  ELSE Bits(r, 8 * (k \div (8 \div MLEN)) + ((k * MLEN) % 8), MLEN)

(* The locations of n whole registers from r on. *)
RegisterBits(r, n) == Bits(r, 0, n * VLEN)

=============================================================================
