------------------------------- MODULE Decode -------------------------------
(***************************************************************************)
(* Instruction decode: riscvDecode.c from the word fetched to the          *)
(* riscvInstrInfo that translation uses, for each XLEN and version of the  *)
(* vector extension, and the checks riscvMorph makes before it translates. *)
(*                                                                         *)
(* A word is <<low half, high half>>.  A constant is the signed value that *)
(* the code computes in 64 bits, and a jump target is relative to thisPC.  *)
(* A state is a word about to be decoded, or decoded.                      *)
(***************************************************************************)
EXTENDS InstructionInfo, FiniteSetsExt

CONSTANTS
  Harts,     \* configurations: xlen, version and arch, the set of extensions
  Probes(_)  \* the sets of words to decode for a configuration

VARIABLES
  riscv,        \* the configuration of the hart
  instruction,  \* the word at thisPC
  info          \* the decoded instruction, or NoInfo

vars == <<riscv, instruction, info>>

NoInfo == [type |-> "NONE"]

-----------------------------------------------------------------------------
(* Fields of a word *)

U(w, hi, lo) ==
  IF hi < 16 THEN (w[1] \div 2^lo) % 2^(hi - lo + 1)
  ELSE IF lo >= 16 THEN (w[2] \div 2^(lo - 16)) % 2^(hi - lo + 1)
  ELSE (w[2] % 2^(hi - 15)) * 2^(16 - lo) + (w[1] \div 2^lo)

S(w, hi, lo) == U(w, hi, lo) - (IF U(w, hi, hi) = 1 THEN 2^(hi - lo + 1) ELSE 0)

Bit(w, b) == U(w, b, b) = 1

is4ByteInstruction(w) == U(w, 1, 0) = 3

-----------------------------------------------------------------------------
(* The vmid library (external): match and priority *)

Log2(n) == CHOOSE k \in 0..25 : 2^k = n

FixedBits(in, layout) ==
  MapThenSumSet(LAMBDA i : layout[i][1] - layout[i][2] + 1 - Log2(Cardinality(in[i])),
                DOMAIN layout)

Fields(w, layout) == [i \in DOMAIN layout |-> U(w, layout[i][1], layout[i][2])]

matches(f, in) == \A i \in DOMAIN in : f[i] \in in[i]

(* A decode table entry: the row with its attributes and its priority. *)
Entry32(r) ==
  LET a == attrsArray32[r.name]
  IN  [name |-> r.name, in |-> r.in, attrs |-> ATTR32[a.macro], arch |-> a.arch,
       type |-> IF r.name \in DOMAIN GenericType THEN GenericType[r.name] ELSE r.name,
       priority |-> FixedBits(r.in, Layout32) + ATTR32[a.macro].priDelta]

Entry16(r) ==
  [name |-> r.name, in |-> r.in, attrs |-> ATTR16[r.macro], arch |-> r.arch, type |-> r.type,
   priority |-> FixedBits(r.in, Layout16)]

(* The tables, by major opcode or quadrant and by funct3. *)
Indexed(entries, op, f3) ==
  [o \in 0..127 |->
     LET es == {e \in entries : o \in e.in[op]}
     IN  [f \in 0..7 |-> {e \in es : f \in e.in[f3]}]]

decodeTables32 ==
  [v \in {h.version : h \in Harts} |->
     Indexed({Entry32(r) : r \in createDecodeTable32(v)}, 6, 4)]

decodeTables16 ==
  [xlen \in {h.xlen : h \in Harts} |->
     Indexed({Entry16(r) : r \in createDecodeTable16(xlen)}, 5, 1)]

(* The entries that match, and those of them the library chooses from. *)
Matching(h, w) ==
  IF is4ByteInstruction(w)
  THEN LET f == Fields(w, Layout32)
       IN  {e \in decodeTables32[h.version][f[6]][f[4]] : matches(f, e.in)}
  ELSE LET f == Fields(w, Layout16)
       IN  {e \in decodeTables16[h.xlen][f[5]][f[1]] : matches(f, e.in)}

Preferred(es) == {e \in es : \A d \in es : d.priority <= e.priority}

-----------------------------------------------------------------------------
(* Interpretation of the fields *)

XLen(h) == IF h.xlen = "32" THEN 32 ELSE 64

riscvGetFlenArch(h) == IF "D" \in h.arch THEN 64 ELSE IF "F" \in h.arch THEN 32 ELSE 0

SEW == -1  \* memBits of an access of the current element width

getMemBits(h, w, spec) ==
  CASE spec = "NA"      -> 0
    [] spec = "12"      -> 32 * 2^U(w, 12, 12)
    [] spec = "12_VAMO" -> IF ~Bit(w, 12) THEN 32
                           ELSE IF riscvVFSupport(h.version, "VAMO_SEW") THEN SEW ELSE 64
    [] spec = "13_12"   -> 8 * 2^U(w, 13, 12)
    [] spec = "14_12_V" -> <<8, 0, 0, 0, 0, 16, 32, SEW>>[U(w, 14, 12) + 1]
    [] spec = "W"       -> 32
    [] spec = "D"       -> 64

(* Whether the width is forced to 32, which needs XLEN 64. *)
forceWidth32(w, spec) == spec = "W1" \/ (spec = "3" /\ Bit(w, 3))

getXWidth(h, w, spec) ==
  CASE spec = "12"      -> IF Bit(w, 12) THEN 64 ELSE 32
    [] spec = "25"      -> IF Bit(w, 25) THEN 64 ELSE 32
    [] spec = "21_U_20" -> IF Bit(w, 21) THEN 64 ELSE 32
    [] OTHER            -> IF forceWidth32(w, spec) THEN 32 ELSE XLen(h)

getFWidth(h, w, spec, memBits) ==
  CASE spec = "NA"   -> 0
    [] spec = "25"   -> IF Bit(w, 25) THEN 64 ELSE 32
    [] spec = "MEM"  -> memBits
    [] spec = "ARCH" -> riscvGetFlenArch(h)

getConstant(w, spec) ==
  MapThenSumSet(LAMBDA i : LET f == spec.fields[i]
                           IN  (IF f[4] THEN S(w, f[1], f[2]) ELSE U(w, f[1], f[2])) * 2^f[3],
                DOMAIN spec.fields)

NoReg == [file |-> "NA", index |-> 0, w |-> 0, uns |-> FALSE]
V0    == [NoReg EXCEPT !.file = "V"]

getRegister(h, w, spec, wX, wF, uns) ==
  LET r     == IF spec.file = "V0" /\ riscvVFSupport(h.version, "ADC_SBC_MASK") THEN RS_V_M_25 ELSE spec
      index == r.add + (IF r.hi < r.lo THEN 0 ELSE U(w, r.hi, r.lo))
      x(i)  == [file |-> "X", index |-> i, w |-> wX, uns |-> uns]
      v(i)  == [V0 EXCEPT !.index = i]
  IN  CASE r.file = "NA"   -> NoReg
        [] r.file = "X"    -> x(index)
        [] r.file = "F"    -> [file |-> "F", index |-> index, uns |-> FALSE,
                               w |-> IF r.w # 0 THEN r.w ELSE wF]
        [] r.file = "V"    -> v(index)
        [] r.file = "V0"   -> V0
        [] r.file = "mask" -> IF Bit(w, 25) THEN NoReg ELSE V0
        [] r.file = "Z26"  -> IF Bit(w, 26) THEN v(index) ELSE x(0)

getUnsExt(w, spec) ==
  CASE spec = "NA" -> FALSE
    [] spec = "14" -> Bit(w, 14)
    [] spec = "28" -> ~Bit(w, 28)

getRM(w, spec) ==
  CASE spec = "NA"    -> "CURRENT"
    [] spec = "ROD"   -> "ROD"
    [] spec = "14_12" -> <<"RTE", "RTZ", "RDN", "RUP", "RMM", "BAD5", "BAD6", "CURRENT">>
                           [U(w, 14, 12) + 1]

getWholeReg(w, spec) ==
  CASE spec = "T" -> "MV"
    [] spec = "23" /\ Bit(w, 23) -> "LD_ST"
    [] OTHER -> "NA"

getCSR(w, present) == IF present THEN U(w, 31, 20) ELSE 0

(* Whether the register is written, set or cleared, and read. *)
getCSRUpdate(w, present) == IF present THEN U(w, 13, 12) ELSE 0

getAQRL(w, present) == IF present THEN U(w, 26, 25) ELSE 0

getFence(w, present) == IF present THEN <<U(w, 27, 24), U(w, 23, 20)>> ELSE <<0, 0>>

getVSEW(w, present)  == IF present THEN U(w, 24, 22) ELSE 0
getVLMUL(w, present) == IF present THEN U(w, 21, 20) ELSE 0

(* Faulty variant: the count of a whole register move is not read. *)
getNumFields_NoMove(w, spec) == IF spec = "31_29" THEN U(w, 31, 29) ELSE 0

getNumFields(w, spec) ==
  CASE spec = "NA"    -> 0
    [] spec = "31_29" -> U(w, 31, 29)
    [] spec = "17_15" -> U(w, 17, 15)

(* A floating point sign injection of a register into itself. *)
fixFPPseudoInstructions(type, r2, r3) ==
  CASE type = "FSGNJX_R" /\ r2 = r3 -> "FABS_R"
    [] type = "FSGNJ_R"  /\ r2 = r3 -> "FMV_R"
    [] type = "FSGNJN_R" /\ r2 = r3 -> "FNEG_R"
    [] OTHER -> type

(* Faulty variant: the shift amount is not compared with the register. *)
validateShift_XLenOnly(h, c, wX) == [absent |-> c >= XLen(h), undecoded |-> FALSE]

(* A shift of XLEN or more is absent from this XLEN; one of the register   *)
(* width or more is not decoded.                                           *)
validateShift(h, c, wX) == [absent |-> c >= XLen(h), undecoded |-> c < XLen(h) /\ c >= wX]

(* interpretInstruction with the attributes of entry e. *)
interpretInstruction(h, w, e) ==
  LET a       == e.attrs
      memBits == getMemBits(h, w, a.memBits)
      wX      == getXWidth(h, w, a.wX)
      wF      == getFWidth(h, w, a.wF, memBits)
      uns     == a.wX = "21_U_20" /\ Bit(w, 20)
      c       == getConstant(w, a.cs)
      reg(s)  == getRegister(h, w, s, wX, wF, uns)
      r       == <<reg(a.r1), reg(a.r2), reg(a.r3), reg(a.r4)>>
      wide    == \E i \in DOMAIN r : r[i].file = "X" /\ r[i].w > XLen(h)
      shift   == IF a.cs.shamt THEN validateShift(h, c, wX)
                 ELSE [absent |-> FALSE, undecoded |-> FALSE]
  IN  [type   |-> IF shift.undecoded THEN "LAST"
                  ELSE fixFPPseudoInstructions(e.type, r[2], r[3]),
       arch   |-> e.arch \ ((IF forceWidth32(w, a.wX) THEN {"32"} ELSE {})
                              \cup (IF wide \/ shift.absent THEN {h.xlen} ELSE {})),
       r      |-> r,
       mask   |-> reg(a.mask),
       c      |-> c,
       toPC   |-> a.cs.pc,
       memBits |-> memBits,
       unsExt |-> getUnsExt(w, a.unsExt),
       rm     |-> getRM(w, a.rm),
       csr    |-> getCSR(w, a.csr),
       csrUpdate |-> getCSRUpdate(w, a.csr),
       aqrl   |-> getAQRL(w, a.aqrl),
       fence  |-> getFence(w, a.fence),
       vsew   |-> getVSEW(w, a.vtype),
       vlmul  |-> getVLMUL(w, a.vtype),
       isWhole |-> getWholeReg(w, a.whole),
       isFF   |-> a.ff /\ Bit(w, 24),
       nf     |-> getNumFields(w, a.nf)]

(* ATTR32_LAST and ATTR16_LAST. *)
NoEntry == [attrs |-> Attr, arch |-> {}, type |-> "LAST"]

Decoded(h, w) ==
  LET es == Preferred(Matching(h, w))
  IN  interpretInstruction(h, w, IF es = {} THEN NoEntry ELSE CHOOSE e \in es : TRUE)

-----------------------------------------------------------------------------
(* The system *)

Init ==
  /\ riscv \in Harts
  /\ instruction \in UNION Probes(riscv)
  /\ info = NoInfo

(* riscvDecode of the word that riscvGetInstruction fetched. *)
riscvDecode ==
  /\ info = NoInfo
  /\ info' = Decoded(riscv, instruction)
  /\ UNCHANGED <<riscv, instruction>>

riscvInstructionEnabled(h, arch) == h.xlen \in arch /\ arch \ RVANY \subseteq h.arch

(* The translation that riscvMorph makes of a decoded instruction.         *)
Undecoded == info.type = "LAST"
Translated == ~Undecoded /\ riscvInstructionEnabled(riscv, info.arch)

(* riscvMorph has translated it, or an Illegal Instruction exception.  The *)
(* same address may be decoded again.                                      *)
riscvMorph ==
  /\ info # NoInfo
  /\ info' = NoInfo
  /\ UNCHANGED <<riscv, instruction>>

Next == riscvDecode \/ riscvMorph

Spec == Init /\ [][Next]_vars

-----------------------------------------------------------------------------
(* The compressed instruction set, as its specification gives it: what     *)
(* 32-bit instruction each halfword stands for.                            *)

(* The word with fields as in Layout32. *)
Word(f7, rs2, rs1, f3, rd, op) ==
  <<op + 128 * rd + 4096 * f3 + 32768 * (rs1 % 2), (rs1 \div 2) + 16 * rs2 + 512 * f7>>

(* The formats, with an immediate as an integer. *)
IType(imm, rs1, f3, rd, op) ==
  LET i == imm % 4096 IN Word(i \div 32, i % 32, rs1, f3, rd, op)
SType(imm, rs2, rs1, f3, op) == Word((imm \div 32) % 128, rs2, rs1, f3, imm % 32, op)
BType(imm, rs2, rs1, f3) ==
  Word(64 * ((imm \div 4096) % 2) + ((imm \div 32) % 64), rs2, rs1, f3,
       (imm % 32) + ((imm \div 2048) % 2), \b1100011)
JType(imm, rd) ==
  LET b == ((imm \div 2048) % 2) + (imm % 2048)
  IN  Word(64 * ((imm \div 1048576) % 2) + ((b \div 32) % 64), b % 32,
           (imm \div 32768) % 32, (imm \div 4096) % 8, rd, \b1101111)
UType(imm20, rd, op) ==
  Word((imm20 \div 8192) % 128, (imm20 \div 256) % 32, (imm20 \div 8) % 32, imm20 % 8, rd, op)

(* The immediate whose bit to[i] is bit from[i] of h, in two's complement  *)
(* of top bit sign if sign # 0.                                            *)
Immediate(h, from, to, sign) ==
  LET v == MapThenSumSet(LAMBDA i : ((h \div 2^from[i]) % 2) * 2^to[i], DOMAIN from)
  IN  IF sign # 0 /\ v >= 2^sign THEN v - 2^(sign + 1) ELSE v

None == <<0, 0>>  \* a word that has no meaning

(* The expansion of halfword h for xlen, or None if it is reserved.        *)
Expansion0(h, xlen) ==
  LET f3   == h \div 8192
      rd   == 8 + ((h \div 4) % 8)
      rs1  == 8 + ((h \div 128) % 8)
      addi4spn == Immediate(h, <<12, 11, 10, 9, 8, 7, 6, 5>>, <<5, 4, 9, 8, 7, 6, 2, 3>>, 0)
      word     == Immediate(h, <<12, 11, 10, 6, 5>>, <<5, 4, 3, 2, 6>>, 0)
      double   == Immediate(h, <<12, 11, 10, 6, 5>>, <<5, 4, 3, 7, 6>>, 0)
  IN  CASE f3 = 0 -> IF addi4spn = 0 THEN None ELSE IType(addi4spn, 2, 0, rd, \b0010011)
        [] f3 = 1 -> IType(double, rs1, 3, rd, \b0000111)
        [] f3 = 2 -> IType(word, rs1, 2, rd, \b0000011)
        [] f3 = 3 -> IF xlen = "32" THEN IType(word, rs1, 2, rd, \b0000111)
                                    ELSE IType(double, rs1, 3, rd, \b0000011)
        [] f3 = 4 -> None
        [] f3 = 5 -> SType(double, rd, rs1, 3, \b0100111)
        [] f3 = 6 -> SType(word, rd, rs1, 2, \b0100011)
        [] f3 = 7 -> IF xlen = "32" THEN SType(word, rd, rs1, 2, \b0100111)
                                    ELSE SType(double, rd, rs1, 3, \b0100011)

Arithmetic1(h, xlen, imm, uimm) ==
  LET rd  == 8 + ((h \div 128) % 8)
      rs2 == 8 + ((h \div 4) % 8)
      op  == (h \div 1024) % 4
      sel == 4 * ((h \div 4096) % 2) + ((h \div 32) % 4)
      R3(f7, f3, opcode) == Word(f7, rs2, rd, f3, rd, opcode)
  IN  CASE op = 0 -> IF xlen = "32" /\ uimm > 31 THEN None ELSE IType(uimm, rd, 5, rd, \b0010011)
        [] op = 1 -> IF xlen = "32" /\ uimm > 31 THEN None
                     ELSE IType(1024 + uimm, rd, 5, rd, \b0010011)
        [] op = 2 -> IType(imm, rd, 7, rd, \b0010011)
        [] op = 3 -> CASE sel = 0 -> R3(32, 0, \b0110011)
                       [] sel = 1 -> R3(0, 4, \b0110011)
                       [] sel = 2 -> R3(0, 6, \b0110011)
                       [] sel = 3 -> R3(0, 7, \b0110011)
                       [] sel = 4 -> IF xlen = "32" THEN None ELSE R3(32, 0, \b0111011)
                       [] sel = 5 -> IF xlen = "32" THEN None ELSE R3(0, 0, \b0111011)
                       [] OTHER   -> None

Expansion1(h, xlen) ==
  LET f3   == h \div 8192
      rd   == (h \div 128) % 32
      rs1  == 8 + ((h \div 128) % 8)
      imm  == Immediate(h, <<12, 6, 5, 4, 3, 2>>, <<5, 4, 3, 2, 1, 0>>, 5)
      uimm == Immediate(h, <<12, 6, 5, 4, 3, 2>>, <<5, 4, 3, 2, 1, 0>>, 0)
      sp16 == Immediate(h, <<12, 6, 5, 4, 3, 2>>, <<9, 4, 6, 8, 7, 5>>, 9)
      j    == Immediate(h, <<12, 11, 10, 9, 8, 7, 6, 5, 4, 3, 2>>,
                        <<11, 4, 9, 8, 10, 6, 7, 3, 2, 1, 5>>, 11)
      b    == Immediate(h, <<12, 11, 10, 6, 5, 4, 3, 2>>, <<8, 4, 3, 7, 6, 2, 1, 5>>, 8)
  IN  CASE f3 = 0 -> IType(imm, rd, 0, rd, \b0010011)
        [] f3 = 1 -> IF xlen = "32" THEN JType(j, 1)
                     ELSE IF rd = 0 THEN None ELSE IType(imm, rd, 0, rd, \b0011011)
        [] f3 = 2 -> IType(imm, 0, 0, rd, \b0010011)
        [] f3 = 3 -> IF imm = 0 THEN None
                     ELSE IF rd = 2 THEN IType(sp16, 2, 0, 2, \b0010011)
                     ELSE UType(imm, rd, \b0110111)
        [] f3 = 4 -> Arithmetic1(h, xlen, imm, uimm)
        [] f3 = 5 -> JType(j, 0)
        [] f3 = 6 -> BType(b, 0, rs1, 0)
        [] f3 = 7 -> BType(b, 0, rs1, 1)

Jump2(top, rd, rs2) ==
  CASE top = 0 /\ rs2 = 0 -> IF rd = 0 THEN None ELSE IType(0, rd, 0, 0, \b1100111)
    [] top = 0 /\ rs2 > 0 -> Word(0, rs2, 0, 0, rd, \b0110011)
    [] top = 1 /\ rs2 = 0 -> IF rd = 0 THEN Word(0, 1, 0, 0, 0, \b1110011)
                             ELSE IType(0, rd, 0, 1, \b1100111)
    [] top = 1 /\ rs2 > 0 -> Word(0, rs2, rd, 0, rd, \b0110011)

Expansion2(h, xlen) ==
  LET f3   == h \div 8192
      top  == (h \div 4096) % 2
      rd   == (h \div 128) % 32
      rs2  == (h \div 4) % 32
      uimm == Immediate(h, <<12, 6, 5, 4, 3, 2>>, <<5, 4, 3, 2, 1, 0>>, 0)
      lw   == Immediate(h, <<12, 6, 5, 4, 3, 2>>, <<5, 4, 3, 2, 7, 6>>, 0)
      ld   == Immediate(h, <<12, 6, 5, 4, 3, 2>>, <<5, 4, 3, 8, 7, 6>>, 0)
      sw   == Immediate(h, <<12, 11, 10, 9, 8, 7>>, <<5, 4, 3, 2, 7, 6>>, 0)
      sd   == Immediate(h, <<12, 11, 10, 9, 8, 7>>, <<5, 4, 3, 8, 7, 6>>, 0)
  IN  CASE f3 = 0 -> IF xlen = "32" /\ uimm > 31 THEN None ELSE IType(uimm, rd, 1, rd, \b0010011)
        [] f3 = 1 -> IType(ld, 2, 3, rd, \b0000111)
        [] f3 = 2 -> IF rd = 0 THEN None ELSE IType(lw, 2, 2, rd, \b0000011)
        [] f3 = 3 -> IF xlen = "32" THEN IType(lw, 2, 2, rd, \b0000111)
                     ELSE IF rd = 0 THEN None ELSE IType(ld, 2, 3, rd, \b0000011)
        [] f3 = 4 -> Jump2(top, rd, rs2)
        [] f3 = 5 -> SType(sd, rs2, 2, 3, \b0100111)
        [] f3 = 6 -> SType(sw, rs2, 2, 2, \b0100011)
        [] f3 = 7 -> IF xlen = "32" THEN SType(sw, rs2, 2, 2, \b0100111)
                                    ELSE SType(sd, rs2, 2, 3, \b0100011)

Expansion(h, xlen) ==
  CASE h % 4 = 0 -> Expansion0(h, xlen)
    [] h % 4 = 1 -> Expansion1(h, xlen)
    [] h % 4 = 2 -> Expansion2(h, xlen)

-----------------------------------------------------------------------------
(* Properties *)

(* What an instruction does: a move is an addition to zero, a register     *)
(* that is x0 may be absent, and the architecture is apart.                *)
Effect(i) ==
  LET add(r2, c) == [i EXCEPT !.type = "ADDI_I", !.r = <<i.r[1], r2, NoReg, NoReg>>, !.c = c]
      x0(r)      == r.file = "X" /\ r.index = 0
      e == CASE i.type = "MV_C" -> add([i.r[1] EXCEPT !.index = 0], i.c)
             [] i.type = "MV_R" /\ i.r[2].file = "X" /\ i.r[1].file = "X" -> add(i.r[2], 0)
             [] i.type = "ADD_R" /\ x0(i.r[2]) -> add(i.r[3], 0)
             [] i.type = "VEXT_X_V" /\ x0(i.r[3]) -> [i EXCEPT !.r[3] = NoReg]
             [] OTHER -> i
  IN  [e EXCEPT !.arch = {}]

(* No word depends on the order in which the table was filled: of the      *)
(* entries that match it, one has a priority above all others.             *)
Unambiguous ==
  info # NoInfo => Cardinality(Preferred(Matching(riscv, instruction))) <= 1

(* An alias is only another way to print: whichever of the 32-bit entries  *)
(* that match a word interprets it, the instruction translated is the      *)
(* same.                                                                   *)
AliasesAgree ==
  info # NoInfo /\ is4ByteInstruction(instruction) =>
    \A e \in Matching(riscv, instruction) :
      LET i == interpretInstruction(riscv, instruction, e)
      IN  Effect(i) = Effect(info) /\ i.arch = info.arch

(* A word has one meaning, by whichever entries it is decoded. *)
OneMeaning == Unambiguous /\ AliasesAgree

(* Every halfword is translated as the 32-bit instruction that the         *)
(* compressed instruction set defines it to be, or is illegal if that set  *)
(* leaves it reserved, in both XLENs.                                      *)
CompressedAgrees ==
  info # NoInfo /\ ~is4ByteInstruction(instruction) =>
    LET w == Expansion(instruction[1], riscv.xlen)
    IN  IF w = None THEN ~Translated
        ELSE LET i == Decoded(riscv, w)
             IN  /\ Effect(info) = Effect(i)
                 /\ Translated = ({"C"} \subseteq riscv.arch /\ i.type # "LAST"
                                    /\ riscvInstructionEnabled(riscv, i.arch))

(* The bits of w that its pattern e leaves free, and w with bit b changed. *)
FreeBits(w, e) ==
  LET Changed(x, p) == IF (x \div p) % 2 = 1 THEN x - p ELSE x + p
      f == Fields(w, Layout32)
  IN  UNION {{b \in Layout32[i][2]..Layout32[i][1] :
                Changed(f[i], 2^(b - Layout32[i][2])) \in e.in[i]} : i \in DOMAIN Layout32}
Flip(w, b) ==
  LET k == IF b < 16 THEN 1 ELSE 2
      p == 2^(IF b < 16 THEN b ELSE b - 16)
  IN  [w EXCEPT ![k] = IF Bit(w, b) THEN @ - p ELSE @ + p]

(* The patterns that ignore bits by design: fences, and the custom space.  *)
Ignored == {"FENCE_I", "FENCEI_I", "CUSTOM1", "CUSTOM2", "CUSTOM3", "CUSTOM4"}

(* No two words are confused: a bit that the matching pattern leaves free  *)
(* is read by some field of the macro it is given, so that the word with   *)
(* this bit changed is another instruction.                                *)
FreeBitsRead ==
  info # NoInfo /\ is4ByteInstruction(instruction) /\ Translated =>
    \A e \in Preferred(Matching(riscv, instruction)) : e.name \notin Ignored =>
      \A b \in FreeBits(instruction, e) :
        interpretInstruction(riscv, Flip(instruction, b), e)
          # interpretInstruction(riscv, instruction, e)

(* What RV32 does not have: operations on words, doublewords or halves of  *)
(* register pairs, and shifts by more than the register.                   *)
RV64Only(w) ==
  LET op == U(w, 6, 0)
      f3 == U(w, 14, 12)
  IN  \/ op \in {\b0011011, \b0111011}
      \/ op = \b0000011 /\ f3 \in {3, 6}
      \/ op = \b0100011 /\ f3 = 3
      \/ op = \b0101111 /\ f3 = 3
      \/ op = \b0010011 /\ f3 \in {1, 5} /\ Bit(w, 25)
      \/ op = \b1010011 /\ U(w, 31, 25) \in {\b1100000, \b1101000, \b1100001, \b1101001}
           /\ Bit(w, 21)
      \/ op = \b1010011 /\ U(w, 31, 25) \in {\b1110001, \b1111001} /\ f3 = 0

ShiftWTooFar(w) == U(w, 6, 0) = \b0011011 /\ U(w, 14, 12) \in {1, 5} /\ Bit(w, 25)

(* The arithmetic of one XLEN is never translated in the other: an         *)
(* instruction of RV64 alone is illegal in RV32, and a word shift by 32 or *)
(* more is illegal in both.                                                *)
LegalForXLEN ==
  info # NoInfo /\ is4ByteInstruction(instruction) /\ Translated =>
    /\ riscv.xlen = "32" => ~RV64Only(instruction)
    /\ ~ShiftWTooFar(instruction)

=============================================================================
