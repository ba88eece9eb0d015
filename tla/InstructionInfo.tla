--------------------------- MODULE InstructionInfo ---------------------------
(***************************************************************************)
(* The attributes of instruction patterns: the macros of                   *)
(* riscvInstructionInfo.h, which say where in an instruction its operands  *)
(* are, and the arrays of riscvDecode.c that give each pattern its macro,  *)
(* its generic type and the architecture it needs.  A register or constant *)
(* specification is the list of the bits it takes.  What only the          *)
(* disassembler uses (opcode and format strings, VIType, xQuiet, explicit  *)
(* types) is left out, and vector patterns keep their own type names.      *)
(***************************************************************************)
EXTENDS DecodeTable, Sequences

(* A register: its file, the field of its index and what is added to it.   *)
(* A field from 0 to -1 has no bits: the register is fixed.                *)
Reg(file, hi, lo, add, w) == [file |-> file, hi |-> hi, lo |-> lo, add |-> add, w |-> w]

R_NA          == Reg("NA", -1, 0, 0, 0)
RS_X_ZERO     == Reg("X", -1, 0, 0, 0)
RS_X_LR       == Reg("X", -1, 0, 1, 0)
RS_X_SP       == Reg("X", -1, 0, 2, 0)
RS_X_4_2_P8   == Reg("X", 4, 2, 8, 0)
RS_X_6_2      == Reg("X", 6, 2, 0, 0)
RS_X_9_7_P8   == Reg("X", 9, 7, 8, 0)
RS_X_11_7     == Reg("X", 11, 7, 0, 0)
RS_X_19_15    == Reg("X", 19, 15, 0, 0)
RS_X_24_20    == Reg("X", 24, 20, 0, 0)
RS_F_4_2_P8   == Reg("F", 4, 2, 8, 0)
RS_F_6_2      == Reg("F", 6, 2, 0, 0)
RS_F_11_7     == Reg("F", 11, 7, 0, 0)
RS_F_19_15    == Reg("F", 19, 15, 0, 0)
RS_F_24_20    == Reg("F", 24, 20, 0, 0)
RS_F_31_27    == Reg("F", 31, 27, 0, 0)
RS_S_19_15    == Reg("F", 19, 15, 0, 32)
RS_D_19_15    == Reg("F", 19, 15, 0, 64)
RS_V_11_7     == Reg("V", 11, 7, 0, 0)
RS_V_19_15    == Reg("V", 19, 15, 0, 0)
RS_V_24_20    == Reg("V", 24, 20, 0, 0)
RS_V0         == Reg("V0", -1, 0, 0, 0)
RS_V_M_25     == Reg("mask", 25, 25, 0, 0)
RS_V_11_7_Z26 == Reg("Z26", 11, 7, 0, 0)

(* A constant: its fields <<hi, lo, shift, signed>>, whether the PC is     *)
(* added, and whether it is a shift amount to validate.                    *)
Const(fields, pc, shamt) == [fields |-> fields, pc |-> pc, shamt |-> shamt]

CS_NA           == Const(<<>>, FALSE, FALSE)
CS_U_19_15      == Const(<<<<19, 15, 0, FALSE>>>>, FALSE, FALSE)
CS_S_19_15      == Const(<<<<19, 15, 0, TRUE>>>>, FALSE, FALSE)
CS_S_31_20      == Const(<<<<31, 20, 0, TRUE>>>>, FALSE, FALSE)
CS_S_31_25_11_7 == Const(<<<<31, 25, 5, TRUE>>, <<11, 7, 0, FALSE>>>>, FALSE, FALSE)
CS_SHAMT_25_20  == Const(<<<<25, 20, 0, FALSE>>>>, FALSE, TRUE)
CS_AUIPC        == Const(<<<<31, 12, 12, TRUE>>>>, FALSE, FALSE)
CS_J            == Const(<<<<31, 31, 20, TRUE>>, <<19, 12, 12, FALSE>>, <<20, 20, 11, FALSE>>,
                           <<30, 21, 1, FALSE>>>>, TRUE, FALSE)
CS_B            == Const(<<<<31, 31, 12, TRUE>>, <<7, 7, 11, FALSE>>, <<30, 25, 5, FALSE>>,
                           <<11, 8, 1, FALSE>>>>, TRUE, FALSE)
CS_C_ADDI       == Const(<<<<12, 12, 5, TRUE>>, <<6, 2, 0, FALSE>>>>, FALSE, FALSE)
CS_C_SLLI       == Const(<<<<12, 12, 5, FALSE>>, <<6, 2, 0, FALSE>>>>, FALSE, TRUE)

(* Faulty variant: bits 5 and 2 swapped. *)
CS_C_ADDI16SP_Swapped ==
  Const(<<<<12, 12, 9, TRUE>>, <<4, 3, 7, FALSE>>, <<2, 2, 6, FALSE>>,
          <<5, 5, 5, FALSE>>, <<6, 6, 4, FALSE>>>>, FALSE, FALSE)

CS_C_ADDI16SP ==
  Const(<<<<12, 12, 9, TRUE>>, <<4, 3, 7, FALSE>>, <<5, 5, 6, FALSE>>,
          <<2, 2, 5, FALSE>>, <<6, 6, 4, FALSE>>>>, FALSE, FALSE)

CS_C_ADDI4SPN   == Const(<<<<10, 7, 6, FALSE>>, <<12, 11, 4, FALSE>>, <<5, 5, 3, FALSE>>,
                           <<6, 6, 2, FALSE>>>>, FALSE, FALSE)
CS_C_LUI        == Const(<<<<12, 12, 17, TRUE>>, <<6, 2, 12, FALSE>>>>, FALSE, FALSE)
CS_C_LW         == Const(<<<<5, 5, 6, FALSE>>, <<12, 10, 3, FALSE>>, <<6, 6, 2, FALSE>>>>,
                         FALSE, FALSE)
CS_C_LD         == Const(<<<<6, 5, 6, FALSE>>, <<12, 10, 3, FALSE>>>>, FALSE, FALSE)
CS_C_LWSP       == Const(<<<<3, 2, 6, FALSE>>, <<12, 12, 5, FALSE>>, <<6, 4, 2, FALSE>>>>,
                         FALSE, FALSE)
CS_C_LDSP       == Const(<<<<4, 2, 6, FALSE>>, <<12, 12, 5, FALSE>>, <<6, 5, 3, FALSE>>>>,
                         FALSE, FALSE)
CS_C_SWSP       == Const(<<<<8, 7, 6, FALSE>>, <<12, 9, 2, FALSE>>>>, FALSE, FALSE)
CS_C_SDSP       == Const(<<<<9, 7, 6, FALSE>>, <<12, 10, 3, FALSE>>>>, FALSE, FALSE)
CS_C_B          == Const(<<<<12, 12, 8, TRUE>>, <<6, 5, 6, FALSE>>, <<2, 2, 5, FALSE>>,
                           <<11, 10, 3, FALSE>>, <<4, 3, 1, FALSE>>>>, TRUE, FALSE)
CS_C_J          == Const(<<<<12, 12, 11, TRUE>>, <<8, 8, 10, FALSE>>, <<10, 9, 8, FALSE>>,
                           <<6, 6, 7, FALSE>>, <<7, 7, 6, FALSE>>, <<2, 2, 5, FALSE>>,
                           <<11, 11, 4, FALSE>>, <<5, 3, 1, FALSE>>>>, TRUE, FALSE)

-----------------------------------------------------------------------------
(* The attribute macros.  Those that differ only in what they print share  *)
(* a record.                                                               *)

Attr == [r1 |-> R_NA, r2 |-> R_NA, r3 |-> R_NA, r4 |-> R_NA, mask |-> R_NA, cs |-> CS_NA,
         wX |-> "NA", wF |-> "NA", memBits |-> "NA", unsExt |-> "NA", rm |-> "NA",
         csr |-> FALSE, aqrl |-> FALSE, fence |-> FALSE, vtype |-> FALSE,
         whole |-> "NA", ff |-> FALSE, nf |-> "NA", priDelta |-> 0]

A2(a, b) == [Attr EXCEPT !.r1 = a, !.r2 = b]
A3(a, b, c) == [Attr EXCEPT !.r1 = a, !.r2 = b, !.r3 = c]
A2C(a, b, c) == [Attr EXCEPT !.r1 = a, !.r2 = b, !.cs = c]

ATTR32_ADD == [A3(RS_X_11_7, RS_X_19_15, RS_X_24_20) EXCEPT !.wX = "3"]

baseAttrs ==
  LET addi == [A2C(RS_X_11_7, RS_X_19_15, CS_S_31_20) EXCEPT !.wX = "3"]
  IN  [ADD |-> ATTR32_ADD, NEG |-> ATTR32_ADD, SLTZ |-> [ATTR32_ADD EXCEPT !.priDelta = 1],
       ADDI |-> addi, NOT |-> addi, NOPI |-> [addi EXCEPT !.wX = "NA"], NOP |-> Attr]

immediateAttrs ==
  LET jump == A2C(RS_X_11_7, RS_X_19_15, CS_S_31_20)
  IN  [LB   |-> [jump EXCEPT !.memBits = "13_12", !.unsExt = "14"],
       SB   |-> [A2C(RS_X_24_20, RS_X_19_15, CS_S_31_25_11_7) EXCEPT !.memBits = "13_12"],
       JR   |-> jump, JR0 |-> jump, JALR |-> jump,
       SLLI |-> [jump EXCEPT !.cs = CS_SHAMT_25_20, !.wX = "3"]]

(* Faulty variant: csrr has no preference over csrs. *)
ATTR32_CSRR_NoDelta == [A2(RS_X_11_7, RS_X_19_15) EXCEPT !.csr = TRUE]

ATTR32_CSRR == [A2(RS_X_11_7, RS_X_19_15) EXCEPT !.csr = TRUE, !.priDelta = 1]

csrAttrs ==
  LET csrrc  == [A2(RS_X_11_7, RS_X_19_15) EXCEPT !.csr = TRUE]
      csrrci == [Attr EXCEPT !.r1 = RS_X_11_7, !.cs = CS_U_19_15, !.csr = TRUE]
  IN  [CSRRC |-> csrrc, CSRR |-> ATTR32_CSRR, CSRC |-> csrrc, RDX1 |-> csrrc,
       CSRRCI |-> csrrci, CSRCI |-> csrrci]

ATTR32_BGTZ == [A2C(RS_X_19_15, RS_X_24_20, CS_B) EXCEPT !.priDelta = 1]

flowAttrs ==
  LET beq == A2C(RS_X_19_15, RS_X_24_20, CS_B)
      jal == [Attr EXCEPT !.r1 = RS_X_11_7, !.cs = CS_J]
  IN  [FENCE |-> [Attr EXCEPT !.fence = TRUE],
       AUIPC |-> [Attr EXCEPT !.r1 = RS_X_11_7, !.cs = CS_AUIPC],
       BEQ |-> beq, BEQZ |-> beq, BGTZ |-> ATTR32_BGTZ, J |-> jal, JAL |-> jal]

atomicAttrs ==
  [AMOADD |-> [A3(RS_X_11_7, RS_X_24_20, RS_X_19_15) EXCEPT !.wX = "12", !.aqrl = TRUE],
   LR |-> [A2(RS_X_11_7, RS_X_19_15) EXCEPT !.wX = "12", !.aqrl = TRUE],
   FENCE_VMA |-> A2(RS_X_19_15, RS_X_24_20)]

floatAttrs ==
  LET fmax   == [A3(RS_F_11_7, RS_F_19_15, RS_F_24_20) EXCEPT !.wF = "25"]
      fcvt(d, s) == [A2(d, s) EXCEPT !.wX = "21_U_20", !.wF = "25", !.rm = "14_12"]
  IN  [FSQRT |-> [A2(RS_F_11_7, RS_F_19_15) EXCEPT !.wF = "25", !.rm = "14_12"],
       FADD  |-> [fmax EXCEPT !.rm = "14_12"],
       FMADD |-> [fmax EXCEPT !.r4 = RS_F_31_27, !.rm = "14_12"],
       FCLASS |-> [A2(RS_X_11_7, RS_F_19_15) EXCEPT !.wF = "25"],
       FMAX  |-> fmax,
       FCVT_F_XWL |-> fcvt(RS_F_11_7, RS_X_19_15), FCVT_XWL_F |-> fcvt(RS_X_11_7, RS_F_19_15),
       FCVT_F_S |-> fcvt(RS_F_11_7, RS_S_19_15), FCVT_F_D |-> fcvt(RS_F_11_7, RS_D_19_15),
       FEQ   |-> [A3(RS_X_11_7, RS_F_19_15, RS_F_24_20) EXCEPT !.wF = "25"],
       FL    |-> [A2C(RS_F_11_7, RS_X_19_15, CS_S_31_20) EXCEPT !.memBits = "12", !.wF = "MEM"],
       FS    |-> [A2C(RS_F_24_20, RS_X_19_15, CS_S_31_25_11_7)
                    EXCEPT !.memBits = "12", !.wF = "MEM"]]

floatMoveAttrs ==
  LET frsr == [A2(RS_X_11_7, RS_X_19_15) EXCEPT !.csr = TRUE]
  IN  [FMVFX |-> [A2(RS_F_11_7, RS_X_19_15) EXCEPT !.wF = "25", !.wX = "25"],
       FMVXF |-> [A2(RS_X_11_7, RS_F_19_15) EXCEPT !.wF = "25", !.wX = "25"],
       FRSR  |-> frsr, FSSR |-> frsr, CUSTOM |-> Attr]

VAttr(a, b, c, m) == [A3(a, b, c) EXCEPT !.mask = m]

vectorAccessAttrs ==
  LET vls == [VAttr(RS_V_11_7, RS_X_19_15, RS_X_24_20, RS_V_M_25)
                EXCEPT !.memBits = "14_12_V", !.nf = "31_29"]
      vl  == [vls EXCEPT !.r3 = R_NA, !.whole = "23", !.ff = TRUE]
      vlx == [vls EXCEPT !.r3 = RS_V_24_20]
      uns(a) == [a EXCEPT !.unsExt = "28"]
  IN  [VSETVLI |-> [A2(RS_X_11_7, RS_X_19_15) EXCEPT !.vtype = TRUE, !.wX = "3"],
       VL |-> vl, VLS |-> vls, VLX |-> vlx,
       VL_U |-> uns(vl), VLS_U |-> uns(vls), VLX_U |-> uns(vlx),
       VAMOADD |-> [VAttr(RS_V_11_7_Z26, RS_X_19_15, RS_V_24_20, RS_V_M_25)
                      EXCEPT !.r4 = RS_V_11_7, !.memBits = "12_VAMO"]]

vectorVVAttrs ==
  LET v  == VAttr(RS_V_11_7, RS_V_24_20, R_NA, RS_V_M_25)
      vv == VAttr(RS_V_11_7, RS_V_24_20, RS_V_19_15, RS_V_M_25)
  IN  [V |-> v, VN |-> v, W_ROD |-> [v EXCEPT !.rm = "ROD"],
       VV |-> vv, VVN |-> vv, VVM |-> vv, VMV_V_V |-> vv, VVM_CIN |-> [vv EXCEPT !.mask = RS_V0],
       VV3 |-> VAttr(RS_V_11_7, RS_V_19_15, RS_V_24_20, RS_V_M_25)]

vectorMaskAttrs ==
  LET vv == VAttr(RS_V_11_7, RS_V_24_20, RS_V_19_15, RS_V_M_25)
  IN  [VM |-> VAttr(RS_V_11_7, RS_V_24_20, R_NA, RS_V_19_15),
       VS |-> vv, WV |-> vv, MM |-> [vv EXCEPT !.mask = R_NA],
       MX |-> VAttr(RS_X_11_7, RS_V_24_20, R_NA, RS_V_M_25),
       MV |-> VAttr(RS_V_11_7, RS_V_24_20, R_NA, RS_V_M_25)]

vectorVXAttrs ==
  LET vx == VAttr(RS_V_11_7, RS_V_24_20, RS_X_19_15, RS_V_M_25)
  IN  [VX |-> vx, VXN |-> vx, VXM |-> vx, VMV_V_X |-> vx, WX |-> vx,
       VXM_CIN |-> [vx EXCEPT !.mask = RS_V0],
       VX3 |-> VAttr(RS_V_11_7, RS_X_19_15, RS_V_24_20, RS_V_M_25)]

vectorVFAttrs ==
  LET vf == VAttr(RS_V_11_7, RS_V_24_20, RS_F_19_15, RS_V_M_25)
  IN  [VF |-> vf, VFM |-> vf, VFMV_V_F |-> vf, WF |-> vf,
       VF3 |-> VAttr(RS_V_11_7, RS_F_19_15, RS_V_24_20, RS_V_M_25)]

vectorVIAttrs ==
  LET vi == [A2C(RS_V_11_7, RS_V_24_20, CS_S_19_15) EXCEPT !.mask = RS_V_M_25]
      vu == [vi EXCEPT !.cs = CS_U_19_15]
  IN  [VI |-> vi, VIM |-> vi, VMV_V_I |-> vi, VIM_CIN |-> [vi EXCEPT !.mask = RS_V0],
       VU |-> vu, VUN |-> vu]

vectorMoveAttrs ==
  [VID |-> [Attr EXCEPT !.r1 = RS_V_11_7, !.mask = RS_V_M_25],
   VEXT |-> A3(RS_X_11_7, RS_V_24_20, RS_X_19_15),
   VMV_X_S |-> A2(RS_X_11_7, RS_V_24_20), VMV_S_X |-> A2(RS_V_11_7, RS_X_19_15),
   VFMV_F_S |-> [A2(RS_F_11_7, RS_V_24_20) EXCEPT !.wF = "ARCH"],
   VFMV_S_F |-> [A2(RS_V_11_7, RS_F_19_15) EXCEPT !.wF = "ARCH"],
   VMVR |-> [VAttr(RS_V_11_7, RS_V_24_20, R_NA, RS_V_M_25) EXCEPT !.whole = "T", !.nf = "17_15"]]

ATTR32 ==
  baseAttrs @@ immediateAttrs @@ csrAttrs @@ flowAttrs @@ atomicAttrs @@ floatAttrs
    @@ floatMoveAttrs @@ vectorAccessAttrs @@ vectorVVAttrs @@ vectorMaskAttrs
    @@ vectorVXAttrs @@ vectorVFAttrs @@ vectorVIAttrs @@ vectorMoveAttrs

arithAttrs16 ==
  LET and == A3(RS_X_9_7_P8, RS_X_9_7_P8, RS_X_4_2_P8)
      addi == A2C(RS_X_11_7, RS_X_11_7, CS_C_ADDI)
  IN  [NOP |-> Attr, ADD |-> A3(RS_X_11_7, RS_X_11_7, RS_X_6_2), AND |-> and,
       ADDW |-> [and EXCEPT !.wX = "W1"], MV |-> A2(RS_X_11_7, RS_X_6_2),
       ADDI |-> addi, ADDIW |-> [addi EXCEPT !.wX = "W1"],
       ADDI16SP |-> A2C(RS_X_SP, RS_X_SP, CS_C_ADDI16SP),
       ADDI4SPN |-> A2C(RS_X_4_2_P8, RS_X_SP, CS_C_ADDI4SPN),
       ANDI |-> A2C(RS_X_9_7_P8, RS_X_9_7_P8, CS_C_ADDI),
       SLLI |-> A2C(RS_X_11_7, RS_X_11_7, CS_C_SLLI),
       SRAI |-> A2C(RS_X_9_7_P8, RS_X_9_7_P8, CS_C_SLLI)]

jumpAttrs16 ==
  [BEQZ |-> A2C(RS_X_9_7_P8, RS_X_ZERO, CS_C_B),
   J    |-> [Attr EXCEPT !.r1 = RS_X_ZERO, !.cs = CS_C_J],
   JAL  |-> [Attr EXCEPT !.r1 = RS_X_LR, !.cs = CS_C_J],
   JR   |-> A2(RS_X_ZERO, RS_X_11_7), JALR |-> A2(RS_X_LR, RS_X_11_7),
   LI   |-> A2C(RS_X_11_7, RS_X_ZERO, CS_C_ADDI), LUI |-> A2C(RS_X_11_7, RS_X_ZERO, CS_C_LUI)]

(* An access of memBits, and one whose macro gives it as F width too. *)
Mem16(a, b, c, bits) == [A2C(a, b, c) EXCEPT !.memBits = bits]
FMem16(a, b, c, bits) == [Mem16(a, b, c, bits) EXCEPT !.wF = "MEM"]

accessAttrs16 ==
  [LD   |-> Mem16(RS_X_4_2_P8, RS_X_9_7_P8, CS_C_LD, "D"),
   LDSP |-> Mem16(RS_X_11_7, RS_X_SP, CS_C_LDSP, "D"),
   SDSP |-> Mem16(RS_X_6_2, RS_X_SP, CS_C_SDSP, "D"),
   LW   |-> FMem16(RS_X_4_2_P8, RS_X_9_7_P8, CS_C_LW, "W"),
   LWSP |-> FMem16(RS_X_11_7, RS_X_SP, CS_C_LWSP, "W"),
   SWSP |-> Mem16(RS_X_6_2, RS_X_SP, CS_C_SWSP, "W")]

floatAccessAttrs16 ==
  [FLD   |-> FMem16(RS_F_4_2_P8, RS_X_9_7_P8, CS_C_LD, "D"),
   FLDSP |-> FMem16(RS_F_11_7, RS_X_SP, CS_C_LDSP, "D"),
   FSDSP |-> FMem16(RS_F_6_2, RS_X_SP, CS_C_SDSP, "D"),
   FLW   |-> FMem16(RS_F_4_2_P8, RS_X_9_7_P8, CS_C_LW, "W"),
   FLWSP |-> FMem16(RS_F_11_7, RS_X_SP, CS_C_LWSP, "W"),
   FSWSP |-> FMem16(RS_F_6_2, RS_X_SP, CS_C_SWSP, "W")]

ATTR16 == arithAttrs16 @@ jumpAttrs16 @@ accessAttrs16 @@ floatAccessAttrs16

-----------------------------------------------------------------------------
(* attrsArray32: the pattern names of each macro and architecture.         *)

RVANY == {"32", "64"}
Of(macro, arch, names) == {[name |-> n, macro |-> macro, arch |-> arch] : n \in names}

attrsBase ==
       Of("ADD", RVANY, {"ADD_R", "AND_R", "OR_R", "SLL_R", "SLT_R", "SLTU_R", "SRA_R",
                         "SRL_R", "SUB_R", "XOR_R"})
  \cup Of("NEG", RVANY, {"NEG_R", "SGTZ_R", "SNEZ_R"}) \cup Of("SLTZ", RVANY, {"SLTZ_R"})
  \cup Of("ADD", RVANY \cup {"M"}, {"DIV_R", "DIVU_R", "MUL_R", "MULH_R", "MULHSU_R",
                                    "MULHU_R", "REM_R", "REMU_R"})
  \cup Of("ADDI", RVANY, {"ADDI_I", "ANDI_I", "ORI_I", "SLTI_I", "SLTIU_I", "XORI_I"})
  \cup Of("JR", RVANY, {"JR_I"}) \cup Of("JR0", RVANY, {"JR0_I"})
  \cup Of("JALR", RVANY, {"JALR_I"}) \cup Of("NOPI", RVANY, {"NOP_I", "RET_I"})
  \cup Of("NOT", RVANY, {"JALR0_I", "MV_I", "NOT_I", "SEQZ_I", "SEXTW_I"})
  \cup Of("SLLI", RVANY, {"SLLI_I", "SRAI_I", "SRLI_I"})
  \cup Of("LB", RVANY, {"LB_I", "LBU_I", "LH_I", "LHU_I", "LW_I"})
  \cup Of("LB", {"64"}, {"LWU_I", "LD_I"})
  \cup Of("SB", RVANY, {"SB_I", "SH_I", "SW_I"}) \cup Of("SB", {"64"}, {"SD_I"})

attrsSystem ==
       Of("CSRRC", RVANY, {"CSRRC_I", "CSRRS_I", "CSRRW_I"}) \cup Of("CSRR", RVANY, {"CSRR_I"})
  \cup Of("CSRC", RVANY, {"CSRC_I", "CSRS_I", "CSRW_I"})
  \cup Of("RDX1", RVANY, {"RDX1_I", "RDX2_I"})
  \cup Of("CSRRCI", RVANY, {"CSRRCI_I", "CSRRSI_I", "CSRRWI_I"})
  \cup Of("CSRCI", RVANY, {"CSRCI_I", "CSRSI_I", "CSRWI_I"})
  \cup Of("NOP", RVANY, {"EBREAK_I", "ECALL_I", "FENCEI_I", "MRET_I", "SRET_I", "DRET_I", "WFI_I"})
  \cup Of("NOP", RVANY \cup {"N"}, {"URET_I"}) \cup Of("FENCE", RVANY, {"FENCE_I"})
  \cup Of("FENCE_VMA", RVANY, {"FENCE_VMA_R"}) \cup Of("AUIPC", RVANY, {"AUIPC_U", "LUI_U"})
  \cup Of("BEQ", RVANY, {"BEQ_B", "BGE_B", "BGEU_B", "BLT_B", "BLTU_B", "BNE_B"})
  \cup Of("BEQZ", RVANY, {"BEQZ_B", "BGEZ_B", "BLTZ_B", "BNEZ_B"})
  \cup Of("BGTZ", RVANY, {"BLEZ_B", "BGTZ_B"})
  \cup Of("J", RVANY, {"J_J"}) \cup Of("JAL", RVANY, {"JAL_J"})

attrsAtomicFloat ==
       Of("AMOADD", RVANY \cup {"A"}, {"AMOADD_R", "AMOAND_R", "AMOMAX_R", "AMOMAXU_R", "AMOMIN_R",
            "AMOMINU_R", "AMOOR_R", "AMOSWAP_R", "AMOXOR_R", "SC_R"})
  \cup Of("LR", RVANY \cup {"A"}, {"LR_R"})
  \cup Of("FADD", RVANY, {"FADD_R", "FDIV_R", "FMUL_R", "FSUB_R"})
  \cup Of("FCLASS", RVANY, {"FCLASS_R"})
  \cup Of("FCVT_F_XWL", RVANY, {"FCVT_F_X_R"}) \cup Of("FCVT_XWL_F", RVANY, {"FCVT_X_F_R"})
  \cup Of("FCVT_F_S", RVANY, {"FCVT_D_S_R"}) \cup Of("FCVT_F_D", RVANY, {"FCVT_S_D_R"})
  \cup Of("FEQ", RVANY, {"FEQ_R", "FLE_R", "FLT_R"})
  \cup Of("FMAX", RVANY, {"FMAX_R", "FMIN_R", "FSGNJ_R", "FSGNJN_R", "FSGNJX_R"})
  \cup Of("FMVFX", RVANY, {"FMVFX_R"}) \cup Of("FMVXF", RVANY, {"FMVXF_R"})
  \cup Of("FSQRT", RVANY, {"FSQRT_R"})
  \cup Of("FMADD", RVANY, {"FMADD_R4", "FMSUB_R4", "FNMADD_R4", "FNMSUB_R4"})
  \cup Of("FL", RVANY, {"FL_I"}) \cup Of("FS", RVANY, {"FS_I"})
  \cup Of("FRSR", RVANY, {"FRSR_I", "FRFLAGS_I", "FRRM_I"})
  \cup Of("FSSR", RVANY, {"FSSR_I", "FSFLAGS_I", "FSRM_I"})
  \cup Of("CUSTOM", RVANY, {"CUSTOM1", "CUSTOM2", "CUSTOM3", "CUSTOM4"})

RVANYV == RVANY \cup {"V"}

attrsVectorAccess ==
       Of("ADD", RVANYV, {"VSETVL_R"})
  \cup Of("VSETVLI", RVANYV, {"VSETVL_I"})
  \cup Of("VL_U", RVANYV, {"VLB_I", "VLH_I", "VLW_I"})
  \cup Of("VLS_U", RVANYV, {"VLSB_I", "VLSH_I", "VLSW_I"})
  \cup Of("VLX_U", RVANYV, {"VLXB_I", "VLXH_I", "VLXW_I"})
  \cup Of("VL", RVANYV, {"VSB_I", "VSH_I", "VSW_I", "VLE_I", "VSE_I"})
  \cup Of("VLS", RVANYV, {"VSSB_I", "VSSH_I", "VSSW_I", "VLSE_I", "VSSE_I"})
  \cup Of("VLX", RVANYV, {
         "VSXB_I", "VSUXB_I", "VSXH_I", "VSUXH_I", "VSXW_I", "VSUXW_I", "VLXE_I", "VSXE_I",
         "VSUXE_I"})
  \cup Of("VAMOADD", RVANYV \cup {"A"}, {
         "VAMOADD_R", "VAMOAND_R", "VAMOMAX_R", "VAMOMAXU_R", "VAMOMIN_R", "VAMOMINU_R",
         "VAMOOR_R", "VAMOSWAP_R", "VAMOXOR_R"})

attrsVectorIVV ==
       Of("VV", RVANYV, {
         "VADD_VV", "VSUB_VV", "VMINU_VV", "VMIN_VV", "VMAXU_VV", "VMAX_VV", "VAND_VV",
         "VOR_VV", "VXOR_VV", "VRGATHER_VV", "VSEQ_VV", "VSNE_VV", "VSLTU_VV", "VSLT_VV",
         "VSLEU_VV", "VSLE_VV", "VSADDU_VV", "VSADD_VV", "VSSUBU_VV", "VSSUB_VV", "VAADDU_VV",
         "VAADD_VV", "VSLL_VV", "VASUBU_VV", "VASUB_VV", "VSMUL_VV", "VSRL_VV", "VSRA_VV",
         "VSSRL_VV", "VSSRA_VV", "VDOTU_VV", "VDOT_VV"})
  \cup Of("VVM_CIN", RVANYV, {"VADC_VV", "VMADC_VV", "VSBC_VV", "VMSBC_VV"})
  \cup Of("VVM", RVANYV, {"VMERGE_VV"})
  \cup Of("VMV_V_V", RVANYV, {"VMV_V_V"})
  \cup Of("VVN", RVANYV, {"VNSRL_VV", "VNSRA_VV", "VNCLIPU_VV", "VNCLIP_VV"})
  \cup Of("VS", RVANYV, {"VWREDSUMU_VS", "VWREDSUM_VS"})
  \cup Of("VV3", RVANYV, {
         "VWSMACCU_VV", "VWSMACC_VV", "VWSMACCSU_VV", "VQMACCU_VV", "VQMACC_VV", "VQMACCSU_VV"})

attrsVectorFVV ==
       Of("VV", RVANYV, {
         "VFADD_VV", "VFSUB_VV", "VFMIN_VV", "VFMAX_VV", "VFSGNJ_VV", "VFSGNJN_VV",
         "VFSGNJX_VV", "VFEQ_VV", "VFLTE_VV", "VFORD_VV", "VFLT_VV", "VFNE_VV", "VFDIV_VV",
         "VFMUL_VV", "VFWADD_VV", "VFWSUB_VV", "VFWMUL_VV", "VFDOT_VV"})
  \cup Of("VS", RVANYV, {
         "VFREDSUM_VS", "VFREDOSUM_VS", "VFREDMIN_VS", "VFREDMAX_VS", "VFWREDSUM_VS",
         "VFWREDOSUM_VS"})
  \cup Of("VFMV_F_S", RVANYV, {"VFMV_F_S"})
  \cup Of("V", RVANYV, {
         "VFCVT_XUF_V", "VFCVT_XF_V", "VFCVT_FXU_V", "VFCVT_FX_V", "VFWCVT_XUF_V",
         "VFWCVT_XF_V", "VFWCVT_FXU_V", "VFWCVT_FX_V", "VFWCVT_FF_V", "VFSQRT_V", "VFCLASS_V"})
  \cup Of("VN", RVANYV, {
         "VFNCVT_XUF_V", "VFNCVT_XF_V", "VFNCVT_FXU_V", "VFNCVT_FX_V", "VFNCVT_FF_V"})
  \cup Of("W_ROD", RVANYV, {"VFNCVTROD_FF_V"})
  \cup Of("VV3", RVANYV, {
         "VFMADD_VV", "VFNMADD_VV", "VFMSUB_VV", "VFNMSUB_VV", "VFMACC_VV", "VFNMACC_VV",
         "VFMSAC_VV", "VFNMSAC_VV", "VFWMACC_VV", "VFWNMACC_VV", "VFWMSAC_VV", "VFWNMSAC_VV"})
  \cup Of("WV", RVANYV, {"VFWADD_WV", "VFWSUB_WV"})

attrsVectorMVV ==
       Of("VV", RVANYV, {
         "VWADD_VV", "VWADDU_VV", "VWSUB_VV", "VWSUBU_VV", "VMUL_VV", "VMULH_VV", "VMULHU_VV",
         "VMULHSU_VV", "VWMUL_VV", "VWMULU_VV", "VWMULSU_VV", "VDIVU_VV", "VDIV_VV",
         "VREMU_VV", "VREM_VV"})
  \cup Of("WV", RVANYV, {"VWADD_WV", "VWADDU_WV", "VWSUB_WV", "VWSUBU_WV"})
  \cup Of("VV3", RVANYV, {
         "VMACC_VV", "VNMSAC_VV", "VMADD_VV", "VNMSUB_VV", "VWMACCU_VV", "VWMACC_VV",
         "VWMACCSU_VV"})
  \cup Of("VS", RVANYV, {
         "VREDSUM_VS", "VREDAND_VS", "VREDOR_VS", "VREDXOR_VS", "VREDMINU_VS", "VREDMIN_VS",
         "VREDMAXU_VS", "VREDMAX_VS"})
  \cup Of("MM", RVANYV, {
         "VMAND_MM", "VMNAND_MM", "VMANDNOT_MM", "VMXOR_MM", "VMOR_MM", "VMNOR_MM",
         "VMORNOT_MM", "VMXNOR_MM"})
  \cup Of("MX", RVANYV, {"VPOPC_M", "VFIRST_M"})
  \cup Of("MV", RVANYV, {"VMSBF_M", "VMSIF_M", "VMSOF_M", "VIOTA_M"})
  \cup Of("VID", RVANYV, {"VID_V"})
  \cup Of("VMV_X_S", RVANYV, {"VMV_X_S"})
  \cup Of("VEXT", RVANYV, {"VEXT_X_V"})
  \cup Of("VM", RVANYV, {"VCOMPRESS_VM"})

attrsVectorIVI ==
       Of("VI", RVANYV, {
         "VADD_VI", "VRSUB_VI", "VAND_VI", "VOR_VI", "VXOR_VI", "VSEQ_VI", "VSNE_VI",
         "VSLEU_VI", "VSLE_VI", "VSGTU_VI", "VSGT_VI", "VSADDU_VI", "VSADD_VI", "VAADD_VI"})
  \cup Of("VU", RVANYV, {
         "VRGATHER_VI", "VSLIDEUP_VI", "VSLIDEDOWN_VI", "VSLL_VI", "VSRL_VI", "VSRA_VI",
         "VSSRL_VI", "VSSRA_VI"})
  \cup Of("VIM_CIN", RVANYV, {"VADC_VI", "VMADC_VI"})
  \cup Of("VIM", RVANYV, {"VMERGE_VI"})
  \cup Of("VMV_V_I", RVANYV, {"VMV_V_I"})
  \cup Of("VMVR", RVANYV, {"VMVR_VI"})
  \cup Of("VUN", RVANYV, {"VNSRL_VI", "VNSRA_VI", "VNCLIPU_VI", "VNCLIP_VI"})

attrsVectorIVX ==
       Of("VX", RVANYV, {
         "VADD_VX", "VSUB_VX", "VRSUB_VX", "VMINU_VX", "VMIN_VX", "VMAXU_VX", "VMAX_VX",
         "VAND_VX", "VOR_VX", "VXOR_VX", "VRGATHER_VX", "VSLIDEUP_VX", "VSLIDEDOWN_VX",
         "VSEQ_VX", "VSNE_VX", "VSLTU_VX", "VSLT_VX", "VSLEU_VX", "VSLE_VX", "VSGTU_VX",
         "VSGT_VX", "VSADDU_VX", "VSADD_VX", "VSSUBU_VX", "VSSUB_VX", "VAADDU_VX", "VAADD_VX",
         "VSLL_VX", "VASUBU_VX", "VASUB_VX", "VSMUL_VX", "VSRL_VX", "VSRA_VX", "VSSRL_VX",
         "VSSRA_VX"})
  \cup Of("VXM_CIN", RVANYV, {"VADC_VX", "VMADC_VX", "VSBC_VX", "VMSBC_VX"})
  \cup Of("VXM", RVANYV, {"VMERGE_VX"})
  \cup Of("VMV_V_X", RVANYV, {"VMV_V_X"})
  \cup Of("VXN", RVANYV, {"VNSRL_VX", "VNSRA_VX", "VNCLIPU_VX", "VNCLIP_VX"})
  \cup Of("VX3", RVANYV, {
         "VWSMACCU_VX", "VWSMACC_VX", "VWSMACCSU_VX", "VWSMACCUS_VX", "VQMACCU_VX",
         "VQMACC_VX", "VQMACCSU_VX", "VQMACCUS_VX"})

attrsVectorFVF ==
       Of("VF", RVANYV, {
         "VFADD_VF", "VFSUB_VF", "VFMIN_VF", "VFMAX_VF", "VFSGNJ_VF", "VFSGNJN_VF",
         "VFSGNJX_VF", "VFEQ_VF", "VFLTE_VF", "VFORD_VF", "VFLT_VF", "VFNE_VF", "VFGT_VF",
         "VFGTE_VF", "VFDIV_VF", "VFRDIV_VF", "VFMUL_VF", "VFRSUB_VF", "VFWADD_VF",
         "VFWSUB_VF", "VFWMUL_VF"})
  \cup Of("VFMV_S_F", RVANYV, {"VFMV_S_F"})
  \cup Of("VFM", RVANYV, {"VFMERGE_VF"})
  \cup Of("VFMV_V_F", RVANYV, {"VFMV_V_F"})
  \cup Of("VF3", RVANYV, {
         "VFMADD_VF", "VFNMADD_VF", "VFMSUB_VF", "VFNMSUB_VF", "VFMACC_VF", "VFNMACC_VF",
         "VFMSAC_VF", "VFNMSAC_VF", "VFWMACC_VF", "VFWNMACC_VF", "VFWMSAC_VF", "VFWNMSAC_VF"})
  \cup Of("WF", RVANYV, {"VFWADD_WF", "VFWSUB_WF"})

attrsVectorMVX ==
       Of("VMV_S_X", RVANYV, {"VMV_S_X"})
  \cup Of("VX", RVANYV, {
         "VSLIDE1UP_VX", "VSLIDE1DOWN_VX", "VDIVU_VX", "VDIV_VX", "VREMU_VX", "VREM_VX",
         "VMULHU_VX", "VMUL_VX", "VMULHSU_VX", "VMULH_VX", "VWADDU_VX", "VWADD_VX",
         "VWSUBU_VX", "VWSUB_VX", "VWMULU_VX", "VWMULSU_VX", "VWMUL_VX"})
  \cup Of("VX3", RVANYV, {
         "VMADD_VX", "VNMSUB_VX", "VMACC_VX", "VNMSAC_VX", "VWMACCU_VX", "VWMACC_VX",
         "VWMACCSU_VX", "VWMACCUS_VX"})
  \cup Of("WX", RVANYV, {"VWADDU_WX", "VWADD_WX", "VWSUBU_WX", "VWSUB_WX"})

attrsArray32 ==
  LET all == UNION {attrsBase, attrsSystem, attrsAtomicFloat, attrsVectorAccess, attrsVectorIVV,
                    attrsVectorFVV, attrsVectorMVV, attrsVectorIVI, attrsVectorIVX,
                    attrsVectorFVF, attrsVectorMVX}
  IN  [n \in {t.name : t \in all} |-> CHOOSE t \in all : t.name = n]

(* The generic types of patterns that have another name. *)
GenericType ==
  [NEG_R |-> "SUB_R", SGTZ_R |-> "SLT_R", SNEZ_R |-> "SLTU_R", SLTZ_R |-> "SLT_R",
   JR_I |-> "JALR_I", JR0_I |-> "JALR_I", JALR0_I |-> "JALR_I", RET_I |-> "JALR_I",
   MV_I |-> "MV_R", NOP_I |-> "ADDI_I", NOT_I |-> "XORI_I", SEQZ_I |-> "SLTIU_I",
   SEXTW_I |-> "ADDI_I", LUI_U |-> "MV_C", J_J |-> "JAL_J", BEQZ_B |-> "BEQ_B",
   BGEZ_B |-> "BGE_B", BLTZ_B |-> "BLT_B", BNEZ_B |-> "BNE_B", BLEZ_B |-> "BGE_B",
   BGTZ_B |-> "BLT_B", FMVFX_R |-> "MV_R", FMVXF_R |-> "MV_R", FL_I |-> "L_I", FS_I |-> "S_I",
   VMV_X_S |-> "VEXT_X_V", VFNCVTROD_FF_V |-> "VFNCVT_FF_V"]
  @@ [n \in {"LB_I", "LBU_I", "LH_I", "LHU_I", "LW_I", "LWU_I", "LD_I"} |-> "L_I"]
  @@ [n \in {"SB_I", "SH_I", "SW_I", "SD_I"} |-> "S_I"]
  @@ [n \in {"CSRRC_I", "CSRRS_I", "CSRRW_I", "CSRC_I", "CSRS_I", "CSRW_I", "RDX1_I", "RDX2_I",
             "FRSR_I", "FRFLAGS_I", "FRRM_I", "FSSR_I", "FSFLAGS_I", "FSRM_I"} |-> "CSRR_I"]
  @@ [n \in {"CSRRCI_I", "CSRRSI_I", "CSRRWI_I", "CSRCI_I", "CSRSI_I", "CSRWI_I"} |-> "CSRRI_I"]
  @@ [n \in {"FCVT_F_X_R", "FCVT_X_F_R", "FCVT_D_S_R", "FCVT_S_D_R"} |-> "FCVT_R"]
  @@ [n \in {"CUSTOM1", "CUSTOM2", "CUSTOM3", "CUSTOM4"} |-> "CUSTOM"]

-----------------------------------------------------------------------------
(* decodeCommon16 and attrsArray16: a row has its macro, generic type and  *)
(* architecture with it.                                                   *)

Any1 == {0, 1}
Q0 == {0}
Q1 == {1}
Q2 == {2}
RVANYC == RVANY \cup {"C"}
RV32C  == {"32", "C"}
RV64C  == {"64", "C"}

Row16(n, f3, b12, hi, lo, q, macro, type, arch) ==
  [name |-> n, in |-> <<{f3}, b12, hi, lo, q>>, macro |-> macro, type |-> type, arch |-> arch]

arith16 ==
  LET rows(b, q, t) == Row16(t[1], \b100, {b}, {24 + r : r \in 0..7}, {8 * q + r : r \in 0..7},
                             Q1, t[2], t[3], t[4])
  IN  {rows(0, \b00, <<"SUB_R", "AND", "SUB_R", RVANYC>>), rows(0, \b01, <<"XOR_R", "AND", "XOR_R", RVANYC>>),
       rows(0, \b10, <<"OR_R", "AND", "OR_R", RVANYC>>),   rows(0, \b11, <<"AND_R", "AND", "AND_R", RVANYC>>),
       rows(1, \b00, <<"SUBW_R", "ADDW", "SUB_R", RV64C>>), rows(1, \b01, <<"ADDW_R", "ADDW", "ADD_R", RV64C>>),
       Row16("ADD_R", \b100, {1}, Any5, Any5, Q2, "ADD", "ADD_R", RVANYC),
       Row16("MV_R",  \b100, {0}, Any5, Any5, Q2, "MV", "MV_R", RVANYC)}

immediate16 ==
  {Row16("ADDI_I",     \b000, Any1, Any5, Any5, Q1, "ADDI", "ADDI_I", RVANYC),
   Row16("ADDI16SP_I", \b011, Any1, {2},  Any5, Q1, "ADDI16SP", "ADDI_I", RVANYC),
   Row16("ADDI4SPN_I", \b000, Any1, Any5, Any5, Q0, "ADDI4SPN", "ADDI_I", RVANYC),
   Row16("ADDIW_I",    \b001, Any1, Any5, Any5, Q1, "ADDIW", "ADDI_I", RV64C),
   Row16("ANDI_I",     \b100, Any1, 16..23, Any5, Q1, "ANDI", "ANDI_I", RVANYC),
   Row16("SLLI_I",     \b000, Any1, Any5, Any5, Q2, "SLLI", "SLLI_I", RVANYC),
   Row16("SRAI_I",     \b100, Any1, 8..15, Any5, Q1, "SRAI", "SRAI_I", RVANYC),
   Row16("SRLI_I",     \b100, Any1, 0..7, Any5, Q1, "SRAI", "SRLI_I", RVANYC),
   Row16("LI_I",       \b010, Any1, Any5, Any5, Q1, "LI", "ADDI_I", RVANYC),
   Row16("LUI_I",      \b011, Any1, Any5, Any5, Q1, "LUI", "ADDI_I", RVANYC)}

access16 ==
  LET row(n, f3, q, macro, type, arch) == Row16(n, f3, Any1, Any5, Any5, q, macro, type, arch)
  IN  {row("LW_I",  \b010, Q0, "LW", "L_I", RVANYC), row("LWSP_I",  \b010, Q2, "LWSP", "L_I", RVANYC),
       row("LD_I",  \b011, Q0, "LD", "L_I", RV64C),  row("LDSP_I",  \b011, Q2, "LDSP", "L_I", RV64C),
       row("SW_I",  \b110, Q0, "LW", "S_I", RVANYC), row("SWSP_I",  \b110, Q2, "SWSP", "S_I", RVANYC),
       row("SD_I",  \b111, Q0, "LD", "S_I", RV64C),  row("SDSP_I",  \b111, Q2, "SDSP", "S_I", RV64C),
       row("FLD_I", \b001, Q0, "FLD", "L_I", RVANYC \cup {"D"}),
       row("FLDSP_I", \b001, Q2, "FLDSP", "L_I", RVANYC \cup {"D"}),
       row("FLW_I", \b011, Q0, "FLW", "L_I", RV32C \cup {"F"}),
       row("FLWSP_I", \b011, Q2, "FLWSP", "L_I", RV32C \cup {"F"}),
       row("FSD_I", \b101, Q0, "FLD", "S_I", RVANYC \cup {"D"}),
       row("FSDSP_I", \b101, Q2, "FSDSP", "S_I", RVANYC \cup {"D"}),
       row("FSW_I", \b111, Q0, "FLW", "S_I", RV32C \cup {"F"}),
       row("FSWSP_I", \b111, Q2, "FSWSP", "S_I", RV32C \cup {"F"})}

jump16 ==
  {Row16("JR_I",     \b100, {0}, Any5, {0}, Q2, "JR", "JALR_I", RVANYC),
   Row16("JALR_I",   \b100, {1}, Any5, {0}, Q2, "JALR", "JALR_I", RVANYC),
   Row16("EBREAK_I", \b100, {1}, {0},  {0}, Q2, "NOP", "EBREAK_I", RVANYC),
   Row16("BEQZ_B",   \b110, Any1, Any5, Any5, Q1, "BEQZ", "BEQ_B", RVANYC),
   Row16("BNEZ_B",   \b111, Any1, Any5, Any5, Q1, "BEQZ", "BNE_B", RVANYC),
   Row16("J_J",      \b101, Any1, Any5, Any5, Q1, "J", "JAL_J", RVANYC),
   Row16("JAL_J",    \b001, Any1, Any5, Any5, Q1, "JAL", "JAL_J", RV32C)}

reserved16 ==
  {Row16("UD1",  \b000, {0},  {0}, {0},  Q0, "NOP", "LAST", RVANYC),
   Row16("RES1", \b000, {0},  {0}, 0..7, Q0, "NOP", "LAST", RVANYC),
   Row16("RES2", \b011, {0},  Any5, {0}, Q1, "NOP", "LAST", RVANYC),
   Row16("RES3", \b100, {0},  {0}, {0},  Q2, "NOP", "LAST", RVANYC),
   Row16("RES4", \b001, Any1, {0}, Any5, Q1, "NOP", "LAST", RV64C),
   Row16("RES5", \b010, Any1, {0}, Any5, Q2, "NOP", "LAST", RVANYC),
   Row16("RES6", \b011, Any1, {0}, Any5, Q2, "NOP", "LAST", RV64C)}

decodeCommon16 == UNION {arith16, immediate16, access16, jump16, reserved16}

(* insertEntries16: only the rows of the current XLEN, as patterns are     *)
(* reused.                                                                 *)
createDecodeTable16(xlen) == {r \in decodeCommon16 : xlen \in r.arch}

=============================================================================
