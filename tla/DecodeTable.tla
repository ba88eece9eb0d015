----------------------------- MODULE DecodeTable -----------------------------
(***************************************************************************)
(* The decode tables of riscvDecode.c.  A row leaves each field of the     *)
(* instruction a set of values, so that a pattern such as                  *)
(* |0000000|.....|00000|010|.....|0110011| is a product of six sets: the   *)
(* vmid library (external) matches a word with the rows it is in and gives *)
(* it the one of highest priority.  VMID_DERIVE_PRIORITY is the number of  *)
(* bits the pattern fixes; priDelta is added.                              *)
(***************************************************************************)
EXTENDS VectorVersion, Integers, FiniteSets, TLC

Any3 == 0..7
Any5 == 0..31
Any7 == 0..127

(* The fields of a 32-bit and of a 16-bit pattern: first and last bit. *)
Layout32 == <<<<31, 25>>, <<24, 20>>, <<19, 15>>, <<14, 12>>, <<11, 7>>, <<6, 0>>>>
Layout16 == <<<<15, 13>>, <<12, 12>>, <<11, 7>>, <<6, 2>>, <<1, 0>>>>

Row(n, f7, rs2, rs1, f3, rd, op) == [name |-> n, in |-> <<f7, rs2, rs1, f3, rd, op>>]

-----------------------------------------------------------------------------
(* decodeCommon32: the rows of all versions                                *)

(* Major opcodes; those of the W forms leave bit 3 free. *)
OP       == {\b0110011}
OP_W     == {\b0110011, \b0111011}
OP_IMM   == {\b0010011}
OP_IMM_W == {\b0010011, \b0011011}
LOAD     == {\b0000011}
STORE    == {\b0100011}
SYSTEM   == {\b1110011}
JALR     == {\b1100111}
BRANCH   == {\b1100011}
AMO      == {\b0101111}
FP       == {\b1010011}
LOAD_FP  == {\b0000111}
STORE_FP == {\b0100111}
OP_V     == {\b1010111}

(* R-type rows with funct7 f7 and a record of funct3 values. *)
R(f7, op, f3) == {Row(n, {f7}, Any5, Any5, {f3[n]}, Any5, op) : n \in DOMAIN f3}
(* I-type rows with any immediate, or with the immediate <<f7, rs2>>. *)
I(op, f3) == {Row(n, Any7, Any5, Any5, {f3[n]}, Any5, op) : n \in DOMAIN f3}
Z(f7, rs2, op, f3) == {Row(n, {f7}, {rs2}, Any5, {f3[n]}, Any5, op) : n \in DOMAIN f3}

baseR ==
       R(\b0000000, OP_W, [ADD_R |-> \b000, SLL_R |-> \b001, SRL_R |-> \b101])
  \cup R(\b0100000, OP_W, [SUB_R |-> \b000, SRA_R |-> \b101])
  \cup R(\b0000000, OP, [SLT_R |-> \b010, SLTU_R |-> \b011, XOR_R |-> \b100,
                         OR_R |-> \b110, AND_R |-> \b111])
  \cup {Row("NEG_R",  {\b0100000}, Any5, {0}, {\b000}, Any5, OP_W),
        Row("SGTZ_R", {\b0000000}, Any5, {0}, {\b010}, Any5, OP),
        Row("SNEZ_R", {\b0000000}, Any5, {0}, {\b011}, Any5, OP),
        Row("SLTZ_R", {\b0000000}, {0}, Any5, {\b010}, Any5, OP)}

mulR ==
       R(\b0000001, OP_W, [MUL_R |-> \b000, DIV_R |-> \b100, DIVU_R |-> \b101,
                           REM_R |-> \b110, REMU_R |-> \b111])
  \cup R(\b0000001, OP, [MULH_R |-> \b001, MULHSU_R |-> \b010, MULHU_R |-> \b011])

baseI ==
       I(OP_IMM_W, [ADDI_I |-> \b000])
  \cup I(OP_IMM, [SLTI_I |-> \b010, SLTIU_I |-> \b011, XORI_I |-> \b100,
                  ORI_I |-> \b110, ANDI_I |-> \b111])
  \cup I(JALR, [JALR_I |-> \b000])
  \cup Z(0, 0, OP_IMM, [MV_I |-> \b000])
  \cup Z(0, 0, {\b0011011}, [SEXTW_I |-> \b000])
  \cup Z(0, 1, OP_IMM, [SEQZ_I |-> \b011])
  \cup Z(127, 31, OP_IMM, [NOT_I |-> \b100])
  \cup Z(0, 0, JALR, [JALR0_I |-> \b000])
  \cup {Row("JR_I",   Any7, Any5, Any5, {\b000}, {0}, JALR),
        Row("JR0_I",  {0}, {0}, Any5, {\b000}, {0}, JALR),
        Row("RET_I",  {0}, {0}, {1}, {\b000}, {0}, JALR),
        Row("NOP_I",  {0}, {0}, {0}, {\b000}, {0}, OP_IMM),
        Row("SLLI_I", {\b0000000, \b0000001}, Any5, Any5, {\b001}, Any5, OP_IMM_W),
        Row("SRLI_I", {\b0000000, \b0000001}, Any5, Any5, {\b101}, Any5, OP_IMM_W),
        Row("SRAI_I", {\b0100000, \b0100001}, Any5, Any5, {\b101}, Any5, OP_IMM_W)}

loadStore ==
       I(LOAD, [LB_I |-> \b000, LH_I |-> \b001, LW_I |-> \b010, LD_I |-> \b011,
                LBU_I |-> \b100, LHU_I |-> \b101, LWU_I |-> \b110])
  \cup I(STORE, [SB_I |-> \b000, SH_I |-> \b001, SW_I |-> \b010, SD_I |-> \b011])

csrI ==
       I(SYSTEM, [CSRRW_I |-> \b001, CSRRS_I |-> \b010, CSRRC_I |-> \b011,
                  CSRRWI_I |-> \b101, CSRRSI_I |-> \b110, CSRRCI_I |-> \b111])
  \cup LET rd0 == [CSRW_I |-> \b001, CSRS_I |-> \b010, CSRC_I |-> \b011,
                   CSRWI_I |-> \b101, CSRSI_I |-> \b110, CSRCI_I |-> \b111]
       IN  {Row(n, Any7, Any5, Any5, {rd0[n]}, {0}, SYSTEM) : n \in DOMAIN rd0}
  \cup {Row("CSRR_I", Any7, Any5, {0}, {\b010}, Any5, SYSTEM),
        Row("RDX1_I", {\b1100000, \b1100100}, {0, 1}, {0}, {\b010}, Any5, SYSTEM),
        Row("RDX2_I", {\b1100000, \b1100100}, {2}, {0}, {\b010}, Any5, SYSTEM)}

systemI ==
       LET imm == [ECALL_I |-> <<0, 0>>, EBREAK_I |-> <<0, 1>>, URET_I |-> <<0, 2>>,
                   SRET_I |-> <<\b0001000, 2>>, WFI_I |-> <<\b0001000, 5>>,
                   MRET_I |-> <<\b0011000, 2>>, DRET_I |-> <<\b0111101, \b10010>>]
       IN  {Row(n, {imm[n][1]}, {imm[n][2]}, {0}, {0}, {0}, SYSTEM) : n \in DOMAIN imm}
  \cup {Row("FENCE_VMA_R", {\b0001001}, Any5, Any5, {0}, {0}, SYSTEM)}
  \cup I({\b0001111}, [FENCE_I |-> \b000, FENCEI_I |-> \b001])

baseUBJ ==
       {Row("AUIPC_U", Any7, Any5, Any5, Any3, Any5, {\b0010111}),
        Row("LUI_U",   Any7, Any5, Any5, Any3, Any5, {\b0110111}),
        Row("JAL_J",   Any7, Any5, Any5, Any3, Any5, {\b1101111}),
        Row("J_J",     Any7, Any5, Any5, Any3, {0},  {\b1101111})}
  \cup I(BRANCH, [BEQ_B |-> \b000, BNE_B |-> \b001, BLT_B |-> \b100,
                  BGE_B |-> \b101, BLTU_B |-> \b110, BGEU_B |-> \b111])
  \cup LET rs2Is0 == [BEQZ_B |-> \b000, BNEZ_B |-> \b001, BLTZ_B |-> \b100, BGEZ_B |-> \b101]
       IN  {Row(n, Any7, {0}, Any5, {rs2Is0[n]}, Any5, BRANCH) : n \in DOMAIN rs2Is0}
  \cup {Row("BGTZ_B", Any7, Any5, {0}, {\b100}, Any5, BRANCH),
        Row("BLEZ_B", Any7, Any5, {0}, {\b101}, Any5, BRANCH)}

(* funct5 with any aq and rl; the low bit of funct3 is the width. *)
Funct5(f) == {4 * f + i : i \in 0..3}

atomicR ==
  LET f5 == [AMOADD_R |-> \b00000, AMOSWAP_R |-> \b00001, SC_R |-> \b00011,
             AMOXOR_R |-> \b00100, AMOOR_R |-> \b01000, AMOAND_R |-> \b01100,
             AMOMIN_R |-> \b10000, AMOMAX_R |-> \b10100, AMOMINU_R |-> \b11000,
             AMOMAXU_R |-> \b11100]
  IN  {Row(n, Funct5(f5[n]), Any5, Any5, {\b010, \b011}, Any5, AMO) : n \in DOMAIN f5}
        \cup {Row("LR_R", Funct5(\b00010), {0}, Any5, {\b010, \b011}, Any5, AMO)}

(* funct7 of the S and D forms: the low bit is free. *)
Fmt(f) == {f, f + 1}

floatR ==
       LET f7 == [FADD_R |-> \b0000000, FSUB_R |-> \b0000100, FMUL_R |-> \b0001000,
                  FDIV_R |-> \b0001100]
       IN  {Row(n, Fmt(f7[n]), Any5, Any5, Any3, Any5, FP) : n \in DOMAIN f7}
  \cup LET f == [FSGNJ_R |-> <<\b0010000, \b000>>, FSGNJN_R |-> <<\b0010000, \b001>>,
                 FSGNJX_R |-> <<\b0010000, \b010>>, FMIN_R |-> <<\b0010100, \b000>>,
                 FMAX_R |-> <<\b0010100, \b001>>, FLE_R |-> <<\b1010000, \b000>>,
                 FLT_R |-> <<\b1010000, \b001>>, FEQ_R |-> <<\b1010000, \b010>>]
       IN  {Row(n, Fmt(f[n][1]), Any5, Any5, {f[n][2]}, Any5, FP) : n \in DOMAIN f}
  \cup {Row("FCLASS_R",   Fmt(\b1110000), {0}, Any5, {\b001}, Any5, FP),
        Row("FMVXF_R",    Fmt(\b1110000), {0}, Any5, {\b000}, Any5, FP),
        Row("FMVFX_R",    Fmt(\b1111000), {0}, Any5, {\b000}, Any5, FP),
        Row("FSQRT_R",    Fmt(\b0101100), {0}, Any5, Any3, Any5, FP),
        Row("FCVT_F_X_R", Fmt(\b1101000), 0..3, Any5, Any3, Any5, FP),
        Row("FCVT_X_F_R", Fmt(\b1100000), 0..3, Any5, Any3, Any5, FP),
        Row("FCVT_D_S_R", {\b0100001}, {0}, Any5, Any3, Any5, FP),
        Row("FCVT_S_D_R", {\b0100000}, {1}, Any5, Any3, Any5, FP)}

floatOther ==
       LET op == [FMADD_R4 |-> \b1000011, FMSUB_R4 |-> \b1000111,
                  FNMSUB_R4 |-> \b1001011, FNMADD_R4 |-> \b1001111]
           fu == {f \in Any7 : (f \div 2) % 2 = 0}
       IN  {Row(n, fu, Any5, Any5, Any3, Any5, {op[n]}) : n \in DOMAIN op}
  \cup {Row("FL_I", Any7, Any5, Any5, {\b010, \b011}, Any5, LOAD_FP),
        Row("FS_I", Any7, Any5, Any5, {\b010, \b011}, Any5, STORE_FP)}
  \cup LET rd == [FRFLAGS_I |-> 1, FRRM_I |-> 2, FRSR_I |-> 3]
       IN  {Row(n, {0}, {rd[n]}, {0}, {\b010}, Any5, SYSTEM) : n \in DOMAIN rd}
  \cup LET wr == [FSFLAGS_I |-> 1, FSRM_I |-> 2, FSSR_I |-> 3]
       IN  {Row(n, {0}, {wr[n]}, Any5, {\b001}, Any5, SYSTEM) : n \in DOMAIN wr}

custom ==
  LET op == [CUSTOM1 |-> \b0001011, CUSTOM2 |-> \b0101011,
             CUSTOM3 |-> \b1011011, CUSTOM4 |-> \b1111011]
  IN  {Row(n, Any7, Any5, Any5, Any3, Any5, {op[n]}) : n \in DOMAIN op}

vectorConfig ==
  {Row("VSETVL_R", {\b1000000}, Any5, Any5, {\b111}, Any5, OP_V),
   Row("VSETVL_I", {\b0000000}, Any5, Any5, {\b111}, Any5, OP_V)}

(* funct7 of a vector access is |nf|mop|m|; nf and m are free. *)
Mop(ms) == {16 * nf + 2 * mop + m : nf \in 0..7, mop \in ms, m \in {0, 1}}
Access(n, ms, rs2, wth, op) == Row(n, Mop(ms), rs2, Any5, {wth}, Any5, op)

(* A load's mop leaves bit 28, sign or zero extension, free unless its     *)
(* elements have SEW bits; xs2 has the fault-only-first bit.               *)
Loads(names, wth, ext) ==
  {Access(names[1], {\b000} \cup ext, {0, \b10000}, wth, LOAD_FP),
   Access(names[2], {\b010} \cup {m + 2 : m \in ext}, Any5, wth, LOAD_FP),
   Access(names[3], {\b011} \cup {m + 3 : m \in ext}, Any5, wth, LOAD_FP)}
Stores(names, wth) ==
  {Access(names[1], {\b000}, {0}, wth, STORE_FP), Access(names[2], {\b010}, Any5, wth, STORE_FP),
   Access(names[3], {\b011}, Any5, wth, STORE_FP), Access(names[4], {\b111}, Any5, wth, STORE_FP)}

vectorAccess ==
       Loads(<<"VLB_I", "VLSB_I", "VLXB_I">>, \b000, {\b100})
  \cup Loads(<<"VLH_I", "VLSH_I", "VLXH_I">>, \b101, {\b100})
  \cup Loads(<<"VLW_I", "VLSW_I", "VLXW_I">>, \b110, {\b100})
  \cup Loads(<<"VLE_I", "VLSE_I", "VLXE_I">>, \b111, {})
  \cup Stores(<<"VSB_I", "VSSB_I", "VSXB_I", "VSUXB_I">>, \b000)
  \cup Stores(<<"VSH_I", "VSSH_I", "VSXH_I", "VSUXH_I">>, \b101)
  \cup Stores(<<"VSW_I", "VSSW_I", "VSXW_I", "VSUXW_I">>, \b110)
  \cup Stores(<<"VSE_I", "VSSE_I", "VSXE_I", "VSUXE_I">>, \b111)

vectorAMO ==
  LET f5 == [VAMOADD_R |-> \b00000, VAMOSWAP_R |-> \b00001, VAMOXOR_R |-> \b00100,
             VAMOOR_R |-> \b01000, VAMOAND_R |-> \b01100, VAMOMIN_R |-> \b10000,
             VAMOMAX_R |-> \b10100, VAMOMINU_R |-> \b11000, VAMOMAXU_R |-> \b11100]
  IN  {Row(n, Funct5(f5[n]), Any5, Any5, {\b110, \b111}, Any5, AMO) : n \in DOMAIN f5}

IVV == \b000
FVV == \b001
MVV == \b010
IVI == \b011
IVX == \b100
FVF == \b101
MVX == \b110

(* Vector arithmetic with operand form f3 and a record of funct6 values:   *)
(* with any mask bit, with mask bit m, and with vs2 zero besides.          *)
V(f3, f6) ==
  {Row(n, {2 * f6[n], 2 * f6[n] + 1}, Any5, Any5, {f3}, Any5, OP_V) : n \in DOMAIN f6}
VM(f3, m, f6) == {Row(n, {2 * f6[n] + m}, Any5, Any5, {f3}, Any5, OP_V) : n \in DOMAIN f6}
VZ(f3, m, f6) == {Row(n, {2 * f6[n] + m}, {0}, Any5, {f3}, Any5, OP_V) : n \in DOMAIN f6}
(* With funct6 f6, a mask bit in ms, and a record of vs1 values. *)
V1(f3, f6, ms, vs1) ==
  {Row(n, {2 * f6 + m : m \in ms}, Any5, {vs1[n]}, {f3}, Any5, OP_V) : n \in DOMAIN vs1}
AnyMask == {0, 1}

vectorIVV ==
       V(IVV, [
         VADD_VV |-> \b000000, VSUB_VV |-> \b000010, VMINU_VV |-> \b000100,
         VMIN_VV |-> \b000101, VMAXU_VV |-> \b000110, VMAX_VV |-> \b000111,
         VAND_VV |-> \b001001, VOR_VV |-> \b001010, VXOR_VV |-> \b001011,
         VRGATHER_VV |-> \b001100, VSEQ_VV |-> \b011000, VSNE_VV |-> \b011001,
         VSLTU_VV |-> \b011010, VSLT_VV |-> \b011011, VSLEU_VV |-> \b011100,
         VSLE_VV |-> \b011101, VSADDU_VV |-> \b100000, VSADD_VV |-> \b100001,
         VSSUBU_VV |-> \b100010, VSSUB_VV |-> \b100011, VSLL_VV |-> \b100101,
         VSMUL_VV |-> \b100111, VSRL_VV |-> \b101000, VSRA_VV |-> \b101001,
         VSSRL_VV |-> \b101010, VSSRA_VV |-> \b101011, VNSRL_VV |-> \b101100,
         VNSRA_VV |-> \b101101, VNCLIPU_VV |-> \b101110,
         VNCLIP_VV |-> \b101111, VWREDSUMU_VS |-> \b110000,
         VWREDSUM_VS |-> \b110001, VDOTU_VV |-> \b111000, VDOT_VV |-> \b111001])
  \cup VM(IVV, 0, [
         VMERGE_VV |-> \b010111])
  \cup VZ(IVV, 1, [
         VMV_V_V |-> \b010111])

vectorFVV ==
       V(FVV, [
         VFADD_VV |-> \b000000, VFREDSUM_VS |-> \b000001,
         VFSUB_VV |-> \b000010, VFREDOSUM_VS |-> \b000011,
         VFMIN_VV |-> \b000100, VFREDMIN_VS |-> \b000101,
         VFMAX_VV |-> \b000110, VFREDMAX_VS |-> \b000111,
         VFSGNJ_VV |-> \b001000, VFSGNJN_VV |-> \b001001,
         VFSGNJX_VV |-> \b001010, VFEQ_VV |-> \b011000, VFLTE_VV |-> \b011001,
         VFLT_VV |-> \b011011, VFNE_VV |-> \b011100, VFDIV_VV |-> \b100000,
         VFMUL_VV |-> \b100100, VFMADD_VV |-> \b101000,
         VFNMADD_VV |-> \b101001, VFMSUB_VV |-> \b101010,
         VFNMSUB_VV |-> \b101011, VFMACC_VV |-> \b101100,
         VFNMACC_VV |-> \b101101, VFMSAC_VV |-> \b101110,
         VFNMSAC_VV |-> \b101111, VFWADD_VV |-> \b110000,
         VFWREDSUM_VS |-> \b110001, VFWSUB_VV |-> \b110010,
         VFWREDOSUM_VS |-> \b110011, VFWADD_WV |-> \b110100,
         VFWSUB_WV |-> \b110110, VFWMUL_VV |-> \b111000,
         VFDOT_VV |-> \b111001, VFWMACC_VV |-> \b111100,
         VFWNMACC_VV |-> \b111101, VFWMSAC_VV |-> \b111110,
         VFWNMSAC_VV |-> \b111111])
  \cup V1(FVV, \b100010, AnyMask, [
         VFCVT_XUF_V |-> \b00000, VFCVT_XF_V |-> \b00001,
         VFCVT_FXU_V |-> \b00010, VFCVT_FX_V |-> \b00011,
         VFWCVT_XUF_V |-> \b01000, VFWCVT_XF_V |-> \b01001,
         VFWCVT_FXU_V |-> \b01010, VFWCVT_FX_V |-> \b01011,
         VFWCVT_FF_V |-> \b01100, VFNCVT_XUF_V |-> \b10000,
         VFNCVT_XF_V |-> \b10001, VFNCVT_FXU_V |-> \b10010,
         VFNCVT_FX_V |-> \b10011, VFNCVT_FF_V |-> \b10100])
  \cup V1(FVV, \b100011, AnyMask, [
         VFSQRT_V |-> \b00000, VFCLASS_V |-> \b10000])

vectorMVV ==
       V(MVV, [
         VWADD_VV |-> \b110001, VWADDU_VV |-> \b110000, VWSUB_VV |-> \b110011,
         VWSUBU_VV |-> \b110010, VWADD_WV |-> \b110101,
         VWADDU_WV |-> \b110100, VWSUB_WV |-> \b110111,
         VWSUBU_WV |-> \b110110, VMUL_VV |-> \b100101, VMULH_VV |-> \b100111,
         VMULHU_VV |-> \b100100, VMULHSU_VV |-> \b100110,
         VWMUL_VV |-> \b111011, VWMULU_VV |-> \b111000,
         VWMULSU_VV |-> \b111010, VMACC_VV |-> \b101101,
         VNMSAC_VV |-> \b101111, VMADD_VV |-> \b101001,
         VNMSUB_VV |-> \b101011, VWMACCU_VV |-> \b111100,
         VWMACC_VV |-> \b111101, VDIVU_VV |-> \b100000, VDIV_VV |-> \b100001,
         VREMU_VV |-> \b100010, VREM_VV |-> \b100011, VREDSUM_VS |-> \b000000,
         VREDAND_VS |-> \b000001, VREDOR_VS |-> \b000010,
         VREDXOR_VS |-> \b000011, VREDMINU_VS |-> \b000100,
         VREDMIN_VS |-> \b000101, VREDMAXU_VS |-> \b000110,
         VREDMAX_VS |-> \b000111])
  \cup VM(MVV, 1, [
         VMAND_MM |-> \b011001, VMNAND_MM |-> \b011101,
         VMANDNOT_MM |-> \b011000, VMXOR_MM |-> \b011011,
         VMOR_MM |-> \b011010, VMNOR_MM |-> \b011110, VMORNOT_MM |-> \b011100,
         VMXNOR_MM |-> \b011111, VCOMPRESS_VM |-> \b010111])

vectorIVI ==
       V(IVI, [
         VADD_VI |-> \b000000, VRSUB_VI |-> \b000011, VAND_VI |-> \b001001,
         VOR_VI |-> \b001010, VXOR_VI |-> \b001011, VRGATHER_VI |-> \b001100,
         VSLIDEUP_VI |-> \b001110, VSLIDEDOWN_VI |-> \b001111,
         VSEQ_VI |-> \b011000, VSNE_VI |-> \b011001, VSLEU_VI |-> \b011100,
         VSLE_VI |-> \b011101, VSGTU_VI |-> \b011110, VSGT_VI |-> \b011111,
         VSADDU_VI |-> \b100000, VSADD_VI |-> \b100001, VSLL_VI |-> \b100101,
         VSRL_VI |-> \b101000, VSRA_VI |-> \b101001, VSSRL_VI |-> \b101010,
         VSSRA_VI |-> \b101011, VNSRL_VI |-> \b101100, VNSRA_VI |-> \b101101,
         VNCLIPU_VI |-> \b101110, VNCLIP_VI |-> \b101111])
  \cup VM(IVI, 0, [
         VMERGE_VI |-> \b010111])
  \cup VZ(IVI, 1, [
         VMV_V_I |-> \b010111])

vectorIVX ==
       V(IVX, [
         VADD_VX |-> \b000000, VSUB_VX |-> \b000010, VRSUB_VX |-> \b000011,
         VMINU_VX |-> \b000100, VMIN_VX |-> \b000101, VMAXU_VX |-> \b000110,
         VMAX_VX |-> \b000111, VAND_VX |-> \b001001, VOR_VX |-> \b001010,
         VXOR_VX |-> \b001011, VRGATHER_VX |-> \b001100,
         VSLIDEUP_VX |-> \b001110, VSLIDEDOWN_VX |-> \b001111,
         VSEQ_VX |-> \b011000, VSNE_VX |-> \b011001, VSLTU_VX |-> \b011010,
         VSLT_VX |-> \b011011, VSLEU_VX |-> \b011100, VSLE_VX |-> \b011101,
         VSGTU_VX |-> \b011110, VSGT_VX |-> \b011111, VSADDU_VX |-> \b100000,
         VSADD_VX |-> \b100001, VSSUBU_VX |-> \b100010, VSSUB_VX |-> \b100011,
         VSLL_VX |-> \b100101, VSMUL_VX |-> \b100111, VSRL_VX |-> \b101000,
         VSRA_VX |-> \b101001, VSSRL_VX |-> \b101010, VSSRA_VX |-> \b101011,
         VNSRL_VX |-> \b101100, VNSRA_VX |-> \b101101,
         VNCLIPU_VX |-> \b101110, VNCLIP_VX |-> \b101111])
  \cup VM(IVX, 0, [
         VMERGE_VX |-> \b010111])
  \cup VZ(IVX, 1, [
         VMV_V_X |-> \b010111])

vectorFVF ==
       V(FVF, [
         VFADD_VF |-> \b000000, VFSUB_VF |-> \b000010, VFMIN_VF |-> \b000100,
         VFMAX_VF |-> \b000110, VFSGNJ_VF |-> \b001000,
         VFSGNJN_VF |-> \b001001, VFSGNJX_VF |-> \b001010,
         VFEQ_VF |-> \b011000, VFLTE_VF |-> \b011001, VFLT_VF |-> \b011011,
         VFNE_VF |-> \b011100, VFGT_VF |-> \b011101, VFGTE_VF |-> \b011111,
         VFDIV_VF |-> \b100000, VFRDIV_VF |-> \b100001, VFMUL_VF |-> \b100100,
         VFRSUB_VF |-> \b100111, VFMADD_VF |-> \b101000,
         VFNMADD_VF |-> \b101001, VFMSUB_VF |-> \b101010,
         VFNMSUB_VF |-> \b101011, VFMACC_VF |-> \b101100,
         VFNMACC_VF |-> \b101101, VFMSAC_VF |-> \b101110,
         VFNMSAC_VF |-> \b101111, VFWADD_VF |-> \b110000,
         VFWSUB_VF |-> \b110010, VFWADD_WF |-> \b110100,
         VFWSUB_WF |-> \b110110, VFWMUL_VF |-> \b111000,
         VFWMACC_VF |-> \b111100, VFWNMACC_VF |-> \b111101,
         VFWMSAC_VF |-> \b111110, VFWNMSAC_VF |-> \b111111])
  \cup VM(FVF, 0, [
         VFMERGE_VF |-> \b010111])
  \cup VZ(FVF, 1, [
         VFMV_V_F |-> \b010111])

vectorMVX ==
  V(MVX, [
         VSLIDE1UP_VX |-> \b001110, VSLIDE1DOWN_VX |-> \b001111,
         VDIVU_VX |-> \b100000, VDIV_VX |-> \b100001, VREMU_VX |-> \b100010,
         VREM_VX |-> \b100011, VMULHU_VX |-> \b100100, VMUL_VX |-> \b100101,
         VMULHSU_VX |-> \b100110, VMULH_VX |-> \b100111,
         VMADD_VX |-> \b101001, VNMSUB_VX |-> \b101011, VMACC_VX |-> \b101101,
         VNMSAC_VX |-> \b101111, VWADDU_VX |-> \b110000,
         VWADD_VX |-> \b110001, VWSUBU_VX |-> \b110010, VWSUB_VX |-> \b110011,
         VWADDU_WX |-> \b110100, VWADD_WX |-> \b110101,
         VWSUBU_WX |-> \b110110, VWSUB_WX |-> \b110111,
         VWMULU_VX |-> \b111000, VWMULSU_VX |-> \b111010,
         VWMUL_VX |-> \b111011, VWMACCU_VX |-> \b111100,
         VWMACC_VX |-> \b111101])

decodeCommon32 ==
  UNION {baseR, mulR, baseI, loadStore, csrI, systemI, baseUBJ, atomicR, floatR,
         floatOther, custom, vectorConfig, vectorAccess, vectorAMO, vectorIVV, vectorFVV,
         vectorMVV, vectorIVI, vectorIVX, vectorFVF, vectorMVX}

-----------------------------------------------------------------------------
(* The rows that depend on the version of the vector extension             *)

VID_V(f6) == {Row("VID_V", {2 * f6, 2 * f6 + 1}, {0}, {\b10001}, {MVV}, Any5, OP_V)}

decodeVectorV08 ==
       V1(MVV, \b010000, {1}, [VMV_X_S |-> 0])
  \cup V1(MVV, \b010000, AnyMask, [VPOPC_M |-> \b10000, VFIRST_M |-> \b10001])
  \cup V1(MVV, \b010100, AnyMask, [VMSBF_M |-> \b00001, VMSOF_M |-> \b00010,
                                   VMSIF_M |-> \b00011, VIOTA_M |-> \b10000])
  \cup VID_V(\b010100)
  \cup V1(FVV, \b010000, {1}, [VFMV_F_S |-> 0])
  \cup VZ(FVF, 1, [VFMV_S_F |-> \b010000])
  \cup VZ(MVX, 1, [VMV_S_X |-> \b010000])

decodeVectorV071 ==
       VM(MVV, 1, [VEXT_X_V |-> \b001100])
  \cup V1(MVV, \b001100, {1}, [VMV_X_S |-> 0])
  \cup V1(MVV, \b010100, AnyMask, [VPOPC_M |-> 0])
  \cup V1(MVV, \b010101, AnyMask, [VFIRST_M |-> 0])
  \cup V1(MVV, \b010110, AnyMask, [VMSBF_M |-> \b00001, VMSOF_M |-> \b00010,
                                   VMSIF_M |-> \b00011, VIOTA_M |-> \b10000])
  \cup VID_V(\b010110)
  \cup V(FVV, [VFORD_VV |-> \b011010])
  \cup V1(FVV, \b001100, {1}, [VFMV_F_S |-> 0])
  \cup V(FVF, [VFORD_VF |-> \b011010])
  \cup VZ(FVF, 1, [VFMV_S_F |-> \b001101])
  \cup VZ(MVX, 1, [VMV_S_X |-> \b001101])

decodeVectorV071P == V1(FVV, \b100010, AnyMask, [VFNCVTROD_FF_V |-> \b10101])

decodePost20190906 ==
       V(MVV, [VWMACCSU_VV |-> \b111111])
  \cup V(MVX, [VWMACCSU_VX |-> \b111111, VWMACCUS_VX |-> \b111110])

decodePre20190906 ==
       V(IVV, [VWSMACCSU_VV |-> \b111110])
  \cup V(MVV, [VWMACCSU_VV |-> \b111110])
  \cup V(IVX, [VWSMACCSU_VX |-> \b111110, VWSMACCUS_VX |-> \b111111])
  \cup V(MVX, [VWMACCSU_VX |-> \b111110, VWMACCUS_VX |-> \b111111])

decode20191004 ==
       V(IVV, [VWSMACCSU_VV |-> \b111111])
  \cup V(IVX, [VWSMACCSU_VX |-> \b111111, VWSMACCUS_VX |-> \b111110])

(* Whole register accesses: mop and m fixed, xs2 = 01000. *)
decodePost20191004 ==
       LET whole == {16 * nf + 1 : nf \in 0..7}
       IN  {Row("VLE_I", whole, {\b01000}, Any5, {\b111}, Any5, LOAD_FP),
            Row("VSE_I", whole, {\b01000}, Any5, {\b111}, Any5, STORE_FP)}
  \cup VM(IVV, 0, [VADC_VV |-> \b010000, VSBC_VV |-> \b010010])
  \cup V(IVV, [VMADC_VV |-> \b010001, VMSBC_VV |-> \b010011, VQMACCU_VV |-> \b111100,
               VQMACC_VV |-> \b111101, VQMACCSU_VV |-> \b111111])
  \cup V(MVV, [VAADDU_VV |-> \b001000, VAADD_VV |-> \b001001, VASUBU_VV |-> \b001010,
               VASUB_VV |-> \b001011])
  \cup VM(IVI, 0, [VADC_VI |-> \b010000])
  \cup V(IVI, [VMADC_VI |-> \b010001])
  \cup {Row("VMVR_VI", {\b1001111}, Any5, 0..7, {IVI}, Any5, OP_V)}
  \cup VM(IVX, 0, [VADC_VX |-> \b010000, VSBC_VX |-> \b010010])
  \cup V(IVX, [VMADC_VX |-> \b010001, VMSBC_VX |-> \b010011, VQMACCU_VX |-> \b111100,
               VQMACC_VX |-> \b111101, VQMACCUS_VX |-> \b111110, VQMACCSU_VX |-> \b111111])
  \cup V(MVX, [VAADDU_VX |-> \b001000, VAADD_VX |-> \b001001, VASUBU_VX |-> \b001010,
               VASUB_VX |-> \b001011])

decodePre20191004 ==
       VM(IVV, 1, [VADC_VV |-> \b010000, VMADC_VV |-> \b010001, VSBC_VV |-> \b010010,
                   VMSBC_VV |-> \b010011])
  \cup V(IVV, [VAADD_VV |-> \b100100, VASUB_VV |-> \b100110, VWSMACCU_VV |-> \b111100,
               VWSMACC_VV |-> \b111101])
  \cup VM(IVI, 1, [VADC_VI |-> \b010000, VMADC_VI |-> \b010001])
  \cup V(IVI, [VAADD_VI |-> \b100100])
  \cup VM(IVX, 1, [VADC_VX |-> \b010000, VMADC_VX |-> \b010001, VSBC_VX |-> \b010010,
                   VMSBC_VX |-> \b010011])
  \cup V(IVX, [VAADD_VX |-> \b100100, VASUB_VX |-> \b100110, VWSMACCU_VX |-> \b111100,
               VWSMACC_VX |-> \b111101])

(* The tables split at 20191117 are empty. *)
createDecodeTable32(v) ==
  decodeCommon32
    \cup (IF v > RVVV_0_7_1 THEN decodeVectorV08 ELSE decodeVectorV071)
    \cup (IF v > RVVV_0_7_1_P THEN decodeVectorV071P ELSE {})
    \cup (IF v > RVVV_0_8_20190906 THEN decodePost20190906 ELSE decodePre20190906)
    \cup (IF v = RVVV_0_8_20191004 THEN decode20191004 ELSE {})
    \cup (IF v > RVVV_0_8_20191004 THEN decodePost20191004 ELSE decodePre20191004)

=============================================================================
