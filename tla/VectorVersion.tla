---------------------------- MODULE VectorVersion ----------------------------
(***************************************************************************)
(* The versions of the vector extension and what distinguishes them.       *)
(***************************************************************************)
EXTENDS Integers

(* The versions, in order. *)
RVVV_0_7_1        == 0
RVVV_0_7_1_P      == 1
RVVV_0_8_20190906 == 2
RVVV_0_8_20191004 == 3
RVVV_0_8_20191117 == 4
RVVV_0_8_20191118 == 5
RVVV_0_8          == 6
RVVV_MASTER       == 7
Versions == RVVV_0_7_1..RVVV_MASTER

(* The versions each feature is present in.  W_SYNTAX concerns disassembly *)
(* only.                                                                   *)
FeatureVersions ==
  [ZERO_TAIL         |-> {RVVV_0_7_1},
   STRICT_OVERLAP    |-> {RVVV_0_7_1},
   SEXT_IOFFSET      |-> RVVV_0_7_1..RVVV_0_8_20191004,
   SEXT_VMV_X_S      |-> RVVV_0_7_1_P..RVVV_MASTER,
   SETVLZ_MAX        |-> RVVV_0_7_1..RVVV_0_7_1_P,
   SETVLZ_PRESERVE   |-> RVVV_0_8_20190906..RVVV_0_8_20191117,
   VAMO_SEW          |-> RVVV_0_7_1_P..RVVV_MASTER,
   ADC_SBC_MASK      |-> RVVV_0_8_20191117..RVVV_MASTER,
   SEXT_SLIDE1_SRC   |-> RVVV_0_8_20191117..RVVV_MASTER,
   FP_REQUIRES_FSNZ  |-> RVVV_0_8..RVVV_MASTER,
   VLENB_PRESENT     |-> RVVV_0_8_20191117..RVVV_MASTER,
   VCSR_PRESENT      |-> {RVVV_MASTER},
   VS_STATUS_8       |-> {RVVV_0_8},
   VS_STATUS_9       |-> {RVVV_MASTER},
   FP_RESTRICT_WHOLE |-> RVVV_0_8..RVVV_MASTER,
   SEG_ONLY_SEW      |-> {RVVV_MASTER}]

riscvVFSupport(version, feature) == version \in FeatureVersions[feature]

=============================================================================
