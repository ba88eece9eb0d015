--------------------------- MODULE VectorDispatch ---------------------------
(***************************************************************************)
(* The vector instructions of the dispatch table: for each group of        *)
(* instructions, the per-element callbacks (tcb for an element the mask    *)
(* selects, fcb for one it does not), the check, initialization and        *)
(* completion callbacks, what vstart may be, and the shape.                *)
(*                                                                         *)
(* Instructions that differ only in the operation they pass to VMI share a *)
(* row, as do the register and the immediate form of an instruction.       *)
(***************************************************************************)
EXTENDS VectorShape

Default(ops, tcb, shape) ==
  [ops |-> ops, morph |-> "emitVectorOp", tcb |-> tcb, fcb |-> "none", check |-> "none",
   init |-> "none", end |-> "none", vstart0 |-> "RVVS_NO_INT", shape |-> shape,
   implicitTZ |-> FALSE]

LdSt(ops, tcb, check, shape) ==
  [Default(ops, tcb, shape) EXCEPT !.check = check, !.init = "emitVLdStInitCB", !.vstart0 = "RVVS_ANY"]

Reduce(ops, tcb, shape) ==
  [Default(ops, tcb, shape) EXCEPT !.init = "initVRedCB", !.end = "endVRedCB", !.vstart0 = "RVVS_ZERO"]

FromStart(ops, tcb, init, shape) ==
  [Default(ops, tcb, shape) EXCEPT !.init = init, !.vstart0 = "RVVS_ZERO"]

Scalar(ops, tcb, shape) == [Default(ops, tcb, shape) EXCEPT !.morph = "emitScalarOp"]

(* A row with other attributes than those. *)
Checked(row, check)    == [row EXCEPT !.check = check]
Unselected(row, fcb)   == [row EXCEPT !.fcb = fcb]
Initialized(row, init) == [row EXCEPT !.init = init]
AnyVStart(row)         == [row EXCEPT !.vstart0 = "RVVS_ANY"]
ImplicitTZ(row)        == [row EXCEPT !.implicitTZ = TRUE]

(* Loads, stores and AMOs. *)
MemoryRows ==
  {LdSt({"VL_I"}, "emitVLdUCB", "emitVLdStCheckUCB", "S111_IIXSM"),
   LdSt({"VLS_I"}, "emitVLdSCB", "emitVLdStCheckSCB", "S111_IIXSM"),
   LdSt({"VLX_I"}, "emitVLdICB", "emitVLdStCheckXCB", "S111_IIXSM"),
   LdSt({"VS_I"}, "emitVStUCB", "emitVLdStCheckUCB", "S111_II"),
   LdSt({"VSS_I"}, "emitVStSCB", "emitVLdStCheckSCB", "S111_II"),
   LdSt({"VSX_I"}, "emitVStICB", "emitVLdStCheckXCB", "S111_II"),
   AnyVStart(Checked(Default({"VAMOADD_R", "VAMOAND_R", "VAMOMAX_R", "VAMOMAXU_R", "VAMOMIN_R", "VAMOMINU_R",
                     "VAMOOR_R", "VAMOSWAP_R", "VAMOXOR_R"}, "emitVAMOBinopRRR", "S111_II"), "emitVAMOCheckCB"))}

(* IVV/IVX, up to the slides. *)
IntegerRows ==
  {Unselected(Default({"VMERGE_VR"}, "emitVRMERGETCB", "S111_II"), "emitVRMERGEFCB"),
   Default({"VADD_VR", "VSUB_VR", "VRSUB_VR", "VMINU_VR", "VMIN_VR", "VMAXU_VR", "VMAX_VR",
            "VAND_VR", "VOR_VR", "VXOR_VR", "VSLL_VR", "VSRL_VR", "VSRA_VR"}, "emitVRBinaryIntCB", "S111_II"),
   Default({"VADC_VR", "VSBC_VR"}, "emitVRAdcIntCB", "SCIN_II"),
   Default({"VMADC_VR", "VMSBC_VR"}, "emitVRAdcIntCB", "SCIN_PI"),
   Default({"VNSRL_VR", "VNSRA_VR"}, "emitVRBinaryIntCB", "S121_II"),
   Default({"VSEQ_VR", "VSNE_VR", "VSLTU_VR", "VSLT_VR", "VSLEU_VR", "VSLE_VR", "VSGTU_VR",
            "VSGT_VR"}, "emitVRCmpIntCB", "S111_PI"),
   Default({"VRGATHER_VR"}, "emitVRRGATHERCB", "S111_GR"),
   Default({"VSLIDEUP_VR"}, "emitVRSLIDEUPCB", "S111_UP"),
   Default({"VSLIDEDOWN_VR"}, "emitVRSLIDEDOWNCB", "S111_DN")}

(* Fixed point. *)
FixedPointRows ==
  {Default({"VSADDU_VR", "VSADD_VR", "VSSUBU_VR", "VSSUB_VR"}, "emitVRSBinaryCB", "S111_IIS"),
   Default({"VAADDU_VR", "VAADD_VR", "VASUBU_VR", "VASUB_VR"}, "emitVRABinaryCB", "S111_IIX"),
   Default({"VSMUL_VR"}, "emitVRSMULCB", "S111_IIS"),
   Default({"VWSMACCU_VR", "VWSMACC_VR", "VWSMACCSU_VR", "VWSMACCUS_VR"}, "emitVRSMAccIntCB", "S211_IIS"),
   Default({"VSSRL_VR", "VSSRA_VR"}, "emitVRRShiftIntCB", "S111_IIX"),
   Default({"VNCLIPU_VR", "VNCLIP_VR"}, "emitVRRShiftIntCB", "S121_IIS")}

(* MVV/MVX, QMAC and the widening integer reductions and dot products. *)
MultiplyRows ==
  {Default({"VDIVU_VR", "VDIV_VR", "VREMU_VR", "VREM_VR", "VMUL_VR"}, "emitVRBinaryIntCB", "S111_II"),
   Default({"VMULHU_VR", "VMULHSU_VR", "VMULH_VR"}, "emitVRMulHIntCB", "S111_II"),
   Default({"VWMULU_VR", "VWMULSU_VR", "VWMUL_VR"}, "emitVRMulHIntCB", "S211_IIQ"),
   Default({"VWADDU_VR", "VWADD_VR", "VWSUBU_VR", "VWSUB_VR"}, "emitVRBinaryIntCB", "S211_II"),
   Default({"VWADDU_WR", "VWADD_WR", "VWSUBU_WR", "VWSUB_WR"}, "emitVRBinaryIntCB", "S221_II"),
   Default({"VMADD_VR", "VNMSUB_VR", "VMACC_VR", "VNMSAC_VR"}, "emitVRMAddIntCB", "S111_II"),
   Default({"VWMACCU_VR", "VWMACC_VR", "VWMACCSU_VR", "VWMACCUS_VR"}, "emitVRMAddIntCB", "S211_II"),
   Checked(Default({"VQMACCU_VR", "VQMACC_VR", "VQMACCSU_VR", "VQMACCUS_VR"}, "emitVRMAddIntCB", "S411_II"),
           "emitQMACCheckCB"),
   Reduce({"VWREDSUMU_VS", "VWREDSUM_VS"}, "emitVRedBinaryIntCB", "S212_SIS"),
   Checked(Default({"VDOTU_VV", "VDOT_VV"}, "none", "S111_II"), "emitEDIVCheckCB")}

(* FVV/FVF. *)
FloatRows ==
  {Unselected(Default({"VFMERGE_VR"}, "emitVRMERGETCB", "S111_FF"), "emitVRMERGEFCB"),
   Default({"VFADD_VR", "VFSUB_VR", "VFRSUB_VR", "VFMUL_VR", "VFDIV_VR", "VFRDIV_VR", "VFMIN_VR",
            "VFMAX_VR", "VFSQRT_V"}, "emitVRBinaryFltCB", "S111_FF"),
   Default({"VFWADD_VR", "VFWSUB_VR", "VFWMUL_VR"}, "emitVRBinaryFltCB", "S211_FF"),
   Default({"VFWADD_WR", "VFWSUB_WR"}, "emitVRBinaryFltCB", "S221_FF"),
   Default({"VFMADD_VR", "VFNMADD_VR", "VFMSUB_VR", "VFNMSUB_VR",
            "VFMACC_VR", "VFNMACC_VR", "VFMSAC_VR", "VFNMSAC_VR"}, "emitVRMAddFltCB", "S111_FF"),
   Default({"VFWMACC_VR", "VFWNMACC_VR", "VFWMSAC_VR", "VFWNMSAC_VR"}, "emitVRMAddFltCB", "S211_FF"),
   Default({"VFSGNJ_VR", "VFSGNJN_VR", "VFSGNJX_VR"}, "emitVRFSgnFltCB", "S111_FF"),
   Default({"VFORD_VR", "VFEQ_VR", "VFNE_VR", "VFLE_VR", "VFLT_VR", "VFGE_VR", "VFGT_VR"},
           "emitVRFCmpFltCB", "S111_PF")}

(* FVV alone: reductions, conversions and the classification. *)
FloatUnaryRows ==
  {Reduce({"VFREDSUM_VS", "VFREDOSUM_VS", "VFREDMIN_VS", "VFREDMAX_VS"}, "emitVRedBinaryFltCB", "S111_SFS"),
   Reduce({"VFWREDSUM_VS", "VFWREDOSUM_VS"}, "emitVRedBinaryFltCB", "S212_SFS"),
   Scalar({"VFMV_F_S"}, "emitVFMVFS", "S111_IS"),
   Default({"VFCVT_XUF_V", "VFCVT_XF_V"}, "emitVRConvertFltCB", "S111_IF"),
   Default({"VFCVT_FXU_V", "VFCVT_FX_V"}, "emitVRConvertFltCB", "S111_FI"),
   Default({"VFWCVT_XUF_V", "VFWCVT_XF_V"}, "emitVRConvertFltCB", "S21_IFQ"),
   Default({"VFWCVT_FXU_V", "VFWCVT_FX_V"}, "emitVRConvertFltCB", "S21_FIQ"),
   Default({"VFWCVT_FF_V"}, "emitVRConvertFltCB", "S211_FFQ"),
   Default({"VFNCVT_XUF_V", "VFNCVT_XF_V"}, "emitVRConvertFltCB", "S12_IFQ"),
   Default({"VFNCVT_FXU_V", "VFNCVT_FX_V"}, "emitVRConvertFltCB", "S12_FIQ"),
   Default({"VFNCVT_FF_V"}, "emitVRConvertFltCB", "S121_FFQ"),
   Default({"VFCLASS_V"}, "emitVRFClassFltCB", "S111_FF"),
   Checked(Default({"VFDOT_VV"}, "none", "S111_FF"), "emitEDIVCheckCB")}

(* MVV: integer reductions and the instructions on masks. *)
MaskRows ==
  {Reduce({"VREDSUM_VS", "VREDAND_VS", "VREDOR_VS", "VREDXOR_VS", "VREDMINU_VS", "VREDMIN_VS",
           "VREDMAXU_VS", "VREDMAX_VS"}, "emitVRedBinaryIntCB", "S111_SIS"),
   Scalar({"VEXT_X_V"}, "emitVEXTXV", "S111_IS"),
   Checked(FromStart({"VPOPC_M"}, "emitVPOPCCB", "none", "S111_PP"), "initVPOPCCB"),
   Checked(FromStart({"VFIRST_M"}, "emitVFIRSTCB", "none", "S111_PP"), "initVFIRSTCB"),
   FromStart({"VMSBF_M"}, "emitVMSBFCB", "initVMSFCB", "S111_PP"),
   FromStart({"VMSOF_M"}, "emitVMSOFCB", "initVMSFCB", "S111_PP"),
   FromStart({"VMSIF_M"}, "emitVMSIFCB", "initVMSFCB", "S111_PP"),
   FromStart({"VIOTA_M"}, "emitVIOTACB", "initVIOTACB", "S111_IP"),
   Initialized(Unselected(Default({"VID_V"}, "emitVIDTCB", "S111_IP"), "emitVIDFCB"), "initVIOTACB"),
   ImplicitTZ(FromStart({"VCOMPRESS_VM"}, "emitVCOMPRESSCB", "initVCOMPRESSCB", "S111_CMP")),
   Default({"VMAND_MM", "VMANDNOT_MM", "VMOR_MM", "VMXOR_MM", "VMORNOT_MM", "VMNAND_MM",
            "VMNOR_MM", "VMXNOR_MM"}, "emitMBinaryCB", "S111_PP")}

(* IVI, FVF and MVX. *)
ImmediateRows ==
  {Unselected(Default({"VMERGE_VI"}, "emitVRMERGETCB", "S111_II"), "emitVRMERGEFCB"),
   Default({"VADD_VI", "VRSUB_VI", "VAND_VI", "VOR_VI", "VXOR_VI"}, "emitVRBinaryIntCB", "S111_II"),
   Default({"VSLL_VI", "VSRL_VI", "VSRA_VI"}, "emitVIShiftIntCB", "S111_II"),
   Default({"VNSRL_VI", "VNSRA_VI"}, "emitVIShiftIntCB", "S121_II"),
   Initialized(Default({"VRGATHER_VI"}, "emitVIRGATHERCB", "S111_GR"), "initVIRGATHERCB"),
   Default({"VSLIDEUP_VI"}, "emitVRSLIDEUPCB", "S111_UP"),
   Default({"VSLIDEDOWN_VI"}, "emitVRSLIDEDOWNCB", "S111_DN"),
   Default({"VADC_VI"}, "emitVRAdcIntCB", "SCIN_II"),
   Default({"VMADC_VI"}, "emitVRAdcIntCB", "SCIN_PI"),
   Default({"VSEQ_VI", "VSNE_VI", "VSLEU_VI", "VSLE_VI", "VSGTU_VI", "VSGT_VI"}, "emitVRCmpIntCB", "S111_PI"),
   Default({"VSADDU_VI", "VSADD_VI"}, "emitVRSBinaryCB", "S111_IIS"),
   Default({"VAADD_VI"}, "emitVRABinaryCB", "S111_IIS"),
   Checked(Default({"VMVR_VI"}, "emitVRBinaryIntCB", "S111_II"), "emitVMVRCheckCB"),
   Default({"VSSRL_VI", "VSSRA_VI"}, "emitVRRShiftIntCB", "S111_IIX"),
   Default({"VNCLIPU_VI", "VNCLIP_VI"}, "emitVRRShiftIntCB", "S121_IIS"),
   Scalar({"VFMV_S_F"}, "emitVFMVSF", "S111_SI"),
   Scalar({"VMV_S_X"}, "emitVMVSX", "S111_SI"),
   Initialized(Default({"VSLIDE1UP_VX"}, "emitVRSLIDE1UPCB", "S111_UP"), "initVRSLIDE1CB"),
   Initialized(Default({"VSLIDE1DOWN_VX"}, "emitVRSLIDE1DOWNCB", "S111_DN"), "initVRSLIDE1CB")}

dispatchTable ==
  MemoryRows \cup IntegerRows \cup FixedPointRows \cup MultiplyRows \cup FloatRows
    \cup FloatUnaryRows \cup MaskRows \cup ImmediateRows

=============================================================================
