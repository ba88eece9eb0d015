----------------------------- MODULE MCVectorOp -----------------------------
(* Instances of VectorOp: every row of the dispatch table, with registers  *)
(* that overlap in all the ways the checks tell apart.                     *)
EXTENDS VectorOp

MCConf(version) ==
  [version |-> version, ELEN |-> 32, XLEN |-> 32, fp16 |-> TRUE, ISA_F |-> TRUE, ISA_D |-> FALSE,
   Zvlsseg |-> TRUE, Zvamo |-> TRUE, Zvqmac |-> TRUE, vectorNoFaultOnlyFirst |-> FALSE,
   unitStrideOnly |-> FALSE, require_vstart0 |-> FALSE]

(* SEW, VLMUL and the values of vl for each. *)
MCTypes == {<<16, 1, 3>>, <<16, 1, 4>>, <<16, 2, 5>>, <<32, 2, 4>>, <<8, 1, 6>>, <<8, 2, 9>>}

MCSettings ==
  {[conf |-> MCConf(v), SEW |-> t[1], VLMUL |-> t[2], vl |-> t[3], vstart |-> vs, bits |-> b, pred |-> p] :
     v \in {RVVV_0_7_1, RVVV_MASTER}, t \in MCTypes, vs \in {0, 2},
     b \in {{0, 2, 3, 5}}, p \in {{}, {2, 4, 5}}}

(* Registers of the arguments, by shape and operation. *)
Triples ==
  {<<4, 8, 12>>, <<4, 4, 8>>, <<4, 8, 4>>, <<4, 6, 5>>, <<8, 4, 6>>, <<0, 8, 4>>, <<6, 4, 5>>, <<4, 5, 8>>, <<4, 8, NoReg>>, <<4, 4, NoReg>>}

Regs(row) ==
  CASE row.tcb \in MemoryCBs ->
         IF row.tcb = "emitVAMOBinopRRR" THEN {<<4, NoReg, 8, 4>>, <<4, NoReg, 4, 4>>, <<NoReg, NoReg, 8, 4>>}
         ELSE IF row.tcb \in {"emitVLdICB", "emitVStICB"}
              THEN {<<4, NoReg, 8, NoReg>>, <<4, NoReg, 4, NoReg>>, <<0, NoReg, 4, NoReg>>}
              ELSE {<<4, NoReg, NoReg, NoReg>>, <<0, NoReg, NoReg, NoReg>>}
    [] row.tcb \in {"emitVPOPCCB", "emitVFIRSTCB", "emitVEXTXV", "emitVFMVFS"} -> {<<NoReg, 4, NoReg, NoReg>>}
    [] row.tcb \in {"emitVMVSX", "emitVFMVSF", "emitVIDTCB"} -> {<<r, NoReg, NoReg, NoReg>> : r \in {0, 4}}
    [] row.check = "emitVMVRCheckCB" ->
         {<<t[1], t[2], NoReg, NoReg>> : t \in Triples \cup {<<31, 4>>, <<5, 4>>, <<4, 31>>}}
    [] row.tcb \in {"emitVRConvertFltCB", "emitVRFClassFltCB", "emitVMSBFCB", "emitVMSIFCB", "emitVMSOFCB",
                    "emitVIOTACB", "emitVCOMPRESSCB", "emitVRSLIDE1UPCB", "emitVRSLIDE1DOWNCB"}
                   \/ row \in ImmediateRows -> {<<t[1], t[2], NoReg, NoReg>> : t \in Triples}
    [] OTHER -> {<<t[1], t[2], t[3], NoReg>> : t \in Triples}

Masks(row) ==
  CASE row.tcb = "emitVCOMPRESSCB" -> {4, 12}
    [] row.morph = "emitScalarOp" \/ row.check = "emitVMVRCheckCB" -> {NoReg}
    [] OTHER -> {NoReg, 0}

MCRows(e) ==
  {row \in dispatchTable :
     row.tcb # "none" /\ (e.pred = {} \/ row.shape \in {"S111_PP", "S111_IP"})}

Make(row, r, mask, nf, whole, ff, memBits, c) ==
  [row |-> row, shape |-> row.shape, r |-> [a \in 0..3 |-> r[a + 1]], mask |-> mask, nf |-> nf,
   whole |-> whole, ff |-> ff, memBits |-> memBits, c |-> c]

(* The offsets of slides and gathers. *)
Offsets(row) ==
  IF row.shape \in {"S111_UP", "S111_DN", "S111_GR"} \/ row.tcb = "emitVEXTXV" THEN {1, 6, 40} ELSE {0}

AllInstructions(e) ==
  UNION {
    {Make(row, r, mask, nf, whole, ff, mb, c) :
       r \in Regs(row), mask \in Masks(row), c \in Offsets(row),
       nf \in (IF row.tcb \in MemoryCBs \ {"emitVAMOBinopRRR"} \/ row.check = "emitVMVRCheckCB" THEN {0, 1} ELSE {0}),
       whole \in (IF row.check = "emitVMVRCheckCB" THEN {"RV_WD_MV"}
                  ELSE IF row.check = "emitVLdStCheckUCB" THEN {"RV_WD_NA", "RV_WD_LD_ST"} ELSE {"RV_WD_NA"}),
       ff \in (IF row.tcb = "emitVLdUCB" THEN BOOLEAN ELSE {FALSE}),
       mb \in (IF row.tcb \in MemoryCBs THEN {AnySEW} ELSE {0})}
    : row \in MCRows(e)}

(* An instruction the decoder can produce in setting e. *)
Encodable(i, e) ==
  /\ i.whole # "RV_WD_NA" => i.mask = NoReg /\ ~i.ff
  /\ i.row.shape = "S111_PP" /\ i.mask = i.r[1] => e.pred = e.bits

MCInstructions(e) == {i \in AllInstructions(e) : Encodable(i, e) /\ ~IndexOverlapped(i, e)
                                                /\ ~SlidInPlace(i) /\ ~TailMistaken(i, e)}

=============================================================================
