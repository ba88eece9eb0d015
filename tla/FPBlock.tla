------------------------------- MODULE FPBlock -------------------------------
(***************************************************************************)
(* The floating point and vector status of a hart: mstatus.FS and VS, the  *)
(* enabled architecture derived from them and from misa, the accrued flags *)
(* in their two places (the CSR view and the view generated code writes),  *)
(* and the rounding mode - against what generated code takes for granted.  *)
(*                                                                         *)
(* Code is translated with currentArch and rmCheckValid as they were then  *)
(* (`made'), and knows what the instructions before it in its block have   *)
(* established (`known': riscvBlockState).  An instruction whose validated *)
(* block mask is not the mask it was translated with is translated afresh: *)
(* that, and that flushing the dictionaries removes every block but the    *)
(* running one, is the simulator's part (external).                        *)
(*                                                                         *)
(* A register is the width its value is boxed to.  Endianness, the other   *)
(* fields of mstatus (module Hart) and the values of vxrm are left out.    *)
(***************************************************************************)
EXTENDS VectorVersion

CONSTANTS
  Configurations,  \* records: version, arch, archMask, mode, d_requires_f
  Skipping,        \* the modes in which a vector loop may process no element
  FRegs,
  FRMs             \* the rounding modes written, some of them invalid

(* Only bits of misa that are initially set are writable, and the features *)
(* FS and RM_INVALID are not bits of misa.                                 *)
ASSUME FPAssumption ==
  \A c \in Configurations :
    c.archMask \subseteq c.arch /\ {"FS", "RM_INVALID"} \cap c.arch = {}

VARIABLES
  conf,            \* configInfo
  misa,            \* misa.Extensions
  status,          \* mstatus.FS and mstatus.VS
  currentArch,
  fpFlags,         \* fpFlagsCSR and fpFlagsMT, any flag set
  satFlags,        \* SFCSR and SFMT
  frm,
  rmCheckValid,
  rmOldest,        \* rmCheckValid when the oldest block was translated
  running,         \* a block is executing
  made,            \* currentArch and rmCheckValid when it was translated
  known,           \* riscvBlockState at the instruction reached
  width,           \* bits of each register below its leading ones
  touched,         \* history: state changed since FS and VS were written
  forced           \* history: FS was turned from Off to Dirty

fpVars == <<conf, misa, status, currentArch, fpFlags, satFlags, frm, rmCheckValid, rmOldest,
            running, made, known, width, touched, forced>>

ES_OFF   == 0
ES_DIRTY == 3
ES       == ES_OFF..ES_DIRTY

VF(feature) == riscvVFSupport(conf.version, feature)
HasVS == VF("VS_STATUS_8") \/ VF("VS_STATUS_9")
alwaysDirtyFS == conf.mode = "always_dirty"
writeAnyFS == conf.mode = "write_any"
vxRequiresFS == VF("VS_STATUS_8")
vxFieldsInFCSR == ~VF("VCSR_PRESENT")

-----------------------------------------------------------------------------
(* Enabled features                                                        *)

(* riscvSetCurrentArch with misa m and status s. *)
ArchOf(m, s, invalid) ==
  {f \in m : /\ f \in {"D", "F"} => s.FS # ES_OFF
             /\ (f = "V" /\ HasVS) => s.VS # ES_OFF}
    \cup {f \in {"FS"} : s.FS # ES_OFF} \cup {f \in {"RM_INVALID"} : invalid}

(* Faulty variant: the validity of the rounding mode is forgotten. *)
riscvSetCurrentArch_DropRM(m, s) == ArchOf(m, s, FALSE)

riscvSetCurrentArch(m, s) == ArchOf(m, s, "RM_INVALID" \in currentArch)

(* How the D and F bits follow each other. *)
TrackDF(m) ==
  LET w == conf.archMask \cap {"D", "F"} IN
  IF ~({"D", "F"} \subseteq conf.arch) THEN m
  ELSE CASE w = {"D", "F"} -> IF conf.d_requires_f /\ "F" \notin m THEN m \ {"D"} ELSE m
         [] w = {"D"} -> IF "D" \in m THEN m \cup {"F"} ELSE m \ {"F"}
         [] w = {"F"} -> IF "F" \in m THEN m \cup {"D"} ELSE m \ {"D"}
         [] OTHER -> m

(* misa after value v is written by an instruction that is, or is not,     *)
(* aligned to 4 bytes.  Bits I and E are never written here.               *)
MisaAfter(v, aligned) ==
  LET n == (v \cap conf.archMask) \cup (misa \ conf.archMask)
  IN  TrackDF(IF "C" \in misa \ n /\ ~aligned THEN misa ELSE n)

-----------------------------------------------------------------------------
(* Accrued flags and rounding mode                                         *)

Pending == fpFlags.MT \/ (satFlags.MT /\ vxRequiresFS)

(* Faulty variant: the status is not made dirty. *)
Consolidated_Clean == status

(* The status after consolidateFPFlags, which also moves both MT flags.    *)
Consolidated == IF Pending THEN [status EXCEPT !.FS = ES_DIRTY] ELSE status

consolidateFPFlags ==
  /\ fpFlags' = [CSR |-> fpFlags.CSR \/ fpFlags.MT, MT |-> FALSE]
  /\ satFlags' = [CSR |-> satFlags.CSR \/ satFlags.MT, MT |-> FALSE]

(* The FS and VS fields a read of the status register returns and leaves.  *)
statusR ==
  LET dirtied(x) == IF alwaysDirtyFS /\ x # ES_OFF THEN ES_DIRTY ELSE x
  IN  [FS |-> dirtied(Consolidated.FS), VS |-> dirtied(Consolidated.VS)]

mapFRMToRC(rm) == IF rm \in 0..4 THEN rm ELSE -1

updateCurrentRMValid(rm) ==
  LET invalid == mapFRMToRC(rm) = -1
      changed == invalid # ("RM_INVALID" \in currentArch)
  IN  /\ rmCheckValid' = (rmCheckValid \/ changed)
      /\ rmOldest' = (rmOldest \/ (changed /\ ~rmCheckValid))
      /\ currentArch' = IF invalid THEN currentArch \cup {"RM_INVALID"}
                                   ELSE currentArch \ {"RM_INVALID"}

setFPRoundingMode(oldRM, newRM) ==
  /\ frm' = newRM
  /\ IF oldRM # newRM THEN updateCurrentRMValid(newRM)
                      ELSE UNCHANGED <<currentArch, rmCheckValid, rmOldest>>

-----------------------------------------------------------------------------
(* Blocks                                                                  *)

NothingKnown == [FSDirty |-> FALSE, VSDirty |-> FALSE, boxed |-> [b \in {16, 32} |-> {}]]
NotMade == [arch |-> {}, rmCheck |-> FALSE]

(* Every state a block still in the dictionaries may have been made in.    *)
MadeIn ==
  {m \in [arch : {ArchOf(x, [FS |-> f, VS |-> v], i) :
                    x \in {conf.arch \ w : w \in SUBSET conf.archMask},
                    f \in {0, 1}, v \in {0, 1}, i \in BOOLEAN},
          rmCheck : {rmOldest, rmCheckValid}] :
     "RM_INVALID" \in m.arch => m.rmCheck}

(* riscvStartBlock: a block made earlier, or now, is entered. *)
StartFPBlock ==
  /\ ~running
  /\ running' = TRUE
  /\ made' \in MadeIn
  /\ known' = NothingKnown
  /\ UNCHANGED <<conf, misa, status, currentArch, fpFlags, satFlags, frm, rmCheckValid,
                 rmOldest, width, touched, forced>>

LeaveFPBlock ==
  /\ running' = FALSE
  /\ made' = NotMade
  /\ known' = NothingKnown

Stay(k) ==
  /\ known' = k
  /\ UNCHANGED <<running, made>>

(* emitBlockMask: the instruction's code is valid for these features. *)
emitBlockMask(features) ==
  LET dynamic == features \cap (conf.archMask \cup {"D", "F", "V", "FS", "RM_INVALID"})
  IN  currentArch \cap dynamic = made.arch \cap dynamic

(* The block mask riscvEmitCheckLegalRM has the code validate. *)
CheckedRM == made.rmCheck => emitBlockMask({"RM_INVALID"})
LegalRM   == "RM_INVALID" \notin made.arch

(* The run-time and translation-time state an instruction works on. *)
Here == [known |-> known, status |-> status]

updateFS(x) ==
  IF alwaysDirtyFS \/ x.known.FSDirty THEN x
  ELSE [x EXCEPT !.known.FSDirty = TRUE, !.status.FS = ES_DIRTY]

updateVS(x) ==
  IF alwaysDirtyFS \/ ~HasVS \/ x.known.VSDirty THEN x
  ELSE [x EXCEPT !.known.VSDirty = TRUE, !.status.VS = ES_DIRTY]

resetFSVS(k) == [FSDirty |-> FALSE, VSDirty |-> FALSE, boxed |-> k.boxed]

(* riscvGetFPFlagsMT: the instruction may raise flags. *)
riscvGetFPFlagsMT(x) == IF writeAnyFS THEN updateFS(x) ELSE x

(* FS is made Dirty by code that does not need it to be enabled. *)
NoteForced == forced' = (forced \/ (status.FS = ES_OFF /\ status'.FS # ES_OFF))

(* Code a loop may never reach: its knowledge without its effect. *)
IfRan(ran, x, y) == IF ran THEN y ELSE [y EXCEPT !.status = x.status]

-----------------------------------------------------------------------------
(* Registers                                                               *)

(* FLEN is 64: requireNaNBox of a register written or read with b bits.    *)
requireNaNBox(r, b) == b < 64 /\ r \notin known.boxed[b]

(* Faulty variant: a wider write leaves the narrower views boxed. *)
BoxedAfter_Keep(r, b) ==
  [v \in {16, 32} |-> IF v < b THEN known.boxed[v] ELSE known.boxed[v] \cup {r}]

BoxedAfter(r, b) ==
  [v \in {16, 32} |-> IF v < b THEN known.boxed[v] \ {r} ELSE known.boxed[v] \cup {r}]

(* riscvWriteRegSize for register r: its low b bits hold the result, whose *)
(* own leading ones may reach further down.                                *)
WriteF(r, b) ==
  IF requireNaNBox(r, b) \/ b = 64 \/ width[r] <= b
  THEN \E w \in {16, 32, 64} : w <= b /\ width' = [width EXCEPT ![r] = w]
  ELSE UNCHANGED width

-----------------------------------------------------------------------------
(* Instructions                                                            *)

(* riscvInstructionEnabled and riscvRequireArchPresentMT *)
Enabled(features) == running /\ emitBlockMask(features) /\ features \subseteq made.arch

(* Illegal Instruction: the exception leaves the block. *)
Undefined(features) ==
  /\ running
  /\ emitBlockMask(features)
  /\ ~(features \subseteq made.arch)
  /\ LeaveFPBlock
  /\ UNCHANGED <<conf, misa, status, currentArch, fpFlags, satFlags, frm, rmCheckValid,
                 rmOldest, width, touched, forced>>

BadRM(features) ==
  /\ Enabled(features)
  /\ CheckedRM /\ ~LegalRM
  /\ LeaveFPBlock
  /\ UNCHANGED <<conf, misa, status, currentArch, fpFlags, satFlags, frm, rmCheckValid,
                 rmOldest, width, touched, forced>>

Raise(flag) == fpFlags' = [fpFlags EXCEPT !.MT = @ \/ flag]

Precision(b) == {IF b = 64 THEN "D" ELSE "F"}

(* Moves, sign injection, loads: a register is written, no flag raised. *)
emitFMoveRR(r, b) ==
  /\ Enabled(Precision(b))
  /\ WriteF(r, b)
  /\ LET x == updateFS([Here EXCEPT !.known.boxed = BoxedAfter(r, b)])
     IN  Stay(x.known) /\ status' = x.status
  /\ touched' = [touched EXCEPT !.F = TRUE]
  /\ UNCHANGED <<conf, misa, currentArch, fpFlags, satFlags, frm, rmCheckValid, rmOldest, forced>>

(* Arithmetic and conversion to a register, with a static or the dynamic   *)
(* rounding mode.                                                          *)
emitFArith(r, b, dynamic, flag) ==
  /\ Enabled(Precision(b))
  /\ dynamic => (CheckedRM /\ LegalRM)
  /\ Raise(flag)
  /\ WriteF(r, b)
  /\ LET x == updateFS([riscvGetFPFlagsMT(Here) EXCEPT !.known.boxed = BoxedAfter(r, b)])
     IN  Stay(x.known) /\ status' = x.status
  /\ touched' = [touched EXCEPT !.F = TRUE]
  /\ UNCHANGED <<conf, misa, currentArch, satFlags, frm, rmCheckValid, rmOldest, forced>>

(* Comparison: only flags are written. *)
emitFCompare(b, flag) ==
  /\ Enabled(Precision(b))
  /\ Raise(flag)
  /\ LET x == riscvGetFPFlagsMT(Here) IN Stay(x.known) /\ status' = x.status
  /\ touched' = [touched EXCEPT !.F = @ \/ flag \/ writeAnyFS]
  /\ UNCHANGED <<conf, misa, currentArch, satFlags, frm, rmCheckValid, rmOldest, width, forced>>

(* What riscvMorph adds to the requirements of a vector instruction. *)
VectorFloat == {"V"} \cup {f \in {"FS"} : VF("FP_REQUIRES_FSNZ")}
VectorFixed(usesVXRM) == {"V"} \cup {f \in {"FS"} : VF("VS_STATUS_8") /\ usesVXRM}

(* A vector floating point instruction.  Its flags are raised in the loop  *)
(* over its elements, which may process none.  Before the version that     *)
(* requires FS only arithmetic checks the rounding mode.                   *)
emitVectorFlt(arith, ran, flag) ==
  /\ Enabled(VectorFloat)
  /\ (VF("FP_REQUIRES_FSNZ") \/ arith) => (CheckedRM /\ LegalRM)
  /\ ~ran => conf.mode \in Skipping /\ ~flag
  /\ Raise(flag)
  /\ LET x == updateVS(Here)
         y == IfRan(ran, x, riscvGetFPFlagsMT(x))
     IN  Stay(y.known) /\ status' = y.status
  /\ touched' = [F |-> touched.F \/ flag \/ (ran /\ writeAnyFS), V |-> TRUE]
  /\ UNCHANGED <<conf, misa, currentArch, satFlags, frm, rmCheckValid, rmOldest, width>>
  /\ NoteForced

(* A saturating instruction, with updateVXSat in its loop. *)
emitVectorSat(usesVXRM, ran, flag) ==
  /\ Enabled(VectorFixed(usesVXRM))
  /\ ~ran => conf.mode \in Skipping /\ ~flag
  /\ satFlags' = [satFlags EXCEPT !.MT = @ \/ flag]
  /\ LET x == updateVS(Here)
         y == IF writeAnyFS /\ vxRequiresFS THEN IfRan(ran, x, updateFS(x)) ELSE x
     IN  Stay(y.known) /\ status' = y.status
  /\ touched' = [F |-> touched.F \/ (vxRequiresFS /\ (flag \/ (ran /\ writeAnyFS))), V |-> TRUE]
  /\ UNCHANGED <<conf, misa, currentArch, fpFlags, frm, rmCheckValid, rmOldest, width>>
  /\ NoteForced

-----------------------------------------------------------------------------
(* CSR accesses                                                            *)

(* getRequiredCSRFeatures and the access requirements that replace them.   *)
FPCSRs == {"fflags", "frm", "fcsr", "vxsat", "vxrm", "vcsr", "vstart"}
OneOf(name) ==
  CASE name \in {"fflags", "frm"} -> {"D", "F"}
    [] name = "fcsr" -> IF vxRequiresFS THEN {"FS"}
                        ELSE {"D", "F"} \cup {f \in {"V"} : vxFieldsInFCSR}
    [] OTHER -> {"V"}
Also(name) == {f \in {"FS"} : vxRequiresFS /\ name \in {"vxsat", "vxrm"}}

(* riscvValidateCSRAccess, as far as these registers' features go. *)
Accessible(name) ==
  /\ running
  /\ name = "vcsr" => VF("VCSR_PRESENT")
  /\ emitBlockMask(OneOf(name) \cup Also(name))
  /\ OneOf(name) \cap made.arch # {}
  /\ Also(name) \subseteq made.arch

(* The callback called after the register is written: its wstateCB. *)
riscvWFS(x) == updateFS(x)
riscvWVCSR(x) == IF "FS" \in made.arch THEN updateFS(updateVS(x)) ELSE updateVS(x)
riscvWFSVS(x) == CASE VF("VCSR_PRESENT") -> updateVS(x)
                   [] vxRequiresFS -> updateFS(x)
                   [] OTHER -> x

TouchCSR == touched' = [F |-> TRUE, V |-> touched.V]

fflagsW(v) ==
  /\ Accessible("fflags")
  /\ fpFlags' = [CSR |-> v, MT |-> FALSE]
  /\ LET x == riscvWFS(Here) IN Stay(x.known) /\ status' = x.status
  /\ TouchCSR
  /\ UNCHANGED <<conf, misa, currentArch, satFlags, frm, rmCheckValid, rmOldest, width, forced>>

(* Registers frm and fcsr end the block. *)
frmW(rm) ==
  /\ Accessible("frm")
  /\ setFPRoundingMode(frm, rm)
  /\ status' = riscvWFS(Here).status
  /\ LeaveFPBlock
  /\ TouchCSR
  /\ UNCHANGED <<conf, misa, fpFlags, satFlags, width, forced>>

fcsrW(rm, v, s) ==
  /\ Accessible("fcsr")
  /\ fpFlags' = [CSR |-> v, MT |-> FALSE]
  /\ setFPRoundingMode(frm, rm)
  /\ satFlags' = IF vxFieldsInFCSR THEN [CSR |-> s, MT |-> FALSE] ELSE satFlags
  /\ status' = riscvWFS(Here).status
  /\ LeaveFPBlock
  /\ TouchCSR
  /\ UNCHANGED <<conf, misa, width>>
  /\ NoteForced

(* Writes of vxsat, vxrm, vcsr (which ends the block) and vstart. *)
VectorCSRW(name, v) ==
  /\ Accessible(name)
  /\ satFlags' = IF name \in {"vxsat", "vcsr"} THEN [CSR |-> v, MT |-> FALSE] ELSE satFlags
  /\ LET x == CASE name = "vcsr" -> riscvWVCSR(Here)
                [] name = "vstart" -> updateVS(Here)
                [] OTHER -> riscvWFSVS(Here)
     IN  /\ status' = x.status
         /\ IF name = "vcsr" THEN emitBlockMask({"FS"}) /\ LeaveFPBlock ELSE Stay(x.known)
  /\ touched' = [F |-> touched.F \/ (vxRequiresFS /\ name # "vstart"),
                 V |-> touched.V \/ ~vxRequiresFS \/ name = "vstart"]
  /\ UNCHANGED <<conf, misa, currentArch, fpFlags, frm, rmCheckValid, rmOldest, width>>
  /\ NoteForced

(* A read of the status through any of its aliases. *)
statusRead ==
  /\ consolidateFPFlags
  /\ status' = statusR
  /\ NoteForced
  /\ UNCHANGED <<conf, misa, currentArch, frm, rmCheckValid, rmOldest, running, made, known,
                 width, touched>>

(* statusW: s is the value given to the two fields. *)
statusW(s) ==
  /\ consolidateFPFlags
  /\ status' = s
  /\ currentArch' = riscvSetCurrentArch(misa, s)
  /\ forced' = FALSE
  /\ UNCHANGED <<conf, misa, frm, rmCheckValid, rmOldest, width>>

(* mstatus and sstatus have both fields; ustatus has neither. *)
mstatusW(FS, VS) ==
  /\ running
  /\ statusW([FS |-> FS, VS |-> IF HasVS THEN VS ELSE status.VS])
  /\ Stay(resetFSVS(known))
  /\ touched' = [F |-> FALSE, V |-> FALSE]

ustatusW ==
  /\ running
  /\ statusW(Consolidated)
  /\ UNCHANGED <<running, made, known, touched>>

misaW(v, aligned) ==
  /\ running
  /\ misa' = MisaAfter(v, aligned)
  /\ currentArch' = riscvSetCurrentArch(misa', status)
  /\ forced' = FALSE
  /\ LeaveFPBlock
  /\ UNCHANGED <<conf, status, fpFlags, satFlags, frm, rmCheckValid, rmOldest, width, touched>>

-----------------------------------------------------------------------------
(* Between blocks: a debugger's writes, exceptions and resets              *)

(* The block ends, or an exception or an interrupt leaves it. *)
EndFPBlock ==
  /\ running
  /\ LeaveFPBlock
  /\ UNCHANGED <<conf, misa, status, currentArch, fpFlags, satFlags, frm, rmCheckValid,
                 rmOldest, width, touched, forced>>

debugStatusW(FS, VS) ==
  /\ ~running
  /\ statusW([FS |-> FS, VS |-> IF HasVS THEN VS ELSE status.VS])
  /\ touched' = [F |-> FALSE, V |-> FALSE]
  /\ UNCHANGED <<running, made, known>>

(* fcsr: the flags and the mode are the debugger's from here on. *)
debugFcsrW(rm, v) ==
  /\ ~running
  /\ fpFlags' = [CSR |-> v, MT |-> FALSE]
  /\ setFPRoundingMode(frm, rm)
  /\ satFlags' = IF vxFieldsInFCSR THEN [CSR |-> v, MT |-> FALSE] ELSE satFlags
  /\ touched' = [touched EXCEPT !.F = @ /\ status.FS = ES_DIRTY]
  /\ UNCHANGED <<conf, misa, status, running, made, known, width, forced>>

(* riscvCSRReset; neither the flags nor the rounding mode are reset. *)
FPReset ==
  /\ ~running
  /\ misa' = conf.arch
  /\ status' = [FS |-> ES_OFF, VS |-> ES_OFF]
  /\ currentArch' = riscvSetCurrentArch(misa', status')
  /\ touched' = [F |-> FALSE, V |-> FALSE]
  /\ forced' = FALSE
  /\ UNCHANGED <<conf, fpFlags, satFlags, frm, rmCheckValid, rmOldest, running, made, known, width>>

-----------------------------------------------------------------------------
FPInit ==
  /\ conf \in Configurations
  /\ misa = conf.arch
  /\ status = [FS |-> ES_OFF, VS |-> ES_OFF]
  /\ currentArch = ArchOf(misa, status, FALSE)
  /\ fpFlags = [CSR |-> FALSE, MT |-> FALSE]
  /\ satFlags = [CSR |-> FALSE, MT |-> FALSE]
  /\ frm = 0
  /\ rmCheckValid = FALSE
  /\ rmOldest = FALSE
  /\ running = FALSE
  /\ made = NotMade
  /\ known = NothingKnown
  /\ width = [r \in FRegs |-> 64]
  /\ touched = [F |-> FALSE, V |-> FALSE]
  /\ forced = FALSE

FPNext ==
  \/ StartFPBlock \/ EndFPBlock
  \/ \E f \in {{"F"}, {"D"}, VectorFloat, VectorFixed(TRUE)} : Undefined(f) \/ BadRM(f)
  \/ \E r \in FRegs, b \in {16, 32, 64} :
       emitFMoveRR(r, b) \/ \E dynamic, flag \in BOOLEAN : emitFArith(r, b, dynamic, flag)
  \/ \E b \in {32, 64}, flag \in BOOLEAN : emitFCompare(b, flag)
  \/ \E x, ran, flag \in BOOLEAN : emitVectorFlt(x, ran, flag) \/ emitVectorSat(x, ran, flag)
  \/ \E v \in BOOLEAN :
       \/ fflagsW(v)
       \/ \E name \in {"vxsat", "vxrm", "vcsr", "vstart"} : VectorCSRW(name, v)
       \/ \E rm \in FRMs : fcsrW(rm, v, v) \/ debugFcsrW(rm, v)
  \/ \E rm \in FRMs : frmW(rm)
  \/ \E FS, VS \in {0, 2} : mstatusW(FS, VS) \/ debugStatusW(FS, VS)
  \/ statusRead \/ ustatusW \/ FPReset
  \/ \E v \in SUBSET conf.archMask, aligned \in BOOLEAN : misaW(v \cup {"X"}, aligned)

FPSpec == FPInit /\ [][FPNext]_fpVars

-----------------------------------------------------------------------------
(* Properties                                                              *)

(* What a block takes to be dirty is: updateFS and updateVS leave out the  *)
(* store to mstatus only when an instruction of the same block has made    *)
(* it, and no write of the status has come between them.                   *)
DirtyKnown ==
  /\ known.FSDirty => status.FS = ES_DIRTY
  /\ known.VSDirty => status.VS = ES_DIRTY

(* A program that has changed the floating point or vector state since it  *)
(* last wrote the status reads it back as Dirty, although most stores to   *)
(* FS and VS are left out, flags reach the CSR view only when a status     *)
(* register is accessed, and a reset may come between.  In mode            *)
(* always_dirty whatever is not Off is read as Dirty.                      *)
DirtyReported ==
  ~alwaysDirtyFS => /\ touched.F => statusR.FS = ES_DIRTY
                    /\ touched.V /\ HasVS => statusR.VS = ES_DIRTY

(* currentArch, which decides what instructions are legal and which code   *)
(* may be reused, is what misa, FS, VS and frm say.  The exception is FS   *)
(* turned from Off to Dirty without a write of the status: by flags still  *)
(* pending from before a reset, or in the versions whose vector unit sets  *)
(* them, and writes fcsr, with FS Off.                                     *)
ArchCurrent ==
  ~forced => currentArch = ArchOf(misa, status, mapFRMToRC(frm) = -1)

(* Code that reaches an instruction with the dynamic rounding mode raises  *)
(* Illegal Instruction exactly when frm is invalid, although code is       *)
(* generated without any check until frm is first invalid.                 *)
RoundingChecked == running /\ CheckedRM => (LegalRM <=> mapFRMToRC(frm) # -1)

(* A register a block takes to be NaN-boxed is: it is read without a test  *)
(* and written without boxing it again.                                    *)
NaNBoxKnown ==
  \A b \in {16, 32} : \A r \in known.boxed[b] : width[r] <= b

(* What the code of a block leaves out makes no difference: a store to FS  *)
(* or VS, a check of the rounding mode, a NaN-box test.                    *)
FPKnowledgeTrue == DirtyKnown /\ RoundingChecked /\ NaNBoxKnown

(* D is never enabled without F where it may not be, whatever is written   *)
(* to misa and whichever of the two bits is writable.                      *)
DRequiresF ==
  {"D", "F"} \subseteq conf.arch /\ (conf.d_requires_f \/ ~({"D", "F"} \subseteq conf.archMask))
    => ("D" \in misa => "F" \in misa)

=============================================================================
