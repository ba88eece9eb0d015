----------------------------- MODULE HartProofs -----------------------------
(***************************************************************************)
(* Proofs about module Hart, for every configuration that satisfies        *)
(* ConfigAssumption and every choice of the bounds Exceptions, Written,    *)
(* ArtifactWrites and Nets.  Three parts: type correctness; traps and      *)
(* interrupts (no interrupt is lost, the fetch check leaves none pending   *)
(* and enabled, mip is never stale, privilege drops only at returns); the  *)
(* run state (it agrees with its disable reasons, WFI sleeps only when     *)
(* idle, Debug mode is what its registers say and keeps the state to       *)
(* resume, the modes of code and data accesses follow satp, MPRV and DM).  *)
(***************************************************************************)
EXTENDS Hart, TLAPS

USE DEF M, S, U

-----------------------------------------------------------------------------
(* What the helpers return                                                 *)

(* riscvGetMinMode is an implemented mode. *)
LEMMA MinModeImplemented == riscvGetMinMode \in Modes /\ Modes \subseteq {0, 1, 3}
<1>1. CASE Modes = {M}
  BY <1>1 DEF riscvGetMinMode
<1>2. CASE Modes = {U, M}
  <2>1. \E m \in Modes : \A n \in Modes : m <= n
    <3>1. U \in Modes /\ \A n \in Modes : U <= n
      BY <1>2
    <3> QED BY <3>1
  <2> QED BY <2>1, <1>2 DEF riscvGetMinMode
<1>3. CASE Modes = {S, M}
  <2>1. \E m \in Modes : \A n \in Modes : m <= n
    <3>1. S \in Modes /\ \A n \in Modes : S <= n
      BY <1>3
    <3> QED BY <3>1
  <2> QED BY <2>1, <1>3 DEF riscvGetMinMode
<1>4. CASE Modes = {U, S, M}
  <2>1. \E m \in Modes : \A n \in Modes : m <= n
    <3>1. U \in Modes /\ \A n \in Modes : U <= n
      BY <1>4
    <3> QED BY <3>1
  <2> QED BY <2>1, <1>4 DEF riscvGetMinMode
<1> QED BY <1>1, <1>2, <1>3, <1>4, ConfigAssumption

(* With Supervisor mode implemented, the least mode is S or U. *)
LEMMA MinModeBelowS == S \in Modes => riscvGetMinMode \in {U, S}
<1>1. SUFFICES ASSUME S \in Modes PROVE riscvGetMinMode <= S
  BY MinModeImplemented
<1>2. PICK m \in {U, S} : m \in Modes /\ \A n \in Modes : m <= n
  BY <1>1, ConfigAssumption
<1>3. \A n \in Modes : riscvGetMinMode <= n
  BY <1>2, Zenon DEF riscvGetMinMode
<1> QED BY <1>1, <1>3

(* getERETMode returns an implemented mode. *)
LEMMA ERETModeType ==
  ASSUME NEW m \in 0..3
  PROVE  getERETMode(m) \in Modes /\ getERETMode(m) \in 0..3
BY MinModeImplemented DEF getERETMode

(* Halting and restarting keep the run state well formed. *)
LEMMA RunOps ==
  ASSUME NEW r \in RunType
  PROVE  /\ \A reason \in {"WFI", "RESET", "DEBUG"} : haltProcessor(r, reason) \in RunType
         /\ \A reasons : restartProcessor(r, reasons) \in RunType
         /\ \A stall \in BOOLEAN : updateDMStall(r, stall) \in RunType
<1>1. \A reason \in {"WFI", "RESET", "DEBUG"} : haltProcessor(r, reason) \in RunType
  BY DEF haltProcessor, RunType
<1>2. \A reasons : restartProcessor(r, reasons) \in RunType
  BY DEF restartProcessor, RunType
<1>3. \A stall \in BOOLEAN : updateDMStall(r, stall) \in RunType
  BY <1>1, <1>2 DEF updateDMStall
<1> QED BY <1>1, <1>2, <1>3

(* The data domain refresh always selects a domain. *)
LEMMA DomainForType ==
  ASSUME NEW m \in 0..3, NEW dm \in BOOLEAN, NEW st \in StatusType,
         NEW dc \in DcsrType, NEW vm \in BOOLEAN
  PROVE  DomainFor(m, dm, st, dc, vm) \in DomainType
<1>1. getERETMode(st.MPP) \in 0..3
  BY ERETModeType DEF StatusType
<1> QED BY <1>1 DEF DomainFor, DomainType

(* riscvSetMode, called with well-formed registers, sets the mode and what *)
(* depends on it.                                                          *)
LEMMA SetModeType ==
  ASSUME stepTimer \in BOOLEAN, NEW m \in 0..3, riscvSetMode(m),
         DM' \in BOOLEAN, mstatus' \in StatusType, dcsr' \in DcsrType, VM' \in BOOLEAN
  PROVE  /\ mode' \in 0..3 /\ codeVM' \in BOOLEAN /\ dataDomain' \in DomainType
         /\ stepTimer' \in BOOLEAN
<1>1. mode' = m /\ codeVM' \in BOOLEAN
  BY DEF riscvSetMode, SwitchMode
<1>2. dataDomain' \in DomainType
  BY <1>1, DomainForType DEF riscvSetMode, SwitchMode, riscvVMRefreshMPRVDomain
<1>3. stepTimer' \in BOOLEAN
  BY DEF riscvSetMode, riscvSetStepBreakpoint
<1> QED BY <1>1, <1>2, <1>3

(* riscvTestInterrupt keeps the run state well formed. *)
LEMMA TestInterruptType ==
  ASSUME run \in RunType, syncReq \in BOOLEAN, riscvTestInterrupt
  PROVE  run' \in RunType /\ syncReq' \in BOOLEAN
<1>1. WakeFromWFI(run) \in RunType
  BY RunOps, Zenon DEF WakeFromWFI
<1> QED BY <1>1 DEF riscvTestInterrupt

(* Trap entry and return keep the mstatus fields within their widths, for  *)
(* a target mode that is at least the current one.                         *)
LEMMA StatusOps ==
  ASSUME NEW st \in StatusType
  PROVE  /\ \A x \in 0..3 : mode \in 0..3 /\ mode <= x => TargetModeX(st, x) \in StatusType
         /\ \A x \in PrivModes : RestoreIE(st, x) \in StatusType
         /\ \A m : clearMPRV(st, m) \in StatusType
<1>1. ASSUME NEW x \in 0..3, mode \in 0..3, mode <= x
      PROVE  TargetModeX(st, x) \in StatusType
  <2> DEFINE r == IF x \in {U, S} THEN x ELSE M
  <2>1. r \in PrivModes /\ (r = S => mode \in {U, S})
    BY <1>1 DEF PrivModes
  <2>2. TargetModeX(st, x) =
          [IE |-> st.IE \ {r},
           PIE |-> IF r \in st.IE THEN st.PIE \cup {r} ELSE st.PIE \ {r},
           MPP |-> IF r = M THEN mode ELSE st.MPP,
           SPP |-> IF r = S THEN mode ELSE st.SPP,
           MPRV |-> st.MPRV]
    <3>1. st = [IE |-> st.IE, PIE |-> st.PIE, MPP |-> st.MPP, SPP |-> st.SPP,
                MPRV |-> st.MPRV]
      BY DEF StatusType
    <3>2. TargetModeX(st, x) =
            [st EXCEPT !.PIE = IF r \in st.IE THEN @ \cup {r} ELSE @ \ {r},
                       !.IE = @ \ {r}, !.MPP = IF r = M THEN mode ELSE @,
                       !.SPP = IF r = S THEN mode ELSE @]
      BY DEF TargetModeX
    <3> HIDE DEF r
    <3> QED BY <3>1, <3>2, Zenon
  <2> HIDE DEF r
  <2> QED BY <1>1, <2>1, <2>2 DEF StatusType
<1>2. ASSUME NEW x \in PrivModes
      PROVE  RestoreIE(st, x) \in StatusType
  BY Zenon DEF RestoreIE, StatusType, PrivModes
<1>3. ASSUME NEW m
      PROVE  clearMPRV(st, m) \in StatusType
  BY Zenon DEF clearMPRV, StatusType
<1> QED BY <1>1, <1>2, <1>3

(* The target of a trap is a mode at least as privileged as the current. *)
LEMMA ModeXType ==
  ASSUME mode \in 0..3, NEW e, NEW mMask, NEW sMask
  PROVE  /\ getModeX(e, mMask, sMask) \in 0..3
         /\ mode <= getModeX(e, mMask, sMask)
         /\ DelegatedMode(e, mMask, sMask) <= getModeX(e, mMask, sMask)
BY DEF getModeX, DelegatedMode

(* Entering Debug mode keeps every variable it assigns well formed. *)
LEMMA EnterDMType ==
  ASSUME TypeOK,
         NEW cause \in {"NONE", "EBREAK", "HALTREQ", "STEP", "RESETHALTREQ"},
         enterDM(cause)
  PROVE  /\ mode' \in 0..3 /\ codeVM' \in BOOLEAN /\ dataDomain' \in DomainType
         /\ DM' \in BOOLEAN /\ DMStall' \in BOOLEAN /\ dcsr' \in DcsrType
         /\ run' \in RunType
         /\ UNCHANGED <<mstatus, intVars, delegVars, VM>>
<1>1. UNCHANGED <<mstatus, intVars, delegVars, VM>> /\ DMStall' = TRUE
  BY DEF enterDM
<1>2. run' \in RunType
  BY RunOps, Zenon DEF enterDM, TypeOK
<1>3. CASE DM
  BY <1>1, <1>2, <1>3, Zenon DEF enterDM, modeVars, TypeOK
<1>4. CASE ~DM
  <2>1. DM' = TRUE /\ dcsr' \in DcsrType
    BY <1>4, ZenonT(30) DEF enterDM, TypeOK, DcsrType
  <2>2. SwitchMode(M) /\ mstatus' \in StatusType /\ VM' \in BOOLEAN
    BY <1>1, <1>4 DEF enterDM, TypeOK
  <2>3. mode' = M /\ mode' \in 0..3 /\ codeVM' \in BOOLEAN
    BY <2>2 DEF SwitchMode
  <2>4. dataDomain' \in DomainType
    <3>1. dataDomain' = DomainFor(mode', DM', mstatus', dcsr', VM')
      BY <2>2 DEF SwitchMode, riscvVMRefreshMPRVDomain
    <3>2. DM' \in BOOLEAN
      BY <2>1
    <3> QED BY <3>1, <3>2, <2>1, <2>2, <2>3, DomainForType, Zenon
  <2> QED BY <1>1, <1>2, <2>1, <2>3, <2>4
<1> QED BY <1>3, <1>4

(* Taking an exception keeps the state well formed. *)
LEMMA TakeExceptionType ==
  ASSUME TypeOK, NEW modeX \in 0..3, mode <= modeX, riscvTakeException(modeX),
         netValue' \in NetType, syncReq' \in BOOLEAN
  PROVE  TypeOK'
<1>1. CASE DM
  <2>1. enterDM("NONE") /\ stepTimer' = stepTimer
    BY <1>1 DEF riscvTakeException
  <2> QED BY <2>1, EnterDMType, Zenon DEF TypeOK, intVars, delegVars
<1>2. CASE ~DM
  <2>1. UNCHANGED <<intVars, delegVars, VM, debugVars, run>>
    BY <1>2 DEF riscvTakeException
  <2>2. mstatus' \in StatusType
    BY <1>2, StatusOps DEF riscvTakeException, TypeOK
  <2>3. riscvSetMode(modeX)
    BY <1>2 DEF riscvTakeException
  <2>4. DM' \in BOOLEAN /\ dcsr' \in DcsrType /\ VM' \in BOOLEAN /\ stepTimer \in BOOLEAN
    BY <2>1 DEF debugVars, TypeOK
  <2>5. /\ mode' \in 0..3 /\ codeVM' \in BOOLEAN /\ dataDomain' \in DomainType
        /\ stepTimer' \in BOOLEAN
    BY <2>2, <2>3, <2>4, SetModeType
  <2> QED BY <2>1, <2>2, <2>5 DEF TypeOK, intVars, delegVars, debugVars
<1> QED BY <1>1, <1>2

(* The return instructions keep the state well formed. *)
LEMMA ERETType ==
  ASSUME TypeOK, NEW st \in StatusType, NEW newMode \in 0..3, ERET(st, newMode)
  PROVE  TypeOK'
<1>1. CASE DM
  BY <1>1, Zenon DEF ERET, vars, modeVars, intVars, delegVars, debugVars, TypeOK
<1>2. CASE ~DM
  <2>1. /\ UNCHANGED <<intVars, delegVars, VM, debugVars, netValue>>
        /\ mstatus' = st /\ riscvSetMode(newMode) /\ riscvTestInterrupt
    BY <1>2 DEF ERET, doERETCommon
  <2>2. run' \in RunType /\ syncReq' \in BOOLEAN
    BY <2>1, TestInterruptType DEF TypeOK
  <2>3. DM' \in BOOLEAN /\ dcsr' \in DcsrType /\ VM' \in BOOLEAN /\ stepTimer \in BOOLEAN
    BY <2>1 DEF debugVars, TypeOK
  <2>4. /\ mode' \in 0..3 /\ codeVM' \in BOOLEAN /\ dataDomain' \in DomainType
        /\ stepTimer' \in BOOLEAN
    BY <2>1, <2>3, SetModeType
  <2> QED BY <2>1, <2>2, <2>4 DEF TypeOK, intVars, delegVars, debugVars
<1> QED BY <1>1, <1>2

(* Leaving Debug mode keeps the state well formed. *)
LEMMA LeaveDMType ==
  ASSUME TypeOK, leaveDM
  PROVE  TypeOK'
<1>1. /\ UNCHANGED <<intVars, delegVars, VM, dcsr, netValue>>
      /\ DM' = FALSE /\ DMStall' = FALSE /\ riscvSetMode(dcsr.prv)
      /\ mstatus' = clearMPRV(mstatus, dcsr.prv)
      /\ run' = updateDMStall(WakeFromWFI(run), FALSE)
      /\ syncReq' = (syncReq \/ getPendingAndEnabledInterrupts' # {})
  BY DEF leaveDM
<1>2. mstatus' \in StatusType
  BY <1>1, StatusOps DEF TypeOK
<1>3. WakeFromWFI(run) \in RunType
  BY RunOps DEF WakeFromWFI, TypeOK
<1>4. run' \in RunType
  BY <1>1, <1>3, RunOps, Zenon
<1>5. /\ dcsr.prv \in 0..3 /\ stepTimer \in BOOLEAN
      /\ DM' \in BOOLEAN /\ dcsr' \in DcsrType /\ VM' \in BOOLEAN
  BY <1>1, Zenon DEF TypeOK, DcsrType
<1>6. /\ mode' \in 0..3 /\ codeVM' \in BOOLEAN /\ dataDomain' \in DomainType
      /\ stepTimer' \in BOOLEAN
  BY <1>1, <1>2, <1>5, SetModeType
<1> QED BY <1>1, <1>2, <1>4, <1>5, <1>6, Zenon DEF TypeOK, intVars, delegVars

(* The fetch callback and the step timer keep the state well formed. *)
LEMMA FetchType ==
  ASSUME TypeOK, riscvIFetchExcept
  PROVE  TypeOK'
<1>0. syncReq' \in BOOLEAN
  BY Zenon DEF riscvIFetchExcept
<1>1. CASE /\ netValue' = [netValue EXCEPT !.resethaltreqS = FALSE]
           /\ enterDM("RESETHALTREQ") /\ UNCHANGED stepTimer
  <2>1. netValue' \in NetType
    BY <1>1, Zenon DEF TypeOK, NetType
  <2> QED BY <1>0, <1>1, <2>1, EnterDMType DEF TypeOK, intVars, delegVars
<1>2. CASE enterDM("HALTREQ") /\ UNCHANGED <<netValue, stepTimer>>
  BY <1>0, <1>2, EnterDMType, Zenon DEF TypeOK, intVars, delegVars
<1>3. CASE \E i \in getPendingAndEnabledInterrupts :
              riscvTakeException(getInterruptModeX(i)) /\ UNCHANGED netValue
  <2>1. PICK i : riscvTakeException(getInterruptModeX(i)) /\ UNCHANGED netValue
    BY <1>3
  <2>2. getInterruptModeX(i) \in 0..3 /\ mode <= getInterruptModeX(i) /\ netValue' \in NetType
    BY <2>1, ModeXType DEF getInterruptModeX, TypeOK
  <2> QED BY <1>0, <2>1, <2>2, TakeExceptionType
<1>4. CASE \E e \in Exceptions :
              riscvTakeException(getExceptionModeX(e)) /\ UNCHANGED netValue
  <2>1. PICK e : riscvTakeException(getExceptionModeX(e)) /\ UNCHANGED netValue
    BY <1>4
  <2>2. getExceptionModeX(e) \in 0..3 /\ mode <= getExceptionModeX(e) /\ netValue' \in NetType
    BY <2>1, ModeXType DEF getExceptionModeX, TypeOK
  <2> QED BY <1>0, <2>1, <2>2, TakeExceptionType
<1>5. CASE UNCHANGED <<modeVars, mstatus, intVars, delegVars, VM, debugVars, run,
                       stepTimer, netValue>>
  BY <1>0, <1>5 DEF TypeOK, modeVars, intVars, delegVars, debugVars
<1> QED BY <1>1, <1>2, <1>3, <1>4, <1>5 DEF riscvIFetchExcept

LEMMA StepExceptType ==
  ASSUME TypeOK, riscvStepExcept
  PROVE  TypeOK'
<1>1. CASE enterDM("STEP")
  BY <1>1, EnterDMType, Zenon DEF riscvStepExcept, TypeOK, intVars, delegVars
<1>2. CASE UNCHANGED <<modeVars, mstatus, intVars, delegVars, VM, debugVars, run>>
  BY <1>2, Zenon DEF riscvStepExcept, TypeOK, modeVars, intVars, delegVars, debugVars
<1> QED BY <1>1, <1>2 DEF riscvStepExcept

(* A synchronous exception of any instruction keeps the state well formed. *)
LEMMA ExceptionType ==
  ASSUME TypeOK, NEW e, riscvTakeException(getExceptionModeX(e)),
         UNCHANGED <<netValue, syncReq>>
  PROVE  TypeOK'
<1>1. getExceptionModeX(e) \in 0..3 /\ mode <= getExceptionModeX(e)
  BY ModeXType DEF getExceptionModeX, TypeOK
<1>2. netValue' \in NetType /\ syncReq' \in BOOLEAN
  BY DEF TypeOK
<1> QED BY <1>1, <1>2, TakeExceptionType

LEMMA InstructionType ==
  ASSUME TypeOK, Instruction
  PROVE  TypeOK'
<1>1. ASSUME NEW e \in Exceptions, Except(e) PROVE TypeOK'
  BY <1>1, ExceptionType DEF Except
<1>2. CASE riscvECALL
  BY <1>2, ExceptionType DEF riscvECALL
<1>3. CASE riscvEBREAK
  <2>1. CASE enterDM("EBREAK") /\ UNCHANGED stepTimer
    BY <1>3, <2>1, EnterDMType, Zenon DEF riscvEBREAK, TypeOK, intVars, delegVars
  <2>2. CASE riscvTakeException(getExceptionModeX(3))
    BY <1>3, <2>2, ExceptionType DEF riscvEBREAK
  <2> QED BY <1>3, <2>1, <2>2 DEF riscvEBREAK
<1>4. CASE riscvMRET
  <2> DEFINE newMode == getERETMode(mstatus.MPP)
             rst == RestoreIE(mstatus, M)
             st == [rst EXCEPT !.MPP = riscvGetMinMode]
  <2>1. newMode \in 0..3 /\ ERET(clearMPRV(st, newMode), newMode)
    BY <1>4, ERETModeType DEF riscvMRET, TypeOK, StatusType
  <2>2. rst \in StatusType /\ riscvGetMinMode \in 0..3
    BY StatusOps, MinModeImplemented DEF TypeOK, PrivModes
  <2> HIDE DEF newMode, rst
  <2>3. st \in StatusType
    BY <2>2 DEF StatusType
  <2> HIDE DEF st
  <2>4. clearMPRV(st, newMode) \in StatusType
    BY <2>3, StatusOps
  <2> QED BY <2>1, <2>4, ERETType
<1>5. CASE riscvSRET
  <2> DEFINE newMode == getERETMode(mstatus.SPP)
             rst == RestoreIE(mstatus, S)
             st == [rst EXCEPT !.SPP = riscvGetMinMode]
  <2>1. newMode \in 0..3 /\ ERET(clearMPRV(st, newMode), newMode)
    BY <1>5, ERETModeType DEF riscvSRET, TypeOK, StatusType
  <2>2. rst \in StatusType /\ riscvGetMinMode \in {U, S}
    BY <1>5, StatusOps, MinModeBelowS DEF TypeOK, PrivModes, riscvSRET
  <2> HIDE DEF newMode, rst
  <2>3. st \in StatusType
    BY <2>2 DEF StatusType
  <2> HIDE DEF st
  <2>4. clearMPRV(st, newMode) \in StatusType
    BY <2>3, StatusOps
  <2> QED BY <2>1, <2>4, ERETType
<1>6. CASE riscvURET
  <2>1. RestoreIE(mstatus, U) \in StatusType /\ U \in 0..3
    BY StatusOps DEF TypeOK, PrivModes
  <2> QED BY <1>6, <2>1, ERETType DEF riscvURET
<1>7. CASE riscvDRET
  BY <1>7, ExceptionType, LeaveDMType DEF riscvDRET
<1>8. CASE riscvWFI
  <2>1. run' \in RunType
    BY <1>8, RunOps DEF riscvWFI, TypeOK
  <2> QED BY <1>8, <2>1 DEF riscvWFI, TypeOK, modeVars, intVars, delegVars, debugVars
<1> QED BY <1>1, <1>2, <1>3, <1>4, <1>5, <1>6, <1>7, <1>8 DEF Instruction

(* A write that merges new bits under a mask stays within a superset. *)
LEMMA MergedWithin ==
  ASSUME NEW old, NEW mask, NEW all, old \subseteq all, mask \subseteq all
  PROVE  \A new \in Merged(old, mask) : new \subseteq all
BY DEF Merged

(* The tail of a register write: riscvTestInterrupt if the value changed. *)
LEMMA TestOrKeepType ==
  ASSUME TypeOK, riscvTestInterrupt \/ UNCHANGED <<run, syncReq>>
  PROVE  run' \in RunType /\ syncReq' \in BOOLEAN
BY TestInterruptType DEF TypeOK

LEMMA UpdatePendingType ==
  ASSUME TypeOK, ip' \subseteq Interrupts, swip' \subseteq Interrupts, riscvUpdatePending
  PROVE  mip' \subseteq Interrupts /\ run' \in RunType /\ syncReq' \in BOOLEAN
BY TestOrKeepType DEF riscvUpdatePending

LEMMA StatusWType ==
  ASSUME TypeOK, NEW reg, NEW lvl \in PrivModes, statusW(reg, lvl)
  PROVE  TypeOK'
<1>1. PICK new \in StatusValues(lvl) :
        mstatus' = [new EXCEPT !.MPP = IF @ \in Modes THEN @ ELSE mstatus.MPP]
  BY DEF statusW
<1>2. new \in StatusType
  <2> DEFINE Mask(f) == IF f \in Written
                        THEN {x \in Modes : x <= lvl /\ (x = U => ISA_N)} ELSE {}
  <2>1. \A f : Mask(f) \subseteq PrivModes
    BY MinModeImplemented, Zenon DEF PrivModes
  <2>2. mstatus.IE \subseteq PrivModes /\ mstatus.PIE \subseteq PrivModes
    BY DEF TypeOK, StatusType
  <2>3. new \in [IE : Merged(mstatus.IE, Mask("IE")), PIE : Merged(mstatus.PIE, Mask("PIE")),
                 MPP : 0..3, SPP : {U, S}, MPRV : BOOLEAN]
    BY DEF StatusValues, Values, TypeOK, StatusType
  <2> HIDE DEF Mask
  <2>4. new.IE \subseteq PrivModes /\ new.PIE \subseteq PrivModes
    BY <2>1, <2>2, <2>3, MergedWithin
  <2> QED BY <2>3, <2>4 DEF StatusType
<1>3. mstatus' \in StatusType
  BY <1>1, <1>2 DEF StatusType, TypeOK
<1>4. /\ UNCHANGED <<mode, codeVM, intVars, delegVars, VM, debugVars, netValue, stepTimer>>
      /\ dataDomain' = DomainFor(mode', DM', mstatus', dcsr', VM')
      /\ riscvTestInterrupt \/ UNCHANGED <<run, syncReq>>
  BY DEF statusW, riscvVMRefreshMPRVDomain
<1>5. mode' \in 0..3 /\ DM' \in BOOLEAN /\ dcsr' \in DcsrType /\ VM' \in BOOLEAN
  BY <1>4 DEF TypeOK, debugVars
<1>6. dataDomain' \in DomainType
  BY <1>3, <1>4, <1>5, DomainForType
<1>7. run' \in RunType /\ syncReq' \in BOOLEAN
  BY <1>4, TestOrKeepType
<1> QED BY <1>3, <1>4, <1>6, <1>7 DEF TypeOK, intVars, delegVars, debugVars

LEMMA IeWType ==
  ASSUME TypeOK, NEW reg, NEW lvl, NEW rMask, ieW(reg, lvl, rMask)
  PROVE  TypeOK'
<1>1. mie' \subseteq Interrupts
  BY MergedWithin DEF ieW, TypeOK
<1>2. run' \in RunType /\ syncReq' \in BOOLEAN
  BY TestOrKeepType DEF ieW
<1> QED BY <1>1, <1>2 DEF ieW, TypeOK, modeVars, delegVars, debugVars

LEMMA IpWType ==
  ASSUME TypeOK, NEW reg, NEW lvl, NEW rMask, ipW(reg, lvl, rMask)
  PROVE  TypeOK'
<1>1. swip' \subseteq Interrupts /\ ip' \subseteq Interrupts
  BY MergedWithin DEF ipW, TypeOK
<1>2. mip' \subseteq Interrupts /\ run' \in RunType /\ syncReq' \in BOOLEAN
  BY <1>1, UpdatePendingType, TestOrKeepType DEF ipW, TypeOK
<1> QED BY <1>1, <1>2 DEF ipW, TypeOK, modeVars, delegVars, debugVars

LEMMA DcsrWType ==
  ASSUME TypeOK, dcsrW
  PROVE  TypeOK'
<1>1. PICK prv \in Values("prv", 0..3, dcsr.prv),
           step \in Values("step", BOOLEAN, dcsr.step),
           mprven \in Values("mprven", BOOLEAN, dcsr.mprven),
           ebreak \in Values("ebreak", SUBSET Modes, dcsr.ebreak) :
       \/ /\ "dcsr" \in Written
          /\ Executing(M) /\ DM
          /\ dcsr' = [dcsr EXCEPT !.prv = prv, !.step = step,
                                  !.mprven = mprven, !.ebreak = ebreak]
       \/ /\ "dcsr" \in ArtifactWrites
          /\ \E cause \in Values("cause", {"NONE", "HALTREQ"}, dcsr.cause),
                nmip \in Values("nmip", BOOLEAN, dcsr.nmip) :
               dcsr' = [prv |-> prv, cause |-> cause, step |-> step,
                        nmip |-> nmip, mprven |-> mprven, ebreak |-> ebreak]
  BY Zenon DEF dcsrW
<1>2. prv \in 0..3 /\ step \in BOOLEAN /\ mprven \in BOOLEAN /\ ebreak \in SUBSET Modes
  BY DEF Values, TypeOK, DcsrType
<1>3. dcsr' \in DcsrType
  <2>1. CASE dcsr' = [dcsr EXCEPT !.prv = prv, !.step = step,
                                  !.mprven = mprven, !.ebreak = ebreak]
    <3>1. dcsr' = [prv |-> prv, cause |-> dcsr.cause, step |-> step, nmip |-> dcsr.nmip,
                   mprven |-> mprven, ebreak |-> ebreak]
      <4>1. dcsr = [prv |-> dcsr.prv, cause |-> dcsr.cause, step |-> dcsr.step,
                    nmip |-> dcsr.nmip, mprven |-> dcsr.mprven, ebreak |-> dcsr.ebreak]
        BY DEF TypeOK, DcsrType
      <4> QED BY <2>1, <4>1, Zenon
    <3> QED BY <1>2, <3>1 DEF TypeOK, DcsrType
  <2>2. ASSUME NEW cause \in Values("cause", {"NONE", "HALTREQ"}, dcsr.cause),
               NEW nmip \in Values("nmip", BOOLEAN, dcsr.nmip),
               dcsr' = [prv |-> prv, cause |-> cause, step |-> step,
                        nmip |-> nmip, mprven |-> mprven, ebreak |-> ebreak]
        PROVE  dcsr' \in DcsrType
    <3>1. /\ cause \in {"NONE", "EBREAK", "HALTREQ", "STEP", "RESETHALTREQ"}
          /\ nmip \in BOOLEAN
      BY DEF Values, TypeOK, DcsrType
    <3> QED BY <1>2, <2>2, <3>1 DEF DcsrType
  <2> QED BY <1>1, <2>1, <2>2
<1>4. stepTimer' \in BOOLEAN
  BY DEF dcsrW, riscvSetStepBreakpoint
<1> QED BY <1>3, <1>4 DEF dcsrW, TypeOK, modeVars, intVars, delegVars

LEMMA CSRWriteType ==
  ASSUME TypeOK, CSRWrite
  PROVE  TypeOK'
<1>1. CASE mstatusW \/ sstatusW \/ ustatusW
  BY <1>1, StatusWType DEF mstatusW, sstatusW, ustatusW, PrivModes
<1>2. CASE mieW \/ sieW \/ uieW
  BY <1>2, IeWType DEF mieW, sieW, uieW
<1>3. CASE mipW \/ sipW \/ uipW
  BY <1>3, IpWType DEF mipW, sipW, uipW
<1>4. CASE midelegW
  <2>1. mideleg' \subseteq Interrupts
    BY <1>4, MergedWithin DEF midelegW, sInterrupts, TypeOK
  <2>2. run' \in RunType /\ syncReq' \in BOOLEAN
    BY <1>4, TestOrKeepType DEF midelegW
  <2> QED BY <1>4, <2>1, <2>2 DEF midelegW, TypeOK, modeVars, intVars, debugVars
<1>5. CASE sidelegW
  <2>1. sideleg' \subseteq 0..31
    <3>1. uInterrupts \subseteq 0..31 /\ sideleg \subseteq 0..31
      BY ConfigAssumption DEF uInterrupts, sInterrupts, TypeOK
    <3>2. \A new \in Merged(sideleg, uInterrupts) : new \subseteq 0..31
      BY <3>1, MergedWithin, Zenon
    <3> QED BY <1>5, <3>2 DEF sidelegW
  <2>2. run' \in RunType /\ syncReq' \in BOOLEAN
    BY <1>5, TestOrKeepType DEF sidelegW
  <2> QED BY <1>5, <2>1, <2>2 DEF sidelegW, TypeOK, modeVars, intVars, debugVars
<1>6. CASE medelegW
  <2>1. medeleg' \subseteq Exceptions
    BY <1>6, MergedWithin DEF medelegW, TypeOK
  <2> QED BY <1>6, <2>1 DEF medelegW, TypeOK, modeVars, intVars, debugVars
<1>7. CASE sedelegW
  <2>1. sedeleg' \subseteq 0..31
    <3>1. Exceptions \ {9, 10, 11} \subseteq 0..31 /\ sedeleg \subseteq 0..31
      BY ConfigAssumption DEF TypeOK
    <3>2. \A new \in Merged(sedeleg, Exceptions \ {9, 10, 11}) : new \subseteq 0..31
      BY <3>1, MergedWithin, Zenon
    <3> QED BY <1>7, <3>2, Zenon DEF sedelegW
  <2> QED BY <1>7, <2>1 DEF sedelegW, TypeOK, modeVars, intVars, debugVars
<1>8. CASE satpW
  <2>1. /\ VM' \in BOOLEAN /\ riscvSetMode(mode) /\ mode \in 0..3
        /\ UNCHANGED <<mstatus, intVars, delegVars, debugVars, netValue, run, syncReq>>
    BY <1>8 DEF satpW, TypeOK
  <2>2. DM' \in BOOLEAN /\ mstatus' \in StatusType /\ dcsr' \in DcsrType /\ stepTimer \in BOOLEAN
    BY <2>1 DEF TypeOK, debugVars
  <2>3. /\ mode' \in 0..3 /\ codeVM' \in BOOLEAN /\ dataDomain' \in DomainType
        /\ stepTimer' \in BOOLEAN
    BY <2>1, <2>2, SetModeType
  <2> QED BY <2>1, <2>3 DEF TypeOK, intVars, delegVars, debugVars
<1>9. CASE dcsrW
  BY <1>9, DcsrWType
<1> QED BY <1>1, <1>2, <1>3, <1>4, <1>5, <1>6, <1>7, <1>8, <1>9 DEF CSRWrite

(* The register values after reset are well formed. *)
LEMMA ResetValues ==
  /\ [IE |-> {}, PIE |-> {}, MPP |-> riscvGetMinMode,
      SPP |-> IF S \in Modes THEN riscvGetMinMode ELSE U, MPRV |-> FALSE] \in StatusType
  /\ [prv |-> M, cause |-> "NONE", step |-> FALSE, nmip |-> FALSE,
      mprven |-> FALSE, ebreak |-> {}] \in DcsrType
<1>1. riscvGetMinMode \in 0..3 /\ (S \in Modes => riscvGetMinMode \in {U, S})
  BY MinModeImplemented, MinModeBelowS
<1> QED BY <1>1 DEF StatusType, DcsrType

LEMMA ResetType ==
  ASSUME TypeOK, riscvReset, netValue' \in NetType
  PROVE  TypeOK'
<1> DEFINE restarted == restartProcessor(run, RVD_RESTART_RESET)
           st == IF DM THEN clearMPRV(mstatus, dcsr.prv) ELSE mstatus
           woken == IF getPendingInterrupts # {}
                    THEN restartProcessor(restarted, RVD_RESTART_WFI) ELSE restarted
<1>1. restarted \in RunType
  BY RunOps DEF TypeOK
<1>2. st \in StatusType
  BY StatusOps DEF TypeOK
<1> HIDE DEF restarted, st
<1>3. woken \in RunType
  BY <1>1, RunOps
<1> HIDE DEF woken
<1>4. run' = IF DM THEN updateDMStall(woken, FALSE) ELSE restarted
  BY DEF riscvReset, woken, restarted
<1>5. run' \in RunType
  BY <1>1, <1>3, <1>4, RunOps, Zenon
<1>6. dataDomain' \in DomainType
  <2>1. dataDomain' = DomainFor(M, FALSE, st, dcsr, VM)
    BY DEF riscvReset, st
  <2>2. M \in 0..3 /\ dcsr \in DcsrType /\ VM \in BOOLEAN
    BY DEF TypeOK
  <2> QED BY <1>2, <2>1, <2>2, DomainForType, Zenon
<1>7. mode' \in 0..3 /\ UNCHANGED <<intVars, delegVars, VM>>
  BY DEF riscvReset
<1>8. mstatus' \in StatusType /\ dcsr' \in DcsrType
  BY ResetValues DEF riscvReset
<1>9. codeVM' \in BOOLEAN /\ DM' \in BOOLEAN /\ DMStall' \in BOOLEAN
  BY Zenon DEF riscvReset, TypeOK
<1>10. stepTimer' \in BOOLEAN /\ syncReq' \in BOOLEAN
  BY DEF riscvReset
<1> QED BY <1>5, <1>6, <1>7, <1>8, <1>9, <1>10 DEF TypeOK, intVars, delegVars

LEMMA NetChangeType ==
  ASSUME TypeOK, NetChange
  PROVE  TypeOK'
<1>1. PICK v \in BOOLEAN :
        \/ \E i \in Interrupts : interruptPortCB(i, v)
        \/ resetPortCB(v) \/ nmiPortCB(v) \/ haltreqPortCB(v) \/ resethaltreqPortCB(v)
  BY DEF NetChange
<1>2. ASSUME NEW i \in Interrupts, interruptPortCB(i, v) PROVE TypeOK'
  <2>1. ip' \subseteq Interrupts /\ swip' \subseteq Interrupts
    BY <1>2 DEF interruptPortCB, TypeOK
  <2>2. mip' \subseteq Interrupts /\ run' \in RunType /\ syncReq' \in BOOLEAN
    BY <1>2, <2>1, UpdatePendingType DEF interruptPortCB
  <2> QED BY <1>2, <2>1, <2>2 DEF interruptPortCB, TypeOK, modeVars, delegVars, debugVars
<1>3. CASE resetPortCB(v)
  <2>1. netValue' \in NetType
    BY <1>3, Zenon DEF resetPortCB, TypeOK, NetType
  <2>2. CASE riscvReset
    BY <2>1, <2>2, ResetType
  <2>3. CASE ~riscvReset
    <3>1. run' \in RunType
      BY <1>3, <2>3, RunOps DEF resetPortCB, TypeOK
    <3> QED BY <1>3, <2>1, <2>3, <3>1
            DEF resetPortCB, TypeOK, modeVars, intVars, delegVars, debugVars
  <2> QED BY <2>2, <2>3
<1>4. CASE nmiPortCB(v)
  <2>1. /\ netValue' \in NetType /\ dcsr' \in DcsrType
        /\ UNCHANGED <<mstatus, intVars, delegVars, VM, DM, DMStall, syncReq>>
    BY <1>4 DEF nmiPortCB, TypeOK, NetType, DcsrType
  <2>2. CASE doNMI
    <3>1. run' \in RunType
      BY <2>2, RunOps DEF doNMI, TypeOK
    <3>2. /\ riscvSetMode(M) /\ M \in 0..3 /\ stepTimer \in BOOLEAN
          /\ DM' \in BOOLEAN /\ mstatus' \in StatusType /\ VM' \in BOOLEAN
      BY <2>1, <2>2 DEF doNMI, TypeOK
    <3>3. /\ mode' \in 0..3 /\ codeVM' \in BOOLEAN /\ dataDomain' \in DomainType
          /\ stepTimer' \in BOOLEAN
      BY <2>1, <3>2, SetModeType
    <3> QED BY <2>1, <3>1, <3>3 DEF TypeOK, intVars, delegVars
  <2>3. CASE UNCHANGED <<modeVars, run, stepTimer>>
    BY <2>1, <2>3 DEF TypeOK, modeVars, intVars, delegVars
  <2> QED BY <1>4, <2>2, <2>3 DEF nmiPortCB
<1>5. CASE haltreqPortCB(v)
  <2>1. netValue' \in NetType /\ syncReq' \in BOOLEAN
    BY <1>5 DEF haltreqPortCB, TypeOK, NetType
  <2> QED BY <1>5, <2>1 DEF haltreqPortCB, TypeOK, modeVars, intVars, delegVars, debugVars
<1>6. CASE resethaltreqPortCB(v)
  <2>1. netValue' \in NetType
    BY <1>6 DEF resethaltreqPortCB, TypeOK, NetType
  <2> QED BY <1>6, <2>1
          DEF resethaltreqPortCB, TypeOK, modeVars, intVars, delegVars, debugVars
<1> QED BY <1>1, <1>2, <1>3, <1>4, <1>5, <1>6

LEMMA DebuggerType ==
  ASSUME TypeOK, Debugger
  PROVE  TypeOK'
<1>1. ASSUME NEW v \in BOOLEAN, riscvSetDM(v) PROVE TypeOK'
  <2>1. CASE enterDM("HALTREQ") /\ UNCHANGED <<netValue, syncReq, stepTimer>>
    BY <2>1, EnterDMType, ZenonT(30) DEF TypeOK, intVars, delegVars
  <2> QED BY <1>1, <2>1, LeaveDMType DEF riscvSetDM
<1>2. ASSUME NEW v \in BOOLEAN, riscvSetDMStall(v) PROVE TypeOK'
  <2>1. run' \in RunType
    BY <1>2, RunOps, SMTT(30) DEF riscvSetDMStall, TypeOK
  <2> QED BY <1>2, <2>1 DEF riscvSetDMStall, TypeOK, modeVars, intVars, delegVars
<1> QED BY <1>1, <1>2 DEF Debugger

-----------------------------------------------------------------------------
(* Every handler and CSR write keeps every register within its width and   *)
(* its write mask.                                                         *)
THEOREM TypeCorrect == Spec => []TypeOK
<1>1. Init => TypeOK
  <2> SUFFICES ASSUME Init PROVE TypeOK
    OBVIOUS
  <2>1. mstatus \in StatusType /\ dcsr \in DcsrType
    BY ResetValues, SMTT(30) DEF Init
  <2>2. netValue \in NetType /\ run \in RunType /\ dataDomain \in DomainType
    BY DEF Init, NetType, RunType, DomainType
  <2>3. /\ mode \in 0..3 /\ mideleg \subseteq Interrupts /\ sideleg \subseteq 0..31
        /\ medeleg \subseteq Exceptions /\ sedeleg \subseteq 0..31
    BY DEF Init
  <2>4. /\ codeVM \in BOOLEAN /\ VM \in BOOLEAN /\ DM \in BOOLEAN /\ DMStall \in BOOLEAN
        /\ syncReq \in BOOLEAN /\ stepTimer \in BOOLEAN
        /\ mie \subseteq Interrupts /\ mip \subseteq Interrupts
        /\ ip \subseteq Interrupts /\ swip \subseteq Interrupts
    BY Zenon DEF Init
  <2> QED BY <2>1, <2>2, <2>3, <2>4 DEF TypeOK
<1>2. TypeOK /\ [Next]_vars => TypeOK'
  <2> SUFFICES ASSUME TypeOK, [Next]_vars PROVE TypeOK'
    OBVIOUS
  <2>1. CASE UNCHANGED vars
    BY <2>1 DEF vars, modeVars, intVars, delegVars, debugVars, TypeOK
  <2> QED BY <2>1, FetchType, StepExceptType, InstructionType, CSRWriteType,
             NetChangeType, DebuggerType DEF Next
<1> QED BY <1>1, <1>2, PTL DEF Spec

-----------------------------------------------------------------------------
(* How the set of pending and enabled interrupts changes                   *)

(* Nothing is newly enabled if the mode and the masks stay and no IE bit   *)
(* is set.                                                                 *)
LEMMA EnabledShrinks ==
  ASSUME UNCHANGED <<mode, mie, mip, mideleg, sideleg, DM>>,
         mstatus'.IE \subseteq mstatus.IE
  PROVE  getPendingAndEnabledInterrupts' \subseteq getPendingAndEnabledInterrupts
BY DEF getPendingAndEnabledInterrupts, PendingAndEnabledIn, getPendingInterrupts, getIE,
       DelegatedMode

(* Nothing is enabled in Debug mode. *)
LEMMA NoneEnabledInDM ==
  ASSUME NEW cause, enterDM(cause)
  PROVE  getPendingAndEnabledInterrupts' = {}
<1>1. DM' = TRUE
  BY DEF enterDM
<1> QED BY <1>1 DEF getPendingAndEnabledInterrupts, PendingAndEnabledIn

(* After a trap to modeX, only interrupts of a higher mode are enabled,    *)
(* and those were enabled before.                                          *)
LEMMA TrapMasks ==
  ASSUME TypeOK, NEW modeX \in 0..3, mode <= modeX, riscvTakeException(modeX)
  PROVE  getPendingAndEnabledInterrupts' \subseteq
           {i \in getPendingAndEnabledInterrupts :
              modeX < DelegatedMode(i, mideleg, sideleg)}
<1>1. CASE DM
  BY <1>1, NoneEnabledInDM DEF riscvTakeException
<1>2. CASE ~DM
  <2>1. /\ UNCHANGED <<mie, mip, mideleg, sideleg, DM>>
        /\ mode' = modeX
        /\ mstatus' = TargetModeX(mstatus, modeX)
    BY <1>2 DEF riscvTakeException, intVars, delegVars, debugVars, riscvSetMode, SwitchMode
  <2>2. modeX \in PrivModes => modeX \notin mstatus'.IE
    BY <2>1 DEF TargetModeX, PrivModes, TypeOK, StatusType
  <2>3. \A i : DelegatedMode(i, mideleg, sideleg) \in PrivModes
    BY DEF DelegatedMode, PrivModes
  <2>4. \A i : DelegatedMode(i, mideleg, sideleg)' = DelegatedMode(i, mideleg, sideleg)
    BY <2>1 DEF DelegatedMode
  <2> SUFFICES ASSUME NEW i \in getPendingAndEnabledInterrupts'
               PROVE  /\ i \in getPendingAndEnabledInterrupts
                      /\ modeX < DelegatedMode(i, mideleg, sideleg)
    OBVIOUS
  <2> DEFINE lvl == DelegatedMode(i, mideleg, sideleg)
  <2>5. i \in getPendingInterrupts /\ getIE(mode', mstatus'.IE, lvl)
    BY <2>1, <2>4 DEF getPendingAndEnabledInterrupts, PendingAndEnabledIn, getPendingInterrupts
  <2>6. lvl \in PrivModes
    BY <2>3
  <2> HIDE DEF lvl
  <2>7. modeX < lvl
    BY <2>1, <2>2, <2>5, <2>6 DEF getIE
  <2>8. getIE(mode, mstatus.IE, lvl)
    <3>1. mode \in 0..3
      BY DEF TypeOK
    <3>2. mode < lvl
      BY <2>6, <2>7, <3>1 DEF PrivModes
    <3> QED BY <3>2 DEF getIE
  <2> QED BY <1>2, <2>5, <2>7, <2>8
          DEF lvl, getPendingAndEnabledInterrupts, PendingAndEnabledIn
<1> QED BY <1>1, <1>2

LEMMA ExceptionMasks ==
  ASSUME TypeOK, NEW e, riscvTakeException(getExceptionModeX(e))
  PROVE  getPendingAndEnabledInterrupts' \subseteq getPendingAndEnabledInterrupts
<1>1. getExceptionModeX(e) \in 0..3 /\ mode <= getExceptionModeX(e)
  BY ModeXType DEF getExceptionModeX, TypeOK
<1> QED BY <1>1, TrapMasks

(* The interrupt selected by doInterrupt has the highest target mode of    *)
(* those that are enabled, so its trap masks all of them.                  *)
LEMMA SelectedMasksAll ==
  ASSUME TypeOK, NEW i \in getPendingAndEnabledInterrupts,
         \A j \in getPendingAndEnabledInterrupts : Outranks(i, j),
         riscvTakeException(getInterruptModeX(i))
  PROVE  getPendingAndEnabledInterrupts' = {}
<1>1. getInterruptModeX(i) \in 0..3 /\ mode <= getInterruptModeX(i)
  BY ModeXType DEF getInterruptModeX, TypeOK
<1>2. ASSUME NEW j \in getPendingAndEnabledInterrupts
      PROVE  ~(getInterruptModeX(i) < DelegatedMode(j, mideleg, sideleg))
  <2>1. /\ getInterruptModeX(j) \in 0..3
        /\ DelegatedMode(j, mideleg, sideleg) <= getInterruptModeX(j)
    BY ModeXType DEF getInterruptModeX, TypeOK
  <2>3. DelegatedMode(j, mideleg, sideleg) \in 0..3
    BY DEF DelegatedMode
  <2>2. getInterruptModeX(i) >= getInterruptModeX(j)
    BY <1>1, <2>1 DEF Outranks
  <2> QED BY <1>1, <2>1, <2>2, <2>3
<1> QED BY <1>1, <1>2, TrapMasks

(* Whatever the fetch check does, nothing is pending and enabled after it. *)
LEMMA FetchMasksAll ==
  ASSUME TypeOK, riscvIFetchExcept
  PROVE  getPendingAndEnabledInterrupts' = {}
<1>1. CASE enterDM("RESETHALTREQ") \/ enterDM("HALTREQ")
  BY <1>1, NoneEnabledInDM
<1>2. CASE \E i \in getPendingAndEnabledInterrupts :
             /\ \A j \in getPendingAndEnabledInterrupts : Outranks(i, j)
             /\ riscvTakeException(getInterruptModeX(i))
  BY <1>2, SelectedMasksAll
<1>3. CASE /\ getPendingAndEnabledInterrupts = {}
           /\ \E e \in Exceptions \cap {0, 1, 12} : riscvTakeException(getExceptionModeX(e))
  BY <1>3, ExceptionMasks
<1>4. CASE /\ getPendingAndEnabledInterrupts = {}
           /\ UNCHANGED <<modeVars, mstatus, intVars, delegVars, VM, debugVars,
                          run, stepTimer>>
  BY <1>4, EnabledShrinks DEF modeVars, intVars, delegVars, debugVars
<1> QED BY <1>1, <1>2, <1>3, <1>4 DEF riscvIFetchExcept

-----------------------------------------------------------------------------
(* No interrupt is lost.  A step either tests for interrupts, or leaves    *)
(* none enabled, or enables none and keeps a scheduled fetch check.        *)

LEMMA TestSchedules ==
  ASSUME riscvTestInterrupt
  PROVE  NoLostInterrupt'
BY Zenon DEF riscvTestInterrupt, NoLostInterrupt

LEMMA ShrinkKeeps ==
  ASSUME NoLostInterrupt, syncReq => syncReq',
         getPendingAndEnabledInterrupts' \subseteq getPendingAndEnabledInterrupts
  PROVE  NoLostInterrupt'
BY DEF NoLostInterrupt

LEMMA NoneKeeps ==
  ASSUME getPendingAndEnabledInterrupts' = {}
  PROVE  NoLostInterrupt'
BY DEF NoLostInterrupt

LEMMA LeaveDMSchedules ==
  ASSUME leaveDM
  PROVE  NoLostInterrupt'
BY Zenon DEF leaveDM, NoLostInterrupt

LEMMA InstructionKeepsInterrupts ==
  ASSUME TypeOK, NoLostInterrupt, Instruction
  PROVE  NoLostInterrupt'
<1>1. ASSUME NEW e, riscvTakeException(getExceptionModeX(e)), UNCHANGED syncReq
      PROVE  NoLostInterrupt'
  BY <1>1, ExceptionMasks, ShrinkKeeps
<1>2. ASSUME NEW st, NEW newMode, ERET(st, newMode)
      PROVE  NoLostInterrupt'
  <2>1. CASE UNCHANGED vars
    BY <2>1, EnabledShrinks, ShrinkKeeps DEF vars, modeVars, intVars, delegVars, debugVars
  <2>2. CASE riscvTestInterrupt
    BY <2>2, TestSchedules
  <2> QED BY <1>2, <2>1, <2>2 DEF ERET, doERETCommon
<1>3. ASSUME NEW e \in Exceptions, Except(e) PROVE NoLostInterrupt'
  BY <1>1, <1>3 DEF Except
<1>4. CASE riscvECALL
  BY <1>1, <1>4 DEF riscvECALL
<1>5. CASE riscvEBREAK
  BY <1>1, <1>5, NoneEnabledInDM, NoneKeeps DEF riscvEBREAK
<1>6. CASE riscvMRET
  BY <1>2, <1>6 DEF riscvMRET
<1>7. CASE riscvSRET
  BY <1>2, <1>7 DEF riscvSRET
<1>8. CASE riscvURET
  BY <1>2, <1>8 DEF riscvURET
<1>9. CASE riscvDRET
  BY <1>1, <1>9, LeaveDMSchedules DEF riscvDRET
<1>10. CASE riscvWFI
  BY <1>10, EnabledShrinks, ShrinkKeeps
     DEF riscvWFI, modeVars, intVars, delegVars, debugVars
<1> QED BY <1>3, <1>4, <1>5, <1>6, <1>7, <1>8, <1>9, <1>10 DEF Instruction

LEMMA CSRWriteKeepsInterrupts ==
  ASSUME TypeOK, NoLostInterrupt, CSRWrite
  PROVE  NoLostInterrupt'
<1>1. ASSUME NEW reg, NEW lvl, statusW(reg, lvl) PROVE NoLostInterrupt'
  <2>1. CASE riscvTestInterrupt
    BY <2>1, TestSchedules
  <2>2. CASE mstatus'.IE \ mstatus.IE = {} /\ UNCHANGED <<run, syncReq>>
    BY <1>1, <2>2, EnabledShrinks, ShrinkKeeps
       DEF statusW, intVars, delegVars, debugVars
  <2> QED BY <1>1, <2>1, <2>2 DEF statusW
<1>2. ASSUME NEW reg, NEW lvl, NEW rMask, ieW(reg, lvl, rMask) PROVE NoLostInterrupt'
  <2>1. CASE riscvTestInterrupt
    BY <2>1, TestSchedules
  <2>2. CASE mie' = mie /\ UNCHANGED <<run, syncReq>>
    BY <1>2, <2>2, EnabledShrinks, ShrinkKeeps DEF ieW, modeVars, delegVars, debugVars
  <2> QED BY <1>2, <2>1, <2>2 DEF ieW
<1>3. ASSUME NEW reg, NEW lvl, NEW rMask, ipW(reg, lvl, rMask) PROVE NoLostInterrupt'
  <2>1. CASE riscvTestInterrupt
    BY <2>1, TestSchedules
  <2>2. CASE mip' = mip /\ UNCHANGED <<run, syncReq>>
    BY <1>3, <2>2, EnabledShrinks, ShrinkKeeps DEF ipW, modeVars, delegVars, debugVars
  <2> QED BY <1>3, <2>1, <2>2 DEF ipW, riscvUpdatePending
<1>4. CASE mstatusW \/ sstatusW \/ ustatusW
  BY <1>1, <1>4 DEF mstatusW, sstatusW, ustatusW
<1>5. CASE mieW \/ sieW \/ uieW
  BY <1>2, <1>5 DEF mieW, sieW, uieW
<1>6. CASE mipW \/ sipW \/ uipW
  BY <1>3, <1>6 DEF mipW, sipW, uipW
<1>7. CASE midelegW
  <2>1. CASE riscvTestInterrupt
    BY <2>1, TestSchedules
  <2>2. CASE mideleg' = mideleg /\ UNCHANGED <<run, syncReq>>
    BY <1>7, <2>2, EnabledShrinks, ShrinkKeeps DEF midelegW, modeVars, intVars, debugVars
  <2> QED BY <1>7, <2>1, <2>2 DEF midelegW
<1>8. CASE sidelegW
  <2>1. CASE riscvTestInterrupt
    BY <2>1, TestSchedules
  <2>2. CASE sideleg' = sideleg /\ UNCHANGED <<run, syncReq>>
    BY <1>8, <2>2, EnabledShrinks, ShrinkKeeps DEF sidelegW, modeVars, intVars, debugVars
  <2> QED BY <1>8, <2>1, <2>2 DEF sidelegW
<1>9. CASE medelegW \/ sedelegW
  BY <1>9, EnabledShrinks, ShrinkKeeps
     DEF medelegW, sedelegW, modeVars, intVars, debugVars
<1>10. CASE satpW
  BY <1>10, EnabledShrinks, ShrinkKeeps
     DEF satpW, riscvSetMode, SwitchMode, intVars, delegVars, debugVars
<1>11. CASE dcsrW
  BY <1>11, EnabledShrinks, ShrinkKeeps DEF dcsrW, modeVars, intVars, delegVars
<1> QED BY <1>4, <1>5, <1>6, <1>7, <1>8, <1>9, <1>10, <1>11 DEF CSRWrite

(* A jump to Machine mode with the IE bits as they are enables nothing. *)
LEMMA MachineModeShrinks ==
  ASSUME TypeOK, mode' = M,
         UNCHANGED <<mie, mip, mideleg, sideleg, DM, mstatus>>
  PROVE  getPendingAndEnabledInterrupts' \subseteq getPendingAndEnabledInterrupts
<1>1. \A x \in PrivModes : getIE(mode', mstatus'.IE, x) => getIE(mode, mstatus.IE, x)
  BY DEF getIE, PrivModes, TypeOK
<1>2. \A i : DelegatedMode(i, mideleg, sideleg) \in PrivModes
  BY DEF DelegatedMode, PrivModes
<1>3. \A i : DelegatedMode(i, mideleg, sideleg)' = DelegatedMode(i, mideleg, sideleg)
  BY DEF DelegatedMode
<1> QED BY <1>1, <1>2, <1>3
        DEF getPendingAndEnabledInterrupts, PendingAndEnabledIn, getPendingInterrupts

(* After reset every interrupt is masked. *)
LEMMA ResetMasksAll ==
  ASSUME riscvReset
  PROVE  getPendingAndEnabledInterrupts' = {}
<1>1. mode' = M /\ mstatus'.IE = {}
  BY DEF riscvReset
<1>2. \A x \in PrivModes : ~getIE(mode', mstatus'.IE, x)
  BY <1>1 DEF getIE, PrivModes
<1>3. \A i : DelegatedMode(i, mideleg, sideleg)' \in PrivModes
  BY DEF DelegatedMode, PrivModes
<1> QED BY <1>2, <1>3 DEF getPendingAndEnabledInterrupts, PendingAndEnabledIn

LEMMA NetChangeKeepsInterrupts ==
  ASSUME TypeOK, NoLostInterrupt, NetChange
  PROVE  NoLostInterrupt'
<1>1. PICK v \in BOOLEAN :
        \/ \E i \in Interrupts : interruptPortCB(i, v)
        \/ resetPortCB(v) \/ nmiPortCB(v) \/ haltreqPortCB(v) \/ resethaltreqPortCB(v)
  BY DEF NetChange
<1>2. ASSUME NEW i \in Interrupts, interruptPortCB(i, v) PROVE NoLostInterrupt'
  <2>1. CASE riscvTestInterrupt
    BY <2>1, TestSchedules
  <2>2. CASE mip' = mip /\ UNCHANGED <<run, syncReq>>
    BY <1>2, <2>2, EnabledShrinks, ShrinkKeeps
       DEF interruptPortCB, modeVars, delegVars, debugVars
  <2> QED BY <1>2, <2>1, <2>2 DEF interruptPortCB, riscvUpdatePending
<1>3. CASE resetPortCB(v)
  <2>1. CASE riscvReset
    BY <2>1, ResetMasksAll, NoneKeeps
  <2>2. CASE ~riscvReset
    BY <1>3, <2>2, EnabledShrinks, ShrinkKeeps
       DEF resetPortCB, modeVars, intVars, delegVars, debugVars
  <2> QED BY <2>1, <2>2
<1>4. CASE nmiPortCB(v)
  <2>1. UNCHANGED <<mstatus, intVars, delegVars, VM, DM, DMStall, syncReq>>
    BY <1>4 DEF nmiPortCB
  <2>2. CASE doNMI
    BY <2>1, <2>2, MachineModeShrinks, ShrinkKeeps
       DEF doNMI, riscvSetMode, SwitchMode, intVars, delegVars
  <2>3. CASE UNCHANGED modeVars
    BY <2>1, <2>3, EnabledShrinks, ShrinkKeeps DEF modeVars, intVars, delegVars
  <2> QED BY <1>4, <2>2, <2>3 DEF nmiPortCB
<1>5. CASE haltreqPortCB(v) \/ resethaltreqPortCB(v)
  <2>1. UNCHANGED <<modeVars, mstatus, intVars, delegVars, debugVars>>
    BY <1>5 DEF haltreqPortCB, resethaltreqPortCB
  <2>2. syncReq => syncReq'
    BY <1>5, Zenon DEF haltreqPortCB, resethaltreqPortCB
  <2> QED BY <2>1, <2>2, EnabledShrinks, ShrinkKeeps
          DEF modeVars, intVars, delegVars, debugVars
<1> QED BY <1>1, <1>2, <1>3, <1>4, <1>5

(* No interrupt is lost: riscvTestInterrupt is called on every path by     *)
(* which an interrupt can become pending and enabled (port callbacks, CSR  *)
(* writes, returns, leaving Debug mode), and traps, NMI, reset and Debug   *)
(* entry, which do not call it, enable nothing.                            *)
THEOREM InterruptsNotLost == Spec => []NoLostInterrupt
<1>1. Init => NoLostInterrupt
  BY DEF Init, NoLostInterrupt, getPendingAndEnabledInterrupts, PendingAndEnabledIn,
         getPendingInterrupts
<1>2. TypeOK /\ NoLostInterrupt /\ [Next]_vars => NoLostInterrupt'
  <2> SUFFICES ASSUME TypeOK, NoLostInterrupt, [Next]_vars PROVE NoLostInterrupt'
    OBVIOUS
  <2>1. CASE riscvIFetchExcept
    BY <2>1, FetchMasksAll, NoneKeeps
  <2>2. CASE riscvStepExcept
    <3>1. CASE enterDM("STEP")
      BY <3>1, NoneEnabledInDM, NoneKeeps
    <3>2. CASE UNCHANGED <<modeVars, mstatus, intVars, delegVars, VM, debugVars, run>>
      BY <2>2, <3>2, EnabledShrinks, ShrinkKeeps
         DEF riscvStepExcept, modeVars, intVars, delegVars, debugVars
    <3> QED BY <2>2, <3>1, <3>2 DEF riscvStepExcept
  <2>3. CASE Debugger
    <3>1. ASSUME NEW v \in BOOLEAN, riscvSetDM(v) PROVE NoLostInterrupt'
      BY <3>1, LeaveDMSchedules, NoneEnabledInDM, NoneKeeps DEF riscvSetDM
    <3>2. ASSUME NEW v \in BOOLEAN, riscvSetDMStall(v) PROVE NoLostInterrupt'
      BY <3>2, EnabledShrinks, ShrinkKeeps DEF riscvSetDMStall, modeVars, intVars, delegVars
    <3> QED BY <2>3, <3>1, <3>2 DEF Debugger
  <2>4. CASE UNCHANGED vars
    BY <2>4, EnabledShrinks, ShrinkKeeps DEF vars, modeVars, intVars, delegVars, debugVars
  <2> QED BY <2>1, <2>2, <2>3, <2>4, InstructionKeepsInterrupts, CSRWriteKeepsInterrupts,
             NetChangeKeepsInterrupts DEF Next
<1> QED BY <1>1, <1>2, TypeCorrect, PTL DEF Spec

(* The fetch check leaves nothing pending and enabled, because doInterrupt *)
(* selects an interrupt of the highest target mode.                        *)
THEOREM FetchMasksOthers == Spec => TrapMasksOthers
<1>1. TypeOK /\ [Next]_vars
        => [riscvIFetchExcept => getPendingAndEnabledInterrupts' = {}]_vars
  BY FetchMasksAll
<1> QED BY <1>1, TypeCorrect, PTL DEF Spec, TrapMasksOthers

(* mip is never stale: interruptPortCB and the writes of mip, sip and uip  *)
(* recompute it from the port and software bits they have just set.        *)
THEOREM PendingExact == Spec => []PendingComposed
<1>1. Init => PendingComposed
  BY DEF Init, PendingComposed
<1>2. PendingComposed /\ [Next]_vars => PendingComposed'
  <2> SUFFICES ASSUME PendingComposed, [Next]_vars PROVE PendingComposed'
    OBVIOUS
  <2>0. CASE UNCHANGED <<mip, ip, swip>>
    BY <2>0 DEF PendingComposed
  <2>1. CASE UNCHANGED intVars
    BY <2>0, <2>1 DEF intVars
  <2>2. CASE \/ riscvIFetchExcept \/ riscvStepExcept \/ Debugger
             \/ Instruction /\ ~(riscvMRET \/ riscvSRET \/ riscvURET)
    BY <2>1, <2>2, Zenon DEF riscvIFetchExcept, riscvStepExcept, Instruction, Except, riscvECALL,
       riscvEBREAK, riscvDRET, riscvWFI, riscvTakeException, enterDM, leaveDM, Debugger,
       riscvSetDM, riscvSetDMStall
  <2>3. CASE riscvMRET \/ riscvSRET \/ riscvURET
    BY <2>1, <2>3 DEF riscvMRET, riscvSRET, riscvURET, ERET, vars
  <2>4. CASE CSRWrite
    <3>1. CASE mstatusW \/ sstatusW \/ ustatusW \/ satpW \/ dcsrW
      BY <2>1, <3>1, Zenon DEF mstatusW, sstatusW, ustatusW, statusW, satpW, dcsrW
    <3>2. CASE mieW \/ sieW \/ uieW
      BY <2>0, <3>2 DEF mieW, sieW, uieW, ieW
    <3>3. CASE mipW \/ sipW \/ uipW
      BY <2>0, <3>3 DEF mipW, sipW, uipW, ipW, riscvUpdatePending, PendingComposed
    <3>4. CASE midelegW \/ sidelegW \/ medelegW \/ sedelegW
      BY <2>1, <3>4 DEF midelegW, sidelegW, medelegW, sedelegW
    <3> QED BY <2>4, <3>1, <3>2, <3>3, <3>4 DEF CSRWrite
  <2>5. CASE NetChange
    <3>1. CASE \E v \in BOOLEAN, i \in Interrupts : interruptPortCB(i, v)
      BY <3>1 DEF interruptPortCB, riscvUpdatePending, PendingComposed
    <3>2. CASE \E v \in BOOLEAN : \/ resetPortCB(v) \/ nmiPortCB(v)
                                 \/ haltreqPortCB(v) \/ resethaltreqPortCB(v)
      BY <2>1, <3>2, Zenon DEF resetPortCB, riscvReset, nmiPortCB, haltreqPortCB, resethaltreqPortCB
    <3> QED BY <2>5, <3>1, <3>2 DEF NetChange
  <2>6. CASE UNCHANGED vars
    BY <2>1, <2>6 DEF vars
  <2> QED BY <2>2, <2>3, <2>4, <2>5, <2>6 DEF Next
<1> QED BY <1>1, <1>2, PTL DEF Spec

-----------------------------------------------------------------------------
(* Privilege                                                               *)

(* Without Supervisor mode nothing is delegated to it: either everything   *)
(* that M delegates goes on to U, or M delegates nothing.                  *)
DelegationImplemented ==
  S \notin Modes =>
    IF ISA_N THEN sideleg = 0..31 /\ sedeleg = 0..31
             ELSE mideleg = {} /\ medeleg = {}

LEMMA DelegationInvariant == Spec => []DelegationImplemented
<1>1. Init => DelegationImplemented
  BY DEF Init, DelegationImplemented
<1>2. DelegationImplemented /\ [Next]_vars => DelegationImplemented'
  <2> SUFFICES ASSUME DelegationImplemented, [Next]_vars PROVE DelegationImplemented'
    OBVIOUS
  <2>1. CASE UNCHANGED delegVars
    BY <2>1 DEF delegVars, DelegationImplemented
  <2>2. CASE \/ riscvIFetchExcept \/ riscvStepExcept \/ Debugger
             \/ Instruction /\ ~(riscvMRET \/ riscvSRET \/ riscvURET)
    BY <2>1, <2>2, Zenon DEF riscvIFetchExcept, riscvStepExcept, Instruction, Except, riscvECALL,
       riscvEBREAK, riscvDRET, riscvWFI, riscvTakeException, enterDM, leaveDM, Debugger,
       riscvSetDM, riscvSetDMStall
  <2>3. CASE riscvMRET \/ riscvSRET \/ riscvURET
    BY <2>1, <2>3 DEF riscvMRET, riscvSRET, riscvURET, ERET, vars
  <2>4. CASE CSRWrite
    <3>1. CASE mstatusW \/ sstatusW \/ ustatusW \/ satpW \/ dcsrW
      BY <2>1, <3>1, Zenon DEF mstatusW, sstatusW, ustatusW, statusW, satpW, dcsrW
    <3>2. CASE mieW \/ sieW \/ uieW \/ mipW \/ sipW \/ uipW
      BY <2>1, <3>2 DEF mieW, sieW, uieW, ieW, mipW, sipW, uipW, ipW
    <3>3. CASE midelegW \/ sidelegW \/ medelegW \/ sedelegW
      BY <3>3 DEF midelegW, sidelegW, medelegW, sedelegW, DelegationImplemented
    <3> QED BY <2>4, <3>1, <3>2, <3>3 DEF CSRWrite
  <2>5. CASE NetChange
    BY <2>1, <2>5, Zenon DEF NetChange, interruptPortCB, resetPortCB, riscvReset, nmiPortCB,
       haltreqPortCB, resethaltreqPortCB
  <2>6. CASE UNCHANGED vars
    BY <2>1, <2>6 DEF vars
  <2> QED BY <2>2, <2>3, <2>4, <2>5, <2>6 DEF Next
<1> QED BY <1>1, <1>2, PTL DEF Spec

(* A trap goes to an implemented mode that is no less privileged. *)
Raises == mode' \in mode..3 /\ (mode \in Modes => mode' \in Modes)

LEMMA TargetImplemented ==
  ASSUME mode \in 0..3, NEW e \in 0..31, NEW mMask, NEW sMask,
         S \notin Modes => IF ISA_N THEN sMask = 0..31 ELSE mMask = {}
  PROVE  /\ getModeX(e, mMask, sMask) \in mode..3
         /\ mode \in Modes => getModeX(e, mMask, sMask) \in Modes
<1>1. CASE S \in Modes
  BY <1>1, ConfigAssumption DEF getModeX, DelegatedMode
<1>2. CASE S \notin Modes
  <2>1. DelegatedMode(e, mMask, sMask) \in {M, U}
    BY <1>2 DEF DelegatedMode
  <2> QED BY <1>2, <2>1, ConfigAssumption DEF getModeX
<1> QED BY <1>1, <1>2

LEMMA EnterRaises ==
  ASSUME TypeOK, NEW cause, enterDM(cause)
  PROVE  Raises
BY ConfigAssumption DEF enterDM, SwitchMode, modeVars, Raises, TypeOK

LEMMA TrapRaises ==
  ASSUME TypeOK, DelegationImplemented
  PROVE  /\ \A e \in 0..31 : riscvTakeException(getExceptionModeX(e)) => Raises
         /\ \A i \in 0..31 : riscvTakeException(getInterruptModeX(i)) => Raises
<1>1. ASSUME NEW modeX \in mode..3, mode \in Modes => modeX \in Modes,
             riscvTakeException(modeX)
      PROVE  Raises
  BY <1>1, EnterRaises DEF riscvTakeException, riscvSetMode, SwitchMode, Raises
<1>2. ASSUME NEW e \in 0..31, riscvTakeException(getExceptionModeX(e)) PROVE Raises
  BY <1>1, <1>2, TargetImplemented DEF getExceptionModeX, DelegationImplemented, TypeOK
<1>3. ASSUME NEW i \in 0..31, riscvTakeException(getInterruptModeX(i)) PROVE Raises
  BY <1>1, <1>3, TargetImplemented DEF getInterruptModeX, DelegationImplemented, TypeOK
<1> QED BY <1>2, <1>3

LEMMA NextPrivilege ==
  ASSUME TypeOK, DelegationImplemented, [Next]_vars
  PROVE  /\ ~DM /\ mode' < mode => riscvMRET \/ riscvSRET \/ riscvURET
         /\ mode' \notin Modes /\ mode \in Modes => (DM /\ ~DM')
<1> DEFINE Goal == /\ ~DM /\ mode' < mode => riscvMRET \/ riscvSRET \/ riscvURET
                   /\ mode' \notin Modes /\ mode \in Modes => (DM /\ ~DM')
<1> SUFFICES Goal
  OBVIOUS
<1>0. mode \in 0..3 /\ DM \in BOOLEAN
  BY DEF TypeOK
<1>1. CASE mode' = mode
  BY <1>0, <1>1
<1>2. CASE UNCHANGED modeVars
  BY <1>1, <1>2 DEF modeVars
<1>3. ASSUME Raises PROVE Goal
  <2>1. CASE mode' \in Modes
    BY <1>0, <1>3, <2>1, ConfigAssumption DEF Raises
  <2>2. CASE mode' \notin Modes
    BY <1>3, <2>2, <1>0 DEF Raises
  <2> QED BY <2>1, <2>2
<1>4. CASE leaveDM /\ DM
  BY <1>4 DEF leaveDM
<1>5. CASE mode' = M
  BY <1>0, <1>5, ConfigAssumption
<1> HIDE DEF Goal
<1>6. CASE riscvIFetchExcept
  <2>1. \A i \in getPendingAndEnabledInterrupts : i \in 0..31
    BY ConfigAssumption DEF getPendingAndEnabledInterrupts, PendingAndEnabledIn,
       getPendingInterrupts, TypeOK
  <2>2. \A e \in Exceptions : e \in 0..31
    BY ConfigAssumption
  <2>3. CASE enterDM("RESETHALTREQ") \/ enterDM("HALTREQ")
    BY <1>3, <2>3, EnterRaises
  <2>4. CASE \E i \in getPendingAndEnabledInterrupts : riscvTakeException(getInterruptModeX(i))
    BY <1>3, <2>1, <2>4, TrapRaises
  <2>5. CASE \E e \in Exceptions : riscvTakeException(getExceptionModeX(e))
    BY <1>3, <2>2, <2>5, TrapRaises
  <2> QED BY <1>2, <1>6, <2>3, <2>4, <2>5 DEF riscvIFetchExcept
<1>7. CASE riscvStepExcept
  BY <1>2, <1>3, <1>7, EnterRaises DEF riscvStepExcept
<1>8. CASE Instruction
  <2>1. \A e \in Exceptions : e \in 0..31
    BY ConfigAssumption
  <2>2. 2 \in 0..31 /\ 3 \in 0..31 /\ 8 + mode \in 0..31
    BY <1>0
  <2>3. CASE \E e \in Exceptions : Except(e)
    BY <1>3, <2>1, <2>3, TrapRaises DEF Except
  <2>4. CASE riscvECALL
    BY <1>3, <2>2, <2>4, TrapRaises DEF riscvECALL
  <2>5. CASE riscvEBREAK
    BY <1>3, <2>2, <2>5, TrapRaises, EnterRaises DEF riscvEBREAK
  <2>6. CASE riscvDRET
    BY <1>3, <1>4, <2>2, <2>6, TrapRaises DEF riscvDRET
  <2>7. CASE riscvWFI
    BY <1>2, <2>7 DEF riscvWFI
  <2>8. CASE riscvMRET \/ riscvSRET \/ riscvURET
    <3>1. ASSUME NEW st, NEW newMode \in Modes, ERET(st, newMode) PROVE mode' = mode \/ mode' \in Modes
      BY <3>1 DEF ERET, doERETCommon, riscvSetMode, SwitchMode, vars, modeVars
    <3>2. mode' = mode \/ mode' \in Modes
      BY <2>8, <3>1, ERETModeType DEF riscvMRET, riscvSRET, riscvURET, TypeOK, StatusType
    <3> QED BY <2>8, <3>2, <1>1 DEF Goal
  <2> QED BY <1>8, <2>3, <2>4, <2>5, <2>6, <2>7, <2>8 DEF Instruction
<1>9. CASE CSRWrite
  <2>1. CASE mstatusW \/ sstatusW \/ ustatusW \/ satpW \/ dcsrW
    BY <1>1, <1>2, <2>1, Zenon DEF mstatusW, sstatusW, ustatusW, statusW, satpW, dcsrW, riscvSetMode, SwitchMode
  <2>2. CASE mieW \/ sieW \/ uieW \/ mipW \/ sipW \/ uipW
    BY <1>2, <2>2 DEF mieW, sieW, uieW, ieW, mipW, sipW, uipW, ipW
  <2>3. CASE midelegW \/ sidelegW \/ medelegW \/ sedelegW
    BY <1>2, <2>3 DEF midelegW, sidelegW, medelegW, sedelegW
  <2> QED BY <1>9, <2>1, <2>2, <2>3, SMTT(30) DEF CSRWrite
<1>10. CASE NetChange
  BY <1>2, <1>5, <1>10, Zenon DEF NetChange, interruptPortCB, resetPortCB, riscvReset, nmiPortCB, doNMI,
     riscvSetMode, SwitchMode, haltreqPortCB, resethaltreqPortCB
<1>11. CASE Debugger
  BY <1>0, <1>2, <1>3, <1>4, <1>11, EnterRaises DEF Debugger, riscvSetDM, riscvSetDMStall
<1>12. CASE UNCHANGED vars
  BY <1>2, <1>12 DEF vars
<1> QED BY <1>6, <1>7, <1>8, <1>9, <1>10, <1>11, <1>12 DEF Next

(* Privilege drops only at returns, and a trap or a return never leads to  *)
(* a mode that is not implemented, for every delegation; a resume from     *)
(* Debug mode may.                                                         *)
THEOREM PrivilegeKept == Spec => PrivilegeGuarded
<1>1. TypeOK /\ DelegationImplemented /\ [Next]_vars
        => [/\ ~DM /\ mode' < mode => riscvMRET \/ riscvSRET \/ riscvURET
            /\ mode' \notin Modes /\ mode \in Modes => (DM /\ ~DM')]_vars
  BY NextPrivilege
<1> QED BY <1>1, TypeCorrect, DelegationInvariant, PTL DEF Spec, PrivilegeGuarded

-----------------------------------------------------------------------------
(* How a step can change the run state, and what changes with it. *)

QuietStep == UNCHANGED <<run, mie, mip, DMStall>>
TestStep == riscvTestInterrupt /\ UNCHANGED DMStall
ResetHaltStep == run' = haltProcessor(run, "RESET") /\ UNCHANGED <<mie, mip, DMStall>>
NMIStep == run' = restartProcessor(run, RVD_RESTART_NMI) /\ UNCHANGED <<mie, mip, DMStall>>

RunStep ==
  \/ QuietStep
  \/ TestStep
  \/ riscvWFI
  \/ ResetHaltStep
  \/ NMIStep
  \/ \E cause : enterDM(cause)
  \/ leaveDM
  \/ riscvReset
  \/ \E v \in BOOLEAN : riscvSetDMStall(v)

LEMMA ExceptionRunStep ==
  ASSUME NEW modeX, riscvTakeException(modeX)
  PROVE  RunStep
<1>1. CASE DM
  BY <1>1 DEF riscvTakeException, RunStep
<1>2. CASE ~DM
  BY <1>2 DEF riscvTakeException, RunStep, QuietStep, intVars, debugVars
<1> QED BY <1>1, <1>2

LEMMA FetchRunStep ==
  ASSUME riscvIFetchExcept
  PROVE  RunStep
<1>1. CASE enterDM("RESETHALTREQ") \/ enterDM("HALTREQ")
  BY <1>1 DEF RunStep
<1>2. CASE \E modeX : riscvTakeException(modeX)
  BY <1>2, ExceptionRunStep
<1>3. CASE UNCHANGED <<modeVars, mstatus, intVars, delegVars, VM, debugVars, run, stepTimer>>
  BY <1>3 DEF RunStep, QuietStep, intVars, debugVars
<1> QED BY <1>1, <1>2, <1>3 DEF riscvIFetchExcept

LEMMA InstructionRunStep ==
  ASSUME Instruction
  PROVE  RunStep
<1>1. ASSUME NEW st, NEW newMode, ERET(st, newMode) PROVE RunStep
  <2>1. CASE UNCHANGED vars
    BY <2>1 DEF RunStep, QuietStep, vars, intVars, debugVars
  <2>2. CASE riscvTestInterrupt /\ UNCHANGED debugVars
    BY <2>2 DEF RunStep, TestStep, debugVars
  <2> QED BY <1>1, <2>1, <2>2 DEF ERET, doERETCommon
<1>2. ASSUME NEW e \in Exceptions, Except(e) PROVE RunStep
  BY <1>2, ExceptionRunStep DEF Except
<1>3. CASE riscvECALL
  BY <1>3, ExceptionRunStep DEF riscvECALL
<1>4. CASE riscvEBREAK
  <2>1. CASE enterDM("EBREAK")
    BY <2>1 DEF RunStep
  <2> QED BY <1>4, <2>1, ExceptionRunStep DEF riscvEBREAK
<1>5. CASE riscvMRET \/ riscvSRET \/ riscvURET
  BY <1>1, <1>5 DEF riscvMRET, riscvSRET, riscvURET
<1>6. CASE riscvDRET
  <2>1. CASE leaveDM
    BY <2>1 DEF RunStep
  <2> QED BY <1>6, <2>1, ExceptionRunStep DEF riscvDRET
<1>7. CASE riscvWFI
  BY <1>7 DEF RunStep
<1> QED BY <1>2, <1>3, <1>4, <1>5, <1>6, <1>7 DEF Instruction

LEMMA CSRWriteRunStep ==
  ASSUME CSRWrite
  PROVE  RunStep
<1> SUFFICES QuietStep \/ TestStep
  BY DEF RunStep
<1>1. CASE mstatusW \/ sstatusW \/ ustatusW
  BY <1>1 DEF mstatusW, sstatusW, ustatusW, statusW, QuietStep, TestStep, intVars, debugVars
<1>2. CASE mieW \/ sieW \/ uieW
  BY <1>2 DEF mieW, sieW, uieW, ieW, QuietStep, TestStep, debugVars
<1>3. CASE mipW \/ sipW \/ uipW
  BY <1>3 DEF mipW, sipW, uipW, ipW, riscvUpdatePending, QuietStep, TestStep, debugVars
<1>4. CASE midelegW \/ sidelegW \/ medelegW \/ sedelegW
  BY <1>4, SMTT(30) DEF midelegW, sidelegW, medelegW, sedelegW, QuietStep, TestStep, intVars, debugVars
<1>5. CASE satpW \/ dcsrW
  BY <1>5, Zenon DEF satpW, dcsrW, QuietStep, intVars, debugVars
<1> QED BY <1>1, <1>2, <1>3, <1>4, <1>5 DEF CSRWrite

LEMMA NetChangeRunStep ==
  ASSUME NetChange
  PROVE  RunStep
<1>1. PICK v \in BOOLEAN :
        \/ \E i \in Interrupts : interruptPortCB(i, v)
        \/ resetPortCB(v) \/ nmiPortCB(v) \/ haltreqPortCB(v) \/ resethaltreqPortCB(v)
  BY DEF NetChange
<1>2. ASSUME NEW i \in Interrupts, interruptPortCB(i, v) PROVE QuietStep \/ TestStep
  BY <1>2 DEF interruptPortCB, riscvUpdatePending, QuietStep, TestStep, debugVars
<1>3. CASE resetPortCB(v)
  BY <1>3 DEF resetPortCB, RunStep, ResetHaltStep, intVars, debugVars
<1>4. CASE nmiPortCB(v)
  BY <1>4 DEF nmiPortCB, doNMI, RunStep, QuietStep, NMIStep, intVars
<1>5. CASE haltreqPortCB(v) \/ resethaltreqPortCB(v)
  BY <1>5 DEF haltreqPortCB, resethaltreqPortCB, RunStep, QuietStep, intVars, debugVars
<1> QED BY <1>1, <1>2, <1>3, <1>4, <1>5 DEF RunStep

LEMMA NextRunStep ==
  ASSUME [Next]_vars
  PROVE  RunStep
<1>1. CASE riscvStepExcept
  <2>1. CASE enterDM("STEP")
    BY <2>1 DEF RunStep
  <2>2. CASE UNCHANGED <<modeVars, mstatus, intVars, delegVars, VM, debugVars, run>>
    BY <2>2 DEF RunStep, QuietStep, intVars, debugVars
  <2> QED BY <1>1, <2>1, <2>2 DEF riscvStepExcept
<1>2. CASE Debugger
  <2>1. CASE leaveDM \/ enterDM("HALTREQ")
    BY <2>1 DEF RunStep
  <2>2. CASE \E v \in BOOLEAN : riscvSetDMStall(v)
    BY <2>2 DEF RunStep
  <2> QED BY <1>2, <2>1, <2>2 DEF Debugger, riscvSetDM
<1>3. CASE UNCHANGED vars
  BY <1>3 DEF RunStep, QuietStep, vars, intVars, debugVars
<1> QED BY <1>1, <1>2, <1>3, FetchRunStep, InstructionRunStep, CSRWriteRunStep,
           NetChangeRunStep DEF Next

-----------------------------------------------------------------------------
(* Halting and restarting, one at a time and in the combinations that the  *)
(* handlers use.                                                           *)

Agrees(r) == r.halted <=> r.disable # {}

LEMMA AgreesOps ==
  ASSUME NEW r \in RunType, Agrees(r)
  PROVE  /\ \A reason : Agrees(haltProcessor(r, reason))
         /\ \A reasons : Agrees(restartProcessor(r, reasons))
         /\ \A stall \in BOOLEAN : Agrees(updateDMStall(r, stall))
<1>1. \A reason : Agrees(haltProcessor(r, reason))
  BY Zenon DEF Agrees, haltProcessor, RunType
<1>2. \A reasons : Agrees(restartProcessor(r, reasons))
  BY Zenon DEF Agrees, restartProcessor, RunType
<1>3. \A stall \in BOOLEAN : Agrees(updateDMStall(r, stall))
  BY <1>1, <1>2 DEF updateDMStall
<1> QED BY <1>1, <1>2, <1>3

(* The stages of riscvReset keep the run state well formed. *)
LEMMA ResetRun ==
  ASSUME TypeOK, riscvReset
  PROVE  \E r1, r2 \in RunType :
           /\ r1 = restartProcessor(run, RVD_RESTART_RESET)
           /\ r2 = r1 \/ r2 = restartProcessor(r1, RVD_RESTART_WFI)
           /\ run' = IF DM THEN updateDMStall(r2, FALSE) ELSE r1
<1> DEFINE r1 == restartProcessor(run, RVD_RESTART_RESET)
           r2 == IF getPendingInterrupts # {}
                 THEN restartProcessor(r1, RVD_RESTART_WFI) ELSE r1
<1>1. run' = IF DM THEN updateDMStall(r2, FALSE) ELSE r1
  BY DEF riscvReset
<1>2. r1 \in RunType
  BY RunOps DEF TypeOK
<1>3. r2 = r1 \/ r2 = restartProcessor(r1, RVD_RESTART_WFI)
  OBVIOUS
<1> HIDE DEF r2
<1>4. r2 \in RunType
  BY <1>2, <1>3, RunOps
<1> QED BY <1>1, <1>2, <1>3, <1>4, Zenon

(* vmirtHalt is called when the first disable reason is recorded and       *)
(* vmirtRestartNext when the last is removed, so the simulator and the     *)
(* disable field never disagree.                                           *)
THEOREM RunStateConsistent == Spec => []RunStateAgrees
<1>1. Init => RunStateAgrees
  BY DEF Init, RunStateAgrees
<1>2. TypeOK /\ RunStateAgrees /\ [Next]_vars => RunStateAgrees'
  <2> SUFFICES ASSUME TypeOK, RunStateAgrees, [Next]_vars PROVE Agrees(run')
    BY DEF RunStateAgrees, Agrees
  <2>0. run \in RunType /\ Agrees(run) /\ RunStep
    BY NextRunStep DEF TypeOK, RunStateAgrees, Agrees
  <2>1. CASE run' = run
    BY <2>0, <2>1
  <2>2. Agrees(WakeFromWFI(run)) /\ WakeFromWFI(run) \in RunType
    BY <2>0, AgreesOps, RunOps DEF WakeFromWFI
  <2>3. CASE TestStep
    BY <2>2, <2>3 DEF TestStep, riscvTestInterrupt
  <2>4. CASE riscvWFI \/ ResetHaltStep \/ NMIStep
    BY <2>0, <2>4, AgreesOps DEF riscvWFI, ResetHaltStep, NMIStep
  <2>5. CASE \E cause : enterDM(cause)
    BY <2>0, <2>5, AgreesOps, Zenon DEF enterDM
  <2>6. CASE leaveDM
    BY <2>2, <2>6, AgreesOps, Zenon DEF leaveDM
  <2>7. CASE riscvReset
    <3>1. PICK r1, r2 \in RunType :
            /\ r1 = restartProcessor(run, RVD_RESTART_RESET)
            /\ r2 = r1 \/ r2 = restartProcessor(r1, RVD_RESTART_WFI)
            /\ run' = IF DM THEN updateDMStall(r2, FALSE) ELSE r1
      BY <2>7, ResetRun, Zenon
    <3>2. Agrees(r1)
      BY <2>0, <3>1, AgreesOps
    <3>3. Agrees(r2)
      BY <3>1, <3>2, AgreesOps
    <3> QED BY <3>1, <3>2, <3>3, AgreesOps, Zenon
  <2>8. CASE \E v \in BOOLEAN : riscvSetDMStall(v)
    BY <2>0, <2>8, AgreesOps DEF riscvSetDMStall
  <2> QED BY <2>0, <2>1, <2>3, <2>4, <2>5, <2>6, <2>7, <2>8 DEF RunStep, QuietStep
<1> QED BY <1>1, <1>2, TypeCorrect, PTL DEF Spec

-----------------------------------------------------------------------------
(* Which reasons an operation on the run state can add or remove. *)

LEMMA ReasonOps ==
  ASSUME NEW r \in RunType
  PROVE  /\ \A reason, x : x \in haltProcessor(r, reason).disable
                             <=> x \in r.disable \/ x = reason
         /\ \A reasons, x : x \in restartProcessor(r, reasons).disable
                             <=> x \in r.disable /\ x \notin reasons
         /\ \A stall \in BOOLEAN : \A x : x # "DEBUG" =>
              (x \in updateDMStall(r, stall).disable <=> x \in r.disable)
         /\ debug_mode = "halt" => \A stall \in BOOLEAN :
              "DEBUG" \in updateDMStall(r, stall).disable <=> stall
<1>1. \A reason, x : x \in haltProcessor(r, reason).disable <=> x \in r.disable \/ x = reason
  BY DEF haltProcessor
<1>2. \A reasons, x : x \in restartProcessor(r, reasons).disable
                        <=> x \in r.disable /\ x \notin reasons
  BY DEF restartProcessor
<1>3. \A stall \in BOOLEAN : \A x : x # "DEBUG" =>
        (x \in updateDMStall(r, stall).disable <=> x \in r.disable)
  BY <1>1, <1>2 DEF updateDMStall
<1>4. debug_mode = "halt" => \A stall \in BOOLEAN :
        "DEBUG" \in updateDMStall(r, stall).disable <=> stall
  BY <1>1, <1>2 DEF updateDMStall
<1> QED BY <1>1, <1>2, <1>3, <1>4

LEMMA WakeOps ==
  ASSUME run \in RunType
  PROVE  /\ WakeFromWFI(run) \in RunType
         /\ \A x : x # "WFI" => (x \in WakeFromWFI(run).disable <=> x \in run.disable)
         /\ "WFI" \in WakeFromWFI(run).disable => getPendingInterrupts' = {}
BY RunOps, ReasonOps DEF WakeFromWFI, RVD_RESTART_WFI

(* A hart waits in WFI only while no enabled interrupt is pending: every   *)
(* change of mie or mip is followed by riscvTestInterrupt.                 *)
THEOREM SleepsOnlyWhenIdle == Spec => []WFIOnlyWhenIdle
<1>1. Init => WFIOnlyWhenIdle
  BY DEF Init, WFIOnlyWhenIdle
<1>2. TypeOK /\ WFIOnlyWhenIdle /\ [Next]_vars => WFIOnlyWhenIdle'
  <2> SUFFICES ASSUME TypeOK, WFIOnlyWhenIdle, [Next]_vars, "WFI" \in run'.disable
               PROVE  getPendingInterrupts' = {}
    BY DEF WFIOnlyWhenIdle
  <2>0. run \in RunType /\ RunStep
    BY NextRunStep DEF TypeOK
  <2>1. ASSUME UNCHANGED <<mie, mip>>, "WFI" \in run.disable
        PROVE  getPendingInterrupts' = {}
    BY <2>1 DEF WFIOnlyWhenIdle, getPendingInterrupts
  <2>2. CASE QuietStep
    BY <2>1, <2>2 DEF QuietStep
  <2>3. CASE TestStep
    <3>1. run' = WakeFromWFI(run)
      BY <2>3 DEF TestStep, riscvTestInterrupt
    <3> QED BY <2>0, <3>1, WakeOps, Zenon
  <2>4. CASE riscvWFI
    BY <2>4 DEF riscvWFI, intVars, getPendingInterrupts
  <2>5. CASE ResetHaltStep
    BY <2>0, <2>1, <2>5, ReasonOps DEF ResetHaltStep
  <2>6. CASE NMIStep
    BY <2>0, <2>6, ReasonOps DEF NMIStep, RVD_RESTART_NMI
  <2>7. CASE \E cause : enterDM(cause)
    <3>1. run' = updateDMStall(run, TRUE) /\ UNCHANGED <<mie, mip>>
      BY <2>7 DEF enterDM, intVars
    <3>2. "WFI" \in run.disable
      BY <2>0, <3>1, ReasonOps, Zenon
    <3> QED BY <2>1, <3>1, <3>2
  <2>8. CASE leaveDM
    <3>1. "WFI" \in WakeFromWFI(run).disable
      BY <2>0, <2>8, WakeOps, ReasonOps, Zenon DEF leaveDM
    <3> QED BY <2>0, <3>1, WakeOps, Zenon
  <2>9. CASE riscvReset
    <3>1. PICK r1, r2 \in RunType :
            /\ r1 = restartProcessor(run, RVD_RESTART_RESET)
            /\ r2 = r1 \/ r2 = restartProcessor(r1, RVD_RESTART_WFI)
            /\ run' = IF DM THEN updateDMStall(r2, FALSE) ELSE r1
      BY <2>9, ResetRun, Zenon
    <3>2. "WFI" \notin r1.disable
      BY <2>0, <3>1, ReasonOps DEF RVD_RESTART_RESET
    <3>3. "WFI" \notin r2.disable
      BY <3>1, <3>2, ReasonOps
    <3>4. "WFI" \notin updateDMStall(r2, FALSE).disable
      BY <3>3, ReasonOps, ZenonT(30)
    <3> QED BY <3>1, <3>2, <3>4, Zenon
  <2>10. CASE \E v \in BOOLEAN : riscvSetDMStall(v)
    BY <2>0, <2>1, <2>10, ReasonOps DEF riscvSetDMStall, intVars
  <2> QED BY <2>0, <2>2, <2>3, <2>4, <2>5, <2>6, <2>7, <2>8, <2>9, <2>10 DEF RunStep
<1> QED BY <1>1, <1>2, TypeCorrect, PTL DEF Spec

(* With debug_mode "halt", DMStall reads 1 exactly while Debug mode holds  *)
(* the hart, through nested entries, resumes, resets and direct writes.    *)
THEOREM StallRegisterExact == Spec => []DMStallHalts
<1>1. Init => DMStallHalts
  BY DEF Init, DMStallHalts
<1>2. TypeOK /\ DMStallHalts /\ [Next]_vars => DMStallHalts'
  <2> SUFFICES ASSUME TypeOK, DMStallHalts, [Next]_vars, debug_mode = "halt"
               PROVE  DMStall' <=> "DEBUG" \in run'.disable
    BY DEF DMStallHalts
  <2>0. run \in RunType /\ RunStep /\ (DMStall <=> "DEBUG" \in run.disable)
    BY NextRunStep DEF TypeOK, DMStallHalts
  <2>1. CASE QuietStep
    BY <2>0, <2>1 DEF QuietStep
  <2>2. CASE TestStep
    BY <2>0, <2>2, WakeOps DEF TestStep, riscvTestInterrupt
  <2>3. CASE riscvWFI
    BY <2>0, <2>3, ReasonOps DEF riscvWFI, debugVars
  <2>4. CASE ResetHaltStep
    BY <2>0, <2>4, ReasonOps, Zenon DEF ResetHaltStep
  <2>5. CASE NMIStep
    BY <2>0, <2>5, ReasonOps DEF NMIStep, RVD_RESTART_NMI
  <2>6. CASE \E cause : enterDM(cause)
    BY <2>0, <2>6, ReasonOps, Zenon DEF enterDM
  <2>7. CASE leaveDM
    BY <2>0, <2>7, WakeOps, ReasonOps, Zenon DEF leaveDM
  <2>8. CASE riscvReset
    <3>1. PICK r1, r2 \in RunType :
            /\ r1 = restartProcessor(run, RVD_RESTART_RESET)
            /\ r2 = r1 \/ r2 = restartProcessor(r1, RVD_RESTART_WFI)
            /\ run' = IF DM THEN updateDMStall(r2, FALSE) ELSE r1
      BY <2>8, ResetRun, Zenon
    <3>2. DMStall' = IF DM THEN FALSE ELSE DMStall
      BY <2>8 DEF riscvReset
    <3>3. "DEBUG" \in r1.disable <=> "DEBUG" \in run.disable
      BY <2>0, <3>1, ReasonOps DEF RVD_RESTART_RESET
    <3> QED BY <2>0, <3>1, <3>2, <3>3, ReasonOps, Zenon
  <2>9. CASE \E v \in BOOLEAN : riscvSetDMStall(v)
    BY <2>0, <2>9, ReasonOps DEF riscvSetDMStall
  <2> QED BY <2>0, <2>1, <2>2, <2>3, <2>4, <2>5, <2>6, <2>7, <2>8, <2>9 DEF RunStep
<1> QED BY <1>1, <1>2, TypeCorrect, PTL DEF Spec

-----------------------------------------------------------------------------
(* How a step can change the mode, the Debug mode state and the step timer. *)

SameMode == UNCHANGED <<mode, codeVM, VM, DM, dcsr, stepTimer>>
SwitchOutsideDM == DM' = FALSE /\ \E m : riscvSetMode(m)
EnterStep == /\ \E cause : enterDM(cause)
             /\ UNCHANGED stepTimer \/ riscvStepExcept
TimerStep == /\ DM \/ ~dcsr.step
             /\ UNCHANGED <<mode, codeVM, VM, DM, dcsr>>
DcsrStep == UNCHANGED <<mode, codeVM, VM, DM>> /\ riscvSetStepBreakpoint
NmipStep == /\ UNCHANGED <<mode, codeVM, VM, DM, stepTimer>>
            /\ dcsr'.step = dcsr.step

ModeStep == \/ SameMode \/ SwitchOutsideDM \/ EnterStep \/ TimerStep \/ DcsrStep
            \/ NmipStep \/ satpW \/ riscvReset

LEMMA ExceptionModeStep ==
  ASSUME DM \in BOOLEAN, NEW modeX, riscvTakeException(modeX)
  PROVE  SwitchOutsideDM \/ EnterStep
<1>1. CASE DM
  BY <1>1 DEF riscvTakeException, EnterStep
<1>2. CASE ~DM
  BY <1>2 DEF riscvTakeException, SwitchOutsideDM, debugVars
<1> QED BY <1>1, <1>2

LEMMA InstructionModeStep ==
  ASSUME DM \in BOOLEAN, Instruction
  PROVE  ModeStep
<1>1. ASSUME NEW st, NEW newMode, ERET(st, newMode) PROVE SameMode \/ SwitchOutsideDM
  BY <1>1 DEF ERET, doERETCommon, SameMode, SwitchOutsideDM, vars, modeVars, debugVars
<1>2. ASSUME NEW e \in Exceptions, Except(e) PROVE ModeStep
  BY <1>2, ExceptionModeStep DEF Except, ModeStep
<1>3. CASE riscvECALL
  BY <1>3, ExceptionModeStep DEF riscvECALL, ModeStep
<1>4. CASE riscvEBREAK
  <2>1. CASE enterDM("EBREAK") /\ UNCHANGED stepTimer
    BY <2>1 DEF EnterStep, ModeStep
  <2> QED BY <1>4, <2>1, ExceptionModeStep DEF riscvEBREAK, ModeStep
<1>5. CASE riscvMRET \/ riscvSRET \/ riscvURET
  BY <1>1, <1>5 DEF riscvMRET, riscvSRET, riscvURET, ModeStep
<1>6. CASE riscvDRET
  <2>1. CASE leaveDM
    BY <2>1 DEF leaveDM, SwitchOutsideDM, ModeStep
  <2> QED BY <1>6, <2>1, ExceptionModeStep DEF riscvDRET, ModeStep
<1>7. CASE riscvWFI
  BY <1>7 DEF riscvWFI, SameMode, ModeStep, modeVars, debugVars
<1> QED BY <1>2, <1>3, <1>4, <1>5, <1>6, <1>7 DEF Instruction

LEMMA CSRWriteModeStep ==
  ASSUME CSRWrite
  PROVE  ModeStep
<1>1. CASE mstatusW \/ sstatusW \/ ustatusW
  BY <1>1 DEF mstatusW, sstatusW, ustatusW, statusW, SameMode, ModeStep, debugVars
<1>2. CASE mieW \/ sieW \/ uieW
  BY <1>2 DEF mieW, sieW, uieW, ieW, SameMode, ModeStep, modeVars, debugVars
<1>3. CASE mipW \/ sipW \/ uipW
  BY <1>3 DEF mipW, sipW, uipW, ipW, SameMode, ModeStep, modeVars, debugVars
<1>4. CASE midelegW \/ sidelegW \/ medelegW \/ sedelegW
  BY <1>4 DEF midelegW, sidelegW, medelegW, sedelegW, SameMode, ModeStep, modeVars, debugVars
<1>5. CASE satpW
  BY <1>5 DEF ModeStep
<1>6. CASE dcsrW
  BY <1>6 DEF dcsrW, DcsrStep, ModeStep, modeVars
<1> QED BY <1>1, <1>2, <1>3, <1>4, <1>5, <1>6 DEF CSRWrite

LEMMA NetChangeModeStep ==
  ASSUME TypeOK, NetChange
  PROVE  ModeStep
<1>1. PICK v \in BOOLEAN :
        \/ \E i \in Interrupts : interruptPortCB(i, v)
        \/ resetPortCB(v) \/ nmiPortCB(v) \/ haltreqPortCB(v) \/ resethaltreqPortCB(v)
  BY DEF NetChange
<1>2. ASSUME NEW i \in Interrupts, interruptPortCB(i, v) PROVE SameMode
  BY <1>2 DEF interruptPortCB, SameMode, modeVars, debugVars
<1>3. CASE resetPortCB(v)
  BY <1>3 DEF resetPortCB, SameMode, ModeStep, modeVars, debugVars
<1>4. CASE nmiPortCB(v)
  <2>1. dcsr'.step = dcsr.step /\ UNCHANGED <<VM, DM>>
    BY <1>4 DEF nmiPortCB, TypeOK, DcsrType
  <2>2. CASE ~DM /\ doNMI
    BY <2>1, <2>2 DEF doNMI, SwitchOutsideDM, ModeStep, TypeOK
  <2>3. CASE UNCHANGED <<modeVars, run, stepTimer>>
    BY <2>1, <2>3 DEF NmipStep, ModeStep, modeVars
  <2> QED BY <1>4, <2>2, <2>3 DEF nmiPortCB
<1>5. CASE haltreqPortCB(v) \/ resethaltreqPortCB(v)
  BY <1>5 DEF haltreqPortCB, resethaltreqPortCB, SameMode, ModeStep, modeVars, debugVars
<1> QED BY <1>1, <1>2, <1>3, <1>4, <1>5 DEF ModeStep

LEMMA NextModeStep ==
  ASSUME TypeOK, [Next]_vars
  PROVE  ModeStep
<1>0. DM \in BOOLEAN
  BY DEF TypeOK
<1>1. CASE riscvIFetchExcept
  <2>1. CASE (enterDM("RESETHALTREQ") \/ enterDM("HALTREQ")) /\ UNCHANGED stepTimer
    BY <2>1 DEF EnterStep, ModeStep
  <2>2. CASE \E modeX : riscvTakeException(modeX)
    BY <1>0, <2>2, ExceptionModeStep DEF ModeStep
  <2>3. CASE UNCHANGED <<modeVars, mstatus, intVars, delegVars, VM, debugVars, run, stepTimer>>
    BY <2>3 DEF SameMode, ModeStep, modeVars, debugVars
  <2> QED BY <1>1, <2>1, <2>2, <2>3 DEF riscvIFetchExcept
<1>2. CASE riscvStepExcept
  BY <1>2, Zenon DEF riscvStepExcept, EnterStep, TimerStep, ModeStep, modeVars, debugVars
<1>3. CASE Debugger
  <2>1. CASE enterDM("HALTREQ") /\ UNCHANGED stepTimer
    BY <2>1 DEF EnterStep, ModeStep
  <2>2. CASE leaveDM
    BY <2>2 DEF leaveDM, SwitchOutsideDM, ModeStep
  <2>3. CASE \E v \in BOOLEAN : riscvSetDMStall(v)
    BY <2>3 DEF riscvSetDMStall, SameMode, ModeStep, modeVars
  <2> QED BY <1>3, <2>1, <2>2, <2>3 DEF Debugger, riscvSetDM
<1>4. CASE UNCHANGED vars
  BY <1>4 DEF vars, SameMode, ModeStep, modeVars, debugVars
<1> QED BY <1>0, <1>1, <1>2, <1>3, <1>4, InstructionModeStep, CSRWriteModeStep,
           NetChangeModeStep DEF Next

(* Debug mode executes in Machine mode until it is left: returns are NOPs, *)
(* exceptions re-enter it and NMI is held off.                             *)
THEOREM DebugIsMachine == Spec => []DebugModeIsMachine
<1>1. Init => DebugModeIsMachine
  BY DEF Init, DebugModeIsMachine
<1>2. TypeOK /\ DebugModeIsMachine /\ [Next]_vars => DebugModeIsMachine'
  <2> SUFFICES ASSUME TypeOK, DebugModeIsMachine, ModeStep PROVE DebugModeIsMachine'
    BY NextModeStep
  <2>1. CASE SameMode \/ TimerStep \/ DcsrStep \/ NmipStep
    BY <2>1, Zenon DEF SameMode, TimerStep, DcsrStep, NmipStep, DebugModeIsMachine
  <2>2. CASE SwitchOutsideDM \/ riscvReset
    BY <2>2 DEF SwitchOutsideDM, riscvReset, DebugModeIsMachine
  <2>3. CASE EnterStep
    BY <2>3, Zenon DEF EnterStep, enterDM, SwitchMode, modeVars, DebugModeIsMachine
  <2>4. CASE satpW
    BY <2>4 DEF satpW, riscvSetMode, SwitchMode, debugVars, DebugModeIsMachine
  <2> QED BY <2>1, <2>2, <2>3, <2>4 DEF ModeStep
<1> QED BY <1>1, <1>2, TypeCorrect, PTL DEF Spec

(* Outside Debug mode with dcsr.step set the step timer is always armed,   *)
(* because every mode switch and every write of dcsr arms it.              *)
THEOREM StepTimerArmed == Spec => []StepArmed
<1>1. Init => StepArmed
  <2>1. Init => dcsr = [prv |-> M, cause |-> "NONE", step |-> FALSE, nmip |-> FALSE, mprven |-> FALSE, ebreak |-> {}]
    BY Zenon DEF Init
  <2>2. Init => dcsr.step = FALSE
    BY <2>1
  <2> QED BY <2>2, Zenon DEF StepArmed
<1>2. TypeOK /\ StepArmed /\ [Next]_vars => StepArmed'
  <2> SUFFICES ASSUME TypeOK, StepArmed, ModeStep PROVE StepArmed'
    BY NextModeStep
  <2>1. CASE SameMode \/ NmipStep
    BY <2>1, Zenon DEF SameMode, NmipStep, StepArmed
  <2>2. CASE SwitchOutsideDM \/ satpW \/ DcsrStep
    BY <2>2, Zenon DEF SwitchOutsideDM, satpW, DcsrStep, riscvSetMode, riscvSetStepBreakpoint, StepArmed
  <2>3. CASE EnterStep
    BY <2>3 DEF EnterStep, enterDM, StepArmed
  <2>4. CASE riscvReset
    BY <2>4 DEF riscvReset, StepArmed
  <2>5. CASE TimerStep
    <3>1. (DM \/ ~dcsr.step) /\ DM' = DM /\ dcsr'.step = dcsr.step
      BY <2>5 DEF TimerStep
    <3>2. ~(~DM' /\ dcsr'.step)
      BY <3>1
    <3> QED BY <3>2 DEF StepArmed
  <2> QED BY <2>1, <2>2, <2>3, <2>4, <2>5 DEF ModeStep
<1> QED BY <1>1, <1>2, TypeCorrect, PTL DEF Spec

(* Instruction fetch is translated exactly in S and U mode with satp       *)
(* enabled: every writer of the mode or of satp goes through riscvSetMode. *)
THEOREM CodeModeCurrent == Spec => []CodeModeTracksSatp
<1>1. Init => CodeModeTracksSatp
  BY Zenon DEF Init, CodeModeTracksSatp
<1>2. TypeOK /\ CodeModeTracksSatp /\ [Next]_vars => CodeModeTracksSatp'
  <2> SUFFICES ASSUME TypeOK, CodeModeTracksSatp, ModeStep PROVE CodeModeTracksSatp'
    BY NextModeStep
  <2>1. CASE SameMode \/ TimerStep \/ DcsrStep \/ NmipStep
    BY <2>1 DEF SameMode, TimerStep, DcsrStep, NmipStep, CodeModeTracksSatp
  <2>2. CASE SwitchOutsideDM \/ satpW
    BY <2>2 DEF SwitchOutsideDM, satpW, riscvSetMode, SwitchMode, CodeModeTracksSatp
  <2>3. CASE EnterStep
    BY <2>3 DEF EnterStep, enterDM, SwitchMode, modeVars, CodeModeTracksSatp
  <2>4. CASE riscvReset
    <3>1. mode' = 3 /\ codeVM' = FALSE
      BY <2>4 DEF riscvReset
    <3>2. (mode' <= S) = FALSE
      BY <3>1
    <3> QED BY <3>1, <3>2, Zenon DEF CodeModeTracksSatp
  <2> QED BY <2>1, <2>2, <2>3, <2>4 DEF ModeStep
<1> QED BY <1>1, <1>2, TypeCorrect, PTL DEF Spec

(* Through every order of halt requests, resets, EBREAK, exceptions in the *)
(* program buffer, resumes and a debugger's writes, the stall register,    *)
(* the privilege and the step timer are what Debug mode says they are.     *)
THEOREM DebugConsistent == Spec => []DebugStateAgrees
BY StallRegisterExact, DebugIsMachine, StepTimerArmed, PTL DEF DebugStateAgrees

-----------------------------------------------------------------------------
(* The resume state                                                        *)

(* Only enterDM from outside Debug mode, a write of dcsr and reset touch   *)
(* what dcsr says of the interrupted program.                              *)
KeepsResume == dcsr'.prv = dcsr.prv /\ dcsr'.cause = dcsr.cause

LEMMA NestedEntryKeeps ==
  ASSUME TypeOK, DM, DM', [Next]_vars, ~dcsrW
  PROVE  KeepsResume
<1>1. CASE UNCHANGED dcsr
  BY <1>1 DEF KeepsResume
<1>2. ASSUME NEW cause, enterDM(cause) PROVE UNCHANGED dcsr
  BY <1>2 DEF enterDM
<1>3. ASSUME NEW modeX, riscvTakeException(modeX) PROVE UNCHANGED dcsr
  BY <1>2, <1>3 DEF riscvTakeException
<1>4. CASE riscvIFetchExcept
  BY <1>1, <1>2, <1>3, <1>4 DEF riscvIFetchExcept, debugVars
<1>5. CASE riscvStepExcept
  BY <1>1, <1>2, <1>5 DEF riscvStepExcept, debugVars
<1>6. CASE Instruction
  <2>1. ASSUME NEW st, NEW newMode, ERET(st, newMode) PROVE UNCHANGED dcsr
    BY <2>1 DEF ERET, vars, debugVars
  <2>2. CASE riscvMRET \/ riscvSRET \/ riscvURET
    BY <1>1, <2>1, <2>2 DEF riscvMRET, riscvSRET, riscvURET
  <2>3. CASE riscvDRET
    BY <1>1, <2>3 DEF riscvDRET, leaveDM
  <2>4. CASE riscvEBREAK \/ riscvECALL \/ \E e \in Exceptions : Except(e)
    BY <1>1, <1>2, <1>3, <2>4 DEF riscvEBREAK, riscvECALL, Except
  <2>5. CASE riscvWFI
    BY <1>1, <2>5 DEF riscvWFI, debugVars
  <2> QED BY <1>6, <2>2, <2>3, <2>4, <2>5 DEF Instruction
<1>7. CASE CSRWrite
  <2>1. CASE mstatusW \/ sstatusW \/ ustatusW \/ mieW \/ sieW \/ uieW
    BY <1>1, <2>1 DEF mstatusW, sstatusW, ustatusW, statusW, mieW, sieW, uieW, ieW, debugVars
  <2>2. CASE mipW \/ sipW \/ uipW \/ midelegW \/ sidelegW
    BY <1>1, <2>2 DEF mipW, sipW, uipW, ipW, midelegW, sidelegW, debugVars
  <2>3. CASE medelegW \/ sedelegW \/ satpW
    BY <1>1, <2>3 DEF medelegW, sedelegW, satpW, debugVars
  <2> QED BY <1>7, <2>1, <2>2, <2>3 DEF CSRWrite
<1>8. CASE NetChange
  <2>1. ASSUME NEW i \in Interrupts, NEW v \in BOOLEAN, interruptPortCB(i, v) PROVE UNCHANGED dcsr
    BY <2>1 DEF interruptPortCB, debugVars
  <2>2. ASSUME NEW v \in BOOLEAN, resetPortCB(v) PROVE UNCHANGED dcsr
    BY <2>2 DEF resetPortCB, riscvReset, debugVars
  <2>3. ASSUME NEW v \in BOOLEAN, nmiPortCB(v) PROVE KeepsResume
    BY <2>3 DEF nmiPortCB, KeepsResume, TypeOK, DcsrType
  <2>4. ASSUME NEW v \in BOOLEAN, haltreqPortCB(v) \/ resethaltreqPortCB(v) PROVE UNCHANGED dcsr
    BY <2>4 DEF haltreqPortCB, resethaltreqPortCB, debugVars
  <2> QED BY <1>1, <1>8, <2>1, <2>2, <2>3, <2>4 DEF NetChange
<1>9. CASE Debugger
  BY <1>1, <1>2, <1>9, Zenon DEF Debugger, riscvSetDM, riscvSetDMStall, leaveDM
<1>10. CASE UNCHANGED vars
  BY <1>1, <1>10 DEF vars, debugVars
<1> QED BY <1>4, <1>5, <1>6, <1>7, <1>8, <1>9, <1>10 DEF Next

(* However often Debug mode is entered again from itself, dcsr keeps the   *)
(* mode and the cause that the first entry saved.                          *)
THEOREM ResumeStateKept == Spec => NestedEntryKeepsResumeState
<1>1. TypeOK /\ [Next]_vars
        => [DM /\ DM' /\ ~dcsrW => dcsr'.prv = dcsr.prv /\ dcsr'.cause = dcsr.cause]_vars
  BY NestedEntryKeeps DEF KeepsResume
<1> QED BY <1>1, TypeCorrect, PTL DEF Spec, NestedEntryKeepsResumeState

-----------------------------------------------------------------------------
(* The data domain                                                         *)

(* How a step can change what selects the data domain: not at all, with a  *)
(* refresh, or by the two writers that come after the last refresh.        *)
DomainInputs == <<dataDomain, mode, DM, mstatus, VM>>
DomainStep ==
  \/ UNCHANGED DomainInputs /\ dcsr'.mprven = dcsr.mprven
  \/ riscvVMRefreshMPRVDomain
  \/ dcsrW
  \/ resetPortCB(FALSE)

LEMMA NextDomainStep ==
  ASSUME TypeOK, [Next]_vars
  PROVE  DomainStep
<1>1. CASE UNCHANGED <<DomainInputs, dcsr>>
  BY <1>1 DEF DomainStep
<1>2. ASSUME NEW m, riscvSetMode(m) PROVE DomainStep
  BY <1>2 DEF riscvSetMode, SwitchMode, DomainStep
<1>3. ASSUME NEW cause, enterDM(cause) PROVE DomainStep
  <2>1. CASE DM
    BY <1>1, <1>3, <2>1 DEF enterDM, DomainInputs, modeVars
  <2>2. CASE ~DM
    BY <1>3, <2>2 DEF enterDM, SwitchMode, DomainStep
  <2> QED BY <2>1, <2>2
<1>4. ASSUME NEW modeX, riscvTakeException(modeX) PROVE DomainStep
  BY <1>2, <1>3, <1>4 DEF riscvTakeException
<1>5. CASE leaveDM
  BY <1>2, <1>5 DEF leaveDM
<1>6. CASE riscvIFetchExcept
  BY <1>1, <1>3, <1>4, <1>6 DEF riscvIFetchExcept, DomainInputs, debugVars, modeVars
<1>7. CASE riscvStepExcept
  BY <1>1, <1>3, <1>7 DEF riscvStepExcept, DomainInputs, debugVars, modeVars
<1>8. CASE Instruction
  <2>1. ASSUME NEW st, NEW newMode, ERET(st, newMode) PROVE DomainStep
    BY <1>1, <1>2, <2>1 DEF ERET, doERETCommon, vars, DomainInputs, debugVars, modeVars
  <2>2. CASE riscvMRET \/ riscvSRET \/ riscvURET
    BY <2>1, <2>2 DEF riscvMRET, riscvSRET, riscvURET
  <2>3. CASE riscvDRET
    BY <1>4, <1>5, <2>3 DEF riscvDRET
  <2>4. CASE riscvEBREAK \/ riscvECALL \/ \E e \in Exceptions : Except(e)
    BY <1>3, <1>4, <2>4 DEF riscvEBREAK, riscvECALL, Except
  <2>5. CASE riscvWFI
    BY <1>1, <2>5 DEF riscvWFI, DomainInputs, debugVars, modeVars
  <2> QED BY <1>8, <2>2, <2>3, <2>4, <2>5 DEF Instruction
<1>9. CASE CSRWrite
  <2>1. CASE mstatusW \/ sstatusW \/ ustatusW
    BY <2>1, Zenon DEF mstatusW, sstatusW, ustatusW, statusW, DomainStep
  <2>2. CASE mieW \/ sieW \/ uieW \/ mipW \/ sipW \/ uipW
    BY <1>1, <2>2 DEF mieW, sieW, uieW, ieW, mipW, sipW, uipW, ipW, DomainInputs, debugVars, modeVars
  <2>3. CASE midelegW \/ sidelegW \/ medelegW \/ sedelegW
    BY <1>1, <2>3 DEF midelegW, sidelegW, medelegW, sedelegW, DomainInputs, debugVars, modeVars
  <2>4. CASE satpW \/ dcsrW
    BY <1>2, <2>4, Zenon DEF satpW, DomainStep
  <2> QED BY <1>9, <2>1, <2>2, <2>3, <2>4 DEF CSRWrite
<1>10. CASE NetChange
  <2>1. ASSUME NEW i \in Interrupts, NEW v \in BOOLEAN, interruptPortCB(i, v) PROVE DomainStep
    BY <1>1, <2>1 DEF interruptPortCB, DomainInputs, debugVars, modeVars
  <2>2. CASE resetPortCB(TRUE)
    BY <1>1, <2>2 DEF resetPortCB, DomainInputs, debugVars, modeVars
  <2>3. ASSUME NEW v \in BOOLEAN, nmiPortCB(v) PROVE DomainStep
    <3>1. dcsr'.mprven = dcsr.mprven /\ UNCHANGED <<mstatus, VM, DM>>
      BY <2>3 DEF nmiPortCB, TypeOK, DcsrType
    <3>2. CASE doNMI
      BY <1>2, <3>2 DEF doNMI
    <3>3. CASE UNCHANGED modeVars
      BY <3>1, <3>3 DEF DomainStep, DomainInputs, modeVars
    <3> QED BY <2>3, <3>2, <3>3 DEF nmiPortCB
  <2>4. ASSUME NEW v \in BOOLEAN, haltreqPortCB(v) \/ resethaltreqPortCB(v) PROVE DomainStep
    BY <1>1, <2>4 DEF haltreqPortCB, resethaltreqPortCB, DomainInputs, debugVars, modeVars
  <2> QED BY <1>10, <2>1, <2>2, <2>3, <2>4, Zenon DEF NetChange, DomainStep
<1>11. CASE Debugger
  <2>1. ASSUME NEW v \in BOOLEAN, riscvSetDMStall(v) PROVE DomainStep
    BY <1>1, <2>1 DEF riscvSetDMStall, DomainInputs, modeVars
  <2> QED BY <1>3, <1>5, <1>11, <2>1 DEF Debugger, riscvSetDM
<1>12. CASE UNCHANGED vars
  BY <1>1, <1>12 DEF vars, DomainInputs, debugVars, modeVars
<1> QED BY <1>6, <1>7, <1>8, <1>9, <1>10, <1>11, <1>12 DEF Next

(* Every change of the mode, of MPRV or MPP, of satp.MODE or of DM is      *)
(* followed by a refresh of the data domain, but for the two exceptions    *)
(* that the property names.                                                *)
THEOREM DataDomainFollows == Spec => DataDomainTracks
<1>1. TypeOK /\ [Next]_vars
        => [DataDomainCurrent /\ ~dcsrW /\ ~resetPortCB(FALSE) => DataDomainCurrent']_vars
  <2> SUFFICES ASSUME TypeOK, [Next]_vars, DataDomainCurrent, ~dcsrW, ~resetPortCB(FALSE)
               PROVE  DataDomainCurrent'
    BY Zenon
  <2>1. CASE UNCHANGED DomainInputs /\ dcsr'.mprven = dcsr.mprven
    BY <2>1 DEF DataDomainCurrent, DomainInputs, DomainFor, getMPRV
  <2>2. CASE riscvVMRefreshMPRVDomain
    BY <2>2 DEF DataDomainCurrent, riscvVMRefreshMPRVDomain
  <2> QED BY <2>1, <2>2, NextDomainStep, Zenon DEF DomainStep
<1> QED BY <1>1, TypeCorrect, PTL DEF Spec, DataDomainTracks

=============================================================================
