-------------------------------- MODULE Hart --------------------------------
(***************************************************************************)
(* The control state of one hart of the model: privilege mode, mstatus     *)
(* stack, interrupt pending/enable/delegation registers, WFI, reset and    *)
(* NMI inputs, Debug mode and single step, and the data domain selected by *)
(* mstatus.MPRV.  One action per handler of riscvExceptions.c and per CSR  *)
(* write function of riscvCSR.c that touches this state.                   *)
(*                                                                         *)
(* Interrupts and exceptions are identified by their codes, a register of  *)
(* single-bit fields is the set of the bits that are 1, and addresses      *)
(* (pc, xepc, xtvec, xtval, dpc) are data that no guard reads.  The LR/SC  *)
(* tag, the counters, the PMP, FP and vector state that some handlers      *)
(* touch as well belong to other components.                               *)
(***************************************************************************)
EXTENDS Integers, FiniteSets

CONSTANTS
  Modes,          \* implemented privilege modes (configInfo.arch)
  ISA_N,          \* user-level interrupts implemented
  Interrupts,     \* codes of the implemented interrupts (interruptMask)
  Exceptions,     \* bound: codes of the exceptions that instructions raise
  debug_mode,     \* "none", "interrupt" or "halt" (configInfo.debug_mode)
  clears_MPRV,    \* privileged version later than 20190405
  wfi_is_nop,     \* configInfo.wfi_is_nop
  HasVM,          \* some Sv mode besides Bare is implemented
  ArtifactWrites, \* bound: registers that a debugger writes at any time
  Written,        \* bound: registers and mstatus fields the software writes
  Nets            \* bound: control nets driven by the platform

M == 3
S == 1
U == 0

(* Software-writable bits of mip, sip and uip (WM32_mip, WM32_sip, WM32_uip) *)
WM_mip == {0, 1, 4, 5, 8, 9}
WM_sip == {0, 1, 8}
WM_uip == {0}

ASSUME ConfigAssumption ==
  /\ Modes \in {{M}, {U, M}, {S, M}, {U, S, M}}
  /\ ISA_N \in BOOLEAN
  /\ Interrupts \subseteq 0..31
  /\ S \notin Modes => Interrupts \cap {1, 5, 9} = {}
  /\ ~ISA_N => Interrupts \cap {0, 4, 8} = {}
  /\ Exceptions \subseteq 0..15
  /\ debug_mode \in {"none", "interrupt", "halt"}
  /\ clears_MPRV \in BOOLEAN
  /\ wfi_is_nop \in BOOLEAN
  /\ HasVM \in BOOLEAN
  /\ HasVM => S \in Modes

VARIABLES
  mode,       \* current privilege mode (getCurrentMode)
  codeVM,     \* RISCV_DMODE_VM bit of riscv->mode
  mstatus,    \* IE, PIE (sets of modes), MPP, SPP, MPRV
  mie,        \* enabled interrupts
  mip,        \* pending interrupts
  ip,         \* interrupt input ports that are high
  swip,       \* software-pending interrupts
  mideleg, sideleg, medeleg, sedeleg,
  VM,         \* satp.MODE is not Bare
  dataDomain, \* dmode and whether the current data domain is translated
  DM, DMStall,
  dcsr,       \* prv, cause, step, nmip, mprven, ebreak (set of modes)
  netValue,   \* latched control nets
  run,        \* disable reasons and the simulator's halted state
  syncReq,    \* vmirtDoSynchronousInterrupt is outstanding
  stepTimer   \* the step timer is armed

intVars   == <<mie, mip, ip, swip>>
delegVars == <<mideleg, sideleg, medeleg, sedeleg>>
modeVars  == <<mode, codeVM, dataDomain>>
debugVars == <<DM, DMStall, dcsr>>
vars == <<modeVars, mstatus, intVars, delegVars, VM, debugVars, netValue, run,
          syncReq, stepTimer>>

-----------------------------------------------------------------------------
(* Halt and restart                                                        *)

haltProcessor(r, reason) ==
  [disable |-> r.disable \cup {reason},
   halted  |-> r.halted \/ r.disable = {}]

(* Faulty variant: the simulator is restarted whatever reasons remain. *)
restartProcessor_Always(r, reasons) ==
  [disable |-> r.disable \ reasons, halted |-> FALSE]

restartProcessor(r, reasons) ==
  [disable |-> r.disable \ reasons,
   halted  |-> r.halted /\ r.disable \ reasons # {}]

RVD_RESTART_WFI   == {"WFI"}
RVD_RESTART_NMI   == {"WFI"}
RVD_RESTART_RESET == {"WFI", "RESET"}

updateDMStall(r, stall) ==
  IF debug_mode = "interrupt" THEN r
  ELSE IF stall THEN haltProcessor(r, "DEBUG")
  ELSE restartProcessor(r, {"DEBUG"})

-----------------------------------------------------------------------------
(* Modes and the data domain                                               *)

riscvGetMinMode == CHOOSE m \in Modes : \A n \in Modes : m <= n

getERETMode(m) == IF m \in Modes THEN m ELSE riscvGetMinMode

getMPRV(dm, st, dc) == st.MPRV /\ (dm => dc.mprven)

(* The domain riscvVMRefreshMPRVDomain selects, for mode m. *)
DomainFor(m, dm, st, dc, vm) ==
  LET eff == IF getMPRV(dm, st, dc) THEN getERETMode(st.MPP) ELSE m
  IN [mode |-> eff, vm |-> vm /\ eff <= S]

riscvVMRefreshMPRVDomain ==
  dataDomain' = DomainFor(mode', DM', mstatus', dcsr', VM')

SwitchMode(m) ==
  /\ mode' = m
  /\ codeVM' = (m <= S /\ VM')
  /\ riscvVMRefreshMPRVDomain

(* Faulty variant: armed in Debug mode instead of outside it. *)
riscvSetStepBreakpoint_InDM == stepTimer' = (stepTimer \/ (DM' /\ dcsr'.step))

riscvSetStepBreakpoint == stepTimer' = (stepTimer \/ (~DM' /\ dcsr'.step))

(* Faulty variant: the domain is refreshed only if the mode changes. *)
riscvSetMode_OnChange(m) ==
  /\ mode' = m
  /\ codeVM' = (m <= S /\ VM')
  /\ IF m # mode THEN riscvVMRefreshMPRVDomain ELSE UNCHANGED dataDomain
  /\ riscvSetStepBreakpoint

riscvSetMode(m) == SwitchMode(m) /\ riscvSetStepBreakpoint

clearMPRV(st, m) == [st EXCEPT !.MPRV = @ /\ ~(clears_MPRV /\ m # M)]

-----------------------------------------------------------------------------
(* Pending interrupts                                                      *)

getIE(m, IE, x) == m < x \/ (m = x /\ x \in IE)

(* The mode an interrupt is delegated to: the mMask, sMask, uMask split. *)
DelegatedMode(i, mdeleg, sdeleg) ==
  IF i \notin mdeleg THEN M ELSE IF i \notin sdeleg THEN S ELSE U

getPendingInterrupts == mie \cap mip

PendingAndEnabledIn(dm, m, IE) ==
  {i \in getPendingInterrupts :
     ~dm /\ getIE(m, IE, DelegatedMode(i, mideleg, sideleg))}

getPendingAndEnabledInterrupts == PendingAndEnabledIn(DM, mode, mstatus.IE)

(* Faulty variant: a masked interrupt does not wake the hart. *)
WakeFromWFI_EnabledOnly(r) ==
  IF getPendingAndEnabledInterrupts' # {}
  THEN restartProcessor(r, RVD_RESTART_WFI) ELSE r

(* riscvTestInterrupt in the state a handler has reached: wake from WFI if *)
(* anything enabled is pending, and schedule a fetch check if an interrupt *)
(* can be taken.                                                           *)
WakeFromWFI(r) ==
  IF getPendingInterrupts' # {} THEN restartProcessor(r, RVD_RESTART_WFI) ELSE r

riscvTestInterrupt ==
  /\ run' = WakeFromWFI(run)
  /\ syncReq' = (syncReq \/ getPendingAndEnabledInterrupts' # {})

(* Faulty variant: the software bits are read before they are updated. *)
riscvUpdatePending_StaleSwip ==
  /\ mip' = ip' \cup swip
  /\ IF mip' # mip THEN riscvTestInterrupt ELSE UNCHANGED <<run, syncReq>>

(* Faulty variant: no test for interrupts when mip changes. *)
riscvUpdatePending_NoTest ==
  /\ mip' = ip' \cup swip'
  /\ UNCHANGED <<run, syncReq>>

riscvUpdatePending ==
  /\ mip' = ip' \cup swip'
  /\ IF mip' # mip THEN riscvTestInterrupt ELSE UNCHANGED <<run, syncReq>>

intPri(i) ==
  CASE i = 4 -> 1 [] i = 0 -> 2 [] i = 8  -> 3
    [] i = 5 -> 4 [] i = 1 -> 5 [] i = 9  -> 6
    [] i = 7 -> 7 [] i = 3 -> 8 [] i = 11 -> 9
    [] OTHER -> 0

(* Faulty variant: the current mode is ignored. *)
getModeX_NoClamp(e, mMask, sMask) == DelegatedMode(e, mMask, sMask)

getModeX(e, mMask, sMask) ==
  LET modeX == DelegatedMode(e, mMask, sMask)
  IN IF modeX > mode THEN modeX ELSE mode

getInterruptModeX(i) == getModeX(i, mideleg, sideleg)
getExceptionModeX(e) == getModeX(e, medeleg, sedeleg)

(* Faulty variant: the target mode is ignored. *)
Outranks_FixedOrder(i, j) ==
  intPri(i) > intPri(j) \/ (intPri(i) = intPri(j) /\ i >= j)

(* What the scan of doInterrupt keeps: the highest target mode, then the   *)
(* highest fixed priority, then the highest code.                          *)
Outranks(i, j) ==
  \/ getInterruptModeX(i) > getInterruptModeX(j)
  \/ /\ getInterruptModeX(i) = getInterruptModeX(j)
     /\ \/ intPri(i) > intPri(j)
        \/ intPri(i) = intPri(j) /\ i >= j

-----------------------------------------------------------------------------
(* Trap entry and return                                                   *)

(* TARGET_MODE_X and the SPP/MPP update that follows it: any target other  *)
(* than U and S uses the Machine registers.                                *)
TargetModeX(st, modeX) ==
  LET x == IF modeX \in {U, S} THEN modeX ELSE M
  IN [st EXCEPT !.PIE = IF x \in st.IE THEN @ \cup {x} ELSE @ \ {x},
                !.IE  = @ \ {x},
                !.MPP = IF x = M THEN mode ELSE @,
                !.SPP = IF x = S THEN mode ELSE @]

(* Faulty variant: resume state is saved again by a nested entry. *)
enterDM_Resave(cause) ==
  /\ UNCHANGED <<mstatus, intVars, delegVars, VM>>
  /\ DM' = TRUE
  /\ dcsr' = [dcsr EXCEPT !.prv = mode, !.cause = cause]
  /\ SwitchMode(M)
  /\ DMStall' = TRUE
  /\ run' = updateDMStall(run, TRUE)

(* riscvSetMode never arms the step timer here, since DM is set first. *)
enterDM(cause) ==
  /\ UNCHANGED <<mstatus, intVars, delegVars, VM>>
  /\ IF DM
     THEN UNCHANGED <<DM, dcsr, modeVars>>
     ELSE /\ DM' = TRUE
          /\ dcsr' = [dcsr EXCEPT !.prv = mode, !.cause = cause]
          /\ SwitchMode(M)
  /\ DMStall' = TRUE
  /\ run' = updateDMStall(run, TRUE)

riscvTakeException(modeX) ==
  IF DM
  THEN enterDM("NONE") /\ UNCHANGED stepTimer
  ELSE /\ UNCHANGED <<intVars, delegVars, VM, debugVars, run>>
       /\ mstatus' = TargetModeX(mstatus, modeX)
       /\ riscvSetMode(modeX)

doERETCommon(newMode) == riscvSetMode(newMode) /\ riscvTestInterrupt

(* Return from the handler of mode x to newMode; in Debug mode a NOP. *)
ERET(st, newMode) ==
  IF DM
  THEN UNCHANGED vars
  ELSE /\ UNCHANGED <<intVars, delegVars, VM, debugVars, netValue>>
       /\ mstatus' = st
       /\ doERETCommon(newMode)

RestoreIE(st, x) ==
  [st EXCEPT !.IE  = IF x \in st.PIE THEN @ \cup {x} ELSE @ \ {x},
             !.PIE = @ \cup {x}]

(* Faulty variant: the mode is switched before DM is cleared. *)
leaveDM_LateDM ==
  /\ UNCHANGED <<intVars, delegVars, VM, dcsr, netValue, stepTimer>>
  /\ DM' = FALSE
  /\ mstatus' = clearMPRV(mstatus, dcsr.prv)
  /\ SwitchMode(dcsr.prv)
  /\ run' = updateDMStall(WakeFromWFI(run), FALSE)
  /\ syncReq' = (syncReq \/ getPendingAndEnabledInterrupts' # {})
  /\ DMStall' = FALSE

leaveDM ==
  /\ UNCHANGED <<intVars, delegVars, VM, dcsr, netValue>>
  /\ DM' = FALSE
  /\ mstatus' = clearMPRV(mstatus, dcsr.prv)
  /\ riscvSetMode(dcsr.prv)
  /\ run' = updateDMStall(WakeFromWFI(run), FALSE)
  /\ syncReq' = (syncReq \/ getPendingAndEnabledInterrupts' # {})
  /\ DMStall' = FALSE

-----------------------------------------------------------------------------
(* The fetch callback and instructions.  The simulator makes the callback  *)
(* at any fetch, and before the next instruction when it was scheduled.    *)

riscvIFetchExcept ==
  /\ ~run.halted
  /\ syncReq' = FALSE
  /\ \/ /\ netValue.resethaltreqS
        /\ netValue' = [netValue EXCEPT !.resethaltreqS = FALSE]
        /\ enterDM("RESETHALTREQ")
        /\ UNCHANGED stepTimer
     \/ /\ ~netValue.resethaltreqS
        /\ netValue.haltreq /\ ~DM
        /\ enterDM("HALTREQ")
        /\ UNCHANGED <<netValue, stepTimer>>
     \/ /\ ~netValue.resethaltreqS
        /\ ~(netValue.haltreq /\ ~DM)
        /\ \E i \in getPendingAndEnabledInterrupts :
              /\ \A j \in getPendingAndEnabledInterrupts : Outranks(i, j)
              /\ riscvTakeException(getInterruptModeX(i))
        /\ UNCHANGED netValue
     \/ /\ ~netValue.resethaltreqS
        /\ ~(netValue.haltreq /\ ~DM)
        /\ getPendingAndEnabledInterrupts = {}
        /\ \/ \E e \in Exceptions \cap {0, 1, 12} :
                 riscvTakeException(getExceptionModeX(e))
           \/ UNCHANGED <<modeVars, mstatus, intVars, delegVars, VM, debugVars,
                          run, stepTimer>>
        /\ UNCHANGED netValue

Executing(lvl) == ~run.halted /\ ~syncReq /\ mode >= lvl

(* Any instruction that raises a synchronous exception (illegal            *)
(* instruction, memory fault); ECALL raises 8 + mode, a trapping EBREAK 3. *)
Except(e) ==
  /\ Executing(U)
  /\ e \in Exceptions \ {3, 8, 9, 11}
  /\ riscvTakeException(getExceptionModeX(e))
  /\ UNCHANGED <<netValue, syncReq>>

riscvECALL ==
  /\ Executing(U)
  /\ riscvTakeException(getExceptionModeX(8 + mode))
  /\ UNCHANGED <<netValue, syncReq>>

riscvEBREAK ==
  /\ Executing(U)
  /\ IF DM \/ mode \in dcsr.ebreak
     THEN enterDM("EBREAK") /\ UNCHANGED stepTimer
     ELSE riscvTakeException(getExceptionModeX(3))
  /\ UNCHANGED <<netValue, syncReq>>

riscvMRET ==
  /\ Executing(M)
  /\ LET newMode == getERETMode(mstatus.MPP)
         st      == [RestoreIE(mstatus, M) EXCEPT !.MPP = riscvGetMinMode]
     IN ERET(clearMPRV(st, newMode), newMode)

riscvSRET ==
  /\ S \in Modes
  /\ Executing(S)
  /\ LET newMode == getERETMode(mstatus.SPP)
         st      == [RestoreIE(mstatus, S) EXCEPT !.SPP = riscvGetMinMode]
     IN ERET(clearMPRV(st, newMode), newMode)

riscvURET ==
  /\ U \in Modes
  /\ Executing(U)
  /\ ERET(RestoreIE(mstatus, U), U)

riscvDRET ==
  /\ Executing(M)
  /\ \/ DM /\ leaveDM
     \/ /\ ~DM
        /\ riscvTakeException(getExceptionModeX(2))
        /\ UNCHANGED <<netValue, syncReq>>

riscvWFI ==
  /\ Executing(IF ISA_N THEN U ELSE S)
  /\ ~wfi_is_nop
  /\ ~DM /\ getPendingInterrupts = {}
  /\ run' = haltProcessor(run, "WFI")
  /\ UNCHANGED <<modeVars, mstatus, intVars, delegVars, VM, debugVars, netValue,
                 syncReq, stepTimer>>

(* Expiry of the one-instruction model timer of single step. *)
riscvStepExcept ==
  /\ stepTimer /\ ~run.halted
  /\ stepTimer' = FALSE
  /\ IF ~DM /\ dcsr.step
     THEN enterDM("STEP")
     ELSE UNCHANGED <<modeVars, mstatus, intVars, delegVars, VM, debugVars, run>>
  /\ UNCHANGED <<netValue, syncReq>>

-----------------------------------------------------------------------------
(* CSR writes, by an instruction of sufficient privilege or by a debugger  *)

CSRAccess(reg, lvl) ==
  \/ reg \in Written /\ Executing(lvl)
  \/ reg \in ArtifactWrites

(* The values a write can leave in a register of which it sees mask. *)
Merged(old, mask) == {(old \ mask) \cup new : new \in SUBSET mask}

(* The values of a field: all of set, unless the bound excludes it. *)
Values(f, set, old) == IF f \in Written THEN set ELSE {old}

(* mstatus fields that a write through the alias of level lvl can change. *)
StatusValues(lvl) ==
  LET Mask(f) == IF f \in Written
                 THEN {x \in Modes : x <= lvl /\ (x = U => ISA_N)} ELSE {}
  IN [IE   : Merged(mstatus.IE, Mask("IE")),
      PIE  : Merged(mstatus.PIE, Mask("PIE")),
      MPP  : IF lvl = M /\ Modes # {M}
             THEN Values("MPP", 0..3, mstatus.MPP) ELSE {mstatus.MPP},
      SPP  : IF lvl >= S /\ {U, S} \subseteq Modes
             THEN Values("SPP", {U, S}, mstatus.SPP) ELSE {mstatus.SPP},
      MPRV : IF lvl = M /\ U \in Modes
             THEN Values("MPRV", BOOLEAN, mstatus.MPRV) ELSE {mstatus.MPRV}]

(* Faulty variant: enabling interrupts does not test for pending ones. *)
statusW_NoTest(reg, lvl) ==
  /\ CSRAccess(reg, lvl)
  /\ UNCHANGED <<mode, codeVM, intVars, delegVars, VM, debugVars, netValue,
                 stepTimer, run, syncReq>>
  /\ \E new \in StatusValues(lvl) :
        mstatus' = [new EXCEPT !.MPP = IF @ \in Modes THEN @ ELSE mstatus.MPP]
  /\ riscvVMRefreshMPRVDomain

statusW(reg, lvl) ==
  /\ CSRAccess(reg, lvl)
  /\ UNCHANGED <<mode, codeVM, intVars, delegVars, VM, debugVars, netValue,
                 stepTimer>>
  /\ \E new \in StatusValues(lvl) :
        mstatus' = [new EXCEPT !.MPP = IF @ \in Modes THEN @ ELSE mstatus.MPP]
  /\ riscvVMRefreshMPRVDomain
  /\ IF mstatus'.IE \ mstatus.IE # {}
     THEN riscvTestInterrupt
     ELSE UNCHANGED <<run, syncReq>>

mstatusW == statusW("mstatus", M)
sstatusW == S \in Modes /\ statusW("sstatus", S)
ustatusW == ISA_N /\ statusW("ustatus", U)

(* Interrupts visible through the sie/sip and the uie/uip aliases. *)
getSIRMask == mideleg
getUIRMask == mideleg \cap sideleg

ieW(reg, lvl, rMask) ==
  /\ CSRAccess(reg, lvl)
  /\ UNCHANGED <<modeVars, mstatus, mip, ip, swip, delegVars, VM, debugVars,
                 netValue, stepTimer>>
  /\ mie' \in Merged(mie, Interrupts \cap rMask)
  /\ IF mie' # mie THEN riscvTestInterrupt ELSE UNCHANGED <<run, syncReq>>

mieW == ieW("mie", M, Interrupts)
sieW == S \in Modes /\ ieW("sie", S, getSIRMask)
uieW == ISA_N /\ ieW("uie", U, getUIRMask)

ipW(reg, lvl, rMask) ==
  /\ CSRAccess(reg, lvl)
  /\ UNCHANGED <<modeVars, mstatus, mie, ip, delegVars, VM, debugVars, netValue,
                 stepTimer>>
  /\ swip' \in Merged(swip, Interrupts \cap rMask)
  /\ IF swip' # swip THEN riscvUpdatePending ELSE UNCHANGED <<mip, run, syncReq>>

mipW == ipW("mip", M, WM_mip)
sipW == S \in Modes /\ ipW("sip", S, getSIRMask \cap WM_sip)
uipW == ISA_N /\ ipW("uip", U, getUIRMask \cap WM_uip)

(* Interrupts that can be delegated from M and from S (csrMask): standard  *)
(* M interrupts and local interrupts (16 and up) stay with M.              *)
sInterrupts == Interrupts \ ({3, 7, 11} \cup 16..31)
uInterrupts == sInterrupts \ {1, 2, 5, 6, 9, 10}

midelegW ==
  /\ S \in Modes \/ ISA_N
  /\ CSRAccess("mideleg", M)
  /\ UNCHANGED <<modeVars, mstatus, intVars, sideleg, medeleg, sedeleg, VM,
                 debugVars, netValue, stepTimer>>
  /\ mideleg' \in Merged(mideleg, sInterrupts)
  /\ IF mideleg' # mideleg THEN riscvTestInterrupt ELSE UNCHANGED <<run, syncReq>>

sidelegW ==
  /\ S \in Modes /\ ISA_N
  /\ CSRAccess("sideleg", S)
  /\ UNCHANGED <<modeVars, mstatus, intVars, mideleg, medeleg, sedeleg, VM,
                 debugVars, netValue, stepTimer>>
  /\ sideleg' \in Merged(sideleg, uInterrupts)
  /\ IF sideleg' # sideleg THEN riscvTestInterrupt ELSE UNCHANGED <<run, syncReq>>

medelegW ==
  /\ S \in Modes \/ ISA_N
  /\ CSRAccess("medeleg", M)
  /\ medeleg' \in Merged(medeleg, Exceptions \ {11})
  /\ UNCHANGED <<modeVars, mstatus, intVars, mideleg, sideleg, sedeleg, VM,
                 debugVars, netValue, run, syncReq, stepTimer>>

sedelegW ==
  /\ S \in Modes /\ ISA_N
  /\ CSRAccess("sedeleg", S)
  /\ sedeleg' \in Merged(sedeleg, Exceptions \ {9, 10, 11})
  /\ UNCHANGED <<modeVars, mstatus, intVars, mideleg, sideleg, medeleg, VM,
                 debugVars, netValue, run, syncReq, stepTimer>>

(* Faulty variant: enabling translation leaves the current mode alone. *)
satpW_NoSetMode ==
  /\ HasVM
  /\ CSRAccess("satp", S)
  /\ VM' \in BOOLEAN
  /\ UNCHANGED <<modeVars, mstatus, intVars, delegVars, debugVars, netValue, run,
                 syncReq, stepTimer>>

(* A change of satp.MODE to an implemented mode; riscvSetMode follows. *)
satpW ==
  /\ HasVM
  /\ CSRAccess("satp", S)
  /\ UNCHANGED <<mstatus, intVars, delegVars, debugVars, netValue, run, syncReq>>
  /\ VM' \in BOOLEAN
  /\ riscvSetMode(mode)

(* An instruction reaches dcsr only in Debug mode and cannot write cause   *)
(* and nmip; an artifact write can reach every field at any time.          *)
dcsrW ==
  /\ debug_mode # "none"
  /\ UNCHANGED <<modeVars, mstatus, intVars, delegVars, VM, DM, DMStall, netValue,
                 run, syncReq>>
  /\ \E prv \in Values("prv", 0..3, dcsr.prv),
        step \in Values("step", BOOLEAN, dcsr.step),
        mprven \in Values("mprven", BOOLEAN, dcsr.mprven),
        ebreak \in Values("ebreak", SUBSET Modes, dcsr.ebreak) :
       /\ \/ /\ "dcsr" \in Written
             /\ Executing(M) /\ DM
             /\ dcsr' = [dcsr EXCEPT !.prv = prv, !.step = step,
                                     !.mprven = mprven, !.ebreak = ebreak]
          \/ /\ "dcsr" \in ArtifactWrites
             /\ \E cause \in Values("cause", {"NONE", "HALTREQ"}, dcsr.cause),
                   nmip \in Values("nmip", BOOLEAN, dcsr.nmip) :
                  dcsr' = [prv |-> prv, cause |-> cause, step |-> step,
                           nmip |-> nmip, mprven |-> mprven, ebreak |-> ebreak]
  /\ riscvSetStepBreakpoint

-----------------------------------------------------------------------------
(* Net ports and the debugger's DM and DMStall registers                   *)

interruptPortCB(i, v) ==
  /\ UNCHANGED <<modeVars, mstatus, mie, swip, delegVars, VM, debugVars, netValue,
                 stepTimer>>
  /\ ip' = IF v THEN ip \cup {i} ELSE ip \ {i}
  /\ riscvUpdatePending

(* riscvReset, in the order of the code: the mode switches (and the domain *)
(* refreshes they make) use the mstatus and dcsr values from before        *)
(* riscvCSRReset, and leaving Debug mode may schedule a fetch check.       *)
riscvReset ==
  LET restarted == restartProcessor(run, RVD_RESTART_RESET)
      st        == IF DM THEN clearMPRV(mstatus, dcsr.prv) ELSE mstatus
      woken     == IF getPendingInterrupts # {}
                   THEN restartProcessor(restarted, RVD_RESTART_WFI)
                   ELSE restarted
  IN /\ run' = IF DM THEN updateDMStall(woken, FALSE) ELSE restarted
     /\ syncReq' = (syncReq \/ (DM /\ PendingAndEnabledIn(FALSE, dcsr.prv, st.IE) # {}))
     /\ DM' = FALSE
     /\ DMStall' = IF DM THEN FALSE ELSE DMStall
     /\ mode' = M
     /\ codeVM' = FALSE
     /\ dataDomain' = DomainFor(M, FALSE, st, dcsr, VM)
     /\ stepTimer' = (stepTimer \/ dcsr.step)
     /\ mstatus' = [IE |-> {}, PIE |-> {}, MPP |-> riscvGetMinMode,
                    SPP |-> IF S \in Modes THEN riscvGetMinMode ELSE U, MPRV |-> FALSE]
     /\ dcsr' = [prv |-> M, cause |-> "NONE", step |-> FALSE, nmip |-> FALSE,
                 mprven |-> FALSE, ebreak |-> {}]
     /\ UNCHANGED <<intVars, delegVars, VM>>

resetPortCB(v) ==
  \/ /\ ~netValue.reset /\ v
     /\ run' = haltProcessor(run, "RESET")
     /\ netValue' = [netValue EXCEPT !.reset = TRUE]
     /\ UNCHANGED <<modeVars, mstatus, intVars, delegVars, VM, debugVars, syncReq,
                    stepTimer>>
  \/ /\ netValue.reset /\ ~v
     /\ riscvReset
     /\ netValue' = [netValue EXCEPT !.reset = FALSE,
                                     !.resethaltreqS = netValue.resethaltreq]

doNMI ==
  /\ run' = restartProcessor(run, RVD_RESTART_NMI)
  /\ riscvSetMode(M)

nmiPortCB(v) ==
  /\ UNCHANGED <<mstatus, intVars, delegVars, VM, DM, DMStall, syncReq>>
  /\ dcsr' = [dcsr EXCEPT !.nmip = v]
  /\ netValue' = [netValue EXCEPT !.nmi = v]
  /\ IF ~DM /\ netValue.nmi /\ ~v THEN doNMI ELSE UNCHANGED <<modeVars, run, stepTimer>>

haltreqPortCB(v) ==
  /\ debug_mode # "none"
  /\ syncReq' = (syncReq \/ (~DM /\ ~netValue.haltreq /\ v))
  /\ netValue' = [netValue EXCEPT !.haltreq = v]
  /\ UNCHANGED <<modeVars, mstatus, intVars, delegVars, VM, debugVars, run, stepTimer>>

resethaltreqPortCB(v) ==
  /\ debug_mode # "none"
  /\ netValue' = [netValue EXCEPT !.resethaltreq = v]
  /\ UNCHANGED <<modeVars, mstatus, intVars, delegVars, VM, debugVars, run, syncReq,
                 stepTimer>>

(* writeDM: riscvSetDM, a NOP unless the value changes. *)
riscvSetDM(v) ==
  /\ debug_mode # "none"
  /\ v # DM
  /\ \/ v /\ enterDM("HALTREQ") /\ UNCHANGED <<netValue, syncReq, stepTimer>>
     \/ ~v /\ leaveDM

(* writeDMStall: riscvSetDMStall. *)
riscvSetDMStall(v) ==
  /\ debug_mode = "halt"
  /\ DMStall' = v
  /\ run' = updateDMStall(run, v)
  /\ UNCHANGED <<modeVars, mstatus, intVars, delegVars, VM, DM, dcsr, netValue,
                 syncReq, stepTimer>>

-----------------------------------------------------------------------------
(* The state after riscvConstructor, which ends with riscvReset. *)
Init ==
  /\ mode = M
  /\ codeVM = FALSE
  /\ mstatus = [IE |-> {}, PIE |-> {}, MPP |-> riscvGetMinMode,
                SPP |-> IF S \in Modes THEN riscvGetMinMode ELSE U, MPRV |-> FALSE]
  /\ mie = {} /\ mip = {} /\ ip = {} /\ swip = {}
  /\ mideleg = {} /\ medeleg = {}
  /\ sideleg = IF ISA_N /\ S \notin Modes THEN 0..31 ELSE {}
  /\ sedeleg = IF ISA_N /\ S \notin Modes THEN 0..31 ELSE {}
  /\ VM = FALSE
  /\ dataDomain = [mode |-> M, vm |-> FALSE]
  /\ DM = FALSE /\ DMStall = FALSE
  /\ dcsr = [prv |-> M, cause |-> "NONE", step |-> FALSE, nmip |-> FALSE,
             mprven |-> FALSE, ebreak |-> {}]
  /\ netValue = [reset |-> FALSE, nmi |-> FALSE, haltreq |-> FALSE,
                 resethaltreq |-> FALSE, resethaltreqS |-> FALSE]
  /\ run = [disable |-> {}, halted |-> FALSE]
  /\ syncReq = FALSE
  /\ stepTimer = FALSE

Instruction ==
  \/ \E e \in Exceptions : Except(e)
  \/ riscvECALL
  \/ riscvEBREAK
  \/ riscvMRET
  \/ riscvSRET
  \/ riscvURET
  \/ riscvDRET
  \/ riscvWFI

CSRWrite ==
  \/ mstatusW \/ sstatusW \/ ustatusW
  \/ mieW \/ sieW \/ uieW
  \/ mipW \/ sipW \/ uipW
  \/ midelegW \/ sidelegW \/ medelegW \/ sedelegW
  \/ satpW \/ dcsrW

NetChange ==
  \E v \in BOOLEAN :
    \/ \E i \in Interrupts : interruptPortCB(i, v)
    \/ "reset" \in Nets /\ resetPortCB(v)
    \/ "nmi" \in Nets /\ nmiPortCB(v)
    \/ "haltreq" \in Nets /\ haltreqPortCB(v)
    \/ "resethaltreq" \in Nets /\ resethaltreqPortCB(v)

Debugger ==
  \E v \in BOOLEAN :
    \/ "DM" \in ArtifactWrites /\ riscvSetDM(v)
    \/ "DMStall" \in ArtifactWrites /\ riscvSetDMStall(v)

Next ==
  \/ riscvIFetchExcept
  \/ riscvStepExcept
  \/ Instruction
  \/ CSRWrite
  \/ NetChange
  \/ Debugger

Spec == Init /\ [][Next]_vars

(* vmirtDoSynchronousInterrupt makes the simulator call the fetch check    *)
(* before the next instruction, and an armed model timer expires once the  *)
(* instruction it counts has been executed; nothing else is assumed fair.  *)
ScheduledFetch == syncReq /\ riscvIFetchExcept

FairSpec == Spec /\ WF_vars(ScheduledFetch) /\ WF_vars(riscvStepExcept)

-----------------------------------------------------------------------------
(* Properties                                                              *)

PrivModes == {U, S, M}

StatusType == [IE : SUBSET PrivModes, PIE : SUBSET PrivModes, MPP : 0..3,
               SPP : {U, S}, MPRV : BOOLEAN]

DomainType == [mode : 0..3, vm : BOOLEAN]

DcsrType == [prv : 0..3,
             cause : {"NONE", "EBREAK", "HALTREQ", "STEP", "RESETHALTREQ"},
             step : BOOLEAN, nmip : BOOLEAN, mprven : BOOLEAN,
             ebreak : SUBSET Modes]

NetType == [reset : BOOLEAN, nmi : BOOLEAN, haltreq : BOOLEAN,
            resethaltreq : BOOLEAN, resethaltreqS : BOOLEAN]

RunType == [disable : SUBSET {"WFI", "RESET", "DEBUG"}, halted : BOOLEAN]

(* The type of the state: the width of every field the handlers assign,    *)
(* and the write masks of the interrupt and delegation registers.          *)
TypeOK ==
  /\ mode \in 0..3
  /\ codeVM \in BOOLEAN
  /\ mstatus \in StatusType
  /\ mie \subseteq Interrupts /\ mip \subseteq Interrupts
  /\ ip \subseteq Interrupts /\ swip \subseteq Interrupts
  /\ mideleg \subseteq Interrupts /\ sideleg \subseteq 0..31
  /\ medeleg \subseteq Exceptions /\ sedeleg \subseteq 0..31
  /\ VM \in BOOLEAN
  /\ dataDomain \in DomainType
  /\ DM \in BOOLEAN /\ DMStall \in BOOLEAN
  /\ dcsr \in DcsrType
  /\ netValue \in NetType
  /\ run \in RunType
  /\ syncReq \in BOOLEAN
  /\ stepTimer \in BOOLEAN

(* No interrupt is lost: whenever one is pending and enabled, whichever    *)
(* of the port callbacks, CSR writes, returns or mode switches made it so, *)
(* a fetch check that will take it has been scheduled.                     *)
NoLostInterrupt == getPendingAndEnabledInterrupts # {} => syncReq

(* A hart never sleeps through its wake-up: it waits in WFI only while no  *)
(* enabled interrupt is pending.                                           *)
WFIOnlyWhenIdle == "WFI" \in run.disable => getPendingInterrupts = {}

(* mip is always the union of the input ports and the software bits, and   *)
(* never a value computed from an older one of them.                       *)
PendingComposed == mip = ip \cup swip

(* The simulator holds the hart halted exactly while a disable reason is   *)
(* recorded, although vmirtHalt and vmirtRestartNext are called only on    *)
(* some of the transitions of riscv->disable.                              *)
RunStateAgrees == run.halted <=> run.disable # {}

(* With debug_mode "halt" the DMStall register tells whether Debug mode    *)
(* holds the hart.                                                         *)
DMStallHalts == debug_mode = "halt" => (DMStall <=> "DEBUG" \in run.disable)

(* Debug mode always executes with Machine-mode privilege, whatever traps, *)
(* returns and NMIs happen in it.                                          *)
DebugModeIsMachine == DM => mode = M

(* Outside Debug mode, a hart told to single-step always has its step      *)
(* timer armed, so it cannot run past the next instruction unnoticed.      *)
StepArmed == ~DM /\ dcsr.step => stepTimer

(* What Debug mode, its stall register, the privilege and the step timer   *)
(* say of each other stays true through halt requests, resets, EBREAK,     *)
(* exceptions in the program buffer, resumes and a debugger's writes.      *)
DebugStateAgrees == DMStallHalts /\ DebugModeIsMachine /\ StepArmed

(* Code is fetched through translation exactly in S and U mode with satp   *)
(* enabled.                                                                *)
CodeModeTracksSatp == codeVM = (mode <= S /\ VM)

(* The data domain in use is the one that mstatus.MPRV and MPP, the mode   *)
(* and satp.MODE select.                                                   *)
DataDomainCurrent == dataDomain = DomainFor(mode, DM, mstatus, dcsr, VM)

(* Every step keeps the data domain current, except the end of reset,      *)
(* which clears mstatus after its last mode switch, and a write of dcsr,   *)
(* whose mprven takes effect at the next mode switch.                      *)
DataDomainTracks ==
  [][DataDomainCurrent /\ ~dcsrW /\ ~resetPortCB(FALSE) => DataDomainCurrent']_vars

(* After any fetch check nothing is pending and enabled: the trap it takes *)
(* masks every remaining interrupt, since the one selected has the highest *)
(* target mode.                                                            *)
TrapMasksOthers == [][riscvIFetchExcept => getPendingAndEnabledInterrupts' = {}]_vars

(* Outside Debug mode privilege drops only at a return instruction; a trap *)
(* never lowers it, whatever the delegation registers say; and only a      *)
(* resume from Debug mode, which takes dcsr.prv as written, can put the    *)
(* hart in a mode it does not implement.                                   *)
PrivilegeGuarded ==
  [][/\ ~DM /\ mode' < mode => riscvMRET \/ riscvSRET \/ riscvURET
     /\ mode' \notin Modes /\ mode \in Modes => (DM /\ ~DM')]_vars

(* Another entry to Debug mode from Debug mode (an exception or EBREAK in  *)
(* the program buffer, a halt request out of reset) keeps the resume state *)
(* saved by the first.                                                     *)
NestedEntryKeepsResumeState ==
  [][DM /\ DM' /\ ~dcsrW => dcsr'.prv = dcsr.prv /\ dcsr'.cause = dcsr.cause]_vars

(* A hart that is running with an interrupt pending and enabled takes it,  *)
(* unless it is withdrawn or masked or the hart is halted first.           *)
InterruptServed ==
  (getPendingAndEnabledInterrupts # {} /\ ~run.halted)
    ~> (getPendingAndEnabledInterrupts = {} \/ run.halted)

(* A hart that is running with single step set outside Debug mode returns  *)
(* to Debug mode, unless stepping is cancelled or the hart is halted.      *)
StepCompletes ==
  (~DM /\ dcsr.step /\ ~run.halted) ~> (DM \/ ~dcsr.step \/ run.halted)

=============================================================================
