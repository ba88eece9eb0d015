# A TLA+ model of the riscvOVPsim processor model

This directory specifies the RISC-V processor model in `src/source/`: what its
callbacks, instruction handlers, CSR write functions, decode tables and code
generator do.  TLC checks the specifications on small instances; TLAPS proves
most of the invariants, and one refinement, for every value of the constants.

## The system

The model is a set of callbacks and of emitted operations around a simulator core
(the VMI library, external to this repository).  Its parts:

| Part | Source | Modules |
|---|---|---|
| Traps, interrupts, returns; WFI, reset, NMI; ports; Debug mode; status CSRs; data domain | `riscvExceptions.c`, `riscvCSR.c`, `riscvDebug.c`, `riscvVM.c`, `riscvUtils.c` | `Hart` |
| LR/SC between harts | `riscvMorph.c`, `riscvUtils.c` | `Exclusive` |
| Physical memory protection | `riscvVM.c` | `PMP` |
| Page tables, TLB, ASIDs | `riscvVM.c` | `TLB`, `Translation` |
| Decode | `riscvDecode.c`, `riscvInstructionInfo.h` | `DecodeTable`, `InstructionInfo`, `Decode` |
| Vector instructions | `riscvMorph.c` | `VectorVersion`, `VectorLayout`, `VectorShape`, `VectorDispatch`, `VectorOperand`, `VectorOp` |
| Block state: vector configuration, transaction mode | `riscvMorph.c`, `riscvUtils.c`, `riscvBlockState.h` | `VectorBlock` |
| Block state: FS and VS, flags, rounding mode, NaN boxes, misa | `riscvMorph.c`, `riscvCSR.c`, `riscvUtils.c` | `FPBlock` |
| Emitted operations of scalar instructions and of vector elements | `riscvMorph.c` | `ScalarOp`, `ElementOp`, `Emitted` |

What makes it hard: ports change and a debugger writes registers between any two
instructions.  The model caches derived values (mip, the data domain, a scheduled
fetch check, PMP permissions, aliases of TLB entries, `currentArch`, the block key)
that dozens of writers have to keep current.  Generated code is made once and run
later, in states it was not made in.  And one instruction can be a loop that
faults half-way, with operands that overlap.

## Modules

Operators keep the names of the C functions, and an action contains the trailing
calls of its function: a CSR write ends in `riscvTestInterrupt`, a mode switch in
`riscvVMRefreshMPRVDomain`, and so on.  Definitions marked "Faulty variant" are
mutations of the definition that follows them.  No specification uses them: they
are there so that each property can be shown to depend on the code it is about.

* `Hart` is one hart.  A register of single-bit fields is the set of its bits,
  `mstatus` and `dcsr` are records of the fields that steer control; addresses and
  trap values are left out, because no guard in these handlers reads them.
  `SwitchMode` is `riscvSetMode` without the step timer, for `enterDM`, where DM is
  already set and the timer cannot be armed.  `Except` stands for any instruction
  that raises a synchronous exception, traps by TW, TSR and TVM included.
* `Exclusive` is LR/SC between harts that the simulator runs one at a time.  An
  address is a granule of `lr_sc_grain` bytes; `watches` are the write callbacks
  installed in data domains; `Suspend` and `Resume` are the two uses of
  `riscvContextSwitchCB`.  `Trap`, `xRET`, `riscvReset` and
  `riscvVMRefreshMPRVDomain` are here what `Hart`'s actions of the same name do to
  the tag and the domain.  `lastLR` and `overwritten` are history variables.
  `MCExclusive` adds the symmetry.
* `PMP` has the registers, and the permissions that the domain of Machine mode and
  that of the lower modes hold for each 4-byte word.  `mapPMPInt` is the loop over
  `refinePMPRegionRange`.  `Allowed` is the abstract rule: the first matching entry
  decides.
* `TLB` has the page tables in memory, the TLB entries, and the aliases (`maps`)
  through which the simulator makes accesses without calling the model.
  `riscvVMMiss` takes several steps, one for each entry or page it handles, between
  which nothing else happens.  `Translation` is the abstract specification: a page
  is translated by the tables as they are, or were at some time since the last
  fence that covers it; permissions always depend on the present MXR and SUM.
  `TLB` instantiates it as `Promise`.  `MCTLB` defines page table entries.
* `DecodeTable` holds the rows of the decode tables, a pattern being a product of
  six sets of field values; `InstructionInfo` the attributes that say where an
  instruction's operands are; `Decode` the fetch, field extraction and checks before
  translation.  `MCDecode` gives the words to decode.
* `VectorVersion` says which version has which feature, `VectorLayout` where in the
  register file an element lies, `VectorShape` which operands are wide, masks or
  scalars and may overlap, `VectorDispatch` which callbacks an instruction has, and
  `VectorOperand` which instructions there are in a setting, where the operands of an
  element are and what the checks require.
  `VectorOp` is the loop that `emitVectorOp` and `emitScalarOp` generate, executed
  with faults and restarts.  A register location holds the element whose result was
  put there.  `MCVectorOp` takes every row of the dispatch table with overlapping
  registers.
* `VectorBlock` executes a block instruction by instruction with a translation made
  earlier, in any state in which a block may have been made and kept.  `tr` is what
  was read when it was made, `blk` is `riscvBlockState`, `csr` and `pmKey` are the
  registers and the processor's key.
* `FPBlock` does the same for FS, VS, flags, `frm` and `misa`: `made` and `known`
  are what the code was translated with and has established.  `MCFP` lists the
  configurations.
* `ScalarOp` and `ElementOp` give each callback as the sequence of VMI operations
  it emits, on registers that may coincide; `Emitted` executes one and states over
  the integers what it should compute.
* `MCGenerated` is the disjoint union of `VectorBlock`, `FPBlock` and `Emitted`.
* `HartProofs`, `ExclusiveProofs`, `PMPProofs`, `TLBProofs`, `FPBlockProofs`,
  `VectorBlockProofs`, `VectorOperandProofs` and `VectorOpProofs` hold the proofs.

### The simulator

What the library does is modelled from how the code uses it.

* `vmirtDoSynchronousInterrupt` makes the simulator call `riscvIFetchExcept` before
  the next instruction: `syncReq` records it and no instruction executes while it is
  set (`Executing`).  The call may also be made at any other fetch.  `vmirtHalt` and
  `vmirtRestartNext` set and clear `run.halted`.  The step timer may expire at any
  time once armed, which allows more than the simulator does.
* A TLB lookup may find any entry that matches; an alias is visible to accesses
  whose simulated ASID agrees in the fields of its mask.
* The decoder library gives a word the matching row of highest priority.
* Code made dependent on a polymorphic key is entered only when the keys agree;
  code made with another block mask is translated afresh; flushing dictionaries
  removes every block but the running one.
* VMI operations are modular arithmetic on small widths, with the carry or overflow
  flag.  A floating point minimum or maximum with a NaN operand may give any NaN.

## Runs

| Run | Instance | Shows |
|---|---|---|
| `interrupts` | M, S, U and N; interrupts 0 and 1; exception 9 | no interrupt lost, no sleep through a wake-up, mip composed, traps mask what remains |
| `debug` | M, S with satp; `debug_mode` halt; haltreq, resethaltreq, reset; a debugger writing DMStall | run state, DMStall, Machine privilege and step timer agree; nested entries keep the resume state; fetch mode and data domain current; privilege drops only at returns |
| `liveness` | M, U; interrupt 7; NMI, reset; single step; a debugger | an enabled interrupt is taken, a step completes |
| `exclusive` | 2 harts, 2 granules, 2 domains | reservations intact, callbacks paired |
| `pmp` | 2 entries, 4 words, all writes artifact accesses; misses of up to 4 words in both domains | writes leave no permission too many; a miss maps all of its range |
| `pmp_grain` | 3 entries, 8 words, grain 2; instruction writes | mapped ranges agree with the first matching entry; locked regions stay |
| `tlb32` | Sv32, 2 tables, 2 ASIDs, accesses of up to 2 pages, save and restore | aliases accounted for, `Translation` implemented, misses resolve |
| `tlb64` | Sv39 and Sv48 with one self-referring table; all MXR and SUM; artifact accesses | `Translation` implemented |
| `decode` | RV32, and RV64 in every vector version; all halfwords, corners of every 32-bit pattern | one meaning, compressed forms agree, no bit ignored, nothing of the other XLEN |
| `vector_op` | VLEN 64, SLEN 32; every dispatch row; up to 2 faults | no stale source, body and tail exact, elements once and in order, fault-only-first, lanes, termination |
| `generated` | VLENB 4; 6 FP configurations; 8-bit registers with 4-bit words | what blocks take for granted is true; emitted operations compute the instruction |
| `claim_dirty` | FP mode `write_any`, loops that process no element | the finding below |

### Bounds

Each specification has CONSTANTS that bound its environment, named in its
declarations.

* `Hart`: `Interrupts`, `Exceptions`, `Written` (what software writes),
  `ArtifactWrites` (what a debugger writes) and `Nets`.  Two interrupts can have two
  target modes, or one mode and two priorities; one exception shows both
  delegation outcomes.  `debug_mode` "interrupt" and exceptions delegated to U mode
  are covered by the proofs only.
* `Exclusive` has no bound but its sets: two granules distinguish a store to the
  reserved one, two domains make a callback in an old domain possible.
* `PMP`: `AddrBits`, `Privs`, `WrittenModes`, `LockedModes`, `MissModes`, `MissWords`,
  `Artifact`.  Two entries show every way in which one conceals, reveals or bounds
  the other; the range computation is checked with three.
* `TLB`: `Tables`, `PTEs`, `PTEWrites`, `Roots`, `MissVAs`, `MissPages`, `MaxEntries`,
  `Saves`.  Tables have two entries, which gives superpages, pages in them, and two
  levels of each; four TLB entries hold overlapping ones of two address spaces.
* `Decode`: any halfword; of a 32-bit pattern each field takes its least and
  greatest value.  The properties depend on fields, not on all register numbers.
* `VectorOp`: `MaxFaults` 2 lets a restarted instruction fault again.  The
  registers of an instruction are the same, overlap or are apart, aligned or not.
* `VectorBlock` and `FPBlock`: an AVL of 0 and one above VLMAX, vstart zero and not,
  versions with and without zeroed tails, a valid and an invalid rounding mode.
* `Emitted`: 8, 4 and 2 bits stand for 64, 32 and 8, with values at every edge.

### Fairness

`liveness` assumes weak fairness of a scheduled fetch check (the simulator makes that
call before it executes another instruction) and of the expiry of an armed step
timer; nothing of instructions, ports or the debugger.  `vector_op` assumes that the
emitted loop keeps executing; faults are bounded, a handler that never makes
progress not being the instruction's doing.  No other run uses fairness.

## Where code and documentation disagree

`claim_dirty` ends in a violation.  `updateFS` (riscvMorph.c:692) leaves out a store
to FS when an earlier instruction of the block has emitted one, also if that one is in
a vector loop that processes no element.  With `mstatus_fs_mode` "write_any", for which
riscvDoc.c:657 says FS is set Dirty "by any executed instruction that writes an FPR",
a later write of an FPR in the same block then leaves FS as it was.  The run
`generated` and two theorems exclude exactly this: such loops process an element
(`"write_any" \notin Skipping`).

Others were met while modelling.  They have no run, and where a property depends on
one it says so.

* riscvDoc.c:1125 says the hart is halted while `nmi` is high; the code acts on the
  falling edge (riscvExceptions.c:1696), and ignores one in Debug mode.
* riscvDoc.c:1225 says writing 1, then 0, to `haltreq` enters Debug mode; the fetch
  check samples the level (riscvExceptions.c:1254), so the 0 cancels.
* Reset clears mstatus after its last mode switch (riscvExceptions.c:1604), so the
  data domain may remain the one of MPRV: see `DataDomainTracks`, which also excepts
  a write of dcsr.
* Reset does not restart a hart stalled through `DMStall` outside Debug mode, although
  a comment in `riscvReset` says "from any halted state"; writing 0 to `DMStall` does
  not leave the halted state if Debug mode was entered from WFI; and reset clears
  `dcsr.nmip`, which "mirrors" `nmi`, while the port is high.
* Reset leaves the simulated ASID as it was (riscvCSR.c:2761 and the comment at 591).
* A write of `pmpaddr[i]` moves the lower bound of a TOR entry `i + 1` without
  invalidating that entry (riscvVM.c:2327); ChangeLog.md:382 says incorrect behaviour
  when region mappings change was fixed.  `WritesInvalidate` names this case, and
  the proof shows that there is no other.
* When page tables changed without a fence, entries can overlap, and a miss that
  discards one of them (riscvVM.c:1886) can take the alias of a page it handled
  before.  The simulator misses again: `MissResolves` names the case.
* Vector: vslidedown by zero in place clears its source (riscvMorph.c:8162); the
  overlap check of a segment load looks at its first field only; in version 0.7.1 a
  store zeroes the tail of its data register (riscvMorph.c:5475), and the tail of a
  widened result is zeroed in part.  `VectorOperand` names the three
  cases (`SlidInPlace`, `IndexOverlapped`, `TailMistaken`), and `ExceptionAssumption`
  of `VectorOp` leaves them, and nothing else, out.
* `applyParams` (riscvMain.c:262) accepts an SLEN below ELEN, with which an element
  would be wider than a stripe; `Setting` leaves that out.

## Proofs

The theorems hold for every value of the constants that satisfies the named
assumptions, which TLC evaluates on every instance: `ConfigAssumption` (legal sets of
modes; S and U interrupts need their mode), `ExclusiveAssumption`, `PMPAssumption`,
`TLBAssumption`, `VBAssumption`, `FPAssumption` (types; only initially set bits of misa
are writable, which riscvMain.c:346 ensures), `WholeGroups` (a register group
consists of registers), `LayoutAssumption` (SLEN divides VLEN), `InstructionAssumption`
(an instruction is what the decoder can produce, in a setting that `vsetvl` can leave)
and `ExceptionAssumption` (not one of the cases listed above).  `PowersOfTwo` and `AddressBits` state facts about `2^n` that
the provers do not know.  They restrict only sizes: `vmiPageMax` divides the page sizes
above it, and an address is as wide as the implemented modes need.

* **Hart.**  `TypeCorrect`: `TypeOK` is inductive as it stands.  The delicate point is
  `SPP`: a trap to S mode stores the mode in one bit, which is enough because
  `getModeX` never returns a mode below the current one.  `InterruptsNotLost`: a step
  calls `riscvTestInterrupt`, or leaves nothing enabled, or enables nothing new, since
  after a trap to mode X only interrupts above X are enabled and those were before.
  `FetchMasksOthers`: the interrupt selected has the highest target mode.
  `PendingExact`, `PrivilegeKept` (with `DelegationImplemented`: delegation is only to
  modes there are).  `RunStateConsistent`, `SleepsOnlyWhenIdle`, `StallRegisterExact` go
  by `RunStep`, the ways in which a step can change the run state; `DebugIsMachine`,
  `StepTimerArmed`, `CodeModeCurrent` by `ModeStep`; `DebugConsistent` combines three of
  them.  `ResumeStateKept` and `DataDomainFollows` are action properties, by action.
* **Exclusive.**  `ReservationIntact` is not inductive: a store ends the right
  reservations only because suspended harts are watched, and a restore brings back
  intact ones only if the image had them.  `IInv` conjoins `TypeOK`,
  `WatchedWhileSuspended` and `SavedIntact`; it gives `ReservationsIntact` and
  `SuspendedWatched`.  `CallbacksPaired` compares the callbacks with those that the
  tags and domains call for, action by action.
* **PMP.**  `LockedRegionsFixed`: a region is a function of its own registers and, in
  TOR mode, of the address below (`RegionLocal`), and the write functions refuse to
  change these; it assumes that only instructions write, as artifact accesses pass
  locks.  `RangesUniform`: each turn of the loop over `refinePMPRegionRange` keeps the
  range within one outcome of the entries seen so far (`RefineRight`).  `MissesMapRange`:
  the ranges mapped one after the other leave no gap.  Both loops are recursive
  functions, and what they compute is shown by taking a least counterexample
  (`LeastNat`).  `WritesInvalidated`: a word of a domain can only keep a permission
  that is withdrawn if the first matching entry changed, and then the word is in the
  old or the new region of the entry written, which is invalidated.
* **TLB.**  `AliasesAccounted` is not inductive: whether an entry that is found again
  may leave its aliases depends on what they grant.  `TLBInv` adds that the privileges
  of an alias are those of its entry under the entry's own MXR and SUM, without writing
  unless it is dirty (`AliasOf`); that an entry larger than `vmiPageMax` is a
  multiple of it, so that an alias of a part stays within the entry; and that the
  simulated ASID, the image and the access under way agree with the registers.
  `TLBInvariant`, `EveryAliasAccounted` and `MissesResolve` follow.
  `TLBImplementsTranslation` is the refinement, for the initial states and for every
  step: a TLB step is a step of `Translation` or a stutter under the mapping that
  takes each entry to a translation.  That a walk finds what
  `Translation` reads from the tables is shown level by level; there are at most four.
* **FPBlock.**  `FPInv` relates the rounding check flag, the frm value and the code
  that exists; it gives `ArchStaysCurrent` and `DImpliesF`.  `DirtyInv` says that what a
  block knows to be Dirty is, and what the program changed is Dirty or has flags
  pending that will make it so.  An instruction is summarised by `Effect` (it makes FS,
  VS or neither dirty) and `LearnsTrue` (it learns only what it did); both hold of
  every instruction, `LearnsTrue` unless a `write_any` loop is skipped.
  `ChangesReported` and `KnowledgeStaysTrue` assume that none is.
* **VectorBlock.**  `VBInv`: the key is that of vtype and vl, with the transaction bit
  only once that mode has been used, when every older block is gone (`StateInv`); a
  block runs with the key it was entered with (`BlockInv`); what it knows is true
  (`KnownInv`).  `TranslationStaysCurrent`, `AccessesInMode` and `ElidedSetsHarmless`
  follow.  For `ElisionsStayHarmless` `TopInv` adds that knowledge of zero tops exists
  only in the version that zeroes tails, while vl is known and below its maximum.
* **VectorOp.**  `LoopInv` says that the selected elements below vstart have been
  processed, in order, also while a trap is handled: it gives `ElementsProcessedOnce` and
  `FaultOnlyFirstHolds`.  `CheckInv` adds that an element in the loop has passed the
  checks, so that every operand is a group of whole registers; `ColumnsAligned` follows
  from where striping puts an element (`VectorOperandProofs`).  `SourcesNotOverwritten` is
  not inductive: `SourceInv` bounds what has been written (`Overwritten`: the
  destinations of the elements below vstart, the fields of a faulted try of the element
  at vstart, and registers cleared at the start) and, for vcompress, how many
  elements have been packed.  Then every callback reads untouched locations (`Fine`): by
  case on the dispatch table, whose rows `RowsClassified` sorts into classes, an operand
  is apart from the destination (`validateNoOverlap`), or coincides with it and has its
  elements in the same places (`SourceApart`), or is a mask, an index or a source of a
  slide in a register of its own.

Leaves that need no arithmetic name Zenon as their prover, by citation or with USE at
the start of a proof.  What depends on the constants only is in `VectorOperandProofs`,
away from the variables of `VectorOp`.  A run from nothing takes a few minutes for a
module, twenty for `VectorOpProofs`.

Only model-checked: the liveness properties (`InterruptServed`, `StepCompletes`,
`Completes`), since fairness is outside what the prover handles; the properties of
`Decode`, which are about the contents of tables; `BodyExact` and `TailZeroed`, the
values that the loop leaves; and
`ScalarCorrect` and `ElementCorrect`, which are arithmetic modulo powers of two.

## Not modelled

* Counters: their offsets depend on what `vmirtGetICount` returns within an
  instruction, which is not in this repository.  The CLIC: its registers are
  declared, but nothing selects interrupts through them in this version.
* `Hart`: `riscvNetSave` and `riscvNetRestore`.  `Exclusive`: a debugger's write of
  LRSCAddress.  `PMP`: split code and data domains, and the detail of a fault.
* `TLB`: reset, walks that are artifact accesses by CSR callbacks of derived models,
  accesses that wrap around, and PMP and PMA attributes of what is mapped.
* `Decode`: what only the disassembler reads.  `VectorOp`: knowledge of registers
  whose top is already zero (it is in `VectorBlock`), a shape no instruction uses.
* `VectorBlock`: knowledge a block inherits from the one it continues (`prevState`),
  widening destinations and vcompress, a transaction aborted inside a vector access;
  `riscvSetTMode` is called between blocks only.  What scalar writes make known to be
  zero is not part of `TopZeroKnown`.
* `FPBlock`: endianness, the values of vxrm, writes of I and E of misa.  After a
  debugger's write of the flags they are not the program's changes any more.
* `ScalarOp` and `ElementOp`: endianness, transactional accesses, delay slots of
  extension libraries, bit manipulation; one small floating point format stands for
  all.  Floating point arithmetic itself is done by the library.
* Disassembly and documentation text, register enumeration for debuggers,
  semihosting, construction-time lists, derivation of a configuration from parameters
  and the YAML converter, which have no run-time state.
