----------------------------- MODULE VectorBlock -----------------------------
(***************************************************************************)
(* What the code generator believes about vector and transaction state     *)
(* while it translates a code block, against the state the block runs in.  *)
(*                                                                         *)
(* A block is translated once and executed many times.  Translating it,    *)
(* the generator reads vtype and vl as they are then (`tr') and records in *)
(* riscvBlockState what each instruction has established (`blk'); the code *)
(* is reused later whenever the polymorphic key it was made dependent on   *)
(* (emitCheckPolymorphic) is the processor's key on entry to the block.    *)
(* Here a block is executed instruction by instruction, with a translation *)
(* made earlier in any state the dictionaries may have a block from.       *)
(*                                                                         *)
(* That dependent code is entered only when the keys agree, and that       *)
(* vmimtEndBlock ends a block after the instruction, is the simulator's    *)
(* part (external).  A register is the number of bytes, counted from its   *)
(* lowest, that may be non-zero; only the version that zeroes tails looks  *)
(* at it.                                                                  *)
(***************************************************************************)
EXTENDS VectorVersion, FiniteSets

CONSTANTS
  VLENB,       \* bytes of a vector register
  SEW_min,
  ELEN,
  VSEWs,       \* the encodings of vsew an instruction gives
  VLMULs,      \* the encodings of vlmul an instruction gives
  AVLs,        \* the vector lengths an instruction asks for
  VStarts,     \* the values the vstart register is written with
  VRegs,       \* vector registers, 0 to a power of two
  RunVersions  \* the versions a processor may have

(* vsew has three bits and vlmul two. *)
ASSUME VBAssumption ==
  /\ VLENB \in Nat \ {0} /\ SEW_min \in Nat /\ ELEN \in Nat
  /\ VSEWs \subseteq 0..7 /\ VLMULs \subseteq 0..3
  /\ AVLs \subseteq Nat /\ VStarts \subseteq Nat /\ VRegs \subseteq Nat

VARIABLES
  version,
  csr,        \* vill, vsew, vlmul and vl
  vstart,
  pmKey,
  useTMode,
  oldest,     \* useTMode when the oldest block in the dictionaries was made
  live,       \* a block is executing
  tr,         \* csr, key and useTMode when that block was translated
  entry,      \* pmKey when the block was entered
  blk,        \* riscvBlockState at the instruction reached
  nz,         \* bytes of each register that may be non-zero
  byScalar,   \* history: registers known zero-topped from a scalar write
  plain       \* history: how the last access was made, and how it should be

vbVars ==
  <<version, csr, vstart, pmKey, useTMode, oldest, live, tr, entry, blk, nz, byScalar, plain>>

BMin(a, b) == IF a < b THEN a ELSE b
BMax(a, b) == IF a > b THEN a ELSE b

-----------------------------------------------------------------------------
(* vtype, vl and the key                                                   *)

vsewToSEW(vsew) == 8 * 2^vsew
vlmulToVLMUL(vlmul) == 2^vlmul

(* There are as many registers as the largest group has, or a multiple. *)
ASSUME WholeGroups ==
  \A r \in VRegs, vlmul \in VLMULs :
    r % vlmulToVLMUL(vlmul) = 0 => r..(r + vlmulToVLMUL(vlmul) - 1) \subseteq VRegs

riscvValidSEW(vsew) == vsewToSEW(vsew) \in SEW_min..ELEN

getMaxVL(c) == (8 * VLENB * vlmulToVLMUL(c.vlmul)) \div vsewToSEW(c.vsew)

VLCLASSMT_UNKNOWN == 0
VLCLASSMT_ZERO    == 1
VLCLASSMT_NONZERO == 2
VLCLASSMT_MAX     == 3

PMK_TRANSACTION == 32768

VectorKey(c) ==
  IF c.vill THEN VLCLASSMT_UNKNOWN + 4
  ELSE (c.vlmul + 4 * c.vsew) * 4
         + (IF c.vl = 0 THEN VLCLASSMT_ZERO
            ELSE IF c.vl = getMaxVL(c) THEN VLCLASSMT_MAX
            ELSE VLCLASSMT_NONZERO)

(* The key of registers c where it was k; the low byte is the vector part. *)
riscvRefreshVectorPMKey(c, k) == (k - (k % 256)) + VectorKey(c)

riscvSetVL(c, vl) == [c EXCEPT !.vl = BMin(vl, getMaxVL(c))]

riscvSetVType(c, vill, vsew, vlmul) == [vill |-> vill, vsew |-> vsew, vlmul |-> vlmul, vl |-> c.vl]

(* The registers after resetVLVType and setVLSEWLMULInt. *)
resetVLVType == riscvSetVL(riscvSetVType(csr, ~riscvValidSEW(0), 0, 0), 0)

setVLSEWLMULInt(vl, vsew, vlmul) ==
  IF riscvValidSEW(vsew) THEN riscvSetVL(riscvSetVType(csr, FALSE, vsew, vlmul), vl)
                         ELSE riscvSetVL(riscvSetVType(csr, TRUE, 0, 0), 0)

setMaxVLSEWLMUL(vsew, vlmul) ==
  setVLSEWLMULInt((8 * VLENB * vlmulToVLMUL(vlmul)) \div vsewToSEW(vsew), vsew, vlmul)

(* Every state of the registers: what a restored or translation state is. *)
Registers ==
  {c \in [vill : {FALSE}, vsew : {v \in VSEWs : riscvValidSEW(v)}, vlmul : VLMULs,
          vl : 0..(8 * VLENB)] : c.vl <= getMaxVL(c)}
    \cup {[vill |-> TRUE, vsew |-> 0, vlmul |-> 0, vl |-> 0],
          [vill |-> ~riscvValidSEW(0), vsew |-> 0, vlmul |-> 0, vl |-> 0]}

-----------------------------------------------------------------------------
(* Blocks                                                                  *)

NoKnowledge ==
  [SEWMt |-> 0, VLMULMt |-> 0, VLClassMt |-> VLCLASSMT_UNKNOWN, VStartZeroMt |-> FALSE,
   single |-> {}, group |-> {}]

NoBlock == [csr |-> [vill |-> TRUE, vsew |-> 0, vlmul |-> 0, vl |-> 0],
            pmKey |-> 4, useTMode |-> FALSE]

(* Every state a block still in the dictionaries may have been made in. *)
Translations ==
  {[csr |-> c, pmKey |-> VectorKey(c) + t, useTMode |-> u] :
     c \in Registers, t \in {0, PMK_TRANSACTION}, u \in {oldest, useTMode}}

(* forceVStart0 is false: vstart has writable bits. *)
riscvStartBlock ==
  /\ ~live
  /\ live' = TRUE
  /\ tr' \in {t \in Translations : t.pmKey >= PMK_TRANSACTION => t.useTMode}
  /\ entry' = pmKey
  /\ blk' = NoKnowledge
  /\ byScalar' = {}
  /\ UNCHANGED <<version, csr, vstart, pmKey, useTMode, oldest, nz, plain>>

(* Leaving the block: riscvEndBlock when it has been translated. *)
EndBlock ==
  /\ live' = FALSE
  /\ tr' = NoBlock
  /\ entry' = 0
  /\ blk' = NoKnowledge
  /\ byScalar' = {}

(* The block is made dependent on the key: it runs only where they agree. *)
emitCheckPolymorphic == entry = tr.pmKey

(* The block goes on with knowledge b, unless the instruction ended it. *)
Continue(ends, b, s) ==
  IF ends THEN EndBlock
  ELSE /\ blk' = b
       /\ byScalar' = s
       /\ UNCHANGED <<live, tr, entry>>

setVStartZero(b) == [b EXCEPT !.VStartZeroMt = TRUE]

-----------------------------------------------------------------------------
(* Loads and stores                                                        *)

(* Whether the code was generated for transaction mode. *)
inTransactionMode == tr.pmKey >= PMK_TRANSACTION

ModeChecked == tr.useTMode => emitCheckPolymorphic

(* emitLoadCommonMBO and emitStoreCommonMBO: the callbacks of a            *)
(* transactional access may leave transaction mode; the block has ended.   *)
emitLoadStoreCommonMBO ==
  /\ live
  /\ ModeChecked
  /\ plain' = <<~inTransactionMode, pmKey < PMK_TRANSACTION>>
  /\ pmKey' \in {pmKey} \cup (IF inTransactionMode THEN {pmKey % PMK_TRANSACTION} ELSE {})
  /\ Continue(inTransactionMode, blk, byScalar)
  /\ UNCHANGED <<version, csr, vstart, useTMode, oldest, nz>>

(* Called between blocks by an extension; vmirtFlushAllDicts the first time. *)
riscvSetTMode(enable) ==
  /\ ~live
  /\ useTMode' = (useTMode \/ enable)
  /\ oldest' = (oldest \/ enable)
  /\ pmKey' = (pmKey % PMK_TRANSACTION) + (IF enable THEN PMK_TRANSACTION ELSE 0)
  /\ UNCHANGED <<version, csr, vstart, live, tr, entry, blk, nz, byScalar, plain>>

-----------------------------------------------------------------------------
(* Vector instructions.  One is a record of                                *)
(*   to     the destination: a vector group "V", a predicate "P", the      *)
(*          first element of a register "S", or no vector register "X"     *)
(*   r      its register                                                   *)
(*   loop   emitVectorOp, which iterates, rather than emitScalarOp         *)
(*   whole  a whole-register instruction: "MV", "LD_ST" or "NA"            *)
(*   mem    it accesses memory: "ld", "ff" (fault-only-first), "st", "no";  *)
(*          the data register of a store counts as its destination         *)
(*   vs0    it requires vstart to be zero                                  *)
(*   nochk  noVStartCheck of its shape                                     *)

requireZeroTail == riscvVFSupport(version, "ZERO_TAIL")

Scalar(to) ==
  [to |-> to, loop |-> FALSE, whole |-> "NA", mem |-> "no", vs0 |-> FALSE, nochk |-> to = "X",
   r |-> 0]
Loop(to, mem, vs0) ==
  [to |-> to, loop |-> TRUE, whole |-> "NA", mem |-> mem, vs0 |-> vs0, nochk |-> FALSE,
   r |-> 0]
Whole(w, mem) ==
  [to |-> "V", loop |-> TRUE, whole |-> w, mem |-> mem, vs0 |-> FALSE, nochk |-> FALSE,
   r |-> 0]

(* Versions that zero tails have no whole-register instructions. *)
Kinds ==
  {Scalar("S"), Scalar("X"), Loop("V", "no", FALSE), Loop("V", "no", TRUE), Loop("V", "ff", FALSE),
   Loop("V", "st", FALSE), Loop("P", "no", FALSE)}
    \cup (IF requireZeroTail THEN {} ELSE {Whole("MV", "no"), Whole("LD_ST", "ld")})

VectorInstructions ==
  {i \in {[k EXCEPT !.r = q] : k \in Kinds, q \in VRegs} : i.to = "X" => i.r = 0}

isWhole(i) == i.whole # "NA"

(* getVLMULMt, getSEWMt and getVLClassMt: what is not known is read from   *)
(* the registers of the processor that translates.                         *)
getVLMULMt(b) == IF b.VLMULMt # 0 THEN b.VLMULMt ELSE vlmulToVLMUL(tr.csr.vlmul)
getSEWMt(b)   == IF b.SEWMt # 0 THEN b.SEWMt ELSE vsewToSEW(tr.csr.vsew)

getVLClassMt(b) ==
  IF b.VLClassMt # VLCLASSMT_UNKNOWN THEN b.VLClassMt
  ELSE IF tr.csr.vl = 0 THEN VLCLASSMT_ZERO
  ELSE IF tr.csr.vl >= (8 * VLENB * getVLMULMt(b)) \div getSEWMt(b) THEN VLCLASSMT_MAX
  ELSE VLCLASSMT_NONZERO

KnowsType(b) == b.SEWMt # 0 /\ b.VLMULMt # 0 /\ b.VLClassMt # VLCLASSMT_UNKNOWN

(* fillVectorOperationData *)
fillVectorOperationData(i, b) ==
  IF isWhole(i) THEN b
  ELSE [b EXCEPT !.VLMULMt = getVLMULMt(b), !.SEWMt = getSEWMt(b), !.VLClassMt = getVLClassMt(b)]

Class(i, b) == IF isWhole(i) THEN VLCLASSMT_MAX ELSE b.VLClassMt

checkVStartZero(i, b) == [b EXCEPT !.VStartZeroMt = @ \/ i.vs0]

(* Where the loop stops, and the number of elements of the type it uses. *)
VLMAXOp == VLENB
Limit(i) == IF isWhole(i) THEN VLMAXOp ELSE csr.vl

(* handleNonZeroVStart: an iterating instruction moves vstart. *)
handleNonZeroVStart(i, b) == [b EXCEPT !.VStartZeroMt = @ /\ ~i.loop]

Unchecked(i) == i.whole = "MV" \/ i.nochk

(* vstart when the first element is processed. *)
StartsAt(i, b) == IF ~b.VStartZeroMt /\ Unchecked(i) THEN 0 ELSE vstart

Skips(i, b) == ~b.VStartZeroMt /\ ~Unchecked(i) /\ vstart >= Limit(i)

-----------------------------------------------------------------------------
(* Register contents and top-zero knowledge                                *)

Group(i, b) == i.r..(i.r + b.VLMULMt - 1)

BytesIn(bytes, first, q) == BMax(0, BMin(VLENB, bytes - VLENB * (q - first)))

(* The bytes of each register that elements below n of the destination     *)
(* occupy.                                                                 *)
Occupied(i, b, n) ==
  [q \in VRegs |->
     IF i.to = "V" /\ q \in Group(i, b) THEN BytesIn((n * b.SEWMt) \div 8, i.r, q)
     ELSE IF i.to = "P" /\ q = i.r THEN (n * (b.SEWMt \div b.VLMULMt)) \div 8
     ELSE 0]

Written(i, b, n) == [q \in VRegs |-> BMax(nz[q], Occupied(i, b, n)[q])]

Targets(i, b) == CASE i.to = "V" -> Group(i, b) [] i.to = "P" -> {i.r} [] OTHER -> {}

SingleView(i, b) == i.to = "P" \/ b.VLMULMt = 1

(* requireTopZero: the knowledge after it. *)
requireTopZero(i, b) ==
  IF SingleView(i, b)
  THEN [b EXCEPT !.single = @ \cup Targets(i, b), !.group = @ \ Targets(i, b)]
  ELSE [b EXCEPT !.group = @ \cup Targets(i, b), !.single = @ \ Targets(i, b)]

(* Whether it asks for the tail to be zeroed. *)
TopUnknown(i, b) == ~(Targets(i, b) \subseteq (IF SingleView(i, b) THEN b.single ELSE b.group))

updateScalarTopZero(i, b) == [b EXCEPT !.single = @ \cup {i.r}, !.group = @ \ {i.r}]

(* endVectorOp: the knowledge, the registers and the history after it,     *)
(* where the body left the registers as `file'.                            *)
TopZeros(i, b) == requireZeroTail /\ Class(i, b) # VLCLASSMT_MAX /\ i.to # "X"

endVectorOp(i, b) ==
  IF ~TopZeros(i, b) THEN b
  ELSE IF i.to = "S" THEN updateScalarTopZero(i, b)
  ELSE requireTopZero(i, b)

zeroVdPdTop(i, b, file) ==
  IF TopZeros(i, b) /\ i.to # "S" /\ TopUnknown(i, b)
  THEN [q \in VRegs |-> IF q \in Targets(i, b) THEN BMin(file[q], Occupied(i, b, csr.vl)[q])
                                               ELSE file[q]]
  ELSE file

byScalarAfter(i, b) ==
  IF ~TopZeros(i, b) THEN byScalar
  ELSE IF i.to = "S" THEN byScalar \cup {i.r}
  ELSE IF TopUnknown(i, b) THEN byScalar \ Targets(i, b)
  ELSE byScalar

(* The registers after the body: a scalar write clears the rest of its     *)
(* register.  Only the version that zeroes tails is followed.              *)
BodyDone(i, b, n) ==
  IF ~requireZeroTail THEN nz
  ELSE IF i.to = "S" THEN [nz EXCEPT ![i.r] = b.SEWMt \div 8]
  ELSE IF i.mem = "st" THEN nz
  ELSE Written(i, b, n)

-----------------------------------------------------------------------------
(* The execution of a vector instruction.  A transaction that one of its   *)
(* accesses aborts is left out.                                            *)

(* Knowledge when the instruction is legal as far as vstart. *)
Known(i) == checkVStartZero(i, fillVectorOperationData(i, blk))

(* emitCheckVILL passed, and the code was generated for this key. *)
Translated(i) ==
  /\ live
  /\ ~(tr.csr.vill /\ ~isWhole(i))
  /\ ~isWhole(i) /\ ~KnowsType(blk) => emitCheckPolymorphic
  /\ (i.mem # "no" => ModeChecked)

Aligned(i) == i.to = "V" /\ ~isWhole(i) => i.r % Known(i).VLMULMt = 0

Access(i) ==
  /\ plain' = IF i.mem = "no" THEN plain ELSE <<~inTransactionMode, pmKey < PMK_TRANSACTION>>
  /\ UNCHANGED <<version, useTMode, oldest>>

(* An exception: the block is left. *)
Illegal ==
  /\ EndBlock
  /\ UNCHANGED <<version, csr, vstart, pmKey, useTMode, oldest, nz, plain>>

(* vtype.vill is read while translating. *)
emitCheckVILL(i) == live /\ tr.csr.vill /\ ~isWhole(i) /\ Illegal

IllegalVStart(i) ==
  /\ Translated(i)
  /\ i.vs0 /\ ~blk.VStartZeroMt /\ vstart # 0
  /\ Illegal

Executes(i) ==
  /\ Translated(i)
  /\ Aligned(i)
  /\ ~(i.vs0 /\ ~blk.VStartZeroMt /\ vstart # 0)

Empty(i) == Class(i, Known(i)) = VLCLASSMT_ZERO /\ i.to # "X"

(* setVStartZero at the end of every instruction, where vstart is v. *)
Finish(b, v) == vstart' = IF b.VStartZeroMt THEN v ELSE 0

(* No element to process: not even vstart is looked at. *)
VectorZero(i) ==
  /\ Executes(i)
  /\ Empty(i)
  /\ Finish(Known(i), vstart)
  /\ Continue(FALSE, setVStartZero(Known(i)), byScalar)
  /\ UNCHANGED <<version, csr, pmKey, useTMode, oldest, nz, plain>>

(* startVectorOp, the body unless it is skipped, and endVectorOp; an       *)
(* iterating body leaves vstart at its limit.                              *)
VectorDone(i) ==
  LET b == handleNonZeroVStart(i, Known(i))
      file == IF Skips(i, Known(i)) THEN nz ELSE BodyDone(i, b, Limit(i))
  IN  /\ Executes(i)
      /\ ~Empty(i)
      /\ nz' = zeroVdPdTop(i, b, file)
      /\ Finish(b, IF i.loop THEN Limit(i) ELSE StartsAt(i, Known(i)))
      /\ Continue(i.mem = "ff" \/ (i.mem # "no" /\ inTransactionMode),
                  setVStartZero(endVectorOp(i, b)), byScalarAfter(i, b))
      /\ Access(i)
      /\ UNCHANGED <<csr, pmKey>>

(* The elements an access of i may fault at. *)
FaultsAt(i) == {k \in StartsAt(i, Known(i))..(Limit(i) - 1) : ~Skips(i, Known(i))}

(* An access faults and the exception is taken, with vstart its element.   *)
VectorFault(i) ==
  /\ Executes(i)
  /\ i.mem # "no" /\ ~Empty(i)
  /\ \E k \in FaultsAt(i) :
       /\ i.mem = "ff" => k = 0
       /\ vstart' = k
       /\ nz' = BodyDone(i, Known(i), k)
  /\ EndBlock
  /\ Access(i)
  /\ UNCHANGED <<csr, pmKey>>

(* Faulty variant: the key is not refreshed. *)
handleFF_NoKey(i) ==
  /\ Executes(i)
  /\ i.mem = "ff" /\ ~Empty(i)
  /\ \E k \in FaultsAt(i) \ {0} :
       /\ csr' = riscvSetVL(csr, k)
       /\ nz' = BodyDone(i, Known(i), k)
  /\ vstart' = 0
  /\ UNCHANGED pmKey
  /\ EndBlock
  /\ Access(i)

(* handleFF: the exception is suppressed and vl is cut; the code that      *)
(* zeroes the tail is jumped over, and the block ends.                     *)
handleFF(i) ==
  /\ Executes(i)
  /\ i.mem = "ff" /\ ~Empty(i)
  /\ \E k \in FaultsAt(i) \ {0} :
       /\ csr' = riscvSetVL(csr, k)
       /\ nz' = BodyDone(i, Known(i), k)
  /\ vstart' = 0
  /\ pmKey' = riscvRefreshVectorPMKey(csr', pmKey)
  /\ EndBlock
  /\ Access(i)

-----------------------------------------------------------------------------
(* vsetvl, vsetvli and writes of vstart                                    *)

(* getSetVLOption, by whether rs1 and rd are the zero register. *)
getSetVLOption(rs1zero, rdzero) ==
  IF ~rs1zero THEN "SVT_SET"
  ELSE IF riscvVFSupport(version, "SETVLZ_MAX") THEN "SVT_MAX"
  ELSE IF riscvVFSupport(version, "SETVLZ_PRESERVE") \/ rdzero THEN "SVT_PRESERVE"
  ELSE "SVT_MAX"

(* The function handleVSetVLArg1 selects, called: the new registers. *)
handleVSetVLArg1(option, avl, vsew, vlmul) ==
  CASE option = "SVT_SET" -> setVLSEWLMULInt(avl, vsew, vlmul)
    [] option = "SVT_MAX" -> setMaxVLSEWLMUL(vsew, vlmul)
    [] option = "SVT_PRESERVE" -> setVLSEWLMULInt(csr.vl, vsew, vlmul)

(* emitVSetVLRRRCB, emitVSetVLRRCCB and emitVSetVLRRCBadSEW: the registers *)
(* become c and the block ends.                                            *)
Configure(c) ==
  /\ csr' = c
  /\ pmKey' = riscvRefreshVectorPMKey(c, pmKey)
  /\ EndBlock

Unconfigured(b) == Continue(FALSE, setVStartZero(b), byScalar) /\ UNCHANGED <<csr, pmKey>>

emitVSetVLRRR(rs1zero, rdzero, avl, vsew, vlmul) ==
  /\ live
  /\ Configure(handleVSetVLArg1(getSetVLOption(rs1zero, rdzero), avl, vsew, vlmul))
  /\ Finish(blk, vstart)
  /\ UNCHANGED <<version, useTMode, oldest, nz, plain>>

(* Faulty variant: the class of vl is not looked at. *)
SameConfiguration_AnyVL(option, vsew, vlmul) ==
  /\ option # "SVT_SET"
  /\ blk.SEWMt = vsewToSEW(vsew) /\ blk.VLMULMt = vlmulToVLMUL(vlmul)

(* emitVSetVLRR0MaxVL and emitVSetVLRR0SameVL: known to change nothing. *)
SameConfiguration(option, vsew, vlmul) ==
  /\ option # "SVT_SET"
  /\ blk.SEWMt = vsewToSEW(vsew) /\ blk.VLMULMt = vlmulToVLMUL(vlmul)
  /\ option = "SVT_MAX" => blk.VLClassMt = VLCLASSMT_MAX

(* The knowledge emitVSetVLRR0MaxVL leaves after a change is of no use:    *)
(* the block has ended.                                                    *)
emitVSetVLRRC(rs1zero, rdzero, avl, vsew, vlmul) ==
  LET option == getSetVLOption(rs1zero, rdzero)
  IN  /\ live
      /\ IF riscvValidSEW(vsew) /\ SameConfiguration(option, vsew, vlmul)
         THEN Unconfigured(blk)
         ELSE Configure(handleVSetVLArg1(option, avl, vsew, vlmul))
      /\ Finish(blk, vstart)
      /\ UNCHANGED <<version, useTMode, oldest, nz, plain>>

(* A write of vstart by an instruction; zero is known when it is csrrwi 0. *)
riscvWVStart(v, immediate) ==
  /\ live
  /\ vstart' = v
  /\ Continue(FALSE, [blk EXCEPT !.VStartZeroMt = immediate /\ v = 0], byScalar)
  /\ UNCHANGED <<version, csr, pmKey, useTMode, oldest, nz, plain>>

-----------------------------------------------------------------------------
(* Between blocks                                                          *)

(* riscvCSRReset, and a state saved earlier restored by riscvCSRRestore. *)
Replace(c) ==
  /\ ~live
  /\ csr' = c
  /\ pmKey' = riscvRefreshVectorPMKey(c, pmKey)
  /\ UNCHANGED <<version, useTMode, oldest, live, tr, entry, blk, nz, byScalar, plain>>

riscvCSRReset == Replace(resetVLVType) /\ UNCHANGED vstart

(* The writable vstart comes back through the register interface. *)
riscvCSRRestore == \E c \in Registers, v \in VStarts : Replace(c) /\ vstart' = v

(* The block is left by a branch, an interrupt or its length. *)
Leave == live /\ EndBlock /\ UNCHANGED <<version, csr, vstart, pmKey, useTMode, oldest, nz, plain>>

VBInit ==
  /\ version \in RunVersions
  /\ csr = [vill |-> ~riscvValidSEW(0), vsew |-> 0, vlmul |-> 0, vl |-> 0]
  /\ vstart = 0
  /\ pmKey = VectorKey(csr)
  /\ useTMode = FALSE /\ oldest = FALSE
  /\ live = FALSE /\ tr = NoBlock /\ entry = 0 /\ blk = NoKnowledge
  /\ nz = [q \in VRegs |-> 0]
  /\ byScalar = {}
  /\ plain = <<TRUE, TRUE>>

VBNext ==
  \/ riscvStartBlock
  \/ Leave
  \/ emitLoadStoreCommonMBO
  \/ \E i \in VectorInstructions :
       \/ emitCheckVILL(i) \/ IllegalVStart(i)
       \/ VectorZero(i) \/ VectorDone(i) \/ VectorFault(i) \/ handleFF(i)
  \/ \E rs1zero, rdzero \in BOOLEAN, vsew \in VSEWs, vlmul \in VLMULs :
     \E avl \in (IF rs1zero THEN {0} ELSE AVLs) :
       \/ emitVSetVLRRR(rs1zero, rdzero, avl, vsew, vlmul)
       \/ emitVSetVLRRC(rs1zero, rdzero, avl, vsew, vlmul)
  \/ \E v \in VStarts, immediate \in BOOLEAN : riscvWVStart(v, immediate)
  \/ \E enable \in BOOLEAN : riscvSetTMode(enable)
  \/ riscvCSRReset
  \/ riscvCSRRestore

VBSpec == VBInit /\ [][VBNext]_vbVars

-----------------------------------------------------------------------------
(* Properties                                                              *)

(* The key is always the one of the current registers: after every vsetvl, *)
(* after a load that cut vl in the middle of an instruction, after reset   *)
(* and restore; and it keeps the transaction bit.                          *)
KeyCurrent ==
  /\ pmKey % 256 = VectorKey(csr)
  /\ pmKey \div 256 \in {0, PMK_TRANSACTION \div 256}

(* What the generator knows of vtype and vl holds where the code runs,     *)
(* though it was learned in another state, perhaps long ago.               *)
KnowledgeTrue ==
  /\ blk.SEWMt # 0 => ~csr.vill /\ blk.SEWMt = vsewToSEW(csr.vsew)
  /\ blk.VLMULMt # 0 => ~csr.vill /\ blk.VLMULMt = vlmulToVLMUL(csr.vlmul)
  /\ blk.VLClassMt = VLCLASSMT_ZERO => csr.vl = 0
  /\ blk.VLClassMt = VLCLASSMT_NONZERO => csr.vl \in 1..(getMaxVL(csr) - 1)
  /\ blk.VLClassMt = VLCLASSMT_MAX => csr.vl = getMaxVL(csr)

(* A vsetvli for which no call is generated, because nothing is thought to *)
(* change, would have changed nothing.                                     *)
ElidedSetHarmless ==
  \A option \in {"SVT_MAX", "SVT_PRESERVE"}, vsew \in VSEWs, vlmul \in VLMULs :
    live /\ riscvValidSEW(vsew) /\ SameConfiguration(option, vsew, vlmul)
      => handleVSetVLArg1(option, 0, vsew, vlmul) = csr

(* Where code was generated for vstart zero, it is zero. *)
VStartKnown == blk.VStartZeroMt => vstart = 0

(* Code made for one configuration runs only in it: the key by which it is *)
(* found is current, and what it was made to rely on is true.              *)
TranslationCurrent == KeyCurrent /\ KnowledgeTrue /\ VStartKnown

(* A register the generator takes to be zero from element vl on, and hence *)
(* does not clear again, is: as a register of its own (a vector or a       *)
(* predicate) or as a part of a group.  Knowledge that a write of element  *)
(* zero alone gave is left out.                                            *)
TopZeroKnown ==
  /\ \A q \in blk.single \ byScalar :
       nz[q] <= (csr.vl * (vsewToSEW(csr.vsew) \div vlmulToVLMUL(csr.vlmul))) \div 8
  /\ \A q \in blk.group :
       nz[q] <= BytesIn((csr.vl * vsewToSEW(csr.vsew)) \div 8,
                        q - (q % vlmulToVLMUL(csr.vlmul)), q)

(* A load or store is made through the transaction callbacks exactly when  *)
(* the processor is in transaction mode, also by code made before that     *)
(* mode was first used.                                                    *)
AccessInMode == plain[1] = plain[2]

(* What a block leaves out makes no difference: a vsetvli that is not      *)
(* executed, a tail that is not cleared, a test for transaction mode.      *)
ElisionsHarmless == ElidedSetHarmless /\ TopZeroKnown /\ AccessInMode

=============================================================================
