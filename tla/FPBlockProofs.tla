----------------------------- MODULE FPBlockProofs -----------------------------
(***************************************************************************)
(* What generated code takes for granted about the floating point and      *)
(* vector status (FPBlock) is proved here for every configuration, version *)
(* and register.  An instruction's effect on the status and on the block's *)
(* knowledge is one relation, Effect; what it leaves out rests on          *)
(* LearnsTrue.  FPInv holds of every behaviour; DirtyInv of those in which *)
(* no vector loop of mode write_any processes no element.                  *)
(***************************************************************************)
EXTENDS FPBlock, TLAPS

-----------------------------------------------------------------------------
(* Types                                                                   *)

Statuses  == [FS : ES, VS : ES]
Knowledge == [FSDirty : BOOLEAN, VSDirty : BOOLEAN, boxed : [{16, 32} -> SUBSET FRegs]]

(* What an instruction works on, before or after it. *)
States == [known : Knowledge, status : Statuses]

(* The type invariant. *)
FPTypeOK ==
  /\ conf \in Configurations
  /\ misa \subseteq conf.arch
  /\ status \in Statuses
  /\ known \in Knowledge
  /\ fpFlags \in [CSR : BOOLEAN, MT : BOOLEAN]
  /\ satFlags \in [CSR : BOOLEAN, MT : BOOLEAN]
  /\ touched \in [F : BOOLEAN, V : BOOLEAN]
  /\ width \in [FRegs -> {16, 32, 64}]
  /\ running \in BOOLEAN /\ forced \in BOOLEAN
  /\ rmCheckValid \in BOOLEAN /\ rmOldest \in BOOLEAN

(* The versions with a VS field, and what goes with each of them. *)
LEMMA VersionFacts ==
  /\ VF("VS_STATUS_8") <=> conf.version = 6
  /\ VF("VS_STATUS_9") <=> conf.version = 7
  /\ VF("VCSR_PRESENT") <=> conf.version = 7
  /\ HasVS <=> conf.version \in {6, 7}
  /\ vxRequiresFS <=> conf.version = 6
  /\ vxFieldsInFCSR <=> conf.version # 7
BY Zenon DEF VF, riscvVFSupport, FeatureVersions, HasVS, vxRequiresFS, vxFieldsInFCSR, RVVV_0_7_1,
       RVVV_0_7_1_P, RVVV_0_8_20190906, RVVV_0_8_20191004, RVVV_0_8_20191117,
       RVVV_0_8_20191118, RVVV_0_8, RVVV_MASTER

-----------------------------------------------------------------------------
(* Making FS and VS dirty                                                  *)

(* y is x with FS, VS or neither made dirty. *)
Makes(x, y) ==
  /\ y \in States
  /\ y.known.boxed = x.known.boxed
  /\ y.status.FS = x.status.FS \/ y.status.FS = ES_DIRTY
  /\ y.status.VS = x.status.VS \/ y.status.VS = ES_DIRTY

(* y takes no field to be dirty but those x does, and those that are.      *)
Learns(x, y) ==
  /\ y.known.FSDirty => (x.known.FSDirty \/ y.status.FS = ES_DIRTY)
  /\ y.known.VSDirty => (x.known.VSDirty \/ y.status.VS = ES_DIRTY)

LEMMA ESValues == ES = {0, 1, 2, 3} /\ ES_OFF = 0 /\ ES_DIRTY = 3
BY DEF ES, ES_OFF, ES_DIRTY

LEMMA MakesFS ==
  ASSUME NEW x \in States
  PROVE  /\ Makes(x, updateFS(x)) /\ Learns(x, updateFS(x))
         /\ updateFS(x).status.VS = x.status.VS
         /\ ~alwaysDirtyFS /\ (x.known.FSDirty => x.status.FS = ES_DIRTY)
              => updateFS(x).status.FS = ES_DIRTY
<1> DEFINE k == [FSDirty |-> TRUE, VSDirty |-> x.known.VSDirty, boxed |-> x.known.boxed]
           s == [FS |-> ES_DIRTY, VS |-> x.status.VS]
<1>1. CASE alwaysDirtyFS \/ x.known.FSDirty
  <2>1. updateFS(x) = x
    BY <1>1, Zenon DEF updateFS
  <2> QED
    BY <2>1, <1>1, Zenon DEF Makes, Learns, States
<1>2. CASE ~(alwaysDirtyFS \/ x.known.FSDirty)
  <2>1. updateFS(x) = [known |-> k, status |-> s]
    BY <1>2, Zenon DEF updateFS, States, Knowledge, Statuses
  <2>2. k \in Knowledge /\ s \in Statuses
    BY ESValues, Zenon DEF States, Knowledge, Statuses
  <2>3. [known |-> k, status |-> s] \in States
    BY <2>2, Zenon DEF States
  <2> QED
    BY <2>1, <2>3 DEF Makes, Learns
<1> QED
  BY <1>1, <1>2, Zenon

LEMMA MakesVS ==
  ASSUME NEW x \in States
  PROVE  /\ Makes(x, updateVS(x)) /\ Learns(x, updateVS(x))
         /\ updateVS(x).status.FS = x.status.FS
         /\ ~HasVS => updateVS(x).status.VS = x.status.VS
         /\ ~alwaysDirtyFS /\ HasVS /\ (x.known.VSDirty => x.status.VS = ES_DIRTY)
              => updateVS(x).status.VS = ES_DIRTY
<1> DEFINE k == [FSDirty |-> x.known.FSDirty, VSDirty |-> TRUE, boxed |-> x.known.boxed]
           s == [FS |-> x.status.FS, VS |-> ES_DIRTY]
<1>1. CASE alwaysDirtyFS \/ ~HasVS \/ x.known.VSDirty
  <2>1. updateVS(x) = x
    BY <1>1, Zenon DEF updateVS
  <2> QED
    BY <2>1, <1>1, Zenon DEF Makes, Learns, States
<1>2. CASE ~(alwaysDirtyFS \/ ~HasVS \/ x.known.VSDirty)
  <2>1. updateVS(x) = [known |-> k, status |-> s]
    BY <1>2, Zenon DEF updateVS, States, Knowledge, Statuses
  <2>2. k \in Knowledge /\ s \in Statuses
    BY ESValues, Zenon DEF States, Knowledge, Statuses
  <2>3. [known |-> k, status |-> s] \in States
    BY <2>2, Zenon DEF States
  <2> QED
    BY <1>2, <2>1, <2>3 DEF Makes, Learns
<1> QED
  BY <1>1, <1>2, Zenon

LEMMA MakesNothing ==
  ASSUME NEW x \in States
  PROVE  Makes(x, x) /\ Learns(x, x)
BY Zenon DEF Makes, Learns

LEMMA MakesBoth ==
  ASSUME NEW x, NEW y, NEW z, Makes(x, y), Makes(y, z)
  PROVE  Makes(x, z) /\ (Learns(x, y) /\ Learns(y, z) => Learns(x, z))
BY Zenon DEF Makes, Learns

LEMMA MakesFlags ==
  ASSUME NEW x \in States
  PROVE  /\ Makes(x, riscvGetFPFlagsMT(x)) /\ Learns(x, riscvGetFPFlagsMT(x))
         /\ riscvGetFPFlagsMT(x).status.VS = x.status.VS
         /\ ~writeAnyFS => riscvGetFPFlagsMT(x) = x
         /\ writeAnyFS /\ (x.known.FSDirty => x.status.FS = ES_DIRTY)
              => riscvGetFPFlagsMT(x).status.FS = ES_DIRTY
BY MakesFS, MakesNothing, Zenon DEF riscvGetFPFlagsMT, writeAnyFS, alwaysDirtyFS

(* Code in a loop that may not run makes at most what it would. *)
LEMMA MakesIfRan ==
  ASSUME NEW x \in States, NEW y \in States, NEW ran \in BOOLEAN, Makes(x, y)
  PROVE  /\ Makes(x, IfRan(ran, x, y))
         /\ y.status.VS = x.status.VS => IfRan(ran, x, y).status.VS = x.status.VS
         /\ ran => IfRan(ran, x, y) = y
         /\ y = x => IfRan(ran, x, y) = x
<1>1. CASE ran
  BY <1>1, Zenon DEF IfRan
<1>2. CASE ~ran
  <2>1. IfRan(ran, x, y) = [known |-> y.known, status |-> x.status]
    BY <1>2, Zenon DEF IfRan, States
  <2>2. [known |-> y.known, status |-> x.status] \in States
    BY Zenon DEF States
  <2>3. x = [known |-> x.known, status |-> x.status]
    BY Zenon DEF States
  <2> QED
    BY <1>2, <2>1, <2>2, <2>3 DEF Makes
<1> QED
  BY <1>1, <1>2, Zenon

(* With the boxes replaced. *)
LEMMA Reboxed ==
  ASSUME NEW x \in States, NEW d \in [{16, 32} -> SUBSET FRegs]
  PROVE  /\ [x EXCEPT !.known.boxed = d] \in States
         /\ [x EXCEPT !.known.boxed = d].status = x.status
         /\ [x EXCEPT !.known.boxed = d].known.boxed = d
         /\ [x EXCEPT !.known.boxed = d].known.FSDirty = x.known.FSDirty
         /\ [x EXCEPT !.known.boxed = d].known.VSDirty = x.known.VSDirty
<1> DEFINE k == [FSDirty |-> x.known.FSDirty, VSDirty |-> x.known.VSDirty, boxed |-> d]
<1>1. [x EXCEPT !.known.boxed = d] = [known |-> k, status |-> x.status]
  BY DEF States, Knowledge
<1>2. k \in Knowledge
  BY Zenon DEF States, Knowledge
<1> QED
  BY <1>1, <1>2 DEF States

-----------------------------------------------------------------------------
(* Types are preserved                                                     *)

LEMMA HereTyped ==
  ASSUME FPTypeOK
  PROVE  Here \in States /\ Here.known = known /\ Here.status = status
BY Zenon DEF FPTypeOK, Here, States

LEMMA NothingKnownTyped == NothingKnown \in Knowledge
BY Zenon DEF NothingKnown, Knowledge

LEMMA WriteTyped ==
  ASSUME FPTypeOK, NEW r \in FRegs, NEW b \in {16, 32, 64}, WriteF(r, b)
  PROVE  width' \in [FRegs -> {16, 32, 64}] /\ BoxedAfter(r, b) \in [{16, 32} -> SUBSET FRegs]
<1>1. width' \in [FRegs -> {16, 32, 64}]
  BY DEF FPTypeOK, WriteF
<1>2. BoxedAfter(r, b) \in [{16, 32} -> SUBSET FRegs]
  BY DEF FPTypeOK, Knowledge, BoxedAfter
<1> QED
  BY <1>1, <1>2, Zenon

(* Every write of misa leaves in it bits it may have, and D with F.        *)
LEMMA MisaKept ==
  ASSUME FPTypeOK, NEW v, NEW aligned \in BOOLEAN
  PROVE  MisaAfter(v, aligned) \subseteq conf.arch
<1> DEFINE n == (v \cap conf.archMask) \cup (misa \ conf.archMask)
           m == IF "C" \in misa \ n /\ ~aligned THEN misa ELSE n
<1>1. m \subseteq conf.arch
  BY FPAssumption, Zenon DEF FPTypeOK
<1>2. TrackDF(m) \subseteq conf.arch
  <2> HIDE DEF m
  <2>1. CASE ~({"D", "F"} \subseteq conf.arch)
    BY <1>1, <2>1, Zenon DEF TrackDF
  <2>2. CASE {"D", "F"} \subseteq conf.arch
    <3>1. TrackDF(m) \subseteq m \cup {"D", "F"}
      BY <2>2, Zenon DEF TrackDF
    <3> QED
      BY <1>1, <2>2, <3>1, Zenon
  <2> QED
    BY <2>1, <2>2, Zenon
<1> QED
  BY <1>2, Zenon DEF MisaAfter

LEMMA MisaPaired ==
  ASSUME FPTypeOK, DRequiresF, NEW v, NEW aligned \in BOOLEAN
  PROVE  {"D", "F"} \subseteq conf.arch
           /\ (conf.d_requires_f \/ ~({"D", "F"} \subseteq conf.archMask))
             => ("D" \in MisaAfter(v, aligned) => "F" \in MisaAfter(v, aligned))
<1> DEFINE n == (v \cap conf.archMask) \cup (misa \ conf.archMask)
           m == IF "C" \in misa \ n /\ ~aligned THEN misa ELSE n
<1> SUFFICES ASSUME {"D", "F"} \subseteq conf.arch,
                    conf.d_requires_f \/ ~({"D", "F"} \subseteq conf.archMask)
             PROVE  "D" \in TrackDF(m) => "F" \in TrackDF(m)
  BY Zenon DEF MisaAfter
<1>1. conf.archMask \cap {"D", "F"} = {} => ("D" \in m => "F" \in m)
  BY Zenon DEF DRequiresF
<1> HIDE DEF m
<1>2. CASE conf.archMask \cap {"D", "F"} = {"D", "F"}
  BY <1>2 DEF TrackDF
<1>3. CASE conf.archMask \cap {"D", "F"} = {"D"}
  BY <1>3, Zenon DEF TrackDF
<1>4. CASE conf.archMask \cap {"D", "F"} = {"F"}
  BY <1>4, Zenon DEF TrackDF
<1>5. CASE conf.archMask \cap {"D", "F"} = {}
  BY <1>1, <1>5, Zenon DEF TrackDF
<1> QED
  BY <1>2, <1>3, <1>4, <1>5, Zenon

-----------------------------------------------------------------------------
(* What instructions do to the status and the block's knowledge            *)

(* An instruction makes FS, VS or neither dirty, and stays in the block or *)
(* leaves it.                                                              *)
Effect ==
  /\ status' \in Statuses /\ known' \in Knowledge
  /\ status'.FS = status.FS \/ status'.FS = ES_DIRTY
  /\ status'.VS = status.VS \/ status'.VS = ES_DIRTY
  /\ UNCHANGED <<running, made>> \/ LeaveFPBlock

LearnsTrue ==
  /\ known'.FSDirty => (known.FSDirty \/ status'.FS = ES_DIRTY)
  /\ known'.VSDirty => (known.VSDirty \/ status'.VS = ES_DIRTY)

(* An instruction that stays with the knowledge and status of y. *)
LEMMA StayEffect ==
  ASSUME FPTypeOK, NEW x \in States, NEW y, Makes(x, y), x.status = status,
         x.known.FSDirty = known.FSDirty, x.known.VSDirty = known.VSDirty,
         Stay(y.known), status' = y.status
  PROVE  /\ Effect
         /\ Learns(x, y) => LearnsTrue
         /\ known'.boxed = x.known.boxed
BY Zenon DEF Effect, LearnsTrue, Learns, Makes, Stay, States

(* One that leaves the block. *)
LEMMA LeaveEffect ==
  ASSUME FPTypeOK, NEW y, Makes(Here, y), LeaveFPBlock, status' = y.status
  PROVE  Effect /\ LearnsTrue /\ known' = NothingKnown
<1>1. known' \in Knowledge /\ known'.FSDirty = FALSE /\ known'.VSDirty = FALSE
  BY NothingKnownTyped, Zenon DEF LeaveFPBlock, NothingKnown
<1> QED
  BY <1>1, HereTyped, Zenon DEF Effect, LearnsTrue, Makes, States, LeaveFPBlock

LEMMA MoveEffect ==
  ASSUME FPTypeOK, NEW r \in FRegs, NEW b \in {16, 32, 64}, emitFMoveRR(r, b)
  PROVE  /\ Effect /\ LearnsTrue
         /\ known'.boxed = BoxedAfter(r, b)
         /\ status'.VS = status.VS
         /\ ~alwaysDirtyFS /\ DirtyKnown => status'.FS = ES_DIRTY
<1> DEFINE x == [Here EXCEPT !.known.boxed = BoxedAfter(r, b)]
<1>1. WriteF(r, b) /\ Stay(updateFS(x).known) /\ status' = updateFS(x).status
  BY Zenon DEF emitFMoveRR
<1>2. BoxedAfter(r, b) \in [{16, 32} -> SUBSET FRegs]
  BY <1>1, WriteTyped
<1>3. /\ x \in States /\ x.status = status /\ x.known.boxed = BoxedAfter(r, b)
      /\ x.known.FSDirty = known.FSDirty /\ x.known.VSDirty = known.VSDirty
  BY <1>2, HereTyped, Reboxed
<1> HIDE DEF x
<1> QED
  BY <1>1, <1>3, MakesFS, StayEffect, Zenon DEF DirtyKnown

LEMMA ArithEffect ==
  ASSUME FPTypeOK, NEW r \in FRegs, NEW b \in {16, 32, 64},
         NEW dynamic \in BOOLEAN, NEW flag \in BOOLEAN, emitFArith(r, b, dynamic, flag)
  PROVE  /\ Effect /\ LearnsTrue
         /\ known'.boxed = BoxedAfter(r, b)
         /\ status'.VS = status.VS
         /\ ~alwaysDirtyFS /\ DirtyKnown => status'.FS = ES_DIRTY
<1> DEFINE f == riscvGetFPFlagsMT(Here)
           x == [f EXCEPT !.known.boxed = BoxedAfter(r, b)]
           z == [Here EXCEPT !.known.boxed = BoxedAfter(r, b)]
<1>1. WriteF(r, b) /\ Stay(updateFS(x).known) /\ status' = updateFS(x).status
  BY Zenon DEF emitFArith
<1>2. BoxedAfter(r, b) \in [{16, 32} -> SUBSET FRegs]
  BY <1>1, WriteTyped
<1>3. f \in States /\ Makes(Here, f) /\ Learns(Here, f) /\ f.status.VS = status.VS
  BY HereTyped, MakesFlags, Zenon DEF Makes
<1>4. /\ z \in States /\ z.status = status /\ z.known.boxed = BoxedAfter(r, b)
      /\ z.known.FSDirty = known.FSDirty /\ z.known.VSDirty = known.VSDirty
  BY <1>2, HereTyped, Reboxed
<1>5. /\ x \in States /\ x.status = f.status /\ x.known.boxed = BoxedAfter(r, b)
      /\ x.known.FSDirty = f.known.FSDirty /\ x.known.VSDirty = f.known.VSDirty
  BY <1>2, <1>3, Reboxed
<1>6. Makes(z, x) /\ Learns(z, x)
  BY <1>3, <1>4, <1>5, HereTyped, Zenon DEF Makes, Learns
<1>7. DirtyKnown => (x.known.FSDirty => x.status.FS = ES_DIRTY)
  BY <1>3, <1>5, HereTyped, Zenon DEF DirtyKnown, Learns, Makes
<1> HIDE DEF x, z, f
<1>8. Makes(z, updateFS(x)) /\ Learns(z, updateFS(x))
  BY <1>5, <1>6, MakesFS, MakesBoth, Zenon
<1>9. updateFS(x).status.VS = status.VS
  BY <1>3, <1>5, MakesFS, Zenon
<1>10. ~alwaysDirtyFS /\ DirtyKnown => updateFS(x).status.FS = ES_DIRTY
  BY <1>5, <1>7, MakesFS, Zenon
<1> QED
  BY <1>1, <1>4, <1>8, <1>9, <1>10, StayEffect, Zenon

LEMMA CompareEffect ==
  ASSUME FPTypeOK, NEW b, NEW flag \in BOOLEAN, emitFCompare(b, flag)
  PROVE  /\ Effect /\ LearnsTrue
         /\ known'.boxed = known.boxed
         /\ status'.VS = status.VS
         /\ writeAnyFS /\ DirtyKnown => status'.FS = ES_DIRTY
<1>1. Stay(riscvGetFPFlagsMT(Here).known) /\ status' = riscvGetFPFlagsMT(Here).status
  BY Zenon DEF emitFCompare
<1> QED
  BY <1>1, HereTyped, MakesFlags, StayEffect, Zenon DEF DirtyKnown

LEMMA VectorFltEffect ==
  ASSUME FPTypeOK, NEW arith \in BOOLEAN, NEW ran \in BOOLEAN, NEW flag \in BOOLEAN,
         emitVectorFlt(arith, ran, flag)
  PROVE  /\ Effect
         /\ "write_any" \notin Skipping => LearnsTrue
         /\ known'.boxed = known.boxed
         /\ ~HasVS => status'.VS = status.VS
         /\ DirtyKnown => /\ ~alwaysDirtyFS /\ HasVS => status'.VS = ES_DIRTY
                          /\ ran /\ writeAnyFS => status'.FS = ES_DIRTY
<1> DEFINE x == updateVS(Here)
           f == riscvGetFPFlagsMT(x)
           y == IfRan(ran, x, f)
<1>1. /\ ~ran => conf.mode \in Skipping
      /\ Stay(y.known) /\ status' = y.status
  BY Zenon DEF emitVectorFlt
<1>2. /\ x \in States /\ Makes(Here, x) /\ Learns(Here, x) /\ x.status.FS = status.FS
      /\ ~HasVS => x.status.VS = status.VS
      /\ DirtyKnown /\ ~alwaysDirtyFS /\ HasVS => x.status.VS = ES_DIRTY
      /\ DirtyKnown => (x.known.FSDirty => x.status.FS = ES_DIRTY)
  <2>1. /\ Makes(Here, x) /\ Learns(Here, x) /\ x.status.FS = status.FS
        /\ ~HasVS => x.status.VS = status.VS
        /\ DirtyKnown /\ ~alwaysDirtyFS /\ HasVS => x.status.VS = ES_DIRTY
    BY HereTyped, MakesVS, Zenon DEF DirtyKnown
  <2> QED
    BY <2>1, HereTyped, Zenon DEF Makes, Learns, DirtyKnown
<1> HIDE DEF x
<1>3. /\ f \in States /\ Makes(x, f) /\ Learns(x, f) /\ f.status.VS = x.status.VS
      /\ ~writeAnyFS => f = x
      /\ DirtyKnown /\ writeAnyFS => f.status.FS = ES_DIRTY
  BY <1>2, MakesFlags, Zenon DEF Makes
<1> HIDE DEF f
<1>4. /\ Makes(x, y) /\ y.status.VS = x.status.VS
      /\ ran => y = f
      /\ f = x => y = x
  BY <1>2, <1>3, MakesIfRan, Zenon
<1>5. "write_any" \notin Skipping => Learns(x, y)
  <2>1. CASE ran
    BY <1>3, <1>4, <2>1, Zenon
  <2>2. CASE ~ran
    <3> SUFFICES ASSUME "write_any" \notin Skipping PROVE Learns(x, y)
      BY Zenon
    <3>1. ~writeAnyFS
      BY <1>1, <2>2, Zenon DEF writeAnyFS
    <3> QED
      BY <1>2, <1>3, <1>4, <3>1, MakesNothing, Zenon
  <2> QED
    BY <2>1, <2>2, Zenon
<1> HIDE DEF y
<1>6. Makes(Here, y) /\ ("write_any" \notin Skipping => Learns(Here, y))
  BY <1>2, <1>4, <1>5, MakesBoth, Zenon
<1>7. /\ Effect /\ known'.boxed = known.boxed
      /\ "write_any" \notin Skipping => LearnsTrue
  BY <1>1, <1>6, HereTyped, StayEffect, Zenon
<1> QED
  BY <1>1, <1>2, <1>3, <1>4, <1>7, Zenon

LEMMA VectorSatEffect ==
  ASSUME FPTypeOK, NEW usesVXRM \in BOOLEAN, NEW ran \in BOOLEAN, NEW flag \in BOOLEAN,
         emitVectorSat(usesVXRM, ran, flag)
  PROVE  /\ Effect
         /\ "write_any" \notin Skipping => LearnsTrue
         /\ known'.boxed = known.boxed
         /\ ~HasVS => status'.VS = status.VS
         /\ DirtyKnown => /\ ~alwaysDirtyFS /\ HasVS => status'.VS = ES_DIRTY
                          /\ vxRequiresFS /\ ran /\ writeAnyFS => status'.FS = ES_DIRTY
<1> DEFINE x == updateVS(Here)
           f == updateFS(x)
           y == IF writeAnyFS /\ vxRequiresFS THEN IfRan(ran, x, f) ELSE x
<1>1. /\ ~ran => conf.mode \in Skipping
      /\ Stay(y.known) /\ status' = y.status
  BY Zenon DEF emitVectorSat
<1>2. /\ x \in States /\ Makes(Here, x) /\ Learns(Here, x) /\ x.status.FS = status.FS
      /\ ~HasVS => x.status.VS = status.VS
      /\ DirtyKnown /\ ~alwaysDirtyFS /\ HasVS => x.status.VS = ES_DIRTY
      /\ DirtyKnown => (x.known.FSDirty => x.status.FS = ES_DIRTY)
  <2>1. /\ Makes(Here, x) /\ Learns(Here, x) /\ x.status.FS = status.FS
        /\ ~HasVS => x.status.VS = status.VS
        /\ DirtyKnown /\ ~alwaysDirtyFS /\ HasVS => x.status.VS = ES_DIRTY
    BY HereTyped, MakesVS, Zenon DEF DirtyKnown
  <2> QED
    BY <2>1, HereTyped, Zenon DEF Makes, Learns, DirtyKnown
<1> HIDE DEF x
<1>3. /\ f \in States /\ Makes(x, f) /\ Learns(x, f) /\ f.status.VS = x.status.VS
      /\ DirtyKnown /\ writeAnyFS => f.status.FS = ES_DIRTY
  BY <1>2, MakesFS, Zenon DEF Makes, alwaysDirtyFS, writeAnyFS
<1> HIDE DEF f
<1>4. /\ Makes(x, y) /\ y.status.VS = x.status.VS
      /\ writeAnyFS /\ vxRequiresFS /\ ran => y = f
      /\ ~writeAnyFS => y = x
      /\ y = IfRan(ran, x, f) \/ y = x
  BY <1>2, <1>3, MakesIfRan, MakesNothing, Zenon
<1>5. "write_any" \notin Skipping => Learns(x, y)
  <2>1. CASE ran
    BY <1>2, <1>3, <1>4, <2>1, MakesNothing, MakesIfRan, Zenon
  <2>2. CASE ~ran
    <3> SUFFICES ASSUME "write_any" \notin Skipping PROVE Learns(x, y)
      BY Zenon
    <3>1. ~writeAnyFS
      BY <1>1, <2>2, Zenon DEF writeAnyFS
    <3> QED
      BY <1>2, <1>4, <3>1, MakesNothing, Zenon
  <2> QED
    BY <2>1, <2>2, Zenon
<1> HIDE DEF y
<1>6. Makes(Here, y) /\ ("write_any" \notin Skipping => Learns(Here, y))
  BY <1>2, <1>4, <1>5, MakesBoth, Zenon
<1>7. /\ Effect /\ known'.boxed = known.boxed
      /\ "write_any" \notin Skipping => LearnsTrue
  BY <1>1, <1>6, HereTyped, StayEffect, Zenon
<1> QED
  BY <1>1, <1>2, <1>3, <1>4, <1>7, Zenon

(* A write of fflags stays in the block; writes of frm and fcsr leave it. *)
LEMMA FlagsWriteEffect ==
  ASSUME FPTypeOK, NEW v \in BOOLEAN, fflagsW(v)
  PROVE  /\ Effect /\ LearnsTrue
         /\ known'.boxed = known.boxed
         /\ status'.VS = status.VS
         /\ ~alwaysDirtyFS /\ DirtyKnown => status'.FS = ES_DIRTY
<1>1. Stay(updateFS(Here).known) /\ status' = updateFS(Here).status
  BY Zenon DEF fflagsW, riscvWFS
<1> QED
  BY <1>1, HereTyped, MakesFS, StayEffect, Zenon DEF DirtyKnown

LEMMA ModeWriteEffect ==
  ASSUME FPTypeOK, LeaveFPBlock, status' = riscvWFS(Here).status
  PROVE  /\ Effect /\ LearnsTrue
         /\ known' = NothingKnown
         /\ status'.VS = status.VS
         /\ ~alwaysDirtyFS /\ DirtyKnown => status'.FS = ES_DIRTY
BY HereTyped, MakesFS, LeaveEffect, Zenon DEF riscvWFS, DirtyKnown

LEMMA VectorCSREffect ==
  ASSUME FPTypeOK, NEW name \in {"vxsat", "vxrm", "vcsr", "vstart"}, NEW v \in BOOLEAN,
         VectorCSRW(name, v)
  PROVE  /\ Effect /\ LearnsTrue
         /\ known'.boxed = known.boxed \/ known' = NothingKnown
         /\ ~HasVS => status'.VS = status.VS
         /\ DirtyKnown /\ ~alwaysDirtyFS =>
              /\ vxRequiresFS /\ name # "vstart" => status'.FS = ES_DIRTY
              /\ HasVS /\ (~vxRequiresFS \/ name = "vstart") => status'.VS = ES_DIRTY
<1> DEFINE x == CASE name = "vcsr" -> riscvWVCSR(Here)
                  [] name = "vstart" -> updateVS(Here)
                  [] OTHER -> riscvWFSVS(Here)
           w == updateVS(Here)
<1>1. /\ status' = x.status
      /\ IF name = "vcsr" THEN LeaveFPBlock ELSE Stay(x.known)
      /\ name = "vcsr" => VF("VCSR_PRESENT")
  BY Zenon DEF VectorCSRW, Accessible
<1>2. /\ w \in States /\ Makes(Here, w) /\ Learns(Here, w) /\ w.status.FS = status.FS
      /\ ~HasVS => w.status.VS = status.VS
      /\ DirtyKnown /\ ~alwaysDirtyFS /\ HasVS => w.status.VS = ES_DIRTY
  BY HereTyped, MakesVS, Zenon DEF DirtyKnown, Makes
<1>3. /\ Makes(Here, updateFS(Here)) /\ Learns(Here, updateFS(Here))
      /\ updateFS(Here).status.VS = status.VS
      /\ DirtyKnown /\ ~alwaysDirtyFS => updateFS(Here).status.FS = ES_DIRTY
  BY HereTyped, MakesFS, Zenon DEF DirtyKnown
<1>4. /\ Makes(Here, updateFS(w)) /\ Learns(Here, updateFS(w))
      /\ updateFS(w).status.VS = w.status.VS
  BY <1>2, MakesFS, MakesBoth, Zenon
<1>5. /\ name = "vcsr" => x = updateFS(w) \/ x = w
      /\ name = "vstart" => x = w
      /\ name \in {"vxsat", "vxrm"} =>
           x = IF VF("VCSR_PRESENT") THEN w ELSE IF vxRequiresFS THEN updateFS(Here) ELSE Here
  <2> VF("VCSR_PRESENT") /\ vxRequiresFS => FALSE
    BY VersionFacts
  <2> QED
    BY Zenon DEF riscvWVCSR, riscvWFSVS
<1> HIDE DEF x, w
<1>6. Makes(Here, x) /\ Learns(Here, x)
  BY <1>2, <1>3, <1>4, <1>5, HereTyped, MakesNothing, Zenon
<1>7. /\ Effect /\ LearnsTrue
      /\ known'.boxed = known.boxed \/ known' = NothingKnown
  BY <1>1, <1>6, HereTyped, StayEffect, LeaveEffect, Zenon
<1>8. ~HasVS => status'.VS = status.VS
  BY <1>1, <1>2, <1>3, <1>4, <1>5, HereTyped, Zenon
<1>9. ASSUME DirtyKnown, ~alwaysDirtyFS, vxRequiresFS, name # "vstart"
      PROVE  status'.FS = ES_DIRTY
  <2>1. ~VF("VCSR_PRESENT")
    BY <1>9, VersionFacts
  <2> QED
    BY <1>1, <1>3, <1>5, <1>9, <2>1, Zenon
<1>10. ASSUME DirtyKnown, ~alwaysDirtyFS, HasVS, ~vxRequiresFS \/ name = "vstart"
       PROVE  status'.VS = ES_DIRTY
  <2>1. vxRequiresFS \/ VF("VCSR_PRESENT")
    BY <1>10, VersionFacts, Zenon
  <2> QED
    BY <1>1, <1>2, <1>4, <1>5, <1>10, <2>1, Zenon
<1> QED
  BY <1>7, <1>8, <1>9, <1>10, Zenon

-----------------------------------------------------------------------------
(* The inductive invariant, conjunct by conjunct                           *)

(* Nothing is known between blocks. *)
KnownInBlock == ~running => known = NothingKnown

(* The validity of frm is recorded in currentArch, code is made without a  *)
(* check of it only while it has never been invalid, and a block without   *)
(* the check runs only then.                                               *)
RoundingTracked ==
  /\ rmOldest = rmCheckValid
  /\ mapFRMToRC(frm) = -1 => rmCheckValid
  /\ "RM_INVALID" \in currentArch <=> mapFRMToRC(frm) = -1
  /\ running /\ ~made.rmCheck => ~rmCheckValid /\ "RM_INVALID" \notin made.arch

FPInv ==
  FPTypeOK /\ KnownInBlock /\ RoundingTracked /\ ArchCurrent /\ NaNBoxKnown /\ DRequiresF

(* The membership of RM_INVALID in what riscvSetCurrentArch returns. *)
LEMMA ArchOfRM ==
  ASSUME NEW m, NEW s, NEW i \in BOOLEAN, "RM_INVALID" \notin m
  PROVE  "RM_INVALID" \in ArchOf(m, s, i) <=> i
BY Zenon DEF ArchOf

LEMMA NoRMInMisa ==
  ASSUME FPTypeOK
  PROVE  "RM_INVALID" \notin misa /\ "RM_INVALID" \notin conf.arch
BY FPAssumption, Zenon DEF FPTypeOK

LEMMA RoundingKept ==
  ASSUME RoundingTracked, UNCHANGED <<frm, rmCheckValid, rmOldest>>,
         "RM_INVALID" \in currentArch' <=> "RM_INVALID" \in currentArch,
         UNCHANGED <<running, made>> \/ LeaveFPBlock
  PROVE  RoundingTracked'
BY DEF RoundingTracked, LeaveFPBlock, mapFRMToRC

LEMMA RoundingSet ==
  ASSUME FPTypeOK, RoundingTracked, NEW rm, setFPRoundingMode(frm, rm), running' = FALSE
  PROVE  /\ RoundingTracked'
         /\ rmCheckValid' \in BOOLEAN /\ rmOldest' \in BOOLEAN
<1>1. CASE frm = rm
  BY <1>1, Zenon DEF FPTypeOK, RoundingTracked, setFPRoundingMode, mapFRMToRC
<1>2. CASE frm # rm
  <2> DEFINE invalid == mapFRMToRC(rm) = -1
             changed == invalid # ("RM_INVALID" \in currentArch)
  <2>1. /\ rmCheckValid' = (rmCheckValid \/ changed)
        /\ rmOldest' = (rmOldest \/ (changed /\ ~rmCheckValid))
        /\ currentArch' = IF invalid THEN currentArch \cup {"RM_INVALID"}
                                     ELSE currentArch \ {"RM_INVALID"}
        /\ frm' = rm
    BY <1>2, Zenon DEF setFPRoundingMode, updateCurrentRMValid
  <2>2. (mapFRMToRC(frm) = -1)' = invalid
    BY <2>1, Zenon DEF mapFRMToRC
  <2>3. "RM_INVALID" \in currentArch' <=> invalid
    BY <2>1, Zenon
  <2>4. rmCheckValid \in BOOLEAN /\ rmOldest \in BOOLEAN /\ rmOldest = rmCheckValid
    BY Zenon DEF FPTypeOK, RoundingTracked
  <2>5. invalid => rmCheckValid \/ changed
    <3>1. "RM_INVALID" \in currentArch => rmCheckValid
      BY Zenon DEF RoundingTracked
    <3> QED
      BY <3>1, Zenon
  <2> HIDE DEF invalid, changed
  <2>6. rmCheckValid' \in BOOLEAN /\ rmOldest' \in BOOLEAN /\ rmOldest' = rmCheckValid'
    BY <2>1, <2>4, Zenon
  <2> QED
    BY <2>1, <2>2, <2>3, <2>5, <2>6, Zenon DEF RoundingTracked
<1> QED
  BY <1>1, <1>2, Zenon

(* currentArch stays current when FS and VS stay Off or stay on. *)
LEMMA ArchKept ==
  ASSUME FPTypeOK, ArchCurrent, status' \in Statuses,
         UNCHANGED <<conf, misa, frm, currentArch>>, ~forced' => ~forced,
         ~forced' => (status'.FS = ES_OFF <=> status.FS = ES_OFF),
         ~forced' /\ HasVS => (status'.VS = ES_OFF <=> status.VS = ES_OFF)
  PROVE  ArchCurrent'
<1> SUFFICES ASSUME ~forced' PROVE currentArch' = ArchOf(misa, status, mapFRMToRC(frm) = -1)'
  BY Zenon DEF ArchCurrent
<1>1. HasVS' = HasVS /\ HasVS \in BOOLEAN
  BY Zenon DEF HasVS, VF
<1>2. ArchOf(misa, status, mapFRMToRC(frm) = -1)' = ArchOf(misa, status, mapFRMToRC(frm) = -1)
  BY <1>1, Zenon DEF ArchOf, mapFRMToRC
<1> QED
  BY <1>2, Zenon DEF ArchCurrent

LEMMA ArchSet ==
  ASSUME FPTypeOK, ArchCurrent, RoundingTracked, NEW rm, setFPRoundingMode(frm, rm),
         status' \in Statuses, UNCHANGED <<conf, misa>>, ~forced' => ~forced,
         ~forced' => (status'.FS = ES_OFF <=> status.FS = ES_OFF),
         ~forced' /\ HasVS => (status'.VS = ES_OFF <=> status.VS = ES_OFF)
  PROVE  ArchCurrent'
<1>1. CASE frm = rm
  BY <1>1, ArchKept, Zenon DEF setFPRoundingMode
<1>2. CASE frm # rm
  <2> SUFFICES ASSUME ~forced' PROVE currentArch' = ArchOf(misa, status, mapFRMToRC(frm) = -1)'
    BY Zenon DEF ArchCurrent
  <2>1. HasVS' = HasVS /\ HasVS \in BOOLEAN
    BY Zenon DEF HasVS, VF
  <2>2. ArchOf(misa, status, mapFRMToRC(frm) = -1)' = ArchOf(misa, status, mapFRMToRC(rm) = -1)
    BY <1>2, <2>1, Zenon DEF ArchOf, mapFRMToRC, setFPRoundingMode
  <2>3. currentArch = ArchOf(misa, status, mapFRMToRC(frm) = -1)
    BY Zenon DEF ArchCurrent
  <2>4. currentArch' = IF mapFRMToRC(rm) = -1 THEN currentArch \cup {"RM_INVALID"}
                                             ELSE currentArch \ {"RM_INVALID"}
    BY <1>2, Zenon DEF setFPRoundingMode, updateCurrentRMValid
  <2>5. "RM_INVALID" \notin misa
    BY NoRMInMisa, Zenon
  <2> QED
    BY <2>2, <2>3, <2>4, <2>5, Zenon DEF ArchOf
<1> QED
  BY <1>1, <1>2, Zenon

(* Boxes stay true when a register is written, or none is. *)
LEMMA BoxesKept ==
  ASSUME NaNBoxKnown, UNCHANGED width, known'.boxed = known.boxed \/ known' = NothingKnown
  PROVE  NaNBoxKnown'
BY DEF NaNBoxKnown, NothingKnown

LEMMA BoxesWritten ==
  ASSUME FPTypeOK, NaNBoxKnown, NEW r \in FRegs, NEW b \in {16, 32, 64}, WriteF(r, b),
         known'.boxed = BoxedAfter(r, b)
  PROVE  NaNBoxKnown'
<1>1. width \in [FRegs -> {16, 32, 64}] /\ known.boxed \in [{16, 32} -> SUBSET FRegs]
  BY Zenon DEF FPTypeOK, Knowledge
<1>2. width'[r] <= b /\ \A q \in FRegs \ {r} : width'[q] = width[q]
  BY <1>1 DEF WriteF, requireNaNBox, NaNBoxKnown
<1>3. ASSUME NEW v \in {16, 32}, NEW q \in BoxedAfter(r, b)[v]
      PROVE  width'[q] <= v
  <2>1. width' \in [FRegs -> {16, 32, 64}]
    BY WriteTyped
  <2>2. (q = r /\ v >= b) \/ (q \in known.boxed[v] /\ q # r)
    BY <1>1 DEF BoxedAfter
  <2>3. CASE q = r /\ v >= b
    BY <1>2, <2>1, <2>3
  <2>4. CASE q \in known.boxed[v] /\ q # r
    BY <1>1, <1>2, <2>4, Zenon DEF NaNBoxKnown
  <2> QED
    BY <2>2, <2>3, <2>4, Zenon
<1> QED
  BY <1>3, Zenon DEF NaNBoxKnown

-----------------------------------------------------------------------------
(* What an instruction that is enabled says of FS and VS                   *)

LEMMA ValidatedMask ==
  ASSUME NEW features, NEW f \in features, f \in {"D", "F", "V", "FS"}, emitBlockMask(features)
  PROVE  f \in currentArch <=> f \in made.arch
BY Zenon DEF emitBlockMask

LEMMA FSOn ==
  ASSUME ArchCurrent, ~forced, "D" \in currentArch \/ "F" \in currentArch
  PROVE  status.FS # ES_OFF
BY Zenon DEF ArchCurrent, ArchOf

LEMMA VSOn ==
  ASSUME ArchCurrent, ~forced, "V" \in currentArch, HasVS
  PROVE  status.VS # ES_OFF
BY DEF ArchCurrent, ArchOf

LEMMA PrecisionOn ==
  ASSUME ArchCurrent, ~forced, NEW b, Enabled(Precision(b))
  PROVE  status.FS # ES_OFF
<1>1. PICK f \in {"D", "F"} : Precision(b) = {f}
  BY Zenon DEF Precision
<1>2. f \in made.arch /\ emitBlockMask(Precision(b))
  BY <1>1, Zenon DEF Enabled
<1>3. f \in currentArch
  BY <1>1, <1>2, ValidatedMask, Zenon
<1> QED
  BY <1>3, FSOn, Zenon

LEMMA VectorOn ==
  ASSUME ArchCurrent, ~forced, HasVS, NEW features, "V" \in features, Enabled(features)
  PROVE  status.VS # ES_OFF
<1>1. "V" \in made.arch /\ emitBlockMask(features)
  BY Zenon DEF Enabled
<1>2. "V" \in currentArch
  BY <1>1, ValidatedMask, Zenon
<1> QED
  BY <1>2, VSOn, Zenon

LEMMA CSROn ==
  ASSUME ArchCurrent, ~forced, NEW name, Accessible(name)
  PROVE  /\ name \in {"fflags", "frm"} => status.FS # ES_OFF
         /\ name \in {"vxsat", "vxrm", "vcsr", "vstart"} /\ HasVS => status.VS # ES_OFF
<1>1. emitBlockMask(OneOf(name) \cup Also(name)) /\ OneOf(name) \cap made.arch # {}
  BY Zenon DEF Accessible
<1>2. ASSUME name \in {"fflags", "frm"} PROVE status.FS # ES_OFF
  <2>1. OneOf(name) = {"D", "F"}
    BY <1>2, Zenon DEF OneOf
  <2>2. PICK f \in {"D", "F"} : f \in made.arch
    BY <1>1, <2>1, Zenon
  <2>3. f \in currentArch
    <3>1. f \in OneOf(name) \cup Also(name)
      BY <2>1, Zenon
    <3> QED
      BY <1>1, <2>2, <3>1, ValidatedMask, Zenon
  <2> QED
    BY <2>3, FSOn, Zenon
<1>3. ASSUME name \in {"vxsat", "vxrm", "vcsr", "vstart"}, HasVS PROVE status.VS # ES_OFF
  <2>1. OneOf(name) = {"V"}
    BY <1>3, Zenon DEF OneOf
  <2>2. "V" \in currentArch
    <3>1. "V" \in OneOf(name) \cup Also(name) /\ "V" \in made.arch
      BY <1>1, <2>1, Zenon
    <3> QED
      BY <1>1, <3>1, ValidatedMask, Zenon
  <2> QED
    BY <1>3, <2>2, VSOn, Zenon
<1> QED
  BY <1>2, <1>3, Zenon

-----------------------------------------------------------------------------
(* Each instruction keeps the invariant                                    *)

(* The part of the type invariant that is not about the status, and the    *)
(* part of the architecture that FS and VS decide.                         *)
FlagsTyped ==
  /\ fpFlags \in [CSR : BOOLEAN, MT : BOOLEAN]
  /\ satFlags \in [CSR : BOOLEAN, MT : BOOLEAN]
  /\ touched \in [F : BOOLEAN, V : BOOLEAN]
  /\ width \in [FRegs -> {16, 32, 64}]
  /\ forced \in BOOLEAN

SameOff ==
  /\ ~forced' => ~forced
  /\ ~forced' => (status'.FS = ES_OFF <=> status.FS = ES_OFF)
  /\ ~forced' /\ HasVS => (status'.VS = ES_OFF <=> status.VS = ES_OFF)

LEMMA RaiseTyped ==
  ASSUME FPTypeOK, NEW flag \in BOOLEAN, Raise(flag)
  PROVE  fpFlags' = [CSR |-> fpFlags.CSR, MT |-> fpFlags.MT \/ flag]
         /\ fpFlags' \in [CSR : BOOLEAN, MT : BOOLEAN]
<1>1. fpFlags' = [CSR |-> fpFlags.CSR, MT |-> fpFlags.MT \/ flag]
  BY Zenon DEF FPTypeOK, Raise
<1>2. fpFlags.CSR \in BOOLEAN /\ (fpFlags.MT \/ flag) \in BOOLEAN
  BY Zenon DEF FPTypeOK
<1> QED
  BY <1>1, <1>2, Zenon

(* FS turned on without a write of the status is noted. *)
LEMMA ForcedNoted ==
  ASSUME FPTypeOK, Effect, NoteForced
  PROVE  /\ forced' \in BOOLEAN
         /\ ~forced' => ~forced
         /\ ~forced' => (status'.FS = ES_OFF <=> status.FS = ES_OFF)
<1> DEFINE turned == status.FS = ES_OFF /\ status'.FS # ES_OFF
<1>1. forced' = (forced \/ turned) /\ forced \in BOOLEAN
  BY Zenon DEF NoteForced, FPTypeOK
<1>2. ~turned => (status'.FS = ES_OFF <=> status.FS = ES_OFF)
  BY ESValues DEF Effect
<1> HIDE DEF turned
<1> QED
  BY <1>1, <1>2, Zenon

LEMMA InstructionKeeps ==
  ASSUME FPInv, Effect, running,
         UNCHANGED <<conf, misa, currentArch, frm, rmCheckValid, rmOldest>>,
         FlagsTyped', SameOff, NaNBoxKnown'
  PROVE  FPInv'
<1>1. FPTypeOK'
  BY Zenon DEF FPInv, FPTypeOK, FlagsTyped, Effect, LeaveFPBlock
<1>2. KnownInBlock'
  BY Zenon DEF Effect, KnownInBlock, LeaveFPBlock
<1>3. RoundingTracked'
  BY RoundingKept, Zenon DEF FPInv, Effect
<1>4. ArchCurrent'
  BY ArchKept, Zenon DEF FPInv, Effect, SameOff
<1>5. DRequiresF'
  BY Zenon DEF FPInv, DRequiresF
<1> QED
  BY <1>1, <1>2, <1>3, <1>4, <1>5, Zenon DEF FPInv

(* One that sets the rounding mode leaves the block. *)
LEMMA ModeWriteKeeps ==
  ASSUME FPInv, NEW rm, setFPRoundingMode(frm, rm), UNCHANGED <<conf, misa, width>>,
         status' \in Statuses, known' = NothingKnown, running' = FALSE, FlagsTyped', SameOff
  PROVE  FPInv'
<1>1. RoundingTracked' /\ rmCheckValid' \in BOOLEAN /\ rmOldest' \in BOOLEAN
  BY RoundingSet, Zenon DEF FPInv
<1>2. FPTypeOK'
  BY <1>1, NothingKnownTyped, Zenon DEF FPInv, FPTypeOK, FlagsTyped
<1>3. KnownInBlock'
  BY Zenon DEF KnownInBlock, NothingKnown
<1>4. ArchCurrent'
  BY ArchSet, Zenon DEF FPInv, SameOff
<1>5. NaNBoxKnown'
  BY BoxesKept, Zenon DEF FPInv
<1>6. DRequiresF'
  BY Zenon DEF FPInv, DRequiresF
<1> QED
  BY <1>1, <1>2, <1>3, <1>4, <1>5, <1>6, Zenon DEF FPInv

LEMMA MoveKeeps ==
  ASSUME FPInv, NEW r \in FRegs, NEW b \in {16, 32, 64}, emitFMoveRR(r, b)
  PROVE  FPInv'
<1>1. /\ Enabled(Precision(b)) /\ WriteF(r, b)
      /\ touched' = [touched EXCEPT !.F = TRUE]
      /\ UNCHANGED <<conf, misa, currentArch, fpFlags, satFlags, frm, rmCheckValid, rmOldest,
                     forced>>
  BY Zenon DEF emitFMoveRR
<1>2. Effect /\ known'.boxed = BoxedAfter(r, b) /\ status'.VS = status.VS
  BY MoveEffect, Zenon DEF FPInv
<1>3. FlagsTyped'
  <2>1. width' \in [FRegs -> {16, 32, 64}]
    BY <1>1, WriteTyped DEF FPInv
  <2> QED
    BY <1>1, <2>1, Zenon DEF FPInv, FPTypeOK, FlagsTyped
<1>4. SameOff
  BY <1>1, <1>2, PrecisionOn, ESValues DEF FPInv, Effect, SameOff
<1>5. NaNBoxKnown'
  BY <1>1, <1>2, BoxesWritten, Zenon DEF FPInv
<1> QED
  BY <1>1, <1>2, <1>3, <1>4, <1>5, InstructionKeeps, Zenon DEF Enabled

LEMMA ArithKeeps ==
  ASSUME FPInv, NEW r \in FRegs, NEW b \in {16, 32, 64},
         NEW dynamic \in BOOLEAN, NEW flag \in BOOLEAN, emitFArith(r, b, dynamic, flag)
  PROVE  FPInv'
<1>1. /\ Enabled(Precision(b)) /\ WriteF(r, b) /\ Raise(flag)
      /\ touched' = [touched EXCEPT !.F = TRUE]
      /\ UNCHANGED <<conf, misa, currentArch, satFlags, frm, rmCheckValid, rmOldest, forced>>
  BY Zenon DEF emitFArith
<1>2. Effect /\ known'.boxed = BoxedAfter(r, b) /\ status'.VS = status.VS
  BY ArithEffect DEF FPInv
<1>3. FlagsTyped'
  <2>1. fpFlags' \in [CSR : BOOLEAN, MT : BOOLEAN] /\ width' \in [FRegs -> {16, 32, 64}]
    BY <1>1, WriteTyped, RaiseTyped DEF FPInv
  <2> QED
    BY <1>1, <2>1, Zenon DEF FPInv, FPTypeOK, FlagsTyped
<1>4. SameOff
  BY <1>1, <1>2, PrecisionOn, ESValues DEF FPInv, Effect, SameOff
<1>5. NaNBoxKnown'
  BY <1>1, <1>2, BoxesWritten, Zenon DEF FPInv
<1> QED
  BY <1>1, <1>2, <1>3, <1>4, <1>5, InstructionKeeps, Zenon DEF Enabled

LEMMA CompareKeeps ==
  ASSUME FPInv, NEW b, NEW flag \in BOOLEAN, emitFCompare(b, flag)
  PROVE  FPInv'
<1>1. /\ Enabled(Precision(b)) /\ Raise(flag)
      /\ touched' = [touched EXCEPT !.F = @ \/ flag \/ writeAnyFS]
      /\ UNCHANGED <<conf, misa, currentArch, satFlags, frm, rmCheckValid, rmOldest, width, forced>>
  BY Zenon DEF emitFCompare
<1>2. Effect /\ known'.boxed = known.boxed /\ status'.VS = status.VS
  BY CompareEffect, Zenon DEF FPInv
<1>3. FlagsTyped'
  <2>1. touched' = [F |-> touched.F \/ flag \/ writeAnyFS, V |-> touched.V]
    BY <1>1, Zenon DEF FPInv, FPTypeOK
  <2>2. touched.V \in BOOLEAN /\ (touched.F \/ flag \/ writeAnyFS) \in BOOLEAN
    BY Zenon DEF FPInv, FPTypeOK
  <2>3. touched' \in [F : BOOLEAN, V : BOOLEAN]
    BY <2>1, <2>2, Zenon
  <2> QED
    BY <1>1, <2>3, RaiseTyped, Zenon DEF FPInv, FPTypeOK, FlagsTyped
<1>4. SameOff
  BY <1>1, <1>2, PrecisionOn, ESValues DEF FPInv, Effect, SameOff
<1>5. NaNBoxKnown'
  BY <1>1, <1>2, BoxesKept, Zenon DEF FPInv
<1> QED
  BY <1>1, <1>2, <1>3, <1>4, <1>5, InstructionKeeps, Zenon DEF Enabled

LEMMA VectorFltKeeps ==
  ASSUME FPInv, NEW arith \in BOOLEAN, NEW ran \in BOOLEAN, NEW flag \in BOOLEAN,
         emitVectorFlt(arith, ran, flag)
  PROVE  FPInv'
<1>1. /\ Enabled(VectorFloat) /\ Raise(flag) /\ NoteForced
      /\ touched' = [F |-> touched.F \/ flag \/ (ran /\ writeAnyFS), V |-> TRUE]
      /\ UNCHANGED <<conf, misa, currentArch, satFlags, frm, rmCheckValid, rmOldest, width>>
  BY Zenon DEF emitVectorFlt
<1>2. /\ Effect /\ known'.boxed = known.boxed
      /\ ~HasVS => status'.VS = status.VS
  BY VectorFltEffect, Zenon DEF FPInv
<1>3. FlagsTyped'
  BY <1>1, <1>2, RaiseTyped, ForcedNoted, Zenon DEF FPInv, FPTypeOK, FlagsTyped
<1>4. SameOff
  <2>1. ~forced /\ HasVS => status.VS # ES_OFF
    BY <1>1, VectorOn, Zenon DEF FPInv, VectorFloat
  <2> QED
    BY <1>1, <1>2, <2>1, ForcedNoted, ESValues DEF FPInv, Effect, SameOff
<1>5. NaNBoxKnown'
  BY <1>1, <1>2, BoxesKept, Zenon DEF FPInv
<1> QED
  BY <1>1, <1>2, <1>3, <1>4, <1>5, InstructionKeeps, Zenon DEF Enabled

LEMMA VectorSatKeeps ==
  ASSUME FPInv, NEW usesVXRM \in BOOLEAN, NEW ran \in BOOLEAN, NEW flag \in BOOLEAN,
         emitVectorSat(usesVXRM, ran, flag)
  PROVE  FPInv'
<1>1. /\ Enabled(VectorFixed(usesVXRM)) /\ NoteForced
      /\ satFlags' = [satFlags EXCEPT !.MT = @ \/ flag]
      /\ touched' = [F |-> touched.F \/ (vxRequiresFS /\ (flag \/ (ran /\ writeAnyFS))), V |-> TRUE]
      /\ UNCHANGED <<conf, misa, currentArch, fpFlags, frm, rmCheckValid, rmOldest, width>>
  BY Zenon DEF emitVectorSat
<1>2. /\ Effect /\ known'.boxed = known.boxed
      /\ ~HasVS => status'.VS = status.VS
  BY VectorSatEffect, Zenon DEF FPInv
<1>3. FlagsTyped'
  BY <1>1, <1>2, ForcedNoted, Zenon DEF FPInv, FPTypeOK, FlagsTyped
<1>4. SameOff
  <2>1. ~forced /\ HasVS => status.VS # ES_OFF
    BY <1>1, VectorOn, Zenon DEF FPInv, VectorFixed
  <2> QED
    BY <1>1, <1>2, <2>1, ForcedNoted, ESValues DEF FPInv, Effect, SameOff
<1>5. NaNBoxKnown'
  BY <1>1, <1>2, BoxesKept, Zenon DEF FPInv
<1> QED
  BY <1>1, <1>2, <1>3, <1>4, <1>5, InstructionKeeps, Zenon DEF Enabled

LEMMA FlagsWriteKeeps ==
  ASSUME FPInv, NEW v \in BOOLEAN, fflagsW(v)
  PROVE  FPInv'
<1>1. /\ Accessible("fflags") /\ TouchCSR
      /\ fpFlags' = [CSR |-> v, MT |-> FALSE]
      /\ UNCHANGED <<conf, misa, currentArch, satFlags, frm, rmCheckValid, rmOldest, width, forced>>
  BY Zenon DEF fflagsW
<1>2. Effect /\ known'.boxed = known.boxed /\ status'.VS = status.VS
  BY FlagsWriteEffect, Zenon DEF FPInv
<1>3. FlagsTyped'
  BY <1>1, Zenon DEF FPInv, FPTypeOK, FlagsTyped, TouchCSR
<1>4. SameOff
  BY <1>1, <1>2, CSROn, ESValues DEF FPInv, Effect, SameOff
<1>5. NaNBoxKnown'
  BY <1>1, <1>2, BoxesKept, Zenon DEF FPInv
<1> QED
  BY <1>1, <1>2, <1>3, <1>4, <1>5, InstructionKeeps, Zenon DEF Accessible

LEMMA VectorCSRKeeps ==
  ASSUME FPInv, NEW name \in {"vxsat", "vxrm", "vcsr", "vstart"}, NEW v \in BOOLEAN,
         VectorCSRW(name, v)
  PROVE  FPInv'
<1>1. /\ Accessible(name) /\ NoteForced
      /\ satFlags' = IF name \in {"vxsat", "vcsr"} THEN [CSR |-> v, MT |-> FALSE] ELSE satFlags
      /\ touched' = [F |-> touched.F \/ (vxRequiresFS /\ name # "vstart"),
                     V |-> touched.V \/ ~vxRequiresFS \/ name = "vstart"]
      /\ UNCHANGED <<conf, misa, currentArch, fpFlags, frm, rmCheckValid, rmOldest, width>>
  BY Zenon DEF VectorCSRW
<1>2. /\ Effect
      /\ known'.boxed = known.boxed \/ known' = NothingKnown
      /\ ~HasVS => status'.VS = status.VS
  BY VectorCSREffect, Zenon DEF FPInv
<1>3. FlagsTyped'
  BY <1>1, <1>2, ForcedNoted, Zenon DEF FPInv, FPTypeOK, FlagsTyped
<1>4. SameOff
  <2>1. ~forced /\ HasVS => status.VS # ES_OFF
    BY <1>1, CSROn, Zenon DEF FPInv
  <2> QED
    BY <1>1, <1>2, <2>1, ForcedNoted, ESValues DEF FPInv, Effect, SameOff
<1>5. NaNBoxKnown'
  BY <1>1, <1>2, BoxesKept, Zenon DEF FPInv
<1> QED
  BY <1>1, <1>2, <1>3, <1>4, <1>5, InstructionKeeps, Zenon DEF Accessible

LEMMA FrmWriteKeeps ==
  ASSUME FPInv, NEW rm, frmW(rm)
  PROVE  FPInv'
<1>1. /\ Accessible("frm") /\ TouchCSR /\ setFPRoundingMode(frm, rm) /\ LeaveFPBlock
      /\ status' = riscvWFS(Here).status
      /\ UNCHANGED <<conf, misa, fpFlags, satFlags, width, forced>>
  BY Zenon DEF frmW
<1>2. Effect /\ known' = NothingKnown /\ status'.VS = status.VS
  BY <1>1, ModeWriteEffect, Zenon DEF FPInv
<1>3. FlagsTyped'
  BY <1>1, Zenon DEF FPInv, FPTypeOK, FlagsTyped, TouchCSR
<1>4. SameOff
  BY <1>1, <1>2, CSROn, ESValues DEF FPInv, Effect, SameOff
<1> QED
  BY <1>1, <1>2, <1>3, <1>4, ModeWriteKeeps, Zenon DEF Effect, LeaveFPBlock

LEMMA FcsrWriteKeeps ==
  ASSUME FPInv, NEW rm, NEW v \in BOOLEAN, NEW s \in BOOLEAN, fcsrW(rm, v, s)
  PROVE  FPInv'
<1>1. /\ TouchCSR /\ setFPRoundingMode(frm, rm) /\ LeaveFPBlock /\ NoteForced
      /\ fpFlags' = [CSR |-> v, MT |-> FALSE]
      /\ satFlags' = IF vxFieldsInFCSR THEN [CSR |-> s, MT |-> FALSE] ELSE satFlags
      /\ status' = riscvWFS(Here).status
      /\ UNCHANGED <<conf, misa, width>>
  BY Zenon DEF fcsrW
<1>2. Effect /\ known' = NothingKnown /\ status'.VS = status.VS
  BY <1>1, ModeWriteEffect, Zenon DEF FPInv
<1>3. FlagsTyped'
  BY <1>1, <1>2, ForcedNoted, Zenon DEF FPInv, FPTypeOK, FlagsTyped, TouchCSR
<1>4. SameOff
  BY <1>1, <1>2, ForcedNoted, Zenon DEF FPInv, SameOff
<1> QED
  BY <1>1, <1>2, <1>3, <1>4, ModeWriteKeeps, Zenon DEF Effect, LeaveFPBlock

-----------------------------------------------------------------------------
(* So do the other steps                                                   *)

LEMMA ConsolidatedIs ==
  ASSUME FPTypeOK
  PROVE  /\ Consolidated = [FS |-> IF Pending THEN ES_DIRTY ELSE status.FS, VS |-> status.VS]
         /\ Consolidated \in Statuses
<1>1. Consolidated = [FS |-> IF Pending THEN ES_DIRTY ELSE status.FS, VS |-> status.VS]
  BY Zenon DEF Consolidated, FPTypeOK, Statuses
<1>2. (IF Pending THEN ES_DIRTY ELSE status.FS) \in ES /\ status.VS \in ES
  BY ESValues, Zenon DEF FPTypeOK, Statuses
<1> QED
  BY <1>1, <1>2, Zenon DEF Statuses

(* A read leaves a field as it was, or Dirty, and only FS may be turned on. *)
LEMMA StatusReadIs ==
  ASSUME FPTypeOK
  PROVE  /\ statusR \in Statuses
         /\ statusR.FS = Consolidated.FS \/ statusR.FS = ES_DIRTY
         /\ statusR.VS = status.VS \/ statusR.VS = ES_DIRTY
         /\ statusR.VS = ES_OFF <=> status.VS = ES_OFF
         /\ ~alwaysDirtyFS => statusR = Consolidated
<1> DEFINE d(x) == IF alwaysDirtyFS /\ x # ES_OFF THEN ES_DIRTY ELSE x
<1>1. statusR = [FS |-> d(Consolidated.FS), VS |-> d(Consolidated.VS)]
  BY Zenon DEF statusR
<1>2. Consolidated.VS = status.VS
  BY ConsolidatedIs
<1>3. Consolidated \in [FS : ES, VS : ES]
  BY ConsolidatedIs, Zenon DEF Statuses
<1> QED
  BY <1>1, <1>2, <1>3, ESValues DEF Statuses

LEMMA ConsolidateTyped ==
  ASSUME FPTypeOK, consolidateFPFlags
  PROVE  /\ fpFlags' \in [CSR : BOOLEAN, MT : BOOLEAN] /\ fpFlags'.MT = FALSE
         /\ satFlags' \in [CSR : BOOLEAN, MT : BOOLEAN] /\ satFlags'.MT = FALSE
<1>1. (fpFlags.CSR \/ fpFlags.MT) \in BOOLEAN /\ (satFlags.CSR \/ satFlags.MT) \in BOOLEAN
  BY Zenon
<1> QED
  BY <1>1, Zenon DEF consolidateFPFlags

LEMMA StatusReadKeeps ==
  ASSUME FPInv, statusRead
  PROVE  FPInv'
<1>1. /\ consolidateFPFlags /\ status' = statusR /\ NoteForced
      /\ UNCHANGED <<conf, misa, currentArch, frm, rmCheckValid, rmOldest, running, made, known,
                     width, touched>>
  BY Zenon DEF statusRead
<1>2. Effect
  BY <1>1, StatusReadIs, ConsolidatedIs DEF FPInv, FPTypeOK, Effect
<1>3. FPTypeOK'
  <2>1. forced' \in BOOLEAN
    BY <1>1, <1>2, ForcedNoted, Zenon DEF FPInv
  <2>2. /\ fpFlags' \in [CSR : BOOLEAN, MT : BOOLEAN]
        /\ satFlags' \in [CSR : BOOLEAN, MT : BOOLEAN]
    BY <1>1, ConsolidateTyped, Zenon DEF FPInv
  <2> QED
    BY <1>1, <1>2, <2>1, <2>2, Zenon DEF FPInv, FPTypeOK, Effect
<1>4. ArchCurrent'
  <2>1. SameOff
    BY <1>1, <1>2, ForcedNoted, StatusReadIs, Zenon DEF FPInv, SameOff
  <2> QED
    BY <1>1, <1>2, <2>1, ArchKept, Zenon DEF FPInv, Effect, SameOff
<1>5. KnownInBlock' /\ NaNBoxKnown' /\ DRequiresF'
  BY <1>1, Zenon DEF FPInv, KnownInBlock, NaNBoxKnown, DRequiresF, NothingKnown
<1>6. RoundingTracked'
  BY <1>1, RoundingKept, Zenon DEF FPInv
<1> QED
  BY <1>3, <1>4, <1>5, <1>6, Zenon DEF FPInv

(* A write of the status, or of misa, derives currentArch afresh. *)
LEMMA ArchDerived ==
  ASSUME FPInv, NEW m, m \subseteq conf.arch, misa' = m, status' \in Statuses,
         UNCHANGED <<conf, frm>>, currentArch' = riscvSetCurrentArch(m, status')
  PROVE  /\ ArchCurrent'
         /\ "RM_INVALID" \in currentArch' <=> "RM_INVALID" \in currentArch
<1>1. "RM_INVALID" \notin m
  BY NoRMInMisa, Zenon DEF FPInv
<1>2. HasVS' = HasVS /\ HasVS \in BOOLEAN
  BY Zenon DEF HasVS, VF
<1>3. ("RM_INVALID" \in currentArch) = (mapFRMToRC(frm) = -1)
  BY DEF FPInv, RoundingTracked
<1>4. ArchOf(misa, status, mapFRMToRC(frm) = -1)' = ArchOf(m, status', mapFRMToRC(frm) = -1)
  BY <1>2, Zenon DEF ArchOf, mapFRMToRC
<1>5. currentArch' = ArchOf(m, status', mapFRMToRC(frm) = -1)
  BY <1>3, Zenon DEF riscvSetCurrentArch
<1>6. "RM_INVALID" \in currentArch' <=> mapFRMToRC(frm) = -1
  BY <1>1, <1>5, ArchOfRM, Zenon
<1> QED
  BY <1>3, <1>4, <1>5, <1>6, Zenon DEF ArchCurrent

LEMMA StatusWriteKeeps ==
  ASSUME FPInv, NEW s \in Statuses, statusW(s), touched' \in [F : BOOLEAN, V : BOOLEAN],
         UNCHANGED <<running, made>>, known' \in Knowledge, known'.boxed = known.boxed,
         ~running => known' = known
  PROVE  FPInv'
<1>1. /\ consolidateFPFlags /\ status' = s /\ forced' = FALSE
      /\ currentArch' = riscvSetCurrentArch(misa, s)
      /\ UNCHANGED <<conf, misa, frm, rmCheckValid, rmOldest, width>>
  BY Zenon DEF statusW
<1>2. FPTypeOK'
  <2>1. /\ fpFlags' \in [CSR : BOOLEAN, MT : BOOLEAN]
        /\ satFlags' \in [CSR : BOOLEAN, MT : BOOLEAN]
    BY <1>1, ConsolidateTyped, Zenon DEF FPInv
  <2> QED
    BY <1>1, <2>1, Zenon DEF FPInv, FPTypeOK
<1>3. ArchCurrent' /\ ("RM_INVALID" \in currentArch' <=> "RM_INVALID" \in currentArch)
  BY <1>1, ArchDerived, Zenon DEF FPInv, FPTypeOK
<1>4. RoundingTracked'
  BY <1>1, <1>3, RoundingKept, Zenon DEF FPInv
<1>5. KnownInBlock' /\ DRequiresF'
  BY <1>1, Zenon DEF FPInv, KnownInBlock, DRequiresF, NothingKnown
<1>6. NaNBoxKnown'
  BY <1>1, BoxesKept, Zenon DEF FPInv
<1> QED
  BY <1>2, <1>3, <1>4, <1>5, <1>6, Zenon DEF FPInv

LEMMA StatusWritten ==
  ASSUME FPTypeOK, NEW FS \in {0, 2}, NEW VS \in {0, 2}
  PROVE  [FS |-> FS, VS |-> IF HasVS THEN VS ELSE status.VS] \in Statuses
BY ESValues, Zenon DEF FPTypeOK, Statuses

LEMMA ResetKnowledge ==
  ASSUME FPTypeOK
  PROVE  resetFSVS(known) \in Knowledge /\ resetFSVS(known).boxed = known.boxed
BY Zenon DEF FPTypeOK, resetFSVS, Knowledge

LEMMA StatusWritesKeep ==
  ASSUME FPInv
  PROVE  /\ \A FS, VS \in {0, 2} : mstatusW(FS, VS) \/ debugStatusW(FS, VS) => FPInv'
         /\ ustatusW => FPInv'
<1>1. ASSUME NEW FS \in {0, 2}, NEW VS \in {0, 2}, mstatusW(FS, VS) PROVE FPInv'
  <2> DEFINE s == [FS |-> FS, VS |-> IF HasVS THEN VS ELSE status.VS]
  <2>1. /\ running /\ statusW(s) /\ known' = resetFSVS(known)
        /\ UNCHANGED <<running, made>> /\ touched' = [F |-> FALSE, V |-> FALSE]
    BY <1>1, Zenon DEF mstatusW, Stay
  <2>2. s \in Statuses
    BY StatusWritten, Zenon DEF FPInv
  <2> HIDE DEF s
  <2> QED
    BY <2>1, <2>2, ResetKnowledge, StatusWriteKeeps, Zenon DEF FPInv
<1>2. ASSUME NEW FS \in {0, 2}, NEW VS \in {0, 2}, debugStatusW(FS, VS) PROVE FPInv'
  <2> DEFINE s == [FS |-> FS, VS |-> IF HasVS THEN VS ELSE status.VS]
  <2>1. /\ statusW(s) /\ UNCHANGED <<running, made, known>>
        /\ touched' = [F |-> FALSE, V |-> FALSE]
    BY <1>2, Zenon DEF debugStatusW
  <2>2. s \in Statuses
    BY StatusWritten, Zenon DEF FPInv
  <2>3. known \in Knowledge
    BY Zenon DEF FPInv, FPTypeOK
  <2> HIDE DEF s
  <2> QED
    BY <2>1, <2>2, <2>3, StatusWriteKeeps, Zenon
<1>3. ASSUME ustatusW PROVE FPInv'
  <2>1. statusW(Consolidated) /\ UNCHANGED <<running, made, known, touched>>
    BY <1>3, Zenon DEF ustatusW
  <2>2. Consolidated \in Statuses
    BY ConsolidatedIs, Zenon DEF FPInv
  <2>3. known \in Knowledge /\ touched \in [F : BOOLEAN, V : BOOLEAN]
    BY Zenon DEF FPInv, FPTypeOK
  <2> QED
    BY <2>1, <2>2, <2>3, StatusWriteKeeps, Zenon
<1> QED
  BY <1>1, <1>2, <1>3, Zenon

LEMMA MisaWriteKeeps ==
  ASSUME FPInv, NEW v, NEW aligned \in BOOLEAN, misaW(v, aligned)
  PROVE  FPInv'
<1>1. /\ misa' = MisaAfter(v, aligned) /\ currentArch' = riscvSetCurrentArch(misa', status)
      /\ forced' = FALSE /\ LeaveFPBlock
      /\ UNCHANGED <<conf, status, fpFlags, satFlags, frm, rmCheckValid, rmOldest, width, touched>>
  BY Zenon DEF misaW
<1>2. misa' \subseteq conf.arch
  BY <1>1, MisaKept, Zenon DEF FPInv
<1>3. FPTypeOK'
  BY <1>1, <1>2, NothingKnownTyped, Zenon DEF FPInv, FPTypeOK, LeaveFPBlock
<1>4. ArchCurrent' /\ ("RM_INVALID" \in currentArch' <=> "RM_INVALID" \in currentArch)
  <2>1. status' \in Statuses /\ currentArch' = riscvSetCurrentArch(misa', status')
    BY <1>1, Zenon DEF FPInv, FPTypeOK
  <2> QED
    BY <1>1, <1>2, <2>1, ArchDerived, Zenon
<1>5. RoundingTracked'
  BY <1>1, <1>4, RoundingKept, Zenon DEF FPInv
<1>6. KnownInBlock'
  BY <1>1, Zenon DEF KnownInBlock, LeaveFPBlock, NothingKnown
<1>7. NaNBoxKnown'
  BY <1>1, BoxesKept, Zenon DEF FPInv, LeaveFPBlock
<1>8. DRequiresF'
  BY <1>1, MisaPaired, Zenon DEF FPInv, DRequiresF
<1> QED
  BY <1>3, <1>4, <1>5, <1>6, <1>7, <1>8, Zenon DEF FPInv

LEMMA DebugFcsrKeeps ==
  ASSUME FPInv, NEW rm, NEW v \in BOOLEAN, debugFcsrW(rm, v)
  PROVE  FPInv'
<1>1. /\ ~running /\ setFPRoundingMode(frm, rm)
      /\ fpFlags' = [CSR |-> v, MT |-> FALSE]
      /\ satFlags' = IF vxFieldsInFCSR THEN [CSR |-> v, MT |-> FALSE] ELSE satFlags
      /\ touched' = [touched EXCEPT !.F = @ /\ status.FS = ES_DIRTY]
      /\ UNCHANGED <<conf, misa, status, running, made, known, width, forced>>
  BY Zenon DEF debugFcsrW
<1>2. FlagsTyped'
  <2>1. touched' = [F |-> touched.F /\ status.FS = ES_DIRTY, V |-> touched.V]
    BY <1>1, Zenon DEF FPInv, FPTypeOK
  <2>2. touched.V \in BOOLEAN /\ (touched.F /\ status.FS = ES_DIRTY) \in BOOLEAN
    BY Zenon DEF FPInv, FPTypeOK
  <2>3. touched' \in [F : BOOLEAN, V : BOOLEAN]
    BY <2>1, <2>2, Zenon
  <2> QED
    BY <1>1, <2>3, Zenon DEF FPInv, FPTypeOK, FlagsTyped
<1>3. SameOff
  BY <1>1, Zenon DEF SameOff
<1>4. status' \in Statuses /\ running' = FALSE
  BY <1>1, Zenon DEF FPInv, FPTypeOK
<1>5. known' = NothingKnown
  BY <1>1, Zenon DEF FPInv, KnownInBlock
<1> QED
  BY <1>1, <1>2, <1>3, <1>4, <1>5, ModeWriteKeeps, Zenon

LEMMA ResetKeeps ==
  ASSUME FPInv, FPReset
  PROVE  FPInv'
<1>1. /\ ~running /\ misa' = conf.arch /\ status' = [FS |-> ES_OFF, VS |-> ES_OFF]
      /\ currentArch' = riscvSetCurrentArch(misa', status')
      /\ touched' = [F |-> FALSE, V |-> FALSE] /\ forced' = FALSE
      /\ UNCHANGED <<conf, fpFlags, satFlags, frm, rmCheckValid, rmOldest, running, made, known, width>>
  BY Zenon DEF FPReset
<1>2. status' \in Statuses
  BY <1>1, ESValues, Zenon DEF Statuses
<1>3. FPTypeOK'
  BY <1>1, <1>2, Zenon DEF FPInv, FPTypeOK
<1>4. ArchCurrent' /\ ("RM_INVALID" \in currentArch' <=> "RM_INVALID" \in currentArch)
  BY <1>1, <1>2, ArchDerived, Zenon
<1>5. RoundingTracked'
  BY <1>1, <1>4, RoundingKept, Zenon DEF FPInv
<1>6. KnownInBlock' /\ DRequiresF'
  BY <1>1, Zenon DEF FPInv, KnownInBlock, NothingKnown, DRequiresF
<1>7. NaNBoxKnown'
  BY <1>1, BoxesKept, Zenon DEF FPInv
<1> QED
  BY <1>3, <1>4, <1>5, <1>6, <1>7, Zenon DEF FPInv

(* A block entered without a check of the rounding mode was made before    *)
(* the mode was ever invalid, and it has not been since.                   *)
LEMMA StartKeeps ==
  ASSUME FPInv, StartFPBlock
  PROVE  FPInv'
<1>1. /\ running' = TRUE /\ made' \in MadeIn /\ known' = NothingKnown
      /\ UNCHANGED <<conf, misa, status, currentArch, fpFlags, satFlags, frm, rmCheckValid,
                     rmOldest, width, touched, forced>>
  BY Zenon DEF StartFPBlock
<1>2. FPTypeOK'
  BY <1>1, NothingKnownTyped, Zenon DEF FPInv, FPTypeOK
<1>3. RoundingTracked'
  <2>1. /\ made'.rmCheck \in {rmOldest, rmCheckValid}
        /\ "RM_INVALID" \in made'.arch => made'.rmCheck
    BY <1>1 DEF MadeIn
  <2>2. rmOldest = rmCheckValid
    BY Zenon DEF FPInv, RoundingTracked
  <2>3. made'.rmCheck = rmCheckValid
    BY <2>1, <2>2, Zenon
  <2> QED
    BY <1>1, <2>1, <2>3, Zenon DEF FPInv, RoundingTracked, mapFRMToRC
<1>4. ArchCurrent'
  BY <1>1, ArchKept, Zenon DEF FPInv, FPTypeOK
<1>5. KnownInBlock' /\ DRequiresF'
  BY <1>1, Zenon DEF FPInv, KnownInBlock, DRequiresF
<1>6. NaNBoxKnown'
  BY <1>1, BoxesKept, Zenon DEF FPInv
<1> QED
  BY <1>2, <1>3, <1>4, <1>5, <1>6, Zenon DEF FPInv

LEMMA LeavingKeeps ==
  ASSUME FPInv, running, LeaveFPBlock,
         UNCHANGED <<conf, misa, status, currentArch, fpFlags, satFlags, frm, rmCheckValid,
                     rmOldest, width, touched, forced>>
  PROVE  FPInv'
<1>1. Effect
  BY NothingKnownTyped, Zenon DEF FPInv, FPTypeOK, Effect, LeaveFPBlock
<1>2. FlagsTyped'
  BY Zenon DEF FPInv, FPTypeOK, FlagsTyped
<1>3. SameOff
  BY Zenon DEF SameOff
<1>4. NaNBoxKnown'
  BY BoxesKept, Zenon DEF FPInv, LeaveFPBlock
<1> QED
  BY <1>1, <1>2, <1>3, <1>4, InstructionKeeps, Zenon

LEMMA NextKeeps ==
  ASSUME FPInv, [FPNext]_fpVars
  PROVE  FPInv'
<1>1. CASE StartFPBlock
  BY <1>1, StartKeeps, Zenon
<1>2. CASE EndFPBlock \/ \E f \in {{"F"}, {"D"}, VectorFloat, VectorFixed(TRUE)} : Undefined(f) \/ BadRM(f)
  <2>1. /\ running /\ LeaveFPBlock
        /\ UNCHANGED <<conf, misa, status, currentArch, fpFlags, satFlags, frm, rmCheckValid,
                       rmOldest, width, touched, forced>>
    BY <1>2, Zenon DEF EndFPBlock, Undefined, BadRM, Enabled
  <2> QED
    BY <2>1, LeavingKeeps, Zenon
<1>3. ASSUME NEW r \in FRegs, NEW b \in {16, 32, 64},
             emitFMoveRR(r, b) \/ \E dynamic, flag \in BOOLEAN : emitFArith(r, b, dynamic, flag)
      PROVE  FPInv'
  BY <1>3, MoveKeeps, ArithKeeps
<1>4. ASSUME NEW b \in {32, 64}, NEW flag \in BOOLEAN, emitFCompare(b, flag) PROVE FPInv'
  BY <1>4, CompareKeeps, Zenon
<1>5. ASSUME NEW x \in BOOLEAN, NEW ran \in BOOLEAN, NEW flag \in BOOLEAN,
             emitVectorFlt(x, ran, flag) \/ emitVectorSat(x, ran, flag)
      PROVE  FPInv'
  BY <1>5, VectorFltKeeps, VectorSatKeeps, Zenon
<1>6. ASSUME NEW v \in BOOLEAN,
             \/ fflagsW(v)
             \/ \E name \in {"vxsat", "vxrm", "vcsr", "vstart"} : VectorCSRW(name, v)
             \/ \E rm \in FRMs : fcsrW(rm, v, v) \/ debugFcsrW(rm, v)
      PROVE  FPInv'
  BY <1>6, FlagsWriteKeeps, VectorCSRKeeps, FcsrWriteKeeps, DebugFcsrKeeps, Zenon
<1>7. ASSUME NEW rm \in FRMs, frmW(rm) PROVE FPInv'
  BY <1>7, FrmWriteKeeps, Zenon
<1>8. ASSUME NEW FS \in {0, 2}, NEW VS \in {0, 2}, mstatusW(FS, VS) \/ debugStatusW(FS, VS)
      PROVE  FPInv'
  BY <1>8, StatusWritesKeep, Zenon
<1>9. CASE statusRead \/ ustatusW \/ FPReset
  BY <1>9, StatusReadKeeps, StatusWritesKeep, ResetKeeps, Zenon
<1>10. ASSUME NEW v \in SUBSET conf.archMask, NEW aligned \in BOOLEAN, misaW(v \cup {"X"}, aligned)
       PROVE  FPInv'
  BY <1>10, MisaWriteKeeps, Zenon
<1>11. CASE UNCHANGED fpVars
  <2>1. FPTypeOK' /\ KnownInBlock' /\ NaNBoxKnown' /\ DRequiresF'
    BY <1>11 DEF fpVars, FPInv, FPTypeOK, KnownInBlock, NaNBoxKnown, DRequiresF, NothingKnown
  <2>2. RoundingTracked' /\ ArchCurrent'
    BY <1>11, RoundingKept, ArchKept, Zenon DEF fpVars, FPInv, FPTypeOK
  <2> QED
    BY <2>1, <2>2, Zenon DEF FPInv
<1> QED
  BY <1>1, <1>2, <1>3, <1>4, <1>5, <1>6, <1>7, <1>8, <1>9, <1>10, <1>11, ZenonT(30) DEF FPNext

LEMMA InitHolds == FPInit => FPInv
<1> SUFFICES ASSUME FPInit PROVE FPInv
  BY Zenon
<1> USE DEF FPInit
<1>1. FPTypeOK
  BY NothingKnownTyped, ESValues, Zenon DEF FPTypeOK, Statuses
<1>2. mapFRMToRC(frm) # -1
  BY DEF mapFRMToRC
<1>3. "RM_INVALID" \notin currentArch
  BY <1>1, NoRMInMisa, ArchOfRM, Zenon
<1>4. RoundingTracked
  BY <1>2, <1>3, Zenon DEF RoundingTracked
<1>5. ArchCurrent
  <2>1. (mapFRMToRC(frm) = -1) = FALSE
    BY <1>2, Zenon
  <2> QED
    BY <2>1, Zenon DEF ArchCurrent
<1>6. KnownInBlock /\ NaNBoxKnown
  BY Zenon DEF KnownInBlock, NaNBoxKnown, NothingKnown
<1>7. DRequiresF
  BY Zenon DEF DRequiresF
<1> QED
  BY <1>1, <1>4, <1>5, <1>6, <1>7, Zenon DEF FPInv

(* What the generator knows of the status and of the boxed registers, and  *)
(* the architecture it takes to be enabled, agree with the registers in    *)
(* every reachable state.                                                  *)
THEOREM FPInvariant == FPSpec => []FPInv
BY InitHolds, NextKeeps, PTL DEF FPSpec

(* The architecture from which instructions are found legal and code is    *)
(* found reusable follows misa, FS, VS and frm through every write, except *)
(* from a forced FS to the next write of the status or of misa.            *)
THEOREM ArchStaysCurrent == FPSpec => []ArchCurrent
<1>1. FPInv => ArchCurrent
  BY Zenon DEF FPInv
<1> QED
  BY <1>1, FPInvariant, PTL

(* No write of misa, whichever of D and F is writable, leaves D enabled    *)
(* without the F it requires.                                              *)
THEOREM DImpliesF == FPSpec => []DRequiresF
<1>1. FPInv => DRequiresF
  BY Zenon DEF FPInv
<1> QED
  BY <1>1, FPInvariant, PTL

-----------------------------------------------------------------------------
(* What is known to be dirty, and what is reported so                      *)

(* Changed state is dirty, or flags that will make it so are pending. *)
Reported ==
  ~alwaysDirtyFS => /\ touched.F => (Pending \/ status.FS = ES_DIRTY)
                    /\ touched.V /\ HasVS => status.VS = ES_DIRTY

DirtyInv == DirtyKnown /\ Reported

LEMMA SameConf ==
  ASSUME UNCHANGED conf
  PROVE  /\ alwaysDirtyFS' = alwaysDirtyFS /\ HasVS' = HasVS /\ vxRequiresFS' = vxRequiresFS
         /\ alwaysDirtyFS \in BOOLEAN /\ HasVS \in BOOLEAN /\ vxRequiresFS \in BOOLEAN
BY DEF alwaysDirtyFS, HasVS, vxRequiresFS, VF, riscvVFSupport

(* An instruction that dirties what it changes, or leaves flags pending. *)
LEMMA DirtyKept ==
  ASSUME DirtyInv, Effect, LearnsTrue, UNCHANGED conf,
         ~alwaysDirtyFS /\ touched'.F =>
           \/ Pending' \/ status'.FS = ES_DIRTY
           \/ touched.F /\ ~Pending,
         ~alwaysDirtyFS /\ HasVS /\ touched'.V => touched.V \/ status'.VS = ES_DIRTY
  PROVE  DirtyInv'
<1>1. DirtyKnown'
  BY Zenon DEF DirtyInv, DirtyKnown, Effect, LearnsTrue
<1>2. Reported'
  BY SameConf, Zenon DEF DirtyInv, Reported, Effect
<1> QED
  BY <1>1, <1>2, Zenon DEF DirtyInv

LEMMA FloatDirties ==
  ASSUME FPInv, DirtyInv, NEW r \in FRegs, NEW b \in {16, 32, 64},
         emitFMoveRR(r, b) \/ \E dynamic, flag \in BOOLEAN : emitFArith(r, b, dynamic, flag)
  PROVE  DirtyInv'
<1>1. Effect /\ LearnsTrue /\ (~alwaysDirtyFS => status'.FS = ES_DIRTY)
  BY MoveEffect, ArithEffect DEF FPInv, DirtyInv
<1>2. UNCHANGED conf /\ touched' = [touched EXCEPT !.F = TRUE]
  BY Zenon DEF emitFMoveRR, emitFArith
<1>3. touched'.V = touched.V
  BY <1>2, Zenon DEF FPInv, FPTypeOK
<1> QED
  BY <1>1, <1>2, <1>3, DirtyKept, Zenon

LEMMA CompareDirties ==
  ASSUME FPInv, DirtyInv, NEW b, NEW flag \in BOOLEAN, emitFCompare(b, flag)
  PROVE  DirtyInv'
<1>1. Effect /\ LearnsTrue /\ (writeAnyFS => status'.FS = ES_DIRTY)
  BY CompareEffect, Zenon DEF FPInv, DirtyInv
<1>2. /\ Raise(flag) /\ UNCHANGED <<conf, satFlags>>
      /\ touched' = [touched EXCEPT !.F = @ \/ flag \/ writeAnyFS]
  BY Zenon DEF emitFCompare
<1>3. touched'.V = touched.V /\ touched'.F = (touched.F \/ flag \/ writeAnyFS)
  BY <1>2, Zenon DEF FPInv, FPTypeOK
<1>4. (Pending \/ flag) => Pending'
  BY <1>2, RaiseTyped, SameConf DEF Pending, FPInv
<1> QED
  BY <1>1, <1>2, <1>3, <1>4, DirtyKept, Zenon

(* Flags raised in a loop that processes no element are neither pending    *)
(* nor, unless FS is made dirty whenever they may be raised, missed.       *)
LEMMA VectorDirties ==
  ASSUME FPInv, DirtyInv, "write_any" \notin Skipping,
         NEW x \in BOOLEAN, NEW ran \in BOOLEAN, NEW flag \in BOOLEAN,
         emitVectorFlt(x, ran, flag) \/ emitVectorSat(x, ran, flag)
  PROVE  DirtyInv'
<1>1. CASE emitVectorFlt(x, ran, flag)
  <2>1. /\ Effect /\ LearnsTrue
        /\ ~alwaysDirtyFS /\ HasVS => status'.VS = ES_DIRTY
        /\ ran /\ writeAnyFS => status'.FS = ES_DIRTY
    BY <1>1, VectorFltEffect, Zenon DEF FPInv, DirtyInv
  <2>2. /\ Raise(flag) /\ UNCHANGED <<conf, satFlags>>
        /\ touched' = [F |-> touched.F \/ flag \/ (ran /\ writeAnyFS), V |-> TRUE]
    BY <1>1, Zenon DEF emitVectorFlt
  <2>3. (Pending \/ flag) => Pending'
    BY <2>2, RaiseTyped, SameConf DEF Pending, FPInv
  <2>4. touched'.F = (touched.F \/ flag \/ (ran /\ writeAnyFS))
    BY <2>2, Zenon
  <2> QED
    BY <2>1, <2>2, <2>3, <2>4, DirtyKept, Zenon
<1>2. CASE emitVectorSat(x, ran, flag)
  <2>1. /\ Effect /\ LearnsTrue
        /\ ~alwaysDirtyFS /\ HasVS => status'.VS = ES_DIRTY
        /\ vxRequiresFS /\ ran /\ writeAnyFS => status'.FS = ES_DIRTY
    BY <1>2, VectorSatEffect, Zenon DEF FPInv, DirtyInv
  <2>2. /\ satFlags' = [satFlags EXCEPT !.MT = @ \/ flag] /\ UNCHANGED <<conf, fpFlags>>
        /\ touched' = [F |-> touched.F \/ (vxRequiresFS /\ (flag \/ (ran /\ writeAnyFS))), V |-> TRUE]
    BY <1>2, Zenon DEF emitVectorSat
  <2>3. satFlags'.MT = (satFlags.MT \/ flag)
    BY <2>2, Zenon DEF FPInv, FPTypeOK
  <2>4. (Pending \/ (vxRequiresFS /\ flag)) => Pending'
    BY <2>2, <2>3, SameConf, Zenon DEF Pending
  <2>5. touched'.F = (touched.F \/ (vxRequiresFS /\ (flag \/ (ran /\ writeAnyFS))))
    BY <2>2, Zenon
  <2> QED
    BY <2>1, <2>2, <2>4, <2>5, DirtyKept, Zenon
<1> QED
  BY <1>1, <1>2, Zenon

LEMMA CSRWriteDirties ==
  ASSUME FPInv, DirtyInv, NEW v \in BOOLEAN,
         \/ fflagsW(v)
         \/ \E rm \in FRMs : frmW(rm) \/ fcsrW(rm, v, v)
         \/ \E name \in {"vxsat", "vxrm", "vcsr", "vstart"} : VectorCSRW(name, v)
  PROVE  DirtyInv'
<1>1. CASE fflagsW(v) \/ \E rm \in FRMs : frmW(rm) \/ fcsrW(rm, v, v)
  <2>1. Effect /\ LearnsTrue /\ (~alwaysDirtyFS => status'.FS = ES_DIRTY)
    <3>1. CASE fflagsW(v)
      BY <3>1, FlagsWriteEffect, Zenon DEF FPInv, DirtyInv
    <3>2. CASE \E rm \in FRMs : frmW(rm) \/ fcsrW(rm, v, v)
      <4>1. LeaveFPBlock /\ status' = riscvWFS(Here).status
        BY <3>2, Zenon DEF frmW, fcsrW
      <4> QED
        BY <4>1, ModeWriteEffect, Zenon DEF FPInv, DirtyInv
    <3> QED
      BY <1>1, <3>1, <3>2, Zenon
  <2>2. UNCHANGED conf /\ touched' = [F |-> TRUE, V |-> touched.V]
    BY <1>1, Zenon DEF fflagsW, frmW, fcsrW, TouchCSR
  <2>3. touched'.V = touched.V
    BY <2>2, Zenon
  <2> QED
    BY <2>1, <2>2, <2>3, DirtyKept, Zenon
<1>2. ASSUME NEW name \in {"vxsat", "vxrm", "vcsr", "vstart"}, VectorCSRW(name, v)
      PROVE  DirtyInv'
  <2>1. /\ Effect /\ LearnsTrue
        /\ ~alwaysDirtyFS =>
              /\ vxRequiresFS /\ name # "vstart" => status'.FS = ES_DIRTY
              /\ HasVS /\ (~vxRequiresFS \/ name = "vstart") => status'.VS = ES_DIRTY
    BY <1>2, VectorCSREffect, Zenon DEF FPInv, DirtyInv
  <2>2. /\ UNCHANGED <<conf, fpFlags>>
        /\ name \notin {"vxsat", "vcsr"} => satFlags' = satFlags
        /\ touched' = [F |-> touched.F \/ (vxRequiresFS /\ name # "vstart"),
                       V |-> touched.V \/ ~vxRequiresFS \/ name = "vstart"]
    BY <1>2, Zenon DEF VectorCSRW
  <2>3. /\ touched'.F = (touched.F \/ (vxRequiresFS /\ name # "vstart"))
        /\ touched'.V = (touched.V \/ ~vxRequiresFS \/ name = "vstart")
    BY <2>2, Zenon
  <2>4. Pending => Pending' \/ (vxRequiresFS /\ name # "vstart")
    BY <2>2, SameConf, Zenon DEF Pending
  <2> QED
    BY <2>1, <2>2, <2>3, <2>4, DirtyKept, Zenon
<1> QED
  BY <1>1, <1>2, Zenon

(* A write of the status forgets what was known; a read keeps it true. *)
LEMMA StatusDirties ==
  ASSUME FPInv, DirtyInv,
         \/ \E FS, VS \in {0, 2} : mstatusW(FS, VS) \/ debugStatusW(FS, VS)
         \/ statusRead \/ ustatusW \/ FPReset
  PROVE  DirtyInv'
<1>1. ASSUME NEW FS \in {0, 2}, NEW VS \in {0, 2}, mstatusW(FS, VS) \/ debugStatusW(FS, VS)
      PROVE  DirtyInv'
  <2>1. touched' = [F |-> FALSE, V |-> FALSE]
    BY <1>1, Zenon DEF mstatusW, debugStatusW
  <2>2. known'.FSDirty = FALSE /\ known'.VSDirty = FALSE
    BY <1>1 DEF mstatusW, debugStatusW, Stay, resetFSVS, FPInv, KnownInBlock, NothingKnown
  <2> QED
    BY <2>1, <2>2, Zenon DEF DirtyInv, DirtyKnown, Reported
<1>2. CASE FPReset
  <2>1. touched' = [F |-> FALSE, V |-> FALSE] /\ known' = NothingKnown
    BY <1>2, Zenon DEF FPReset, FPInv, KnownInBlock
  <2> QED
    BY <2>1, Zenon DEF DirtyInv, DirtyKnown, Reported, NothingKnown
<1>3. CASE statusRead \/ ustatusW
  <2>1. UNCHANGED <<conf, known, touched>> /\ (status' = statusR \/ status' = Consolidated)
    BY <1>3, Zenon DEF statusRead, ustatusW, statusW
  <2>2. /\ Pending => status'.FS = ES_DIRTY
        /\ status'.FS = status.FS \/ status'.FS = ES_DIRTY
        /\ status'.VS = status.VS \/ status'.VS = ES_DIRTY
    BY <2>1, StatusReadIs, ConsolidatedIs DEF FPInv
  <2> QED
    BY <2>1, <2>2, SameConf DEF DirtyInv, DirtyKnown, Reported
<1> QED
  BY <1>1, <1>2, <1>3, Zenon

LEMMA OthersDirty ==
  ASSUME FPInv, DirtyInv,
         \/ StartFPBlock \/ EndFPBlock \/ UNCHANGED fpVars
         \/ \E f \in {{"F"}, {"D"}, VectorFloat, VectorFixed(TRUE)} : Undefined(f) \/ BadRM(f)
         \/ \E v \in SUBSET conf.archMask, aligned \in BOOLEAN : misaW(v \cup {"X"}, aligned)
         \/ \E rm \in FRMs, v \in BOOLEAN : debugFcsrW(rm, v)
  PROVE  DirtyInv'
<1>1. CASE \E rm \in FRMs, v \in BOOLEAN : debugFcsrW(rm, v)
  <2>1. /\ UNCHANGED <<conf, status, known>>
        /\ touched' = [touched EXCEPT !.F = @ /\ status.FS = ES_DIRTY]
    BY <1>1, Zenon DEF debugFcsrW
  <2>2. (touched'.F => status.FS = ES_DIRTY) /\ touched'.V = touched.V
    BY <2>1, Zenon DEF FPInv, FPTypeOK
  <2> QED
    BY <2>1, <2>2, SameConf DEF DirtyInv, DirtyKnown, Reported
<1>2. CASE ~\E rm \in FRMs, v \in BOOLEAN : debugFcsrW(rm, v)
  <2>1. UNCHANGED <<conf, status, fpFlags, satFlags, touched>> /\ known' \in {known, NothingKnown}
    BY <1>2, Zenon DEF StartFPBlock, EndFPBlock, Undefined, BadRM, misaW, LeaveFPBlock, fpVars
  <2>2. Pending' = Pending
    BY <2>1, SameConf DEF Pending
  <2>3. Reported'
    BY <2>1, <2>2, SameConf, Zenon DEF DirtyInv, Reported
  <2>4. DirtyKnown'
    BY <2>1 DEF DirtyInv, DirtyKnown, NothingKnown
  <2> QED
    BY <2>3, <2>4, Zenon DEF DirtyInv
<1> QED
  BY <1>1, <1>2, Zenon

LEMMA NextDirties ==
  ASSUME FPInv, DirtyInv, "write_any" \notin Skipping, [FPNext]_fpVars
  PROVE  DirtyInv'
<1>1. ASSUME NEW v \in BOOLEAN,
             \/ fflagsW(v)
             \/ \E name \in {"vxsat", "vxrm", "vcsr", "vstart"} : VectorCSRW(name, v)
             \/ \E rm \in FRMs : fcsrW(rm, v, v) \/ debugFcsrW(rm, v)
      PROVE  DirtyInv'
  BY <1>1, CSRWriteDirties, OthersDirty, Zenon
<1>2. ASSUME NEW rm \in FRMs, frmW(rm) PROVE DirtyInv'
  BY <1>2, CSRWriteDirties, Zenon
<1> QED
  BY <1>1, <1>2, FloatDirties, CompareDirties, VectorDirties, StatusDirties, OthersDirty, Zenon DEF FPNext

(* Unless a vector loop in mode write_any processes no element (which      *)
(* leaves FS taken to be dirty when it is not), whatever the program has   *)
(* changed since it last wrote the status is reported Dirty.               *)
THEOREM ChangesReported ==
  ASSUME "write_any" \notin Skipping
  PROVE  FPSpec => []DirtyReported
<1>1. FPInit => DirtyInv
  BY DEF FPInit, DirtyInv, DirtyKnown, Reported, NothingKnown
<1>2. FPInv /\ DirtyInv /\ [FPNext]_fpVars => DirtyInv'
  BY NextDirties, Zenon
<1>3. FPInv /\ DirtyInv => DirtyReported
  BY StatusReadIs, ConsolidatedIs DEF FPInv, DirtyInv, Reported, DirtyReported
<1> QED
  BY <1>1, <1>2, <1>3, FPInvariant, PTL DEF FPSpec

(* Under the same condition every store to FS or VS, every check of the    *)
(* rounding mode and every NaN-box test that generated code leaves out     *)
(* would have made no difference.                                          *)
THEOREM KnowledgeStaysTrue ==
  ASSUME "write_any" \notin Skipping
  PROVE  FPSpec => []FPKnowledgeTrue
<1>1. FPInit => DirtyInv
  BY DEF FPInit, DirtyInv, DirtyKnown, Reported, NothingKnown
<1>2. FPInv /\ DirtyInv /\ [FPNext]_fpVars => DirtyInv'
  BY NextDirties, Zenon
<1>3. FPInv => RoundingChecked
  <2> SUFFICES ASSUME FPInv, running, CheckedRM PROVE LegalRM <=> mapFRMToRC(frm) # -1
    BY Zenon DEF RoundingChecked
  <2>1. CASE made.rmCheck
    <3>1. "RM_INVALID" \in currentArch <=> "RM_INVALID" \in made.arch
      BY <2>1, Zenon DEF CheckedRM, emitBlockMask
    <3> QED
      BY <3>1, Zenon DEF FPInv, RoundingTracked, LegalRM
  <2>2. CASE ~made.rmCheck
    BY <2>2, Zenon DEF FPInv, RoundingTracked, LegalRM
  <2> QED
    BY <2>1, <2>2, Zenon
<1>4. FPInv /\ DirtyInv => FPKnowledgeTrue
  BY <1>3, Zenon DEF FPKnowledgeTrue, DirtyInv, FPInv
<1> QED
  BY <1>1, <1>2, <1>4, FPInvariant, PTL DEF FPSpec

=============================================================================
