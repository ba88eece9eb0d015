--------------------------- MODULE VectorOpProofs ---------------------------
(***************************************************************************)
(* Proofs about the element loop of VectorOp, for every configuration,     *)
(* setting and instruction InstructionAssumption allows.                   *)
(***************************************************************************)
EXTENDS VectorOp, VectorOperandProofs

-----------------------------------------------------------------------------
(* The element loop                                                        *)

(* What is known of the instruction. *)
LEMMA InstructionFacts ==
  ASSUME NEW e \in Settings, NEW i \in Instructions(e)
  PROVE  Setting(e) /\ Decoded(i) /\ RowClass(i.row)
  BY InstructionAssumption, RowsClassified, Zenon DEF Decoded

(* The elements processed so far. *)
Processed == {order[p] : p \in DOMAIN order}

InLoop == pc \in {"loop", "trap"}

(* Where the element loop is, and what it has processed by then: the       *)
(* selected elements below vstart, in order.                               *)
LoopInv ==
  /\ env \in Settings /\ ins \in Instructions(env)
  /\ pc \in {"idle", "loop", "skip", "end", "done", "trap", "illegal"}
  /\ vl \in Nat /\ vstart \in Nat /\ faults \in Nat /\ vFirstFault \in BOOLEAN
  /\ order \in Seq(Nat)
  /\ FaultOnlyFirst
  /\ pc = "idle" => vstart = env.vstart /\ vl = env.vl /\ order = <<>>
  /\ pc = "trap" => ins.row.tcb \in MemoryCBs
  /\ InLoop => First <= vstart /\ \A p \in DOMAIN order : order[p] < vstart
  /\ InLoop /\ ins.row.morph = "emitScalarOp" => order = <<>>
  /\ \A p \in 1..(Len(order) - 1) : order[p] < order[p + 1]
  /\ ins.row.morph = "emitVectorOp" =>
       /\ InLoop => vstart < Limit(ins, env, vl)
       /\ InLoop => Processed = {k \in Elements : k < vstart}
       /\ pc \in {"end", "skip"} => Processed = Elements
       /\ pc = "done" /\ vl # 0 => Processed = Elements

LEMMA EmptyProcessed ==
  ASSUME order = <<>>
  PROVE  Processed = {} /\ order \in Seq(Nat) /\ DOMAIN order = {} /\ Len(order) = 0
  BY DEF Processed

(* One more element, above the others. *)
LEMMA AppendElement ==
  ASSUME order \in Seq(Nat), NEW k \in Nat, order' = Append(order, k),
         \A p \in DOMAIN order : order[p] < k,
         \A p \in 1..(Len(order) - 1) : order[p] < order[p + 1]
  PROVE  /\ order' \in Seq(Nat)
         /\ Processed' = Processed \cup {k}
         /\ \A p \in DOMAIN order' : order'[p] < k + 1
         /\ \A p \in 1..(Len(order') - 1) : order'[p] < order'[p + 1]
  <1>1. order' \in Seq(Nat) /\ DOMAIN order' = 1..(Len(order) + 1) /\ Len(order') = Len(order) + 1
        /\ DOMAIN order = 1..Len(order) /\ Len(order) \in Nat
    OBVIOUS
  <1>2. \A p \in 1..Len(order) : order'[p] = order[p] /\ order[p] \in Nat
    OBVIOUS
  <1>3. order'[Len(order) + 1] = k
    OBVIOUS
  <1>4. Processed' = Processed \cup {k}
    BY <1>1, <1>2, <1>3 DEF Processed
  <1>5. \A p \in DOMAIN order' : order'[p] < k + 1
    BY <1>1, <1>2, <1>3
  <1>6. \A p \in 1..(Len(order') - 1) : order'[p] < order'[p + 1]
    BY <1>1, <1>2, <1>3
  <1> QED BY <1>1, <1>4, <1>5, <1>6

LEMMA LoopInit == Init => LoopInv
  <1> SUFFICES ASSUME Init PROVE LoopInv
    OBVIOUS
  <1>1. env \in Settings /\ ins \in Instructions(env) /\ pc = "idle" /\ vl = env.vl /\ vstart = env.vstart
        /\ order = <<>> /\ faults = 0 /\ vFirstFault = FALSE
    BY Zenon DEF Init
  <1>2. vl \in Nat /\ vstart \in Nat
    BY <1>1, InstructionFacts DEF Setting
  <1>3. order \in Seq(Nat) /\ Len(order) = 0
    BY <1>1
  <1>4. FaultOnlyFirst
    BY <1>1, Zenon DEF FaultOnlyFirst
  <1>5. \A p \in 1..(Len(order) - 1) : order[p] < order[p + 1]
    BY <1>3
  <1>6. 0 \in Nat
    OBVIOUS
  <1> QED BY <1>1, <1>2, <1>3, <1>4, <1>5, <1>6, Zenon DEF LoopInv, InLoop

(* What an instruction is to do depends on ins, env and vl only. *)
LEMMA SameInstruction ==
  ASSUME UNCHANGED <<ins, env, vl>>
  PROVE  /\ First' = First /\ Elements' = Elements
         /\ Limit(ins, env, vl)' = Limit(ins, env, vl)
  BY Zenon DEF First, Elements, Body, Masked, Limit

LEMMA EmitKeepsLoop ==
  ASSUME LoopInv, pc \in {"idle", "trap"}, emitVectorOp
  PROVE  LoopInv'
  <1> DEFINE L == Limit(ins, env, vl)
  <1>1. /\ UNCHANGED <<ins, env, vl, order, faults>>
        /\ env \in Settings /\ ins \in Instructions(env) /\ order \in Seq(Nat)
    BY Zenon DEF emitVectorOp, LoopInv
  <1>2. Setting(env) /\ Decoded(ins)
    BY <1>1, InstructionFacts, Zenon
  <1>3. vl \in Nat /\ env.vl \in Nat /\ vstart \in Nat /\ L \in Nat /\ (isWhole(ins) => 0 < L)
    BY <1>1, <1>2, VLMAXType DEF LoopInv, Limit, Setting
  <1> HIDE DEF L
  <1>4. /\ First' = First /\ Elements' = Elements /\ Limit(ins, env, vl)' = L /\ Processed' = Processed
    BY <1>1, SameInstruction DEF Processed, L
  <1>5. /\ pc = "idle" => vstart = env.vstart /\ order = <<>> /\ Processed = {}
        /\ pc = "trap" => ins.row.tcb \in MemoryCBs /\ vstart < L /\ First <= vstart
                            /\ Processed = {k \in Elements : k < vstart}
                            /\ \A p \in DOMAIN order : order[p] < vstart
        /\ ~vFirstFault /\ FaultOnlyFirst
        /\ \A p \in 1..(Len(order) - 1) : order[p] < order[p + 1]
    <2>1. pc = "idle" => vstart = env.vstart /\ order = <<>>
      BY Zenon DEF LoopInv
    <2>2. pc = "idle" => Processed = {}
      BY <2>1, EmptyProcessed, Zenon
    <2>3. pc = "trap" => ins.row.tcb \in MemoryCBs /\ ins.row.morph = "emitVectorOp"
      BY <1>2, MorphFacts, Zenon DEF LoopInv
    <2>4. pc = "trap" => vstart < L /\ First <= vstart /\ Processed = {k \in Elements : k < vstart}
                           /\ \A p \in DOMAIN order : order[p] < vstart
      BY <2>3, Zenon DEF LoopInv, InLoop, L
    <2>5. ~vFirstFault /\ FaultOnlyFirst /\ \A p \in 1..(Len(order) - 1) : order[p] < order[p + 1]
      BY Zenon DEF LoopInv, FaultOnlyFirst
    <2> QED BY <2>1, <2>2, <2>3, <2>4, <2>5, Zenon
  <1>6. CASE pc' = "illegal" /\ UNCHANGED vFirstFault /\ vstart' \in Nat
    BY <1>1, <1>3, <1>4, <1>5, <1>6 DEF LoopInv, InLoop, FaultOnlyFirst
  <1>7. CASE pc' = "done" /\ vstart' = 0 /\ UNCHANGED vFirstFault /\ getVLClassMt(ins, env) = "ZERO"
    <2>1. ~isWhole(ins) /\ env.vl = 0
      BY <1>7 DEF getVLClassMt
    <2>2. vl = 0
      BY <2>1, <1>5, <1>3 DEF FaultOnlyFirst
    <2> QED BY <2>2, <1>1, <1>3, <1>4, <1>5, <1>7 DEF LoopInv, InLoop, FaultOnlyFirst
  <1>8. CASE startVectorOp(ins, env, vl, vstart)
    <2> DEFINE noCheck == ins.whole = "RV_WD_MV" \/ noVStartCheck(ins.shape)
               first == IF noCheck THEN 0 ELSE vstart
    <2>1. CASE ~noCheck /\ vstart >= L
      <3>1. pc' = "skip" /\ vstart' \in Nat /\ UNCHANGED vFirstFault
        BY <2>1, <1>3, <1>8 DEF startVectorOp, L
      <3>2. pc = "idle"
        BY <2>1, <1>5, <1>3
      <3>3. Elements = {} /\ Processed = {}
        BY <2>1, <3>2, <1>5, <1>3 DEF Elements, Body, First, L
      <3> QED BY <3>1, <3>2, <3>3, <1>1, <1>3, <1>4, <1>5 DEF LoopInv, InLoop, FaultOnlyFirst
    <2>2. CASE ~(~noCheck /\ vstart >= L)
      <3>1. pc' = "loop" /\ vstart' = first
        BY <2>2, <1>8, Zenon DEF startVectorOp, L
      <3>2. vFirstFault' = (ins.row.init = "emitVLdStInitCB" /\ ins.ff)
        BY <2>2, <1>8, <1>5, Zenon DEF startVectorOp, L
      <3>3. first \in Nat /\ First <= first
        BY <1>3, <1>5, <1>2 DEF First, Setting
      <3>4. ins.row.morph = "emitVectorOp" => first < L
        BY <2>2, <1>2, <1>3, MorphFacts DEF isWhole
      <3>5. CASE pc = "idle"
        <4>1. First = first
          BY <3>5, <1>5 DEF First
        <4>2. Processed = {k \in Elements : k < first}
          BY <4>1, <3>5, <3>3, <1>5, <1>3 DEF Elements, Body, L
        <4>3. DOMAIN order = {} /\ Len(order) = 0
          BY <3>5, <1>5
        <4> QED BY <3>1, <3>2, <3>3, <3>4, <3>5, <4>2, <4>3, <1>1, <1>3, <1>4, <1>5 DEF LoopInv, InLoop, FaultOnlyFirst
      <3>6. CASE pc = "trap"
        <4>0. ~noCheck
          BY <3>6, <1>5, <1>2, MorphFacts, Zenon
        <4>1. first = vstart
          BY <4>0
        <4>2. ins.row.morph = "emitVectorOp"
          BY <3>6, <1>5, <1>2, MorphFacts
        <4> QED BY <3>1, <3>2, <3>3, <3>4, <3>6, <4>1, <4>2, <1>1, <1>3, <1>4, <1>5 DEF LoopInv, InLoop, FaultOnlyFirst
      <3> QED BY <3>5, <3>6
    <2> QED BY <2>1, <2>2
  <1> QED BY <1>3, <1>6, <1>7, <1>8, Zenon DEF emitVectorOp

LEMMA ElementKeepsLoop ==
  ASSUME LoopInv, pc = "loop", order' = (IF Selected THEN Append(order, vstart) ELSE order),
         endVectorLoop(vl), UNCHANGED <<ins, env, vl, vFirstFault, faults>>
  PROVE  LoopInv'
  <1> DEFINE L == Limit(ins, env, vl)
  <1>1. /\ env \in Settings /\ ins \in Instructions(env) /\ order \in Seq(Nat)
        /\ vl \in Nat /\ vstart \in Nat /\ faults \in Nat /\ vFirstFault \in BOOLEAN
        /\ First <= vstart /\ FaultOnlyFirst
        /\ \A p \in DOMAIN order : order[p] < vstart
        /\ \A p \in 1..(Len(order) - 1) : order[p] < order[p + 1]
        /\ ins.row.morph = "emitScalarOp" => order = <<>>
        /\ ins.row.morph = "emitVectorOp" => vstart < L /\ Processed = {k \in Elements : k < vstart}
    BY Zenon DEF LoopInv, InLoop
  <1>2. Setting(env) /\ Decoded(ins)
    BY <1>1, InstructionFacts, Zenon
  <1>3. L \in Nat /\ First \in Nat
    <2>1. L \in Nat
      BY <1>1, <1>2, VLMAXType, Zenon DEF Limit
    <2>2. env.vstart \in Nat /\ 0 \in Nat
      BY <1>2 DEF Setting
    <2> QED BY <2>1, <2>2, Zenon DEF First
  <1>4. ins.row.morph \in {"emitVectorOp", "emitScalarOp"}
    BY <1>2, MorphFacts, Zenon
  <1>5. /\ First' = First /\ Elements' = Elements /\ Limit(ins, env, vl)' = L
    BY SameInstruction
  <1>6. FaultOnlyFirst' /\ pc' \in {"loop", "end"}
    BY <1>1, Zenon DEF FaultOnlyFirst, endVectorLoop
  <1>7. /\ order' \in Seq(Nat)
        /\ Processed' = (IF Selected THEN Processed \cup {vstart} ELSE Processed)
        /\ \A p \in DOMAIN order' : order'[p] < vstart + 1
        /\ \A p \in 1..(Len(order') - 1) : order'[p] < order'[p + 1]
    <2>1. CASE Selected
      <3>1. order' = Append(order, vstart)
        BY <2>1
      <3>2. /\ order' \in Seq(Nat) /\ Processed' = Processed \cup {vstart}
            /\ \A p \in DOMAIN order' : order'[p] < vstart + 1
            /\ \A p \in 1..(Len(order') - 1) : order'[p] < order'[p + 1]
        BY <3>1, <1>1, AppendElement, Zenon
      <3> QED BY <2>1, <3>2, Zenon
    <2>2. CASE ~Selected
      <3>1. order' = order /\ Processed' = Processed
        BY <2>2 DEF Processed
      <3>2. \A p \in DOMAIN order : order[p] \in Nat
        BY <1>1
      <3> QED BY <2>2, <3>1, <3>2, <1>1
    <2> QED BY <2>1, <2>2
  <1>8. CASE ins.row.morph = "emitScalarOp"
    <2>1. vstart' = vstart /\ pc' = "end"
      BY <1>8 DEF endVectorLoop
    <2> QED BY <2>1, <1>1, <1>5, <1>6, <1>7, <1>8, Zenon DEF LoopInv, InLoop
  <1>9. CASE ins.row.morph = "emitVectorOp"
    <2> HIDE DEF L
    <2>1. /\ vstart' = vstart + 1
          /\ pc' = IF vstart + 1 < L THEN "loop" ELSE "end"
      BY <1>9 DEF endVectorLoop, L
    <2>2. \A k \in Elements : k \in Nat /\ k < L
      BY <1>3 DEF Elements, Body, L
    <2>3. Selected <=> vstart \in Elements
      BY <1>1, <1>3, <1>9 DEF Selected, Elements, Body, L
    <2>4. Processed' = {k \in Elements : k < vstart + 1}
      BY <2>2, <2>3, <1>1, <1>7, <1>9
    <2>5. CASE vstart + 1 < L
      <3>1. pc' = "loop" /\ vstart' \in Nat /\ First <= vstart'
        BY <2>1, <2>5, <1>1, <1>3
      <3>2. /\ UNCHANGED <<ins, env, vl, faults, vFirstFault>> /\ ins.row.morph # "emitScalarOp"
        BY <1>9
      <3> QED BY <3>1, <3>2, <2>1, <2>4, <2>5, <1>1, <1>5, <1>6, <1>7, Zenon DEF LoopInv, InLoop
    <2>6. CASE ~(vstart + 1 < L)
      <3>1. pc' = "end" /\ vstart' \in Nat
        BY <2>1, <2>6, <1>1
      <3>2. Processed' = Elements
        BY <2>4, <2>2, <2>6, <1>1, <1>3
      <3> QED BY <3>1, <3>2, <1>1, <1>5, <1>6, <1>7, Zenon DEF LoopInv, InLoop
    <2> QED BY <2>5, <2>6
  <1> QED BY <1>4, <1>8, <1>9

LEMMA FaultKeepsLoop ==
  ASSUME LoopInv, pc = "loop", ins.row.tcb \in MemoryCBs, faults' = faults + 1, handleFF,
         UNCHANGED <<ins, env, order>>
  PROVE  LoopInv'
  <1> DEFINE L == Limit(ins, env, vl)
  <1>1. /\ env \in Settings /\ ins \in Instructions(env) /\ order \in Seq(Nat)
        /\ vl \in Nat /\ vstart \in Nat /\ faults \in Nat /\ vFirstFault \in BOOLEAN
        /\ First <= vstart /\ FaultOnlyFirst
        /\ \A p \in DOMAIN order : order[p] < vstart
        /\ \A p \in 1..(Len(order) - 1) : order[p] < order[p + 1]
    BY Zenon DEF LoopInv, InLoop
  <1>2. Setting(env) /\ Decoded(ins)
    BY <1>1, InstructionFacts, Zenon
  <1>3. ins.row.morph = "emitVectorOp"
    BY <1>2, MorphFacts, Zenon
  <1>4. vstart < L /\ Processed = {k \in Elements : k < vstart}
    BY <1>3, Zenon DEF LoopInv, InLoop
  <1>5. faults' \in Nat /\ faults' > 0 /\ vFirstFault' = FALSE
    BY <1>1 DEF handleFF
  <1>6. CASE vFirstFault /\ vstart > 0
    <2>1. ins.ff /\ ~isWhole(ins)
      BY <1>6, <1>1, <1>2, MorphFacts, Zenon DEF FaultOnlyFirst
    <2>2. vl' = vstart /\ endVectorLoop(vstart)
      BY <1>6, Zenon DEF handleFF
    <2>3. L = vl /\ Limit(ins, env, vstart) = vstart
      BY <2>1, Zenon DEF Limit
    <2>4. vstart' = vstart + 1 /\ pc' = "end"
      BY <2>2, <2>3, <1>1, <1>3 DEF endVectorLoop
    <2>5. env.vl \in Nat /\ env.vstart \in Nat
      BY <1>2 DEF Setting
    <2>6. vl' > 0 /\ vl' < env.vl /\ vl' \in Nat /\ vstart' \in Nat
      BY <1>1, <1>4, <1>6, <2>2, <2>3, <2>4, <2>5 DEF FaultOnlyFirst
    <2>7. FaultOnlyFirst'
      BY <2>1, <2>6, <1>5, Zenon DEF FaultOnlyFirst
    <2>8. First' = First /\ First \in Nat
      BY <2>5 DEF First
    <2>9. Body' = First..(vstart - 1) /\ Body = First..(vl - 1) /\ Masked' = Masked
      BY <2>1, <2>2, <2>3, <2>8 DEF Body, Limit, Masked, isWhole
    <2>10. Elements' = {k \in Elements : k < vstart}
      BY <2>8, <2>9, <2>3, <1>1, <1>4 DEF Elements
    <2>11. Processed' = Elements'
      BY <2>10, <1>4 DEF Processed
    <2> QED BY <2>4, <2>6, <2>7, <2>11, <1>1, <1>5, Zenon DEF LoopInv, InLoop
  <1>7. CASE ~(vFirstFault /\ vstart > 0)
    <2>1. pc' = "trap" /\ UNCHANGED <<vl, vstart>>
      BY <1>7, Zenon DEF handleFF
    <2>2. /\ First' = First /\ Elements' = Elements /\ Limit(ins, env, vl)' = L
      BY <2>1, SameInstruction
    <2>3. FaultOnlyFirst'
      BY <2>1, <1>1, <1>5 DEF FaultOnlyFirst
    <2>4. Processed' = Processed /\ ins.row.morph # "emitScalarOp"
      BY <1>3 DEF Processed
    <2> QED BY <2>1, <2>2, <2>3, <2>4, <1>1, <1>3, <1>4, <1>5, Zenon DEF LoopInv, InLoop
  <1> QED BY <1>6, <1>7

LEMMA EndKeepsLoop ==
  ASSUME LoopInv, endVectorOp
  PROVE  LoopInv'
  <1>1. /\ pc \in {"end", "skip"} /\ pc' = "done" /\ vstart' = 0
        /\ vFirstFault' = (vFirstFault /\ ~ins.ff)
        /\ UNCHANGED <<ins, env, vl, order, faults>>
    BY Zenon DEF endVectorOp
  <1>2. FaultOnlyFirst' /\ vFirstFault' = FALSE
    BY <1>1, Zenon DEF LoopInv, FaultOnlyFirst
  <1>3. Elements' = Elements /\ Processed' = Processed
    BY <1>1, SameInstruction DEF Processed
  <1>4. 0 \in Nat
    OBVIOUS
  <1> QED BY <1>1, <1>2, <1>3, <1>4, Zenon DEF LoopInv, InLoop

LEMMA UnchangedKeepsLoop ==
  ASSUME LoopInv, UNCHANGED vars
  PROVE  LoopInv'
  <1>1. Elements' = Elements /\ First' = First /\ Processed' = Processed
        /\ Limit(ins, env, vl)' = Limit(ins, env, vl)
    BY SameInstruction, Zenon DEF vars, Processed
  <1> QED BY <1>1, Zenon DEF LoopInv, vars, InLoop, FaultOnlyFirst

LEMMA LoopStep == LoopInv /\ [Next]_vars => LoopInv'
  <1> USE Zenon
  <1> SUFFICES ASSUME LoopInv, [Next]_vars PROVE LoopInv'
    BY SMT
  <1>1. CASE Start
    BY <1>1, EmitKeepsLoop DEF Start
  <1>2. CASE Restart
    BY <1>2, EmitKeepsLoop DEF Restart
  <1>3. CASE doPerElementOp
    BY <1>3, ElementKeepsLoop DEF doPerElementOp
  <1>4. CASE MemoryElement
    BY <1>4, ElementKeepsLoop DEF MemoryElement
  <1>5. ASSUME NEW f \in 0..NF(ins), MemoryFault(f) PROVE LoopInv'
    BY <1>5, FaultKeepsLoop DEF MemoryFault
  <1>6. CASE endVectorOp
    BY <1>6, EndKeepsLoop, SMT
  <1>7. CASE Done \/ UNCHANGED vars
    BY <1>7, UnchangedKeepsLoop DEF Done
  <1> QED BY <1>1, <1>2, <1>3, <1>4, <1>5, <1>6, <1>7 DEF Next

LEMMA LoopInvariant == Spec => []LoopInv
  <1> QED BY LoopInit, LoopStep, PTL DEF Spec

(* The fault-only-first indication is on only in the element loop of such  *)
(* a load, and only such a load that was cut short changes vl.             *)
THEOREM FaultOnlyFirstHolds == Spec => []FaultOnlyFirst
  <1>1. LoopInv => FaultOnlyFirst
    BY Zenon DEF LoopInv
  <1> QED BY <1>1, LoopInvariant, PTL

(* An element is processed once, in order, and none is left out, whatever  *)
(* faults interrupt the loop.                                              *)
THEOREM ElementsProcessedOnce == Spec => []ProcessedOnce
  <1>1. LoopInv => ProcessedOnce
    BY Zenon DEF LoopInv, ProcessedOnce, Processed
  <1> QED BY <1>1, LoopInvariant, PTL

-----------------------------------------------------------------------------
(* Columns                                                                 *)

(* An element in the loop is one the checks have allowed. *)
CheckInv ==
  InLoop => Allowed(ins, env) /\ (~isWhole(ins) => vstart < getVLMAXOp(ins, env))

LEMMA CheckInit == Init => CheckInv
  BY Zenon DEF Init, CheckInv, InLoop

LEMMA CheckStep ==
  ASSUME LoopInv, LoopInv', CheckInv, [Next]_vars
  PROVE  CheckInv'
  <1> USE Zenon
  <1> SUFFICES ASSUME InLoop'
               PROVE  (Allowed(ins, env) /\ (~isWhole(ins) => vstart < getVLMAXOp(ins, env)))'
    BY DEF CheckInv
  <1>1. Setting(env) /\ Decoded(ins) /\ Setting(env)' /\ Decoded(ins)'
    <2>1. env \in Settings /\ ins \in Instructions(env) /\ env' \in Settings /\ ins' \in Instructions(env')
      BY DEF LoopInv
    <2> QED BY <2>1, InstructionFacts
  <1>2. UNCHANGED <<ins, env>>
    BY DEF Next, Start, Restart, emitVectorOp, doPerElementOp, MemoryElement, MemoryFault, endVectorOp, Done, vars
  <1>3. Allowed(ins, env)
    <2>1. CASE InLoop
      BY <2>1 DEF CheckInv
    <2>2. CASE Start \/ Restart
      <3>1. Legal(ins, env, vstart)
        BY <2>2 DEF Start, Restart, emitVectorOp, InLoop
      <3> QED BY <3>1 DEF Legal, Allowed
    <2>3. CASE endVectorOp \/ Done
      BY <2>3 DEF endVectorOp, Done, vars, InLoop
    <2> QED BY <2>1, <2>2, <2>3 DEF Next, doPerElementOp, MemoryElement, MemoryFault, InLoop, vars
  <1>4. Allowed(ins, env)'
    BY <1>2, <1>3 DEF Allowed
  <1>5. ASSUME ~isWhole(ins)' PROVE (vstart < getVLMAXOp(ins, env))'
    <2>1. /\ 0 < getVLMAXOp(ins, env)' /\ env.vl' <= getVLMAXOp(ins, env)' /\ getVLMAXOp(ins, env)' \in Nat
          /\ env.vl' \in Nat /\ vl' \in Nat /\ vstart' \in Nat
      <3>1. ~isWhole(ins')
        BY <1>5 DEF isWhole
      <3>2. env'.vl \in Nat
        BY <1>1, SMT DEF Setting
      <3>3. Setting(env') /\ Decoded(ins')
        BY <1>1 DEF Setting, Decoded
      <3>4. 0 < getVLMAXOp(ins', env') /\ env'.vl <= getVLMAXOp(ins', env') /\ getVLMAXOp(ins', env') \in Nat
        BY <3>1, <3>3, VLMAXPositive, SMT
      <3> QED BY <3>2, <3>4 DEF LoopInv, getVLMAXOp, isWhole, VLMUL, SEW
    <2>2. vl' <= env.vl'
      BY <2>1, SMT DEF LoopInv, FaultOnlyFirst
    <2>3. CASE ins.row.morph' = "emitVectorOp"
      <3>1. vstart' < Limit(ins, env, vl)'
        BY <2>3 DEF LoopInv
      <3>2. Limit(ins, env, vl)' = vl'
        BY <1>5 DEF Limit
      <3> QED BY <2>1, <2>2, <3>1, <3>2, SMT
    <2>4. CASE ins.row.morph' # "emitVectorOp"
      <3>1. CASE Start \/ Restart
        <4>1. startVectorOp(ins, env, vl, vstart)
          BY <3>1 DEF Start, Restart, emitVectorOp, InLoop
        <4>2. vstart' = 0 \/ vstart' < Limit(ins, env, vl)
          <5>1. Limit(ins, env, vl) \in Nat /\ vstart \in Nat
            BY <1>1, VLMAXType DEF Limit, LoopInv
          <5>2. vstart' = 0 \/ (vstart' = vstart /\ ~(vstart >= Limit(ins, env, vl)))
            BY <4>1 DEF startVectorOp, InLoop
          <5> QED BY <5>1, <5>2, SMT
        <4>3. Limit(ins, env, vl) = vl' \/ vstart' = 0
          BY <1>5, <1>2, <3>1 DEF Limit, isWhole, Start, Restart, emitVectorOp
        <4> QED BY <2>1, <2>2, <4>2, <4>3, SMT
      <3>2. CASE doPerElementOp \/ MemoryElement
        <4>1. pc' = "end"
          BY <3>2, <2>4, <1>2 DEF doPerElementOp, MemoryElement, endVectorLoop
        <4> QED BY <4>1 DEF InLoop
      <3>3. ASSUME NEW f \in 0..NF(ins), MemoryFault(f) PROVE FALSE
        <4>1. ins.row.tcb \in MemoryCBs
          BY <3>3 DEF MemoryFault
        <4> QED BY <4>1, <1>1, <1>2, <2>4, MorphFacts
      <3>4. CASE endVectorOp
        BY <3>4 DEF endVectorOp, InLoop
      <3>5. CASE Done \/ UNCHANGED vars
        <4>1. pc \in {"loop", "trap"} /\ UNCHANGED <<ins, env, vstart>>
          BY <3>5 DEF Done, vars, InLoop
        <4> QED BY <4>1, <1>5 DEF CheckInv, InLoop, getVLMAXOp, isWhole, VLMUL, SEW
      <3> QED BY <3>1, <3>2, <3>3, <3>4, <3>5 DEF Next
    <2> QED BY <2>3, <2>4, SMT
  <1> QED BY <1>4, <1>5

LEMMA CheckInvariant == Spec => []CheckInv
  <1> QED BY CheckInit, CheckStep, LoopInvariant, PTL DEF Spec

(* The operands of an element, its mask field included, lie in one column  *)
(* of SLEN bits, whatever VLEN and SLEN are.                               *)
THEOREM ColumnsAligned == Spec => []LanesAligned
  <1>1. LoopInv /\ CheckInv => LanesAligned
    <2> SUFFICES ASSUME LoopInv, CheckInv, pc = "loop", ~isWhole(ins),
                        NEW a \in 0..3, isVReg(ins.r[a]), ~isScalarN(ins.shape, a),
                        NEW l \in ArgBits(ins, env, a, vstart)
                 PROVE  ((l * GRAN) % VLEN) \div SLEN = (vstart * MLEN(ins, env)) \div SLEN
      BY Zenon DEF LanesAligned
    <2>1. env \in Settings /\ ins \in Instructions(env) /\ vstart \in Nat
      BY Zenon DEF LoopInv
    <2>2. Setting(env) /\ Decoded(ins)
      BY <2>1, InstructionFacts, Zenon
    <2>3. Allowed(ins, env) /\ vstart < getVLMAXOp(ins, env)
      BY Zenon DEF CheckInv, InLoop
    <2> QED BY <2>1, <2>2, <2>3, OperandColumn, Zenon
  <1> QED BY <1>1, LoopInvariant, CheckInvariant, PTL

-----------------------------------------------------------------------------
(* What has been overwritten                                               *)

(* The locations element k writes, as far as its callback does so itself. *)
Writes(k) ==
  IF ins.row.tcb \in StoreCBs \/ ins.row.end = "endVRedCB" THEN {}
  ELSE IF ins.row.tcb \in LoadCBs THEN UNION {FieldBits(ins, env, f, k) : f \in 0..NF(ins)}
  ELSE ArgBits(ins, env, 0, k)

(* Locations that may have been written when element vstart is reached:    *)
(* the elements below it, fields of a try of its own that faulted, and     *)
(* what was cleared at the start.                                          *)
Overwritten ==
  zeroTail(ins, env) \cup (UNION {Writes(j) : j \in 0..(vstart - 1)})
    \cup (IF NF(ins) > 0 THEN Writes(vstart) ELSE {})

SourceInv ==
  /\ stale = {}
  /\ pc = "idle" => file = <<>>
  /\ InLoop =>
       /\ DOMAIN file \subseteq Overwritten
       /\ ins.row.morph = "emitScalarOp" => DOMAIN file \subseteq zeroTail(ins, env)
       /\ ins.row.tcb = "emitVCOMPRESSCB" => VTMP \in 0..vstart

-----------------------------------------------------------------------------
(* Sequences of accesses                                                   *)

(* Nothing has been written to the locations of at. *)
Untouched(at) == at \cap DOMAIN file = {}

(* The accesses read nothing overwritten and write within W. *)
Fine(accs, W) ==
  /\ \E S : accs \in Seq(S)
  /\ ~ReadsOverwritten(accs)
  /\ Written(accs) \subseteq W

LEMMA Access ==
  ASSUME NEW at
  PROVE  /\ Rd(at).write = FALSE /\ Rd(at).at = at
         /\ Wr(at).write = TRUE /\ Wr(at).at = at
  BY Zenon DEF Rd, Wr

LEMMA FineNil == \A W : Fine(<<>>, W)
  <1>1. <<>> \in Seq({}) /\ DOMAIN <<>> = {}
    OBVIOUS
  <1>2. ~ReadsOverwritten(<<>>) /\ Written(<<>>) = {}
    BY <1>1, Zenon DEF ReadsOverwritten, Written
  <1> QED BY <1>1, <1>2, Zenon DEF Fine

(* One more access. *)
LEMMA FineRead ==
  ASSUME NEW accs, NEW W, Fine(accs, W), NEW at, Untouched(at), Written(accs) \cap at = {}
  PROVE  Fine(Append(accs, Rd(at)), W) /\ Written(Append(accs, Rd(at))) = Written(accs)
  <1>1. PICK S : accs \in Seq(S)
    BY Zenon DEF Fine
  <1> DEFINE x == Rd(at)
             t == Append(accs, x)
             n == Len(accs)
  <1>2. x.write = FALSE /\ x.at = at
    BY Access, Zenon DEF x
  <1> HIDE DEF x
  <1>3. accs \in Seq(S \cup {x})
    BY <1>1
  <1>4. /\ t \in Seq(S \cup {x}) /\ n \in Nat /\ DOMAIN accs = 1..n /\ DOMAIN t = 1..(n + 1)
        /\ \A p \in 1..n : t[p] = accs[p]
        /\ t[n + 1] = x
    BY <1>3
  <1> HIDE DEF t, n
  <1>5. Written(t) = Written(accs)
    <2>1. {q \in DOMAIN t : t[q].write} = {q \in DOMAIN accs : accs[q].write}
      BY <1>2, <1>4
    <2>2. \A q \in DOMAIN accs : t[q] = accs[q]
      BY <1>4
    <2> QED BY <2>1, <2>2 DEF Written
  <1>6. \A p \in DOMAIN accs : ~accs[p].write =>
           accs[p].at \cap DOMAIN file = {} /\ \A q \in 1..(p - 1) : accs[q].write => accs[q].at \cap accs[p].at = {}
    BY Zenon DEF Fine, ReadsOverwritten
  <1>7. \A q \in DOMAIN accs : accs[q].write => accs[q].at \cap at = {}
    BY Zenon DEF Written
  <1>8. ASSUME NEW p \in DOMAIN t, ~t[p].write
        PROVE  t[p].at \cap DOMAIN file = {} /\ \A q \in 1..(p - 1) : t[q].write => t[q].at \cap t[p].at = {}
    <2>1. CASE p = n + 1
      <3>1. t[p].at = at /\ \A q \in 1..(p - 1) : q \in DOMAIN accs /\ t[q] = accs[q]
        BY <1>2, <1>4, <2>1
      <3> QED BY <3>1, <1>7, Zenon DEF Untouched
    <2>2. CASE p # n + 1
      <3>1. p \in DOMAIN accs /\ t[p] = accs[p] /\ \A q \in 1..(p - 1) : t[q] = accs[q]
        BY <1>4, <2>2
      <3> QED BY <3>1, <1>6, <1>8, Zenon
    <2> QED BY <2>1, <2>2
  <1>9. ~ReadsOverwritten(t)
    BY <1>8, Zenon DEF ReadsOverwritten
  <1> QED BY <1>4, <1>5, <1>9, Zenon DEF Fine, t, x

LEMMA FineWrite ==
  ASSUME NEW accs, NEW W, Fine(accs, W), NEW at, at \subseteq W
  PROVE  Fine(Append(accs, Wr(at)), W) /\ Written(Append(accs, Wr(at))) = Written(accs) \cup at
  <1>1. PICK S : accs \in Seq(S)
    BY Zenon DEF Fine
  <1> DEFINE x == Wr(at)
             t == Append(accs, x)
             n == Len(accs)
  <1>2. x.write = TRUE /\ x.at = at
    BY Access, Zenon DEF x
  <1> HIDE DEF x
  <1>3. accs \in Seq(S \cup {x})
    BY <1>1
  <1>4. /\ t \in Seq(S \cup {x}) /\ n \in Nat /\ DOMAIN accs = 1..n /\ DOMAIN t = 1..(n + 1)
        /\ \A p \in 1..n : t[p] = accs[p]
        /\ t[n + 1] = x
    BY <1>3
  <1> HIDE DEF t, n
  <1>5. Written(t) = Written(accs) \cup at
    <2>1. {q \in DOMAIN t : t[q].write} = {q \in DOMAIN accs : accs[q].write} \cup {n + 1}
      BY <1>2, <1>4
    <2>2. (\A q \in DOMAIN accs : t[q] = accs[q]) /\ t[n + 1].at = at
      BY <1>2, <1>4
    <2> QED BY <2>1, <2>2 DEF Written
  <1>6. \A p \in DOMAIN accs : ~accs[p].write =>
           accs[p].at \cap DOMAIN file = {} /\ \A q \in 1..(p - 1) : accs[q].write => accs[q].at \cap accs[p].at = {}
    BY Zenon DEF Fine, ReadsOverwritten
  <1>7. ASSUME NEW p \in DOMAIN t, ~t[p].write
        PROVE  t[p].at \cap DOMAIN file = {} /\ \A q \in 1..(p - 1) : t[q].write => t[q].at \cap t[p].at = {}
    <2>1. p \in DOMAIN accs /\ t[p] = accs[p] /\ \A q \in 1..(p - 1) : t[q] = accs[q]
      BY <1>2, <1>4, <1>7
    <2> QED BY <2>1, <1>6, <1>7, Zenon
  <1>8. ~ReadsOverwritten(t)
    BY <1>7, Zenon DEF ReadsOverwritten
  <1>9. Written(accs) \subseteq W
    BY Zenon DEF Fine
  <1> QED BY <1>4, <1>5, <1>8, <1>9, Zenon DEF Fine, t, x

(* A read before the others, of what nothing has been written to. *)
LEMMA FinePrefix ==
  ASSUME NEW accs, NEW W, Fine(accs, W), NEW at, Untouched(at)
  PROVE  Fine(<<Rd(at)>> \o accs, W) /\ Fine(<<>> \o accs, W)
  <1>1. PICK S : accs \in Seq(S)
    BY Zenon DEF Fine
  <1> DEFINE x == Rd(at)
             t == <<x>> \o accs
             n == Len(accs)
  <1>2. x.write = FALSE /\ x.at = at
    BY Access, Zenon DEF x
  <1> HIDE DEF x
  <1>3. accs \in Seq(S \cup {x}) /\ <<x>> \in Seq(S \cup {x})
    BY <1>1
  <1>4. /\ t \in Seq(S \cup {x}) /\ n \in Nat /\ DOMAIN accs = 1..n /\ DOMAIN t = 1..(n + 1)
        /\ \A p \in 1..n : t[p + 1] = accs[p]
        /\ t[1] = x
    BY <1>3
  <1>5. <<>> \o accs = accs
    BY <1>1
  <1> HIDE DEF t, n
  <1>6. \A p \in DOMAIN t : p = 1 \/ (p - 1 \in DOMAIN accs /\ t[p] = accs[p - 1])
    BY <1>4
  <1>7. \A p \in DOMAIN accs : ~accs[p].write =>
           accs[p].at \cap DOMAIN file = {} /\ \A q \in 1..(p - 1) : accs[q].write => accs[q].at \cap accs[p].at = {}
    BY Zenon DEF Fine, ReadsOverwritten
  <1>8. Written(t) \subseteq Written(accs)
    <2>1. \A p \in DOMAIN t : t[p].write => p - 1 \in DOMAIN accs /\ t[p] = accs[p - 1]
      BY <1>2, <1>4, <1>6, SMTT(30)
    <2> QED BY <2>1, Zenon DEF Written
  <1>9. ASSUME NEW p \in DOMAIN t, ~t[p].write
        PROVE  t[p].at \cap DOMAIN file = {} /\ \A q \in 1..(p - 1) : t[q].write => t[q].at \cap t[p].at = {}
    <2>1. CASE p = 1
      BY <1>2, <1>4, <2>1 DEF Untouched
    <2>2. CASE p # 1
      <3>1. p - 1 \in DOMAIN accs /\ t[p] = accs[p - 1]
        BY <1>6, <2>2
      <3>2. ASSUME NEW q \in 1..(p - 1), t[q].write
            PROVE  q - 1 \in 1..((p - 1) - 1) /\ t[q] = accs[q - 1]
        BY <1>2, <1>4, <1>6, <1>9, <3>2
      <3> DEFINE r == p - 1
      <3>3. r \in DOMAIN accs /\ ~accs[r].write
        BY <1>9, <3>1, Zenon
      <3> HIDE DEF r
      <3>4. accs[r].at \cap DOMAIN file = {} /\ \A q \in 1..(r - 1) : accs[q].write => accs[q].at \cap accs[r].at = {}
        BY <1>7, <3>3, Zenon
      <3> QED BY <3>1, <3>2, <3>4, Zenon DEF r
    <2> QED BY <2>1, <2>2
  <1>10. ~ReadsOverwritten(t)
    BY <1>9, Zenon DEF ReadsOverwritten
  <1>11. Written(accs) \subseteq W
    BY Zenon DEF Fine
  <1>12. Fine(t, W)
    BY <1>4, <1>8, <1>10, <1>11, Zenon DEF Fine
  <1> QED BY <1>5, <1>12, Zenon DEF t, x

LEMMA WrittenNil == Written(<<>>) = {}
  BY DEF Written

(* Reads, and then writes. *)
LEMMA FineOne ==
  ASSUME NEW W, NEW a, Untouched(a)
  PROVE  Fine(<<Rd(a)>>, W) /\ Written(<<Rd(a)>>) = {}
  <1>1. Append(<<>>, Rd(a)) = <<Rd(a)>>
    OBVIOUS
  <1> QED BY <1>1, FineNil, FineRead, WrittenNil, Zenon

LEMMA FineTwo ==
  ASSUME NEW W, NEW a, Untouched(a), NEW b, Untouched(b)
  PROVE  Fine(<<Rd(a), Rd(b)>>, W) /\ Written(<<Rd(a), Rd(b)>>) = {}
  <1> USE Zenon
  <1> DEFINE x == Rd(a)
             y == Rd(b)
  <1>1. Fine(<<x>>, W) /\ Written(<<x>>) = {}
    BY FineOne
  <1>2. Append(<<x>>, y) = <<x, y>>
    BY AppendOne, AppendTwo
  <1>3. Fine(Append(<<x>>, y), W) /\ Written(Append(<<x>>, y)) = Written(<<x>>)
    <2>1. Written(<<x>>) \cap b = {}
      BY <1>1
    <2> QED BY <1>1, <2>1, FineRead
  <1> QED BY <1>1, <1>2, <1>3

LEMMA FineThree ==
  ASSUME NEW W, NEW a, Untouched(a), NEW b, Untouched(b), NEW c, Untouched(c)
  PROVE  Fine(<<Rd(a), Rd(b), Rd(c)>>, W) /\ Written(<<Rd(a), Rd(b), Rd(c)>>) = {}
  <1> USE Zenon
  <1> DEFINE s == <<Rd(a), Rd(b)>>
             y == Rd(c)
  <1>1. Fine(s, W) /\ Written(s) = {}
    BY FineTwo
  <1>2. Append(s, y) = <<Rd(a), Rd(b), y>>
    BY AppendOne, AppendTwo
  <1>3. Fine(Append(s, y), W) /\ Written(Append(s, y)) = Written(s)
    <2>1. Written(s) \cap c = {}
      BY <1>1
    <2> QED BY <1>1, <2>1, FineRead
  <1> QED BY <1>1, <1>2, <1>3

LEMMA FineReads ==
  ASSUME NEW W, NEW d, d \subseteq W, NEW a, Untouched(a), NEW b, Untouched(b), NEW c, Untouched(c)
  PROVE  /\ Fine(<<Wr(d)>>, W)
         /\ Fine(<<Rd(a), Wr(d)>>, W) /\ Fine(<<Rd(a), Wr(d), Wr(d)>>, W)
         /\ Fine(<<Rd(a), Rd(b), Wr(d)>>, W) /\ Fine(<<Rd(a), Rd(b), Wr(d), Wr(d)>>, W)
         /\ Fine(<<Rd(a), Rd(b), Rd(c), Wr(d)>>, W)
  <1> USE Zenon
  <1> DEFINE z == Wr(d)
  <1>1. \A s : Fine(s, W) => Fine(Append(s, z), W)
    BY FineWrite
  <1>2. /\ Fine(<<>>, W) /\ Fine(<<Rd(a)>>, W) /\ Fine(<<Rd(a), Rd(b)>>, W)
        /\ Fine(<<Rd(a), Rd(b), Rd(c)>>, W)
    BY FineNil, FineOne, FineTwo, FineThree
  <1>3. /\ Append(<<>>, z) = <<z>> /\ Append(<<Rd(a)>>, z) = <<Rd(a), z>>
        /\ Append(<<Rd(a), Rd(b)>>, z) = <<Rd(a), Rd(b), z>>
        /\ Append(<<Rd(a), Rd(b), Rd(c)>>, z) = <<Rd(a), Rd(b), Rd(c), z>>
        /\ Append(<<Rd(a), z>>, z) = <<Rd(a), z, z>>
        /\ Append(<<Rd(a), Rd(b), z>>, z) = <<Rd(a), Rd(b), z, z>>
    <2>1. Append(<<>>, z) = <<z>>
      BY SMT
    <2>2. Append(<<Rd(a)>>, z) = <<Rd(a), z>>
      BY AppendOne
    <2>3. Append(<<Rd(a), Rd(b)>>, z) = <<Rd(a), Rd(b), z>> /\ Append(<<Rd(a), z>>, z) = <<Rd(a), z, z>>
      BY AppendTwo
    <2>4. /\ Append(<<Rd(a), Rd(b), Rd(c)>>, z) = <<Rd(a), Rd(b), Rd(c), z>>
          /\ Append(<<Rd(a), Rd(b), z>>, z) = <<Rd(a), Rd(b), z, z>>
      BY AppendThree
    <2> QED BY <2>1, <2>2, <2>3, <2>4
  <1> HIDE DEF z
  <1>4. Fine(<<z>>, W) /\ Fine(<<Rd(a), z>>, W) /\ Fine(<<Rd(a), Rd(b), z>>, W) /\ Fine(<<Rd(a), Rd(b), Rd(c), z>>, W)
    BY <1>1, <1>2, <1>3
  <1>5. Fine(<<Rd(a), z, z>>, W) /\ Fine(<<Rd(a), Rd(b), z, z>>, W)
    BY <1>1, <1>3, <1>4
  <1> QED BY <1>4, <1>5 DEF z

(* A write before the reads, of what they do not read. *)
LEMMA FineWriteFirst ==
  ASSUME NEW W, NEW d, d \subseteq W, NEW a, Untouched(a), d \cap a = {}
  PROVE  /\ Fine(<<Wr(d), Rd(a)>>, W) /\ Fine(<<Wr(d)>> \o <<Rd(a), Wr(d)>>, W)
         /\ Fine(<<>> \o <<Rd(a), Wr(d)>>, W)
         /\ \A b : Untouched(b) /\ d \cap b = {} => Fine(<<Wr(d), Rd(b)>> \o <<Rd(a), Wr(d)>>, W)
  <1> USE Zenon
  <1> DEFINE x == Rd(a)
             z == Wr(d)
  <1>1. Fine(<<>>, W) /\ Written(<<>>) = {}
    BY FineNil, WrittenNil
  <1>2. Append(<<>>, z) = <<z>>
    BY SMT
  <1>3. Fine(<<z>>, W) /\ Written(<<z>>) = d
    <2>1. Fine(Append(<<>>, z), W) /\ Written(Append(<<>>, z)) = Written(<<>>) \cup d
      BY <1>1, FineWrite
    <2> QED BY <1>1, <1>2, <2>1
  <1>4. \A b : Untouched(b) /\ d \cap b = {} => Fine(<<z, Rd(b)>>, W) /\ Written(<<z, Rd(b)>>) = d
    <2> SUFFICES ASSUME NEW b, Untouched(b), d \cap b = {}
                 PROVE  Fine(<<z, Rd(b)>>, W) /\ Written(<<z, Rd(b)>>) = d
      OBVIOUS
    <2>1. Append(<<z>>, Rd(b)) = <<z, Rd(b)>>
      BY AppendOne, AppendTwo
    <2>2. Written(<<z>>) \cap b = {}
      BY <1>3
    <2>3. Fine(Append(<<z>>, Rd(b)), W) /\ Written(Append(<<z>>, Rd(b))) = Written(<<z>>)
      BY <1>3, <2>2, FineRead
    <2> QED BY <1>3, <2>1, <2>3
  <1>5. Fine(<<z>> \o <<x, z>>, W)
    <2>1. Fine(<<z, x>>, W)
      BY <1>4
    <2>2. Append(<<z, x>>, z) = <<z>> \o <<x, z>>
      BY AppendTwo
    <2>3. Fine(Append(<<z, x>>, z), W)
      BY <2>1, FineWrite
    <2> QED BY <2>2, <2>3
  <1>6. Fine(<<>> \o <<x, z>>, W)
    BY FineReads, FinePrefix
  <1>7. \A b : Untouched(b) /\ d \cap b = {} => Fine(<<z, Rd(b)>> \o <<x, z>>, W)
    <2> SUFFICES ASSUME NEW b, Untouched(b), d \cap b = {}
                 PROVE  Fine(<<z, Rd(b)>> \o <<x, z>>, W)
      OBVIOUS
    <2> DEFINE s == <<z, Rd(b)>>
    <2>1. Fine(s, W) /\ Written(s) = d
      BY <1>4
    <2>2. Written(s) \cap a = {}
      BY <2>1
    <2>3. Fine(Append(s, x), W)
      BY <2>1, <2>2, FineRead
    <2>4. Fine(Append(Append(s, x), z), W)
      BY <2>3, FineWrite
    <2>5. Append(Append(s, x), z) = s \o <<x, z>>
      <3>1. Append(s, x) = <<z, Rd(b), x>>
        BY AppendTwo
      <3>2. Append(<<z, Rd(b), x>>, z) = <<z, Rd(b), x, z>>
        BY AppendThree
      <3>3. s \o <<x, z>> = <<z, Rd(b), x, z>>
        BY AppendThree
      <3> QED BY <3>1, <3>2, <3>3
    <2> QED BY <2>4, <2>5
  <1> QED BY <1>4, <1>5, <1>6, <1>7

-----------------------------------------------------------------------------
(* What the element at hand finds untouched                                *)

(* What is known when an element is processed. *)
AtElement ==
  /\ Setting(env) /\ Decoded(ins) /\ RowClass(ins.row) /\ ins.shape = ins.row.shape
  /\ Allowed(ins, env) /\ vstart \in Nat
  /\ ins.row.morph = "emitVectorOp" \/ ~isWhole(ins) => vstart < getVLMAXOp(ins, env)
  /\ vl \in Nat /\ (~isWhole(ins) => vl <= getVLMAXOp(ins, env))
  /\ ~IndexOverlapped(ins, env) /\ ~SlidInPlace(ins)
  /\ DOMAIN file \subseteq Overwritten
  /\ ins.row.morph = "emitScalarOp" => DOMAIN file \subseteq zeroTail(ins, env)
  /\ ins.row.tcb = "emitVCOMPRESSCB" => VTMP \in 0..vstart

LEMMA ElementKnown ==
  ASSUME LoopInv, CheckInv, SourceInv, pc = "loop"
  PROVE  AtElement
  <1> USE Zenon
  <1>1. InLoop /\ env \in Settings /\ ins \in Instructions(env) /\ vstart \in Nat
    BY DEF InLoop, LoopInv
  <1>2. Setting(env) /\ Decoded(ins) /\ RowClass(ins.row) /\ ins.shape = ins.row.shape
    BY <1>1, InstructionFacts DEF Decoded
  <1>3. Allowed(ins, env) /\ (~isWhole(ins) => vstart < getVLMAXOp(ins, env))
    BY <1>1 DEF CheckInv
  <1>4. ins.row.morph = "emitVectorOp" /\ isWhole(ins) => vstart < getVLMAXOp(ins, env)
    BY <1>1 DEF LoopInv, Limit
  <1>5. ~IndexOverlapped(ins, env) /\ ~SlidInPlace(ins)
    BY <1>1, ExceptionAssumption
  <1>6. vl \in Nat /\ (~isWhole(ins) => vl <= getVLMAXOp(ins, env))
    <2>1. vl \in Nat /\ (vl # env.vl => vl < env.vl) /\ env.vl \in Nat
      BY <1>2, SMT DEF LoopInv, FaultOnlyFirst, Setting
    <2>2. ~isWhole(ins) => env.vl <= getVLMAXOp(ins, env) /\ getVLMAXOp(ins, env) \in Nat
      BY <1>2, VLMAXPositive
    <2> QED BY <2>1, <2>2, SMT
  <1> QED BY <1>1, <1>2, <1>3, <1>4, <1>5, <1>6 DEF AtElement, SourceInv

LEMMA Unwritten ==
  ASSUME AtElement, NEW at, zeroTail(ins, env) \cap at = {},
         \A j \in 0..(vstart - 1) : Writes(j) \cap at = {},
         NF(ins) > 0 => Writes(vstart) \cap at = {}
  PROVE  Untouched(at)
  <1> USE Zenon
  <1> SUFFICES ASSUME NEW l \in at, l \in DOMAIN file PROVE FALSE
    BY DEF Untouched
  <1>1. l \in Overwritten
    BY DEF AtElement
  <1>2. CASE NF(ins) > 0
    BY <1>1, <1>2 DEF Overwritten
  <1>3. CASE ~(NF(ins) > 0)
    BY <1>1, <1>3 DEF Overwritten
  <1> QED BY <1>2, <1>3

LEMMA NothingWritten ==
  ASSUME DOMAIN file = {}, NEW at
  PROVE  Untouched(at)
  BY Zenon DEF Untouched

LEMMA WritesElement ==
  ASSUME OnElements(ins), NEW j
  PROVE  Writes(j) = ArgBits(ins, env, 0, j)
  BY Zenon DEF OnElements, Writes

(* From the element at hand on, sources hold what they held. *)
LEMMA SourceUntouched ==
  ASSUME AtElement, OnElements(ins), ins.row.tcb \notin {"emitVCOMPRESSCB", "emitVMVSX", "emitVFMVSF"},
         NEW a \in 0..3, NEW k \in Nat, vstart <= k, k < getVLMAXOp(ins, env)
  PROVE  Untouched(ArgBits(ins, env, a, k))
  <1> USE Zenon
  <1>1. zeroTail(ins, env) = {}
    BY NoZeroTail DEF AtElement
  <1>2. ~(NF(ins) > 0)
    BY OneField DEF AtElement, OnElements
  <1>3. ASSUME NEW j \in 0..(vstart - 1)
        PROVE  Writes(j) \cap ArgBits(ins, env, a, k) = {}
    <2>1. j \in Nat /\ j # k /\ j < getVLMAXOp(ins, env)
      <3>1. vstart \in Nat /\ getVLMAXOp(ins, env) \in Nat
        BY VLMAXType DEF AtElement
      <3> QED BY <1>3, <3>1, SMT
    <2>2. CASE isVReg(ins.r[0]) /\ isVReg(ins.r[a])
      <3>1. ~isScalarN(ins.shape, 0) /\ ~isScalarN(ins.shape, a)
        BY ShapeScalars, SMT DEF OnElements
      <3>2. ArgBits(ins, env, 0, j) \cap ArgBits(ins, env, a, k) = {}
        BY <2>1, <2>2, <3>1, SourceApart DEF AtElement, OnElements
      <3> QED BY <3>2, WritesElement
    <2>3. CASE ~(isVReg(ins.r[0]) /\ isVReg(ins.r[a]))
      BY <2>3, NoArgument, WritesElement
    <2> QED BY <2>2, <2>3, SMT
  <1> QED BY <1>1, <1>2, <1>3, Unwritten

(* So does the mask. *)
MaskField == Bits(ins.mask, vstart * MLEN(ins, env), MLEN(ins, env))

LEMMA MaskUntouched ==
  ASSUME AtElement, OnElements(ins), ins.row.tcb \notin {"emitVCOMPRESSCB", "emitVMVSX", "emitVFMVSF"}, isVReg(ins.mask)
  PROVE  Untouched(MaskField)
  <1> USE Zenon
  <1>1. zeroTail(ins, env) = {}
    BY NoZeroTail DEF AtElement
  <1>2. ~(NF(ins) > 0)
    BY OneField DEF AtElement, OnElements
  <1>3. ASSUME NEW j \in 0..(vstart - 1)
        PROVE  Writes(j) \cap MaskField = {}
    <2>0. vstart \in Nat /\ vstart < getVLMAXOp(ins, env) /\ getVLMAXOp(ins, env) \in Nat
      BY VLMAXType DEF AtElement, OnElements
    <2>1. j \in Nat /\ j # vstart /\ j < getVLMAXOp(ins, env)
      BY <1>3, <2>0, SMT
    <2>2. CASE isVReg(ins.r[0])
      <3>1. ~isScalarN(ins.shape, 0)
        BY ShapeScalars, SMT DEF OnElements
      <3>2. ArgBits(ins, env, 0, j) \cap MaskField = {}
        BY <2>0, <2>1, <2>2, <3>1, MaskApart DEF AtElement, OnElements, MaskField
      <3> QED BY <3>2, WritesElement
    <2>3. CASE ~isVReg(ins.r[0])
      BY <2>3, NoArgument, WritesElement
    <2> QED BY <2>2, <2>3, SMT
  <1> QED BY <1>1, <1>2, <1>3, Unwritten

(* Where no overlap is allowed, any element of a source does. *)
StrictShapes == {"S111_IP", "S111_GR", "S111_UP", "S111_CMP"}

LEMMA StrictUntouched ==
  ASSUME AtElement, OnElements(ins), ins.row.tcb \notin {"emitVCOMPRESSCB", "emitVMVSX", "emitVFMVSF"},
         ins.shape \in StrictShapes,
         NEW a \in 1..3, NEW k \in Nat, k < getVLMAXOp(ins, env)
  PROVE  /\ Untouched(ArgBits(ins, env, a, k))
         /\ ArgBits(ins, env, 0, vstart) \cap ArgBits(ins, env, a, k) = {}
  <1>1. zeroTail(ins, env) = {}
    BY NoZeroTail, Zenon DEF AtElement
  <1>2. ~(NF(ins) > 0)
    BY OneField, Zenon DEF AtElement, OnElements
  <1>3. vstart \in Nat /\ vstart < getVLMAXOp(ins, env) /\ getVLMAXOp(ins, env) \in Nat
    BY VLMAXType, Zenon DEF AtElement, OnElements
  <1>4. ASSUME NEW j \in Nat, j <= vstart
        PROVE  ArgBits(ins, env, 0, j) \cap ArgBits(ins, env, a, k) = {}
    <2>1. j < getVLMAXOp(ins, env)
      BY <1>3, <1>4
    <2>2. CASE isVReg(ins.r[0]) /\ isVReg(ins.r[a])
      <3>0. 0 \in 0..3 /\ a \in 0..3
        OBVIOUS
      <3>1. ~isScalarN(ins.shape, 0) /\ ~isScalarN(ins.shape, a)
        BY <3>0, ShapeScalars DEF OnElements
      <3>2. "OT_S" \in Constraints(ins, env)
        BY ShapeFacts, Zenon DEF Constraints, StrictShapes
      <3> QED BY <2>1, <2>2, <3>1, <3>2, StrictApart, Zenon DEF AtElement, OnElements
    <2>3. CASE ~(isVReg(ins.r[0]) /\ isVReg(ins.r[a]))
      BY <2>3, NoArgument, Zenon
    <2> QED BY <2>2, <2>3
  <1>5. \A j \in 0..(vstart - 1) : Writes(j) \cap ArgBits(ins, env, a, k) = {}
    <2>1. \A j \in 0..(vstart - 1) : j \in Nat /\ j <= vstart
      BY <1>3
    <2> QED BY <1>4, <2>1, WritesElement, Zenon
  <1>6. vstart <= vstart
    BY <1>3
  <1> QED BY <1>1, <1>2, <1>3, <1>4, <1>5, <1>6, Unwritten, Zenon

LEMMA CompressUntouched ==
  ASSUME AtElement, OnElements(ins), ins.row.tcb = "emitVCOMPRESSCB", ins.shape = "S111_CMP"
  PROVE  /\ Untouched(ArgBits(ins, env, 1, vstart))
         /\ isVReg(ins.mask) => Untouched(MaskField)
  <1> USE Zenon
  <1>0. 1 \in 0..3 /\ 1 \in 1..3
    BY SMT
  <1>1. zeroTail(ins, env) \in {{}, RegisterBits(ins.r[0], VLMUL(ins, env))}
    BY SMT DEF zeroTail
  <1>2. ~(NF(ins) > 0)
    BY OneField DEF AtElement, OnElements
  <1>3. vstart \in Nat /\ vstart < getVLMAXOp(ins, env) /\ getVLMAXOp(ins, env) \in Nat
    BY VLMAXType DEF AtElement, OnElements
  <1>4. isVReg(ins.r[0])
    BY DEF AtElement, Decoded, XResultCBs
  <1>5. ~isScalarN(ins.shape, 0) /\ ~isScalarN(ins.shape, 1)
    BY ShapeScalars, SMT DEF OnElements
  <1>6. "OT_S" \in Constraints(ins, env) /\ "OT_M" \in Constraints(ins, env)
    BY ShapeFacts DEF Constraints
  <1>7. \A j \in 0..(vstart - 1) : j \in Nat /\ j < getVLMAXOp(ins, env)
    BY <1>3, SMT
  <1>8. Untouched(ArgBits(ins, env, 1, vstart))
    <2>1. CASE isVReg(ins.r[1])
      <3>1. zeroTail(ins, env) \cap ArgBits(ins, env, 1, vstart) = {}
        <4>1. RegisterBits(ins.r[0], VLMUL(ins, env)) \cap ArgBits(ins, env, 1, vstart) = {}
          BY <1>3, <1>4, <2>1, ClearedApart DEF AtElement, OnElements
        <4> QED BY <1>1, <4>1, SMT
      <3>2. \A j \in 0..(vstart - 1) : ArgBits(ins, env, 0, j) \cap ArgBits(ins, env, 1, vstart) = {}
        BY <1>0, <1>3, <1>4, <1>5, <1>6, <1>7, <2>1, StrictApart DEF AtElement, OnElements
      <3>3. \A j \in 0..(vstart - 1) : Writes(j) \cap ArgBits(ins, env, 1, vstart) = {}
        BY <3>2, WritesElement
      <3> QED BY <1>2, <3>1, <3>3, Unwritten
    <2>2. CASE ~isVReg(ins.r[1])
      <3>1. ArgBits(ins, env, 1, vstart) = {}
        BY <2>2, NoArgument
      <3> QED BY <3>1 DEF Untouched
    <2> QED BY <2>1, <2>2, SMT
  <1>9. ASSUME isVReg(ins.mask) PROVE Untouched(MaskField)
    <2>1. zeroTail(ins, env) \cap MaskField = {}
      <3>1. RegisterBits(ins.r[0], VLMUL(ins, env)) \cap MaskField = {}
        BY <1>3, <1>4, <1>9, ClearedApart DEF AtElement, OnElements, MaskField
      <3> QED BY <1>1, <3>1, SMT
    <2>2. \A j \in 0..(vstart - 1) : ArgBits(ins, env, 0, j) \cap MaskField = {}
      BY <1>3, <1>4, <1>5, <1>6, <1>7, <1>9, MaskApart DEF AtElement, OnElements, MaskField
    <2>3. \A j \in 0..(vstart - 1) : Writes(j) \cap MaskField = {}
      BY <2>2, WritesElement
    <2> QED BY <1>2, <2>1, <2>3, Unwritten
  <1> QED BY <1>8, <1>9

(* Stores, reductions and moves from a vector register write none. *)
LEMMA NoneOverwritten ==
  ASSUME AtElement,
         \/ ins.row.tcb \in StoreCBs
         \/ ins.row.end = "endVRedCB"
         \/ ins.row.tcb \in {"emitVFMVFS", "emitVEXTXV"}
  PROVE  DOMAIN file = {}
  <1>1. RowClass(ins.row)
    BY Zenon DEF AtElement
  <1>2. ins.row.tcb \notin {"emitVCOMPRESSCB", "emitVMVSX", "emitVFMVSF"}
    BY <1>1 DEF RowClass, MemoryRow, PlainRow, MoveRow, ReduceRow, MaskRow, CompressRow, ScalarRow, StoreCBs
  <1>3. zeroTail(ins, env) = {}
    BY <1>1, <1>2, NoZeroTail, Zenon
  <1>4. CASE ins.row.tcb \in StoreCBs \/ ins.row.end = "endVRedCB"
    <2>1. \A j : Writes(j) = {}
      BY <1>4, Zenon DEF Writes
    <2>2. Overwritten = {}
      BY <1>3, <2>1, Zenon DEF Overwritten
    <2> QED BY <2>2, Zenon DEF AtElement
  <1>5. CASE ins.row.tcb \in {"emitVFMVFS", "emitVEXTXV"}
    <2>1. ins.row.morph = "emitScalarOp"
      BY <1>1, <1>5 DEF RowClass, MemoryRow, PlainRow, MoveRow, ReduceRow, MaskRow, CompressRow, ScalarRow,
                        LoadCBs, StoreCBs, PlainCBs
    <2> QED BY <1>3, <2>1, Zenon DEF AtElement
  <1> QED BY <1>4, <1>5

LEMMA LoadUntouched ==
  ASSUME AtElement, ins.row.tcb \in LoadCBs, MemoryRow(ins.row), ~isWhole(ins)
  PROVE  /\ Untouched(ArgBits(ins, env, 2, vstart))
         /\ isVReg(ins.mask) => Untouched(MaskField)
  <1> USE Zenon
  <1>1. zeroTail(ins, env) = {}
    <2>1. ins.row.tcb \notin {"emitVCOMPRESSCB", "emitVMVSX", "emitVFMVSF"}
      BY SMT DEF LoadCBs
    <2> QED BY <2>1, NoZeroTail DEF AtElement
  <1>2. NF(ins) = ins.nf
    BY DEF NF
  <1>3. vstart \in Nat /\ vstart < getVLMAXOp(ins, env) /\ getVLMAXOp(ins, env) \in Nat
    BY VLMAXType DEF AtElement
  <1>4. isVReg(ins.r[0])
    BY DEF AtElement, Decoded, XResultCBs, LoadCBs
  <1>5. \A j : Writes(j) = UNION {FieldBits(ins, env, f, j) : f \in 0..NF(ins)}
    <2>1. ~(ins.row.tcb \in StoreCBs \/ ins.row.end = "endVRedCB")
      BY SMT DEF LoadCBs, StoreCBs, MemoryRow
    <2> QED BY <2>1 DEF Writes
  <1>6. \A j \in 0..(vstart - 1) : j \in Nat /\ j < getVLMAXOp(ins, env) /\ j # vstart
    BY <1>3, SMT
  <1>7. Untouched(ArgBits(ins, env, 2, vstart))
    <2>1. CASE isVReg(ins.r[2])
      <3>1. \A j \in 0..(vstart - 1), f \in 0..NF(ins) : FieldBits(ins, env, f, j) \cap ArgBits(ins, env, 2, vstart) = {}
        BY <1>3, <1>4, <1>6, <2>1, LoadIndexApart DEF AtElement
      <3>2. NF(ins) > 0 => \A f \in 0..NF(ins) : FieldBits(ins, env, f, vstart) \cap ArgBits(ins, env, 2, vstart) = {}
        BY <1>2, <1>3, <1>4, <2>1, LoadIndexApart DEF AtElement
      <3>3. \A j \in 0..(vstart - 1) : Writes(j) \cap ArgBits(ins, env, 2, vstart) = {}
        BY <1>5, <3>1
      <3>4. NF(ins) > 0 => Writes(vstart) \cap ArgBits(ins, env, 2, vstart) = {}
        BY <1>5, <3>2
      <3> QED BY <1>1, <3>3, <3>4, Unwritten
    <2>2. CASE ~isVReg(ins.r[2])
      <3>1. ArgBits(ins, env, 2, vstart) = {}
        BY <2>2, NoArgument
      <3> QED BY <3>1 DEF Untouched
    <2> QED BY <2>1, <2>2, SMT
  <1>8. ASSUME isVReg(ins.mask) PROVE Untouched(MaskField)
    <2>1. \A j \in 0..(vstart - 1), f \in 0..NF(ins) : FieldBits(ins, env, f, j) \cap MaskField = {}
      BY <1>3, <1>4, <1>6, <1>8, LoadMaskApart DEF AtElement, MaskField
    <2>2. NF(ins) > 0 => \A f \in 0..NF(ins) : FieldBits(ins, env, f, vstart) \cap MaskField = {}
      BY <1>2, <1>3, <1>4, <1>8, LoadMaskApart DEF AtElement, MaskField
    <2>3. \A j \in 0..(vstart - 1) : Writes(j) \cap MaskField = {}
      BY <1>5, <2>1
    <2>4. NF(ins) > 0 => Writes(vstart) \cap MaskField = {}
      BY <1>5, <2>2
    <2> QED BY <1>1, <2>3, <2>4, Unwritten
  <1> QED BY <1>7, <1>8

LEMMA MoveUntouched ==
  ASSUME AtElement, ins.whole = "RV_WD_MV", PlainRow(ins.row)
  PROVE  /\ ins.row.tcb = "emitVRBinaryIntCB"
         /\ Untouched(ArgBits(ins, env, 1, vstart)) /\ Untouched(ArgBits(ins, env, 2, vstart))
         /\ Writes(vstart) = ArgBits(ins, env, 0, vstart)
  <1> USE Zenon
  <1>1. ins.row.check = "emitVMVRCheckCB" /\ isWhole(ins) /\ ~isVReg(ins.r[2])
    BY DEF AtElement, Decoded, isWhole, isVReg
  <1>2. ins.row.tcb = "emitVRBinaryIntCB" /\ ins.shape = "S111_II" /\ ins.row.end = "none" /\ ins.row.morph = "emitVectorOp"
    BY <1>1 DEF AtElement, PlainRow
  <1>3. \A j : Writes(j) = ArgBits(ins, env, 0, j)
    BY <1>2, SMT DEF Writes, LoadCBs, StoreCBs
  <1>4. zeroTail(ins, env) = {}
    <2>1. ins.row.tcb \notin {"emitVCOMPRESSCB", "emitVMVSX", "emitVFMVSF"}
      BY <1>2, SMT
    <2> QED BY <2>1, NoZeroTail DEF AtElement
  <1>5. ~(NF(ins) > 0)
    <2>1. ins.row.tcb \notin LoadCBs \cup StoreCBs
      BY <1>2, SMT DEF LoadCBs, StoreCBs
    <2> QED BY <2>1, OneField DEF AtElement
  <1>6. vstart \in Nat /\ vstart < getVLMAXOp(ins, env)
    BY <1>2 DEF AtElement
  <1>7. ArgBits(ins, env, 2, vstart) = {}
    BY <1>1, NoArgument
  <1>8. isVReg(ins.r[0])
    BY <1>2 DEF AtElement, Decoded, XResultCBs
  <1>9. Untouched(ArgBits(ins, env, 1, vstart))
    <2>1. CASE isVReg(ins.r[1])
      <3>1. \A j \in 0..(vstart - 1) : j \in Nat /\ j < vstart
        BY <1>6, SMT
      <3>2. \A j \in 0..(vstart - 1) : ArgBits(ins, env, 0, j) \cap ArgBits(ins, env, 1, vstart) = {}
        BY <1>1, <1>2, <1>6, <1>8, <2>1, <3>1, WholeApart DEF AtElement
      <3>3. \A j \in 0..(vstart - 1) : Writes(j) \cap ArgBits(ins, env, 1, vstart) = {}
        BY <1>3, <3>2
      <3> QED BY <1>4, <1>5, <3>3, Unwritten
    <2>2. CASE ~isVReg(ins.r[1])
      <3>1. ArgBits(ins, env, 1, vstart) = {}
        BY <2>2, NoArgument
      <3> QED BY <3>1 DEF Untouched
    <2> QED BY <2>1, <2>2, SMT
  <1> QED BY <1>2, <1>3, <1>7, <1>9 DEF Untouched

-----------------------------------------------------------------------------
(* The accesses of the callbacks                                           *)

LEMMA Dispatch ==
  /\ ins.row.tcb = "emitVRMERGETCB" => opTCB = emitVRMERGETCB
  /\ ins.row.tcb = "emitVRBinaryIntCB" => opTCB = emitVRBinaryIntCB
  /\ ins.row.tcb = "emitVIShiftIntCB" => opTCB = emitVIShiftIntCB
  /\ ins.row.tcb = "emitVRMulHIntCB" => opTCB = emitVRMulHIntCB
  /\ ins.row.tcb = "emitVRMAddIntCB" => opTCB = emitVRMAddIntCB
  /\ ins.row.tcb = "emitVRAdcIntCB" => opTCB = emitVRAdcIntCB
  /\ ins.row.tcb = "emitVRCmpIntCB" => opTCB = emitVRCmpIntCB
  /\ ins.row.tcb = "emitVRSBinaryCB" => opTCB = emitVRSBinaryCB
  /\ ins.row.tcb = "emitVRABinaryCB" => opTCB = emitVRABinaryCB
  /\ ins.row.tcb = "emitVRRShiftIntCB" => opTCB = emitVRRShiftIntCB
  /\ ins.row.tcb = "emitVRSMULCB" => opTCB = emitVRSMULCB
  /\ ins.row.tcb = "emitVRSMAccIntCB" => opTCB = emitVRSMAccIntCB
  /\ ins.row.tcb = "emitVRBinaryFltCB" => opTCB = emitVRBinaryFltCB
  /\ ins.row.tcb = "emitVRMAddFltCB" => opTCB = emitVRMAddFltCB
  /\ ins.row.tcb = "emitVRFSgnFltCB" => opTCB = emitVRFSgnFltCB
  /\ ins.row.tcb = "emitVRFCmpFltCB" => opTCB = emitVRFCmpFltCB
  /\ ins.row.tcb = "emitVRFClassFltCB" => opTCB = emitVRFClassFltCB
  /\ ins.row.tcb = "emitVRConvertFltCB" => opTCB = emitVRConvertFltCB
  /\ ins.row.tcb = "emitVRedBinaryIntCB" => opTCB = emitVRedBinaryIntCB
  /\ ins.row.tcb = "emitVRedBinaryFltCB" => opTCB = emitVRedBinaryFltCB
  /\ ins.row.tcb = "emitMBinaryCB" => opTCB = emitMBinaryCB
  /\ ins.row.tcb = "emitVPOPCCB" => opTCB = emitVPOPCCB
  /\ ins.row.tcb = "emitVFIRSTCB" => opTCB = emitVFIRSTCB
  /\ ins.row.tcb = "emitVMSBFCB" => opTCB = emitVMSBFCB
  /\ ins.row.tcb = "emitVMSIFCB" => opTCB = emitVMSIFCB
  /\ ins.row.tcb = "emitVMSOFCB" => opTCB = emitVMSOFCB
  /\ ins.row.tcb = "emitVIOTACB" => opTCB = emitVIOTACB
  /\ ins.row.tcb = "emitVIDTCB" => opTCB = emitVIDTCB
  /\ ins.row.tcb = "emitVRSLIDEUPCB" => opTCB = emitVRSLIDEUPCB
  /\ ins.row.tcb = "emitVRSLIDEDOWNCB" => opTCB = emitVRSLIDEDOWNCB
  /\ ins.row.tcb = "emitVRSLIDE1UPCB" => opTCB = emitVRSLIDE1UPCB
  /\ ins.row.tcb = "emitVRSLIDE1DOWNCB" => opTCB = emitVRSLIDE1DOWNCB
  /\ ins.row.tcb = "emitVRRGATHERCB" => opTCB = emitVRRGATHERCB
  /\ ins.row.tcb = "emitVIRGATHERCB" => opTCB = emitVIRGATHERCB
  /\ ins.row.tcb = "emitVCOMPRESSCB" => opTCB = emitVCOMPRESSCB
  /\ ins.row.tcb = "emitVEXTXV" => opTCB = emitVEXTXV
  /\ ins.row.tcb = "emitVFMVFS" => opTCB = emitVFMVFS
  /\ ins.row.tcb = "emitVMVSX" => opTCB = emitVMVSX
  /\ ins.row.tcb = "emitVFMVSF" => opTCB = emitVFMVSF
  <1>1. ins.row.tcb = "emitVRMERGETCB" => opTCB = emitVRMERGETCB
    BY DEF opTCB
  <1>2. ins.row.tcb = "emitVRBinaryIntCB" => opTCB = emitVRBinaryIntCB
    BY DEF opTCB
  <1>3. ins.row.tcb = "emitVIShiftIntCB" => opTCB = emitVIShiftIntCB
    BY DEF opTCB
  <1>4. ins.row.tcb = "emitVRMulHIntCB" => opTCB = emitVRMulHIntCB
    BY DEF opTCB
  <1>5. ins.row.tcb = "emitVRMAddIntCB" => opTCB = emitVRMAddIntCB
    BY DEF opTCB
  <1>6. ins.row.tcb = "emitVRAdcIntCB" => opTCB = emitVRAdcIntCB
    BY DEF opTCB
  <1>7. ins.row.tcb = "emitVRCmpIntCB" => opTCB = emitVRCmpIntCB
    BY DEF opTCB
  <1>8. ins.row.tcb = "emitVRSBinaryCB" => opTCB = emitVRSBinaryCB
    BY DEF opTCB
  <1>9. ins.row.tcb = "emitVRABinaryCB" => opTCB = emitVRABinaryCB
    BY DEF opTCB
  <1>10. ins.row.tcb = "emitVRRShiftIntCB" => opTCB = emitVRRShiftIntCB
    BY DEF opTCB
  <1>11. ins.row.tcb = "emitVRSMULCB" => opTCB = emitVRSMULCB
    BY DEF opTCB
  <1>12. ins.row.tcb = "emitVRSMAccIntCB" => opTCB = emitVRSMAccIntCB
    BY DEF opTCB
  <1>13. ins.row.tcb = "emitVRBinaryFltCB" => opTCB = emitVRBinaryFltCB
    BY DEF opTCB
  <1>14. ins.row.tcb = "emitVRMAddFltCB" => opTCB = emitVRMAddFltCB
    BY DEF opTCB
  <1>15. ins.row.tcb = "emitVRFSgnFltCB" => opTCB = emitVRFSgnFltCB
    BY DEF opTCB
  <1>16. ins.row.tcb = "emitVRFCmpFltCB" => opTCB = emitVRFCmpFltCB
    BY DEF opTCB
  <1>17. ins.row.tcb = "emitVRFClassFltCB" => opTCB = emitVRFClassFltCB
    BY DEF opTCB
  <1>18. ins.row.tcb = "emitVRConvertFltCB" => opTCB = emitVRConvertFltCB
    BY DEF opTCB
  <1>19. ins.row.tcb = "emitVRedBinaryIntCB" => opTCB = emitVRedBinaryIntCB
    BY DEF opTCB
  <1>20. ins.row.tcb = "emitVRedBinaryFltCB" => opTCB = emitVRedBinaryFltCB
    BY DEF opTCB
  <1>21. ins.row.tcb = "emitMBinaryCB" => opTCB = emitMBinaryCB
    BY DEF opTCB
  <1>22. ins.row.tcb = "emitVPOPCCB" => opTCB = emitVPOPCCB
    BY DEF opTCB
  <1>23. ins.row.tcb = "emitVFIRSTCB" => opTCB = emitVFIRSTCB
    BY DEF opTCB
  <1>24. ins.row.tcb = "emitVMSBFCB" => opTCB = emitVMSBFCB
    BY DEF opTCB
  <1>25. ins.row.tcb = "emitVMSIFCB" => opTCB = emitVMSIFCB
    BY DEF opTCB
  <1>26. ins.row.tcb = "emitVMSOFCB" => opTCB = emitVMSOFCB
    BY DEF opTCB
  <1>27. ins.row.tcb = "emitVIOTACB" => opTCB = emitVIOTACB
    BY DEF opTCB
  <1>28. ins.row.tcb = "emitVIDTCB" => opTCB = emitVIDTCB
    BY DEF opTCB
  <1>29. ins.row.tcb = "emitVRSLIDEUPCB" => opTCB = emitVRSLIDEUPCB
    BY DEF opTCB
  <1>30. ins.row.tcb = "emitVRSLIDEDOWNCB" => opTCB = emitVRSLIDEDOWNCB
    BY DEF opTCB
  <1>31. ins.row.tcb = "emitVRSLIDE1UPCB" => opTCB = emitVRSLIDE1UPCB
    BY DEF opTCB
  <1>32. ins.row.tcb = "emitVRSLIDE1DOWNCB" => opTCB = emitVRSLIDE1DOWNCB
    BY DEF opTCB
  <1>33. ins.row.tcb = "emitVRRGATHERCB" => opTCB = emitVRRGATHERCB
    BY DEF opTCB
  <1>34. ins.row.tcb = "emitVIRGATHERCB" => opTCB = emitVIRGATHERCB
    BY DEF opTCB
  <1>35. ins.row.tcb = "emitVCOMPRESSCB" => opTCB = emitVCOMPRESSCB
    BY DEF opTCB
  <1>36. ins.row.tcb = "emitVEXTXV" => opTCB = emitVEXTXV
    BY DEF opTCB
  <1>37. ins.row.tcb = "emitVFMVFS" => opTCB = emitVFMVFS
    BY DEF opTCB
  <1>38. ins.row.tcb = "emitVMVSX" => opTCB = emitVMVSX
    BY SMTT(30) DEF opTCB
  <1>39. ins.row.tcb = "emitVFMVSF" => opTCB = emitVFMVSF
    BY DEF opTCB
  <1> QED BY <1>1, <1>2, <1>3, <1>4, <1>5, <1>6, <1>7, <1>8, <1>9, <1>10, <1>11, <1>12, <1>13, <1>14, <1>15, <1>16, <1>17, <1>18, <1>19, <1>20,
             <1>21, <1>22, <1>23, <1>24, <1>25, <1>26, <1>27, <1>28, <1>29, <1>30, <1>31, <1>32, <1>33, <1>34, <1>35, <1>36, <1>37, <1>38, <1>39, Zenon

LEMMA DoesFields ==
  ASSUME NEW x, NEW v, NEW t, NEW u
  PROVE  /\ Does(x).accs = x
         /\ [Does(x) EXCEPT !.xd = u].accs = x
         /\ [Does(x) EXCEPT !.value = v].accs = x
         /\ [Does(x) EXCEPT !.tmp = t].accs = x
         /\ [Does(x) EXCEPT !.tmp = t].tmp = t
         /\ [Does(x) EXCEPT !.value = v, !.tmp = t].accs = x
  BY Zenon DEF Does

LEMMA UntouchedPart ==
  ASSUME NEW a, Untouched(a), NEW b, b \subseteq a
  PROVE  Untouched(b)
  BY Zenon DEF Untouched

(* The kinds of instruction, by what they read and write. *)
LEMMA Kinds ==
  ASSUME AtElement
  PROVE  \/ OnElements(ins) /\ ins.row.tcb \notin {"emitVCOMPRESSCB", "emitVMVSX", "emitVFMVSF"}
            /\ (PlainRow(ins.row) \/ MoveRow(ins.row) \/ MaskRow(ins.row) \/ ins.row.tcb = "emitVAMOBinopRRR")
         \/ OnElements(ins) /\ CompressRow(ins.row)
         \/ ins.whole = "RV_WD_MV" /\ PlainRow(ins.row)
         \/ ReduceRow(ins.row)
         \/ ScalarRow(ins.row)
         \/ MemoryRow(ins.row) /\ ins.row.tcb \in LoadCBs \cup StoreCBs
  <1>1. RowClass(ins.row) /\ ins.shape = ins.row.shape
    BY Zenon DEF AtElement
  <1>2. isWhole(ins) => (ins.whole = "RV_WD_MV" /\ ins.row.check = "emitVMVRCheckCB") \/ ins.row.tcb \in {"emitVLdUCB", "emitVStUCB"}
    BY DEF AtElement, Decoded, isWhole
  <1>3. CASE PlainRow(ins.row)
    <2>1. ins.row.tcb \notin {"emitVCOMPRESSCB", "emitVMVSX", "emitVFMVSF", "emitVLdUCB", "emitVStUCB"} \cup LoadCBs \cup StoreCBs
          /\ ins.row.end # "endVRedCB" /\ ins.row.shape \in VectorShapes
      BY <1>3 DEF PlainRow, PlainCBs, LoadCBs, StoreCBs, VectorShapes, PlainShapes
    <2> QED BY <1>1, <1>2, <1>3, <2>1, Zenon DEF OnElements
  <1>4. CASE MoveRow(ins.row)
    <2>1. ins.row.tcb \notin {"emitVCOMPRESSCB", "emitVMVSX", "emitVFMVSF", "emitVLdUCB", "emitVStUCB"} \cup LoadCBs \cup StoreCBs
          /\ ins.row.end # "endVRedCB" /\ ins.row.shape \in VectorShapes /\ ins.row.check # "emitVMVRCheckCB"
      BY <1>4 DEF MoveRow, LoadCBs, StoreCBs, VectorShapes, MoveShapes
    <2> QED BY <1>1, <1>2, <1>4, <2>1, Zenon DEF OnElements
  <1>5. CASE MaskRow(ins.row)
    <2>1. ins.row.tcb \notin {"emitVCOMPRESSCB", "emitVMVSX", "emitVFMVSF", "emitVLdUCB", "emitVStUCB"} \cup LoadCBs \cup StoreCBs
          /\ ins.row.end # "endVRedCB" /\ ins.row.shape \in VectorShapes /\ ins.row.check # "emitVMVRCheckCB"
      BY <1>5 DEF MaskRow, LoadCBs, StoreCBs, VectorShapes, MoveShapes, PlainShapes
    <2> QED BY <1>1, <1>2, <1>5, <2>1, SMTT(30) DEF OnElements
  <1>6. CASE CompressRow(ins.row)
    <2>1. ins.row.tcb \notin {"emitVLdUCB", "emitVStUCB"} \cup LoadCBs \cup StoreCBs
          /\ ins.row.end # "endVRedCB" /\ ins.row.shape \in VectorShapes /\ ins.row.check # "emitVMVRCheckCB"
      BY <1>6 DEF CompressRow, LoadCBs, StoreCBs, VectorShapes, MoveShapes
    <2> QED BY <1>1, <1>2, <1>6, <2>1, SMTT(30) DEF OnElements
  <1>7. CASE MemoryRow(ins.row) /\ ins.row.tcb = "emitVAMOBinopRRR"
    <2>1. ins.row.tcb \notin {"emitVCOMPRESSCB", "emitVMVSX", "emitVFMVSF", "emitVLdUCB", "emitVStUCB"} \cup LoadCBs \cup StoreCBs
          /\ ins.row.end # "endVRedCB" /\ ins.row.shape \in VectorShapes /\ ins.row.check # "emitVMVRCheckCB"
      BY <1>7 DEF MemoryRow, LoadCBs, StoreCBs, VectorShapes, PlainShapes, LdStChecks
    <2> QED BY <1>1, <1>2, <1>7, <2>1, SMTT(30) DEF OnElements
  <1>8. CASE MemoryRow(ins.row) /\ ins.row.tcb # "emitVAMOBinopRRR"
    BY <1>8 DEF MemoryRow
  <1> QED BY <1>1, <1>3, <1>4, <1>5, <1>6, <1>7, <1>8, Zenon DEF RowClass

(* No element has overwritten the mask of one to come. *)
LEMMA MaskFieldUntouched ==
  ASSUME AtElement, isVReg(ins.mask)
  PROVE  ~isWhole(ins) /\ Untouched(MaskField)
  <1> USE Zenon
  <1>1. ~isWhole(ins) /\ ins.whole # "RV_WD_MV" /\ ins.row.morph # "emitScalarOp"
    BY DEF AtElement, Decoded, isWhole, isVReg
  <1>2. CASE OnElements(ins) /\ ins.row.tcb \notin {"emitVCOMPRESSCB", "emitVMVSX", "emitVFMVSF"}
    BY <1>1, <1>2, MaskUntouched
  <1>3. CASE OnElements(ins) /\ CompressRow(ins.row)
    <2>1. ins.row.tcb = "emitVCOMPRESSCB" /\ ins.shape = "S111_CMP"
      BY <1>3 DEF CompressRow, AtElement
    <2> QED BY <1>1, <1>3, <2>1, CompressUntouched
  <1>4. CASE ReduceRow(ins.row) \/ (MemoryRow(ins.row) /\ ins.row.tcb \in StoreCBs)
    <2>1. ins.row.end = "endVRedCB" \/ ins.row.tcb \in StoreCBs
      BY <1>4 DEF ReduceRow
    <2> QED BY <1>1, <2>1, NoneOverwritten, NothingWritten
  <1>5. CASE MemoryRow(ins.row) /\ ins.row.tcb \in LoadCBs
    BY <1>1, <1>5, LoadUntouched
  <1>6. ~ScalarRow(ins.row)
    BY <1>1 DEF ScalarRow
  <1> QED BY <1>1, <1>2, <1>3, <1>4, <1>5, <1>6, Kinds

LEMMA MaskClean ==
  ASSUME AtElement, NEW accs, NEW W, Fine(accs, W)
  PROVE  Fine(MaskRead \o accs, W) /\ Fine(CarryIn \o accs, W)
  <1> USE Zenon
  <1>1. Untouched({})
    BY DEF Untouched
  <1>2. Fine(<<>> \o accs, W)
    BY <1>1, FinePrefix
  <1>3. CASE isVReg(ins.mask)
    <2> DEFINE m == MLEN(ins, env)
               q == ins.mask
    <2>1. ~isWhole(ins) /\ Untouched(MaskField)
      BY <1>3, MaskFieldUntouched
    <2>2. m \in FieldWidths /\ m \in Nat /\ 0 < m
      <3>1. m \in FieldWidths
        BY <2>1, SettingFacts DEF AtElement
      <3> QED BY <3>1, SMT DEF FieldWidths
    <2>3. q \in Nat /\ vstart \in Nat
      <3>1. Decoded(ins) /\ vstart \in Nat
        BY DEF AtElement
      <3>2. q \in 0..31
        BY <1>3, <3>1, MaskRegister
      <3> QED BY <3>1, <3>2, SMT
    <2>4. vstart * m \in Nat
      BY <2>2, <2>3, SMT
    <2>5. Bits(q, vstart * m, 1) \subseteq MaskField
      BY <2>2, <2>3, <2>4, MaskBit DEF MaskField
    <2>6. MaskBits(q, vstart, m) = MaskField
      BY <2>2, <2>3, MaskBitsAt DEF MaskField
    <2>7. Untouched(Bits(q, vstart * m, 1))
      BY <2>1, <2>5, UntouchedPart
    <2>8. Fine(<<Rd(Bits(q, vstart * m, 1))>> \o accs, W) /\ Fine(<<Rd(MaskField)>> \o accs, W)
      BY <2>1, <2>7, FinePrefix
    <2> QED BY <1>2, <2>6, <2>8 DEF MaskRead, CarryIn
  <1>4. CASE ~isVReg(ins.mask)
    BY <1>2, <1>4 DEF MaskRead, CarryIn, Masked
  <1> QED BY <1>3, <1>4, SMT

(* The locations an element may write to. *)
Target == Writes(IF ins.row.tcb = "emitVCOMPRESSCB" THEN VTMP ELSE vstart)

(* The callbacks that read all their sources first. *)
LEMMA PlainFine ==
  ASSUME AtElement, ins.row.tcb \in PlainCBs \cup {"emitVRMERGETCB"},
         NEW W, ArgBits(ins, env, 0, vstart) \subseteq W,
         \A a \in 0..2 : Untouched(ArgBits(ins, env, a, vstart))
  PROVE  Fine(opTCB.accs, W) /\ Fine(emitVRMERGEFCB.accs, W)
  <1> USE Zenon
  <1> DEFINE A(a) == ArgBits(ins, env, a, vstart)
  <1>1. Untouched(A(0)) /\ Untouched(A(1)) /\ Untouched(A(2))
    <2>1. 0 \in 0..2 /\ 1 \in 0..2 /\ 2 \in 0..2
      BY SMT
    <2> QED BY <2>1
  <1>2. Src(0) = Rd(A(0)) /\ Src(1) = Rd(A(1)) /\ Src(2) = Rd(A(2)) /\ Dst = Wr(A(0))
    BY DEF Src, Dst
  <1>3. /\ Fine(<<Src(1), Dst>>, W) /\ Fine(<<Src(2), Dst>>, W)
        /\ Fine(<<Src(1), Dst, Dst>>, W)
    BY <1>1, <1>2, FineReads
  <1>4. /\ Fine(<<Src(1), Src(2), Dst>>, W) /\ Fine(<<Src(1), Src(2), Dst, Dst>>, W)
        /\ Fine(<<Src(2), Src(1), Dst>>, W)
    BY <1>1, <1>2, FineReads
  <1>5. Fine(<<Src(0), Src(1), Src(2), Dst>>, W) /\ Fine(<<Src(2), Src(1), Src(0), Dst>>, W)
    BY <1>1, <1>2, FineReads
  <1>6. Fine(CarryIn \o <<Src(1), Src(2), Dst>>, W)
    BY <1>4, MaskClean
  <1>7. /\ emitVIShiftIntCB.accs = <<Src(1), Dst>> /\ emitVRConvertFltCB.accs = <<Src(1), Dst>>
        /\ emitVRMERGETCB.accs = <<Src(2), Dst>> /\ emitVRFClassFltCB.accs = <<Src(1), Dst, Dst>>
    BY DoesFields DEF emitVIShiftIntCB, emitVRConvertFltCB, emitVRMERGETCB, emitVRFClassFltCB
  <1>8. ins.row.tcb \in {"emitVIShiftIntCB", "emitVRConvertFltCB", "emitVRMERGETCB", "emitVRFClassFltCB"} => Fine(opTCB.accs, W)
    BY <1>3, <1>7, Dispatch
  <1>9. ins.row.tcb \in {"emitVRBinaryIntCB", "emitVRMulHIntCB", "emitVRCmpIntCB", "emitVRSBinaryCB"} => Fine(opTCB.accs, W)
    BY <1>4, Dispatch, DoesFields DEF emitVRBinaryIntCB, emitVRMulHIntCB, emitVRCmpIntCB, emitVRSBinaryCB
  <1>10. ins.row.tcb \in {"emitVRRShiftIntCB", "emitVRBinaryFltCB", "emitVRFCmpFltCB", "emitMBinaryCB"} => Fine(opTCB.accs, W)
    BY <1>4, Dispatch, DoesFields DEF emitVRRShiftIntCB, emitVRBinaryFltCB, emitVRFCmpFltCB, emitMBinaryCB
  <1>11. ins.row.tcb \in {"emitVRABinaryCB", "emitVRSMULCB", "emitVRFSgnFltCB"} => Fine(opTCB.accs, W)
    <2>1. /\ emitVRABinaryCB.accs = <<Src(1), Src(2), Dst, Dst>> /\ emitVRSMULCB.accs = <<Src(1), Src(2), Dst, Dst>>
          /\ emitVRFSgnFltCB.accs = <<Src(2), Src(1), Dst>>
      BY DoesFields DEF emitVRABinaryCB, emitVRSMULCB, emitVRFSgnFltCB
    <2> QED BY <1>4, <2>1, Dispatch
  <1>12. ins.row.tcb \in {"emitVRMAddIntCB", "emitVRSMAccIntCB", "emitVRMAddFltCB"} => Fine(opTCB.accs, W)
    <2>1. /\ emitVRMAddIntCB.accs = <<Src(0), Src(1), Src(2), Dst>> /\ emitVRMAddFltCB.accs = <<Src(0), Src(1), Src(2), Dst>>
          /\ emitVRSMAccIntCB.accs = <<Src(2), Src(1), Src(0), Dst>>
      BY DoesFields DEF emitVRMAddIntCB, emitVRSMAccIntCB, emitVRMAddFltCB
    <2> QED BY <1>5, <2>1, Dispatch
  <1>13. ins.row.tcb = "emitVRAdcIntCB" => Fine(opTCB.accs, W)
    BY <1>6, Dispatch, DoesFields DEF emitVRAdcIntCB
  <1>14. Fine(emitVRMERGEFCB.accs, W)
    BY <1>3, DoesFields DEF emitVRMERGEFCB
  <1> QED BY <1>8, <1>9, <1>10, <1>11, <1>12, <1>13, <1>14, SMTT(30) DEF PlainCBs

(* Slides and gathers write, then read: a source they may overlap is read  *)
(* above the element.                                                      *)
LEMMA MoveFine ==
  ASSUME AtElement, OnElements(ins), MoveRow(ins.row)
  PROVE  Fine(opTCB.accs, ArgBits(ins, env, 0, vstart))
  <1> USE Zenon
  <1> DEFINE A(a) == ArgBits(ins, env, a, vstart)
             W == A(0)
             V == getVLMAXOp(ins, env)
             I(k) == Rd(ArgBits(ins, env, 1, k))
             Clear(k) == Untouched(ArgBits(ins, env, 1, k)) /\ W \cap ArgBits(ins, env, 1, k) = {}
  <1>0. W \subseteq W
    BY SMT
  <1>1. vstart \in Nat /\ vstart < V /\ V \in Nat /\ ins.c \in Nat
    <2>1. vstart \in Nat /\ vstart < V /\ Setting(env) /\ Decoded(ins)
      BY DEF AtElement, OnElements
    <2>2. V \in Nat
      BY <2>1, VLMAXType
    <2> QED BY <2>1, <2>2 DEF Decoded
  <1>2. ins.row.tcb \notin {"emitVCOMPRESSCB", "emitVMVSX", "emitVFMVSF"}
    BY SMT DEF MoveRow
  <1>3. Dst = Wr(W)
    BY DEF Dst
  <1>4. Fine(<<Dst>>, W) /\ Fine(<<>>, W)
    <2>1. Untouched({})
      BY DEF Untouched
    <2> QED BY <1>0, <1>3, <2>1, FineReads, FineNil
  <1>5. ASSUME NEW k, Clear(k)
        PROVE  Fine(moveIndexedVd0Vs1(<<>>, k).accs, W) /\ Fine(moveIndexedVd0Vs1(<<Dst>>, k).accs, W)
    <2>1. Fine(<<Wr(W)>> \o <<I(k), Wr(W)>>, W) /\ Fine(<<>> \o <<I(k), Wr(W)>>, W)
      BY <1>0, <1>5, FineWriteFirst
    <2>2. /\ moveIndexedVd0Vs1(<<>>, k).accs = <<>> \o <<I(k), Dst>>
          /\ moveIndexedVd0Vs1(<<Dst>>, k).accs = <<Dst>> \o <<I(k), Dst>>
      BY DoesFields DEF moveIndexedVd0Vs1
    <2> QED BY <1>3, <2>1, <2>2
  <1>6. CASE ins.shape \in {"S111_GR", "S111_UP"}
    <2>1. \A k \in Nat : k < V => Clear(k)
      <3>1. 1 \in 1..3
        BY SMT
      <3> QED BY <1>2, <1>6, <3>1, StrictUntouched DEF StrictShapes
    <2>2. Untouched(A(2)) /\ W \cap A(2) = {}
      <3>1. 2 \in 1..3
        BY SMT
      <3> QED BY <1>1, <1>2, <1>6, <3>1, StrictUntouched DEF StrictShapes
    <2>3. Src(2) = Rd(A(2))
      BY DEF Src
    <2>4. ins.row.tcb = "emitVRSLIDEUPCB" => Fine(opTCB.accs, W)
      <3>1. CASE vstart < ins.c
        <4>1. emitVRSLIDEUPCB.accs = <<>>
          BY <3>1, DoesFields DEF emitVRSLIDEUPCB
        <4> QED BY <1>4, <4>1, Dispatch
      <3>2. CASE ~(vstart < ins.c)
        <4>1. vstart - ins.c \in Nat /\ vstart - ins.c < V
          BY <1>1, <3>2, SMT
        <4>2. emitVRSLIDEUPCB = moveIndexedVd0Vs1(<<>>, vstart - ins.c)
          BY <3>2 DEF emitVRSLIDEUPCB
        <4> QED BY <1>5, <2>1, <4>1, <4>2, Dispatch
      <3> QED BY <3>1, <3>2, SMT
    <2>5. ins.row.tcb = "emitVRSLIDE1UPCB" => Fine(opTCB.accs, W)
      <3>1. CASE vstart = 0
        <4>1. emitVRSLIDE1UPCB.accs = <<Dst>>
          BY <3>1, DoesFields DEF emitVRSLIDE1UPCB
        <4> QED BY <1>4, <4>1, Dispatch
      <3>2. CASE vstart # 0
        <4>1. vstart - 1 \in Nat /\ vstart - 1 < V
          BY <1>1, <3>2, SMT
        <4>2. emitVRSLIDE1UPCB = moveIndexedVd0Vs1(<<Dst>>, vstart - 1)
          BY <3>2 DEF emitVRSLIDE1UPCB
        <4> QED BY <1>5, <2>1, <4>1, <4>2, Dispatch
      <3> QED BY <3>1, <3>2, SMT
    <2>6. ins.row.tcb = "emitVRRGATHERCB" => Fine(opTCB.accs, W)
      <3> DEFINE g == GatherIndex(ins, vstart)
      <3>1. g \in Nat
        BY <1>1, SMT DEF GatherIndex
      <3>2. CASE g >= V
        <4>1. emitVRRGATHERCB.accs = <<Dst, Src(2)>>
          BY <3>2, DoesFields DEF emitVRRGATHERCB
        <4>2. Fine(<<Wr(W), Rd(A(2))>>, W)
          BY <1>0, <2>2, FineWriteFirst
        <4> QED BY <1>3, <2>3, <4>1, <4>2, Dispatch
      <3>3. CASE ~(g >= V)
        <4>1. Clear(g)
          <5>1. g < V
            BY <1>1, <3>1, <3>3, SMT
          <5> QED BY <2>1, <3>1, <5>1
        <4>2. emitVRRGATHERCB.accs = <<Dst, Src(2)>> \o <<I(g), Dst>>
          BY <3>3, DoesFields DEF emitVRRGATHERCB, moveIndexedVd0Vs1
        <4>3. Fine(<<Wr(W), Rd(A(2))>> \o <<I(g), Wr(W)>>, W)
          BY <1>0, <2>2, <4>1, FineWriteFirst
        <4> QED BY <1>3, <2>3, <4>2, <4>3, Dispatch
      <3> QED BY <3>2, <3>3, SMT
    <2>7. ins.row.tcb = "emitVIRGATHERCB" => Fine(opTCB.accs, W)
      <3>1. emitVIRGATHERCB.accs = <<Dst>>
        BY DoesFields DEF emitVIRGATHERCB
      <3> QED BY <1>4, <3>1, Dispatch
    <2> QED BY <1>6, <2>4, <2>5, <2>6, <2>7 DEF MoveRow, AtElement
  <1>7. CASE ins.shape = "S111_DN"
    <2>1. \A k \in Nat : vstart < k /\ k < V => Clear(k)
      <3> SUFFICES ASSUME NEW k \in Nat, vstart < k, k < V PROVE Clear(k)
        OBVIOUS
      <3>1. vstart <= k /\ vstart # k /\ 1 \in 0..3
        BY <1>1, SMT
      <3>2. Untouched(ArgBits(ins, env, 1, k))
        BY <1>2, <3>1, SourceUntouched
      <3>3. CASE isVReg(ins.r[0]) /\ isVReg(ins.r[1])
        <4>1. ~isScalarN(ins.shape, 0) /\ ~isScalarN(ins.shape, 1)
          BY ShapeScalars, SMT DEF OnElements
        <4> QED BY <1>1, <3>1, <3>2, <3>3, <4>1, SourceApart DEF AtElement, OnElements
      <3>4. CASE ~(isVReg(ins.r[0]) /\ isVReg(ins.r[1]))
        BY <3>2, <3>4, NoArgument
      <3> QED BY <3>3, <3>4
    <2>2. ASSUME ins.row.tcb = "emitVRSLIDEDOWNCB", ins.c = 0
          PROVE  Clear(vstart)
      <3>1. vstart <= vstart /\ 1 \in 0..3 /\ 1 \in 1..3
        BY <1>1, SMT
      <3>2. Untouched(ArgBits(ins, env, 1, vstart))
        BY <1>1, <1>2, <3>1, SourceUntouched
      <3>3. CASE isVReg(ins.r[0]) /\ isVReg(ins.r[1])
        <4>1. ~isScalarN(ins.shape, 0) /\ ~isScalarN(ins.shape, 1)
          BY ShapeScalars, SMT DEF OnElements
        <4>2. ins.r[0] # ins.r[1]
          BY <2>2 DEF AtElement, SlidInPlace
        <4> QED BY <1>1, <3>1, <3>2, <3>3, <4>1, <4>2, StrictApart DEF AtElement, OnElements
      <3>4. CASE ~(isVReg(ins.r[0]) /\ isVReg(ins.r[1]))
        BY <3>2, <3>4, NoArgument
      <3> QED BY <3>3, <3>4, SMT
    <2>3. ins.row.tcb = "emitVRSLIDEDOWNCB" => Fine(opTCB.accs, W)
      <3> SUFFICES ASSUME ins.row.tcb = "emitVRSLIDEDOWNCB" PROVE Fine(opTCB.accs, W)
        OBVIOUS
      <3> DEFINE g == vstart + ins.c
      <3>1. CASE g >= V
        <4>1. emitVRSLIDEDOWNCB.accs = <<Dst>>
          BY <3>1, DoesFields DEF emitVRSLIDEDOWNCB
        <4> QED BY <1>4, <4>1, Dispatch
      <3>2. CASE ~(g >= V)
        <4>1. g \in Nat /\ g < V /\ (g = vstart \/ vstart < g) /\ (g = vstart => ins.c = 0)
          BY <1>1, <3>2, SMT
        <4>2. Clear(g)
          BY <2>1, <2>2, <4>1
        <4>3. emitVRSLIDEDOWNCB = moveIndexedVd0Vs1(<<Dst>>, g)
          BY <3>2 DEF emitVRSLIDEDOWNCB
        <4> QED BY <1>5, <4>2, <4>3, Dispatch
      <3> QED BY <3>1, <3>2, SMT
    <2>4. ins.row.tcb = "emitVRSLIDE1DOWNCB" => Fine(opTCB.accs, W)
      <3>0. vl \in Nat /\ vl <= V
        BY DEF AtElement, OnElements
      <3>1. CASE vstart + 1 >= vl
        <4>1. emitVRSLIDE1DOWNCB.accs = <<Dst>>
          BY <3>1, DoesFields DEF emitVRSLIDE1DOWNCB
        <4> QED BY <1>4, <4>1, Dispatch
      <3>2. CASE ~(vstart + 1 >= vl)
        <4>1. vstart + 1 \in Nat /\ vstart < vstart + 1 /\ vstart + 1 < V
          BY <1>1, <3>0, <3>2, SMT
        <4>2. emitVRSLIDE1DOWNCB = moveIndexedVd0Vs1(<<Dst>>, vstart + 1)
          BY <3>2 DEF emitVRSLIDE1DOWNCB
        <4> QED BY <1>5, <2>1, <4>1, <4>2, Dispatch
      <3> QED BY <3>1, <3>2, SMT
    <2> QED BY <1>7, <2>3, <2>4 DEF MoveRow, AtElement
  <1> QED BY <1>6, <1>7 DEF MoveRow, AtElement

LEMMA MaskFine ==
  ASSUME AtElement, OnElements(ins), MaskRow(ins.row)
  PROVE  Fine(opTCB.accs, ArgBits(ins, env, 0, vstart))
  <1> USE Zenon
  <1> DEFINE W == ArgBits(ins, env, 0, vstart)
             A == ArgBits(ins, env, 1, vstart)
  <1>0. W \subseteq W
    BY SMT
  <1>1. vstart \in Nat /\ vstart < getVLMAXOp(ins, env) /\ vstart <= vstart /\ 1 \in 0..3 /\ 1 \in 1..3
    <2>1. vstart \in Nat /\ vstart < getVLMAXOp(ins, env)
      BY DEF AtElement, OnElements
    <2> QED BY <2>1, SMT
  <1>2. ins.row.tcb \notin {"emitVCOMPRESSCB", "emitVMVSX", "emitVFMVSF"}
    BY SMT DEF MaskRow
  <1>3. Dst = Wr(W) /\ Src(1) = Rd(A)
    BY DEF Dst, Src
  <1>4. Untouched(A)
    BY <1>1, <1>2, SourceUntouched
  <1>5. Fine(<<Dst>>, W) /\ Fine(<<>>, W) /\ Fine(<<Src(1)>>, W) /\ Fine(<<Src(1), Dst>>, W)
    BY <1>0, <1>3, <1>4, FineReads, FineOne, FineNil
  <1>6. ins.row.tcb = "emitVPOPCCB" => Fine(opTCB.accs, W)
    <2>1. emitVPOPCCB.accs = <<Src(1)>>
      BY DoesFields DEF emitVPOPCCB
    <2> QED BY <1>5, <2>1, Dispatch
  <1>7. ins.row.tcb = "emitVFIRSTCB" => Fine(opTCB.accs, W)
    <2>1. emitVFIRSTCB.accs = IF xd = -1 THEN <<Src(1)>> ELSE <<>>
      <3> DEFINE x == IF xd = -1 THEN <<Src(1)>> ELSE <<>>
                 u == IF xd = -1 /\ Pa = 1 THEN vstart ELSE xd
      <3>1. emitVFIRSTCB = [Does(x) EXCEPT !.xd = u]
        BY DEF emitVFIRSTCB
      <3> HIDE DEF x, u
      <3>2. emitVFIRSTCB.accs = x
        BY <3>1, DoesFields
      <3> QED BY <3>2 DEF x
    <2> QED BY <1>5, <2>1, Dispatch
  <1>8. ins.row.tcb \in {"emitVMSBFCB", "emitVMSIFCB", "emitVMSOFCB"} => Fine(opTCB.accs, W)
    <2>1. emitVMSBFCB.accs = <<Src(1), Dst>> /\ emitVMSIFCB.accs = <<Src(1), Dst>> /\ emitVMSOFCB.accs = <<Src(1), Dst>>
      BY DEF Does, emitVMSBFCB, emitVMSIFCB, emitVMSOFCB
    <2> QED BY <1>5, <2>1, Dispatch
  <1>9. ins.row.tcb = "emitVIDTCB" => Fine(opTCB.accs, W)
    <2>1. emitVIDTCB.accs = <<Dst>>
      BY DEF Does, emitVIDTCB
    <2> QED BY <1>5, <2>1, Dispatch
  <1>10. ins.row.tcb = "emitVIOTACB" => Fine(opTCB.accs, W)
    <2> SUFFICES ASSUME ins.row.tcb = "emitVIOTACB" PROVE Fine(opTCB.accs, W)
      OBVIOUS
    <2>1. ins.shape \in StrictShapes
      BY DEF MaskRow, AtElement, StrictShapes
    <2>2. W \cap A = {}
      BY <1>1, <1>2, <2>1, StrictUntouched
    <2>3. Fine(<<Wr(W), Rd(A)>>, W)
      BY <1>0, <1>4, <2>2, FineWriteFirst
    <2>4. emitVIOTACB.accs = <<Dst, Src(1)>>
      BY DEF Does, emitVIOTACB
    <2> QED BY <1>3, <2>3, <2>4, Dispatch
  <1> QED BY <1>6, <1>7, <1>8, <1>9, <1>10, SMTT(30) DEF MaskRow

LEMMA CompressFine ==
  ASSUME AtElement, OnElements(ins), CompressRow(ins.row)
  PROVE  Fine(opTCB.accs, ArgBits(ins, env, 0, VTMP)) /\ opTCB.tmp = VTMP + 1
  <1> USE Zenon
  <1> DEFINE W == ArgBits(ins, env, 0, VTMP)
             A == ArgBits(ins, env, 1, vstart)
  <1>1. ins.row.tcb = "emitVCOMPRESSCB" /\ ins.shape = "S111_CMP"
    BY DEF CompressRow, AtElement
  <1>2. Untouched(A)
    BY <1>1, CompressUntouched
  <1>3. Fine(<<Rd(A), Wr(W)>>, W)
    <2>1. W \subseteq W
      BY SMT
    <2> QED BY <1>2, <2>1, FineReads
  <1>4. emitVCOMPRESSCB.accs = <<Rd(A), Wr(W)>> /\ emitVCOMPRESSCB.tmp = VTMP + 1
    BY DEF Does, emitVCOMPRESSCB, Src
  <1> QED BY <1>1, <1>3, <1>4, Dispatch

LEMMA ScalarFine ==
  ASSUME AtElement, ScalarRow(ins.row)
  PROVE  Fine(opTCB.accs, ArgBits(ins, env, 0, vstart))
  <1> USE Zenon
  <1> DEFINE W == ArgBits(ins, env, 0, vstart)
  <1>1. Untouched({}) /\ W \subseteq W
    BY DEF Untouched
  <1>2. Fine(<<Dst>>, W)
    BY <1>1, FineReads DEF Dst
  <1>3. ins.row.tcb \in {"emitVMVSX", "emitVFMVSF"} => Fine(opTCB.accs, W)
    <2>1. emitVMVSX.accs = <<Dst>> /\ emitVFMVSF.accs = <<Dst>>
      BY DoesFields DEF emitVMVSX, emitVFMVSF
    <2> QED BY <1>2, <2>1, Dispatch
  <1>4. ASSUME ins.row.tcb \in {"emitVFMVFS", "emitVEXTXV"}
        PROVE  Fine(opTCB.accs, W)
    <2>1. DOMAIN file = {}
      BY <1>4, NoneOverwritten
    <2>2. \A at : Fine(<<Rd(at)>>, W)
      BY <2>1, NothingWritten, FineOne
    <2>3. emitVFMVFS.accs = <<Src(1)>> /\ emitVEXTXV.accs = ToScalar(ins)
      BY DoesFields, ZenonT(40) DEF emitVFMVFS, emitVEXTXV
    <2>4. Fine(ToScalar(ins), W) /\ Fine(<<Src(1)>>, W)
      BY <2>2, FineNil DEF ToScalar, Src
    <2> QED BY <1>4, <2>3, <2>4, Dispatch
  <1> QED BY <1>3, <1>4 DEF ScalarRow

(* Any element of an instruction that is not of memory. *)
Effect == IF Selected THEN opTCB ELSE IF ins.row.fcb # "none" THEN opFCB ELSE Does(<<>>)

LEMMA ElementFine ==
  ASSUME AtElement, ins.row.tcb \notin MemoryCBs
  PROVE  /\ Fine(Effect.accs, Target)
         /\ ins.row.tcb = "emitVCOMPRESSCB" => Effect.tmp \in {VTMP, VTMP + 1}
  <1> USE Zenon
  <1> DEFINE W == ArgBits(ins, env, 0, vstart)
  <1>1. Does(<<>>).accs = <<>> /\ Does(<<>>).tmp = VTMP
    BY DEF Does
  <1>2. \A X : Fine(<<>>, X)
    BY FineNil
  <1>3. W \subseteq W
    BY SMT
  <1>3a. ins.row.tcb \notin LoadCBs \cup StoreCBs /\ ins.row.tcb # "emitVAMOBinopRRR"
    BY SMT DEF MemoryCBs, LoadCBs, StoreCBs
  <1>4. ASSUME OnElements(ins), CompressRow(ins.row)
        PROVE  Fine(Effect.accs, Target) /\ Effect.tmp \in {VTMP, VTMP + 1}
    <2>1. ins.row.tcb = "emitVCOMPRESSCB" /\ ins.row.fcb = "none"
      BY <1>4 DEF CompressRow
    <2>2. Fine(opTCB.accs, Target) /\ opTCB.tmp = VTMP + 1
      BY <1>4, <2>1, CompressFine, WritesElement DEF Target
    <2>3. Fine(Does(<<>>).accs, Target) /\ Does(<<>>).tmp = VTMP
      BY <1>1, <1>2
    <2> QED BY <2>1, <2>2, <2>3 DEF Effect
  <1>5. ASSUME ins.row.tcb # "emitVCOMPRESSCB", ins.row.end # "endVRedCB", Fine(opTCB.accs, W),
               ins.row.fcb # "none" => Fine(opFCB.accs, W)
        PROVE  Fine(Effect.accs, Target)
    <2>1. Target = W
      BY <1>3a, <1>5 DEF Target, Writes
    <2>2. Fine(Does(<<>>).accs, W)
      BY <1>1, <1>2
    <2> QED BY <1>5, <2>1, <2>2 DEF Effect
  <1>6. ASSUME PlainRow(ins.row)
        PROVE  /\ ins.row.tcb # "emitVCOMPRESSCB" /\ ins.row.end # "endVRedCB"
               /\ ins.row.tcb \in PlainCBs \cup {"emitVRMERGETCB"}
               /\ ins.row.fcb # "none" => opFCB = emitVRMERGEFCB
    <2>1. ins.row.check # "emitEDIVCheckCB"
      <3>1. checkCB(ins, env)
        BY DEF AtElement, Allowed
      <3> QED BY <3>1, SMT DEF checkCB
    <2>2. ins.row.tcb \in PlainCBs \cup {"emitVRMERGETCB"}
      BY <1>6, <2>1 DEF PlainRow
    <2>3. ins.row.fcb \in {"none", "emitVRMERGEFCB"}
      BY <1>6, <2>1 DEF PlainRow
    <2>4. ins.row.tcb # "emitVCOMPRESSCB" /\ ins.row.end # "endVRedCB"
      BY <1>6, <2>2, SMT DEF PlainCBs, PlainRow
    <2> QED BY <2>2, <2>3, <2>4 DEF opFCB
  <1>7. ASSUME OnElements(ins), ins.row.tcb \notin {"emitVCOMPRESSCB", "emitVMVSX", "emitVFMVSF"}, PlainRow(ins.row)
        PROVE  Fine(Effect.accs, Target)
    <2>1. vstart \in Nat /\ vstart < getVLMAXOp(ins, env)
      BY <1>7 DEF AtElement, OnElements
    <2>2. vstart <= vstart /\ \A a \in 0..2 : a \in 0..3
      BY <2>1, SMT
    <2>3. \A a \in 0..2 : Untouched(ArgBits(ins, env, a, vstart))
      BY <1>7, <2>1, <2>2, SourceUntouched
    <2>4. Fine(opTCB.accs, W) /\ Fine(emitVRMERGEFCB.accs, W)
      BY <1>3, <1>6, <1>7, <2>3, PlainFine
    <2> QED BY <1>5, <1>6, <1>7, <2>4
  <1>8. ASSUME ins.whole = "RV_WD_MV", PlainRow(ins.row)
        PROVE  Fine(Effect.accs, Target)
    <2>1. /\ ins.row.tcb = "emitVRBinaryIntCB"
          /\ Untouched(ArgBits(ins, env, 1, vstart)) /\ Untouched(ArgBits(ins, env, 2, vstart))
      BY <1>8, MoveUntouched
    <2>2. Fine(<<Src(1), Src(2), Dst>>, W)
      BY <1>3, <2>1, FineReads DEF Src, Dst
    <2>3. opTCB.accs = <<Src(1), Src(2), Dst>>
      BY <2>1, Dispatch, DoesFields DEF emitVRBinaryIntCB
    <2>4. ins.row.fcb = "none"
      BY <1>8, <2>1, SMT DEF PlainRow
    <2> QED BY <1>5, <1>6, <1>8, <2>2, <2>3, <2>4
  <1>9. ASSUME OnElements(ins), MoveRow(ins.row) \/ MaskRow(ins.row)
        PROVE  Fine(Effect.accs, Target) /\ ins.row.tcb # "emitVCOMPRESSCB"
    <2>1. Fine(opTCB.accs, W)
      BY <1>9, MoveFine, MaskFine
    <2>2. ins.row.tcb # "emitVCOMPRESSCB" /\ ins.row.fcb \in {"none", "emitVIDFCB"} /\ ins.row.end # "endVRedCB"
      BY <1>9, SMT DEF MoveRow, MaskRow
    <2>3. ins.row.fcb # "none" => opFCB = emitVIDFCB
      BY <2>2, SMT DEF opFCB
    <2>4. emitVIDFCB.accs = <<>>
      BY DoesFields DEF emitVIDFCB
    <2>5. ins.row.fcb # "none" => Fine(opFCB.accs, W)
      BY <1>2, <2>3, <2>4
    <2> QED BY <1>5, <2>1, <2>2, <2>5
  <1>10. ASSUME ReduceRow(ins.row)
         PROVE  Fine(Effect.accs, Target) /\ ins.row.tcb # "emitVCOMPRESSCB"
    <2>1. DOMAIN file = {}
      BY <1>10, NoneOverwritten DEF ReduceRow
    <2>2. Fine(<<Src(1)>>, Target)
      BY <2>1, NothingWritten, FineOne DEF Src
    <2>3. emitVRedBinaryIntCB.accs = <<Src(1)>> /\ emitVRedBinaryFltCB.accs = <<Src(1)>>
      BY DoesFields DEF emitVRedBinaryIntCB, emitVRedBinaryFltCB
    <2>4. Fine(opTCB.accs, Target) /\ Fine(Does(<<>>).accs, Target)
      BY <1>1, <1>2, <1>10, <2>2, <2>3, Dispatch DEF ReduceRow
    <2>5. ins.row.fcb = "none" /\ ins.row.tcb # "emitVCOMPRESSCB"
      BY <1>10, SMT DEF ReduceRow
    <2> QED BY <2>4, <2>5 DEF Effect
  <1>11. ASSUME ScalarRow(ins.row)
         PROVE  Fine(Effect.accs, Target) /\ ins.row.tcb # "emitVCOMPRESSCB"
    <2>1. Fine(opTCB.accs, W)
      BY <1>11, ScalarFine
    <2>2. ins.row.fcb = "none" /\ ins.row.tcb # "emitVCOMPRESSCB" /\ ins.row.end # "endVRedCB"
      BY <1>11, SMT DEF ScalarRow
    <2> QED BY <1>5, <2>1, <2>2
  <1> QED BY <1>4, <1>6, <1>7, <1>8, <1>9, <1>10, <1>11, <1>3a, Kinds

(* Loads, stores and AMOs. *)
LEMMA FieldsWritten ==
  ASSUME NEW n \in 0..(NF(ins) + 1), NF(ins) \in Nat, NEW W,
         \A f \in 0..NF(ins) : FieldBits(ins, env, f, vstart) \subseteq W
  PROVE  Fine([f \in 1..n |-> Wr(FieldBits(ins, env, f - 1, vstart))], W)
  <1> DEFINE s == [f \in 1..n |-> Wr(FieldBits(ins, env, f - 1, vstart))]
             S == {s[f] : f \in 1..n}
  <1>1. DOMAIN s = 1..n /\ n \in Nat
    OBVIOUS
  <1>2. s \in Seq(S)
    <2>1. s \in [1..n -> S]
      OBVIOUS
    <2> HIDE DEF s, S
    <2> QED BY <1>1, <2>1
  <1>3. \A f \in 1..n : s[f].write = TRUE /\ s[f].at = FieldBits(ins, env, f - 1, vstart)
    <2>1. \A f \in 1..n : s[f] = Wr(FieldBits(ins, env, f - 1, vstart))
      OBVIOUS
    <2> QED BY <2>1, Access, Zenon
  <1>4. \A f \in 1..n : f - 1 \in 0..NF(ins)
    OBVIOUS
  <1> HIDE DEF s, S
  <1>5. ~ReadsOverwritten(s)
    BY <1>1, <1>3, Zenon DEF ReadsOverwritten
  <1>6. Written(s) \subseteq W
    BY <1>1, <1>3, <1>4, Zenon DEF Written
  <1> QED BY <1>2, <1>5, <1>6, Zenon DEF Fine, s

LEMMA FieldsRead ==
  ASSUME NEW n \in 0..(NF(ins) + 1), NF(ins) \in Nat, NEW W, DOMAIN file = {}
  PROVE  Fine([f \in 1..n |-> Rd(FieldBits(ins, env, f - 1, vstart))], W)
  <1> DEFINE s == [f \in 1..n |-> Rd(FieldBits(ins, env, f - 1, vstart))]
             S == {s[f] : f \in 1..n}
  <1>1. DOMAIN s = 1..n /\ n \in Nat
    OBVIOUS
  <1>2. s \in Seq(S)
    <2>1. s \in [1..n -> S]
      OBVIOUS
    <2> HIDE DEF s, S
    <2> QED BY <1>1, <2>1
  <1>3. \A f \in 1..n : s[f].write = FALSE
    <2>1. \A f \in 1..n : s[f] = Rd(FieldBits(ins, env, f - 1, vstart))
      OBVIOUS
    <2> QED BY <2>1, Access, Zenon
  <1>4. \A p \in 1..n : \A q \in 1..(p - 1) : q \in 1..n
    OBVIOUS
  <1> HIDE DEF s, S
  <1>5. ~ReadsOverwritten(s)
    BY <1>1, <1>3, <1>4, Zenon DEF ReadsOverwritten
  <1>6. Written(s) \subseteq W
    BY <1>1, <1>3, Zenon DEF Written
  <1> QED BY <1>2, <1>5, <1>6, Zenon DEF Fine, s

LEMMA MemoryFine ==
  ASSUME AtElement, ins.row.tcb \in MemoryCBs, NEW n \in 0..(NF(ins) + 1)
  PROVE  /\ Fine(Accesses(n), Writes(vstart))
         /\ n = 0 => Fine(Accesses(n), {})
  <1> USE Zenon
  <1>0. NF(ins) \in Nat /\ Decoded(ins) /\ Setting(env)
    BY FieldCount DEF AtElement
  <1>1. ASSUME NEW accs, NEW W, Fine(accs, W), ins.row.tcb \in {"emitVLdICB", "emitVStICB"} => Untouched(ArgBits(ins, env, 2, vstart)),
               ins.row.tcb \in LoadCBs \cup StoreCBs
        PROVE  Fine(emitVLdStIOffset \o accs, W)
    <2>1. ins.row.tcb # "emitVAMOBinopRRR"
      BY <1>1, SMT DEF LoadCBs, StoreCBs
    <2>2. Untouched({})
      BY DEF Untouched
    <2>3. Fine(<<>> \o accs, W)
      BY <1>1, <2>2, FinePrefix
    <2>4. CASE ins.row.tcb \in {"emitVLdICB", "emitVStICB"}
      <3>1. Fine(<<Rd(ArgBits(ins, env, 2, vstart))>> \o accs, W)
        BY <1>1, <2>4, FinePrefix
      <3>2. emitVLdStIOffset = <<Rd(ArgBits(ins, env, 2, vstart))>>
        BY <2>4 DEF emitVLdStIOffset, Src
      <3> QED BY <3>1, <3>2
    <2>5. CASE ins.row.tcb \notin {"emitVLdICB", "emitVStICB"}
      <3>1. emitVLdStIOffset = <<>>
        BY <2>1, <2>5 DEF emitVLdStIOffset
      <3> QED BY <2>3, <3>1
    <2> QED BY <2>4, <2>5, SMT
  <1>2. CASE ins.row.tcb \in LoadCBs
    <2>1. MemoryRow(ins.row) /\ ins.row.end # "endVRedCB" /\ ins.row.tcb \notin StoreCBs
      <3>1. RowClass(ins.row)
        BY DEF AtElement
      <3>2. MemoryRow(ins.row)
        BY <1>2, <3>1 DEF RowClass, PlainRow, MoveRow, ReduceRow, MaskRow, CompressRow, ScalarRow, PlainCBs, LoadCBs
      <3> QED BY <1>2, <3>2, SMT DEF MemoryRow, LoadCBs, StoreCBs
    <2>2. Accesses(n) = emitVLdInt(n)
      BY <1>2, SMT DEF Accesses, LoadCBs
    <2>3. Writes(vstart) = UNION {FieldBits(ins, env, f, vstart) : f \in 0..NF(ins)}
      BY <1>2, <2>1 DEF Writes
    <2>4. \A f \in 0..NF(ins) : FieldBits(ins, env, f, vstart) \subseteq Writes(vstart)
      BY <2>3
    <2>5. ins.row.tcb \in {"emitVLdICB", "emitVStICB"} => Untouched(ArgBits(ins, env, 2, vstart))
      <3>1. ins.row.tcb \in {"emitVLdICB", "emitVStICB"} => ~isWhole(ins)
        <4>1. ins.whole # "RV_WD_MV"
          BY <1>0, MorphFacts
        <4>2. ins.whole \in {"RV_WD_NA", "RV_WD_LD_ST", "RV_WD_MV"}
              /\ (ins.whole = "RV_WD_LD_ST" => ins.row.tcb \in {"emitVLdUCB", "emitVStUCB"})
          BY <1>0 DEF Decoded
        <4> QED BY <4>1, <4>2, SMT DEF isWhole
      <3> QED BY <1>2, <2>1, <3>1, LoadUntouched
    <2>6. Fine(emitVLdInt(n), Writes(vstart))
      <3>1. Fine([f \in 1..n |-> Wr(FieldBits(ins, env, f - 1, vstart))], Writes(vstart))
        BY <1>0, <2>4, FieldsWritten
      <3> QED BY <1>1, <1>2, <2>5, <3>1 DEF emitVLdInt
    <2>7. ASSUME n = 0 PROVE Fine(emitVLdInt(n), {})
      <3>1. [f \in 1..n |-> Wr(FieldBits(ins, env, f - 1, vstart))] = <<>>
        BY <2>7, SMT
      <3>2. Fine([f \in 1..n |-> Wr(FieldBits(ins, env, f - 1, vstart))], {})
        BY <3>1, FineNil
      <3> QED BY <1>1, <1>2, <2>5, <3>2 DEF emitVLdInt
    <2> QED BY <2>2, <2>6, <2>7
  <1>3. CASE ins.row.tcb \in StoreCBs
    <2>1. DOMAIN file = {}
      BY <1>3, NoneOverwritten
    <2>2. Accesses(n) = emitVStInt(n)
      BY <1>3, SMT DEF Accesses, StoreCBs
    <2>3. \A W : Fine(emitVStInt(n), W)
      <3>1. \A W : Fine([f \in 1..n |-> Rd(FieldBits(ins, env, f - 1, vstart))], W)
        BY <1>0, <2>1, FieldsRead
      <3>2. Untouched(ArgBits(ins, env, 2, vstart))
        BY <2>1, NothingWritten
      <3> QED BY <1>1, <1>3, <3>1, <3>2 DEF emitVStInt
    <2> QED BY <2>2, <2>3
  <1>4. CASE ins.row.tcb = "emitVAMOBinopRRR"
    <2> DEFINE A(a) == ArgBits(ins, env, a, vstart)
    <2>1. OnElements(ins)
      <3>1. ~PlainRow(ins.row) /\ ~ReduceRow(ins.row) /\ ~ScalarRow(ins.row)
            /\ ins.row.tcb \notin LoadCBs \cup StoreCBs
        BY <1>4, SMT DEF PlainRow, PlainCBs, ReduceRow, ScalarRow, LoadCBs, StoreCBs
      <3> QED BY <3>1, Kinds
    <2>2. vstart \in Nat /\ vstart < getVLMAXOp(ins, env)
      BY <2>1 DEF AtElement, OnElements
    <2>3. vstart <= vstart /\ 2 \in 0..3 /\ 3 \in 0..3
      BY <2>2, SMT
    <2>4. Untouched(A(2)) /\ Untouched(A(3))
      <3>1. ins.row.tcb \notin {"emitVCOMPRESSCB", "emitVMVSX", "emitVFMVSF"}
        BY <1>4, SMT
      <3> QED BY <2>1, <2>2, <2>3, <3>1, SourceUntouched
    <2>5. Writes(vstart) = A(0)
      BY <2>1, WritesElement
    <2>6. emitVLdStIOffset = <<Rd(A(2))>> /\ Src(3) = Rd(A(3)) /\ Dst = Wr(A(0))
      BY <1>4 DEF emitVLdStIOffset, Src, Dst
    <2>7. \A W : Fine(<<Rd(A(2))>>, W)
      BY <2>4, FineOne
    <2>8. Fine(<<Rd(A(2))>> \o <<Rd(A(3)), Wr(A(0))>>, A(0))
      <3>1. A(0) \subseteq A(0)
        BY SMT
      <3>2. Fine(<<Rd(A(3)), Wr(A(0))>>, A(0))
        BY <2>4, <3>1, FineReads
      <3> QED BY <2>4, <3>2, FinePrefix
    <2>9. Accesses(n) = IF n = 0 THEN emitVLdStIOffset ELSE emitVAMOCommonRRR
      BY <1>4, SMT DEF Accesses
    <2>10. Fine(emitVAMOCommonRRR, Writes(vstart))
      BY <2>5, <2>6, <2>8 DEF emitVAMOCommonRRR
    <2> QED BY <2>6, <2>7, <2>9, <2>10
  <1> QED BY <1>2, <1>3, <1>4, SMT DEF MemoryCBs, LoadCBs, StoreCBs

(* What is written depends on ins and env only. *)
LEMMA SameWrites ==
  ASSUME UNCHANGED <<ins, env>>
  PROVE  (\A j : Writes(j)' = Writes(j)) /\ zeroTail(ins, env)' = zeroTail(ins, env) /\ NF(ins)' = NF(ins)
  BY Zenon DEF Writes

LEMMA PutDomain ==
  ASSUME NEW at, NEW v
  PROVE  DOMAIN Put(at, v) = at \cup DOMAIN file
  BY DEF Put, Over

LEMMA PerformFine ==
  ASSUME AtElement, stale = {}, NEW accs, NEW v, NEW W, Fine(accs, W), Perform(accs, v)
  PROVE  stale' = {} /\ DOMAIN file' \subseteq W \cup DOMAIN file
  <1> USE Zenon
  <1>1. ~ReadsOverwritten(MaskRead \o accs)
    BY MaskClean DEF Fine
  <1>2. Written(accs) \subseteq W
    BY DEF Fine
  <1>3. stale' = stale /\ file' = Put(Written(accs), v)
    BY <1>1 DEF Perform
  <1> QED BY <1>2, <1>3, PutDomain

(* The loop goes on: element vstart is now one of those below. *)
LEMMA MoreOverwritten ==
  ASSUME UNCHANGED <<ins, env>>, vstart \in Nat, vstart' = vstart + 1,
         NEW j \in 0..vstart
  PROVE  Overwritten \cup Writes(j) \subseteq Overwritten'
  <1> USE Zenon
  <1>1. \A k : Writes(k)' = Writes(k)
    BY SameWrites
  <1>2. zeroTail(ins, env)' = zeroTail(ins, env)
    BY SameWrites
  <1>3. 0..(vstart' - 1) = 0..vstart /\ vstart \in 0..vstart /\ \A k \in 0..(vstart - 1) : k \in 0..vstart
    BY SMT
  <1>4. \A k \in 0..vstart : Writes(k) \subseteq Overwritten'
    BY <1>1, <1>3 DEF Overwritten
  <1>5. zeroTail(ins, env) \subseteq Overwritten'
    BY <1>2 DEF Overwritten
  <1>6. \A k \in 0..(vstart - 1) : Writes(k) \subseteq Overwritten'
    BY <1>3, <1>4
  <1>7. (UNION {Writes(k) : k \in 0..(vstart - 1)}) \subseteq Overwritten'
    BY <1>6
  <1>8. Writes(vstart) \subseteq Overwritten' /\ Writes(j) \subseteq Overwritten'
    BY <1>3, <1>4
  <1> DEFINE O == Overwritten'
  <1> HIDE DEF O
  <1>9. zeroTail(ins, env) \cup (UNION {Writes(k) : k \in 0..(vstart - 1)})
          \cup (IF NF(ins) > 0 THEN Writes(vstart) ELSE {}) \subseteq O
    BY <1>5, <1>7, <1>8 DEF O
  <1> QED BY <1>8, <1>9 DEF Overwritten, O

LEMMA SameOverwritten ==
  ASSUME UNCHANGED <<ins, env, vstart>>
  PROVE  Overwritten' = Overwritten
  <1>1. Writes(vstart)' = Writes(vstart) /\ zeroTail(ins, env)' = zeroTail(ins, env) /\ NF(ins)' = NF(ins)
    BY Zenon DEF Writes
  <1>2. \A k : Writes(k)' = Writes(k)
    BY SameWrites, Zenon
  <1>3. (UNION {Writes(k) : k \in 0..(vstart - 1)})' = UNION {Writes(k) : k \in 0..(vstart - 1)}
    BY <1>2
  <1>4. (IF NF(ins) > 0 THEN Writes(vstart) ELSE {})' = (IF NF(ins) > 0 THEN Writes(vstart) ELSE {})
    BY <1>1, Zenon
  <1> QED BY <1>1, <1>3, <1>4 DEF Overwritten

LEMMA SourceInit == Init => SourceInv
  BY Zenon DEF Init, SourceInv, InLoop

LEMMA EmitKeepsSource ==
  ASSUME LoopInv, SourceInv, pc \in {"idle", "trap"}, emitVectorOp
  PROVE  SourceInv'
  <1> USE Zenon
  <1>1. UNCHANGED <<ins, env, stale>> /\ stale = {} /\ vstart \in Nat
    BY DEF emitVectorOp, SourceInv, LoopInv
  <1>2. Setting(env) /\ Decoded(ins) /\ RowClass(ins.row)
    BY InstructionFacts DEF LoopInv
  <1>3. CASE pc' \in {"illegal", "done", "skip"}
    BY <1>1, <1>3, SMT DEF SourceInv, InLoop
  <1>4. CASE startVectorOp(ins, env, vl, vstart) /\ pc' \notin {"illegal", "done", "skip"}
    <2> DEFINE noCheck == ins.whole = "RV_WD_MV" \/ noVStartCheck(ins.shape)
               first == IF noCheck THEN 0 ELSE vstart
    <2>1. pc' = "loop" /\ vstart' = first /\ file' = Put(zeroTail(ins, env), Zero) /\ VTMP' = initCB(ins, first)
      BY <1>4 DEF startVectorOp
    <2>2. DOMAIN file' = zeroTail(ins, env) \cup DOMAIN file
      BY <2>1, PutDomain
    <2>3. first \in Nat
      BY <1>1, SMT
    <2> HIDE DEF first, noCheck
    <2>4. zeroTail(ins, env) \subseteq Overwritten' /\ zeroTail(ins, env)' = zeroTail(ins, env)
      BY <1>1, SameWrites DEF Overwritten
    <2>5. (ins.row.tcb = "emitVCOMPRESSCB" => VTMP \in 0..vstart)'
      <3>1. ASSUME ins.row.tcb = "emitVCOMPRESSCB" PROVE ins.row.init \notin {"initVMSFCB", "initVIOTACB"}
        BY <1>2, <3>1 DEF RowClass, MemoryRow, PlainRow, MoveRow, ReduceRow, MaskRow, CompressRow, ScalarRow,
                   PlainCBs, LoadCBs, StoreCBs
      <3>2. ins.row.tcb = "emitVCOMPRESSCB" => initCB(ins, first) = 0
        BY <3>1, SMT DEF initCB
      <3>3. 0 \in 0..first
        BY <2>3, SMT
      <3> QED BY <1>1, <2>1, <3>2, <3>3
    <2>6. DOMAIN file' \subseteq Overwritten'
          /\ (ins.row.morph = "emitScalarOp" => DOMAIN file' \subseteq zeroTail(ins, env))
      <3>1. CASE pc = "idle"
        <4>1. DOMAIN file = {}
          BY <3>1, SMT DEF SourceInv
        <4> QED BY <2>2, <2>4, <4>1
      <3>2. CASE pc = "trap"
        <4>1. ins.row.tcb \in MemoryCBs
          BY <3>2 DEF LoopInv
        <4>2. ins.row.morph = "emitVectorOp" /\ ~noCheck
          BY <1>2, <4>1, MorphFacts DEF noCheck
        <4>3. vstart' = vstart
          BY <2>1, <4>2 DEF first
        <4>4. Overwritten' = Overwritten
          BY <1>1, <4>3, SameOverwritten
        <4>5. ins.row.morph # "emitScalarOp"
          BY <4>2, SMT
        <4>6. DOMAIN file \subseteq Overwritten
          BY <3>2 DEF SourceInv, InLoop
        <4> QED BY <2>2, <2>4, <4>4, <4>5, <4>6
      <3> QED BY <3>1, <3>2, SMT
    <2>7. pc' # "idle"
      BY <2>1, SMT
    <2> QED BY <1>1, <2>4, <2>5, <2>6, <2>7 DEF SourceInv
  <1>5. startVectorOp(ins, env, vl, vstart) \/ pc' \in {"illegal", "done", "skip"}
    BY DEF emitVectorOp
  <1> QED BY <1>3, <1>4, <1>5

(* An element is done with: it has written what it was to write at most. *)
LEMMA ElementKeepsSource ==
  ASSUME LoopInv, CheckInv, SourceInv, pc = "loop", NEW accs, NEW v, NEW j \in 0..vstart, Fine(accs, Writes(j)),
         Perform(accs, v), endVectorLoop(vl), UNCHANGED <<ins, env>>,
         ins.row.tcb = "emitVCOMPRESSCB" => VTMP' \in {VTMP, VTMP + 1}
  PROVE  SourceInv'
  <1>1. AtElement /\ vstart \in Nat /\ stale = {}
    BY ElementKnown, Zenon DEF AtElement, SourceInv
  <1>2. stale' = {} /\ DOMAIN file' \subseteq Writes(j) \cup DOMAIN file
    BY <1>1, PerformFine, Zenon
  <1>3. pc' \in {"loop", "end"}
    BY Zenon DEF endVectorLoop
  <1>4. CASE pc' = "end"
    BY <1>2, <1>4 DEF SourceInv, InLoop
  <1>5. CASE pc' = "loop"
    <2>1. ins.row.morph = "emitVectorOp"
      BY <1>5 DEF endVectorLoop
    <2>2. ins.row.morph # "emitScalarOp"
      BY <2>1
    <2>3. vstart' = vstart + 1
      BY <2>2, Zenon DEF endVectorLoop
    <2>4. Overwritten \cup Writes(j) \subseteq Overwritten'
      BY <1>1, <2>3, MoreOverwritten, Zenon
    <2>5. DOMAIN file' \subseteq Overwritten'
      BY <1>1, <1>2, <2>4, Zenon DEF AtElement
    <2>6. (ins.row.tcb = "emitVCOMPRESSCB" => VTMP \in 0..vstart)'
      <3>1. ins.row.tcb = "emitVCOMPRESSCB" => VTMP \in 0..vstart
        BY <1>1, Zenon DEF AtElement
      <3> QED BY <1>1, <2>3, <3>1
    <2>7. pc' # "idle"
      BY <1>5
    <2> QED BY <1>2, <2>2, <2>5, <2>6, <2>7, Zenon DEF SourceInv
  <1> QED BY <1>3, <1>4, <1>5, SMTT(30)

LEMMA FaultKeepsSource ==
  ASSUME LoopInv, CheckInv, SourceInv, NEW f \in 0..NF(ins), MemoryFault(f)
  PROVE  SourceInv'
  <1> USE Zenon
  <1>1. /\ pc = "loop" /\ ins.row.tcb \in MemoryCBs /\ Perform(Accesses(f), vstart) /\ handleFF
        /\ UNCHANGED <<ins, env, VTMP>>
    BY DEF MemoryFault
  <1>2. AtElement /\ stale = {} /\ InLoop
    BY <1>1, ElementKnown DEF SourceInv, InLoop
  <1>3. NF(ins) \in Nat /\ Decoded(ins)
    BY <1>2, FieldCount DEF AtElement
  <1>4. f \in 0..(NF(ins) + 1) /\ (NF(ins) > 0 \/ f = 0)
    BY <1>3, SMT
  <1>5. ins.row.morph = "emitVectorOp" /\ ins.row.morph # "emitScalarOp"
    BY <1>1, <1>3, MorphFacts, SMT
  <1>6. stale' = {} /\ DOMAIN file' \subseteq Overwritten
    <2>1. DOMAIN file \subseteq Overwritten
      BY <1>2 DEF AtElement
    <2>2. CASE NF(ins) > 0
      <3>1. Fine(Accesses(f), Writes(vstart))
        BY <1>1, <1>2, <1>4, MemoryFine
      <3>2. stale' = {} /\ DOMAIN file' \subseteq Writes(vstart) \cup DOMAIN file
        BY <1>1, <1>2, <3>1, PerformFine
      <3>3. Writes(vstart) \subseteq Overwritten
        BY <2>2 DEF Overwritten
      <3> QED BY <2>1, <3>2, <3>3
    <2>3. CASE f = 0
      <3>1. Fine(Accesses(f), {})
        BY <1>1, <1>2, <1>4, <2>3, MemoryFine
      <3>2. stale' = {} /\ DOMAIN file' \subseteq {} \cup DOMAIN file
        BY <1>1, <1>2, <3>1, PerformFine
      <3> QED BY <2>1, <3>2
    <2> QED BY <1>4, <2>2, <2>3, SMT
  <1>7. CASE vFirstFault /\ vstart > 0
    <2>1. ~isWhole(ins)
      BY <1>3, <1>7, MorphFacts DEF LoopInv, FaultOnlyFirst
    <2>2. endVectorLoop(vstart) /\ Limit(ins, env, vstart) = vstart
      BY <1>1, <1>7, <2>1 DEF handleFF, Limit
    <2>3. pc' = "end"
      <3>1. vstart \in Nat
        BY <1>2 DEF AtElement
      <3>2. ~(vstart' < vstart)
        BY <3>1, <2>2, SMT DEF endVectorLoop
      <3> QED BY <2>2, <3>2, <1>1 DEF endVectorLoop
    <2> QED BY <1>6, <2>3, SMT DEF SourceInv, InLoop
  <1>8. CASE ~(vFirstFault /\ vstart > 0)
    <2>1. pc' = "trap" /\ vstart' = vstart
      BY <1>1, <1>8 DEF handleFF
    <2>2. Overwritten' = Overwritten
      BY <1>1, <2>1, SameOverwritten
    <2>3. ins.row.tcb # "emitVCOMPRESSCB" /\ pc' # "idle"
      BY <1>1, <2>1, SMTT(30) DEF MemoryCBs
    <2> QED BY <1>1, <1>5, <1>6, <2>2, <2>3 DEF SourceInv
  <1> QED BY <1>7, <1>8, SMT

LEMMA UnchangedKeepsSource ==
  ASSUME SourceInv, UNCHANGED vars
  PROVE  SourceInv'
  <1>1. Overwritten' = Overwritten
    BY SameOverwritten, Zenon DEF vars
  <1> QED BY <1>1, Zenon DEF SourceInv, InLoop, vars

LEMMA SourceStep == LoopInv /\ CheckInv /\ SourceInv /\ [Next]_vars => SourceInv'
  <1> USE Zenon
  <1> SUFFICES ASSUME LoopInv, CheckInv, SourceInv, [Next]_vars PROVE SourceInv'
    BY SMT
  <1>0. vstart \in Nat
    BY DEF LoopInv
  <1>1. CASE Start \/ Restart
    BY <1>1, EmitKeepsSource DEF Start, Restart
  <1>2. CASE doPerElementOp
    <2> DEFINE j == IF ins.row.tcb = "emitVCOMPRESSCB" THEN VTMP ELSE vstart
    <2>1. /\ pc = "loop" /\ ins.row.tcb \notin MemoryCBs /\ UNCHANGED <<ins, env>> /\ endVectorLoop(vl)
          /\ Perform(Effect.accs, Effect.value) /\ VTMP' = Effect.tmp
      BY <1>2 DEF doPerElementOp, Effect
    <2>2. AtElement
      BY <2>1, ElementKnown
    <2>3. Fine(Effect.accs, Writes(j)) /\ (ins.row.tcb = "emitVCOMPRESSCB" => Effect.tmp \in {VTMP, VTMP + 1})
      BY <2>1, <2>2, ElementFine DEF Target
    <2>4. j \in 0..vstart
      <3>1. vstart \in 0..vstart
        BY <1>0, SMT
      <3> QED BY <2>2, <3>1 DEF AtElement
    <2> HIDE DEF j
    <2> QED BY <2>1, <2>3, <2>4, ElementKeepsSource
  <1>3. CASE MemoryElement
    <2> DEFINE accs == IF Selected THEN Accesses(NF(ins) + 1) ELSE <<>>
    <2>1. /\ pc = "loop" /\ ins.row.tcb \in MemoryCBs /\ UNCHANGED <<ins, env, VTMP>> /\ endVectorLoop(vl)
          /\ Perform(accs, vstart)
      BY <1>3 DEF MemoryElement
    <2>2. AtElement
      BY <2>1, ElementKnown
    <2>3. NF(ins) \in Nat
      BY <2>2, FieldCount DEF AtElement
    <2>4. NF(ins) + 1 \in 0..(NF(ins) + 1) /\ vstart \in 0..vstart
      BY <1>0, <2>3, SMT
    <2>5. Fine(accs, Writes(vstart))
      BY <2>1, <2>2, <2>4, MemoryFine, FineNil
    <2>6. ins.row.tcb = "emitVCOMPRESSCB" => VTMP' \in {VTMP, VTMP + 1}
      BY <2>1
    <2> HIDE DEF accs
    <2> QED BY <2>1, <2>4, <2>5, <2>6, ElementKeepsSource
  <1>4. ASSUME NEW f \in 0..NF(ins), MemoryFault(f) PROVE SourceInv'
    BY <1>4, FaultKeepsSource
  <1>5. CASE endVectorOp
    <2>1. pc' = "done" /\ stale' = stale
      BY <1>5 DEF endVectorOp
    <2> QED BY <2>1, SMT DEF SourceInv, InLoop
  <1>6. CASE Done \/ UNCHANGED vars
    BY <1>6, UnchangedKeepsSource DEF Done
  <1> QED BY <1>1, <1>2, <1>3, <1>4, <1>5, <1>6 DEF Next

LEMMA SourceInvariant == Spec => []SourceInv
  <1>1. Init => SourceInv
    BY SourceInit
  <1>2. LoopInv /\ CheckInv /\ SourceInv /\ [Next]_vars => SourceInv'
    BY SourceStep
  <1> QED BY <1>1, <1>2, LoopInvariant, CheckInvariant, PTL DEF Spec

(* No element reads a register location that an earlier element, or an     *)
(* earlier field or try of the same element, has overwritten, whatever the *)
(* registers, widths and striping: what the checks of validateNoOverlap    *)
(* and emitVMVRCheckCB let through, the order of the element loop makes    *)
(* safe, faults and restarts included.                                     *)
THEOREM SourcesNotOverwritten == Spec => []SourcesIntact
  <1>1. SourceInv => SourcesIntact
    BY Zenon DEF SourceInv, SourcesIntact
  <1> QED BY <1>1, SourceInvariant, PTL

=============================================================================
