------------------------------ MODULE MCDecode ------------------------------
(***************************************************************************)
(* The instance of Decode that TLC checks: RV32, and RV64 with every       *)
(* version of the vector extension.  A word to decode is any halfword, or  *)
(* a corner of a pattern: each field has the least or greatest value it    *)
(* can have.                                                               *)
(***************************************************************************)
EXTENDS Decode

Hart(x, v) == [xlen |-> x, version |-> v, arch |-> {"A", "C", "D", "F", "M", "N", "V"}]

AllHarts == {Hart("32", RVVV_MASTER)} \cup {Hart("64", v) : v \in Versions}

Halfwords == {<<x, 0>> : x \in {y \in 0..65535 : y % 4 # 3}}

Corners(in) ==
  LET e(i) == {Min(in[i]), Max(in[i])}
  IN  {Word(f[1], f[2], f[3], f[4], f[5], f[6]) :
         f \in e(1) \X e(2) \X e(3) \X e(4) \X e(5) \X e(6)}

(* The opcodes with vector patterns. *)
Vector == UNION {OP_V, LOAD_FP, STORE_FP, AMO}

(* Halfwords and scalar patterns do not depend on the version. *)
AllProbes(h) ==
  {Corners(r.in) : r \in {r \in createDecodeTable32(h.version) :
                            h.version = RVVV_MASTER \/ r.in[6] \cap Vector # {}}}
    \cup (IF h.version = RVVV_MASTER THEN {Halfwords} ELSE {})

=============================================================================
