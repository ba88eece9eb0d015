----------------------------- MODULE MCGenerated -----------------------------
(***************************************************************************)
(* Three questions about generated code, asked by one run: what the        *)
(* translation of a block takes for granted about the vector               *)
(* configuration (VectorBlock) and about the floating point state          *)
(* (FPBlock), and what one instruction's operations compute (Emitted).     *)
(* They share no state: a behaviour is of one of the three, and leaves the *)
(* state of the others as it started.                                      *)
(***************************************************************************)
EXTENDS VectorBlock, MCFP, Emitted

VARIABLE part   \* the component this behaviour is of

VBIdle == VBInit /\ version = CHOOSE v \in RunVersions : TRUE
FPIdle == FPInit /\ conf = CHOOSE c \in Configurations : TRUE
EmittedIdle == ins = [kind |-> "none"] /\ from = [x |-> <<>>] /\ done = FALSE /\ to = from

GeneratedInit ==
  \/ part = "VectorBlock" /\ VBInit /\ FPIdle /\ EmittedIdle
  \/ part = "FPBlock"     /\ VBIdle /\ FPInit /\ EmittedIdle
  \/ part = "Emitted"     /\ VBIdle /\ FPIdle /\ Init

GeneratedNext ==
  \/ part = "VectorBlock" /\ VBNext /\ UNCHANGED <<fpVars, vars, part>>
  \/ part = "FPBlock"     /\ FPNext /\ UNCHANGED <<vbVars, vars, part>>
  \/ part = "Emitted"     /\ Next   /\ UNCHANGED <<vbVars, fpVars, part>>

GeneratedSpec == GeneratedInit /\ [][GeneratedNext]_<<vbVars, fpVars, vars, part>>

=============================================================================
