-------------------------------- MODULE MCFP ---------------------------------
(***************************************************************************)
(* Instances of FPBlock: the vector versions that treat FS and VS          *)
(* differently, each mode of making them dirty, and the ways the D and F   *)
(* bits of misa may be writable.                                           *)
(***************************************************************************)
EXTENDS FPBlock

Configured(v, m, o) ==
  [version |-> v, arch |-> {"C", "D", "F", "V"}, archMask |-> m, mode |-> o, d_requires_f |-> TRUE]

MCConfigurations ==
  {Configured(RVVV_0_7_1, {}, "write_1"),
   Configured(RVVV_0_8, {"D"}, "write_1"),
   Configured(RVVV_0_8, {}, "write_any"),
   Configured(RVVV_MASTER, {"D", "F"}, "write_1"),
   Configured(RVVV_MASTER, {"C", "F"}, "write_any"),
   Configured(RVVV_MASTER, {}, "always_dirty")}

ClaimConfigurations == {Configured(RVVV_MASTER, {}, "write_any")}

=============================================================================
