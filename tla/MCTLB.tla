------------------------------- MODULE MCTLB -------------------------------
(* Page table entries and tables for model checking TLB.                   *)
EXTENDS TLB

Leaf(ppn, priv, u, g, a, d) ==
  [V |-> TRUE, priv |-> priv, U |-> u, G |-> g, A |-> a, D |-> d, PPN |-> ppn]

MCNoPTE == [V |-> FALSE, priv |-> {}, U |-> FALSE, G |-> FALSE, A |-> FALSE, D |-> FALSE,
            PPN |-> 0]

MCPointer(ppn) == [MCNoPTE EXCEPT !.V = TRUE, !.PPN = ppn]

(* Sv32: a page of two, writable and not yet dirty; in their place a       *)
(* pointer to two pages, one of them global.                               *)
MCRoot32 == {MCPointer(1), Leaf(2, {"R", "W"}, FALSE, FALSE, TRUE, FALSE)}
MCPage0  == Leaf(4, {"R", "W"}, FALSE, TRUE, TRUE, TRUE)
MCPage1  == Leaf(5, {"R", "W"}, FALSE, FALSE, TRUE, TRUE)
MCPTEs32 == MCRoot32 \cup {MCNoPTE, MCPage0, MCPage1}

MCWrites32 == {<<0, 0>>} \X MCRoot32

MCMem32 == [a \in {0, 1} \X {0, 1} |-> CASE a = <<1, 0>> -> MCPage0
                                         [] a = <<1, 1>> -> MCPage1
                                         [] OTHER -> MCNoPTE]

(* Sv39 and Sv48, with tables that cannot be written: no entry; a pointer; *)
(* user pages of which MXR and SUM decide the use, one not dirty.          *)
MCPTEs64 == {MCNoPTE, MCPointer(0),
             Leaf(0, {"R", "W"}, TRUE, FALSE, TRUE, TRUE),
             Leaf(0, {"X"}, TRUE, FALSE, TRUE, FALSE)}

MCWrites64 == {<<0, 0>>, <<0, 1>>} \X MCPTEs64

MCMem64 == [a \in {0} \X {0, 1} |-> MCNoPTE]

MCStatus == {[MXR |-> FALSE, SUM |-> FALSE]}
MCStatuses == [MXR : BOOLEAN, SUM : BOOLEAN]
=============================================================================
