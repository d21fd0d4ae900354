------------------------------ MODULE MCCommands ------------------------------
(* A device, and analyses that advise twice the same, and once neither on nor off. *)
EXTENDS Commands, TLC

CONSTANTS ac, i1, i2, a1, a2, t1, t2

MCDevices == {ac}
MCResults == {{<<ac, "reduce">>, <<ac, "turn_off">>, <<ac, "wait">>}}
MCSlots == {t1, t2}
MCIds == {i1, i2}
MCAnalyses == {a1, a2}
MCReaders == {t2}
Symmetry == Permutations(MCIds) \union Permutations(MCAnalyses)
=============================================================================
