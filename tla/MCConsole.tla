------------------------------ MODULE MCConsole ------------------------------
(* Small instances of Console for TLC.                                       *)
EXTENDS Console, TLC

CONSTANTS o1, o2, s1, s2

Everything == AllCommands
AllTabs == Tabs

Symmetry == Permutations({o1, o2}) \cup Permutations({s1, s2})
=============================================================================
