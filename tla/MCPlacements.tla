---------------------------- MODULE MCPlacements ----------------------------
(* Two folders, two store tasks beside a repair, and one placement that      *)
(* predates source_uid.                                                      *)
EXTENDS Placements, TLC

CONSTANTS f1, f2, a

MCFolders == {f1, f2}
MCContents == {a}
MCSourceUids == 1 .. 2
MCLegacy == {[folder |-> f1, uid |-> 1, msg |-> a, src |-> NoSource]}
MCLegacyNext == [f \in MCFolders |-> IF f = f1 THEN 2 ELSE 1]

Symmetry == Permutations(Tasks)
=============================================================================
