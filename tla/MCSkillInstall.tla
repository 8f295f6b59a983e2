--------------------------- MODULE MCSkillInstall ---------------------------
EXTENDS SkillInstall, TLC

MCFiles == 1 .. 3

MCVersions == {"v1", "v2"}

(* v2 rewrites file 1, drops file 2 and adds file 3.                       *)
MCShips == [v \in MCVersions |-> IF v = "v1" THEN {1, 2} ELSE {1, 3}]

MCRewrites == [v \in MCVersions |-> {1}]

Symmetry == Permutations(Callers)
=============================================================================
