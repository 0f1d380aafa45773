--------------------------------- MODULE MCBoot ---------------------------------
(***************************************************************************)
(* An instance of Boot for TLC.                                            *)
(***************************************************************************)
EXTENDS Boot, TLC

CONSTANTS Shell1, Level1, Level2

MCShells == {Shell1}
NoShells == {}

MCLevels == {Level1, Level2}
LevelSymmetry == Permutations(MCLevels)
=============================================================================
