--------------------------- MODULE MCUpdateMode ---------------------------
(* UpdateMode with a folder of two files, which no definition tells apart. *)
EXTENDS UpdateMode, TLC

CONSTANTS f, g

MCFiles    == {f, g}
FilesAlike == Permutations(MCFiles)
=============================================================================
