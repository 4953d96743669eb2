---------------------------- MODULE MCThunkScripts ----------------------------
(* Two modules of the script's list whose names start alike, in its order;   *)
(* a name of one letter; texts of that letter and of four bytes that matter  *)
(* to the script, one of them above the letter, as the table has one.        *)
EXTENDS ThunkScripts

CONSTANTS mf, mfplat, func

MCModule      == {mf, mfplat}
MCDllNameList == <<mf, mfplat>>
MCPrefix      == {<<mf, mfplat>>}

MCBlank     == 2
MCOpen      == 3
MCClose     == 4
Letter      == 5
MCSemicolon == 6

MCByte   == {MCBlank, MCOpen, MCClose, Letter, MCSemicolon}
MCBytes  == func :> <<Letter>>
MCBlanks == {MCBlank}
MCTable  == MCByte \ {Letter}

\* Nothing tells one file from another.
Symmetry == Permutations(File)
===============================================================================
