--------------------------- MODULE MCRotatingLog ---------------------------
(***************************************************************************)
(* RotatingLog: the settings of two logs.                                  *)
(***************************************************************************)
EXTENDS RotatingLog, TLC

CONSTANTS access, noFreq, w1, w2

\* access rotates over two files; the section of the other names a count and no frequency.
MCConfig == [l \in LogName |->
    IF l = access THEN [level |-> 0, rotacnt |-> 2, rotafreq |-> 2]
                  ELSE [level |-> 0, rotacnt |-> 1, rotafreq |-> 0]]

\* The writers do the same: which of them has done something makes no difference.
MCSymmetry == Permutations(Writer)
=============================================================================
