---------------------------- MODULE MCLogStream ----------------------------
(* Model values and symmetry for checking LogStream.                       *)
EXTENDS LogStream, TLC

CONSTANTS t1, t2

MCTexts == {t1, t2}
Symmetry == Permutations(MCTexts)
=============================================================================
