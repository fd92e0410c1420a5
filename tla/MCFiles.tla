------------------------------ MODULE MCFiles -------------------------------
(***************************************************************************)
(* Three names in three slots, so that a deleted slot can come before,     *)
(* between or after two files; one short text and one too long to open.    *)
(***************************************************************************)
EXTENDS Files, TLC

CONSTANTS a, b, c, brief, lengthy

MCTexts == {Empty, brief, lengthy}
MCOpened(t) == IF t = lengthy THEN brief ELSE t
MCSymmetry == Permutations(Names)
=============================================================================
