------------------------------ MODULE MCFat32 -------------------------------
(***************************************************************************)
(* A volume small enough to fill: the root cluster and two more, two       *)
(* directory slots, two FAT copies, and bodies of no, one and two blocks.  *)
(***************************************************************************)
EXTENDS Fat32Store, TLC

CONSTANTS a, b, p, q

MCBlocks == {p, q}
MCContents == {<< >>, <<p>>, <<q, p>>}
MCSymmetry == Permutations(Names)
=============================================================================
