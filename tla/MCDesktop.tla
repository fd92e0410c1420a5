----------------------------- MODULE MCDesktop ------------------------------
(***************************************************************************)
(* Five windows: the front one, two more that are visible, one minimised   *)
(* and one closed are then a state.                                        *)
(***************************************************************************)
EXTENDS Desktop, TLC

CONSTANTS edit, wasm, about, gallery

MCSymmetry == Permutations(Windows \ {Files})
=============================================================================
