----------------------------- MODULE MCKeyboard -----------------------------
(***************************************************************************)
(* A ring of three places, which two keys fill; enough presses to go round *)
(* it; a key with a character and one without; two shift keys, which share *)
(* one modifier state, as every pair of modifier keys does.                *)
(***************************************************************************)
EXTENDS Keyboard

MCModKeys == {"lshift", "rshift"}
MCModOf == [m \in MCModKeys |-> "shift"]
=============================================================================
