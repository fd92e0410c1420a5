------------------------------- MODULE MCEdit -------------------------------
(***************************************************************************)
(* Three characters of text with line ends, names of one and one, so that  *)
(* a typed base can be too long, a dot can come anywhere or twice and      *)
(* blanks can be all there is; files shorter and longer than the buffer.   *)
(***************************************************************************)
EXTENDS EditBuffer

MCUpper(c) == IF c = "a" THEN "A" ELSE c
MCEntries == {[packed |-> <<"A", "A">>, body |-> <<"nl", "a">>],
              [packed |-> <<" ", " ">>, body |-> <<"a", "nl", "a", "nl", "a">>]}
=============================================================================
