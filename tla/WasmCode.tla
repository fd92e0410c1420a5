------------------------------ MODULE WasmCode ------------------------------
(***************************************************************************)
(* Function bodies of a WebAssembly module, as sequences of instructions,  *)
(* and what the binary format says of their structure: which `end` closes  *)
(* a block and which blocks enclose a position.  The interpreter of        *)
(* wasm/wasm.c has none of this; it finds its way by scanning.             *)
(*                                                                         *)
(* An instruction is a record [op, arg].  arg is the number of results of  *)
(* a block, the levels of a branch, the index of a function or a local.    *)
(* An instruction that only moves operands is "plain": arg.pops values are *)
(* replaced by one of the sequences in arg.out.                            *)
(***************************************************************************)
EXTENDS Integers, Sequences, FiniteSets, SequencesExt

Openers == {"block", "loop", "if"}
Opens(body, p) == body[p].op \in Openers
Closes(body, p) == body[p].op = "end"

(* How many blocks are open before position p. *)
Nest(body, p) ==
  Cardinality({q \in 1 .. p - 1 : Opens(body, q)})
    - Cardinality({q \in 1 .. p - 1 : Closes(body, q)})

(* The `end` of the block opened at p, and the `else` of the `if` at p. *)
EndOf(body, p) ==
  CHOOSE q \in p + 1 .. Len(body) :
    /\ Closes(body, q) /\ Nest(body, q) = Nest(body, p) + 1
    /\ \A r \in p + 1 .. q : Nest(body, r) > Nest(body, p)

ElseOf(body, p) ==
  {q \in p + 1 .. EndOf(body, p) :
     body[q].op = "else" /\ Nest(body, q) = Nest(body, p) + 1}

(* The blocks around position p, and the one a branch of l levels leaves. *)
Enclosing(body, p) == {q \in 1 .. p - 1 : Opens(body, q) /\ EndOf(body, q) >= p}
Around(body, p, l) ==
  CHOOSE q \in Enclosing(body, p) :
    Cardinality({r \in Enclosing(body, p) : r > q}) = l

(* Values carried by a branch to the block opened at q. *)
LabelArity(body, q) == IF body[q].op = "loop" THEN 0 ELSE body[q].arg


(* The last k values of an operand sequence, and the others. *)
LastOf(s, k) == SubSeq(s, Len(s) - k + 1, Len(s))
Without(s, k) == SubSeq(s, 1, Len(s) - k)
=============================================================================
