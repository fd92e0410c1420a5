------------------------------- MODULE MCWasm -------------------------------
(***************************************************************************)
(* Every valid function body of up to MaxLength instructions over a small  *)
(* alphabet and some longer ones, with a few second functions to call: one *)
(* that returns through a branch past its outermost block, one that calls  *)
(* itself, and one that loads, stores and grows the memory.                *)
(*                                                                         *)
(* A word has Word = 8 values and a page 2 bytes; the buffer holds 2 pages *)
(* and the module declares 1.                                              *)
(***************************************************************************)
EXTENDS WasmValid, TLC

CONSTANTS
  MaxLength,     \* bound: instructions in a body
  MaxStraight    \* bound: ... those that are not control

Const(vs) == [op |-> "plain", arg |-> [pops |-> 0, out |-> {<<v>> : v \in vs}, traps |-> FALSE]]
Drop == [op |-> "plain", arg |-> [pops |-> 1, out |-> {<< >>}, traps |-> FALSE]]
Divide == [op |-> "plain", arg |-> [pops |-> 2, out |-> {<<1>>}, traps |-> TRUE]]
I(op, arg) == [op |-> op, arg |-> arg]

Alphabet ==
  <<I("block", 0), I("block", 1), I("loop", 1), I("if", 0), I("if", 1),
    I("else", 0), I("end", 0), I("br", 0), I("br", 1), I("br_if", 0), I("br_if", 1),
    I("br_table", <<0, 1>>), I("return", 0), I("call", 2),
    I("set", 1), I("get", 1), Const({0, 1}), Drop>>

(* Validation as the WebAssembly specification has it: the height of the   *)
(* operand stack at every instruction, from the one before.  A state holds *)
(* the code so far, the open blocks, the height, and whether the place is  *)
(* unreachable.                                                            *)
Start(results) ==
  [code |-> << >>, open |-> <<[op |-> "function", arity |-> results, base |-> 0]>>,
   height |-> 0, dead |-> FALSE]

Block(v) == Last(v.open)
Takes(v, l) ==
  LET b == v.open[Len(v.open) - l] IN IF b.op = "loop" THEN 0 ELSE b.arity
Has(v, n) == v.dead \/ v.height >= Block(v).base + n
Moved(v, pops, pushes) ==
  IF v.dead THEN v.height ELSE v.height - pops + pushes
Jumps(v, l) == l < Len(v.open) /\ Has(v, Takes(v, l))

Plainly(v, i, pops, pushes) ==
  IF Has(v, pops)
    THEN {[v EXCEPT !.height = Moved(v, pops, pushes)]} ELSE {}
Away(v, i) == [v EXCEPT !.height = Block(v).base, !.dead = TRUE]
Finished(v) == v.dead \/ v.height = Block(v).base + Block(v).arity

(* The states one instruction later. *)
Followed(v, i) ==
  CASE i.op \in Openers ->
         LET n == IF i.op = "if" THEN 1 ELSE 0
             h == Moved(v, n, 0)
         IN  IF Has(v, n)
               THEN {[v EXCEPT !.height = h,
                        !.open = Append(@, [op |-> i.op, arity |-> i.arg, base |-> h])]}
               ELSE {}
    [] i.op = "else" ->
         IF Block(v).op = "if" /\ Finished(v)
           THEN {[v EXCEPT !.height = Block(v).base, !.dead = FALSE,
                    !.open[Len(v.open)].op = "else"]}
           ELSE {}
    [] i.op = "end" ->
         IF Finished(v) /\ (Block(v).op = "if" => Block(v).arity = 0)
           THEN {[v EXCEPT !.open = Front(@), !.dead = FALSE,
                    !.height = Block(v).base + Block(v).arity]}
           ELSE {}
    [] i.op = "br" -> IF Jumps(v, i.arg) THEN {Away(v, i)} ELSE {}
    [] i.op = "br_if" ->
         LET w == [v EXCEPT !.height = Moved(v, 1, 0)]
         IN  IF Has(v, 1) /\ Jumps(w, i.arg) THEN {w} ELSE {}
    [] i.op = "br_table" ->
         LET w == [v EXCEPT !.height = Moved(v, 1, 0)]
         IN  IF /\ Has(v, 1) /\ \A k \in 1 .. Len(i.arg) : Jumps(w, i.arg[k])
                /\ \A j, k \in 1 .. Len(i.arg) : Takes(w, i.arg[j]) = Takes(w, i.arg[k])
               THEN {Away(v, i)} ELSE {}
    [] i.op = "unreachable" -> {Away(v, i)}
    [] i.op = "return" -> IF Has(v, v.open[1].arity) THEN {Away(v, i)} ELSE {}
    [] i.op = "call" -> Plainly(v, i, 1, 1)
    [] i.op = "set" -> Plainly(v, i, 1, 0)
    [] i.op = "tee" -> Plainly(v, i, 1, 1)
    [] i.op = "get" -> Plainly(v, i, 0, 1)
    [] i.op \in {"load", "grow"} -> Plainly(v, i, 1, 1)
    [] i.op = "store" -> Plainly(v, i, 2, 0)
    [] i.op = "plain" ->
         Plainly(v, i, i.arg.pops, IF i.arg.out = {<< >>} THEN 0 ELSE 1)

Whole(v) == v.open = << >>
(* No further than the length allows: each open block still needs its end. *)
Straight(v) ==
  Cardinality({p \in 1 .. Len(v.code) : Alphabet[v.code[p]].op \in {"plain", "set", "get", "call"}})
Fits(v) == Len(v.code) + Len(v.open) <= MaxLength /\ Straight(v) <= MaxStraight

(* Nothing is written behind a branch but the end of its block. *)
Live(v, i) == v.dead => i.op \in {"else", "end"}

(* The code is kept as places in the alphabet. *)
Extended(v, k) ==
  {[w EXCEPT !.code = Append(@, k)] :
     w \in IF Live(v, Alphabet[k]) THEN Followed(v, Alphabet[k]) ELSE {}}

Partial[n \in 0 .. MaxLength] ==
  IF n = 0 THEN {Start(1)}
  ELSE UNION {{w \in Extended(v, k) : Fits(w)} :
         v \in {u \in Partial[n - 1] : ~Whole(u)}, k \in 1 .. Len(Alphabet)}

Bodies ==
  {[p \in 1 .. Len(v.code) |-> Alphabet[v.code[p]]] :
     v \in {u \in UNION {Partial[n] : n \in 0 .. MaxLength} : Whole(u)}}

Caller(body) == [body |-> body, params |-> 0, results |-> 1, locals |-> 1]
Callee(body) == [body |-> body, params |-> 1, results |-> 1, locals |-> 1]

Returning == Callee(<<Const({0}), I("block", 0), I("get", 1), Const({1}), I("set", 2),
                      I("br", 1), I("end", 0), I("end", 0)>>)
Recursive == Callee(<<I("get", 1), Const({1}), I("call", 2), Divide, I("end", 0)>>)
Remembering ==
  Callee(<<Const({1, 3, 7}), I("grow", 0), I("tee", 2), Const({0, 3}),
           I("store", [offset |-> 7, size |-> 1]),
           I("get", 1), I("load", [offset |-> 0, size |-> 2]), I("end", 0)>>)

(* Longer ones, as compilers emit them: a loop left from inside an `if`, an *)
(* `if` with a result in both arms, branches that carry a value over other *)
(* operands or skip a nest of `if`s, a table that leaves one of three      *)
(* blocks.                                                                 *)
Fin == I("end", 0)
Exit(l) == I("br", l)
Exiting ==
  <<I("block", 0), I("loop", 0), Const({0, 1}), I("set", 1), I("get", 1), I("if", 0), Exit(2), Fin,
    I("get", 1), I("call", 2), Drop, Exit(0), Fin, Fin, I("get", 1), Fin>>
TwoArms ==
  <<Const({1}), I("block", 1), Const({0, 1}), I("if", 1), Const({1}), I("block", 0), Exit(0), Fin,
    I("else", 0), Const({0}), Const({0, 1}), I("br_if", 1), Drop, Const({2}), Fin, Fin,
    Divide, Fin>>
Carrying ==
  <<Const({1}), Const({0}), I("block", 1), Const({1}), I("block", 1), Const({1}), Const({0, 1}),
    I("br_if", 0), Const({0, 1}), I("br_if", 1), Drop, Const({2}), Exit(1), Fin, Divide, Fin, I("set", 1), Drop, Drop,
    I("get", 1), I("call", 2), Fin>>
Table ==
  <<I("block", 0), I("block", 0), I("block", 0), Const({0, 1, 2, 7}), I("br_table", <<0, 2, 1>>), Fin,
    Const({0}), I("return", 0), Fin, Const({1}), Exit(1), Fin, Const({2}), Fin>>
Skipping ==
  <<I("block", 0), Const({0, 1}), I("br_if", 0), Const({0, 1}), I("if", 0), Const({0, 1}),
    I("if", 0), Exit(2), I("else", 0), Const({1}), I("set", 1), Fin, I("else", 0), Const({1}),
    I("if", 0), Const({2}), I("set", 1), Fin, Fin, I("loop", 0), Fin, Fin, I("get", 1), Fin>>
Refusing == <<Const({0, 1}), I("if", 0), I("unreachable", 0), Fin, Const({1}), Fin>>
Deep == <<I("block", 0), I("loop", 0), I("block", 0), I("block", 0), Fin, Fin, Fin, Fin, Const({1}), Fin>>
Longer == {Deep, Skipping, Refusing, Exiting, TwoArms, Carrying, Table}

(* The one way to read a body, instruction by instruction. *)
Read(body) ==
  LET v[p \in 1 .. Len(body)] ==
        IF p = 1 THEN Start(1) ELSE CHOOSE w \in Followed(v[p - 1], body[p - 1]) : TRUE
  IN  v
MCTyped(body) ==
  LET v == Read(body)
      begins(p, j) == CHOOSE q \in 2 .. p :
        /\ Opens(body, q - 1) /\ Len(v[q].open) = j
        /\ \A r \in q + 1 .. p : Opens(body, r - 1) => Len(v[r].open) # j
      block(p, j) == v[p].open[j] @@ [at |-> begins(p, j)]
  IN  [p \in 1 .. Len(body) |->
         [height |-> IF v[p].dead THEN Block(v[p]).base + Block(v[p]).arity ELSE v[p].height,
          open |-> Tail([j \in 1 .. Len(v[p].open) |->
                     IF j = 1 THEN v[p].open[1] ELSE block(p, j)])]]

Calls(body) == \E p \in 1 .. Len(body) : body[p].op = "call"
MCPrograms ==
  {<<Caller(b), Returning>> : b \in {c \in Bodies \cup Longer : ~Calls(c)}}
    \cup {<<Caller(b), f>> : b \in {c \in Bodies \cup Longer : Calls(c)}, f \in {Returning, Recursive, Remembering}}
=============================================================================
