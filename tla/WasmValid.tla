----------------------------- MODULE WasmValid ------------------------------
(***************************************************************************)
(* Valid code, as the WebAssembly specification's validation algorithm has *)
(* it and every compiler emits it: what WasmMachine relies on and wasm.c   *)
(* does not check.  Typed gives, before every instruction of a body, how   *)
(* many operands the call has and which blocks are open; the rest says     *)
(* that it is right.  Where code cannot be reached the height is any that  *)
(* suits what follows.                                                     *)
(***************************************************************************)
EXTENDS WasmMachine

CONSTANT Typed(_)     \* external: what validation finds in a body

Height(body, p) == Typed(body)[p].height
Open(body, p) == Typed(body)[p].open

(* An open block: its instruction ("else" in the second arm of an `if`),   *)
(* where it begins, what it leaves, and the operands below it.             *)
OpenBlocks(body) ==
  [op : {"block", "loop", "if", "else"}, at : 1 .. Len(body), arity : {0, 1}, base : Nat]

Floor(body, p) == IF Open(body, p) = << >> THEN 0 ELSE Last(Open(body, p)).base

(* An instruction may use the operands of the innermost block alone. *)
Enough(body, p, n) == Height(body, p) >= Floor(body, p) + n
Goes(body, p, n, m) ==
  /\ Enough(body, p, n)
  /\ Height(body, p + 1) = Height(body, p) - n + m

(* The values a branch of l levels takes along, from n operands above it.  *)
Carried(f, p, l) ==
  LET open == Open(f.body, p)
  IN  IF l = Len(open) THEN f.results
      ELSE IF open[Len(open) - l].op = "loop" THEN 0 ELSE open[Len(open) - l].arity
Branches(f, p, l, n) ==
  /\ l \in 0 .. Len(Open(f.body, p))
  /\ Enough(f.body, p, n + Carried(f, p, l))

(* How the open blocks change. *)
Begun(body, p) ==
  [op |-> body[p].op, at |-> p + 1, arity |-> body[p].arg, base |-> Height(body, p + 1)]
Other(body, p) == [Last(Open(body, p)) EXCEPT !.op = "else"]
NestsWell(body, p) ==
  /\ Opens(body, p) => Open(body, p + 1) = Append(Open(body, p), Begun(body, p))
  /\ body[p].op = "else" =>
       /\ Open(body, p) # << >> /\ Last(Open(body, p)).op = "if"
       /\ Open(body, p + 1) = Append(Front(Open(body, p)), Other(body, p))
  /\ Closes(body, p) /\ p < Len(body) =>
       /\ Open(body, p) # << >>
       /\ Open(body, p + 1) = Front(Open(body, p))
  /\ ~Opens(body, p) /\ ~Closes(body, p) /\ body[p].op # "else" =>
       Open(body, p + 1) = Open(body, p)

(* A block ends with its results and nothing else on top of what was there *)
(* before; an `if` without `else` leaves none.                             *)
EndsWell(f, p) ==
  LET body == f.body
      block == Last(Open(body, p))
  IN  /\ body[p].op = "else" =>
           /\ Height(body, p) = block.base + block.arity
           /\ Height(body, p + 1) = block.base
      /\ Closes(body, p) /\ p < Len(body) =>
           /\ Height(body, p) = block.base + block.arity
           /\ Height(body, p + 1) = Height(body, p)
           /\ block.op = "if" => block.arity = 0
      /\ p = Len(body) =>
           Closes(body, p) /\ Open(body, p) = << >> /\ Height(body, p) = f.results

(* Control instructions. *)
ControlChecked(pr, f, p) ==
  LET body == f.body
      i == body[p]
  IN  /\ i.op \in {"block", "loop"} => i.arg \in {0, 1} /\ Goes(body, p, 0, 0)
      /\ i.op = "if" => i.arg \in {0, 1} /\ Goes(body, p, 1, 0)
      /\ i.op = "br" => Branches(f, p, i.arg, 0)
      /\ i.op = "br_if" => Branches(f, p, i.arg, 1) /\ Goes(body, p, 1, 0)
      /\ i.op = "br_table" =>
           /\ i.arg \in Seq(Nat) /\ i.arg # << >> /\ Enough(body, p, 1)
           /\ \A k \in DOMAIN i.arg : Branches(f, p, i.arg[k], 1)
      /\ i.op = "return" => Enough(body, p, f.results)
      /\ i.op = "call" =>
           i.arg \in DOMAIN pr /\ Goes(body, p, pr[i.arg].params, pr[i.arg].results)

(* The others. *)
OperandsChecked(f, p) ==
  LET body == f.body
      i == body[p]
  IN  /\ i.op = "plain" =>
           /\ i.arg.pops \in Nat /\ i.arg.out \subseteq Seq(Words)
           /\ \A o \in i.arg.out : Goes(body, p, i.arg.pops, Len(o))
      /\ i.op \in {"get", "set", "tee"} => i.arg \in 1 .. f.params + f.locals
      /\ i.op = "get" => Goes(body, p, 0, 1)
      /\ i.op = "set" => Goes(body, p, 1, 0)
      /\ i.op = "tee" => Goes(body, p, 1, 1)
      /\ i.op \in {"load", "store"} => i.arg.offset \in Words /\ i.arg.size \in Words
      /\ i.op \in {"load", "grow"} => Goes(body, p, 1, 1)
      /\ i.op = "store" => Goes(body, p, 2, 0)

ValidFunction(pr, f) ==
  /\ f.params \in Nat /\ f.locals \in Nat /\ f.results \in {0, 1}
  /\ f.body \in Seq(Range(f.body)) /\ f.body # << >>
  /\ Typed(f.body) \in [1 .. Len(f.body) -> [height : Nat, open : Seq(OpenBlocks(f.body))]]
  /\ Open(f.body, 1) = << >> /\ Height(f.body, 1) = 0
  /\ \A p \in 1 .. Len(f.body) :
       /\ Enough(f.body, p, 0)
       /\ NestsWell(f.body, p) /\ EndsWell(f, p)
       /\ ControlChecked(pr, f, p) /\ OperandsChecked(f, p)

(* The first function is called from outside, with no argument. *)
ASSUME ValidAssumption ==
  \A pr \in Programs :
    /\ pr \in Seq(Range(pr)) /\ pr # << >> /\ pr[1].params = 0
    /\ \A k \in DOMAIN pr : ValidFunction(pr, pr[k])
=============================================================================
