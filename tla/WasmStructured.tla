--------------------------- MODULE WasmStructured ---------------------------
(***************************************************************************)
(* What running a WebAssembly function means, in terms of its blocks: a    *)
(* call has one sequence of operands for its body and one for every block  *)
(* around the instruction it is at.  An instruction uses the innermost one *)
(* alone; a branch or an `end` drops whole blocks and hands on exactly the *)
(* results of the block it goes to.  A run may trap at any instruction,    *)
(* for want of room too.                                                   *)
(***************************************************************************)
EXTENDS WasmCode

CONSTANT Words      \* the 32-bit values

VARIABLES
  prog,      \* the module: a sequence of functions, the first one exported
  frames,    \* the calls under way, the innermost last
  reply      \* how the last run ended

structVars == <<prog, frames, reply>>

Top == Last(frames)
Fn == prog[Top.fn]
Instr == Fn.body[Top.pc]
Inner == Last(Top.vals)
Running == frames # << >>

Stepped(pc, vals) ==
  /\ frames' = [frames EXCEPT ![Len(frames)].pc = pc, ![Len(frames)].vals = vals]
  /\ UNCHANGED reply

(* The innermost operands become ops; the next instruction follows. *)
Operands(ops) == Stepped(Top.pc + 1, Append(Front(Top.vals), ops))

(* A block begins, with ops left to the block around it. *)
Enter(pc, ops) == Stepped(pc, Front(Top.vals) \o <<ops, << >> >>)

(* The blocks from the n-th on end; their results go to the one before. *)
Fold(n, results) ==
  Append(SubSeq(Top.vals, 1, n - 2), Top.vals[n - 1] \o results)

(* The call ends. *)
Leave(ops) ==
  LET results == LastOf(ops, Fn.results)
      caller == Last(Front(frames))
  IN  IF Len(frames) = 1
        THEN frames' = << >> /\ reply' = "ok"
        ELSE /\ frames' = Append(Front(Front(frames)),
                  [caller EXCEPT !.vals = Append(Front(@), Last(@) \o results)])
             /\ UNCHANGED reply

Jump(l, ops) ==
  IF l >= Len(Top.vals) - 1 THEN Leave(ops)
  ELSE LET q == Around(Fn.body, Top.pc, l)
           n == Len(Top.vals) - l
           carried == LastOf(ops, LabelArity(Fn.body, q))
       IN  IF Fn.body[q].op = "loop"
             THEN Stepped(q + 1, Append(SubSeq(Top.vals, 1, n - 1), carried))
             ELSE Stepped(EndOf(Fn.body, q) + 1, Fold(n, carried))

----------------------------------------------------------------------------
StructInit == frames = << >> /\ reply = "none"

Begin ==
  /\ ~Running
  /\ frames' = <<[fn |-> 1, pc |-> 1, vals |-> << << >> >>,
                  locals |-> [i \in 1 .. prog[1].locals |-> 0]]>>
  /\ reply' = "none"

Block == Instr.op \in {"block", "loop"} /\ Enter(Top.pc + 1, Inner)

If ==
  /\ Instr.op = "if"
  /\ LET ops == Front(Inner)
         others == ElseOf(Fn.body, Top.pc)
     IN  IF Last(Inner) # 0 THEN Enter(Top.pc + 1, ops)
         ELSE IF others # {} THEN \E q \in others : Enter(q + 1, ops)
         ELSE Stepped(EndOf(Fn.body, Top.pc) + 1, Append(Front(Top.vals), ops))

(* A block ends where it closes; `else` closes the other arm. *)
Close ==
  /\ Instr.op \in {"else", "end"} /\ Len(Top.vals) > 1
  /\ Stepped(EndOf(Fn.body, Around(Fn.body, Top.pc, 0)) + 1, Fold(Len(Top.vals), Inner))

Branch ==
  \/ Instr.op = "br" /\ Jump(Instr.arg, Inner)
  \/ /\ Instr.op = "br_if"
     /\ IF Last(Inner) # 0 THEN Jump(Instr.arg, Front(Inner)) ELSE Operands(Front(Inner))
  \/ /\ Instr.op = "br_table"
     /\ LET n == Len(Instr.arg) - 1
        IN  Jump(Instr.arg[IF Last(Inner) < n THEN Last(Inner) + 1 ELSE n + 1], Front(Inner))

Return ==
  /\ Instr.op = "return" \/ (Instr.op = "end" /\ Len(Top.vals) = 1)
  /\ Leave(Inner)

Call ==
  /\ Instr.op = "call"
  /\ LET f == prog[Instr.arg]
         args == LastOf(Inner, f.params)
     IN  frames' = Append(
           [frames EXCEPT ![Len(frames)].pc = @ + 1,
                          ![Len(frames)].vals = Append(Front(@), Without(Inner, f.params))],
           [fn |-> Instr.arg, pc |-> 1, vals |-> << << >> >>,
            locals |-> args \o [i \in 1 .. f.locals |-> 0]])
  /\ UNCHANGED reply

Plain ==
  /\ Instr.op = "plain"
  /\ \E out \in Instr.arg.out : Operands(Without(Inner, Instr.arg.pops) \o out)

(* Loads leave some value, stores none; memory.grow the old size or -1. *)
Memory ==
  \/ Instr.op \in {"load", "grow"} /\ \E v \in Words : Operands(Append(Front(Inner), v))
  \/ Instr.op = "store" /\ Operands(Without(Inner, 2))

Local ==
  \/ Instr.op = "get" /\ Operands(Append(Inner, Top.locals[Instr.arg]))
  \/ /\ Instr.op \in {"set", "tee"}
     /\ frames' = [frames EXCEPT ![Len(frames)].pc = @ + 1,
                     ![Len(frames)].locals[Instr.arg] = Last(Inner),
                     ![Len(frames)].vals = IF Instr.op = "set" THEN Append(Front(@), Front(Inner)) ELSE @]
     /\ UNCHANGED reply

Trap == frames' = << >> /\ reply' = "trap"

StructNext ==
  /\ UNCHANGED prog
  /\ \/ Begin \/ Trap
     \/ Running /\ (\/ Block \/ If \/ Close \/ Branch \/ Return \/ Call
                    \/ Plain \/ Memory \/ Local)

StructSpec == StructInit /\ [][StructNext]_structVars
=============================================================================
