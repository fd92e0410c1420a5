---------------------------- MODULE WasmMachine -----------------------------
(***************************************************************************)
(* The interpreter of wasm/wasm.c: wasm_call, do_call and run.  All calls  *)
(* share one operand stack, one pool of locals and one stack of labels; a  *)
(* call is a C activation of run that remembers where its part of each     *)
(* begins.  A branch looks for its target by scanning the code forward.    *)
(*                                                                         *)
(* The code is valid, as what a compiler emits is: wasm_load checks the    *)
(* module's sections and limits, not its types.  One step is one           *)
(* instruction.  Bytes, immediates and the arithmetic itself are left out. *)
(***************************************************************************)
EXTENDS WasmCode, WasmMemory

CONSTANTS
  Programs,    \* the modules that may be loaded
  Loads,       \* bound: what a load may find in memory
  StackSize,   \* WASM_STACK
  LocalsSize,  \* WASM_LOCALS
  CtrlSize,    \* WASM_CTRL
  Depth,       \* WASM_DEPTH
  StartPages   \* the pages the module declares

ASSUME LimitsAssumption ==
  /\ {StackSize, LocalsSize, CtrlSize} \subseteq Nat
  /\ Depth \in Nat \ {0}
  /\ StartPages \in Words /\ Loads \subseteq Words

VARIABLES
  prog,      \* the loaded module's functions
  stack,     \* the operand stack up to sp
  locals,    \* the pool of locals up to lp
  ctrl,      \* the label stack up to cp
  acts,      \* the activations of run, the innermost last
  reply      \* what the last wasm_call returned

machineVars == <<prog, stack, locals, ctrl, acts, reply>>
vars == <<machineVars, memVars>>

Act == Last(acts)
Fn == prog[Act.fn]
Instr == Fn.body[Act.pc]
Running == acts # << >>

(* The next instruction is one of ops, and neither module nor memory       *)
(* changes.                                                                *)
Runs(ops) == Running /\ Instr.op \in ops /\ UNCHANGED <<prog, memVars>>

(* A label of the running call, the innermost is 0; how many there are. *)
Label(l) == ctrl[Len(ctrl) - l]
Labels == Len(ctrl) - Act.ctrlBase

(* Mutant of BranchFrom: an `if` on the way is not counted. *)
BranchFromIfless(body, q, next) ==
  [depth \in 0 .. Len(body) |-> [left \in 0 .. Len(body) |->
     IF Opens(body, q) /\ body[q].op # "if" THEN next[depth + 1][left]
     ELSE IF Closes(body, q) /\ depth > 0 THEN next[depth - 1][left]
     ELSE IF Closes(body, q) /\ left = 0 THEN q + 1
     ELSE IF Closes(body, q) THEN next[depth][left - 1]
     ELSE next[depth][left]]]

(* branch_target: past the `end` of the block `levels` out, 0 if there is  *)
(* none.  What it finds from q on, having opened depth blocks on the way   *)
(* and with left levels to go; next is what it finds from q + 1 on.        *)
BranchFrom(body, q, next) ==
  [depth \in 0 .. Len(body) |-> [left \in 0 .. Len(body) |->
     IF Opens(body, q) THEN next[depth + 1][left]
     ELSE IF Closes(body, q) /\ depth > 0 THEN next[depth - 1][left]
     ELSE IF Closes(body, q) /\ left = 0 THEN q + 1
     ELSE IF Closes(body, q) THEN next[depth][left - 1]
     ELSE next[depth][left]]]
BranchScan(body) ==
  LET scan[q \in 1 .. Len(body) + 1] ==
        IF q > Len(body) THEN [depth \in 0 .. Len(body) |-> [left \in 0 .. Len(body) |-> 0]]
        ELSE BranchFrom(body, q, scan[q + 1])
  IN  scan
BranchTarget(body, pc, levels) == BranchScan(body)[pc][0][levels]

(* else_or_end: past the `else` of the `if` before pc, or past its `end`. *)
ElseFrom(body, q, next) ==
  [depth \in 0 .. Len(body) |->
     IF Opens(body, q) THEN next[depth + 1]
     ELSE IF Closes(body, q) /\ depth = 0 THEN q + 1
     ELSE IF Closes(body, q) THEN next[depth - 1]
     ELSE IF body[q].op = "else" /\ depth = 0 THEN q + 1
     ELSE next[depth]]
ElseScan(body) ==
  LET scan[q \in 1 .. Len(body) + 1] ==
        IF q > Len(body) THEN [depth \in 0 .. Len(body) |-> 0]
        ELSE ElseFrom(body, q, scan[q + 1])
  IN  scan
ElseOrEnd(body, pc) == ElseScan(body)[pc][0]

----------------------------------------------------------------------------
(* An error returns through every activation; the stacks stay as they are. *)
Fail(e) ==
  /\ acts' = << >> /\ reply' = e
  /\ UNCHANGED <<stack, locals, ctrl>>

Next1 == Act.pc + 1
At(pc) == [acts EXCEPT ![Len(acts)].pc = pc]
Goto(pc) == acts' = At(pc) /\ UNCHANGED reply

(* Pops n operands and pushes those of out: WASM_ERR_STACK for want of     *)
(* operands ("short") or of room ("full").                                 *)
PopPush(n, out) ==
  IF Len(stack) < n THEN Fail("short")
  ELSE IF Len(stack) - n + Len(out) > StackSize THEN Fail("full")
  ELSE /\ stack' = Without(stack, n) \o out
       /\ Goto(Next1)
       /\ UNCHANGED <<locals, ctrl>>

(* run's unwinding: the result is kept, the stacks are cut back to where   *)
(* the call found them, and the caller goes on.                            *)
Unwind(ops) ==
  IF Fn.results > 0 /\ Len(ops) <= Act.spBase THEN Fail("short")
  ELSE /\ stack' = SubSeq(ops, 1, Act.spBase) \o LastOf(ops, Fn.results)
       /\ locals' = SubSeq(locals, 1, Act.localsBase)
       /\ ctrl' = SubSeq(ctrl, 1, Act.ctrlBase)
       /\ acts' = Front(acts)
       /\ reply' = IF Len(acts) = 1 THEN "ok" ELSE reply

(* run's prologue, for function f with its arguments on the stack. *)
Enter(f, callers, d) ==
  LET n == prog[f].params
      base == Len(locals)
  IN  IF d >= Depth THEN Fail("depth")
      ELSE IF base + n + prog[f].locals > LocalsSize THEN Fail("full")
      ELSE IF Len(stack) < n THEN Fail("short")
      ELSE /\ stack' = Without(stack, n)
           /\ locals' = locals \o LastOf(stack, n) \o [i \in 1 .. prog[f].locals |-> 0]
           /\ acts' = Append(callers, [fn |-> f, pc |-> 1, localsBase |-> base,
                        ctrlBase |-> Len(ctrl), spBase |-> Len(stack) - n])
           /\ UNCHANGED <<ctrl, reply>>

(* wasm_call, on the first function, which takes no argument: the stacks   *)
(* are emptied, whatever the last call left on them.                       *)
WasmCall ==
  /\ ~Running
  /\ stack' = << >> /\ ctrl' = << >>
  /\ IF prog[1].locals > LocalsSize
       THEN locals' = << >> /\ acts' = << >> /\ reply' = "full"
       ELSE /\ locals' = [i \in 1 .. prog[1].locals |-> 0]
            /\ acts' = <<[fn |-> 1, pc |-> 1, localsBase |-> 0, ctrlBase |-> 0, spBase |-> 0]>>
            /\ reply' = "none"
  /\ UNCHANGED <<prog, memVars>>

(* Mutant of Labelled: the label stack has no limit. *)
LabelledAnyway(ops, isLoop, cont, arity, pc) ==
  /\ ctrl' = Append(ctrl, [isLoop |-> isLoop, cont |-> cont, arity |-> arity, sp |-> Len(ops)])
  /\ stack' = ops
  /\ Goto(pc)
  /\ UNCHANGED locals

(* Pushes a label over the operands ops. *)
Labelled(ops, isLoop, cont, arity, pc) ==
  IF Len(ctrl) >= CtrlSize THEN Fail("full")
  ELSE /\ ctrl' = Append(ctrl, [isLoop |-> isLoop, cont |-> cont, arity |-> arity, sp |-> Len(ops)])
       /\ stack' = ops
       /\ Goto(pc)
       /\ UNCHANGED locals

BlockArity == IF Instr.op = "loop" THEN 0 ELSE Instr.arg
BlockOrLoop ==
  /\ Runs({"block", "loop"})
  /\ Labelled(stack, Instr.op = "loop", Next1, BlockArity, Next1)

(* A false `if` without an `else` is past its `end`, and its label goes.   *)
If ==
  /\ Runs({"if"})
  /\ LET ops == Front(stack)
         dst == ElseOrEnd(Fn.body, Next1)
     IN  IF stack = << >> THEN Fail("short")
         ELSE IF Last(stack) # 0 THEN Labelled(ops, FALSE, 0, Instr.arg, Next1)
         ELSE IF Len(ctrl) >= CtrlSize THEN Fail("full")
         ELSE IF dst = 0 THEN Fail("truncated")
         ELSE IF Closes(Fn.body, dst - 1)
           THEN stack' = ops /\ Goto(dst) /\ UNCHANGED <<locals, ctrl>>
           ELSE Labelled(ops, FALSE, 0, Instr.arg, dst)

(* `else` reached from the then-arm: the else-arm is skipped. *)
Else ==
  /\ Runs({"else"})
  /\ LET dst == BranchTarget(Fn.body, Next1, 0)
     IN  IF dst = 0 THEN Fail("truncated")
         ELSE /\ ctrl' = IF Labels > 0 THEN Front(ctrl) ELSE ctrl
              /\ Goto(dst)
              /\ UNCHANGED <<stack, locals>>

End ==
  /\ Runs({"end"})
  /\ IF Labels > 0 THEN ctrl' = Front(ctrl) /\ Goto(Next1) /\ UNCHANGED <<stack, locals>>
                   ELSE Unwind(stack)

(* Mutant of Unstacked: the label's values are not carried. *)
UnstackedBare(ops, lab) == SubSeq(ops, 1, lab.sp)

(* A branch keeps the values its label takes and drops what lies between.  *)
Unstacked(ops, lab) == SubSeq(ops, 1, lab.sp) \o LastOf(ops, lab.arity)

(* A branch of l levels over the operands ops; past the outermost label it *)
(* returns.                                                                *)
Jump(l, ops) ==
  IF l >= Labels THEN Unwind(ops)
  ELSE IF Len(ops) < Label(l).arity THEN Fail("short")
  ELSE LET dst == BranchTarget(Fn.body, Next1, l)
       IN  IF Label(l).isLoop
             THEN /\ stack' = Unstacked(ops, Label(l))
                  /\ ctrl' = SubSeq(ctrl, 1, Len(ctrl) - l)
                  /\ Goto(Label(l).cont)
                  /\ UNCHANGED locals
           ELSE IF dst = 0 THEN Fail("truncated")
             ELSE /\ stack' = Unstacked(ops, Label(l))
                  /\ ctrl' = SubSeq(ctrl, 1, Len(ctrl) - l - 1)
                  /\ Goto(dst)
                  /\ UNCHANGED locals

Br == Runs({"br"}) /\ Jump(Instr.arg, stack)

BrIf ==
  /\ Runs({"br_if"})
  /\ IF stack = << >> THEN Fail("short")
     ELSE IF Last(stack) # 0 THEN Jump(Instr.arg, Front(stack))
     ELSE PopPush(1, << >>)

(* An index past the table, negative ones included, takes the default. *)
BrTable ==
  /\ Runs({"br_table"})
  /\ LET n == Len(Instr.arg) - 1
     IN  IF stack = << >> THEN Fail("short")
         ELSE Jump(Instr.arg[IF Last(stack) < n THEN Last(stack) + 1 ELSE n + 1], Front(stack))

Return == Runs({"return"}) /\ Unwind(stack)

Call ==
  /\ Runs({"call"})
  /\ IF Instr.arg > Len(prog) THEN Fail("type")
     ELSE Enter(Instr.arg, At(Next1), Len(acts))

(* Constants, arithmetic, drop, select, globals, memory.size and calls of  *)
(* an imported function; a division may trap.                              *)
Plain ==
  /\ Runs({"plain"})
  /\ \/ \E out \in Instr.arg.out : PopPush(Instr.arg.pops, out)
     \/ Instr.arg.traps /\ Fail("trap")

LocalAt(k) == Act.localsBase + k

Known(k) == k <= Fn.params + Fn.locals

LocalGet ==
  /\ Runs({"get"})
  /\ IF Known(Instr.arg) THEN PopPush(0, <<locals[LocalAt(Instr.arg)]>>) ELSE Fail("type")

LocalSet ==
  /\ Runs({"set", "tee"})
  /\ IF ~Known(Instr.arg) THEN Fail("type")
     ELSE IF stack = << >> THEN Fail("short")
     ELSE /\ locals' = [locals EXCEPT ![LocalAt(Instr.arg)] = Last(stack)]
          /\ stack' = IF Instr.op = "set" THEN Front(stack) ELSE stack
          /\ Goto(Next1)
          /\ UNCHANGED ctrl

Unreachable == Runs({"unreachable"}) /\ Fail("trap")

----------------------------------------------------------------------------
(* Loads and stores: base and offset add up in 32 bits. *)
LoadStore ==
  /\ Running /\ Instr.op \in {"load", "store"}
  /\ UNCHANGED prog
  /\ LET n == IF Instr.op = "load" THEN 1 ELSE 2
         addr == Wrapped(stack[Len(stack) - n + 1] + Instr.arg.offset)
     IN  IF Len(stack) < n THEN Fail("short") /\ UNCHANGED memVars
         ELSE IF ~MemCheck(addr, Instr.arg.size) THEN Fail("memory") /\ UNCHANGED memVars
         ELSE /\ Access(addr, Instr.arg.size)
              /\ IF Instr.op = "load" THEN \E v \in Loads : PopPush(1, <<v>>)
                                      ELSE PopPush(2, << >>)

MemoryGrow ==
  /\ Running /\ Instr.op = "grow"
  /\ UNCHANGED prog
  /\ IF stack = << >> THEN Fail("short") /\ UNCHANGED memVars
     ELSE \E answer \in {memPages, Word - 1} :
            Grow(Last(stack), answer) /\ PopPush(1, <<answer>>)

Init ==
  /\ prog \in Programs
  /\ stack = << >> /\ locals = << >> /\ ctrl = << >> /\ acts = << >>
  /\ reply = "none"
  /\ MemInit(StartPages)

Next ==
  \/ WasmCall
  \/ BlockOrLoop \/ If \/ Else \/ End \/ Br \/ BrIf \/ BrTable \/ Return \/ Call
  \/ Plain \/ LocalGet \/ LocalSet \/ Unreachable
  \/ LoadStore \/ MemoryGrow

Spec == Init /\ [][Next]_vars

----------------------------------------------------------------------------
(* The machine as the block structure sees it: the shared stack cut at the *)
(* labels' heights, the pool of locals at the calls' bases.                *)
Ends(i, ends, all) == IF i = Len(acts) THEN all ELSE ends[i + 1]
SpBases == [i \in 1 .. Len(acts) |-> acts[i].spBase]
CtrlBases == [i \in 1 .. Len(acts) |-> acts[i].ctrlBase]
LocalsBases == [i \in 1 .. Len(acts) |-> acts[i].localsBase]

BlocksOf(i) ==
  LET labels == SubSeq(ctrl, acts[i].ctrlBase + 1, Ends(i, CtrlBases, Len(ctrl)))
      cuts == <<acts[i].spBase>> \o [j \in 1 .. Len(labels) |-> labels[j].sp]
                \o <<Ends(i, SpBases, Len(stack))>>
  IN  [j \in 1 .. Len(labels) + 1 |-> SubSeq(stack, cuts[j] + 1, cuts[j + 1])]

CallOf(i) ==
  [fn |-> acts[i].fn, pc |-> acts[i].pc, vals |-> BlocksOf(i),
   locals |-> SubSeq(locals, acts[i].localsBase + 1, Ends(i, LocalsBases, Len(locals)))]

Structured == INSTANCE WasmStructured WITH
  frames <- [i \in 1 .. Len(acts) |-> CallOf(i)],
  reply <- IF reply \in {"none", "ok"} THEN reply ELSE "trap"

----------------------------------------------------------------------------
(* Properties.                                                             *)

TypeOK ==
  /\ stack \in Seq(Words) /\ Len(stack) <= StackSize
  /\ locals \in Seq(Words) /\ Len(locals) <= LocalsSize
  /\ ctrl \in Seq([isLoop : BOOLEAN, cont : Nat, arity : {0, 1}, sp : 0 .. StackSize])
  /\ Len(ctrl) <= CtrlSize
  /\ Len(acts) <= Depth
  /\ \A i \in 1 .. Len(acts) :
       /\ acts[i].fn \in 1 .. Len(prog)
       /\ acts[i].pc \in 1 .. Len(prog[acts[i].fn].body)
       /\ acts[i].localsBase <= Len(locals) /\ acts[i].ctrlBase <= Len(ctrl)
       /\ acts[i].spBase <= Len(stack)
  /\ memPages \in Words /\ memLimit \in Words

(* Scanning for `end` with shared stacks does what the block structure     *)
(* means: every branch lands behind the right `end` or at the right loop   *)
(* with the right values, a call leaves its caller's operands, labels and  *)
(* locals alone, and the caller finds exactly the results.                 *)
ImplementsBlocks == Structured!StructSpec

(* Valid code ends in a result, a trap, or a limit: the checks for missing *)
(* operands, missing `end`s and unknown functions never fire.              *)
NeverMalformed == reply \notin {"short", "truncated", "type"}
=============================================================================
