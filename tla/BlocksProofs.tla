---------------------------- MODULE BlocksProofs ----------------------------
(***************************************************************************)
(* The interpreter implements WasmStructured, for every valid module and   *)
(* every limit.                                                            *)
(*                                                                         *)
(* It is shown from Inv of WasmProofs and Standing, that what a caller's   *)
(* open blocks keep stays below the activation it waits for.  Each         *)
(* instruction has a lemma that says at which mark of the open blocks it   *)
(* cuts the shared stack and what it puts above, which is what the         *)
(* structured machine does to its sequences of blocks.                     *)
(***************************************************************************)
EXTENDS WasmProofs

----------------------------------------------------------------------------
(* What the structured machine sees of the interpreter: its calls and their *)
(* blocks are the pieces of the stacks that validation says.                *)

LEMMA BlocksSame ==
  ASSUME NEW S, NEW s \in Seq(S), NEW t \in Seq(S), NEW o, Len(o) \in Nat,
         NEW from \in Nat, NEW to \in Nat, Rising(o, from, to), to <= Len(s), to <= Len(t),
         \A i \in 1 .. to : t[i] = s[i]
  PROVE  BlocksAt(t, o, from, to) = BlocksAt(s, o, from, to)
<1> DEFINE M(j) == Mark(o, from, to, j)
<1>1. \A j \in 1 .. Len(o) + 1 : M(j) \in Nat /\ M(j + 1) \in Nat /\ M(j) <= M(j + 1) /\ M(j + 1) <= to
  <2> TAKE j \in 1 .. Len(o) + 1
  <2>1. j \in 1 .. Len(o) + 2 /\ j + 1 \in 1 .. Len(o) + 2 /\ j <= j + 1
        /\ Len(o) + 2 \in 1 .. Len(o) + 2 /\ j + 1 <= Len(o) + 2
    OBVIOUS
  <2>2. M(Len(o) + 2) = to
    BY DEF Mark
  <2> QED
    BY <2>1, <2>2 DEF Rising
<1>2. \A j \in 1 .. Len(o) + 1 : SubSeq(t, M(j) + 1, M(j + 1)) = SubSeq(s, M(j) + 1, M(j + 1))
  <2> TAKE j \in 1 .. Len(o) + 1
  <2> DEFINE a == M(j)
             b == M(j + 1)
  <2>1. a \in Nat /\ b \in Nat /\ a <= b /\ b <= to
    BY <1>1
  <2> HIDE DEF a, b
  <2>2. b <= Len(s) /\ b <= Len(t) /\ \A i \in a + 1 .. b : t[i] = s[i]
    <3>1. Len(s) \in Nat /\ Len(t) \in Nat
      BY LenProperties
    <3> QED
      BY <2>1, <3>1
  <2>3. SubSeq(t, a + 1, b) = SubSeq(s, a + 1, b)
    BY <2>1, <2>2, SamePiece
  <2> QED
    BY <2>3 DEF a, b
<1> QED
  BY <1>2 DEF BlocksAt

(* A caller's operands lie below those of the call it waits for.           *)
Standing ==
  \A i \in 1 .. Len(acts) - 1 :
    acts[i].spBase + Floor(prog[acts[i].fn].body, acts[i].pc) <= acts[i + 1].spBase

(* The i-th caller, by validation.                                         *)
LEMMA CallerIs ==
  ASSUME Inv, Standing, NEW i \in 1 .. Len(acts) - 1
  PROVE  /\ acts[i] \in Activations /\ acts[i + 1] \in Activations /\ acts[i].fn \in DOMAIN prog
         /\ ValidFunction(prog, prog[acts[i].fn])
         /\ acts[i].pc \in 1 .. Len(prog[acts[i].fn].body)
         /\ Len(Open(prog[acts[i].fn].body, acts[i].pc)) \in Nat
         /\ acts[i].spBase \in Nat /\ acts[i].localsBase \in Nat
         /\ acts[i + 1].spBase \in Nat /\ acts[i + 1].localsBase \in Nat
         /\ acts[i + 1].spBase <= Act.spBase /\ acts[i].localsBase <= acts[i + 1].localsBase
         /\ acts[i + 1].localsBase <= Act.localsBase
         /\ Rising(Open(prog[acts[i].fn].body, acts[i].pc), acts[i].spBase, acts[i + 1].spBase)
         /\ Mark(Open(prog[acts[i].fn].body, acts[i].pc), acts[i].spBase, acts[i + 1].spBase,
                 Len(Open(prog[acts[i].fn].body, acts[i].pc)) + 1)
              = acts[i].spBase + Floor(prog[acts[i].fn].body, acts[i].pc)
<1> DEFINE n == Len(acts)
           f == prog[acts[i].fn]
           p == acts[i].pc
           from == acts[i].spBase
           to == acts[i + 1].spBase
<1>1. acts \in Seq(Activations) /\ n \in Nat
  BY LenProperties DEF Inv, StackTypes
<1>2. i \in 1 .. n /\ i + 1 \in 1 .. n /\ n \in 1 .. n /\ i <= i + 1 /\ i + 1 <= n
  BY <1>1
<1>3. acts[i] \in Activations /\ acts[i + 1] \in Activations
  BY <1>1, <1>2, ElementOfSeq
<1>4. Act = acts[n]
  BY <1>1, <1>2 DEF Act, Last
<1>5. /\ to <= Act.spBase /\ acts[i + 1].localsBase <= Act.localsBase
      /\ acts[i].localsBase <= acts[i + 1].localsBase
  BY <1>2, <1>4 DEF Inv, Ascending
<1>6. acts[i].fn \in DOMAIN prog /\ p \in 1 .. Len(f.body)
  BY DEF Inv, CallersFramed, Framed
<1>7. ValidFunction(prog, f)
  BY <1>6, ProgIs DEF Inv
<1>8. Len(Open(f.body, p)) \in Nat
  BY <1>6, <1>7, TypedIs
<1>9. /\ from \in Nat /\ acts[i].localsBase \in Nat /\ to \in Nat /\ acts[i + 1].localsBase \in Nat
  BY <1>3 DEF Activations
<1>10. from + Floor(f.body, p) <= to
  BY DEF Standing
<1>11. /\ Rising(Open(f.body, p), from, to)
       /\ Mark(Open(f.body, p), from, to, Len(Open(f.body, p)) + 1) = from + Floor(f.body, p)
  <2> HIDE DEF f, p, from, to
  <2> QED
    BY <1>6, <1>7, <1>9, <1>10, MarksRise DEF Level
<1> QED
  BY <1>3, <1>5, <1>6, <1>7, <1>8, <1>9, <1>11

LEMMA CallersSame ==
  ASSUME Inv, Standing, Running, NEW s \in Seq(Words), NEW l \in Seq(Words),
         Act.spBase <= Len(s), \A j \in 1 .. Act.spBase : s[j] = stack[j],
         Act.localsBase <= Len(l), \A j \in 1 .. Act.localsBase : l[j] = locals[j]
  PROVE  \A i \in 1 .. Len(acts) - 1 :
           FrameAt(prog, acts[i], s, l, acts[i + 1].spBase, acts[i + 1].localsBase)
             = FrameAt(prog, acts[i], stack, locals, acts[i + 1].spBase, acts[i + 1].localsBase)
<1> TAKE i \in 1 .. Len(acts) - 1
<1> DEFINE o == Open(prog[acts[i].fn].body, acts[i].pc)
           from == acts[i].spBase
           to == acts[i + 1].spBase
           lb == acts[i].localsBase
           le == acts[i + 1].localsBase
<1>1. /\ Len(o) \in Nat /\ from \in Nat /\ to \in Nat /\ lb \in Nat /\ le \in Nat
      /\ to <= Act.spBase /\ lb <= le /\ le <= Act.localsBase /\ Rising(o, from, to)
  BY CallerIs
<1>2. /\ Act.spBase \in Nat /\ Act.localsBase \in Nat
      /\ Act.spBase <= Len(stack) /\ Act.localsBase <= Len(locals)
      /\ Len(stack) \in Nat /\ Len(locals) \in Nat
  <2>1. /\ Act.spBase \in Nat /\ Act.localsBase \in Nat /\ Len(stack) \in Nat /\ Len(locals) \in Nat
        /\ Height(Fn.body, Act.pc) \in Nat /\ Fn.params \in Nat /\ Fn.locals \in Nat
        /\ Len(stack) = Act.spBase + Height(Fn.body, Act.pc)
        /\ Len(locals) = Act.localsBase + Fn.params + Fn.locals
    BY Here
  <2> DEFINE h == Height(Fn.body, Act.pc)
             x == Fn.params
             y == Fn.locals
             sb == Act.spBase
             b == Act.localsBase
             m == Len(stack)
             n == Len(locals)
  <2>2. /\ sb \in Nat /\ b \in Nat /\ m \in Nat /\ n \in Nat /\ h \in Nat /\ x \in Nat /\ y \in Nat
        /\ m = sb + h /\ n = b + x + y
    BY <2>1
  <2> HIDE DEF h, x, y, sb, b, m, n
  <2>3. sb <= m /\ b <= n
    BY <2>2
  <2> QED
    BY <2>2, <2>3 DEF sb, b, m, n
<1>3. stack \in Seq(Words) /\ locals \in Seq(Words) /\ Len(s) \in Nat /\ Len(l) \in Nat
  BY LenProperties DEF Inv, StackTypes
<1> HIDE DEF o, from, to, lb, le
<1>4. BlocksAt(s, o, from, to) = BlocksAt(stack, o, from, to)
  <2>0. Act.spBase <= Len(s) /\ \A j \in 1 .. Act.spBase : s[j] = stack[j]
    OBVIOUS
  <2>1. to <= Len(s) /\ to <= Len(stack) /\ \A j \in 1 .. to : j \in 1 .. Act.spBase
    BY <1>1, <1>2, <1>3, <2>0
  <2>2. \A j \in 1 .. to : s[j] = stack[j]
    BY <2>0, <2>1
  <2> QED
    BY <1>1, <1>3, <2>1, <2>2, BlocksSame
<1>5. SubSeq(l, lb + 1, le) = SubSeq(locals, lb + 1, le)
  <2>0. Act.localsBase <= Len(l) /\ \A j \in 1 .. Act.localsBase : l[j] = locals[j]
    OBVIOUS
  <2>1. le <= Len(l) /\ le <= Len(locals) /\ \A j \in lb + 1 .. le : j \in 1 .. Act.localsBase
    BY <1>1, <1>2, <1>3, <2>0
  <2>2. \A j \in lb + 1 .. le : l[j] = locals[j]
    BY <2>0, <2>1
  <2> QED
    BY <1>1, <1>3, <2>1, <2>2, SamePiece
<1> QED
  BY <1>4, <1>5 DEF FrameAt, o, from, to, lb, le

(* The running call's blocks, where each begins, and the innermost one.    *)
Blocks == BlocksAt(stack, Open(Fn.body, Act.pc), Act.spBase, Len(stack))
Marked(k) == Mark(Open(Fn.body, Act.pc), Act.spBase, Len(stack), k)
Base == Act.spBase + Floor(Fn.body, Act.pc)
Deep == Level(Fn.body, Act.pc)

(* The blocks of the running call, and the marks between them.              *)
LEMMA BlocksHere ==
  ASSUME Inv, Running
  PROVE  /\ Deep \in Nat /\ Deep = Len(Open(Fn.body, Act.pc)) /\ Act.spBase \in Nat
         /\ Base \in Nat /\ Base <= Len(stack) /\ Act.spBase <= Base /\ Len(stack) \in Nat
         /\ stack \in Seq(Words) /\ locals \in Seq(Words)
         /\ Rising(Open(Fn.body, Act.pc), Act.spBase, Len(stack))
         /\ Marked(Deep + 1) = Base /\ Marked(Deep + 2) = Len(stack)
         /\ Blocks \in Seq(Seq(Words)) /\ Len(Blocks) = Deep + 1
         /\ \A j \in 1 .. Deep + 1 :
              /\ Blocks[j] = SubSeq(stack, Marked(j) + 1, Marked(j + 1))
              /\ Marked(j) \in Nat /\ Marked(j + 1) \in Nat
              /\ Act.spBase <= Marked(j)
              /\ Marked(j) <= Marked(j + 1) /\ Marked(j + 1) <= Len(stack)
         /\ \A j \in 1 .. Deep : Marked(j + 1) = Act.spBase + Open(Fn.body, Act.pc)[j].base
<1> DEFINE o == Open(Fn.body, Act.pc)
           sb == Act.spBase
           fl == Floor(Fn.body, Act.pc)
           h == Height(Fn.body, Act.pc)
<1>1. /\ ValidFunction(prog, Fn) /\ Act.pc \in 1 .. Len(Fn.body) /\ sb \in Nat
      /\ h \in Nat /\ Len(o) \in Nat /\ Len(stack) \in Nat /\ Len(stack) = sb + h
  BY Here
<1>2. stack \in Seq(Words) /\ locals \in Seq(Words)
  BY DEF Inv, StackTypes
<1>3. fl \in Nat
  BY <1>1, FloorIs
<1>4. fl <= h
  <2>1. h >= fl + 0
    BY <1>1 DEF ValidFunction, Enough
  <2> HIDE DEF fl, h
  <2> QED
    BY <1>1, <1>3, <2>1
<1>5. sb + fl <= Len(stack)
  <2> HIDE DEF fl, h, sb
  <2> QED
    BY <1>1, <1>3, <1>4
<1>6. /\ Rising(o, sb, Len(stack))
      /\ Mark(o, sb, Len(stack), Level(Fn.body, Act.pc) + 1) = sb + fl
  BY <1>1, <1>5, MarksRise
<1>7. Deep = Len(o) /\ Level(Fn.body, Act.pc) = Len(o)
  BY DEF Deep, Level
<1>8. /\ Blocks \in Seq(Seq(Words)) /\ Len(Blocks) = Len(o) + 1
      /\ \A j \in 1 .. Len(o) + 1 : Blocks[j] = SubSeq(stack, Marked(j) + 1, Marked(j + 1))
      /\ \A j \in 1 .. Len(o) + 1 :
           /\ Marked(j) \in Nat /\ Marked(j + 1) \in Nat
           /\ Marked(j) <= Marked(j + 1) /\ Marked(j + 1) <= Len(stack)
  <2> DEFINE to == Len(stack)
  <2>1. Rising(o, sb, to) /\ to \in Nat /\ to <= Len(stack) /\ Len(o) \in Nat
    BY <1>1, <1>6
  <2> HIDE DEF o, sb, to
  <2>2. /\ BlocksAt(stack, o, sb, to) \in Seq(Seq(Words))
        /\ Len(BlocksAt(stack, o, sb, to)) = Len(o) + 1
        /\ \A j \in 1 .. Len(o) + 1 :
             BlocksAt(stack, o, sb, to)[j] = SubSeq(stack, Mark(o, sb, to, j) + 1, Mark(o, sb, to, j + 1))
        /\ \A j \in 1 .. Len(o) + 1 :
             /\ Mark(o, sb, to, j) \in Nat /\ Mark(o, sb, to, j + 1) \in Nat
             /\ Mark(o, sb, to, j) <= Mark(o, sb, to, j + 1)
             /\ Mark(o, sb, to, j + 1) <= Len(stack)
    <3>1. Pieces(Words, stack, o, sb, to)
      BY <1>2, <2>1, BlocksTyped
    <3> QED
      BY <3>1 DEF Pieces
  <2> QED
    BY <2>2 DEF Blocks, Marked, o, sb, to
<1>9. \A j \in 1 .. Len(o) + 1 : sb <= Marked(j)
  <2> DEFINE to == Len(stack)
  <2>1. ASSUME NEW j \in 1 .. Len(o) + 1 PROVE Mark(o, sb, to, 1) <= Mark(o, sb, to, j)
    <3>1. 1 \in 1 .. Len(o) + 2 /\ j \in 1 .. Len(o) + 2 /\ 1 <= j
      BY <1>1
    <3> QED
      BY <1>6, <3>1 DEF Rising
  <2>2. Mark(o, sb, to, 1) = sb
    BY DEF Mark
  <2> QED
    BY <2>1, <2>2 DEF Marked
<1>10. Marked(Deep + 1) = Base /\ Marked(Deep + 2) = Len(stack)
  <2>1. Deep + 2 # 1 /\ Deep + 2 = Len(o) + 2
    BY <1>1, <1>7
  <2>2. Marked(Deep + 2) = Len(stack)
    BY <2>1 DEF Marked, Mark
  <2>3. Marked(Deep + 1) = Base
    BY <1>6, <1>7 DEF Marked, Base
  <2> QED
    BY <2>2, <2>3
<1>11. \A j \in 1 .. Deep : Marked(j + 1) = sb + o[j].base
  <2> TAKE j \in 1 .. Deep
  <2>1. j + 1 # 1 /\ j + 1 # Len(o) + 2 /\ j + 1 - 1 = j
    BY <1>1, <1>7
  <2> QED
    BY <2>1 DEF Marked, Mark
<1>12. Base \in Nat /\ Base <= Len(stack) /\ sb <= Base
  <2> HIDE DEF sb, fl
  <2>1. sb + fl \in Nat /\ sb + fl <= Len(stack) /\ sb <= sb + fl
    BY <1>1, <1>3, <1>5
  <2> QED
    BY <2>1 DEF Base, sb, fl
<1> QED
  <2> HIDE DEF o, sb
  <2>1. Deep \in Nat /\ Deep = Len(o) /\ Deep + 1 = Len(o) + 1
    BY <1>1, <1>7
  <2> QED
    BY <1>1, <1>2, <1>6, <1>8, <1>9, <1>10, <1>11, <1>12, <2>1 DEF o, sb

(* The block structure reads the same code in the same way.                *)
LEMMA SameReading ==
  /\ \A s : Structured!Last(s) = Last(s) /\ Structured!Front(s) = Front(s)
  /\ \A s, k : Structured!LastOf(s, k) = LastOf(s, k) /\ Structured!Without(s, k) = Without(s, k)
  /\ \A b, p : Structured!EndOf(b, p) = EndOf(b, p) /\ Structured!ElseOf(b, p) = ElseOf(b, p)
  /\ \A b, p, l : Structured!Around(b, p, l) = Around(b, p, l)
  /\ \A b, p : Structured!LabelArity(b, p) = LabelArity(b, p)
<1>0. \A S : Structured!Cardinality(S) = Cardinality(S)
  BY DEF Structured!Cardinality, Cardinality
<1>1. \A s : Structured!Last(s) = Last(s) /\ Structured!Front(s) = Front(s)
  BY DEF Structured!Last, Structured!Front, Last, Front
<1>2. \A s, k : Structured!LastOf(s, k) = LastOf(s, k) /\ Structured!Without(s, k) = Without(s, k)
  BY DEF Structured!LastOf, Structured!Without, LastOf, Without
<1>3. \A b, p : Structured!Opens(b, p) = Opens(b, p) /\ Structured!Closes(b, p) = Closes(b, p)
  BY DEF Structured!Opens, Structured!Closes, Structured!Openers, Opens, Closes, Openers
<1>4. \A b, p : Structured!Nest(b, p) = Nest(b, p)
  BY <1>0, <1>3 DEF Structured!Nest, Nest
<1>5. \A b, p : Structured!EndOf(b, p) = EndOf(b, p)
  BY <1>3, <1>4 DEF Structured!EndOf, EndOf
<1>6. \A b, p : Structured!ElseOf(b, p) = ElseOf(b, p)
  BY <1>4, <1>5 DEF Structured!ElseOf, ElseOf
<1>7. \A b, p : Structured!Enclosing(b, p) = Enclosing(b, p)
  BY <1>3, <1>5 DEF Structured!Enclosing, Enclosing
<1>8. \A b, p, l : Structured!Around(b, p, l) = Around(b, p, l)
  BY <1>0, <1>7 DEF Structured!Around, Around
<1>9. \A b, p : Structured!LabelArity(b, p) = LabelArity(b, p)
  BY DEF Structured!LabelArity, LabelArity
<1> QED
  BY <1>1, <1>2, <1>5, <1>6, <1>8, <1>9

(* What the block structure sees of it.                                    *)
LEMMA Sights ==
  ASSUME Inv, Running
  PROVE  /\ Structured!Running
         /\ Structured!Top = FrameAt(prog, Act, stack, locals, Len(stack), Len(locals))
         /\ Structured!Top.fn = Act.fn /\ Structured!Top.pc = Act.pc
         /\ Structured!Top.vals = Blocks
         /\ Structured!Top.locals = SubSeq(locals, Act.localsBase + 1, Len(locals))
         /\ Structured!Fn = Fn /\ Structured!Instr = Instr
         /\ Structured!Inner = SubSeq(stack, Base + 1, Len(stack))
<1> DEFINE n == Len(acts)
           F == AllFrames(prog, acts, stack, locals)
<1>1. n \in Nat \ {0} /\ Act = acts[n] /\ n \in 1 .. n
  BY Here
<1>2. [i \in 1 .. Len(acts) |-> CallOf(i)] = F
  BY FramesAre
<1>3. Len(F) = n /\ F # << >> /\ F[n] = FrameAt(prog, Act, stack, locals, Len(stack), Len(locals))
  <2>1. F = [i \in 1 .. n |-> F[i]] /\ F[n] = FrameAt(prog, Act, stack, locals, Len(stack), Len(locals))
    BY <1>1 DEF AllFrames
  <2> HIDE DEF F
  <2>2. Len(F) = n
    BY <1>1, <2>1
  <2>3. F # << >>
    BY <1>1, <2>2
  <2> QED
    BY <2>1, <2>2, <2>3
<1> HIDE DEF F, n
<1>4. Structured!Running
  BY <1>2, <1>3 DEF Structured!Running
<1>5. Structured!Top = FrameAt(prog, Act, stack, locals, Len(stack), Len(locals))
  BY <1>2, <1>3 DEF Structured!Top, Structured!Last, Last
<1>6. /\ Structured!Top.fn = Act.fn /\ Structured!Top.pc = Act.pc
      /\ Structured!Top.vals = Blocks
      /\ Structured!Top.locals = SubSeq(locals, Act.localsBase + 1, Len(locals))
  BY <1>5 DEF FrameAt, Blocks, Fn
<1>7. Structured!Fn = Fn /\ Structured!Instr = Instr
  BY <1>6 DEF Structured!Fn, Fn, Structured!Instr, Instr
<1>8. Structured!Inner = SubSeq(stack, Base + 1, Len(stack))
  <2> DEFINE e == Deep + 1
  <2>1. /\ Blocks \in Seq(Seq(Words)) /\ Len(Blocks) = e /\ Marked(e) = Base
        /\ Blocks[e] = SubSeq(stack, Marked(e) + 1, Marked(e + 1)) /\ Marked(e + 1) = Len(stack)
    <3>1. Deep + 1 \in 1 .. Deep + 1 /\ Deep + 1 + 1 = Deep + 2
      BY BlocksHere
    <3> QED
      BY <3>1, BlocksHere
  <2>2. Structured!Inner = Last(Blocks)
    BY <1>6 DEF Structured!Inner, Structured!Last, Last
  <2> QED
    BY <2>1, <2>2 DEF Last
<1> QED
  BY <1>4, <1>5, <1>6, <1>7, <1>8

(* The running call moves on within its body.                              *)
LEMMA Moves ==
  ASSUME Inv, Running, NEW pc \in Nat
  PROVE  /\ At(pc) \in Seq(Activations) /\ Len(At(pc)) = Len(acts)
         /\ \A i \in 1 .. Len(acts) - 1 : At(pc)[i] = acts[i]
         /\ At(pc)[Len(acts)] = [Act EXCEPT !.pc = pc]
         /\ \A i \in 1 .. Len(acts) :
              /\ At(pc)[i].fn = acts[i].fn /\ At(pc)[i].spBase = acts[i].spBase
              /\ At(pc)[i].localsBase = acts[i].localsBase
              /\ At(pc)[i].ctrlBase = acts[i].ctrlBase
<1> DEFINE n == Len(acts)
           new == [Act EXCEPT !.pc = pc]
<1>1. n \in Nat \ {0} /\ Act = acts[n] /\ Act \in Activations /\ n \in 1 .. n
  BY Here
<1>2. acts \in Seq(Activations) /\ acts \in [1 .. n -> Activations]
  BY LenProperties DEF Inv, StackTypes
<1>3. new \in Activations /\ new.fn = Act.fn /\ new.spBase = Act.spBase
      /\ new.localsBase = Act.localsBase /\ new.ctrlBase = Act.ctrlBase
  BY <1>1 DEF Activations
<1>4. At(pc) = [acts EXCEPT ![n] = new]
  BY <1>1, <1>2 DEF At
<1> HIDE DEF new
<1>5. /\ At(pc) \in [1 .. n -> Activations] /\ At(pc)[n] = new
      /\ \A i \in 1 .. n - 1 : At(pc)[i] = acts[i]
  BY <1>1, <1>2, <1>3, <1>4
<1>6. At(pc) \in Seq(Activations) /\ Len(At(pc)) = n
  BY <1>1, <1>5, SeqDef
<1>7. \A i \in 1 .. n :
        /\ At(pc)[i].fn = acts[i].fn /\ At(pc)[i].spBase = acts[i].spBase
        /\ At(pc)[i].localsBase = acts[i].localsBase
        /\ At(pc)[i].ctrlBase = acts[i].ctrlBase
  <2> TAKE i \in 1 .. n
  <2>1. CASE i = n
    BY <1>1, <1>3, <1>5, <2>1
  <2>2. CASE i # n
    <3>1. i \in 1 .. n - 1
      BY <1>1, <2>2
    <3> QED
      BY <1>5, <3>1
  <2> QED
    BY <2>1, <2>2
<1> QED
  BY <1>5, <1>6, <1>7 DEF new

(* Moving on in a body leaves the callers standing where they were.         *)
LEMMA StandsStill ==
  ASSUME Inv, Running, Standing, UNCHANGED prog, NEW pc \in Nat, acts' = At(pc)
  PROVE  Standing'
<1>1. Len(acts') = Len(acts) /\ \A i \in 1 .. Len(acts) - 1 : acts'[i] = acts[i]
  BY Moves
<1>2. \A i \in 1 .. Len(acts) : acts'[i].spBase = acts[i].spBase
  BY Moves
<1>3. \A i \in 1 .. Len(acts) - 1 :
        acts[i].spBase + Floor(prog[acts[i].fn].body, acts[i].pc) <= acts[i + 1].spBase
  BY DEF Standing
<1>4. \A i \in 1 .. Len(acts) - 1 :
        acts'[i].spBase + Floor(prog'[acts'[i].fn].body, acts'[i].pc) <= acts'[i + 1].spBase
  <2> TAKE i \in 1 .. Len(acts) - 1
  <2>1. i + 1 \in 1 .. Len(acts)
    BY Here
  <2>2. acts'[i] = acts[i] /\ acts'[i + 1].spBase = acts[i + 1].spBase /\ prog' = prog
    BY <1>1, <1>2, <2>1
  <2> QED
    BY <1>3, <2>2
<1> QED
  BY <1>1, <1>4 DEF Standing

LEMMA TopMoves ==
  ASSUME Inv, Inv', Standing, Running, UNCHANGED prog, NEW pc \in Nat, acts' = At(pc),
         Act.spBase <= Len(stack'), \A j \in 1 .. Act.spBase : stack'[j] = stack[j],
         Act.localsBase <= Len(locals'), \A j \in 1 .. Act.localsBase : locals'[j] = locals[j]
  PROVE  [i \in 1 .. Len(acts) |-> CallOf(i)]' =
           [AllFrames(prog, acts, stack, locals) EXCEPT ![Len(acts)] =
              FrameAt(prog, [Act EXCEPT !.pc = pc], stack', locals', Len(stack'), Len(locals'))]
<1> DEFINE n == Len(acts)
           F == AllFrames(prog, acts, stack, locals)
           G == AllFrames(prog', acts', stack', locals')
           top == FrameAt(prog, [Act EXCEPT !.pc = pc], stack', locals', Len(stack'), Len(locals'))
<1>1. n \in Nat \ {0} /\ n \in 1 .. n
  BY Here
<1>2. stack' \in Seq(Words) /\ locals' \in Seq(Words)
  BY DEF Inv, StackTypes
<1>3. /\ Len(acts') = n /\ \A i \in 1 .. n - 1 : acts'[i] = acts[i]
      /\ acts'[n] = [Act EXCEPT !.pc = pc]
      /\ \A i \in 1 .. n : acts'[i].spBase = acts[i].spBase /\ acts'[i].localsBase = acts[i].localsBase
  BY Moves
<1>4. \A i \in 1 .. n - 1 :
        FrameAt(prog, acts[i], stack', locals', acts[i + 1].spBase, acts[i + 1].localsBase)
             = FrameAt(prog, acts[i], stack, locals, acts[i + 1].spBase, acts[i + 1].localsBase)
  BY <1>2, CallersSame
<1>5. /\ F = [i \in 1 .. n |-> F[i]]
      /\ \A i \in 1 .. n - 1 :
           F[i] = FrameAt(prog, acts[i], stack, locals, acts[i + 1].spBase, acts[i + 1].localsBase)
  <2>1. \A i \in 1 .. n - 1 : i # Len(acts) /\ i \in 1 .. n
    BY <1>1
  <2> QED
    BY <1>1, <2>1 DEF AllFrames
<1>6. /\ G = [i \in 1 .. n |-> G[i]] /\ G[n] = top
      /\ \A i \in 1 .. n - 1 :
           G[i] = FrameAt(prog, acts[i], stack', locals', acts[i + 1].spBase, acts[i + 1].localsBase)
  <2>1. \A i \in 1 .. n - 1 : i # n /\ i \in 1 .. n /\ i + 1 \in 1 .. n
    BY <1>1
  <2>2. G = [i \in 1 .. n |->
          FrameAt(prog, acts'[i], stack', locals', IF i = n THEN Len(stack') ELSE acts'[i + 1].spBase,
             IF i = n THEN Len(locals') ELSE acts'[i + 1].localsBase)]
    BY <1>3 DEF AllFrames
  <2> HIDE DEF G, n
  <2>3. G[n] = top
    BY <1>1, <1>3, <2>2
  <2>4. \A i \in 1 .. n - 1 :
           G[i] = FrameAt(prog, acts[i], stack', locals', acts[i + 1].spBase, acts[i + 1].localsBase)
    BY <1>3, <2>1, <2>2
  <2> QED
    BY <2>2, <2>3, <2>4
<1>7. [i \in 1 .. Len(acts) |-> CallOf(i)]' = G
  BY FramesNext
<1> HIDE DEF F, G, top
<1>8. [F EXCEPT ![n] = top] = [i \in 1 .. n |-> IF i = n THEN top ELSE F[i]]
  BY <1>5
<1>9. \A i \in 1 .. n : G[i] = IF i = n THEN top ELSE F[i]
  <2> TAKE i \in 1 .. n
  <2>1. i = n \/ i \in 1 .. n - 1
    BY <1>1
  <2>2. \A j \in 1 .. n - 1 : j # n
    BY <1>1
  <2> QED
    BY <1>4, <1>5, <1>6, <2>1, <2>2
<1>10. G = [F EXCEPT ![n] = top]
  BY <1>6, <1>8, <1>9
<1> QED
  BY <1>7, <1>10 DEF F, top

(* With its locals as they were, it is what the block structure calls a    *)
(* step.                                                                   *)
LEMMA StepIs ==
  ASSUME Inv, Inv', Standing, Running, UNCHANGED <<prog, locals>>, NEW pc \in Nat, Goto(pc),
         Act.spBase <= Len(stack'), \A j \in 1 .. Act.spBase : stack'[j] = stack[j]
  PROVE  Structured!Stepped(pc, BlocksAt(stack', Open(Fn.body, pc), Act.spBase, Len(stack')))
<1> DEFINE n == Len(acts)
           F == AllFrames(prog, acts, stack, locals)
           V == BlocksAt(stack', Open(Fn.body, pc), Act.spBase, Len(stack'))
           top == FrameAt(prog, [Act EXCEPT !.pc = pc], stack', locals', Len(stack'), Len(locals'))
           old == FrameAt(prog, Act, stack, locals, Len(stack), Len(locals))
<1>1. /\ n \in Nat \ {0} /\ n \in 1 .. n /\ Act = acts[n] /\ Act \in Activations
      /\ Len(locals) \in Nat /\ Act.localsBase \in Nat
  BY Here
<1>2. [i \in 1 .. Len(acts) |-> CallOf(i)] = F
  BY FramesAre
<1>3. Act.localsBase <= Len(locals')
  <2>1. Fn.params \in Nat /\ Fn.locals \in Nat /\ Len(locals) = Act.localsBase + Fn.params + Fn.locals
    BY Here
  <2>2. locals' = locals
    OBVIOUS
  <2> QED
    BY <1>1, <2>1, <2>2
<1>4. [i \in 1 .. Len(acts) |-> CallOf(i)]' = [F EXCEPT ![n] = top]
  BY <1>3, TopMoves DEF Goto
<1>5. F = [i \in 1 .. n |-> F[i]] /\ F[n] = old
  BY <1>1 DEF AllFrames
<1>6. [old EXCEPT !.pc = pc, !.vals = V] = top
  <2>1. [Act EXCEPT !.pc = pc].pc = pc /\ [Act EXCEPT !.pc = pc].fn = Act.fn
        /\ [Act EXCEPT !.pc = pc].spBase = Act.spBase /\ [Act EXCEPT !.pc = pc].localsBase = Act.localsBase
    BY <1>1 DEF Activations
  <2> DEFINE ls == SubSeq(locals, Act.localsBase + 1, Len(locals))
             fn == Act.fn
             from == Act.pc
             vs == Blocks
             mid == [fn |-> fn, pc |-> pc, vals |-> vs, locals |-> ls]
  <2>2. top = [fn |-> fn, pc |-> pc, vals |-> V, locals |-> ls]
    BY <2>1 DEF FrameAt, Fn
  <2>3. old = [fn |-> fn, pc |-> from, vals |-> vs, locals |-> ls]
    BY DEF FrameAt, Blocks, Fn
  <2> HIDE DEF top, old, V, ls, fn, from, vs
  <2>4. [old EXCEPT !.pc = pc] = mid
    BY <2>3
  <2>5. [mid EXCEPT !.vals = V] = top
    BY <2>2
  <2> HIDE DEF mid
  <2>6. [[old EXCEPT !.pc = pc] EXCEPT !.vals = V] = top
    BY <2>4, <2>5
  <2> QED
    BY <2>6
<1> HIDE DEF F, V, top, old, n
<1>7. Len(F) = n
  BY <1>1, <1>5
<1>8. [F EXCEPT ![n].pc = pc, ![n].vals = V] = [F EXCEPT ![n] = [old EXCEPT !.pc = pc, !.vals = V]]
  BY <1>1, <1>5
<1>9. [i \in 1 .. Len(acts) |-> CallOf(i)]' = [F EXCEPT ![Len(F)].pc = pc, ![Len(F)].vals = V]
  BY <1>4, <1>6, <1>7, <1>8
<1>10. UNCHANGED (IF reply \in {"none", "ok"} THEN reply ELSE "trap")
  BY DEF Goto
<1> QED
  BY <1>2, <1>9, <1>10 DEF Structured!Stepped, V

(* The blocks below the k-th are left alone, and the k-th is the innermost. *)
LEMMA CutBack ==
  ASSUME Inv, Inv', Running, NEW pc \in Nat,
         NEW k \in 1 .. Deep + 1, Len(Open(Fn.body, pc)) = k - 1,
         \A j \in 1 .. k - 1 : Open(Fn.body, pc)[j].base = Open(Fn.body, Act.pc)[j].base,
         Marked(k) <= Len(stack'), \A i \in 1 .. Marked(k) : stack'[i] = stack[i]
  PROVE  /\ Act.spBase <= Len(stack') /\ \A j \in 1 .. Act.spBase : stack'[j] = stack[j]
         /\ BlocksAt(stack', Open(Fn.body, pc), Act.spBase, Len(stack')) =
              Append(SubSeq(Blocks, 1, k - 1), SubSeq(stack', Marked(k) + 1, Len(stack')))
<1> DEFINE o == Open(Fn.body, Act.pc)
           q == Open(Fn.body, pc)
           sb == Act.spBase
           to == Len(stack)
           m == Marked(k)
           e == Len(stack')
           l == k - 1
<1>1. /\ Deep \in Nat /\ Deep = Len(o) /\ sb \in Nat /\ to \in Nat /\ to <= Len(stack)
      /\ stack \in Seq(Words) /\ Rising(o, sb, to)
      /\ m \in Nat /\ sb <= m
  <2>1. /\ Deep \in Nat /\ Deep = Len(o) /\ sb \in Nat /\ to \in Nat
        /\ stack \in Seq(Words) /\ Rising(o, sb, to)
    BY BlocksHere
  <2>2. m \in Nat /\ sb <= m
    BY BlocksHere
  <2> QED
    BY <2>1, <2>2
<1>2. stack' \in Seq(Words) /\ Len(stack') \in Nat
  BY LenProperties DEF Inv, StackTypes
<1>3. sb <= Len(stack') /\ \A j \in 1 .. sb : stack'[j] = stack[j]
  <2>0. m <= Len(stack') /\ \A i \in 1 .. m : stack'[i] = stack[i]
    OBVIOUS
  <2> HIDE DEF m, sb
  <2>1. sb <= Len(stack') /\ \A j \in 1 .. sb : j \in 1 .. m
    BY <1>1, <1>2, <2>0
  <2> QED
    BY <2>0, <2>1
<1>4. BlocksAt(stack', q, sb, e) = Append(SubSeq(BlocksAt(stack, o, sb, to), 1, l), SubSeq(stack', m + 1, e))
  <2>0. l \in Nat /\ l \in 0 .. Len(o) /\ l + 1 = k
    BY <1>1
  <2>1. m = Mark(o, sb, to, l + 1) /\ m <= e /\ \A i \in 1 .. m : stack'[i] = stack[i]
    BY <2>0 DEF Marked
  <2>2. Len(q) = l /\ \A j \in 1 .. l : q[j].base = o[j].base
    OBVIOUS
  <2>3. e = Len(stack')
    OBVIOUS
  <2> HIDE DEF o, q, sb, to, m, e, l
  <2>4. Kept(Words, stack, stack', o, q, l, sb, to, m, e)
    BY <1>1, <1>2, <2>0, <2>1, <2>2, <2>3 DEF Kept
  <2>5. e \in Nat
    BY <1>2 DEF e
  <2>6. Regrouped(stack, stack', o, q, l, sb, to, m, e)
    BY <1>1, <2>0, <2>4, <2>5, BlocksKept
  <2> QED
    BY <2>6 DEF Regrouped
<1> QED
  BY <1>3, <1>4 DEF Blocks, Marked

(* A step that leaves the blocks below the k-th alone and makes the k-th   *)
(* the innermost.                                                          *)
LEMMA Shrinks ==
  ASSUME Inv, Inv', Standing, Running, UNCHANGED <<prog, locals>>, NEW pc \in Nat, Goto(pc),
         NEW k \in 1 .. Deep + 1, Len(Open(Fn.body, pc)) = k - 1,
         \A j \in 1 .. k - 1 : Open(Fn.body, pc)[j].base = Open(Fn.body, Act.pc)[j].base,
         Marked(k) <= Len(stack'), \A i \in 1 .. Marked(k) : stack'[i] = stack[i]
  PROVE  Structured!Stepped(pc, Append(SubSeq(Blocks, 1, k - 1),
                                       SubSeq(stack', Marked(k) + 1, Len(stack'))))
<1>1. /\ Act.spBase <= Len(stack') /\ \A j \in 1 .. Act.spBase : stack'[j] = stack[j]
      /\ BlocksAt(stack', Open(Fn.body, pc), Act.spBase, Len(stack')) =
           Append(SubSeq(Blocks, 1, k - 1), SubSeq(stack', Marked(k) + 1, Len(stack')))
  BY CutBack
<1>2. Structured!Stepped(pc, BlocksAt(stack', Open(Fn.body, pc), Act.spBase, Len(stack')))
  BY <1>1, StepIs
<1> QED
  BY <1>1, <1>2

(* A step that leaves the innermost block over the operands it has and     *)
(* begins another.                                                         *)
LEMMA Grows1 ==
  ASSUME Inv, Inv', Standing, Running, UNCHANGED <<prog, locals>>, NEW pc \in Nat, Goto(pc),
         pc \in 1 .. Len(Fn.body), Len(Open(Fn.body, pc)) = Deep + 1,
         \A j \in 1 .. Deep : Open(Fn.body, pc)[j].base = Open(Fn.body, Act.pc)[j].base,
         Len(stack') = Act.spBase + Open(Fn.body, pc)[Deep + 1].base,
         Base <= Len(stack'), \A i \in 1 .. Base : stack'[i] = stack[i]
  PROVE  Structured!Stepped(pc, Front(Blocks) \o <<SubSeq(stack', Base + 1, Len(stack')), << >> >>)
<1> DEFINE o == Open(Fn.body, Act.pc)
           q == Open(Fn.body, pc)
           sb == Act.spBase
           n == Len(stack')
           V == BlocksAt(stack', q, sb, n)
           low == SubSeq(Blocks, 1, Deep)
           X == SubSeq(stack', Base + 1, n)
           W == BlocksAt(stack', o, sb, n)
<1>1. /\ Deep \in Nat /\ Deep = Len(o) /\ sb \in Nat /\ Base \in Nat /\ sb <= Base
      /\ stack \in Seq(Words) /\ Rising(o, sb, Len(stack)) /\ Marked(Deep + 1) = Base
      /\ Len(stack) \in Nat /\ Blocks \in Seq(Seq(Words)) /\ Len(Blocks) = Deep + 1
  BY BlocksHere
<1>2. stack' \in Seq(Words) /\ n \in Nat
  BY LenProperties DEF Inv, StackTypes
<1>3. sb <= n /\ \A j \in 1 .. sb : stack'[j] = stack[j]
  <2>0. Base <= n /\ \A i \in 1 .. Base : stack'[i] = stack[i]
    OBVIOUS
  <2> HIDE DEF n, sb
  <2>1. sb <= n /\ \A j \in 1 .. sb : j \in 1 .. Base
    BY <1>1, <1>2, <2>0
  <2> QED
    BY <2>0, <2>1
<1>4. Structured!Stepped(pc, V)
  BY <1>3, StepIs
<1>5. W = Append(low, X)
  <2> DEFINE to == Len(stack)
             low1 == Base
  <2>1. /\ low1 = Mark(o, sb, to, Deep + 1) /\ low1 \in Nat /\ low1 <= n
        /\ \A i \in 1 .. low1 : stack'[i] = stack[i]
    BY <1>1 DEF Marked
  <2>2. Len(o) = Deep /\ Deep \in 0 .. Len(o) /\ Deep \in Nat /\ to \in Nat /\ to <= Len(stack)
        /\ n \in Nat /\ n = Len(stack') /\ Len(o) \in Nat
    BY <1>1, <1>2
  <2>3. Rising(o, sb, to) /\ Blocks = BlocksAt(stack, o, sb, to)
    BY <1>1 DEF Blocks
  <2>4. X = SubSeq(stack', low1 + 1, n)
    OBVIOUS
  <2> HIDE DEF o, sb, to, n, low1, X
  <2>5. Kept(Words, stack, stack', o, o, Deep, sb, to, low1, n)
    BY <1>1, <1>2, <2>1, <2>2, <2>3 DEF Kept
  <2>6. Regrouped(stack, stack', o, o, Deep, sb, to, low1, n)
    BY <1>1, <2>1, <2>2, <2>5, BlocksKept
  <2> QED
    BY <2>3, <2>4, <2>6 DEF Regrouped
<1>6. /\ low = Front(Blocks) /\ low \in Seq(Seq(Words)) /\ Len(low) = Deep
  <2>0. Blocks # << >> /\ Len(Blocks) - 1 = Deep
    BY <1>1
  <2>1. Front(Blocks) \in Seq(Seq(Words)) /\ Len(Front(Blocks)) = Deep
    BY <1>1, <2>0, LastIs
  <2> QED
    BY <2>0, <2>1 DEF Front
<1>7. X \in Seq(Words)
  <2>1. Base <= n /\ n <= Len(stack')
    BY <1>2
  <2> HIDE DEF n
  <2> QED
    BY <1>1, <1>2, <2>1, PieceIs
<1>8. \A j \in 1 .. Deep : Mark(q, sb, n, j) = Mark(o, sb, n, j) /\ Mark(q, sb, n, j + 1) = Mark(o, sb, n, j + 1)
  <2> TAKE j \in 1 .. Deep
  <2>1. j # Deep + 2 /\ j # Deep + 3 /\ j + 1 # Deep + 2 /\ j + 1 # Deep + 3 /\ j + 1 # 1 /\ j + 1 - 1 = j
        /\ (j # 1 => j - 1 \in 1 .. Deep) /\ Len(q) + 2 = Deep + 3 /\ Len(o) + 2 = Deep + 2
    <3> DEFINE d == Deep
               lq == Len(q)
               lo == Len(o)
    <3>1. d \in Nat /\ lo = d /\ lq = d + 1 /\ j \in 1 .. d
      BY <1>1
    <3> HIDE DEF d, lo, lq
    <3>2. /\ j # d + 2 /\ j # d + 3 /\ j + 1 # d + 2 /\ j + 1 # d + 3 /\ j + 1 # 1 /\ j + 1 - 1 = j
          /\ (j # 1 => j - 1 \in 1 .. d) /\ lq + 2 = d + 3 /\ lo + 2 = d + 2
      BY <3>1
    <3> QED
      BY <3>2 DEF d, lo, lq
  <2>2. q[j].base = o[j].base /\ (j # 1 => q[j - 1].base = o[j - 1].base)
    BY <2>1
  <2> HIDE DEF o, q
  <2> QED
    BY <2>1, <2>2 DEF Mark
<1>9. /\ Mark(q, sb, n, Deep + 1) = Base /\ Mark(q, sb, n, Deep + 2) = n /\ Mark(q, sb, n, Deep + 3) = n
  <2>1. Len(q) + 2 = Deep + 3 /\ Deep + 1 # Deep + 3 /\ Deep + 2 # Deep + 3 /\ Deep + 2 # 1 /\ Deep + 3 # 1
        /\ Deep + 2 - 1 = Deep + 1
    BY <1>1
  <2>4. n = sb + q[Deep + 1].base
    OBVIOUS
  <2>2. Mark(q, sb, n, Deep + 2) = n /\ Mark(q, sb, n, Deep + 3) = n
    <3> DEFINE e == Deep + 2
    <3>1. Len(q) + 2 = Deep + 3 /\ e # Deep + 3 /\ e # 1 /\ Deep + 3 # 1 /\ e - 1 = Deep + 1
      BY <1>1, <2>1
    <3> HIDE DEF q, sb, n, e
    <3>2. Mark(q, sb, n, e) = n
      BY <2>4, <3>1 DEF Mark
    <3>3. Mark(q, sb, n, Deep + 3) = n
      BY <3>1 DEF Mark
    <3> QED
      BY <3>2, <3>3 DEF e
  <2>3. Mark(q, sb, n, Deep + 1) = Mark(o, sb, Len(stack), Deep + 1)
    <3>1. CASE Deep = 0
      BY <3>1 DEF Mark
    <3>2. CASE Deep # 0
      <4> DEFINE d == Deep
                 e == Deep + 1
                 lo == Len(o)
                 lq == Len(q)
      <4>1. e # 1 /\ e # lo + 2 /\ e # lq + 2 /\ e - 1 = d /\ d \in 1 .. d
        BY <1>1, <2>1, <3>2
      <4>2. q[d].base = o[d].base
        BY <4>1 DEF d
      <4> HIDE DEF d, e, o, q, sb
      <4>3. Mark(q, sb, n, e) = sb + q[d].base
        BY <4>1 DEF Mark, lq
      <4>4. Mark(o, sb, Len(stack), e) = sb + o[d].base
        BY <4>1 DEF Mark, lo
      <4> QED
        BY <4>2, <4>3, <4>4 DEF e
    <3> QED
      BY <3>1, <3>2
  <2> QED
    BY <1>1, <2>2, <2>3 DEF Marked
<1>10. V = [j \in 1 .. Deep + 2 |-> SubSeq(stack', Mark(q, sb, n, j) + 1, Mark(q, sb, n, j + 1))]
  <2>1. Len(q) + 1 = Deep + 2
    BY <1>1
  <2> QED
    BY <2>1 DEF BlocksAt
<1>11. W = [j \in 1 .. Deep + 1 |-> SubSeq(stack', Mark(o, sb, n, j) + 1, Mark(o, sb, n, j + 1))]
  BY <1>1 DEF BlocksAt
<1> DEFINE two == <<X, << >> >>
<1>12. two \in Seq(Seq(Words)) /\ Len(two) = 2 /\ two[1] = X /\ two[2] = << >>
  <2> DEFINE SS == Seq(Words)
  <2>1. X \in SS /\ << >> \in SS
    BY <1>7
  <2> HIDE DEF SS, X
  <2> QED
    BY <2>1 DEF SS
<1>13. SubSeq(stack', n + 1, n) = << >>
  <2> HIDE DEF n
  <2>1. n <= Len(stack') /\ n <= n /\ n - n = 0
    BY <1>2 DEF n
  <2>2. SubSeq(stack', n + 1, n) \in Seq(Words) /\ Len(SubSeq(stack', n + 1, n)) = 0
    BY <1>2, <2>1, PieceIs
  <2> QED
    BY <2>2, EmptySeq
<1> HIDE DEF V, W, two, low, X, n, q, o, sb
<1>14. /\ low \o two \in Seq(Seq(Words)) /\ Len(low \o two) = Deep + 2
       /\ \A i \in 1 .. Deep + 2 : (low \o two)[i] = IF i <= Deep THEN low[i] ELSE two[i - Deep]
  <2> DEFINE SS == Seq(Words)
  <2>1. low \in Seq(SS) /\ two \in Seq(SS)
    BY <1>6, <1>12
  <2> HIDE DEF SS
  <2>2. low \o two \in Seq(SS) /\ Len(low \o two) = Len(low) + Len(two)
    BY <2>1, ConcatProperties
  <2>3. \A i \in 1 .. Len(low) + Len(two) : (low \o two)[i] = IF i <= Len(low) THEN low[i] ELSE two[i - Len(low)]
    BY <2>1, ConcatProperties
  <2> QED
    BY <1>6, <1>12, <2>2, <2>3 DEF SS
<1>15. \A j \in 1 .. Deep : W[j] = low[j]
  <2> DEFINE SS == Seq(Words)
  <2>1. low \in Seq(SS) /\ X \in SS
    BY <1>6, <1>7
  <2> HIDE DEF SS
  <2> QED
    BY <1>5, <1>6, <2>1, AppendProperties
<1>16. \A j \in 1 .. Deep + 2 : V[j] = (low \o two)[j]
  <2> TAKE j \in 1 .. Deep + 2
  <2>1. CASE j \in 1 .. Deep
    <3>1. j \in 1 .. Deep + 1 /\ j <= Deep
      BY <1>1, <2>1
    <3> QED
      BY <1>8, <1>10, <1>11, <1>14, <1>15, <2>1, <3>1
  <2>2. CASE j = Deep + 1
    <3>1. ~(j <= Deep) /\ j - Deep = 1 /\ j + 1 = Deep + 2
      BY <1>1, <2>2
    <3> QED
      BY <1>9, <1>10, <1>12, <1>14, <2>2, <3>1 DEF X
  <2>3. CASE j = Deep + 2
    <3>1. ~(j <= Deep) /\ j - Deep = 2 /\ j + 1 = Deep + 3
      BY <1>1, <2>3
    <3> QED
      BY <1>9, <1>10, <1>12, <1>13, <1>14, <2>3, <3>1
  <2> QED
    <3>1. j \in 1 .. Deep \/ j = Deep + 1 \/ j = Deep + 2
      BY <1>1
    <3> QED
      BY <2>1, <2>2, <2>3, <3>1
<1>17. V = low \o two
  <2>1. DOMAIN (low \o two) = 1 .. Deep + 2 /\ low \o two = [j \in 1 .. Deep + 2 |-> (low \o two)[j]]
    BY <1>14, LenProperties
  <2> QED
    BY <1>10, <1>16, <2>1
<1> QED
  BY <1>4, <1>6, <1>17 DEF V, two, X, n, q, sb

----------------------------------------------------------------------------
(* The instructions, one by one: what each does to the shared stacks is what*)
(* the structured machine does to its blocks.                               *)

(* What an instruction may use belongs to the innermost block.             *)
LEMMA EnoughHere ==
  ASSUME Inv, Running, NEW n \in Nat, Enough(Fn.body, Act.pc, n)
  PROVE  Base \in Nat /\ Len(stack) \in Nat /\ Base + n <= Len(stack) /\ Len(stack) - n \in Nat
<1> DEFINE h == Height(Fn.body, Act.pc)
           fl == Floor(Fn.body, Act.pc)
           sb == Act.spBase
           s == Len(stack)
<1>1. sb \in Nat /\ h \in Nat /\ s = sb + h /\ s \in Nat
  BY Here
<1>2. fl \in Nat
  BY Here, FloorIs
<1>3. h >= fl + n
  BY DEF Enough
<1>4. Base = sb + fl
  BY DEF Base
<1> HIDE DEF h, fl, sb, s
<1>5. Base \in Nat /\ s \in Nat /\ Base + n <= s /\ s - n \in Nat
  BY <1>1, <1>2, <1>3, <1>4
<1> QED
  BY <1>5 DEF s

(* The innermost block, without what is taken from its top.                *)
LEMMA InnerEnds ==
  ASSUME Inv, Running, NEW n \in Nat, Base + n <= Len(stack)
  PROVE  /\ Structured!Inner \in Seq(Words) /\ Len(Structured!Inner) = Len(stack) - Base
         /\ Without(Structured!Inner, n) = SubSeq(stack, Base + 1, Len(stack) - n)
         /\ LastOf(Structured!Inner, n) = LastOf(stack, n)
<1> DEFINE a == Base
           s == Len(stack)
<1>1. a \in Nat /\ s \in Nat /\ a <= s /\ stack \in Seq(Words) /\ s = Len(stack)
  BY BlocksHere
<1>2. Structured!Inner = SubSeq(stack, a + 1, s)
  BY Sights
<1>3. a + n <= s
  OBVIOUS
<1> HIDE DEF a, s
<1>4. SubSeq(stack, a + 1, s) \in Seq(Words) /\ Len(SubSeq(stack, a + 1, s)) = s - a
  <2>1. s <= Len(stack)
    BY <1>1
  <2> QED
    BY <1>1, <2>1, PieceIs
<1>5. /\ Without(SubSeq(stack, a + 1, Len(stack)), n) = SubSeq(stack, a + 1, Len(stack) - n)
      /\ LastOf(SubSeq(stack, a + 1, Len(stack)), n) = LastOf(stack, n)
  BY <1>1, <1>3, PieceEnds
<1> QED
  BY <1>1, <1>2, <1>4, <1>5 DEF a, s

LEMMA PlainEnds ==
  ASSUME NEW S, NEW s \in Seq(S), NEW v \in S
  PROVE  /\ s \o <<v>> = Append(s, v) /\ s \o << >> = s
         /\ s # << >> => Without(s, 1) = Front(s)
         /\ Without(s, 0) = s
<1>1. s \o << >> = s
  OBVIOUS
<1>2. s \o <<v>> = Append(s, v)
  OBVIOUS
<1>3. s # << >> => Without(s, 1) = Front(s)
  BY DEF Without, Front
<1>4. Without(s, 0) = s
  <2>1. Len(s) - 0 = Len(s)
    BY LenProperties
  <2> QED
    BY <2>1, WholeSeq DEF Without
<1> QED
  BY <1>1, <1>2, <1>3, <1>4

(* An error is a trap.                                                     *)
LEMMA FailTraps ==
  ASSUME Inv', NEW e, e \notin {"none", "ok"}, Fail(e)
  PROVE  Structured!Trap
<1>1. acts' = << >> /\ reply' = e
  BY DEF Fail
<1>2. Len(acts') = 0
  BY <1>1
<1>3. [i \in 1 .. Len(acts) |-> CallOf(i)]' = AllFrames(prog', acts', stack', locals')
  BY FramesNext
<1>4. AllFrames(prog', acts', stack', locals') = << >>
  BY <1>2 DEF AllFrames
<1>5. (IF reply \in {"none", "ok"} THEN reply ELSE "trap")' = "trap"
  BY <1>1
<1> QED
  BY <1>3, <1>4, <1>5 DEF Structured!Trap

(* An instruction that moves operands alone does so in the innermost block.*)
LEMMA OperandsMove ==
  ASSUME Inv, Inv', Standing, Running, UNCHANGED prog,
         Instr.op \notin Openers \cup {"else", "end"},
         NEW n \in Nat, NEW out \in Seq(Words), Enough(Fn.body, Act.pc, n), PopPush(n, out)
  PROVE  Structured!Trap \/ Structured!Operands(Without(Structured!Inner, n) \o out)
<1> DEFINE s == Len(stack)
           t == s - n
           a == Base
           u == SubSeq(stack, 1, t) \o out
<1>1. a \in Nat /\ s \in Nat /\ a + n <= s /\ t \in Nat
  BY EnoughHere
<1>2. /\ Deep \in Nat /\ Deep = Len(Open(Fn.body, Act.pc)) /\ Marked(Deep + 1) = Base
      /\ stack \in Seq(Words) /\ Len(Blocks) = Deep + 1
  BY BlocksHere
<1>3. ~Opens(Fn.body, Act.pc) /\ ~Closes(Fn.body, Act.pc) /\ Instr.op # "else"
  BY Straight
<1>4. /\ Next1 \in 1 .. Len(Fn.body) /\ Next1 \in Nat /\ Open(Fn.body, Next1) = Open(Fn.body, Act.pc)
  BY <1>3, NextIs
<1>5. CASE Len(stack) < n
  BY <1>5, FailTraps DEF PopPush
<1>6. CASE ~(Len(stack) < n) /\ Len(stack) - n + Len(out) > StackSize
  BY <1>6, FailTraps DEF PopPush
<1>7. CASE ~(Len(stack) < n) /\ ~(Len(stack) - n + Len(out) > StackSize)
  <2>1. stack' = u /\ Goto(Next1) /\ UNCHANGED locals
    BY <1>7 DEF PopPush, Without
  <2>2. s <= Len(stack) /\ a <= t /\ t <= Len(stack)
    BY <1>1
  <2> HIDE DEF s, t, a
  <2>3. /\ a <= Len(u) /\ \A i \in 1 .. t : u[i] = stack[i]
        /\ SubSeq(u, a + 1, Len(u)) = SubSeq(stack, a + 1, t) \o out
    <3>1. stack \in Seq(Words) /\ out \in Seq(Words) /\ a \in Nat /\ t \in Nat /\ a <= t /\ t <= Len(stack)
      BY <1>1, <1>2, <2>2
    <3>2. OnTop(Words, stack, out, a, t)
      BY <3>1, PieceOn
    <3> QED
      BY <3>2 DEF OnTop
  <2>4. Without(Structured!Inner, n) = SubSeq(stack, a + 1, t)
    <3>1. Without(Structured!Inner, n) = SubSeq(stack, Base + 1, Len(stack) - n)
      BY <1>1, InnerEnds DEF a, s
    <3> QED
      BY <3>1 DEF a, s, t
  <2> HIDE DEF u
  <2>5. \A i \in 1 .. a : u[i] = stack[i]
    BY <1>1, <2>2, <2>3
  <2> DEFINE k == Deep + 1
             pc == Next1
  <2>6. /\ k \in 1 .. Deep + 1 /\ k - 1 = Deep /\ pc \in Nat /\ Goto(pc)
        /\ Len(Open(Fn.body, pc)) = k - 1
        /\ \A j \in 1 .. k - 1 : Open(Fn.body, pc)[j].base = Open(Fn.body, Act.pc)[j].base
    BY <1>2, <1>4, <2>1
  <2>7. /\ Marked(k) <= Len(stack') /\ \A i \in 1 .. Marked(k) : stack'[i] = stack[i]
        /\ Marked(k) = a
    BY <1>2, <2>1, <2>3, <2>5 DEF a
  <2>8. UNCHANGED <<prog, locals>>
    BY <2>1
  <2> HIDE DEF k, pc
  <2>9. Structured!Stepped(pc, Append(SubSeq(Blocks, 1, k - 1), SubSeq(stack', Marked(k) + 1, Len(stack'))))
    BY <2>6, <2>7, <2>8, Shrinks
  <2>10. SubSeq(stack', Marked(k) + 1, Len(stack')) = Without(Structured!Inner, n) \o out
    BY <2>1, <2>3, <2>4, <2>7
  <2>11. SubSeq(Blocks, 1, k - 1) = Structured!Front(Structured!Top.vals)
    <3>1. Structured!Top.vals = Blocks
      BY Sights
    <3>2. Front(Blocks) = SubSeq(Blocks, 1, k - 1)
      <4>1. Len(Blocks) - 1 = k - 1
        BY <1>2 DEF k
      <4> QED
        BY <4>1 DEF Front
    <3> QED
      BY <3>1, <3>2, SameReading
  <2>12. Structured!Top.pc + 1 = pc
    BY Sights DEF pc, Next1
  <2>13. Structured!Operands(Without(Structured!Inner, n) \o out)
    BY <2>9, <2>10, <2>11, <2>12 DEF Structured!Operands
  <2> QED
    BY <2>13
<1> QED
  BY <1>5, <1>6, <1>7

LEMMA TrapSteps ==
  ASSUME UNCHANGED prog, Structured!Trap
  PROVE  Structured!StructNext
BY DEF Structured!StructNext

(* Instructions without blocks or locals.                                   *)
LEMMA PlainSteps ==
  ASSUME Inv, Inv', Standing, Plain \/ Unreachable
  PROVE  Structured!StructNext
<1>1. CASE Unreachable
  BY <1>1, FailTraps, TrapSteps DEF Unreachable, Runs
<1>2. CASE Plain
  <2>1. /\ Running /\ UNCHANGED prog /\ Instr.op = "plain"
    BY <1>2 DEF Plain, Runs
  <2>2. Instr.op \notin Openers \cup {"else", "end"}
    BY <2>1 DEF Openers
  <2>3. /\ Instr.arg.pops \in Nat /\ Instr.arg.out \subseteq Seq(Words)
        /\ \A out \in Instr.arg.out : Goes(Fn.body, Act.pc, Instr.arg.pops, Len(out))
    BY <2>1, <2>2, Straight DEF OperandsChecked, Instr
  <2>4. CASE Fail("trap")
    BY <2>1, <2>4, FailTraps, TrapSteps
  <2>5. ASSUME NEW out \in Instr.arg.out, PopPush(Instr.arg.pops, out) PROVE Structured!StructNext
    <3>1. out \in Seq(Words) /\ Enough(Fn.body, Act.pc, Instr.arg.pops)
      BY <2>3, <2>5 DEF Goes
    <3>2. Structured!Trap \/ Structured!Operands(Without(Structured!Inner, Instr.arg.pops) \o out)
      BY <2>1, <2>2, <2>3, <2>5, <3>1, OperandsMove
    <3>3. CASE Structured!Operands(Without(Structured!Inner, Instr.arg.pops) \o out)
      <4>1. Structured!Instr = Instr /\ Structured!Running
        BY <2>1, Sights
      <4>2. Structured!Without(Structured!Inner, Instr.arg.pops) = Without(Structured!Inner, Instr.arg.pops)
        BY SameReading
      <4>3. Structured!Plain
        BY <2>1, <3>3, <4>1, <4>2 DEF Structured!Plain
      <4> QED
        BY <2>1, <4>1, <4>3 DEF Structured!StructNext
    <3> QED
      BY <2>1, <3>2, <3>3, TrapSteps
  <2> QED
    BY <1>2, <2>4, <2>5 DEF Plain
<1> QED
  BY <1>1, <1>2

(* One value is pushed for n.                                              *)
LEMMA PushOneSteps ==
  ASSUME Inv, Inv', Standing, Running, UNCHANGED prog,
         Instr.op \notin Openers \cup {"else", "end"},
         NEW n \in {0, 1}, NEW v \in Words, Enough(Fn.body, Act.pc, n), PopPush(n, <<v>>)
  PROVE  \/ Structured!Trap
         \/ n = 0 /\ Structured!Operands(Append(Structured!Inner, v))
         \/ n = 1 /\ Structured!Operands(Append(Front(Structured!Inner), v))
<1> DEFINE out == <<v>>
           inner == Structured!Inner
<1>1. out \in Seq(Words) /\ PopPush(n, out) /\ n \in Nat
  OBVIOUS
<1>2. Structured!Trap \/ Structured!Operands(Without(inner, n) \o out)
  <2> HIDE DEF out, inner
  <2>1. Structured!Trap \/ Structured!Operands(Without(Structured!Inner, n) \o out)
    BY <1>1, OperandsMove
  <2> QED
    BY <2>1 DEF inner
<1>3. /\ inner \in Seq(Words) /\ Len(inner) >= n /\ Len(inner) \in Nat
  <2>1. Base \in Nat /\ Len(stack) \in Nat /\ Base + n <= Len(stack)
    BY <1>1, EnoughHere
  <2>2. inner \in Seq(Words) /\ Len(inner) = Len(stack) - Base
    BY <1>1, <2>1, InnerEnds
  <2> QED
    BY <1>1, <2>1, <2>2
<1>4. CASE n = 0
  <2> HIDE DEF inner
  <2>1. Without(inner, 0) = inner /\ inner \o out = Append(inner, v)
    BY <1>3, PlainEnds
  <2> QED
    BY <1>2, <1>4, <2>1 DEF inner
<1>5. CASE n = 1
  <2> HIDE DEF inner
  <2>1. inner # << >>
    BY <1>3, <1>5
  <2>2. Without(inner, 1) = Front(inner)
    BY <1>3, <2>1, PlainEnds
  <2>3. Front(inner) \in Seq(Words)
    BY <1>3, <2>1, LastIs
  <2>4. Front(inner) \o out = Append(Front(inner), v)
    BY <2>3, PlainEnds
  <2> QED
    BY <1>2, <1>5, <2>2, <2>4 DEF inner
<1> QED
  BY <1>4, <1>5

LEMMA LocalGetSteps ==
  ASSUME Inv, Inv', Standing, LocalGet
  PROVE  Structured!StructNext
<1> DEFINE v == locals[LocalAt(Instr.arg)]
<1>1. /\ Running /\ UNCHANGED prog /\ Instr.op = "get"
  BY DEF LocalGet, Runs
<1>2. Instr.op \notin Openers \cup {"else", "end"}
  BY <1>1 DEF Openers
<1>3. Known(Instr.arg) /\ v \in Words /\ LocalAt(Instr.arg) \in 1 .. Len(locals)
  BY <1>1, LocalIs
<1>4. PopPush(0, <<v>>)
  BY <1>3 DEF LocalGet
<1>5. Enough(Fn.body, Act.pc, 0)
  BY <1>1, <1>2, Straight DEF OperandsChecked, Instr, Goes
<1>6. Structured!Top.locals[Instr.arg] = v
  <2> DEFINE lb == Act.localsBase
             m == Len(locals)
             k == Instr.arg
  <2>1. Structured!Top.locals = SubSeq(locals, lb + 1, m)
    BY <1>1, Sights
  <2>2. lb \in Nat /\ m \in Nat /\ locals \in Seq(Words) /\ m = lb + Fn.params + Fn.locals
        /\ Fn.params \in Nat /\ Fn.locals \in Nat
    BY <1>1, Here DEF Inv, StackTypes
  <2>3. k \in 1 .. Fn.params + Fn.locals
    BY <1>1, <1>2, Straight DEF OperandsChecked, Instr
  <2>4. k \in 1 .. m - lb /\ lb <= m /\ m <= Len(locals)
    <3>1. m <= Len(locals)
      BY <2>2
    <3> HIDE DEF lb, m, k
    <3> QED
      BY <2>2, <2>3, <3>1
  <2> HIDE DEF lb, m, k
  <2>5. \A i \in 1 .. m - lb : SubSeq(locals, lb + 1, m)[i] = locals[lb + i]
    BY <2>2, <2>4, PieceIs
  <2>6. SubSeq(locals, lb + 1, m)[k] = locals[lb + k]
    BY <2>4, <2>5
  <2> QED
    BY <2>1, <2>6 DEF LocalAt, lb, m, k
<1> HIDE DEF v
<1>7. Structured!Trap \/ Structured!Operands(Append(Structured!Inner, v))
  BY <1>1, <1>2, <1>3, <1>4, <1>5, PushOneSteps
<1>8. Structured!Instr = Instr /\ Structured!Running
  BY <1>1, Sights
<1>9. CASE Structured!Operands(Append(Structured!Inner, v))
  BY <1>1, <1>6, <1>8, <1>9 DEF Structured!Local, Structured!StructNext
<1> QED
  BY <1>1, <1>7, <1>9, TrapSteps

LEMMA MemorySteps ==
  ASSUME Inv, Inv', Standing, memPages \in Words, LoadStore \/ MemoryGrow
  PROVE  Structured!StructNext
<1>1. /\ Running /\ UNCHANGED prog /\ Instr.op \in {"load", "store", "grow"}
  BY DEF LoadStore, MemoryGrow
<1>2. Instr.op \notin Openers \cup {"else", "end"}
  BY <1>1 DEF Openers
<1>3. OperandsChecked(Fn, Act.pc) /\ Structured!Instr = Instr /\ Structured!Running
  BY <1>1, <1>2, Straight, Sights
<1>4. ASSUME NEW v \in Words, PopPush(1, <<v>>), Instr.op \in {"load", "grow"}
      PROVE  Structured!StructNext
  <2>1. Enough(Fn.body, Act.pc, 1)
    BY <1>3, <1>4 DEF OperandsChecked, Instr, Goes
  <2>2. Structured!Trap \/ Structured!Operands(Append(Front(Structured!Inner), v))
    <3>1. 1 \in {0, 1} /\ ~(1 = 0)
      OBVIOUS
    <3> QED
      BY <1>1, <1>2, <1>4, <2>1, <3>1, PushOneSteps
  <2>3. Structured!Front(Structured!Inner) = Front(Structured!Inner)
    BY SameReading
  <2>4. CASE Structured!Operands(Append(Front(Structured!Inner), v))
    <3>1. Structured!Memory
      BY <1>3, <1>4, <2>3, <2>4 DEF Structured!Memory
    <3> QED
      BY <1>1, <1>3, <3>1 DEF Structured!StructNext
  <2> QED
    BY <1>1, <2>2, <2>4, TrapSteps
<1>5. CASE MemoryGrow
  <2>1. Instr.op = "grow"
    BY <1>5 DEF MemoryGrow
  <2>2. CASE stack = << >>
    BY <1>1, <1>5, <2>2, FailTraps, TrapSteps DEF MemoryGrow
  <2>3. CASE stack # << >>
    <3>1. PICK answer \in {memPages, Word - 1} : PopPush(1, <<answer>>)
      BY <1>5, <2>3 DEF MemoryGrow
    <3>2. answer \in Words
      BY MemoryAssumption DEF Words
    <3> QED
      BY <1>4, <2>1, <3>1, <3>2
  <2> QED
    BY <2>2, <2>3
<1>6. CASE LoadStore /\ Instr.op = "load"
  <2>1. Fail("short") \/ Fail("memory") \/ \E v \in Loads : PopPush(1, <<v>>)
    BY <1>6 DEF LoadStore
  <2>2. ASSUME NEW v \in Loads, PopPush(1, <<v>>) PROVE Structured!StructNext
    <3>1. v \in Words
      BY LimitsAssumption
    <3> QED
      BY <1>4, <1>6, <2>2, <3>1
  <2> QED
    BY <1>1, <2>1, <2>2, FailTraps, TrapSteps
<1>7. CASE LoadStore /\ Instr.op = "store"
  <2>1. Fail("short") \/ Fail("memory") \/ PopPush(2, << >>)
    <3>1. Instr.op # "load"
      BY <1>7
    <3> QED
      BY <1>7, <3>1 DEF LoadStore
  <2>2. Enough(Fn.body, Act.pc, 2)
    BY <1>3, <1>7 DEF OperandsChecked, Instr, Goes
  <2>3. CASE PopPush(2, << >>)
    <3> DEFINE none == << >>
               inner == Structured!Inner
    <3>1. none \in Seq(Words) /\ PopPush(2, none)
      BY <2>3
    <3>2. Structured!Trap \/ Structured!Operands(Without(inner, 2) \o none)
      <4> HIDE DEF none, inner
      <4>1. Structured!Trap \/ Structured!Operands(Without(Structured!Inner, 2) \o none)
        BY <1>1, <1>2, <2>2, <3>1, OperandsMove
      <4> QED
        BY <4>1 DEF inner
    <3>3. Without(inner, 2) \o none = Structured!Without(inner, 2)
      <4>1. Base \in Nat /\ Len(stack) \in Nat /\ Base + 2 <= Len(stack)
        BY <1>1, <2>2, EnoughHere
      <4>2. inner \in Seq(Words) /\ Len(inner) = Len(stack) - Base
        BY <1>1, <4>1, InnerEnds
      <4> HIDE DEF inner
      <4>3. Without(inner, 2) \in Seq(Words)
        <5>1. 2 <= Len(inner)
          BY <4>1, <4>2
        <5> QED
          BY <4>2, <5>1, SplitAt
      <4>4. Without(inner, 2) \o none = Without(inner, 2)
        BY <4>3
      <4> QED
        BY <4>4, SameReading
    <3>4. CASE Structured!Operands(Without(inner, 2) \o none)
      <4> HIDE DEF none
      <4>1. Structured!Memory
        BY <1>3, <1>7, <3>3, <3>4 DEF Structured!Memory
      <4> QED
        BY <1>1, <1>3, <4>1 DEF Structured!StructNext
    <3> QED
      BY <1>1, <3>2, <3>4, TrapSteps
  <2> QED
    BY <1>1, <2>1, <2>3, FailTraps, TrapSteps
<1> QED
  BY <1>5, <1>6, <1>7 DEF LoadStore

(* The lower part of a stack. *)
LEMMA WithoutIs ==
  ASSUME NEW S, NEW s \in Seq(S), NEW k \in Nat, k <= Len(s)
  PROVE  /\ Len(s) - k \in Nat /\ Without(s, k) \in Seq(S) /\ Len(Without(s, k)) = Len(s) - k
         /\ \A i \in 1 .. Len(s) - k : Without(s, k)[i] = s[i]
<1> DEFINE t == Len(s) - k
<1>1. Len(s) \in Nat /\ t \in Nat /\ t <= Len(s)
  BY LenProperties
<1>2. Without(s, k) = SubSeq(s, 1, t)
  BY DEF Without
<1> HIDE DEF t
<1>3. /\ SubSeq(s, 0 + 1, t) \in Seq(S) /\ Len(SubSeq(s, 0 + 1, t)) = t - 0
      /\ \A i \in 1 .. t - 0 : SubSeq(s, 0 + 1, t)[i] = s[0 + i]
  BY <1>1, PieceIs
<1>4. 0 + 1 = 1 /\ t - 0 = t /\ \A i \in 1 .. t : 0 + i = i
  BY <1>1
<1>5. /\ Without(s, k) \in Seq(S) /\ Len(Without(s, k)) = t
      /\ \A i \in 1 .. t : Without(s, k)[i] = s[i]
  BY <1>2, <1>3, <1>4
<1> QED
  BY <1>1, <1>5 DEF t

WithoutOf(S, s, k) ==
  /\ Without(s, k) \in Seq(S) /\ Len(Without(s, k)) = Len(s) - k
  /\ \A i \in 1 .. Len(s) - k : Without(s, k)[i] = s[i]
LEMMA IsWithout ==
  ASSUME NEW S, NEW s \in Seq(S), NEW k \in Nat, k <= Len(s)
  PROVE  WithoutOf(S, s, k)
  BY WithoutIs DEF WithoutOf

LEMMA LowerPiece ==
  ASSUME NEW S, NEW s \in Seq(S), NEW k \in Nat, NEW a \in Nat, a + k <= Len(s)
  PROVE  SubSeq(Without(s, k), a + 1, Len(s) - k) = SubSeq(s, a + 1, Len(s) - k)
<1> DEFINE t == Len(s) - k
           u == Without(s, k)
<1>1. Len(s) \in Nat /\ t \in Nat /\ t <= Len(s) /\ a <= t /\ k <= Len(s)
  BY LenProperties
<1>2. u \in Seq(S) /\ Len(u) = t /\ \A i \in 1 .. t : u[i] = s[i]
  BY <1>1, WithoutIs
<1> HIDE DEF t, u
<1>3. t <= Len(u) /\ \A i \in a + 1 .. t : i \in 1 .. t
  BY <1>1, <1>2
<1>4. \A i \in a + 1 .. t : u[i] = s[i]
  BY <1>2, <1>3
<1>5. SubSeq(u, a + 1, t) = SubSeq(s, a + 1, t)
  BY <1>1, <1>2, <1>3, <1>4, SamePiece
<1> QED
  BY <1>5 DEF t, u

(* A block begins over what is left of the operands.                       *)
LEMMA BlockBegins ==
  ASSUME Inv, Inv', Standing, Running, UNCHANGED prog,
         NEW n \in Nat, Enough(Fn.body, Act.pc, n), NEW ops, ops = Without(stack, n),
         NEW isLoop, NEW cont, NEW arity, NEW pc \in 1 .. Len(Fn.body),
         Len(Open(Fn.body, pc)) = Deep + 1,
         \A j \in 1 .. Deep : Open(Fn.body, pc)[j].base = Open(Fn.body, Act.pc)[j].base,
         Len(ops) = Act.spBase + Open(Fn.body, pc)[Deep + 1].base,
         Labelled(ops, isLoop, cont, arity, pc)
  PROVE  Structured!Trap \/ Structured!Enter(pc, Without(Structured!Inner, n))
<1> DEFINE a == Base
           t == Len(stack) - n
<1>1. a \in Nat /\ a <= t /\ t \in Nat /\ n <= Len(stack) /\ t <= Len(stack) /\ stack \in Seq(Words)
  <2> DEFINE s == Len(stack)
  <2>1. a \in Nat /\ s \in Nat /\ a + n <= s /\ s - n \in Nat
    BY EnoughHere
  <2> HIDE DEF a, s
  <2>2. a <= s - n /\ n <= s /\ s - n <= s
    BY <2>1
  <2> QED
    BY <2>1, <2>2, BlocksHere DEF s
<1>2. ops \in Seq(Words) /\ Len(ops) = t /\ \A i \in 1 .. t : ops[i] = stack[i]
  <2> HIDE DEF t
  <2>1. WithoutOf(Words, stack, n)
    BY <1>1, IsWithout
  <2> QED
    BY <2>1 DEF t, WithoutOf
<1>3. Without(Structured!Inner, n) = SubSeq(stack, a + 1, t)
  <2>1. Base + n <= Len(stack)
    BY EnoughHere
  <2> QED
    BY <2>1, InnerEnds
<1> HIDE DEF a, t
<1>4. SubSeq(ops, a + 1, t) = SubSeq(stack, a + 1, t)
  <2>1. a + n <= Len(stack)
    BY EnoughHere DEF a
  <2>2. SubSeq(Without(stack, n), a + 1, Len(stack) - n) = SubSeq(stack, a + 1, Len(stack) - n)
    BY <1>1, <2>1, LowerPiece
  <2> QED
    BY <2>2 DEF t
<1>5. CASE Len(ctrl) >= CtrlSize
  BY <1>5, FailTraps DEF Labelled
<1>6. CASE ~(Len(ctrl) >= CtrlSize)
  <2>1. stack' = ops /\ Goto(pc) /\ UNCHANGED <<prog, locals>>
    BY <1>6 DEF Labelled
  <2>2. pc \in Nat
    BY Here
  <2>3. a <= Len(stack') /\ \A i \in 1 .. a : stack'[i] = stack[i]
    <3>1. \A i \in 1 .. a : i \in 1 .. t
      BY <1>1
    <3> QED
      BY <1>1, <1>2, <2>1, <3>1
  <2>4. Len(stack') = Act.spBase + Open(Fn.body, pc)[Deep + 1].base
    BY <2>1
  <2>5. Structured!Stepped(pc, Front(Blocks) \o <<SubSeq(stack', Base + 1, Len(stack')), << >> >>)
    BY <2>1, <2>2, <2>3, <2>4, Grows1 DEF a
  <2>6. SubSeq(stack', Base + 1, Len(stack')) = Without(Structured!Inner, n)
    BY <1>2, <1>3, <1>4, <2>1 DEF a
  <2>7. Structured!Front(Structured!Top.vals) = Front(Blocks)
    BY Sights, SameReading
  <2>8. Structured!Enter(pc, Without(Structured!Inner, n))
    BY <2>5, <2>6, <2>7 DEF Structured!Enter
  <2> QED
    BY <2>8
<1> QED
  BY <1>5, <1>6

LEMMA BlockOrLoopSteps ==
  ASSUME Inv, Inv', Standing, BlockOrLoop
  PROVE  Structured!StructNext
<1> DEFINE o == Open(Fn.body, Act.pc)
           in == Open(Fn.body, Next1)
           h == Height(Fn.body, Act.pc)
<1>1. /\ Running /\ UNCHANGED prog /\ Instr.op \in {"block", "loop"}
      /\ Labelled(stack, Instr.op = "loop", Next1, BlockArity, Next1)
  BY DEF BlockOrLoop, Runs
<1>2. Opens(Fn.body, Act.pc) /\ ~Closes(Fn.body, Act.pc)
  BY <1>1 DEF Opens, Closes, Openers, Instr
<1>3. /\ ValidFunction(prog, Fn) /\ Act.pc \in 1 .. Len(Fn.body) - 1 /\ Next1 \in 1 .. Len(Fn.body)
      /\ h \in Nat /\ Next1 = Act.pc + 1
  BY <1>1, <1>2, Here, NextIs DEF Next1
<1>4. Enough(Fn.body, Act.pc, 0) /\ Height(Fn.body, Next1) = h
  <2>1. ControlChecked(prog, Fn, Act.pc)
    BY <1>3 DEF ValidFunction
  <2>2. Goes(Fn.body, Act.pc, 0, 0)
    BY <1>1, <2>1 DEF ControlChecked, Instr
  <2>3. Enough(Fn.body, Act.pc, 0) /\ Height(Fn.body, Act.pc + 1) = h - 0 + 0
    BY <2>2 DEF Goes
  <2> HIDE DEF h
  <2> QED
    BY <1>3, <2>3
<1>5. /\ Len(in) = Len(o) + 1 /\ in[Len(o) + 1] = Begun(Fn.body, Act.pc)
      /\ \A j \in 1 .. Len(o) : in[j] = o[j]
  BY <1>2, <1>3, NextOpen
<1>6. Deep = Len(o) /\ stack \in Seq(Words) /\ Len(stack) = Act.spBase + h
  BY <1>1, BlocksHere, Here
<1>7. /\ Len(in) = Deep + 1 /\ \A j \in 1 .. Deep : in[j].base = o[j].base
  BY <1>5, <1>6
<1>8. Len(stack) = Act.spBase + in[Deep + 1].base
  BY <1>3, <1>4, <1>5, <1>6 DEF Begun
<1>9. stack = Without(stack, 0)
  <2>1. Len(stack) \in Nat
    BY <1>1, Here
  <2>2. Len(stack) - 0 = Len(stack)
    BY <2>1
  <2> QED
    BY <1>6, <2>2, WholeSeq DEF Without
<1>10. Structured!Trap \/ Structured!Enter(Next1, Without(Structured!Inner, 0))
  <2>1. 0 \in Nat
    OBVIOUS
  <2> QED
    BY <1>1, <1>3, <1>4, <1>7, <1>8, <1>9, <2>1, BlockBegins
<1>11. Structured!Without(Structured!Inner, 0) = Structured!Inner
  <2>1. Base + 0 <= Len(stack) /\ 0 \in Nat
    BY <1>1, BlocksHere
  <2>2. Structured!Inner \in Seq(Words)
    BY <1>1, <2>1, InnerEnds
  <2>3. Len(Structured!Inner) - 0 = Len(Structured!Inner)
    BY <2>2, LenProperties
  <2> QED
    BY <2>2, <2>3, WholeSeq, SameReading DEF Without
<1>12. Structured!Instr = Instr /\ Structured!Running /\ Structured!Top.pc + 1 = Next1
  BY <1>1, Sights DEF Next1
<1>13. CASE Structured!Enter(Next1, Without(Structured!Inner, 0))
  <2>1. Structured!Enter(Next1, Structured!Inner)
    BY <1>11, <1>13, SameReading
  <2>2. Structured!Block
    BY <1>1, <1>12, <2>1 DEF Structured!Block
  <2> QED
    BY <1>1, <1>12, <2>2 DEF Structured!StructNext
<1> QED
  BY <1>1, <1>10, <1>13, TrapSteps

(* The condition an instruction takes, as both see it.                     *)
LEMMA ConditionIs ==
  ASSUME Inv, Running, Enough(Fn.body, Act.pc, 1)
  PROVE  /\ Structured!Last(Structured!Inner) = Last(stack)
         /\ Structured!Front(Structured!Inner) = Without(Structured!Inner, 1)
         /\ stack # << >> /\ Front(stack) = Without(stack, 1) /\ Base + 1 <= Len(stack)
<1> DEFINE a == Base
           s == Len(stack)
           inner == Structured!Inner
<1>1. a \in Nat /\ s \in Nat /\ a + 1 <= s /\ stack \in Seq(Words) /\ s <= Len(stack)
  <2>1. 1 \in Nat
    OBVIOUS
  <2>2. Base \in Nat /\ Len(stack) \in Nat /\ Base + 1 <= Len(stack)
    BY <2>1, EnoughHere
  <2> QED
    BY <2>2, BlocksHere
<1>2. inner = SubSeq(stack, a + 1, s) /\ stack # << >>
  BY <1>1, Sights
<1> HIDE DEF a, inner
<1>3. inner \in Seq(Words) /\ Len(inner) = s - a /\ inner[s - a] = stack[a + (s - a)] /\ a + (s - a) = s
  <2> HIDE DEF s
  <2>1. a <= s /\ s - a \in 1 .. s - a
    BY <1>1
  <2>2. /\ SubSeq(stack, a + 1, s) \in Seq(Words) /\ Len(SubSeq(stack, a + 1, s)) = s - a
        /\ \A i \in 1 .. s - a : SubSeq(stack, a + 1, s)[i] = stack[a + i]
    BY <1>1, <2>1, PieceIs
  <2> QED
    BY <1>1, <1>2, <2>1, <2>2
<1>4. inner # << >>
  <2> HIDE DEF s
  <2>1. Len(inner) # 0
    BY <1>1, <1>3
  <2> QED
    BY <2>1
<1>5. Last(inner) = Last(stack)
  BY <1>3 DEF Last
<1>6. Front(inner) = Without(inner, 1) /\ Front(stack) = Without(stack, 1)
  BY DEF Front, Without
<1> QED
  BY <1>1, <1>2, <1>5, <1>6, SameReading DEF inner, a

LEMMA IfSteps ==
  ASSUME Inv, Inv', Standing, If
  PROVE  Structured!StructNext
<1> DEFINE body == Fn.body
           o == Open(body, Act.pc)
           in == Open(body, Next1)
           h == Height(body, Act.pc)
           ops == Front(stack)
           dst == ElseOrEnd(body, Next1)
           k == Deep + 1
           rest == Without(Structured!Inner, 1)
<1>1. Running /\ UNCHANGED prog /\ Instr.op = "if"
  BY DEF If, Runs
<1>2. Opens(body, Act.pc) /\ ~Closes(body, Act.pc) /\ body[Act.pc].op = "if"
  BY <1>1 DEF Opens, Closes, Openers, Instr
<1>3. /\ ValidFunction(prog, Fn) /\ Act.pc \in 1 .. Len(body) - 1 /\ Next1 \in 1 .. Len(body)
      /\ Len(body) \in Nat /\ Next1 = Act.pc + 1
  BY <1>1, <1>2, Here, NextIs DEF Next1
<1>4. /\ h \in Nat /\ Deep \in Nat /\ Deep = Len(o)
      /\ Act.spBase \in Nat /\ Len(stack) \in Nat /\ Len(stack) = Act.spBase + h
  BY <1>1, Here, BlocksHere
<1>5. Enough(body, Act.pc, 1) /\ Height(body, Next1) = h - 1
  <2>1. ControlChecked(prog, Fn, Act.pc)
    BY <1>3 DEF ValidFunction
  <2>2. Goes(body, Act.pc, 1, 0)
    BY <1>1, <2>1 DEF ControlChecked, Instr
  <2>3. Enough(body, Act.pc, 1) /\ Height(body, Act.pc + 1) = h - 1 + 0
    BY <2>2 DEF Goes
  <2> HIDE DEF h
  <2> QED
    BY <1>3, <1>4, <2>3
<1>6. /\ Len(in) = k /\ in[k] = Begun(body, Act.pc)
      /\ \A j \in 1 .. Deep : in[j] = o[j]
  <2>1. /\ Len(Open(body, Act.pc + 1)) = Len(o) + 1 /\ Open(body, Act.pc + 1)[Len(o) + 1] = Begun(body, Act.pc)
        /\ \A j \in 1 .. Len(o) : Open(body, Act.pc + 1)[j] = o[j]
    BY <1>2, <1>3, NextOpen
  <2> HIDE DEF body, o
  <2> QED
    BY <1>3, <1>4, <2>1
<1>7. /\ Structured!Last(Structured!Inner) = Last(stack)
      /\ Structured!Front(Structured!Inner) = rest
      /\ stack # << >> /\ ops = Without(stack, 1) /\ Base + 1 <= Len(stack)
  BY <1>1, <1>5, ConditionIs
<1>8. Len(ops) = Act.spBase + in[k].base
  <2> DEFINE s == Len(stack)
             sb == Act.spBase
             t == Len(ops)
             hn == Height(body, Next1)
             b == in[k].base
  <2>1. t = s - 1
    BY <1>1, <1>5, Condition
  <2>2. b = hn
    BY <1>3, <1>6 DEF Begun
  <2>3. s = sb + h /\ hn = h - 1 /\ s \in Nat /\ sb \in Nat /\ h \in Nat
    BY <1>4, <1>5
  <2> HIDE DEF s, sb, t, hn, h, b
  <2>4. t = sb + b
    BY <2>1, <2>2, <2>3
  <2> QED
    BY <2>4 DEF t, sb, b
<1>9. Structured!Instr = Instr /\ Structured!Running /\ Structured!Top.pc = Act.pc /\ Structured!Fn = Fn
  BY <1>1, Sights
<1>10. 1 \in Nat
  OBVIOUS
<1>11. CASE Last(stack) # 0
  <2>1. Labelled(ops, FALSE, 0, Instr.arg, Next1)
    BY <1>7, <1>11 DEF If
  <2>2. Len(in) = Deep + 1 /\ Len(ops) = Act.spBase + in[Deep + 1].base
        /\ \A j \in 1 .. Deep : in[j].base = o[j].base
    BY <1>6, <1>8
  <2> HIDE DEF ops
  <2>3. Structured!Trap \/ Structured!Enter(Next1, rest)
    BY <1>1, <1>3, <1>5, <1>7, <1>10, <2>1, <2>2, BlockBegins
  <2>4. CASE Structured!Enter(Next1, rest)
    <3>1. Structured!If
      BY <1>1, <1>3, <1>7, <1>9, <1>11, <2>4 DEF Structured!If
    <3> QED
      BY <1>1, <1>9, <3>1 DEF Structured!StructNext
  <2> QED
    BY <1>1, <2>3, <2>4, TrapSteps
<1>12. CASE Last(stack) = 0
  <2>1. ArmAfter(body, in, k, dst)
    <3>1. in # << >>
      <4>1. k # 0
        BY <1>4
      <4> QED
        BY <1>6, <4>1
    <3> QED
      BY <1>3, <1>6, <3>1, ElseFound
  <2>2. /\ dst \in 2 .. Len(body)
        /\ Closes(body, dst - 1) => ElseOf(body, Act.pc) = {} /\ EndOf(body, Act.pc) + 1 = dst
        /\ ~Closes(body, dst - 1) => dst - 1 \in ElseOf(body, Act.pc)
    BY <1>2, <1>3, IfLands
  <2>3. dst \in Nat /\ dst # 0 /\ dst \in 1 .. Len(body) /\ dst - 1 + 1 = dst
    <3> HIDE DEF dst
    <3> QED
      BY <1>3, <2>2
  <2>4. \A j \in 1 .. Deep : Open(body, dst)[j].base = o[j].base
    <3>1. \A j \in 1 .. k - 1 : Open(body, dst)[j] = in[j]
      BY <2>1 DEF ArmAfter
    <3>2. k - 1 = Deep
      BY <1>4
    <3> QED
      BY <1>6, <3>1, <3>2
  <2>5. /\ Structured!ElseOf(Structured!Fn.body, Structured!Top.pc) = ElseOf(body, Act.pc)
        /\ Structured!EndOf(Structured!Fn.body, Structured!Top.pc) = EndOf(body, Act.pc)
    BY <1>9, SameReading
  <2>6. CASE Len(ctrl) >= CtrlSize
    BY <1>1, <1>7, <1>12, <2>6, FailTraps, TrapSteps DEF If
  <2>7. CASE ~(Len(ctrl) >= CtrlSize) /\ Closes(body, dst - 1)
    <3>1. stack' = ops /\ Goto(dst) /\ UNCHANGED <<prog, locals>>
      BY <1>1, <1>7, <1>12, <2>3, <2>7 DEF If
    <3>2. k \in 1 .. Deep + 1 /\ k - 1 = Deep /\ Len(Open(body, dst)) = k - 1 /\ Marked(k) = Base
      <4>1. Len(Open(body, dst)) = k - 1
        BY <2>1, <2>7 DEF ArmAfter
      <4> QED
        BY <1>1, <1>4, <4>1, BlocksHere
    <3>3. /\ Marked(k) <= Len(stack') /\ \A i \in 1 .. Marked(k) : stack'[i] = stack[i]
          /\ SubSeq(stack', Marked(k) + 1, Len(stack')) = rest
      <4> DEFINE a == Base
                 s == Len(stack)
                 t == s - 1
      <4>1. a \in Nat /\ s \in Nat /\ stack \in Seq(Words) /\ a + 1 <= s /\ t \in Nat /\ 1 <= s
        BY <1>1, <1>5, <1>7, EnoughHere, BlocksHere
      <4>2. Len(ops) = t /\ \A i \in 1 .. t : ops[i] = stack[i]
        <5>1. 1 <= Len(stack)
          BY <4>1
        <5>2. WithoutOf(Words, stack, 1)
          BY <4>1, <5>1, IsWithout
        <5>3. ops = Without(stack, 1)
          BY <1>7, <1>10
        <5> HIDE DEF ops
        <5> QED
          BY <5>2, <5>3 DEF WithoutOf
      <4>3. a <= t /\ \A i \in 1 .. a : i \in 1 .. t
        <5> HIDE DEF a, s
        <5> QED
          BY <4>1
      <4>4. SubSeq(ops, a + 1, t) = SubSeq(stack, a + 1, t)
        <5>1. a + 1 <= Len(stack)
          BY <4>1
        <5> HIDE DEF a
        <5>2. SubSeq(Without(stack, 1), a + 1, Len(stack) - 1) = SubSeq(stack, a + 1, Len(stack) - 1)
          BY <1>10, <4>1, <5>1, LowerPiece
        <5> QED
          BY <1>7, <5>2
      <4>5. rest = SubSeq(stack, a + 1, t)
        BY <1>1, <1>7, <1>10, InnerEnds
      <4> HIDE DEF ops, a, t, rest, k
      <4> QED
        BY <3>1, <3>2, <4>2, <4>3, <4>4, <4>5 DEF a
    <3>4. Structured!Stepped(dst, Append(SubSeq(Blocks, 1, k - 1), SubSeq(stack', Marked(k) + 1, Len(stack'))))
      <4>1. \A j \in 1 .. k - 1 : Open(Fn.body, dst)[j].base = Open(Fn.body, Act.pc)[j].base
        BY <2>4, <3>2
      <4> HIDE DEF dst, k
      <4> QED
        BY <1>1, <2>3, <3>1, <3>2, <3>3, <4>1, Shrinks
    <3>5. SubSeq(Blocks, 1, k - 1) = Structured!Front(Structured!Top.vals)
      <4>1. Len(Blocks) - 1 = k - 1
        BY <1>1, <1>4, BlocksHere
      <4>2. SubSeq(Blocks, 1, k - 1) = Front(Blocks)
        BY <4>1 DEF Front
      <4> QED
        BY <1>1, <4>2, Sights, SameReading
    <3>6. Structured!Stepped(dst, Append(Structured!Front(Structured!Top.vals), rest))
      BY <3>3, <3>4, <3>5
    <3>7. Structured!If
      <4> HIDE DEF dst, rest
      <4> QED
        BY <1>1, <1>7, <1>9, <1>12, <2>2, <2>5, <2>7, <3>6 DEF Structured!If
    <3> QED
      BY <1>1, <1>9, <3>7 DEF Structured!StructNext
  <2>8. CASE ~(Len(ctrl) >= CtrlSize) /\ ~Closes(body, dst - 1)
    <3>1. Labelled(ops, FALSE, 0, Instr.arg, dst)
      BY <1>7, <1>12, <2>3, <2>8 DEF If
    <3>2. Len(Open(body, dst)) = k /\ Open(body, dst)[k].base = in[k].base
      BY <2>1, <2>8 DEF ArmAfter
    <3>3. Len(ops) = Act.spBase + Open(body, dst)[Deep + 1].base /\ Len(Open(body, dst)) = Deep + 1
      BY <1>8, <3>2
    <3>4. Structured!Trap \/ Structured!Enter(dst, rest)
      <4> HIDE DEF dst, ops
      <4> QED
        BY <1>1, <1>5, <1>7, <1>10, <2>3, <2>4, <3>1, <3>3, BlockBegins
    <3>5. CASE Structured!Enter(dst, rest)
      <4>1. dst - 1 \in Structured!ElseOf(Structured!Fn.body, Structured!Top.pc)
        BY <2>2, <2>5, <2>8
      <4>2. Structured!Enter(dst - 1 + 1, rest)
        BY <2>3, <3>5
      <4>3. Structured!If
        <5> HIDE DEF dst, rest
        <5> QED
          BY <1>1, <1>7, <1>9, <1>12, <4>1, <4>2 DEF Structured!If
      <4> QED
        BY <1>1, <1>9, <4>3 DEF Structured!StructNext
    <3> QED
      BY <1>1, <3>4, <3>5, TrapSteps
  <2> QED
    BY <2>6, <2>7, <2>8
<1> QED
  BY <1>11, <1>12

(* A step out of the block after the k-th, which gets what is carried.     *)
LEMMA Folds ==
  ASSUME Inv, Inv', Standing, Running, UNCHANGED <<prog, locals>>, NEW pc \in Nat, Goto(pc),
         NEW k \in 1 .. Deep, Len(Open(Fn.body, pc)) = k - 1,
         \A j \in 1 .. k - 1 : Open(Fn.body, pc)[j].base = Open(Fn.body, Act.pc)[j].base,
         Marked(k) <= Len(stack'), \A i \in 1 .. Marked(k) : stack'[i] = stack[i],
         NEW carried, SubSeq(stack', Marked(k) + 1, Len(stack')) = Blocks[k] \o carried
  PROVE  Structured!Stepped(pc, Structured!Fold(k + 1, carried))
<1>1. Deep \in Nat
  BY BlocksHere
<1>2. k \in 1 .. Deep + 1 /\ k + 1 - 2 = k - 1 /\ k + 1 - 1 = k
  BY <1>1
<1>3. Structured!Stepped(pc, Append(SubSeq(Blocks, 1, k - 1), SubSeq(stack', Marked(k) + 1, Len(stack'))))
  BY <1>2, Shrinks
<1>4. Structured!Top.vals = Blocks
  BY Sights
<1>5. Structured!Fold(k + 1, carried) = Append(SubSeq(Blocks, 1, k - 1), Blocks[k] \o carried)
  BY <1>2, <1>4 DEF Structured!Fold
<1> QED
  BY <1>3, <1>5

LEMMA CloseSteps ==
  ASSUME Inv, Inv', Standing, Running, UNCHANGED <<prog, locals, stack>>, NEW pc \in Nat, Goto(pc),
         Instr.op \in {"else", "end"}, Deep > 0, Len(Open(Fn.body, pc)) = Deep - 1,
         \A j \in 1 .. Deep - 1 : Open(Fn.body, pc)[j].base = Open(Fn.body, Act.pc)[j].base,
         pc = EndOf(Fn.body, Around(Fn.body, Act.pc, 0)) + 1
  PROVE  Structured!StructNext
<1> DEFINE k == Deep
           e == Deep + 1
           a == Marked(k)
           b == Marked(e)
           s == Len(stack)
<1>1. /\ k \in Nat /\ k \in 1 .. k /\ k + 1 = e /\ k \in 1 .. k + 1 /\ e \in 1 .. k + 1 /\ e + 1 = Deep + 2
  <2>1. Deep \in Nat /\ Deep > 0
    BY BlocksHere
  <2> DEFINE d == Deep
  <2>2. d \in Nat /\ d > 0 /\ k = d /\ e = d + 1 /\ Deep = d
    BY <2>1
  <2> HIDE DEF d, k, e, a, b, s
  <2> QED
    BY <2>2
<1>2. /\ a \in Nat /\ b \in Nat /\ a <= b /\ b <= s /\ s \in Nat /\ stack \in Seq(Words)
      /\ Blocks[k] = SubSeq(stack, a + 1, b) /\ b = Base /\ Len(Blocks) = e
  <2>1. Marked(Deep + 1) = Base /\ Len(stack) \in Nat /\ stack \in Seq(Words) /\ Len(Blocks) = Deep + 1
    BY BlocksHere
  <2>2. \A j \in 1 .. Deep + 1 :
          /\ Blocks[j] = SubSeq(stack, Marked(j) + 1, Marked(j + 1))
          /\ Marked(j) \in Nat /\ Marked(j + 1) \in Nat
          /\ Act.spBase <= Marked(j)
          /\ Marked(j) <= Marked(j + 1) /\ Marked(j + 1) <= Len(stack)
    BY BlocksHere
  <2>3. /\ Blocks[k] = SubSeq(stack, Marked(k) + 1, Marked(k + 1))
        /\ Marked(k) \in Nat /\ Marked(k + 1) \in Nat
        /\ Marked(k) <= Marked(k + 1) /\ Marked(k + 1) <= Len(stack)
    BY <1>1, <2>2
  <2>4. e = k + 1 /\ b = Base /\ Len(Blocks) = e
    BY <1>1, <2>1
  <2>5. a \in Nat /\ b \in Nat /\ a <= b /\ b <= s /\ Blocks[k] = SubSeq(stack, a + 1, b)
    BY <2>3, <2>4
  <2> HIDE DEF a, b, k, e
  <2> QED
    BY <2>1, <2>4, <2>5
<1>3. Structured!Inner = SubSeq(stack, b + 1, s)
  BY <1>2, Sights
<1>4. SubSeq(stack, a + 1, s) = Blocks[k] \o Structured!Inner
  <2>1. s <= Len(stack)
    BY <1>2
  <2> HIDE DEF a, b, s
  <2>2. stack \in Seq(Words) /\ a \in Nat /\ b \in Nat /\ s \in Nat /\ a <= b /\ b <= s
    BY <1>2
  <2>3. SubSeq(stack, a + 1, b) \o SubSeq(stack, b + 1, s) = SubSeq(stack, a + 1, s)
    BY <2>1, <2>2, PieceJoins
  <2> QED
    BY <1>2, <1>3, <2>3
<1>5. a <= Len(stack') /\ (\A i \in 1 .. a : stack'[i] = stack[i]) /\ Len(stack') = s
      /\ SubSeq(stack', a + 1, Len(stack')) = Blocks[k] \o Structured!Inner
  <2>1. stack' = stack
    OBVIOUS
  <2>2. a <= s
    <3> HIDE DEF a, b, s
    <3> QED
      BY <1>2
  <2> QED
    BY <1>4, <2>1, <2>2
<1>6. Structured!Stepped(pc, Structured!Fold(k + 1, Structured!Inner))
  BY <1>1, <1>5, Folds
<1>7. /\ Structured!Instr = Instr /\ Structured!Running /\ Structured!Top.pc = Act.pc
      /\ Structured!Fn = Fn /\ Structured!Top.vals = Blocks
  BY Sights
<1>8. Len(Structured!Top.vals) = k + 1 /\ Len(Structured!Top.vals) > 1
  BY <1>1, <1>2, <1>7
<1>9. Structured!EndOf(Structured!Fn.body, Structured!Around(Structured!Fn.body, Structured!Top.pc, 0)) + 1 = pc
  BY <1>7, SameReading
<1>10. Structured!Close
  BY <1>6, <1>7, <1>8, <1>9 DEF Structured!Close
<1> QED
  BY <1>7, <1>10 DEF Structured!StructNext

LEMMA ElseSteps ==
  ASSUME Inv, Inv', Standing, Else
  PROVE  Structured!StructNext
<1> DEFINE body == Fn.body
           o == Open(body, Act.pc)
           in == Open(body, Next1)
           dst == BranchTarget(body, Next1, 0)
           k == Len(o)
<1>1. Running /\ UNCHANGED prog /\ Instr.op = "else"
  BY DEF Else, Runs
<1>2. ~Closes(body, Act.pc) /\ ~Opens(body, Act.pc) /\ body[Act.pc].op = "else"
  BY <1>1 DEF Closes, Opens, Openers, Instr
<1>3. /\ ValidFunction(prog, Fn) /\ Act.pc \in 1 .. Len(body) - 1 /\ Next1 \in 1 .. Len(body)
      /\ Act.pc \in 1 .. Len(body) /\ Len(body) \in Nat /\ Next1 = Act.pc + 1
  BY <1>1, <1>2, Here, NextIs DEF Next1
<1>4. /\ Act.ctrlBase \in Nat /\ Len(ctrl) = Act.ctrlBase + k /\ Len(ctrl) \in Nat /\ Deep = k
  BY <1>1, Here, BlocksHere
<1>5. /\ k \in Nat \ {0} /\ Len(in) = k /\ \A j \in 1 .. k - 1 : in[j] = o[j]
  BY SMTT(30), <1>2, <1>3, NextOpen
<1>6. Landed(body, in, k, dst)
  <2>1. 0 < Len(in) /\ 0 \in Nat /\ Len(in) - 0 = k
    <3> HIDE DEF in, k
    <3> QED
      BY <1>5
  <2>2. Landed(body, in, Len(in) - 0, dst)
    BY <1>3, <2>1, TargetFound
  <2> QED
    BY <2>1, <2>2
<1>7. /\ dst \in 1 .. Len(body) /\ Len(Open(body, dst)) = k - 1
      /\ \A j \in 1 .. k - 1 : Open(body, dst)[j] = in[j]
  <2> HIDE DEF dst, in, k, body
  <2> QED
    BY <1>6 DEF Landed
<1>8. dst = EndOf(body, Around(body, Act.pc, 0)) + 1
  <2>1. 0 \in Nat /\ 0 < Level(body, Act.pc)
    BY <1>4, <1>5 DEF Level
  <2> QED
    BY <1>2, <1>3, <2>1, BranchLands
<1>9. Deep > 0 /\ dst # 0 /\ dst \in Nat
  <2> HIDE DEF dst, k
  <2> QED
    BY <1>3, <1>4, <1>5, <1>7
<1>10. Goto(dst) /\ UNCHANGED <<stack, locals>>
  BY <1>9 DEF Else
<1>11. \A j \in 1 .. Deep - 1 : Open(body, dst)[j].base = o[j].base
  BY <1>4, <1>5, <1>7
<1>12. Instr.op \in {"else", "end"} /\ Len(Open(body, dst)) = Deep - 1
  BY <1>1, <1>4, <1>7
<1> HIDE DEF dst
<1> QED
  BY <1>1, <1>8, <1>9, <1>10, <1>11, <1>12, CloseSteps

LEMMA EndSteps ==
  ASSUME Inv, Inv', Standing, End, Labels > 0
  PROVE  Structured!StructNext
<1> DEFINE body == Fn.body
           o == Open(body, Act.pc)
           k == Len(o)
<1>1. Running /\ UNCHANGED prog /\ Instr.op = "end"
  BY DEF End, Runs
<1>2. Closes(body, Act.pc)
  BY <1>1 DEF Closes, Instr
<1>3. /\ ValidFunction(prog, Fn) /\ Act.pc \in 1 .. Len(body) /\ Len(body) \in Nat
      /\ Act.ctrlBase \in Nat /\ Len(ctrl) = Act.ctrlBase + k /\ k \in Nat /\ Deep = k
  BY <1>1, Here, BlocksHere
<1>4. EndsWell(Fn, Act.pc)
  BY <1>3 DEF ValidFunction
<1>5. k > 0
  <2>1. Len(ctrl) - Act.ctrlBase > 0
    BY DEF Labels
  <2> HIDE DEF k
  <2> QED
    BY <1>3, <2>1
<1>6. Act.pc # Len(body)
  <2>1. o # << >>
    BY <1>5
  <2> QED
    BY <1>4, <2>1 DEF EndsWell
<1>7. Act.pc \in 1 .. Len(body) - 1 /\ Next1 \in Nat /\ Next1 = Act.pc + 1
  BY <1>3, <1>6 DEF Next1
<1>8. /\ Len(Open(body, Next1)) = k - 1
      /\ \A j \in 1 .. k - 1 : Open(body, Next1)[j] = o[j]
  BY <1>2, <1>3, <1>7, NextOpen
<1>9. Goto(Next1) /\ UNCHANGED <<stack, locals>>
  BY DEF End
<1>10. EndOf(body, Around(body, Act.pc, 0)) = Act.pc
  <2>1. Level(body, Act.pc) > 0
    BY <1>5 DEF Level
  <2> QED
    BY <1>2, <1>3, <2>1, EndLands
<1>11. Next1 = EndOf(body, Around(body, Act.pc, 0)) + 1
  BY <1>7, <1>10
<1>12. /\ Instr.op \in {"else", "end"} /\ Deep > 0 /\ Len(Open(body, Next1)) = Deep - 1
       /\ \A j \in 1 .. Deep - 1 : Open(body, Next1)[j].base = o[j].base
  BY <1>1, <1>3, <1>5, <1>8
<1> QED
  BY <1>1, <1>7, <1>9, <1>11, <1>12, CloseSteps

(* A branch of l levels, n operands having been taken: its label is that   *)
(* of the l-th block around, and it goes where that block says.            *)
Aimed(l, n) ==
  LET k == Deep - l
      q == Around(Fn.body, Act.pc, l)
      lab == Label(l)
      dst == BranchTarget(Fn.body, Next1, l)
      o == Open(Fn.body, Act.pc)
  IN  /\ Labels = Deep /\ k \in 1 .. Deep
      /\ lab.sp = Marked(k + 1) /\ lab.arity \in {0, 1} /\ lab.arity = LabelArity(Fn.body, q)
      /\ lab.isLoop <=> Fn.body[q].op = "loop"
      /\ Marked(k + 1) <= Base /\ Base + (n + lab.arity) <= Len(stack)
      /\ lab.isLoop =>
           /\ lab.cont = q + 1 /\ lab.cont \in Nat /\ Len(Open(Fn.body, lab.cont)) = k
           /\ \A j \in 1 .. k : Open(Fn.body, lab.cont)[j].base = o[j].base
      /\ ~lab.isLoop =>
           /\ dst = EndOf(Fn.body, q) + 1 /\ dst \in Nat \ {0} /\ Len(Open(Fn.body, dst)) = k - 1
           /\ \A j \in 1 .. k - 1 : Open(Fn.body, dst)[j].base = o[j].base

(* Where a branch lands, seen from the innermost block.                     *)
LEMMA TargetHere ==
  ASSUME Inv, Running, ~Opens(Fn.body, Act.pc), ~Closes(Fn.body, Act.pc), Instr.op # "else",
         NEW n \in Nat, NEW l, Branches(Fn, Act.pc, l, n), ~(l >= Labels)
  PROVE  l \in Nat /\ l < Deep /\ Aimed(l, n)
<1> DEFINE body == Fn.body
           o == Open(body, Act.pc)
           m == Deep
           cb == Act.ctrlBase
           sb == Act.spBase
           c == Len(ctrl)
           k == m - l
           lab == Label(l)
           q == Around(body, Act.pc, l)
           dst == BranchTarget(body, Next1, l)
<1>1. /\ ValidFunction(prog, Fn) /\ Act.pc \in 1 .. Len(body) /\ cb \in Nat /\ c \in Nat
      /\ c = cb + m /\ m \in Nat /\ m = Len(o) /\ sb \in Nat
      /\ \A j \in 1 .. m : LabelOf(ctrl[cb + j], o[j], sb)
  <2>1. m \in Nat /\ m = Len(o)
    BY BlocksHere
  <2> QED
    BY <2>1, Here
<1>2. Labels = m
  <2>1. Labels = c - cb
    BY DEF Labels
  <2> HIDE DEF c, cb, m
  <2> QED
    BY <1>1, <2>1
<1>3. l \in 0 .. Len(o) /\ Enough(body, Act.pc, n + Carried(Fn, Act.pc, l))
  BY DEF Branches
<1>4. l \in Nat /\ l < m /\ l # m /\ k \in 1 .. m /\ c - l = cb + k
  <2> HIDE DEF c, cb, m, o
  <2> QED
    BY <1>1, <1>2, <1>3
<1>5. LabelOf(lab, o[k], sb)
  <2>1. lab = ctrl[cb + k]
    BY <1>4 DEF Label
  <2> QED
    BY <1>1, <1>4, <2>1
<1>6. l < Level(body, Act.pc) /\ Level(body, Act.pc) - l = k
  BY <1>1, <1>4 DEF Level
<1>7. /\ q = o[k].at - 1 /\ q \in Nat
      /\ body[q].op = "loop" <=> o[k].op = "loop"
      /\ LabelArity(body, q) = IF o[k].op = "loop" THEN 0 ELSE o[k].arity
  <2>1. LET b == Open(body, Act.pc)[Level(body, Act.pc) - l]
        IN  /\ q = b.at - 1 /\ q \in Nat
            /\ body[q].op = "loop" <=> b.op = "loop"
            /\ LabelArity(body, q) = IF b.op = "loop" THEN 0 ELSE b.arity
    <3>1. /\ ValidFunction(prog, Fn) /\ Act.pc \in 1 .. Len(Fn.body)
          /\ l \in Nat /\ l < Level(Fn.body, Act.pc)
      BY <1>1, <1>4, <1>6
    <3> DEFINE from == Act.pc
               f == Fn
               r == Around(f.body, from, l)
    <3> HIDE DEF body, o, m, cb, sb, c, k, lab, q, dst, from, f
    <3>2. LET b == Open(f.body, from)[Level(f.body, from) - l]
          IN  /\ r = b.at - 1 /\ r \in Nat
              /\ f.body[r].op = "loop" <=> b.op = "loop"
              /\ LabelArity(f.body, r) = IF b.op = "loop" THEN 0 ELSE b.arity
      <4>1. /\ ValidFunction(prog, f) /\ from \in 1 .. Len(f.body)
            /\ l \in Nat /\ l < Level(f.body, from)
        BY <3>1 DEF f, from
      <4> QED
        BY <4>1, AroundAt
    <3> QED
      BY <3>2 DEF body, q, from, f
  <2>2. Open(body, Act.pc)[Level(body, Act.pc) - l] = o[k]
    <3> HIDE DEF k
    <3> QED
      BY <1>6
  <2> HIDE DEF body, q, k, o
  <2> QED
    BY <2>1, <2>2
<1>8. o[k].arity \in {0, 1} /\ o[k].at \in 1 .. Len(body) /\ o[k].base \in Nat
  <2>1. \A j \in 1 .. Len(o) : o[j].base \in Nat /\ o[j].at \in 1 .. Len(body) /\ o[j].arity \in {0, 1}
    BY <1>1, FloorIs
  <2> HIDE DEF o, k
  <2> QED
    BY <1>1, <1>4, <2>1
<1>9. /\ lab.isLoop <=> o[k].op = "loop"
      /\ lab.arity = IF o[k].op = "loop" THEN 0 ELSE o[k].arity
      /\ lab.sp = sb + o[k].base
      /\ lab.isLoop => lab.cont = o[k].at
  <2> HIDE DEF lab, o, k, sb
  <2> QED
    BY <1>5 DEF LabelOf
<1>10. Carried(Fn, Act.pc, l) = lab.arity
  <2>1. Carried(Fn, Act.pc, l) = IF o[k].op = "loop" THEN 0 ELSE o[k].arity
    BY <1>1, <1>4 DEF Carried
  <2> QED
    BY <1>9, <2>1
<1>11. lab.arity \in {0, 1} /\ lab.arity = LabelArity(body, q)
  <2> HIDE DEF lab, o, k, q
  <2> QED
    BY <1>7, <1>8, <1>9
<1>12. Base + (n + lab.arity) <= Len(stack)
  <2> DEFINE z == n + lab.arity
  <2>1. z \in Nat
    <3> HIDE DEF lab
    <3> QED
      BY <1>11
  <2>2. Enough(Fn.body, Act.pc, z)
    BY <1>3, <1>10
  <2> HIDE DEF z
  <2>3. Base + z <= Len(stack)
    BY <2>1, <2>2, EnoughHere
  <2> QED
    BY <2>3 DEF z
<1>13. Marked(k + 1) = sb + o[k].base /\ Marked(k + 1) <= Base
  <2>1. Marked(k + 1) = sb + o[k].base
    BY <1>4, BlocksHere
  <2>2. Rising(o, sb, Len(stack)) /\ Marked(m + 1) = Base
    BY BlocksHere
  <2>3. k + 1 \in 1 .. Len(o) + 2 /\ m + 1 \in 1 .. Len(o) + 2 /\ k + 1 <= m + 1
    <3> HIDE DEF o, k, m
    <3> QED
      BY <1>1, <1>4
  <2>4. Mark(o, sb, Len(stack), k + 1) <= Mark(o, sb, Len(stack), m + 1)
    <3> DEFINE x == k + 1
               y == m + 1
               z == Len(stack)
    <3>1. x \in 1 .. Len(o) + 2 /\ y \in 1 .. Len(o) + 2 /\ x <= y /\ Rising(o, sb, z)
      BY <2>2, <2>3
    <3> HIDE DEF x, y, z, o, sb, k, m
    <3>2. Mark(o, sb, z, x) <= Mark(o, sb, z, y)
      BY <3>1 DEF Rising
    <3> QED
      BY <3>2 DEF x, y, z
  <2> QED
    BY <2>1, <2>2, <2>4 DEF Marked
<1>14. lab.isLoop => /\ lab.cont = q + 1 /\ lab.cont \in Nat /\ Len(Open(body, lab.cont)) = k
                     /\ \A j \in 1 .. k : Open(body, lab.cont)[j].base = o[j].base
  <2> SUFFICES ASSUME lab.isLoop
               PROVE  /\ lab.cont = q + 1 /\ lab.cont \in Nat /\ Len(Open(body, lab.cont)) = k
                      /\ \A j \in 1 .. k : Open(body, lab.cont)[j].base = o[j].base
    OBVIOUS
  <2>1. lab.cont = o[k].at /\ o[k].op = "loop"
    BY <1>9
  <2>2. WellOpen(body, Act.pc)
    BY <1>1, AllWellOpen
  <2>3. Open(body, o[k].at) = SubSeq(o, 1, k)
    BY <1>1, <1>4, <2>1, <2>2 DEF WellOpen
  <2>4. k \in 1 .. Len(o) /\ Len(o) \in Nat
    BY <1>1, <1>4
  <2>5. Len(SubSeq(o, 1, k)) = k /\ \A j \in 1 .. k : SubSeq(o, 1, k)[j] = o[j]
    <3> HIDE DEF o, k
    <3>1. SubSeq(o, 1, k) = [j \in 1 .. k |-> o[j]]
      BY <2>4
    <3> QED
      BY <2>4, <3>1
  <2>6. o[k].at = q + 1 /\ o[k].at \in Nat
    <3>1. o[k].at \in Nat
      BY <1>1, <1>8, TypedIs
    <3> HIDE DEF q, o, k
    <3> QED
      BY <1>7, <3>1
  <2> HIDE DEF lab, o, k, q
  <2> QED
    BY <2>1, <2>3, <2>5, <2>6
<1>15. /\ Act.pc \in 1 .. Len(body) - 1 /\ Next1 = Act.pc + 1 /\ Next1 \in 1 .. Len(body)
       /\ Open(body, Next1) = o
  BY NextIs DEF Next1
<1>16. dst = EndOf(body, q) + 1
  BY <1>1, <1>4, <1>6, <1>15, BranchLands
<1>17. /\ dst \in Nat \ {0} /\ Len(Open(body, dst)) = k - 1
       /\ \A j \in 1 .. k - 1 : Open(body, dst)[j].base = o[j].base
  <2>1. Landed(body, o, k, dst)
    <3>1. l < Len(Open(body, Next1)) /\ Len(Open(body, Next1)) - l = k
      BY <1>1, <1>4, <1>15
    <3>2. Landed(body, Open(body, Next1), Len(Open(body, Next1)) - l, dst)
      BY <1>1, <1>4, <1>15, <3>1, TargetFound
    <3> QED
      BY <1>15, <3>1, <3>2
  <2> HIDE DEF dst, o, k
  <2>2. /\ dst \in 1 .. Len(body) /\ Len(Open(body, dst)) = k - 1
        /\ \A j \in 1 .. k - 1 : Open(body, dst)[j] = o[j]
    BY <2>1 DEF Landed
  <2>3. Len(body) \in Nat
    BY <1>1, TypedIs
  <2> HIDE DEF body
  <2> QED
    BY <2>2, <2>3
<1> HIDE DEF lab, q, dst, o, k, body, m
<1>18. Labels = m /\ k \in 1 .. m /\ lab.sp = Marked(k + 1) /\ (lab.isLoop <=> body[q].op = "loop")
  BY <1>2, <1>4, <1>7, <1>9, <1>13
<1> QED
  BY <1>4, <1>11, <1>12, <1>13, <1>14, <1>16, <1>17, <1>18 DEF Aimed, lab, q, dst, o, k, body, m

(* What a branch leaves on the stack: a is where the block begins that it  *)
(* goes to, b where the label's begins.                                    *)
Carries(s, n, r, a, b, low) ==
  LET ops == Without(s, n)
      inner == SubSeq(s, low + 1, Len(s) - n)
      u == SubSeq(ops, 1, b) \o LastOf(ops, r)
  IN  /\ r <= Len(ops) /\ LastOf(inner, r) = LastOf(ops, r)
      /\ b <= Len(u) /\ a <= Len(u) /\ \A i \in 1 .. b : u[i] = s[i]
      /\ SubSeq(u, a + 1, Len(u)) = SubSeq(s, a + 1, b) \o LastOf(inner, r)
      /\ SubSeq(u, b + 1, Len(u)) = LastOf(inner, r)
LEMMA Dropped ==
  ASSUME NEW S, NEW s \in Seq(S), NEW n \in Nat, NEW r \in Nat, NEW a \in Nat, NEW b \in Nat,
         NEW low \in Nat, a <= b, b <= low, low + (n + r) <= Len(s)
  PROVE  Carries(s, n, r, a, b, low)
<1> DEFINE t == Len(s) - n
           ops == Without(s, n)
           inner == SubSeq(s, low + 1, t)
           top == LastOf(ops, r)
           u == SubSeq(ops, 1, b) \o top
<1>1. Len(s) \in Nat /\ n <= Len(s) /\ t \in Nat /\ low + r <= t /\ b <= t /\ r <= t /\ low + n <= Len(s)
  BY LenProperties
<1>2. ops \in Seq(S) /\ Len(ops) = t /\ \A i \in 1 .. t : ops[i] = s[i]
  <2>1. WithoutOf(S, s, n)
    BY <1>1, IsWithout
  <2> QED
    BY <2>1 DEF WithoutOf
<1>3. SubSeq(ops, low + 1, t) = inner
  BY <1>1, LowerPiece
<1> HIDE DEF ops, t
<1>4. LastOf(inner, r) = top
  <2>1. low + r <= Len(ops)
    BY <1>1, <1>2
  <2>2. LastOf(SubSeq(ops, low + 1, Len(ops)), r) = LastOf(ops, r)
    BY <1>2, <2>1, PieceEnds
  <2> QED
    BY <1>2, <1>3, <2>2
<1>5. top \in Seq(S) /\ Len(top) = r
  <2>1. r <= Len(ops)
    BY <1>1, <1>2
  <2> QED
    BY <1>2, <2>1, SplitAt
<1> HIDE DEF inner, top
<1>6. /\ u \in Seq(S) /\ Len(u) = b + r /\ Len(u) \in Nat /\ a <= Len(u) /\ b <= Len(u)
      /\ \A i \in 1 .. b : u[i] = ops[i]
      /\ SubSeq(u, a + 1, Len(u)) = SubSeq(ops, a + 1, b) \o top
      /\ SubSeq(u, b + 1, Len(u)) = SubSeq(ops, b + 1, b) \o top
  <2>1. b <= Len(ops) /\ b <= b
    BY <1>1, <1>2
  <2>2. OnTop(S, ops, top, a, b)
    BY <1>2, <1>5, <2>1, PieceOn
  <2>3. OnTop(S, ops, top, b, b)
    BY <1>2, <1>5, <2>1, PieceOn
  <2> QED
    BY <1>5, <2>2, <2>3 DEF OnTop
<1> HIDE DEF u
<1>7. \A i \in 1 .. b : u[i] = s[i]
  <2>1. \A i \in 1 .. b : i \in 1 .. t
    BY <1>1
  <2> QED
    BY <1>2, <1>6, <2>1
<1>8. SubSeq(ops, a + 1, b) = SubSeq(s, a + 1, b)
  <2>1. b <= Len(ops) /\ b <= Len(s) /\ \A i \in a + 1 .. b : i \in 1 .. t
    BY <1>1, <1>2 DEF t
  <2>2. \A i \in a + 1 .. b : ops[i] = s[i]
    BY <1>2, <2>1
  <2> QED
    BY <1>2, <2>1, <2>2, SamePiece
<1>9. SubSeq(ops, b + 1, b) \o top = top
  <2>1. b <= b /\ b <= Len(ops) /\ b - b = 0
    BY <1>1, <1>2
  <2>2. SubSeq(ops, b + 1, b) \in Seq(S) /\ Len(SubSeq(ops, b + 1, b)) = 0
    BY <1>2, <2>1, PieceIs
  <2>3. SubSeq(ops, b + 1, b) = << >>
    BY <2>2, EmptySeq
  <2>4. << >> \o top = top
    BY <1>5
  <2> QED
    BY <2>3, <2>4
<1>10. r <= Len(ops)
  BY <1>1, <1>2
<1>11. /\ r <= Len(ops) /\ LastOf(inner, r) = LastOf(ops, r)
       /\ b <= Len(u) /\ a <= Len(u) /\ \A i \in 1 .. b : u[i] = s[i]
       /\ SubSeq(u, a + 1, Len(u)) = SubSeq(s, a + 1, b) \o LastOf(inner, r)
       /\ SubSeq(u, b + 1, Len(u)) = LastOf(inner, r)
  BY <1>4, <1>6, <1>7, <1>8, <1>9, <1>10 DEF top
<1> QED
  BY <1>11 DEF Carries, u, top, inner, ops, t

LEMMA JumpSteps ==
  ASSUME Inv, Inv', Standing, Running, UNCHANGED prog,
         ~Opens(Fn.body, Act.pc), ~Closes(Fn.body, Act.pc), Instr.op # "else",
         NEW n \in Nat, NEW l, Branches(Fn, Act.pc, l, n), ~(l >= Labels),
         Jump(l, Without(stack, n))
  PROVE  Structured!Trap \/ Structured!Jump(l, Without(Structured!Inner, n))
<1> DEFINE body == Fn.body
           k == Deep - l
           e == k + 1
           lab == Label(l)
           q == Around(body, Act.pc, l)
           dst == BranchTarget(body, Next1, l)
           o == Open(body, Act.pc)
           a == Marked(k)
           b == Marked(e)
           ops == Without(stack, n)
           inner == Without(Structured!Inner, n)
           r == lab.arity
           u == SubSeq(ops, 1, b) \o LastOf(ops, r)
           carried == LastOf(inner, r)
<1>1. l \in Nat /\ l < Deep /\ Aimed(l, n)
  BY TargetHere
<1>2. /\ Labels = Deep /\ k \in 1 .. Deep
      /\ lab.sp = b /\ r \in {0, 1} /\ r = LabelArity(body, q)
      /\ lab.isLoop <=> body[q].op = "loop"
      /\ b <= Base /\ Base + (n + r) <= Len(stack)
  BY <1>1 DEF Aimed
<1>3. /\ Deep \in Nat /\ Base \in Nat /\ stack \in Seq(Words) /\ Len(stack) \in Nat
      /\ Len(Blocks) = Deep + 1
  BY BlocksHere
<1>4. k \in Nat /\ e \in Nat /\ k \in 1 .. Deep + 1 /\ e \in 1 .. Deep + 1 /\ e - 1 = k /\ Deep + 1 - l = e
  <2> HIDE DEF k
  <2>1. k = Deep - l
    BY DEF k
  <2> QED
    BY <1>1, <1>2, <1>3, <2>1
<1>5. /\ a \in Nat /\ b \in Nat /\ a <= b /\ Blocks[k] = SubSeq(stack, a + 1, b)
  <2> HIDE DEF k
  <2> QED
    BY <1>4, BlocksHere
<1>6. inner = SubSeq(stack, Base + 1, Len(stack) - n)
  <2>1. Base + n <= Len(stack)
    <3> HIDE DEF r, lab
    <3> QED
      BY <1>2, <1>3
  <2> QED
    BY <2>1, InnerEnds
<1> HIDE DEF k, e, lab, q, dst, a, b, r
<1>7. Carries(stack, n, r, a, b, Base)
  <2>1. r \in Nat
    BY <1>2
  <2> QED
    BY <1>2, <1>3, <1>5, <2>1, Dropped
<1>8. /\ r <= Len(ops) /\ carried = LastOf(ops, r)
      /\ b <= Len(u) /\ a <= Len(u) /\ \A i \in 1 .. b : u[i] = stack[i]
      /\ SubSeq(u, a + 1, Len(u)) = Blocks[k] \o carried
      /\ SubSeq(u, b + 1, Len(u)) = carried
  BY <1>5, <1>6, <1>7 DEF Carries
<1>9. Unstacked(ops, lab) = u
  BY <1>2 DEF Unstacked, r
<1>10. /\ Structured!Fn = Fn /\ Structured!Top.pc = Act.pc /\ Structured!Top.vals = Blocks
  BY Sights
<1>11. /\ Structured!Around(Structured!Fn.body, Structured!Top.pc, l) = q
       /\ Structured!LabelArity(Structured!Fn.body, q) = r
       /\ Structured!LastOf(inner, r) = carried
       /\ Structured!EndOf(Structured!Fn.body, q) = EndOf(body, q)
       /\ Len(Structured!Top.vals) - l = e
  <2>1. Structured!Around(Structured!Fn.body, Structured!Top.pc, l) = q
    BY <1>10, SameReading DEF q
  <2>2. Structured!LabelArity(Structured!Fn.body, q) = r
    BY <1>2, <1>10, SameReading
  <2>3. Structured!LastOf(inner, r) = carried
    <3> HIDE DEF inner
    <3> QED
      BY SameReading
  <2>4. Structured!EndOf(Structured!Fn.body, q) = EndOf(body, q)
    BY <1>10, SameReading
  <2>5. Len(Structured!Top.vals) - l = e
    <3>1. Len(Structured!Top.vals) = Deep + 1
      BY <1>3, <1>10
    <3>2. Deep + 1 - l = e /\ Deep \in Nat /\ l \in Nat
      BY <1>1, <1>3, <1>4
    <3> QED
      BY <3>1, <3>2
  <2> QED
    BY <2>1, <2>2, <2>3, <2>4, <2>5
<1>12. ~(l >= Len(Structured!Top.vals) - 1)
  BY <1>1, <1>3, <1>10
<1>13. ~(Len(ops) < r)
  <2>1. Len(ops) \in Nat
    <3>1. ops \in Seq(Words)
      <4>1. n <= Len(stack)
        BY <1>2, <1>3
      <4>2. WithoutOf(Words, stack, n)
        BY <1>3, <4>1, IsWithout
      <4> QED
        BY <4>2 DEF WithoutOf
    <3> HIDE DEF ops
    <3> QED
      BY <3>1, LenProperties
  <2> HIDE DEF ops
  <2> QED
    BY <1>2, <1>8, <2>1
<1> HIDE DEF ops, inner, u, carried
<1>14. CASE lab.isLoop
  <2>1. /\ lab.cont = q + 1 /\ lab.cont \in Nat /\ Len(Open(body, lab.cont)) = k
        /\ \A j \in 1 .. k : Open(body, lab.cont)[j].base = o[j].base
    BY <1>1, <1>14 DEF Aimed, lab, q, k
  <2>2. stack' = u /\ Goto(lab.cont) /\ UNCHANGED <<prog, locals>>
    <3>1. Jump(l, ops)
      BY DEF ops
    <3>2. ~(Len(ops) < Label(l).arity) /\ Label(l).isLoop
      BY <1>13, <1>14 DEF lab, r
    <3> QED
      BY <1>9, <3>1, <3>2 DEF Jump, lab
  <2>3. Structured!Stepped(lab.cont, Append(SubSeq(Blocks, 1, e - 1), SubSeq(stack', Marked(e) + 1, Len(stack'))))
    <3>1. /\ Len(Open(Fn.body, lab.cont)) = e - 1
          /\ \A j \in 1 .. e - 1 : Open(Fn.body, lab.cont)[j].base = Open(Fn.body, Act.pc)[j].base
      BY <1>4, <2>1
    <3>2. Marked(e) <= Len(stack') /\ \A i \in 1 .. Marked(e) : stack'[i] = stack[i]
      BY <1>8, <2>2 DEF b
    <3> QED
      BY <1>4, <2>1, <2>2, <3>1, <3>2, Shrinks
  <2>4. SubSeq(stack', Marked(e) + 1, Len(stack')) = carried
    BY <1>8, <2>2 DEF b
  <2>5. Structured!Stepped(q + 1, Append(SubSeq(Structured!Top.vals, 1, e - 1), carried))
    BY <1>10, <2>1, <2>3, <2>4
  <2>6. Structured!Fn.body[q].op = "loop"
    BY <1>2, <1>10, <1>14
  <2>7. Structured!Jump(l, inner)
    BY <1>11, <1>12, <2>5, <2>6 DEF Structured!Jump
  <2> QED
    BY <2>7 DEF inner
<1>15. CASE ~lab.isLoop
  <2>1. /\ dst = EndOf(body, q) + 1 /\ dst \in Nat \ {0} /\ Len(Open(body, dst)) = k - 1
        /\ \A j \in 1 .. k - 1 : Open(body, dst)[j].base = o[j].base
    BY <1>1, <1>15 DEF Aimed, lab, q, k, dst
  <2>2. stack' = u /\ Goto(dst) /\ UNCHANGED <<prog, locals>>
    <3>1. Jump(l, ops)
      BY DEF ops
    <3>2. ~(Len(ops) < Label(l).arity) /\ ~Label(l).isLoop
      BY <1>13, <1>15 DEF lab, r
    <3>3. dst # 0
      BY <2>1
    <3> QED
      BY <1>9, <3>1, <3>2, <3>3 DEF Jump, lab, dst
  <2>3. Structured!Stepped(dst, Structured!Fold(k + 1, carried))
    <3>1. a <= Len(stack') /\ SubSeq(stack', a + 1, Len(stack')) = Blocks[k] \o carried
      BY <1>8, <2>2
    <3>2. \A i \in 1 .. a : stack'[i] = stack[i]
      <4>1. \A i \in 1 .. a : i \in 1 .. b
        BY <1>5
      <4> QED
        BY <1>8, <2>2, <4>1
    <3> QED
      BY <1>2, <2>1, <2>2, <3>1, <3>2, Folds DEF a
  <2>4. ~(Structured!Fn.body[q].op = "loop")
    BY <1>2, <1>10, <1>15
  <2>5. Structured!Stepped(EndOf(body, q) + 1, Structured!Fold(e, carried))
    BY <2>1, <2>3 DEF e
  <2>6. Structured!Jump(l, inner)
    BY <1>11, <1>12, <2>4, <2>5 DEF Structured!Jump
  <2> QED
    BY <2>6 DEF inner
<1> QED
  BY <1>14, <1>15

(* The caller's blocks, with the results of a call on the innermost one.   *)
Resumed(s, t, r, o, from, to) ==
  LET V == BlocksAt(s, o, from, to)
  IN  BlocksAt(t, o, from, Len(t)) = Append(Front(V), Last(V) \o r)

LEMMA BlocksResume ==
  ASSUME NEW S, NEW s \in Seq(S), NEW t \in Seq(S), NEW r, NEW o, Len(o) \in Nat,
         NEW from \in Nat, NEW to \in Nat, Rising(o, from, to), to <= Len(s), to <= Len(t),
         \A i \in 1 .. to : t[i] = s[i], SubSeq(t, to + 1, Len(t)) = r
  PROVE  Resumed(s, t, r, o, from, to)
<1> DEFINE l == Len(o)
           e == l + 1
           V == BlocksAt(s, o, from, to)
           mark == Mark(o, from, to, e)
           end == Len(t)
<1>1. l \in Nat /\ e \in 1 .. l + 1 /\ e - 1 = l /\ end \in Nat /\ e + 1 = l + 2 /\ e \in Nat
  BY LenProperties
<1>2. /\ V \in Seq(Seq(S)) /\ Len(V) = e /\ mark \in Nat /\ mark <= to
      /\ V[e] = SubSeq(s, mark + 1, to)
  <2>1. Mark(o, from, to, e + 1) = to
    <3> DEFINE d == e + 1
    <3>1. d # 1 /\ d = Len(o) + 2
      BY <1>1
    <3> HIDE DEF d
    <3> QED
      BY <3>1 DEF Mark, d
  <2> HIDE DEF l, e, V, mark, end
  <2>2. /\ BlocksAt(s, o, from, to) \in Seq(Seq(S)) /\ Len(BlocksAt(s, o, from, to)) = Len(o) + 1
        /\ \A j \in 1 .. Len(o) + 1 : BlocksAt(s, o, from, to)[j] =
             SubSeq(s, Mark(o, from, to, j) + 1, Mark(o, from, to, j + 1))
        /\ \A j \in 1 .. Len(o) + 1 :
             /\ Mark(o, from, to, j) \in Nat /\ Mark(o, from, to, j + 1) \in Nat
             /\ Mark(o, from, to, j) <= Mark(o, from, to, j + 1)
             /\ Mark(o, from, to, j + 1) <= Len(s)
    <3>1. s \in Seq(S) /\ Len(o) \in Nat /\ Rising(o, from, to) /\ to \in Nat /\ to <= Len(s)
      OBVIOUS
    <3>2. Pieces(S, s, o, from, to)
      BY <3>1, BlocksTyped
    <3> QED
      BY <3>2 DEF Pieces
  <2>3. /\ V[e] = SubSeq(s, mark + 1, Mark(o, from, to, e + 1))
        /\ mark \in Nat /\ mark <= Mark(o, from, to, e + 1)
    BY <1>1, <2>2 DEF V, l, e, mark
  <2> QED
    BY <2>1, <2>2, <2>3 DEF V, e, l
<1>3. Front(V) = SubSeq(V, 1, l) /\ Last(V) = SubSeq(s, mark + 1, to)
  <2> HIDE DEF V
  <2> QED
    BY <1>1, <1>2 DEF Front, Last
<1> HIDE DEF l, e, V, mark, end
<1>4. mark <= end /\ \A i \in 1 .. mark : t[i] = s[i]
  <2>0. to <= end /\ \A i \in 1 .. to : t[i] = s[i]
    BY DEF end
  <2>1. mark \in Nat /\ mark <= to /\ end \in Nat
    BY <1>1, <1>2
  <2>2. \A i \in 1 .. mark : i \in 1 .. to
    BY <2>1
  <2>3. mark <= end
    BY <2>0, <2>1
  <2> QED
    BY <2>0, <2>2, <2>3
<1>5. Regrouped(s, t, o, o, l, from, to, mark, end)
  <2>1. mark = Mark(o, from, to, l + 1) /\ l \in 0 .. Len(o) /\ Len(o) = l
    BY <1>1 DEF mark, e, l
  <2>2. Kept(S, s, t, o, o, l, from, to, mark, end)
    BY <1>1, <1>2, <1>4, <2>1 DEF Kept, end
  <2> QED
    BY <1>1, <1>2, <2>2, BlocksKept
<1>6. SubSeq(t, mark + 1, end) = SubSeq(s, mark + 1, to) \o r
  <2>1. SubSeq(t, mark + 1, to) = SubSeq(s, mark + 1, to)
    <3>1. \A i \in mark + 1 .. to : i \in 1 .. to
      BY <1>2
    <3>2. \A i \in mark + 1 .. to : t[i] = s[i]
      BY <3>1
    <3> QED
      BY <1>2, <3>2, SamePiece
  <2>2. SubSeq(t, mark + 1, to) \o SubSeq(t, to + 1, end) = SubSeq(t, mark + 1, end)
    <3>1. to <= end /\ end <= Len(t)
      BY <1>1 DEF end
    <3>2. mark \in Nat /\ end \in Nat /\ mark <= to
      BY <1>1, <1>2
    <3> QED
      BY <3>1, <3>2, PieceJoins
  <2>3. SubSeq(t, to + 1, end) = r
    BY DEF end
  <2> QED
    BY <2>1, <2>2, <2>3
<1>7. BlocksAt(t, o, from, end) = Append(SubSeq(V, 1, l), SubSeq(t, mark + 1, end))
  BY <1>5 DEF Regrouped, V
<1>8. BlocksAt(t, o, from, end) = Append(Front(V), Last(V) \o r)
  BY <1>3, <1>6, <1>7
<1> QED
  BY <1>8 DEF Resumed, V, end

(* The last of a sequence of calls ends, and the one before it changes.    *)
Popped(F, G, x) == G = Append(Front(Front(F)), x)
LEMMA PopTwo ==
  ASSUME NEW n \in Nat, n >= 2, NEW F, NEW G, NEW x,
         F = [i \in 1 .. n |-> F[i]], G = [i \in 1 .. n - 1 |-> G[i]],
         \A i \in 1 .. n - 2 : G[i] = F[i], G[n - 1] = x
  PROVE  Len(F) = n /\ Last(Front(F)) = F[n - 1] /\ Popped(F, G, x)
<1> DEFINE R == {F[i] : i \in 1 .. n} \cup {x}
           f == Front(F)
           ff == Front(f)
           H == Append(ff, x)
<1>1. F \in Seq(R) /\ Len(F) = n
  <2>1. \A i \in 1 .. n : F[i] \in R
    OBVIOUS
  <2> HIDE DEF R
  <2>2. F \in [1 .. n -> R]
    BY <2>1
  <2> QED
    BY <2>2, SeqDef
<1> HIDE DEF f, ff, H
<1>2. f \in Seq(R) /\ Len(f) = n - 1 /\ \A j \in 1 .. n - 1 : f[j] = F[j]
  <2> HIDE DEF R
  <2>1. F # << >>
    BY <1>1
  <2> QED
    BY <1>1, <2>1, LastIs DEF f
<1>3. ff \in Seq(R) /\ Len(ff) = n - 2 /\ (\A j \in 1 .. n - 2 : ff[j] = f[j]) /\ Last(f) = f[n - 1]
  <2> HIDE DEF R
  <2>1. f # << >>
    BY <1>2
  <2>2. n - 1 - 1 = n - 2
    OBVIOUS
  <2>3. f \in Seq(R)
    BY <1>2
  <2>4. /\ Last(f) = f[Len(f)] /\ Front(f) \in Seq(R) /\ Len(Front(f)) = Len(f) - 1
        /\ \A j \in 1 .. Len(f) - 1 : Front(f)[j] = f[j]
    BY <2>1, <2>3, LastIs
  <2> QED
    BY <1>2, <2>2, <2>4 DEF ff
<1>4. x \in R
  OBVIOUS
<1> HIDE DEF R
<1>5. H \in Seq(R) /\ Len(H) = n - 1 /\ (\A j \in 1 .. n - 2 : H[j] = ff[j]) /\ H[n - 1] = x
  <2>1. H \in Seq(R) /\ Len(H) = Len(ff) + 1 /\ (\A j \in 1 .. Len(ff) : H[j] = ff[j]) /\ H[Len(ff) + 1] = x
    BY <1>3, <1>4, AppendProperties DEF H
  <2>2. n - 2 + 1 = n - 1
    OBVIOUS
  <2> QED
    BY <1>3, <2>1, <2>2
<1>6. H = [j \in 1 .. n - 1 |-> H[j]]
  BY <1>5, LenProperties
<1>7. \A j \in 1 .. n - 1 : H[j] = G[j]
  <2> TAKE j \in 1 .. n - 1
  <2>1. j \in 1 .. n - 2 \/ j = n - 1
    OBVIOUS
  <2>2. CASE j \in 1 .. n - 2
    <3>1. j \in 1 .. n - 1
      OBVIOUS
    <3>2. f[j] = F[j]
      BY <1>2, <3>1
    <3> QED
      BY <1>3, <1>5, <2>2, <3>2
  <2>3. CASE j = n - 1
    BY <1>5, <2>3
  <2> QED
    BY <2>1, <2>2, <2>3
<1>8. G = H
  BY <1>6, <1>7
<1>9. Last(f) = F[n - 1]
  <2>1. n - 1 \in 1 .. n - 1
    OBVIOUS
  <2> QED
    BY <1>2, <1>3, <2>1
<1> QED
  BY <1>1, <1>8, <1>9 DEF Popped, H, ff, f

(* A call that ends hands its results on to its caller.                    *)
LEMMA LeaveSteps ==
  ASSUME Inv, Inv', Standing, Running, UNCHANGED prog,
         NEW n \in Nat, Enough(Fn.body, Act.pc, n + Fn.results), Unwind(Without(stack, n))
  PROVE  Structured!Trap \/ Structured!Leave(Without(Structured!Inner, n))
<1> DEFINE m == Len(acts)
           F == AllFrames(prog, acts, stack, locals)
           sb == Act.spBase
           lb == Act.localsBase
           r == Fn.results
           ops == Without(stack, n)
           u == SubSeq(ops, 1, sb) \o LastOf(ops, r)
           low == SubSeq(locals, 1, lb)
           inner == Without(Structured!Inner, n)
           res == LastOf(inner, r)
<1>1. /\ m \in Nat \ {0} /\ Act = acts[m] /\ sb \in Nat /\ lb \in Nat /\ r \in {0, 1}
      /\ stack \in Seq(Words) /\ locals \in Seq(Words) /\ Len(locals) \in Nat
      /\ sb <= Base /\ Base \in Nat /\ Len(stack) \in Nat
  BY Here, BlocksHere
<1>2. lb <= Len(locals)
  <2>1. Fn.params \in Nat /\ Fn.locals \in Nat /\ Len(locals) = lb + Fn.params + Fn.locals
    BY Here
  <2> HIDE DEF lb
  <2> QED
    BY <1>1, <2>1
<1>3. Base + (n + r) <= Len(stack)
  <2> DEFINE z == n + r
  <2>1. z \in Nat
    <3> HIDE DEF r
    <3> QED
      BY <1>1
  <2>2. Enough(Fn.body, Act.pc, z)
    OBVIOUS
  <2> HIDE DEF z
  <2>3. Base + z <= Len(stack)
    BY <2>1, <2>2, EnoughHere
  <2> QED
    BY <2>3 DEF z
<1>4. inner = SubSeq(stack, Base + 1, Len(stack) - n)
  <2>1. Base + n <= Len(stack)
    <3> HIDE DEF r
    <3> QED
      BY <1>1, <1>3
  <2> QED
    BY <2>1, InnerEnds
<1> HIDE DEF m, sb, lb, r
<1>5. /\ res = LastOf(ops, r) /\ sb <= Len(u) /\ (\A i \in 1 .. sb : u[i] = stack[i])
      /\ SubSeq(u, sb + 1, Len(u)) = res
  <2>1. sb <= sb /\ r \in Nat
    BY <1>1
  <2>2. Carries(stack, n, r, sb, sb, Base)
    BY <1>1, <1>3, <2>1, Dropped
  <2> QED
    BY <1>4, <2>2 DEF Carries
<1>6. low \in Seq(Words) /\ Len(low) = lb /\ \A i \in 1 .. lb : low[i] = locals[i]
  <2>1. lb \in Nat /\ lb <= Len(locals) /\ 0 <= lb
    BY <1>1, <1>2
  <2>2. /\ SubSeq(locals, 0 + 1, lb) \in Seq(Words) /\ Len(SubSeq(locals, 0 + 1, lb)) = lb - 0
        /\ \A i \in 1 .. lb - 0 : SubSeq(locals, 0 + 1, lb)[i] = locals[0 + i]
    BY <1>1, <2>1, PieceIs
  <2>3. 0 + 1 = 1 /\ lb - 0 = lb /\ \A i \in 1 .. lb : 0 + i = i
    BY <1>1
  <2> QED
    BY <2>2, <2>3
<1> HIDE DEF ops, u, low, inner, res, F
<1>7. CASE Fn.results > 0 /\ Len(ops) <= Act.spBase
  BY <1>7, FailTraps DEF Unwind, ops
<1>8. CASE ~(Fn.results > 0 /\ Len(ops) <= Act.spBase)
  <2>1. /\ stack' = u /\ locals' = low /\ acts' = Front(acts)
        /\ reply' = IF m = 1 THEN "ok" ELSE reply
    BY <1>8 DEF Unwind, ops, u, low, sb, lb, r, m
  <2>2. acts \in Seq(Activations) /\ acts # << >>
    BY DEF Inv, StackTypes, Running
  <2>3. Len(acts') = m - 1 /\ \A i \in 1 .. m - 1 : acts'[i] = acts[i]
    BY <2>1, <2>2, LastIs DEF m
  <2>4. F = [i \in 1 .. m |-> F[i]] /\ Len(F) = m
    <3>1. F = [i \in 1 .. m |-> F[i]]
      BY DEF F, AllFrames, m
    <3> QED
      BY <1>1, <3>1
  <2>5. [i \in 1 .. Len(acts) |-> CallOf(i)] = F
    BY FramesAre DEF F
  <2> DEFINE G == AllFrames(prog', acts', stack', locals')
  <2>6. [i \in 1 .. Len(acts) |-> CallOf(i)]' = G
    BY FramesNext
  <2>7. /\ Structured!Fn = Fn /\ Structured!LastOf(inner, Structured!Fn.results) = res
    BY Sights, SameReading DEF res, r
  <2>8. CASE m = 1
    <3>1. G = << >>
      <4>1. Len(acts') = 0
        BY <2>3, <2>8
      <4> QED
        BY <4>1 DEF AllFrames
    <3>2. (IF reply \in {"none", "ok"} THEN reply ELSE "trap")' = "ok"
      BY <2>1, <2>8
    <3> HIDE DEF G
    <3>3. Structured!Leave(inner)
      BY <2>4, <2>5, <2>6, <2>8, <3>1, <3>2 DEF Structured!Leave
    <3> QED
      BY <3>3 DEF inner
  <2>9. CASE m # 1
    <3> DEFINE i0 == m - 1
               c == acts[i0]
               o == Open(prog[c.fn].body, c.pc)
               from == c.spBase
               V == BlocksAt(stack, o, from, sb)
               x == FrameAt(prog, c, stack', locals', Len(stack'), Len(locals'))
               old == FrameAt(prog, c, stack, locals, sb, lb)
    <3>1. i0 \in 1 .. m - 1 /\ i0 \in Nat /\ i0 + 1 = m /\ m >= 2 /\ i0 \in 1 .. m /\ i0 # m
      BY <1>1, <2>9
    <3>2. /\ Len(o) \in Nat /\ from \in Nat /\ c.localsBase \in Nat /\ c.localsBase <= lb
          /\ Rising(o, from, sb)
      <4>1. i0 \in 1 .. Len(acts) - 1 /\ acts[i0 + 1] = Act
        BY <1>1, <3>1 DEF m
      <4> HIDE DEF i0
      <4> QED
        BY <4>1, CallerIs DEF sb, lb
    <3>3. stack' \in Seq(Words) /\ locals' \in Seq(Words)
      BY DEF Inv, StackTypes
    <3>4. F[i0] = old /\ \A i \in 1 .. m - 2 :
            F[i] = FrameAt(prog, acts[i], stack, locals, acts[i + 1].spBase, acts[i + 1].localsBase)
      <4>1. \A i \in 1 .. m - 1 : i \in 1 .. m /\ i # m
        BY <1>1
      <4>2. \A i \in 1 .. m - 1 :
            F[i] = FrameAt(prog, acts[i], stack, locals, acts[i + 1].spBase, acts[i + 1].localsBase)
        BY <4>1 DEF F, AllFrames, m
      <4>3. \A i \in 1 .. m - 2 : i \in 1 .. m - 1
        BY <1>1
      <4> QED
        BY <1>1, <3>1, <4>2, <4>3 DEF sb, lb
    <3>5. G = [i \in 1 .. m - 1 |-> G[i]] /\ G[m - 1] = x
      <4>1. G = [i \in 1 .. m - 1 |->
              FrameAt(prog, acts'[i], stack', locals', IF i = m - 1 THEN Len(stack') ELSE acts'[i + 1].spBase,
                 IF i = m - 1 THEN Len(locals') ELSE acts'[i + 1].localsBase)]
        BY <2>3 DEF AllFrames
      <4> HIDE DEF G
      <4> QED
        BY <2>3, <3>1, <4>1
    <3>6. \A i \in 1 .. m - 2 :
            G[i] = FrameAt(prog, acts[i], stack', locals', acts[i + 1].spBase, acts[i + 1].localsBase)
      <4>1. \A i \in 1 .. m - 2 : i \in 1 .. m - 1 /\ i # m - 1 /\ i + 1 \in 1 .. m - 1
        BY <1>1
      <4>2. \A i \in 1 .. m - 1 : G[i] =
              FrameAt(prog, acts'[i], stack', locals', IF i = m - 1 THEN Len(stack') ELSE acts'[i + 1].spBase,
                 IF i = m - 1 THEN Len(locals') ELSE acts'[i + 1].localsBase)
        BY <2>3 DEF AllFrames
      <4> HIDE DEF G
      <4> QED
        BY <2>3, <4>1, <4>2
    <3>7. \A i \in 1 .. m - 2 : G[i] = F[i]
      <4>1. /\ Act.spBase <= Len(stack') /\ \A j \in 1 .. Act.spBase : stack'[j] = stack[j]
            /\ Act.localsBase <= Len(locals') /\ \A j \in 1 .. Act.localsBase : locals'[j] = locals[j]
        <5>1. Len(locals') = lb /\ lb <= lb
          BY <1>1, <1>6, <2>1
        <5>2. /\ sb <= Len(stack') /\ \A j \in 1 .. sb : stack'[j] = stack[j]
              /\ lb <= Len(locals') /\ \A j \in 1 .. lb : locals'[j] = locals[j]
          BY <1>5, <1>6, <2>1, <5>1
        <5> QED
          BY <5>2 DEF sb, lb
      <4>2. \A i \in 1 .. Len(acts) - 1 :
              FrameAt(prog, acts[i], stack', locals', acts[i + 1].spBase, acts[i + 1].localsBase)
                = FrameAt(prog, acts[i], stack, locals, acts[i + 1].spBase, acts[i + 1].localsBase)
        BY <3>3, <4>1, CallersSame
      <4>3. \A i \in 1 .. m - 2 : i \in 1 .. Len(acts) - 1
        BY <1>1 DEF m
      <4> HIDE DEF G
      <4> QED
        BY <3>4, <3>6, <4>2, <4>3
    <3>8. Resumed(stack, stack', res, o, from, sb)
      <4>1. sb <= Len(stack)
        BY <1>1, <1>3
      <4>2. /\ sb <= Len(stack') /\ \A i \in 1 .. sb : stack'[i] = stack[i]
            /\ SubSeq(stack', sb + 1, Len(stack')) = res
        BY <1>5, <2>1
      <4> HIDE DEF o, from
      <4> QED
        BY <1>1, <3>2, <3>3, <4>1, <4>2, BlocksResume
    <3>9. x = [old EXCEPT !.vals = Append(Front(@), Last(@) \o res)]
      <4> DEFINE cl == c.localsBase
                 fn == c.fn
                 pc == c.pc
                 new == Append(Front(V), Last(V) \o res)
                 ls == SubSeq(locals, cl + 1, lb)
      <4>1. SubSeq(locals', cl + 1, Len(locals')) = ls
        <5>1. lb <= Len(locals') /\ Len(locals') = lb /\ lb <= Len(locals)
          BY <1>1, <1>2, <1>6, <2>1
        <5>2. \A i \in cl + 1 .. lb : i \in 1 .. lb
          <6> HIDE DEF cl
          <6> QED
            BY <1>1, <3>2 DEF cl
        <5>3. \A i \in cl + 1 .. lb : locals'[i] = locals[i]
          BY <1>6, <2>1, <5>2
        <5>4. cl \in Nat /\ cl <= lb
          BY <3>2
        <5> HIDE DEF cl
        <5>5. SubSeq(locals', cl + 1, lb) = SubSeq(locals, cl + 1, lb)
          <6> DEFINE pool == locals
                     left == locals'
          <6>1. /\ pool \in Seq(Words) /\ left \in Seq(Words) /\ lb \in Nat /\ lb <= Len(pool) /\ lb <= Len(left)
                /\ \A i \in cl + 1 .. lb : left[i] = pool[i]
            BY <1>1, <3>3, <5>1, <5>3
          <6> HIDE DEF pool, left, lb
          <6>2. SubSeq(left, cl + 1, lb) = SubSeq(pool, cl + 1, lb)
            BY <5>4, <6>1, SamePiece
          <6> QED
            BY <6>2 DEF pool, left
        <5> QED
          BY <5>1, <5>5
      <4>2. BlocksAt(stack', o, from, Len(stack')) = new
        BY <3>8 DEF Resumed
      <4>3. x = [fn |-> fn, pc |-> pc, vals |-> new, locals |-> ls]
        BY <4>1, <4>2 DEF FrameAt
      <4>4. old = [fn |-> fn, pc |-> pc, vals |-> V, locals |-> ls]
        BY DEF FrameAt
      <4> HIDE DEF x, old, V, ls, fn, pc
      <4>5. old.vals = V
        BY <4>4
      <4>6. new = Append(Front(old.vals), Last(old.vals) \o res)
        BY <4>5 DEF new
      <4> HIDE DEF new
      <4>7. x = [old EXCEPT !.vals = new]
        BY <4>3, <4>4
      <4> QED
        BY <4>6, <4>7
    <3> HIDE DEF G, x, old, i0, c, o, from, V
    <3>10. Last(Front(F)) = F[m - 1] /\ Popped(F, G, x)
      <4>1. m \in Nat /\ m >= 2
        BY <1>1, <3>1
      <4>2. F = [i \in 1 .. m |-> F[i]]
        BY <2>4
      <4>3. G = [i \in 1 .. m - 1 |-> G[i]] /\ G[m - 1] = x
        BY <3>5
      <4> QED
        BY <4>1, <4>2, <4>3, <3>7, PopTwo
    <3>11. Last(Front(F)) = old
      BY <3>4, <3>10 DEF i0
    <3>12. UNCHANGED (IF reply \in {"none", "ok"} THEN reply ELSE "trap")
      BY <2>1, <2>9
    <3>13. G = Append(Front(Front(F)), [old EXCEPT !.vals = Append(Front(@), Last(@) \o res)])
      BY <3>9, <3>10 DEF Popped
    <3>14. /\ Structured!Last(Structured!Front(F)) = old
           /\ Structured!Front(Structured!Front(F)) = Front(Front(F))
           /\ [old EXCEPT !.vals = Append(Structured!Front(@), Structured!Last(@) \o res)]
                = [old EXCEPT !.vals = Append(Front(@), Last(@) \o res)]
      BY <3>11, SameReading
    <3>15. Structured!Leave(inner)
      BY <2>4, <2>5, <2>6, <2>7, <2>9, <3>12, <3>13, <3>14 DEF Structured!Leave
    <3> QED
      BY <3>15 DEF inner
  <2> QED
    BY <2>8, <2>9
<1> QED
  BY <1>7, <1>8

(* A branch, to a label or past the outermost one.                         *)
LEMMA BranchTaken ==
  ASSUME Inv, Inv', Standing, Running, UNCHANGED prog,
         ~Opens(Fn.body, Act.pc), ~Closes(Fn.body, Act.pc), Instr.op # "else",
         NEW n \in Nat, NEW l, Branches(Fn, Act.pc, l, n), Jump(l, Without(stack, n))
  PROVE  Structured!Trap \/ Structured!Jump(l, Without(Structured!Inner, n))
<1>1. CASE ~(l >= Labels)
  BY <1>1, JumpSteps
<1>2. CASE l >= Labels
  <2> DEFINE m == Deep
             c == Len(ctrl)
             cb == Act.ctrlBase
  <2>1. m \in Nat /\ m = Len(Open(Fn.body, Act.pc)) /\ Len(Blocks) = m + 1
    BY BlocksHere
  <2>2. Labels = m
    <3>1. cb \in Nat /\ c = cb + Len(Open(Fn.body, Act.pc)) /\ Labels = c - cb
      BY Here DEF Labels
    <3> HIDE DEF c, cb, m
    <3> QED
      BY <2>1, <3>1
  <2>3. l = m /\ l = Len(Open(Fn.body, Act.pc)) /\ Enough(Fn.body, Act.pc, n + Carried(Fn, Act.pc, l))
    <3>1. l \in 0 .. m /\ Enough(Fn.body, Act.pc, n + Carried(Fn, Act.pc, l))
      BY <2>1 DEF Branches
    <3> HIDE DEF m
    <3> QED
      BY <1>2, <2>1, <2>2, <3>1
  <2>4. Enough(Fn.body, Act.pc, n + Fn.results)
    BY <2>3 DEF Carried
  <2>5. Unwind(Without(stack, n))
    BY <1>2 DEF Jump
  <2>6. Structured!Trap \/ Structured!Leave(Without(Structured!Inner, n))
    BY <2>4, <2>5, LeaveSteps
  <2>7. l >= Len(Structured!Top.vals) - 1
    <3>1. Structured!Top.vals = Blocks
      BY Sights
    <3>2. Len(Structured!Top.vals) = m + 1
      BY <2>1, <3>1
    <3> HIDE DEF m
    <3> QED
      BY <2>1, <2>3, <3>2
  <2> QED
    BY <2>6, <2>7 DEF Structured!Jump
<1> QED
  BY <1>1, <1>2

(* Nothing taken off.                                                      *)
LEMMA NoneTaken ==
  ASSUME Inv, Running
  PROVE  stack = Without(stack, 0) /\ Without(Structured!Inner, 0) = Structured!Inner
<1>1. stack \in Seq(Words) /\ Base + 0 <= Len(stack) /\ 0 \in Nat
  BY BlocksHere
<1>2. Structured!Inner \in Seq(Words)
  BY <1>1, InnerEnds
<1>3. ASSUME NEW s \in Seq(Words) PROVE Without(s, 0) = s
  <2>1. Len(s) - 0 = Len(s)
    BY LenProperties
  <2> QED
    BY <2>1, WholeSeq DEF Without
<1> QED
  BY <1>1, <1>2, <1>3

(* The three branches.                                                      *)
LEMMA BranchSteps ==
  ASSUME Inv, Inv', Standing, Br \/ BrIf \/ BrTable
  PROVE  Structured!StructNext
<1>1. /\ Running /\ UNCHANGED prog /\ Instr.op \in {"br", "br_if", "br_table"}
  BY DEF Br, BrIf, BrTable, Runs
<1>2. Instr.op \notin Openers \cup {"else", "end"}
  BY <1>1 DEF Openers
<1>3. /\ ~Opens(Fn.body, Act.pc) /\ ~Closes(Fn.body, Act.pc) /\ Instr.op # "else"
      /\ ControlChecked(prog, Fn, Act.pc)
  BY <1>1, <1>2, Straight
<1>4. Structured!Instr = Instr /\ Structured!Running
  BY <1>1, Sights
<1>5. ASSUME Structured!Branch PROVE Structured!StructNext
  BY <1>1, <1>4, <1>5 DEF Structured!StructNext
<1>6. CASE Br
  <2>1. Branches(Fn, Act.pc, Instr.arg, 0) /\ Instr.op = "br" /\ Jump(Instr.arg, stack)
    BY <1>3, <1>6 DEF Br, Runs, ControlChecked, Instr
  <2>2. 0 \in Nat /\ Jump(Instr.arg, Without(stack, 0))
    BY <1>1, <2>1, NoneTaken
  <2>3. Structured!Trap \/ Structured!Jump(Instr.arg, Without(Structured!Inner, 0))
    BY <1>1, <1>3, <2>1, <2>2, BranchTaken
  <2>4. Structured!Trap \/ Structured!Jump(Instr.arg, Structured!Inner)
    BY <1>1, <2>3, NoneTaken
  <2>5. CASE Structured!Jump(Instr.arg, Structured!Inner)
    BY <1>4, <1>5, <2>1, <2>5 DEF Structured!Branch
  <2> QED
    BY <1>1, <2>4, <2>5, TrapSteps
<1>7. CASE BrIf
  <2>1. /\ Branches(Fn, Act.pc, Instr.arg, 1) /\ Instr.op = "br_if"
        /\ Enough(Fn.body, Act.pc, 1) /\ 1 \in Nat
    BY <1>3, <1>7 DEF BrIf, Runs, ControlChecked, Instr, Goes
  <2>2. /\ Structured!Last(Structured!Inner) = Last(stack)
        /\ Structured!Front(Structured!Inner) = Without(Structured!Inner, 1)
        /\ stack # << >> /\ Front(stack) = Without(stack, 1)
    BY <1>1, <2>1, ConditionIs
  <2>3. CASE Last(stack) # 0
    <3>1. Jump(Instr.arg, Without(stack, 1))
      BY <1>7, <2>2, <2>3 DEF BrIf
    <3>2. Structured!Trap \/ Structured!Jump(Instr.arg, Without(Structured!Inner, 1))
      BY <1>1, <1>3, <2>1, <3>1, BranchTaken
    <3>3. CASE Structured!Jump(Instr.arg, Without(Structured!Inner, 1))
      BY <1>4, <1>5, <2>1, <2>2, <2>3, <3>3 DEF Structured!Branch
    <3> QED
      BY <1>1, <3>2, <3>3, TrapSteps
  <2>4. CASE Last(stack) = 0
    <3> DEFINE none == << >>
               rest == Without(Structured!Inner, 1)
    <3>1. none \in Seq(Words) /\ PopPush(1, none)
      BY <1>7, <2>2, <2>4 DEF BrIf
    <3>2. rest \in Seq(Words)
      <4>1. Base \in Nat /\ Len(stack) \in Nat /\ Base + 1 <= Len(stack)
        BY <1>1, <2>1, EnoughHere
      <4>2. Structured!Inner \in Seq(Words) /\ Len(Structured!Inner) = Len(stack) - Base
        BY <1>1, <2>1, <4>1, InnerEnds
      <4>3. 1 <= Len(Structured!Inner)
        BY <4>1, <4>2
      <4> QED
        BY <2>1, <4>2, <4>3, SplitAt
    <3>3. Structured!Trap \/ Structured!Operands(rest \o none)
      <4> HIDE DEF none
      <4>1. Structured!Trap \/ Structured!Operands(Without(Structured!Inner, 1) \o none)
        BY <1>1, <1>2, <2>1, <3>1, OperandsMove
      <4> QED
        BY <4>1
    <3>4. rest \o none = rest
      <4> HIDE DEF rest
      <4> QED
        BY <3>2
    <3> HIDE DEF rest, none
    <3>5. Structured!Trap \/ Structured!Operands(rest)
      BY <3>3, <3>4
    <3>6. CASE Structured!Operands(rest)
      BY <1>4, <1>5, <2>1, <2>2, <2>4, <3>6 DEF Structured!Branch, rest
    <3> QED
      BY <1>1, <3>5, <3>6, TrapSteps
  <2> QED
    BY <2>3, <2>4
<1>8. CASE BrTable
  <2> DEFINE n == Len(Instr.arg) - 1
             x == Last(stack)
             to == IF x < n THEN x + 1 ELSE n + 1
             l == Instr.arg[to]
  <2>1. /\ Instr.arg \in Seq(Nat) /\ Instr.arg # << >> /\ Instr.op = "br_table"
        /\ Enough(Fn.body, Act.pc, 1) /\ 1 \in Nat
        /\ \A k \in DOMAIN Instr.arg : Branches(Fn, Act.pc, Instr.arg[k], 1)
    BY <1>3, <1>8 DEF BrTable, Runs, ControlChecked, Instr
  <2>2. /\ Structured!Last(Structured!Inner) = Last(stack)
        /\ Structured!Front(Structured!Inner) = Without(Structured!Inner, 1)
        /\ stack # << >> /\ Front(stack) = Without(stack, 1)
    BY <1>1, <2>1, ConditionIs
  <2>3. Jump(l, Without(stack, 1))
    BY <1>8, <2>2 DEF BrTable
  <2>4. to \in DOMAIN Instr.arg
    <3>1. x \in Nat
      BY <1>1, <2>1, Condition DEF Words
    <3>2. Len(Instr.arg) \in Nat \ {0} /\ DOMAIN Instr.arg = 1 .. Len(Instr.arg)
      <4>1. Len(Instr.arg) \in Nat /\ DOMAIN Instr.arg = 1 .. Len(Instr.arg)
        BY <2>1, LenProperties
      <4>2. Len(Instr.arg) # 0
        BY <2>1, EmptySeq
      <4> QED
        BY <4>1, <4>2
    <3> DEFINE t == Len(Instr.arg)
    <3>3. n = t - 1 /\ t \in Nat /\ t # 0
      BY <3>2
    <3> HIDE DEF x, n, t
    <3>4. to \in 1 .. t
      BY <3>1, <3>3
    <3> QED
      BY <3>2, <3>4 DEF t
  <2>5. Branches(Fn, Act.pc, l, 1)
    BY <2>1, <2>4
  <2>6. Structured!Trap \/ Structured!Jump(l, Without(Structured!Inner, 1))
    <3> HIDE DEF l
    <3> QED
      BY <1>1, <1>3, <2>1, <2>3, <2>5, BranchTaken
  <2>7. CASE Structured!Jump(l, Without(Structured!Inner, 1))
    <3>1. Structured!Branch
      BY <1>4, <2>1, <2>2, <2>7 DEF Structured!Branch
    <3> QED
      BY <1>5, <3>1
  <2> QED
    BY <1>1, <2>6, <2>7, TrapSteps
<1> QED
  BY <1>6, <1>7, <1>8

(* A call that returns, by itself or at the end of its body.               *)
LEMMA ReturnSteps ==
  ASSUME Inv, Inv', Standing, Return \/ (End /\ ~(Labels > 0))
  PROVE  Structured!StructNext
<1>1. /\ Running /\ UNCHANGED prog /\ Instr.op \in {"return", "end"} /\ Unwind(stack)
      /\ Instr.op = "end" => ~(Labels > 0)
  BY DEF Return, End, Runs
<1>2. /\ Structured!Instr = Instr /\ Structured!Running /\ Structured!Top.vals = Blocks
  BY <1>1, Sights
<1>3. /\ ValidFunction(prog, Fn) /\ Act.pc \in 1 .. Len(Fn.body)
      /\ Fn.results \in {0, 1} /\ Act.ctrlBase \in Nat
      /\ Len(ctrl) = Act.ctrlBase + Len(Open(Fn.body, Act.pc))
      /\ Len(Open(Fn.body, Act.pc)) \in Nat
      /\ Deep = Len(Open(Fn.body, Act.pc)) /\ Len(Blocks) = Deep + 1
  BY <1>1, Here, BlocksHere
<1>4. Enough(Fn.body, Act.pc, Fn.results) /\ (Instr.op = "end" => Len(Blocks) = 1)
  <2>1. CASE Instr.op = "return"
    <3>1. ControlChecked(prog, Fn, Act.pc)
      BY <1>3 DEF ValidFunction
    <3> QED
      BY <2>1, <3>1 DEF ControlChecked, Instr
  <2>2. CASE Instr.op = "end"
    <3> DEFINE o == Open(Fn.body, Act.pc)
               k == Len(o)
    <3>1. k = 0
      <4>1. ~(Len(ctrl) - Act.ctrlBase > 0)
        BY <1>1, <2>2 DEF Labels
      <4> HIDE DEF k
      <4> QED
        BY <1>3, <4>1 DEF k
    <3>2. Closes(Fn.body, Act.pc)
      BY <2>2 DEF Closes, Instr
    <3>3. EndsWell(Fn, Act.pc) /\ NestsWell(Fn.body, Act.pc) /\ o \in Seq(OpenBlocks(Fn.body))
      BY <1>3, TypedIs DEF ValidFunction
    <3>4. o = << >>
      BY <3>1, <3>3, EmptySeq
    <3>5. Act.pc = Len(Fn.body)
      <4>1. ~(Act.pc < Len(Fn.body))
        BY <3>2, <3>3, <3>4 DEF NestsWell
      <4>2. Len(Fn.body) \in Nat
        BY <1>1, Here
      <4> QED
        BY <1>3, <4>1, <4>2
    <3>6. Height(Fn.body, Act.pc) = Fn.results
      BY <3>3, <3>5 DEF EndsWell
    <3>7. Floor(Fn.body, Act.pc) = 0
      BY <3>4 DEF Floor
    <3>8. Enough(Fn.body, Act.pc, Fn.results)
      BY <1>3, <3>6, <3>7 DEF Enough
    <3>9. Len(Blocks) = 1
      BY <1>3, <3>1
    <3> QED
      BY <3>8, <3>9
  <2> QED
    BY <1>1, <2>1, <2>2
<1>5. Enough(Fn.body, Act.pc, 0 + Fn.results) /\ Unwind(Without(stack, 0)) /\ 0 \in Nat
  <2>1. 0 + Fn.results = Fn.results
    BY <1>3
  <2> QED
    BY <1>1, <1>4, <2>1, NoneTaken
<1>6. Structured!Trap \/ Structured!Leave(Without(Structured!Inner, 0))
  BY <1>1, <1>5, LeaveSteps
<1>7. Structured!Trap \/ Structured!Leave(Structured!Inner)
  BY <1>1, <1>6, NoneTaken
<1>8. CASE Structured!Leave(Structured!Inner)
  <2>1. Instr.op = "return" \/ (Instr.op = "end" /\ Len(Structured!Top.vals) = 1)
    BY <1>1, <1>2, <1>4
  <2>2. Structured!Return
    BY <1>2, <1>8, <2>1 DEF Structured!Return
  <2> QED
    BY <1>1, <1>2, <2>2 DEF Structured!StructNext
<1> QED
  BY <1>1, <1>7, <1>8, TrapSteps

(* n operands taken from the innermost block.                              *)
LEMMA BlocksWithout ==
  ASSUME Inv, Inv', Running, NEW n \in Nat, Enough(Fn.body, Act.pc, n),
         NEW pc \in Nat, Open(Fn.body, pc) = Open(Fn.body, Act.pc), stack' = Without(stack, n)
  PROVE  /\ Act.spBase <= Len(stack') /\ \A j \in 1 .. Act.spBase : stack'[j] = stack[j]
         /\ BlocksAt(stack', Open(Fn.body, pc), Act.spBase, Len(stack')) =
              Append(Front(Blocks), Without(Structured!Inner, n))
<1> DEFINE a == Base
           k == Deep + 1
           t == Len(stack) - n
<1>1. a \in Nat /\ a + n <= Len(stack) /\ Len(stack) \in Nat /\ t \in Nat /\ t <= Len(stack)
      /\ n <= Len(stack) /\ a <= t
  <2> DEFINE s == Len(stack)
  <2>1. a \in Nat /\ s \in Nat /\ a + n <= s
    BY EnoughHere
  <2> HIDE DEF a, s
  <2>2. s - n \in Nat /\ s - n <= s /\ n <= s /\ a <= s - n
    BY <2>1
  <2> QED
    BY <2>1, <2>2 DEF s
<1>2. /\ k \in 1 .. Deep + 1 /\ k - 1 = Deep /\ Marked(k) = a /\ stack \in Seq(Words)
      /\ Len(Open(Fn.body, pc)) = k - 1 /\ Len(Blocks) = k
      /\ \A j \in 1 .. k - 1 : Open(Fn.body, pc)[j].base = Open(Fn.body, Act.pc)[j].base
  BY BlocksHere
<1> HIDE DEF a, k
<1>3. Len(stack') = t /\ \A i \in 1 .. t : stack'[i] = stack[i]
  <2>1. WithoutOf(Words, stack, n)
    <3> HIDE DEF t
    <3> QED
      BY <1>1, <1>2, IsWithout
  <2> QED
    BY <2>1 DEF WithoutOf
<1>4. Without(Structured!Inner, n) = SubSeq(stack, a + 1, t)
  BY <1>1, InnerEnds DEF a
<1>5. SubSeq(stack', a + 1, t) = SubSeq(stack, a + 1, t)
  BY <1>1, <1>2, LowerPiece
<1> HIDE DEF t
<1>6. a <= Len(stack') /\ \A i \in 1 .. a : stack'[i] = stack[i]
  <2>1. \A i \in 1 .. a : i \in 1 .. t
    BY <1>1
  <2> QED
    BY <1>1, <1>3, <2>1
<1>7. /\ Act.spBase <= Len(stack') /\ \A j \in 1 .. Act.spBase : stack'[j] = stack[j]
      /\ BlocksAt(stack', Open(Fn.body, pc), Act.spBase, Len(stack')) =
           Append(SubSeq(Blocks, 1, k - 1), SubSeq(stack', Marked(k) + 1, Len(stack')))
  <2>1. Marked(k) <= Len(stack') /\ \A i \in 1 .. Marked(k) : stack'[i] = stack[i]
    BY <1>2, <1>6
  <2> QED
    BY <1>2, <2>1, CutBack
<1>8. Front(Blocks) = SubSeq(Blocks, 1, k - 1)
  BY <1>2 DEF Front
<1> QED
  BY <1>2, <1>3, <1>4, <1>5, <1>7, <1>8

(* A call that begins has one empty block.                                 *)
LEMMA FreshBlocks ==
  ASSUME NEW S, NEW s \in Seq(S)
  PROVE  BlocksAt(s, << >>, Len(s), Len(s)) = << << >> >>
<1> DEFINE n == Len(s)
           o == << >>
<1>1. n \in Nat /\ n - n = 0 /\ n <= n /\ n <= Len(s) /\ Len(o) = 0
  BY LenProperties
<1>2. Len(o) + 1 = 1 /\ Mark(o, n, n, 1) = n /\ Mark(o, n, n, 1 + 1) = n
  <2>1. Len(o) + 1 = 1 /\ Len(o) + 2 = 1 + 1 /\ 1 + 1 # 1
    BY <1>1
  <2> QED
    BY <2>1 DEF Mark
<1> HIDE DEF o
<1>3. SubSeq(s, n + 1, n) = << >>
  <2> HIDE DEF n
  <2>1. SubSeq(s, n + 1, n) \in Seq(S) /\ Len(SubSeq(s, n + 1, n)) = 0
    BY <1>1, PieceIs
  <2> QED
    BY <2>1, EmptySeq
<1>4. BlocksAt(s, o, n, n) = [j \in 1 .. 1 |-> << >>]
  <2>1. BlocksAt(s, o, n, n) = [j \in 1 .. 1 |-> SubSeq(s, Mark(o, n, n, j) + 1, Mark(o, n, n, j + 1))]
    BY <1>2 DEF BlocksAt
  <2>2. \A j \in 1 .. 1 : SubSeq(s, Mark(o, n, n, j) + 1, Mark(o, n, n, j + 1)) = << >>
    <3>1. \A j \in 1 .. 1 : j = 1
      OBVIOUS
    <3> QED
      BY <1>2, <1>3, <3>1
  <2> QED
    BY <2>1, <2>2
<1>5. [j \in 1 .. 1 |-> << >>] = << << >> >>
  OBVIOUS
<1> QED
  BY <1>4, <1>5 DEF o, n

LEMMA WasmCallSteps ==
  ASSUME Inv, Inv', WasmCall
  PROVE  Structured!StructNext
<1> DEFINE f == prog[1]
           first == [fn |-> 1, pc |-> 1, localsBase |-> 0, ctrlBase |-> 0, spBase |-> 0]
<1>1. stack' = << >> /\ UNCHANGED prog /\ acts = << >>
  BY DEF WasmCall, Running
<1>2. ValidFunction(prog, f)
  BY ProgIs DEF Inv
<1>3. CASE f.locals > LocalsSize
  <2>1. acts' = << >> /\ reply' = "full"
    BY <1>3 DEF WasmCall
  <2>2. Structured!Trap
    <3>1. [i \in 1 .. Len(acts) |-> CallOf(i)]' = AllFrames(prog', acts', stack', locals')
      BY FramesNext
    <3>2. AllFrames(prog', acts', stack', locals') = << >>
      <4>1. Len(acts') = 0
        BY <2>1
      <4> QED
        BY <4>1 DEF AllFrames
    <3>3. (IF reply \in {"none", "ok"} THEN reply ELSE "trap")' = "trap"
      BY <2>1
    <3> QED
      BY <3>1, <3>2, <3>3 DEF Structured!Trap
  <2> QED
    BY <1>1, <2>2, TrapSteps
<1>4. CASE ~(f.locals > LocalsSize)
  <2>1. locals' = [i \in 1 .. f.locals |-> 0] /\ acts' = <<first>> /\ reply' = "none"
    BY <1>4 DEF WasmCall
  <2>2. Len(acts') = 1 /\ acts'[1] = first /\ Len(stack') = 0
    BY <1>1, <2>1
  <2> DEFINE new == [fn |-> 1, pc |-> 1, vals |-> << << >> >>, locals |-> [i \in 1 .. f.locals |-> 0]]
             ls == [i \in 1 .. f.locals |-> 0]
             one == FrameAt(prog, first, stack', locals', Len(stack'), Len(locals'))
  <2>3. one = new
    <3>1. BlocksAt(stack', << >>, 0, 0) = << << >> >>
      <4>1. stack' \in Seq(Words)
        BY DEF Inv, StackTypes
      <4> QED
        BY <2>2, <4>1, FreshBlocks
    <3>2. Open(f.body, 1) = << >>
      BY <1>2 DEF ValidFunction
    <3>3. SubSeq(locals', 0 + 1, Len(locals')) = locals'
      <4>1. locals' \in Seq(Words) /\ 0 + 1 = 1
        BY DEF Inv, StackTypes
      <4> QED
        BY <4>1, WholeSeq
    <3>4. first.fn = 1 /\ first.pc = 1 /\ first.spBase = 0 /\ first.localsBase = 0
      OBVIOUS
    <3> HIDE DEF first, ls
    <3>5. one = [fn |-> 1, pc |-> 1, vals |-> << << >> >>, locals |-> locals']
      BY <2>2, <3>1, <3>2, <3>3, <3>4 DEF FrameAt
    <3> QED
      BY <2>1, <3>5 DEF ls
  <2>4. [i \in 1 .. Len(acts) |-> CallOf(i)]' = <<new>>
    <3>1. [i \in 1 .. Len(acts) |-> CallOf(i)]' = AllFrames(prog', acts', stack', locals')
      BY FramesNext
    <3> HIDE DEF first
    <3>2. AllFrames(prog', acts', stack', locals') = [i \in 1 .. 1 |-> one]
      <4>1. \A i \in 1 .. 1 : i = 1
        OBVIOUS
      <4> QED
        BY <1>1, <2>2, <4>1 DEF AllFrames
    <3> HIDE DEF one, new
    <3>3. [i \in 1 .. 1 |-> new] = <<new>>
      OBVIOUS
    <3> QED
      BY <2>3, <3>1, <3>2, <3>3
  <2>5. [i \in 1 .. Len(acts) |-> CallOf(i)] = << >>
    <3>1. Len(acts) = 0
      BY <1>1
    <3> QED
      BY <3>1
  <2>6. (IF reply \in {"none", "ok"} THEN reply ELSE "trap")' = "none"
    BY <2>1
  <2>7. Structured!Begin
    BY <2>4, <2>5, <2>6 DEF Structured!Begin, Structured!Running
  <2> QED
    BY <1>1, <2>7 DEF Structured!StructNext
<1> QED
  BY <1>3, <1>4

LEMMA LocalSetSteps ==
  ASSUME Inv, Inv', Standing, LocalSet
  PROVE  Structured!StructNext
<1> DEFINE v == Last(stack)
           k == Instr.arg
           lb == Act.localsBase
           at == LocalAt(k)
           m == Len(locals)
           V == BlocksAt(stack', Open(Fn.body, Next1), Act.spBase, Len(stack'))
           ls == SubSeq(locals, lb + 1, m)
           F == AllFrames(prog, acts, stack, locals)
           n == Len(acts)
           there == [Act EXCEPT !.pc = Next1]
           top == FrameAt(prog, there, stack', locals', Len(stack'), Len(locals'))
           old == FrameAt(prog, Act, stack, locals, Len(stack), m)
<1>1. /\ Running /\ UNCHANGED prog /\ Instr.op \in {"set", "tee"}
  BY DEF LocalSet, Runs
<1>2. /\ Instr.op \notin Openers \cup {"else", "end"}
      /\ ~Opens(Fn.body, Act.pc) /\ ~Closes(Fn.body, Act.pc) /\ Instr.op # "else"
      /\ OperandsChecked(Fn, Act.pc)
  BY <1>1, Straight DEF Openers
<1>3. /\ Known(k) /\ at \in 1 .. m /\ locals \in Seq(Words) /\ k \in 1 .. Fn.params + Fn.locals
  BY <1>1, <1>2, LocalIs DEF OperandsChecked, Instr
<1>4. Enough(Fn.body, Act.pc, 1)
  BY <1>1, <1>2 DEF OperandsChecked, Goes, Instr
<1>5. /\ Structured!Last(Structured!Inner) = v
      /\ Structured!Front(Structured!Inner) = Without(Structured!Inner, 1)
      /\ stack # << >> /\ Front(stack) = Without(stack, 1)
  BY <1>1, <1>4, ConditionIs
<1>6. /\ locals' = [locals EXCEPT ![at] = v]
      /\ stack' = IF Instr.op = "set" THEN Front(stack) ELSE stack
      /\ acts' = At(Next1) /\ UNCHANGED reply
  BY <1>3, <1>5 DEF LocalSet, Goto
<1>7. /\ lb \in Nat /\ m \in Nat /\ m = lb + Fn.params + Fn.locals /\ Fn.params \in Nat /\ Fn.locals \in Nat
      /\ n \in Nat \ {0} /\ Act = acts[n] /\ Act \in Activations
  BY <1>1, Here
<1>8. /\ Next1 \in Nat /\ Next1 \in 1 .. Len(Fn.body) /\ Open(Fn.body, Next1) = Open(Fn.body, Act.pc)
      /\ Act.pc + 1 = Next1
  BY <1>1, <1>2, NextIs DEF Next1
<1>9. /\ Act.spBase <= Len(stack') /\ \A j \in 1 .. Act.spBase : stack'[j] = stack[j]
      /\ V = IF Instr.op = "set" THEN Append(Front(Blocks), Without(Structured!Inner, 1)) ELSE Blocks
  <2>1. CASE Instr.op = "set"
    <3>1. stack' = Without(stack, 1) /\ 1 \in Nat
      BY <1>5, <1>6, <2>1
    <3> QED
      BY <1>1, <1>4, <1>8, <2>1, <3>1, BlocksWithout
  <2>2. CASE Instr.op # "set"
    <3>1. stack' = stack
      BY <1>6, <2>2
    <3>2. Act.spBase <= Len(stack)
      <4>1. Act.spBase <= Base /\ Base <= Len(stack) /\ Act.spBase \in Nat /\ Base \in Nat /\ Len(stack) \in Nat
        BY <1>1, BlocksHere
      <4> QED
        BY <4>1
    <3> QED
      BY <1>8, <2>2, <3>1, <3>2 DEF Blocks
  <2> QED
    BY <2>1, <2>2
<1>10. k \in 1 .. m - lb /\ at = lb + k /\ lb <= m /\ k \in Nat
  <2>1. at = lb + k
    BY DEF LocalAt
  <2> HIDE DEF k, lb, m, at
  <2> QED
    BY <1>3, <1>7, <2>1
<1>11. v \in Words
  BY <1>1, <1>4, Condition
<1>12. /\ locals' \in Seq(Words) /\ Len(locals') = m /\ lb <= Len(locals')
       /\ \A j \in 1 .. lb : locals'[j] = locals[j]
       /\ SubSeq(locals', lb + 1, Len(locals')) = [ls EXCEPT ![k] = v]
  <2>1. locals' \in Seq(Words) /\ Len(locals') = m
    <3> HIDE DEF at, v
    <3> QED
      BY <1>3, <1>6, <1>11, ExceptSeq
  <2>2. \A j \in 1 .. m : locals'[j] = IF j = at THEN v ELSE locals[j]
    <3>1. DOMAIN locals = 1 .. m
      BY <1>3, LenProperties
    <3> HIDE DEF at, v, m
    <3> QED
      BY <1>6, <3>1
  <2> HIDE DEF at, v, k, lb, ls
  <2>3. \A j \in 1 .. lb : j \in 1 .. m /\ j # at
    BY <1>7, <1>10
  <2>4. /\ ls \in Seq(Words) /\ Len(ls) = m - lb /\ \A i \in 1 .. m - lb : ls[i] = locals[lb + i]
    <3>1. m <= Len(locals) /\ locals \in Seq(Words) /\ lb \in Nat /\ m \in Nat /\ lb <= m
      BY <1>3, <1>7, <1>10
    <3> HIDE DEF m
    <3>2. /\ SubSeq(locals, lb + 1, m) \in Seq(Words) /\ Len(SubSeq(locals, lb + 1, m)) = m - lb
          /\ \A i \in 1 .. m - lb : SubSeq(locals, lb + 1, m)[i] = locals[lb + i]
      BY <3>1, PieceIs
    <3> QED
      BY <3>2 DEF ls
  <2> DEFINE new == SubSeq(locals', lb + 1, m)
  <2>5. /\ new \in Seq(Words) /\ Len(new) = m - lb /\ \A i \in 1 .. m - lb : new[i] = locals'[lb + i]
    <3>1. m <= Len(locals')
      BY <1>7, <2>1
    <3> HIDE DEF m
    <3> QED
      BY <1>7, <1>10, <2>1, <3>1, PieceIs
  <2> HIDE DEF new
  <2>6. \A i \in 1 .. m - lb : lb + i \in 1 .. m /\ (lb + i = at <=> i = k)
    <3> HIDE DEF m
    <3> QED
      BY <1>7, <1>10
  <2>7. \A i \in 1 .. m - lb : new[i] = IF i = k THEN v ELSE ls[i]
    BY <2>2, <2>4, <2>5, <2>6
  <2>8. ls = [i \in 1 .. m - lb |-> ls[i]] /\ new = [i \in 1 .. m - lb |-> new[i]]
    BY <2>4, <2>5, LenProperties
  <2>9. new = [ls EXCEPT ![k] = v]
    <3> HIDE DEF m
    <3>1. [ls EXCEPT ![k] = v] = [i \in 1 .. m - lb |-> IF i = k THEN v ELSE ls[i]]
      BY <2>8
    <3>2. [i \in 1 .. m - lb |-> new[i]] = [i \in 1 .. m - lb |-> IF i = k THEN v ELSE ls[i]]
      BY <2>7
    <3> QED
      BY <2>8, <3>1, <3>2
  <2>10. lb <= Len(locals')
    BY <1>10, <2>1
  <2> QED
    BY <2>1, <2>2, <2>3, <2>9, <2>10 DEF new
<1>13. [i \in 1 .. Len(acts) |-> CallOf(i)]' = [F EXCEPT ![n] = top]
  BY <1>1, <1>6, <1>8, <1>9, <1>12, TopMoves
<1>14. [i \in 1 .. Len(acts) |-> CallOf(i)] = F
  BY FramesAre
<1>15. F = [i \in 1 .. n |-> F[i]] /\ F[n] = old /\ n \in 1 .. n
  BY <1>7 DEF AllFrames
<1> DEFINE fn == Act.fn
           from == Act.pc
           pc == Next1
           vs == Blocks
           new == [ls EXCEPT ![k] = v]
<1>16. top = [fn |-> fn, pc |-> pc, vals |-> V, locals |-> new]
  <2>1. there.fn = Act.fn /\ there.pc = Next1 /\ there.spBase = Act.spBase /\ there.localsBase = lb
    BY <1>7 DEF Activations
  <2> HIDE DEF there, new
  <2> QED
    BY <1>12, <2>1 DEF FrameAt, Fn, new
<1>17. old = [fn |-> fn, pc |-> from, vals |-> vs, locals |-> ls]
  BY DEF FrameAt, Blocks, Fn
<1>18. F = [i \in 1 .. n |-> F[i]] /\ Len(F) = n
  BY <1>7, <1>15
<1>19. /\ Structured!Running /\ Structured!Instr = Instr /\ Structured!Top.vals = Blocks
  BY <1>1, Sights
<1>20. UNCHANGED (IF reply \in {"none", "ok"} THEN reply ELSE "trap")
  BY <1>6
<1>21. V = IF Instr.op = "set" THEN Append(Structured!Front(vs), Structured!Front(Structured!Inner)) ELSE vs
  BY <1>5, <1>9, SameReading
<1>22. from + 1 = pc
  BY <1>8
<1> HIDE DEF F, V, top, old, n, fn, from, pc, vs, new, ls, there
<1>23. [F EXCEPT ![n] = top] =
         [F EXCEPT ![n].pc = @ + 1, ![n].locals[k] = v,
                   ![n].vals = IF Instr.op = "set"
                     THEN Append(Structured!Front(@), Structured!Front(Structured!Inner)) ELSE @]
  <2> DEFINE a == [old EXCEPT !.pc = pc]
             b == [a EXCEPT !.locals = new]
             A == [F EXCEPT ![n] = a]
             B == [A EXCEPT ![n] = b]
             C == [B EXCEPT ![n] = top]
             p == F[n].pc + 1
             w == IF Instr.op = "set" THEN Append(Structured!Front(F[n].vals), Structured!Front(Structured!Inner))
                  ELSE F[n].vals
  <2>1. a = [fn |-> fn, pc |-> pc, vals |-> vs, locals |-> ls]
    BY <1>17
  <2>2. b = [fn |-> fn, pc |-> pc, vals |-> vs, locals |-> new]
    <3> HIDE DEF a
    <3> QED
      BY <2>1
  <2> HIDE DEF a, b
  <2>3. A[n] = a /\ B[n] = b /\ C = [F EXCEPT ![n] = top] /\ A = [i \in 1 .. n |-> A[i]] /\ B = [i \in 1 .. n |-> B[i]]
    BY <1>15
  <2> HIDE DEF p, w
  <2>4. A = [F EXCEPT ![n].pc = p]
    <3>1. old.pc = from
      BY <1>17
    <3>2. a = [F[n] EXCEPT !.pc = p]
      BY <1>15, <1>22, <3>1 DEF a, p
    <3> QED
      BY <1>15, <3>2
  <2> HIDE DEF A, B, C
  <2>5. B = [A EXCEPT ![n].locals[k] = v]
    <3>1. a.locals = ls
      BY <2>1
    <3>2. b = [a EXCEPT !.locals = [a.locals EXCEPT ![k] = v]]
      BY <3>1 DEF b, new
    <3> QED
      BY <2>3, <3>2 DEF B
  <2>6. C = [B EXCEPT ![n].vals = w]
    <3>1. F[n].vals = vs
      BY <1>15, <1>17
    <3>2. w = V
      BY <1>21, <3>1 DEF w
    <3>3. [b EXCEPT !.vals = V] = top
      BY <1>16, <2>2
    <3> QED
      BY <2>3, <3>2, <3>3 DEF C
  <2>7. [F EXCEPT ![n] = top] = [F EXCEPT ![n].pc = p, ![n].locals[k] = v, ![n].vals = w]
    BY <2>3, <2>4, <2>5, <2>6
  <2> QED
    BY <2>7 DEF p, w
<1>24. [i \in 1 .. Len(acts) |-> CallOf(i)]' =
         [F EXCEPT ![Len(F)].pc = @ + 1, ![Len(F)].locals[Structured!Instr.arg] = Structured!Last(Structured!Inner),
                   ![Len(F)].vals = IF Structured!Instr.op = "set"
                     THEN Append(Structured!Front(@), Structured!Front(Structured!Inner)) ELSE @]
  <2>1. Structured!Instr.arg = k /\ Structured!Last(Structured!Inner) = v /\ Structured!Instr.op = Instr.op
    BY <1>5, <1>19
  <2> HIDE DEF k, v
  <2> QED
    BY <1>13, <1>18, <1>23, <2>1
<1>25. Structured!Local
  <2> DEFINE G == [i \in 1 .. Len(acts) |-> CallOf(i)]
  <2>1. Structured!Instr.op \in {"set", "tee"}
    BY <1>1, <1>19
  <2>2. G' = [G EXCEPT ![Len(G)].pc = @ + 1, ![Len(G)].locals[Structured!Instr.arg] = Structured!Last(Structured!Inner),
                       ![Len(G)].vals = IF Structured!Instr.op = "set"
                         THEN Append(Structured!Front(@), Structured!Front(Structured!Inner)) ELSE @]
    <3>1. G = F
      BY <1>14
    <3> DEFINE H == G'
    <3>2. H = [F EXCEPT ![Len(F)].pc = @ + 1, ![Len(F)].locals[Structured!Instr.arg] = Structured!Last(Structured!Inner),
                        ![Len(F)].vals = IF Structured!Instr.op = "set"
                          THEN Append(Structured!Front(@), Structured!Front(Structured!Inner)) ELSE @]
      BY <1>24
    <3> HIDE DEF G, H
    <3>3. H = [G EXCEPT ![Len(G)].pc = @ + 1, ![Len(G)].locals[Structured!Instr.arg] = Structured!Last(Structured!Inner),
                        ![Len(G)].vals = IF Structured!Instr.op = "set"
                          THEN Append(Structured!Front(@), Structured!Front(Structured!Inner)) ELSE @]
      BY <3>1, <3>2, Zenon
    <3> QED
      BY <3>3 DEF H
  <2> QED
    BY <1>20, <2>1, <2>2 DEF Structured!Local
<1> QED
  BY <1>1, <1>19, <1>25 DEF Structured!StructNext

(* A pool that grows keeps what it had.                                    *)
Grown(s, t, a) ==
  /\ Len(s) <= Len(s \o t) /\ \A i \in 1 .. Len(s) : (s \o t)[i] = s[i]
  /\ SubSeq(s \o t, a + 1, Len(s)) = SubSeq(s, a + 1, Len(s))
  /\ SubSeq(s \o t, Len(s) + 1, Len(s \o t)) = t
LEMMA Extended ==
  ASSUME NEW S, NEW s \in Seq(S), NEW t \in Seq(S), NEW a \in Nat, a <= Len(s)
  PROVE  Grown(s, t, a)
<1> DEFINE u == s \o t
           n == Len(s)
<1>1. n \in Nat /\ n <= Len(s) /\ n <= n /\ SubSeq(s, 1, n) = s /\ n - n = 0
  BY LenProperties, WholeSeq
<1>2. OnTop(S, s, t, n, n)
  BY <1>1, PieceOn
<1>3. /\ u \in Seq(S) /\ Len(u) \in Nat /\ n <= Len(u) /\ \A i \in 1 .. n : u[i] = s[i]
      /\ SubSeq(u, n + 1, Len(u)) = SubSeq(s, n + 1, n) \o t
  BY <1>1, <1>2 DEF OnTop
<1> HIDE DEF u
<1>4. SubSeq(s, n + 1, n) = << >>
  <2> HIDE DEF n
  <2>1. SubSeq(s, n + 1, n) \in Seq(S) /\ Len(SubSeq(s, n + 1, n)) = 0
    BY <1>1, PieceIs
  <2> QED
    BY <2>1, EmptySeq
<1>5. << >> \o t = t
  OBVIOUS
<1>6. SubSeq(u, a + 1, n) = SubSeq(s, a + 1, n)
  <2>1. \A i \in a + 1 .. n : i \in 1 .. n
    BY <1>1
  <2>2. \A i \in a + 1 .. n : u[i] = s[i]
    BY <1>3, <2>1
  <2>3. a <= n
    OBVIOUS
  <2> HIDE DEF n
  <2> QED
    BY <1>1, <1>3, <2>2, <2>3, SamePiece
<1> QED
  BY <1>3, <1>4, <1>5, <1>6 DEF Grown, u, n

(* One more call on top of the others, the caller's changed.               *)
Pushed(F, G, n, x, y) == G = Append([F EXCEPT ![n] = x], y)
LEMMA PushCall ==
  ASSUME NEW n \in Nat \ {0}, NEW F, NEW G, NEW x, NEW y,
         F = [i \in 1 .. n |-> F[i]], G = [i \in 1 .. n + 1 |-> G[i]],
         \A i \in 1 .. n - 1 : G[i] = F[i], G[n] = x, G[n + 1] = y
  PROVE  Pushed(F, G, n, x, y)
<1> DEFINE R == {F[i] : i \in 1 .. n} \cup {x, y}
           f == [F EXCEPT ![n] = x]
           H == Append(f, y)
<1>1. f = [i \in 1 .. n |-> IF i = n THEN x ELSE F[i]]
  OBVIOUS
<1>2. f \in [1 .. n -> R] /\ y \in R
  BY <1>1
<1> HIDE DEF R
<1>3. f \in Seq(R) /\ Len(f) = n /\ f[n] = x /\ \A i \in 1 .. n - 1 : f[i] = F[i]
  <2>1. f \in Seq(R)
    <3> HIDE DEF f
    <3> QED
      BY <1>2, SeqDef
  <2>2. Len(f) = n
    BY <1>1, <2>1, LenProperties
  <2>3. n \in 1 .. n /\ \A i \in 1 .. n - 1 : i \in 1 .. n /\ i # n
    OBVIOUS
  <2> HIDE DEF f
  <2> QED
    BY <1>1, <2>1, <2>2, <2>3
<1> HIDE DEF f
<1>4. H \in Seq(R) /\ Len(H) = n + 1 /\ H[n + 1] = y /\ \A i \in 1 .. n : H[i] = f[i]
  BY <1>2, <1>3, AppendProperties
<1> HIDE DEF H
<1>5. H = [i \in 1 .. n + 1 |-> H[i]]
  BY <1>4, LenProperties
<1>6. \A i \in 1 .. n + 1 : G[i] = H[i]
  <2> TAKE i \in 1 .. n + 1
  <2>1. i = n + 1 \/ i = n \/ i \in 1 .. n - 1
    OBVIOUS
  <2>2. n \in 1 .. n /\ \A j \in 1 .. n - 1 : j \in 1 .. n
    OBVIOUS
  <2> QED
    BY <1>3, <1>4, <2>1, <2>2
<1>7. G = H
  BY <1>5, <1>6
<1> QED
  BY <1>7 DEF Pushed, H, f

LEMMA CallSteps ==
  ASSUME Inv, Inv', Standing, Call
  PROVE  Structured!StructNext
<1> DEFINE n == Len(acts)
           f == Instr.arg
           x == prog[f].params
           m == Len(locals)
           lb == Act.localsBase
           sb == Act.spBase
           args == LastOf(stack, x)
           extra == prog[f].locals
           zeros == [i \in 1 .. extra |-> 0]
           new == [fn |-> f, pc |-> 1, localsBase |-> m, ctrlBase |-> Len(ctrl), spBase |-> Len(stack) - x]
           there == [Act EXCEPT !.pc = Next1]
           inner == Structured!Inner
<1>1. Running /\ Instr.op = "call" /\ UNCHANGED prog
  BY DEF Call, Runs
<1>2. /\ ValidFunction(prog, Fn) /\ Act.pc \in 1 .. Len(Fn.body)
      /\ n \in Nat \ {0} /\ n \in 1 .. n /\ Act = acts[n] /\ Act \in Activations
      /\ lb \in Nat /\ sb \in Nat /\ m \in Nat /\ Len(stack) \in Nat
      /\ m = lb + Fn.params + Fn.locals /\ Fn.params \in Nat /\ Fn.locals \in Nat
  BY <1>1, Here
<1>3. f \in DOMAIN prog /\ Enough(Fn.body, Act.pc, x)
  <2>1. ControlChecked(prog, Fn, Act.pc)
    BY <1>2 DEF ValidFunction
  <2> QED
    BY <1>1, <2>1 DEF ControlChecked, Instr, Goes
<1>4. /\ ValidFunction(prog, prog[f]) /\ f \in 1 .. Len(prog) /\ Len(prog) \in Nat
  BY <1>3, ProgIs DEF Inv
<1>5. x \in Nat /\ prog[f].locals \in Nat /\ Open(prog[f].body, 1) = << >>
  BY <1>4 DEF ValidFunction
<1>6. /\ ~Closes(Fn.body, Act.pc) /\ ~Opens(Fn.body, Act.pc) /\ Instr.op # "else"
  BY <1>1 DEF Closes, Opens, Openers, Instr
<1>7. /\ Next1 \in 1 .. Len(Fn.body) /\ Open(Fn.body, Next1) = Open(Fn.body, Act.pc) /\ Next1 \in Nat
      /\ Act.pc + 1 = Next1
  BY <1>1, <1>2, <1>6, NextIs, TypedIs DEF Next1
<1>8. x <= Len(stack) /\ ~(Len(stack) < x) /\ Base + x <= Len(stack)
  <2> DEFINE s == Len(stack)
             a == Base
  <2>1. a \in Nat /\ s \in Nat /\ a + x <= s
    BY <1>1, <1>3, <1>5, EnoughHere
  <2> HIDE DEF s, a, x
  <2>2. x <= s /\ ~(s < x)
    BY <1>5, <2>1
  <2> QED
    BY <2>1, <2>2 DEF s, a
<1>9. Enter(f, At(Next1), n)
  <2>1. ~(f > Len(prog))
    BY <1>4
  <2> QED
    BY <1>1, <2>1 DEF Call
<1>10. CASE n >= Depth \/ m + x + prog[f].locals > LocalsSize
  BY <1>1, <1>9, <1>10, FailTraps, TrapSteps DEF Enter
<1>11. CASE ~(n >= Depth) /\ ~(m + x + prog[f].locals > LocalsSize)
  <2>1. /\ stack' = Without(stack, x)
        /\ locals' = locals \o args \o zeros
        /\ acts' = Append(At(Next1), new)
        /\ UNCHANGED reply
    BY <1>8, <1>9, <1>11 DEF Enter
  <2>2. /\ stack \in Seq(Words) /\ locals \in Seq(Words) /\ stack' \in Seq(Words) /\ locals' \in Seq(Words)
    BY DEF Inv, StackTypes
  <2>3. /\ Len(stack') = Len(stack) - x /\ args \in Seq(Words) /\ Len(args) = x
        /\ LastOf(inner, x) = args
    BY <1>1, <1>5, <1>8, <2>1, <2>2, SplitAt, InnerEnds
  <2>4. zeros \in Seq(Words)
    <3>1. 0 \in Words /\ extra \in Nat
      BY <1>5, MemoryAssumption DEF Words
    <3> HIDE DEF extra
    <3>2. zeros \in [1 .. extra -> Words] /\ extra \in Nat
      BY <3>1
    <3> QED
      BY <3>2, SeqDef
  <2> HIDE DEF args, zeros
  <2> DEFINE tail == args \o zeros
             ls == SubSeq(locals, lb + 1, m)
  <2>5. tail \in Seq(Words) /\ locals' = locals \o tail
    <3>1. tail \in Seq(Words)
      BY <2>3, <2>4, ConcatProperties
    <3>2. locals \o args \o zeros = locals \o tail
      <4>1. ASSUME NEW a \in Seq(Words), NEW b \in Seq(Words), NEW c \in Seq(Words)
            PROVE  a \o b \o c = a \o (b \o c)
        BY ConcatAssociative
      <4>2. locals \in Seq(Words) /\ args \in Seq(Words) /\ zeros \in Seq(Words)
        BY <2>2, <2>3, <2>4
      <4> QED
        BY <4>1, <4>2, Zenon
    <3> QED
      BY <2>1, <3>1, <3>2
  <2> HIDE DEF tail
  <2>6. lb <= m
    <3> HIDE DEF lb, m
    <3> QED
      BY <1>2
  <2>7. /\ m <= Len(locals') /\ (\A i \in 1 .. m : locals'[i] = locals[i])
        /\ SubSeq(locals', lb + 1, m) = ls
        /\ SubSeq(locals', m + 1, Len(locals')) = tail
    <3>1. Grown(locals, tail, lb)
      BY <1>2, <2>2, <2>5, <2>6, Extended
    <3> QED
      BY <2>5, <3>1 DEF Grown
  <2>8. lb <= Len(locals') /\ \A i \in 1 .. lb : locals'[i] = locals[i]
    <3>1. Len(locals') \in Nat
      BY <2>2, LenProperties
    <3> DEFINE e == Len(locals')
    <3>2. lb \in Nat /\ m \in Nat /\ e \in Nat /\ lb <= m /\ m <= e
      BY <1>2, <2>6, <2>7, <3>1
    <3> HIDE DEF lb, m, e
    <3>3. lb <= e /\ \A i \in 1 .. lb : i \in 1 .. m
      BY <3>2
    <3> QED
      BY <2>7, <3>3 DEF e
  <2> DEFINE V == BlocksAt(stack', Open(Fn.body, Next1), sb, Len(stack'))
             W == Append(Front(Blocks), Without(inner, x))
             F == AllFrames(prog, acts, stack, locals)
             G == AllFrames(prog', acts', stack', locals')
             old == FrameAt(prog, Act, stack, locals, Len(stack), m)
             top == FrameAt(prog, there, stack', locals', Len(stack'), m)
             y == FrameAt(prog, new, stack', locals', Len(stack'), Len(locals'))
  <2>9. /\ sb <= Len(stack') /\ (\A j \in 1 .. sb : stack'[j] = stack[j]) /\ V = W
    <3> HIDE DEF x
    <3>1. stack' = Without(stack, x)
      BY <2>1
    <3> QED
      BY <1>1, <1>3, <1>5, <1>7, <3>1, BlocksWithout
  <2>10. \A i \in 1 .. n - 1 :
           FrameAt(prog, acts[i], stack', locals', acts[i + 1].spBase, acts[i + 1].localsBase)
             = FrameAt(prog, acts[i], stack, locals, acts[i + 1].spBase, acts[i + 1].localsBase)
    BY <1>1, <2>2, <2>8, <2>9, CallersSame
  <2>11. /\ new.fn = f /\ new.pc = 1 /\ new.localsBase = m /\ new.spBase = Len(stack')
         /\ there.fn = Act.fn /\ there.pc = Next1 /\ there.spBase = sb /\ there.localsBase = lb
    BY <1>2, <2>3 DEF Activations
  <2> HIDE DEF there, new
  <2>12. /\ Len(acts') = n + 1 /\ acts'[n + 1] = new /\ acts'[n] = there
         /\ \A i \in 1 .. n - 1 : acts'[i] = acts[i]
         /\ \A i \in 1 .. n : acts'[i].spBase = acts[i].spBase /\ acts'[i].localsBase = acts[i].localsBase
    <3> DEFINE e == At(Next1)
    <3>1. /\ e \in Seq(Activations) /\ Len(e) = n /\ \A i \in 1 .. n - 1 : e[i] = acts[i]
          /\ e[n] = there
          /\ \A i \in 1 .. n : e[i].spBase = acts[i].spBase /\ e[i].localsBase = acts[i].localsBase
      BY <1>1, <1>7, Moves DEF there
    <3>2. acts' = Append(e, new)
      BY <2>1
    <3> HIDE DEF e, n
    <3>3. Len(acts') = n + 1 /\ acts'[n + 1] = new /\ \A i \in 1 .. n : acts'[i] = e[i]
      <4>1. e \in Seq({e[i] : i \in 1 .. n} \cup {new})
        BY <3>1, LenProperties, SeqDef
      <4> DEFINE A == {e[i] : i \in 1 .. n} \cup {new}
      <4>2. e \in Seq(A) /\ new \in A
        BY <4>1
      <4> HIDE DEF A
      <4> QED
        BY <3>1, <3>2, <4>2, AppendProperties
    <3>4. n \in 1 .. n /\ \A i \in 1 .. n - 1 : i \in 1 .. n
      BY <1>2
    <3> QED
      BY <3>1, <3>3, <3>4
  <2>13. F = [i \in 1 .. n |-> F[i]] /\ F[n] = old /\ \A i \in 1 .. n - 1 :
           F[i] = FrameAt(prog, acts[i], stack, locals, acts[i + 1].spBase, acts[i + 1].localsBase)
    <3>1. \A i \in 1 .. n - 1 : i # Len(acts) /\ i \in 1 .. n
      BY <1>2
    <3> QED
      BY <1>2, <3>1 DEF AllFrames
  <2>14. G = [i \in 1 .. n + 1 |->
           FrameAt(prog, acts'[i], stack', locals', IF i = n + 1 THEN Len(stack') ELSE acts'[i + 1].spBase,
             IF i = n + 1 THEN Len(locals') ELSE acts'[i + 1].localsBase)]
    BY <1>1, <2>12 DEF AllFrames
  <2> HIDE DEF G, F
  <2>15. G = [i \in 1 .. n + 1 |-> G[i]] /\ G[n + 1] = y /\ G[n] = top
    <3>1. n + 1 \in 1 .. n + 1 /\ n \in 1 .. n + 1 /\ n # n + 1
      BY <1>2
    <3>2. acts'[n + 1].spBase = Len(stack') /\ acts'[n + 1].localsBase = m
      BY <2>11, <2>12
    <3> HIDE DEF n
    <3> QED
      BY <2>12, <2>14, <3>1, <3>2
  <2>16. \A i \in 1 .. n - 1 : G[i] = F[i]
    <3>1. \A i \in 1 .. n - 1 : i \in 1 .. n + 1 /\ i # n + 1 /\ i + 1 \in 1 .. n
      BY <1>2
    <3> HIDE DEF n
    <3>2. \A i \in 1 .. n - 1 :
            G[i] = FrameAt(prog, acts[i], stack', locals', acts[i + 1].spBase, acts[i + 1].localsBase)
      BY <2>12, <2>14, <3>1
    <3> QED
      BY <2>10, <2>13, <3>2
  <2> DEFINE fn == Act.fn
             from == Act.pc
             pc == Next1
             vs == Blocks
             entered == [fn |-> f, pc |-> 1, vals |-> << << >> >>, locals |-> tail]
  <2>17. top = [fn |-> fn, pc |-> pc, vals |-> W, locals |-> ls]
    <3> HIDE DEF W, ls
    <3>1. top = [fn |-> fn, pc |-> pc, vals |-> V, locals |-> SubSeq(locals', lb + 1, m)]
      BY <2>11 DEF FrameAt, Fn
    <3> HIDE DEF V
    <3> QED
      BY <2>7, <2>9, <3>1
  <2>18. old = [fn |-> fn, pc |-> from, vals |-> vs, locals |-> ls]
    BY DEF FrameAt, Blocks, Fn
  <2>19. y = entered
    <3>1. BlocksAt(stack', << >>, Len(stack'), Len(stack')) = << << >> >>
      BY <2>2, FreshBlocks
    <3> HIDE DEF m
    <3>2. y = [fn |-> f, pc |-> 1, vals |-> << << >> >>, locals |-> SubSeq(locals', m + 1, Len(locals'))]
      BY <1>5, <2>11, <3>1 DEF FrameAt
    <3> QED
      BY <2>7, <3>2
  <2> HIDE DEF top, old, y, entered
  <2>20. Pushed(F, G, n, top, y)
    <3> HIDE DEF n
    <3> QED
      BY <1>2, <2>13, <2>15, <2>16, PushCall
  <2>21. G = Append([F EXCEPT ![n] = top], entered)
    BY <2>19, <2>20 DEF Pushed
  <2>22. [F EXCEPT ![n] = top] = [F EXCEPT ![n].pc = @ + 1, ![n].vals = Append(Front(@), Without(inner, x))]
    <3> DEFINE a == [old EXCEPT !.pc = pc]
               A == [F EXCEPT ![n] = a]
               C == [A EXCEPT ![n] = top]
               p == F[n].pc + 1
               w == Append(Front(F[n].vals), Without(inner, x))
    <3>1. a = [fn |-> fn, pc |-> pc, vals |-> vs, locals |-> ls]
      <4> HIDE DEF fn, pc, vs, ls, from
      <4> QED
        BY <2>18
    <3>2. p = pc /\ w = W
      <4>1. F[n].pc = from /\ F[n].vals = vs
        BY <2>13, <2>18
      <4> QED
        BY <1>7, <4>1
    <3> HIDE DEF p, w, W, a, n, fn, pc, vs, ls, from
    <3>3. A[n] = a /\ C = [F EXCEPT ![n] = top]
      BY <1>2, <2>13
    <3>4. A = [F EXCEPT ![n].pc = p]
      BY <1>2, <2>13, <3>2 DEF a
    <3> HIDE DEF A, C
    <3>5. C = [A EXCEPT ![n].vals = w]
      <4>1. [a EXCEPT !.vals = W] = top
        BY <2>17, <3>1
      <4> QED
        BY <3>2, <3>3, <4>1 DEF C
    <3>6. [F EXCEPT ![n] = top] = [F EXCEPT ![n].pc = p, ![n].vals = w]
      BY <3>3, <3>4, <3>5
    <3> QED
      BY <3>6 DEF p, w
  <2>23. Len(F) = n
    <3> HIDE DEF n
    <3> QED
      BY <1>2, <2>13
  <2>24. /\ Structured!Running /\ Structured!Instr = Instr
         /\ Structured!LastOf(inner, x) = args
         /\ Structured!Without(inner, x) = Without(inner, x)
    <3> HIDE DEF inner, x
    <3>1. Structured!LastOf(inner, x) = LastOf(inner, x) /\ Structured!Without(inner, x) = Without(inner, x)
      BY SameReading
    <3>2. Structured!Running /\ Structured!Instr = Instr
      BY <1>1, Sights
    <3> QED
      BY <2>3, <3>1, <3>2
  <2>25. [i \in 1 .. Len(acts) |-> CallOf(i)] = F /\ [i \in 1 .. Len(acts) |-> CallOf(i)]' = G
    BY FramesAre, FramesNext DEF F, G
  <2>26. UNCHANGED (IF reply \in {"none", "ok"} THEN reply ELSE "trap")
    BY <2>1
  <2> DEFINE g == prog[Structured!Instr.arg]
  <2>27. G = Append(
           [F EXCEPT ![Len(F)].pc = @ + 1,
                     ![Len(F)].vals = Append(Structured!Front(@), Structured!Without(inner, g.params))],
           [fn |-> Structured!Instr.arg, pc |-> 1, vals |-> << << >> >>,
            locals |-> Structured!LastOf(inner, g.params) \o [i \in 1 .. g.locals |-> 0]])
    <3>1. Structured!Instr.arg = f /\ g.params = x /\ [i \in 1 .. g.locals |-> 0] = zeros
      BY <2>24 DEF zeros
    <3>2. Structured!Front(F[Len(F)].vals) = Front(F[Len(F)].vals)
      BY SameReading
    <3> HIDE DEF inner, x, n, f
    <3>3. [F EXCEPT ![Len(F)].pc = @ + 1,
                    ![Len(F)].vals = Append(Structured!Front(@), Structured!Without(inner, g.params))]
             = [F EXCEPT ![n] = top]
      BY <2>22, <2>23, <2>24, <3>1, <3>2
    <3>4. [fn |-> Structured!Instr.arg, pc |-> 1, vals |-> << << >> >>,
           locals |-> Structured!LastOf(inner, g.params) \o [i \in 1 .. g.locals |-> 0]] = entered
      BY <2>24, <3>1 DEF entered, tail
    <3> QED
      BY <2>21, <3>3, <3>4
  <2>28. Structured!Call
    BY <1>1, <2>24, <2>25, <2>26, <2>27 DEF Structured!Call
  <2> QED
    BY <1>1, <2>24, <2>28 DEF Structured!StructNext
<1> QED
  BY <1>10, <1>11

----------------------------------------------------------------------------
(* The callers, and every step.                                             *)

(* Callers stand below the calls they wait for, whatever the running call  *)
(* does.                                                                   *)
LEMMA CallStands ==
  ASSUME Inv, Inv', Standing, Call
  PROVE  Standing'
<1> DEFINE n == Len(acts)
           f == Instr.arg
           x == prog[f].params
           new == [fn |-> f, pc |-> 1, localsBase |-> Len(locals), ctrlBase |-> Len(ctrl),
                   spBase |-> Len(stack) - x]
           e == At(Next1)
           fl == Floor(Fn.body, Act.pc)
           sb == Act.spBase
           s == Len(stack)
<1>1. Running /\ Instr.op = "call" /\ UNCHANGED prog
  BY DEF Call, Runs
<1>2. /\ ValidFunction(prog, Fn) /\ Act.pc \in 1 .. Len(Fn.body)
      /\ n \in Nat \ {0} /\ Act = acts[n] /\ sb \in Nat /\ s \in Nat
  BY <1>1, Here
<1>3. f \in DOMAIN prog /\ Enough(Fn.body, Act.pc, x)
  <2>1. ControlChecked(prog, Fn, Act.pc)
    BY <1>2 DEF ValidFunction
  <2> QED
    BY <1>1, <2>1 DEF ControlChecked, Instr, Goes
<1>4. x \in Nat
  BY <1>3, ProgIs DEF Inv, ValidFunction
<1>5. sb + fl + x <= s
  <2>1. Base + x <= s
    BY <1>1, <1>3, <1>4, EnoughHere
  <2> QED
    BY <2>1 DEF Base
<1>6. /\ ~Closes(Fn.body, Act.pc) /\ ~Opens(Fn.body, Act.pc) /\ Instr.op # "else"
  BY <1>1 DEF Closes, Opens, Openers, Instr
<1>7. Next1 \in Nat /\ Floor(Fn.body, Next1) = fl
  <2>1. Next1 \in 1 .. Len(Fn.body) /\ Open(Fn.body, Next1) = Open(Fn.body, Act.pc)
    BY <1>1, <1>6, NextIs
  <2> QED
    BY <2>1 DEF Floor
<1>8. /\ e \in Seq(Activations) /\ Len(e) = n
      /\ \A i \in 1 .. n - 1 : e[i] = acts[i]
      /\ e[n] = [Act EXCEPT !.pc = Next1]
      /\ \A i \in 1 .. n : e[i].spBase = acts[i].spBase /\ e[i].fn = acts[i].fn
  BY <1>1, <1>7, Moves
<1>9. e[n].pc = Next1
  <2>1. Act \in Activations
    BY <1>1, Here
  <2> QED
    BY <1>8, <2>1 DEF Activations
<1>10. acts' = << >> \/ acts' = Append(e, new)
  BY <1>1 DEF Call, Enter, Fail
<1> HIDE DEF e
<1>11. CASE acts' = << >>
  <2>1. Len(acts') = 0
    BY <1>11
  <2>2. 1 .. Len(acts') - 1 = {}
    BY <2>1
  <2> QED
    BY <2>2 DEF Standing
<1>12. CASE acts' = Append(e, new)
  <2> DEFINE A == Activations \cup {new}
  <2>1. e \in Seq(A) /\ new \in A /\ new.spBase = s - x
    <3>1. \A i \in 1 .. n : e[i] \in A
      BY <1>8, ElementOfSeq
    <3>2. e = [i \in 1 .. n |-> e[i]]
      BY <1>8, LenProperties
    <3> HIDE DEF A
    <3>3. e \in [1 .. n -> A] /\ n \in Nat
      BY <1>2, <3>1, <3>2
    <3> HIDE DEF n
    <3>4. e \in Seq(A)
      BY <3>3, SeqDef
    <3> QED
      BY <3>4 DEF A
  <2> HIDE DEF A, new
  <2>2. Len(acts') = n + 1 /\ acts'[n + 1] = new /\ \A i \in 1 .. n : acts'[i] = e[i]
    BY <1>8, <1>12, <2>1, AppendProperties
  <2> HIDE DEF s, sb, fl, x
  <2>3. ASSUME NEW i \in 1 .. n
        PROVE  acts'[i].spBase + Floor(prog[acts'[i].fn].body, acts'[i].pc) <= acts'[i + 1].spBase
    <3>1. CASE i = n
      <4>1. acts'[i].spBase = sb /\ acts'[i].fn = Act.fn /\ acts'[i].pc = Next1
        BY <1>2, <1>8, <1>9, <2>2, <3>1 DEF sb
      <4>2. acts'[i + 1].spBase = s - x
        BY <2>1, <2>2, <3>1
      <4>3. Floor(prog[acts'[i].fn].body, acts'[i].pc) = fl
        BY <1>7, <4>1 DEF Fn
      <4>4. fl \in Nat
        BY <1>2, FloorIs DEF fl
      <4>5. sb + fl <= s - x
        BY <1>2, <1>4, <1>5, <4>4
      <4> QED
        BY <4>1, <4>2, <4>3, <4>5
    <3>2. CASE i # n
      <4>1. i \in 1 .. n - 1 /\ i + 1 \in 1 .. n
        BY <1>2, <3>2
      <4>2. acts'[i] = acts[i] /\ acts'[i + 1].spBase = acts[i + 1].spBase
        BY <1>8, <2>2, <4>1
      <4>3. acts[i].spBase + Floor(prog[acts[i].fn].body, acts[i].pc) <= acts[i + 1].spBase
        BY <4>1 DEF Standing
      <4> QED
        BY <4>2, <4>3
    <3> QED
      BY <3>1, <3>2
  <2>4. Len(acts') - 1 = n
    BY <1>2, <2>2
  <2> HIDE DEF n
  <2> QED
    BY <1>1, <2>3, <2>4 DEF Standing
<1> QED
  BY <1>10, <1>11, <1>12

(* Every instruction leaves the callers standing.                           *)
LEMMA StandingNext ==
  ASSUME Inv, Inv', Standing, Next
  PROVE  Standing'
<1> DEFINE n == Len(acts)
<1>1. ASSUME acts' = << >> PROVE Standing'
  <2>1. Len(acts') = 0
    BY <1>1
  <2>2. 1 .. Len(acts') - 1 = {}
    BY <2>1
  <2> QED
    BY <2>2 DEF Standing
<1>2. ASSUME Running, UNCHANGED prog, NEW pc, Goto(pc) PROVE Standing'
  <2>1. n \in Nat \ {0} /\ acts \in Seq(Activations) /\ acts' \in Seq(Activations)
    BY <1>2, Here DEF Inv, StackTypes
  <2>2. acts' = At(pc) /\ acts' = [acts EXCEPT ![n].pc = pc]
    BY <1>2 DEF Goto, At
  <2>3. DOMAIN acts = 1 .. n /\ DOMAIN acts' = 1 .. n /\ n \in 1 .. n
    <3>1. DOMAIN acts = 1 .. n
      BY <2>1, LenProperties
    <3>2. DOMAIN acts' = DOMAIN acts
      BY <2>2
    <3> QED
      BY <2>1, <3>1, <3>2
  <2>4. Len(acts') = n
    <3>1. DOMAIN acts' = 1 .. Len(acts') /\ Len(acts') \in Nat
      BY <2>1, LenProperties
    <3> HIDE DEF n
    <3> QED
      BY <2>1, <2>3, <3>1
  <2>5. acts'[n] \in Activations /\ acts[n] \in Activations
    BY <2>1, <2>3, <2>4, ElementOfSeq
  <2>6. acts'[n] = [acts[n] EXCEPT !.pc = pc]
    BY <2>1, <2>2, <2>3
  <2>7. acts'[n].pc = pc
    BY <2>5, <2>6 DEF Activations
  <2>8. pc \in Nat
    BY <2>5, <2>7 DEF Activations
  <2> QED
    BY <1>2, <2>2, <2>8, StandsStill
<1>3. ASSUME Running, UNCHANGED prog, acts' = Front(acts) PROVE Standing'
  <2>1. n \in Nat \ {0} /\ acts \in Seq(Activations) /\ acts # << >>
    BY <1>3, Here DEF Inv, StackTypes, Running
  <2>2. Len(acts') = n - 1 /\ \A i \in 1 .. n - 1 : acts'[i] = acts[i]
    BY <1>3, <2>1, LastIs
  <2>3. \A i \in 1 .. Len(acts') - 1 : i \in 1 .. n - 1 /\ i + 1 \in 1 .. n - 1
    BY <2>1, <2>2
  <2>4. \A i \in 1 .. n - 1 : acts[i].spBase + Floor(prog[acts[i].fn].body, acts[i].pc) <= acts[i + 1].spBase
    BY DEF Standing
  <2> HIDE DEF n
  <2>5. \A i \in 1 .. Len(acts') - 1 :
          acts'[i].spBase + Floor(prog[acts'[i].fn].body, acts'[i].pc) <= acts'[i + 1].spBase
    BY <2>2, <2>3, <2>4
  <2> QED
    BY <1>3, <2>5 DEF Standing
<1>4. ASSUME Running, UNCHANGED prog, NEW ops, Unwind(ops) PROVE Standing'
  BY <1>1, <1>3, <1>4 DEF Unwind, Fail
<1>5. ASSUME Running, UNCHANGED prog, NEW ops, NEW isLoop, NEW cont, NEW arity, NEW pc,
             Labelled(ops, isLoop, cont, arity, pc) PROVE Standing'
  BY <1>1, <1>2, <1>5 DEF Labelled, Fail
<1>6. ASSUME Running, UNCHANGED prog, NEW k, NEW out, PopPush(k, out) PROVE Standing'
  BY <1>1, <1>2, <1>6 DEF PopPush, Fail
<1>7. ASSUME Running, UNCHANGED prog, NEW l, NEW ops, Jump(l, ops) PROVE Standing'
  BY <1>1, <1>2, <1>4, <1>7 DEF Jump, Fail
<1>8. CASE WasmCall
  <2>1. CASE prog[1].locals > LocalsSize
    BY <1>1, <1>8, <2>1 DEF WasmCall
  <2>2. CASE ~(prog[1].locals > LocalsSize)
    <3>1. Len(acts') = 1
      BY <1>8, <2>2 DEF WasmCall
    <3>2. 1 .. Len(acts') - 1 = {}
      BY <3>1
    <3> QED
      BY <3>2 DEF Standing
  <2> QED
    BY <2>1, <2>2
<1>9. CASE BlockOrLoop
  BY <1>5, <1>9 DEF BlockOrLoop, Runs
<1>10. CASE If
  BY <1>1, <1>2, <1>5, <1>10 DEF If, Runs, Fail
<1>11. CASE Else
  BY <1>1, <1>2, <1>11 DEF Else, Runs, Fail
<1>12. CASE End
  BY <1>2, <1>4, <1>12 DEF End, Runs
<1>13. CASE Br
  BY <1>7, <1>13 DEF Br, Runs
<1>14. CASE BrIf
  BY <1>1, <1>6, <1>7, <1>14 DEF BrIf, Runs, Fail
<1>15. CASE BrTable
  BY <1>1, <1>7, <1>15 DEF BrTable, Runs, Fail
<1>16. CASE Return
  BY <1>4, <1>16 DEF Return, Runs
<1>17. CASE Call
  BY <1>17, CallStands
<1>18. CASE Plain
  BY <1>1, <1>6, <1>18 DEF Plain, Runs, Fail
<1>19. CASE LocalGet
  BY <1>1, <1>6, <1>19 DEF LocalGet, Runs, Fail
<1>20. CASE LocalSet
  BY <1>1, <1>2, <1>20 DEF LocalSet, Runs, Fail
<1>21. CASE Unreachable
  BY <1>1, <1>21 DEF Unreachable, Fail
<1>22. CASE LoadStore
  <2>1. acts' = << >> \/ \E k, out : PopPush(k, out)
    BY <1>22 DEF LoadStore, Fail
  <2> QED
    BY <1>1, <1>6, <1>22, <2>1 DEF LoadStore
<1>23. CASE MemoryGrow
  <2>1. acts' = << >> \/ \E k, out : PopPush(k, out)
    BY <1>23 DEF MemoryGrow, Fail
  <2> QED
    BY <1>1, <1>6, <1>23, <2>1 DEF MemoryGrow
<1> QED
  BY <1>8, <1>9, <1>10, <1>11, <1>12, <1>13, <1>14, <1>15, <1>16, <1>17, <1>18, <1>19, <1>20,
     <1>21, <1>22, <1>23 DEF Next

----------------------------------------------------------------------------
(* What the induction carries, and what it gives.                          *)
Sound == MachineInv /\ Standing

LEMMA SoundInit == Init => Sound /\ Structured!StructInit
<1> SUFFICES ASSUME Init PROVE Sound /\ Structured!StructInit
  OBVIOUS
<1>1. MachineInv
  BY MachineInit
<1>2. acts = << >> /\ reply = "none" /\ Len(acts) = 0
  BY DEF Init
<1>3. 1 .. Len(acts) - 1 = {}
  BY <1>2
<1>4. Standing
  BY <1>3 DEF Standing
<1>5. [i \in 1 .. Len(acts) |-> CallOf(i)] = << >>
  BY <1>2
<1>6. (IF reply \in {"none", "ok"} THEN reply ELSE "trap") = "none"
  BY <1>2
<1>7. Structured!StructInit
  BY <1>5, <1>6 DEF Structured!StructInit
<1> QED
  BY <1>1, <1>4, <1>7 DEF Sound

(* Every step of the interpreter is a step of the structured machine, or    *)
(* none.                                                                    *)
LEMMA SoundNext ==
  ASSUME Sound, [Next]_vars
  PROVE  Sound' /\ [Structured!StructNext]_Structured!structVars
<1>1. MachineInv /\ Standing /\ MachineInv'
  BY MachineNext DEF Sound
<1>2. Inv /\ Inv' /\ memPages \in Words
  BY <1>1 DEF MachineInv, MachineMem
<1>3. CASE Next
  <2>1. Standing'
    BY <1>1, <1>2, <1>3, StandingNext
  <2>2. ASSUME WasmCall PROVE Structured!StructNext
    BY <1>2, <2>2, WasmCallSteps
  <2>3. ASSUME BlockOrLoop PROVE Structured!StructNext
    BY <1>1, <1>2, <2>3, BlockOrLoopSteps
  <2>4. ASSUME If PROVE Structured!StructNext
    BY <1>1, <1>2, <2>4, IfSteps
  <2>5. ASSUME Else PROVE Structured!StructNext
    BY <1>1, <1>2, <2>5, ElseSteps
  <2>6. ASSUME End PROVE Structured!StructNext
    BY <1>1, <1>2, <2>6, EndSteps, ReturnSteps
  <2>7. ASSUME Br \/ BrIf \/ BrTable PROVE Structured!StructNext
    BY <1>1, <1>2, <2>7, BranchSteps
  <2>8. ASSUME Return PROVE Structured!StructNext
    BY <1>1, <1>2, <2>8, ReturnSteps
  <2>9. ASSUME Call PROVE Structured!StructNext
    BY <1>1, <1>2, <2>9, CallSteps
  <2>10. ASSUME Plain \/ Unreachable PROVE Structured!StructNext
    BY <1>1, <1>2, <2>10, PlainSteps
  <2>11. ASSUME LocalGet PROVE Structured!StructNext
    BY <1>1, <1>2, <2>11, LocalGetSteps
  <2>12. ASSUME LocalSet PROVE Structured!StructNext
    BY <1>1, <1>2, <2>12, LocalSetSteps
  <2>13. ASSUME LoadStore \/ MemoryGrow PROVE Structured!StructNext
    BY <1>1, <1>2, <2>13, MemorySteps
  <2>14. Structured!StructNext
    BY <1>3, <2>2, <2>3, <2>4, <2>5, <2>6, <2>7, <2>8, <2>9, <2>10, <2>11, <2>12, <2>13 DEF Next
  <2> QED
    BY <1>1, <2>1, <2>14 DEF Sound
<1>4. CASE UNCHANGED vars
  <2>1. UNCHANGED <<prog, stack, locals, ctrl, acts, reply>>
    BY <1>4 DEF vars, machineVars
  <2>2. Standing'
    BY <1>1, <2>1 DEF Standing
  <2>3. [i \in 1 .. Len(acts) |-> CallOf(i)]' = [i \in 1 .. Len(acts) |-> CallOf(i)]
    <3>1. AllFrames(prog', acts', stack', locals') = AllFrames(prog, acts, stack, locals)
      BY <2>1
    <3> QED
      BY <1>2, <3>1, FramesAre, FramesNext
  <2>4. UNCHANGED (IF reply \in {"none", "ok"} THEN reply ELSE "trap")
    BY <2>1
  <2>5. UNCHANGED Structured!structVars
    BY <2>1, <2>3, <2>4 DEF Structured!structVars
  <2> QED
    BY <1>1, <2>2, <2>5 DEF Sound
<1> QED
  BY <1>3, <1>4

(* Shared stacks and scanning for `end` do what the block structure means, *)
(* for all valid code, whatever the limits.                                *)
THEOREM BlocksImplemented == Spec => ImplementsBlocks
<1>1. Init => Sound /\ Structured!StructInit
  BY SoundInit
<1>2. Sound /\ [Next]_vars => Sound' /\ [Structured!StructNext]_Structured!structVars
  BY SoundNext
<1> QED
  BY <1>1, <1>2, PTL DEF Spec, ImplementsBlocks, Structured!StructSpec
=============================================================================
