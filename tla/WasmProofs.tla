----------------------------- MODULE WasmProofs -----------------------------
(***************************************************************************)
(* Proofs about WasmMemory, for every word, page and buffer size, and      *)
(* about WasmMachine, for every valid module and every limit.              *)
(*                                                                         *)
(* Inv is the invariant: what each activation has of the shared stacks is  *)
(* what validation says of the place where it is (Framed), the callers'    *)
(* parts lying below (Ascending).  A branch keeps it because the scans     *)
(* find the `end` validation means (TargetFound, ElseFound), which is      *)
(* shown backwards from the end of the body.                               *)
(*                                                                         *)
(* The last section prepares BlocksProofs: the calls of the structured     *)
(* machine are pieces of the shared stacks between marks that validation   *)
(* gives (Mark, BlocksAt, FramesAre).                                      *)
(***************************************************************************)
EXTENDS WasmValid, SequenceTheorems, FiniteSetTheorems, TLAPS

MemInv ==
  /\ memPages \in Nat /\ memLimit \in Nat /\ reach \in Nat /\ wrapped \in BOOLEAN
  /\ AccessesInside

LEMMA Small == ASSUME NEW n \in Nat, n < Word PROVE Wrapped(n) = n
  BY MemoryAssumption, SMT DEF Wrapped

LEMMA WrappedIsWord == ASSUME NEW n \in Nat PROVE Wrapped(n) \in Nat /\ Wrapped(n) < Word
  BY MemoryAssumption, SMT DEF Wrapped

LEMMA Times ==
  ASSUME NEW a \in Nat, NEW b \in Nat, NEW c \in Nat \ {0}, a <= b
  PROVE  a * c \in Nat /\ b * c \in Nat /\ a * c <= b * c /\ b <= b * c
  OBVIOUS

LEMMA AccessKeeps ==
  ASSUME MemInv, NEW addr \in Words, NEW size \in Words, Access(addr, size)
  PROVE  MemInv'
  <1>1. addr \in Nat /\ size \in Nat /\ addr + size <= memLimit
    BY SMT, MemoryAssumption DEF Access, MemCheck, Words, MemInv
  <1>2. reach' \in Nat /\ (reach' = reach \/ reach' = addr + size)
    BY <1>1 DEF Access, MemInv
  <1> QED
    BY <1>1, <1>2, MemoryAssumption DEF Access, MemInv, AccessesInside

LEMMA GrowKeeps ==
  ASSUME MemInv, NEW pages \in Words, NEW answer \in Words, Grow(pages, answer)
  PROVE  MemInv'
  <1> DEFINE all == memPages + pages
             want == Wrapped(all)
  <1>1. CASE ~Grows(pages)
    BY <1>1 DEF Grow, memVars, MemInv, AccessesInside
  <1>2. CASE Grows(pages)
    <2>1. all \in Nat /\ pages \in Nat
      BY MemoryAssumption DEF Words, MemInv
    <2>2. want \in Nat /\ want < Word
      BY <2>1, WrappedIsWord
    <2>3. want * PageBytes \in Nat
      BY <2>2, MemoryAssumption, Times
    <2>4. /\ memPages' = want /\ memLimit' = Wrapped(want * PageBytes)
          /\ wrapped' = (wrapped \/ Wraps(all * PageBytes))
          /\ reach' = reach
      BY <1>2 DEF Grow
    <2>5. memLimit' \in Nat /\ memLimit' <= MemBytes
      BY <1>2, <2>3, <2>4, WrappedIsWord DEF Grows
    <2>6. ASSUME ~wrapped'
          PROVE  memLimit' = memPages' * PageBytes /\ reach' <= memLimit'
      <3>1. ~wrapped /\ all * PageBytes < Word
        BY <2>4, <2>6, Zenon DEF Wraps
      <3>2. all * PageBytes \in Nat /\ all <= all * PageBytes /\ memPages * PageBytes <= all * PageBytes
        BY <2>1, MemoryAssumption, Times DEF MemInv
      <3>3. all * PageBytes < Word /\ all < Word
        BY <3>1, <3>2, <2>1, MemoryAssumption
      <3>4. want = all
        BY <3>3, <2>1, Small
      <3>5. Wrapped(all * PageBytes) = all * PageBytes
        BY <3>2, <3>3, Small
      <3>6. memLimit = memPages * PageBytes /\ reach <= memLimit
        BY <3>1 DEF MemInv, AccessesInside
      <3> QED
        BY <2>4, <3>2, <3>4, <3>5, <3>6 DEF MemInv
    <2> QED
      BY <2>2, <2>4, <2>5, <2>6 DEF MemInv, AccessesInside
  <1> QED
    BY <1>1, <1>2

(* Whatever a program loads, stores and asks memory.grow for, wasm.c's     *)
(* checks keep every access inside the host's buffer, and inside what      *)
(* memory.size says unless a size in bytes has wrapped.                    *)
THEOREM MemoryAlways == MemSpec => []AccessesInside
  <1>1. ASSUME NEW pages \in Nat, MemInit(pages) PROVE MemInv
    <2>1. pages * PageBytes \in Nat
      BY MemoryAssumption, Times
    <2>2. memLimit \in Nat
      BY <1>1, <2>1, WrappedIsWord DEF MemInit
    <2>3. wrapped \in BOOLEAN /\ (~wrapped => pages * PageBytes < Word)
      BY <1>1, Zenon DEF MemInit, Wraps
    <2>4. ~wrapped => memLimit = memPages * PageBytes
      BY <1>1, <2>1, <2>3, Small DEF MemInit
    <2>5. memPages \in Nat /\ reach = 0 /\ memLimit <= MemBytes
      BY <1>1 DEF MemInit
    <2>6. AccessesInside
      BY <2>2, <2>4, <2>5, MemoryAssumption DEF AccessesInside
    <2> QED
      BY <2>2, <2>3, <2>5, <2>6 DEF MemInv
  <1>2. MemInv /\ [MemNext]_memVars => MemInv'
    <2> SUFFICES ASSUME MemInv, [MemNext]_memVars PROVE MemInv'
      OBVIOUS
    <2>1. CASE UNCHANGED memVars
      BY <2>1 DEF memVars, MemInv, AccessesInside
    <2>2. CASE MemNext
      BY <2>2, AccessKeeps, GrowKeeps DEF MemNext
    <2> QED
      BY <2>1, <2>2
  <1>3. MemInv => AccessesInside
    BY DEF MemInv
  <1>4. (\E pages \in Nat : MemInit(pages)) => MemInv
    BY <1>1
  <1> QED
    BY <1>2, <1>3, <1>4, PTL DEF MemSpec

LEMMA LeastOf ==
  ASSUME NEW T \in SUBSET Nat, T # {}
  PROVE  \E x \in T : \A y \in T : x <= y
<1> DEFINE below(n) == 0 .. n
           D == {below(n) : n \in T}
           R == StrictSubsetOrdering(Nat)
           F == FiniteSubsetsOf(Nat)
<1>1. \A n \in Nat : below(n) \in F
  BY FS_Interval DEF FiniteSubsetsOf
<1>2. D \subseteq F /\ D # {}
  BY <1>1
<1>3. IsWellFoundedOn(R, F)
  BY FS_StrictSubsetOrderingWellFounded
<1>4. PICK d \in D : \A e \in D : <<e, d>> \notin R
  <2> HIDE DEF D, R, F
  <2> QED
    BY <1>2, <1>3, WFMin
<1>5. PICK x \in T : d = below(x)
  BY <1>4
<1>6. ASSUME NEW y \in T, y < x PROVE FALSE
  <2>1. below(y) \subseteq below(x) /\ x \in below(x) /\ x \notin below(y)
    BY <1>6
  <2>2. below(y) \in SUBSET Nat /\ below(x) \in SUBSET Nat
    OBVIOUS
  <2> HIDE DEF below
  <2>3. <<below(y), below(x)>> \in R
    BY <2>1, <2>2 DEF StrictSubsetOrdering
  <2>4. below(y) \in D
    OBVIOUS
  <2> QED
    BY <1>4, <1>5, <2>3, <2>4
<1> QED
  BY <1>6


----------------------------------------------------------------------------
(* The interpreter.  First the scans: the recursive functions exist, and   *)
(* what they find in valid code.                                           *)

LEMMA BranchScanIs ==
  ASSUME NEW body, Len(body) \in Nat
  PROVE  BranchScan(body) =
           [q \in 1 .. Len(body) + 1 |->
              IF q > Len(body) THEN [depth \in 0 .. Len(body) |-> [left \in 0 .. Len(body) |-> 0]]
              ELSE BranchFrom(body, q, BranchScan(body)[q + 1])]
<1> DEFINE n == Len(body)
           none == [depth \in 0 .. n |-> [left \in 0 .. n |-> 0]]
           Scans(f, k) == f = [q \in k .. n + 1 |->
                                 IF q > n THEN none ELSE BranchFrom(body, q, f[q + 1])]
           T == {k \in Nat : k <= n /\ ~\E f : Scans(f, n + 1 - k)}
<1>1. \E f : Scans(f, n + 1)
  <2> HIDE DEF none
  <2> DEFINE f == [q \in n + 1 .. n + 1 |-> none]
  <2>1. Scans(f, n + 1)
    OBVIOUS
  <2> QED
    BY <2>1
<1>2. ASSUME NEW k \in 1 .. n, \E f : Scans(f, k + 1)
      PROVE  \E f : Scans(f, k)
  <2>1. PICK f : Scans(f, k + 1)
    BY <1>2
  <2> HIDE DEF none
  <2> DEFINE g == [q \in k .. n + 1 |-> IF q = k THEN BranchFrom(body, k, f[k + 1]) ELSE f[q]]
  <2>2. \A q \in k + 1 .. n + 1 : g[q] = f[q]
    OBVIOUS
  <2>3. \A q \in k .. n + 1 : g[q] = IF q > n THEN none ELSE BranchFrom(body, q, g[q + 1])
    <3> TAKE q \in k .. n + 1
    <3>1. CASE q = k
      <4>1. g[k + 1] = f[k + 1]
        BY <2>2
      <4> QED
        BY <3>1, <4>1
    <3>2. CASE q # k
      <4>1. q \in k + 1 .. n + 1 /\ g[q] = f[q]
        BY <3>2, <2>2
      <4> HIDE DEF g
      <4>2. CASE q > n
        BY <4>1, <4>2, <2>1
      <4>3. CASE ~(q > n)
        <5>1. g[q + 1] = f[q + 1]
          BY <4>1, <4>3, <2>2
        <5> QED
          BY <4>1, <4>3, <5>1, <2>1
      <4> QED
        BY <4>2, <4>3
    <3> QED
      BY <3>1, <3>2
  <2>4. Scans(g, k)
    <3>1. g = [q \in k .. n + 1 |-> g[q]]
      OBVIOUS
    <3> HIDE DEF g
    <3> QED
      BY <3>1, <2>3
  <2> QED
    BY <2>4
<1>3. \E f : Scans(f, 1)
  <2>1. SUFFICES ASSUME T # {} PROVE FALSE
    <3>1. n \notin T
      BY <2>1
    <3> QED
      BY <3>1
  <2>2. PICK k \in T : \A l \in T : k <= l
    <3> HIDE DEF T
    <3>1. T \in SUBSET Nat
      BY DEF T
    <3> QED
      BY <2>1, <3>1, LeastOf
  <2> DEFINE Some(x) == \E f : Scans(f, x)
  <2>3. Some(n + 1) /\ \A x \in 1 .. n : Some(x + 1) => Some(x)
    BY <1>1, <1>2
  <2>4. \A x \in Nat : x \in T <=> x <= n /\ ~Some(n + 1 - x)
    OBVIOUS
  <2>5. k \in Nat
    OBVIOUS
  <2> HIDE DEF Some, T
  <2>6. k # 0
    BY <2>3, <2>4
  <2>7. k - 1 \in Nat /\ k - 1 \notin T /\ k <= n
    BY <2>2, <2>4, <2>5, <2>6
  <2>8. Some(n + 1 - (k - 1))
    BY <2>4, <2>5, <2>7
  <2>9. n + 1 - k \in 1 .. n /\ n + 1 - (k - 1) = n + 1 - k + 1
    BY <2>5, <2>6, <2>7
  <2> QED
    BY <2>2, <2>3, <2>4, <2>5, <2>8, <2>9
<1> DEFINE P(f) == f = [q \in 1 .. Len(body) + 1 |->
              IF q > Len(body) THEN [depth \in 0 .. Len(body) |-> [left \in 0 .. Len(body) |-> 0]]
              ELSE BranchFrom(body, q, f[q + 1])]
<1>4. P(CHOOSE f : P(f))
  BY <1>3, Zenon
<1>5. BranchScan(body) = CHOOSE f : P(f)
  BY DEF BranchScan
<1>6. P(BranchScan(body))
  BY <1>4, <1>5, Zenon
<1> QED
  BY <1>6
LEMMA ElseScanIs ==
  ASSUME NEW body, Len(body) \in Nat
  PROVE  ElseScan(body) =
           [q \in 1 .. Len(body) + 1 |->
              IF q > Len(body) THEN [depth \in 0 .. Len(body) |-> 0]
              ELSE ElseFrom(body, q, ElseScan(body)[q + 1])]
<1> DEFINE n == Len(body)
           none == [depth \in 0 .. n |-> 0]
           Scans(f, k) == f = [q \in k .. n + 1 |->
                                 IF q > n THEN none ELSE ElseFrom(body, q, f[q + 1])]
           T == {k \in Nat : k <= n /\ ~\E f : Scans(f, n + 1 - k)}
<1>1. \E f : Scans(f, n + 1)
  <2> HIDE DEF none
  <2> DEFINE f == [q \in n + 1 .. n + 1 |-> none]
  <2>1. Scans(f, n + 1)
    OBVIOUS
  <2> QED
    BY <2>1
<1>2. ASSUME NEW k \in 1 .. n, \E f : Scans(f, k + 1)
      PROVE  \E f : Scans(f, k)
  <2>1. PICK f : Scans(f, k + 1)
    BY <1>2
  <2> HIDE DEF none
  <2> DEFINE g == [q \in k .. n + 1 |-> IF q = k THEN ElseFrom(body, k, f[k + 1]) ELSE f[q]]
  <2>2. \A q \in k + 1 .. n + 1 : g[q] = f[q]
    OBVIOUS
  <2>3. \A q \in k .. n + 1 : g[q] = IF q > n THEN none ELSE ElseFrom(body, q, g[q + 1])
    <3> TAKE q \in k .. n + 1
    <3>1. CASE q = k
      <4>1. g[k + 1] = f[k + 1]
        BY <2>2
      <4> QED
        BY <3>1, <4>1
    <3>2. CASE q # k
      <4>1. q \in k + 1 .. n + 1 /\ g[q] = f[q]
        BY <3>2, <2>2
      <4> HIDE DEF g
      <4>2. CASE q > n
        BY <4>1, <4>2, <2>1
      <4>3. CASE ~(q > n)
        <5>1. g[q + 1] = f[q + 1]
          BY <4>1, <4>3, <2>2
        <5> QED
          BY <4>1, <4>3, <5>1, <2>1
      <4> QED
        BY <4>2, <4>3
    <3> QED
      BY <3>1, <3>2
  <2>4. Scans(g, k)
    <3>1. g = [q \in k .. n + 1 |-> g[q]]
      OBVIOUS
    <3> HIDE DEF g
    <3> QED
      BY <3>1, <2>3
  <2> QED
    BY <2>4
<1>3. \E f : Scans(f, 1)
  <2>1. SUFFICES ASSUME T # {} PROVE FALSE
    <3>1. n \notin T
      BY <2>1
    <3> QED
      BY <3>1
  <2>2. PICK k \in T : \A l \in T : k <= l
    <3> HIDE DEF T
    <3>1. T \in SUBSET Nat
      BY DEF T
    <3> QED
      BY <2>1, <3>1, LeastOf
  <2> DEFINE Some(x) == \E f : Scans(f, x)
  <2>3. Some(n + 1) /\ \A x \in 1 .. n : Some(x + 1) => Some(x)
    BY <1>1, <1>2
  <2>4. \A x \in Nat : x \in T <=> x <= n /\ ~Some(n + 1 - x)
    OBVIOUS
  <2>5. k \in Nat
    OBVIOUS
  <2> HIDE DEF Some, T
  <2>6. k # 0
    BY <2>3, <2>4
  <2>7. k - 1 \in Nat /\ k - 1 \notin T /\ k <= n
    BY <2>2, <2>4, <2>5, <2>6
  <2>8. Some(n + 1 - (k - 1))
    BY <2>4, <2>5, <2>7
  <2>9. n + 1 - k \in 1 .. n /\ n + 1 - (k - 1) = n + 1 - k + 1
    BY <2>5, <2>6, <2>7
  <2> QED
    BY <2>2, <2>3, <2>4, <2>5, <2>8, <2>9
<1> DEFINE P(f) == f = [q \in 1 .. Len(body) + 1 |->
              IF q > Len(body) THEN [depth \in 0 .. Len(body) |-> 0]
              ELSE ElseFrom(body, q, f[q + 1])]
<1>4. P(CHOOSE f : P(f))
  BY <1>3, Zenon
<1>5. ElseScan(body) = CHOOSE f : P(f)
  BY DEF ElseScan
<1>6. P(ElseScan(body))
  BY <1>4, <1>5, Zenon
<1> QED
  BY <1>6

----------------------------------------------------------------------------
(* What validation says of a body.                                         *)

LEMMA TypedIs ==
  ASSUME NEW pr, NEW f, ValidFunction(pr, f)
  PROVE  /\ Len(f.body) \in Nat /\ Len(f.body) >= 1
         /\ \A p \in 1 .. Len(f.body) :
              /\ Height(f.body, p) \in Nat
              /\ Open(f.body, p) \in Seq(OpenBlocks(f.body))
              /\ Len(Open(f.body, p)) \in Nat
<1>2. \A p \in 1 .. Len(f.body) :
         Typed(f.body)[p] \in [height : Nat, open : Seq(OpenBlocks(f.body))]
  BY DEF ValidFunction
<1>3. Len(f.body) \in Nat /\ Len(f.body) >= 1
  BY EmptySeq, LenProperties DEF ValidFunction
<1> QED
  BY <1>2, <1>3, LenProperties DEF Height, Open

LEMMA LastIs ==
  ASSUME NEW S, NEW s \in Seq(S), s # << >>
  PROVE  /\ Len(s) \in Nat \ {0} /\ Last(s) = s[Len(s)] /\ Last(s) \in S
         /\ Front(s) \in Seq(S) /\ Len(Front(s)) = Len(s) - 1
         /\ \A j \in 1 .. Len(s) - 1 : Front(s)[j] = s[j]
<1>1. Len(s) \in Nat \ {0}
  BY EmptySeq, LenProperties
<1>2. Front(s) = SubSeq(s, 1, Len(s) - 1) /\ Last(s) = s[Len(s)]
  BY DEF Front, Last
<1>3. Front(s) = [j \in 1 .. Len(s) - 1 |-> s[j]]
  BY <1>1, <1>2
<1>4. \A j \in 1 .. Len(s) : s[j] \in S
  BY ElementOfSeq
<1>5. Front(s) \in Seq(S)
  BY <1>1, <1>2, SubSeqProperties
<1>6. Len(Front(s)) = Len(s) - 1
  BY <1>1, <1>3
<1>7. \A j \in 1 .. Len(s) - 1 : Front(s)[j] = s[j]
  BY <1>3
<1>8. Last(s) \in S
  BY <1>1, <1>2, <1>4
<1> QED
  BY <1>1, <1>2, <1>5, <1>6, <1>7, <1>8

(* The operands an instruction takes, and those below them.                *)
LEMMA SplitAt ==
  ASSUME NEW S, NEW s \in Seq(S), NEW k \in Nat, k <= Len(s)
  PROVE  /\ Without(s, k) \in Seq(S) /\ Len(Without(s, k)) = Len(s) - k
         /\ LastOf(s, k) \in Seq(S) /\ Len(LastOf(s, k)) = k
<1> DEFINE n == Len(s)
           from == n - k + 1
<1>1. n \in Nat /\ n - k \in Nat /\ from \in Int /\ n - from + 1 = k /\ from >= 1
  BY LenProperties
<1>2. \A j \in 1 .. n : s[j] \in S
  BY ElementOfSeq
<1>3. Without(s, k) = SubSeq(s, 1, n - k) /\ LastOf(s, k) = SubSeq(s, from, n)
  BY DEF Without, LastOf
<1> HIDE DEF n, from
<1>4. (\A j \in 1 .. n - k : s[j] \in S) /\ (\A j \in from .. n : s[j] \in S)
  BY <1>1, <1>2
<1>5. SubSeq(s, 1, n - k) \in Seq(S) /\ Len(SubSeq(s, 1, n - k)) = n - k
  <2>1. /\ SubSeq(s, 1, n - k) \in Seq(S)
        /\ Len(SubSeq(s, 1, n - k)) = IF 1 <= n - k THEN n - k - 1 + 1 ELSE 0
    BY <1>1, <1>4, SubSeqProperties
  <2> QED
    BY <1>1, <2>1
<1>6. SubSeq(s, from, n) \in Seq(S) /\ Len(SubSeq(s, from, n)) = k
  <2>1. /\ SubSeq(s, from, n) \in Seq(S)
        /\ Len(SubSeq(s, from, n)) = IF from <= n THEN n - from + 1 ELSE 0
    BY <1>1, <1>4, SubSeqProperties
  <2>2. ~(from <= n) => k = 0
    BY <1>1 DEF from
  <2> QED
    BY <1>1, <2>1, <2>2
<1> QED
  BY <1>3, <1>5, <1>6 DEF n

LEMMA SamePrefixes ==
  ASSUME NEW S, NEW s \in Seq(S), NEW t \in Seq(S), NEW k \in Nat,
         k <= Len(s), k <= Len(t), \A j \in 1 .. k : s[j] = t[j]
  PROVE  \A j \in 0 .. k : SubSeq(s, 1, j) = SubSeq(t, 1, j)
<1> TAKE j \in 0 .. k
<1>1. Len(s) \in Nat /\ Len(t) \in Nat
  BY LenProperties
<1>2. /\ SubSeq(s, 1, j) = [i \in 1 .. j |-> s[i]]
      /\ SubSeq(t, 1, j) = [i \in 1 .. j |-> t[i]]
  BY <1>1
<1> QED
  BY <1>2

(* How the open blocks change from one instruction to the next.            *)
LEMMA NextOpen ==
  ASSUME NEW pr, NEW f, ValidFunction(pr, f), NEW p \in 1 .. Len(f.body) - 1
  PROVE  LET o == Open(f.body, p)
             next == Open(f.body, p + 1)
         IN  /\ Opens(f.body, p) =>
                  /\ ~Closes(f.body, p) /\ f.body[p].op # "else"
                  /\ Len(next) = Len(o) + 1 /\ next[Len(o) + 1] = Begun(f.body, p)
                  /\ \A j \in 1 .. Len(o) : next[j] = o[j]
             /\ Closes(f.body, p) =>
                  /\ ~Opens(f.body, p) /\ f.body[p].op # "else"
                  /\ Len(o) \in Nat \ {0} /\ Len(next) = Len(o) - 1 /\ Last(o) = o[Len(o)]
                  /\ \A j \in 1 .. Len(o) - 1 : next[j] = o[j]
             /\ f.body[p].op = "else" =>
                  /\ ~Opens(f.body, p) /\ ~Closes(f.body, p)
                  /\ Len(o) \in Nat \ {0} /\ Len(next) = Len(o) /\ next[Len(o)] = Other(f.body, p)
                  /\ Last(o) = o[Len(o)] /\ o[Len(o)].op = "if"
                  /\ \A j \in 1 .. Len(o) - 1 : next[j] = o[j]
             /\ ~Opens(f.body, p) /\ ~Closes(f.body, p) /\ f.body[p].op # "else" => next = o
<1> DEFINE body == f.body
           o == Open(body, p)
           next == Open(body, p + 1)
           S == OpenBlocks(body)
<1>1. NestsWell(body, p) /\ p \in 1 .. Len(body) /\ p < Len(body)
  BY TypedIs DEF ValidFunction
<1>2. o \in Seq(S) /\ Len(o) \in Nat /\ next \in Seq(S)
  BY TypedIs, <1>1
<1>3. Opens(body, p) => ~Closes(body, p) /\ body[p].op # "else"
  BY DEF Opens, Closes, Openers
<1>4. Closes(body, p) => body[p].op # "else"
  BY DEF Closes
<1>5. CASE Opens(body, p)
  <2>1. next = Append(o, Begun(body, p))
    BY <1>1, <1>5 DEF NestsWell
  <2> HIDE DEF o, next, body, S
  <2>2. Len(next) = Len(o) + 1 /\ next[Len(o) + 1] = Begun(body, p)
            /\ \A j \in 1 .. Len(o) : next[j] = o[j]
    BY <2>1, <1>2
  <2> QED
    BY <1>2, <1>3, <1>5, <2>2 DEF o, next, body
<1>6. CASE Closes(body, p)
  <2>1. o # << >> /\ next = Front(o)
    BY <1>1, <1>6 DEF NestsWell
  <2> HIDE DEF o, next, body, S
  <2>2. /\ Len(o) \in Nat \ {0} /\ Last(o) = o[Len(o)]
        /\ Len(next) = Len(o) - 1 /\ \A j \in 1 .. Len(o) - 1 : next[j] = o[j]
    BY <2>1, <1>2, LastIs
  <2> QED
    BY <1>2, <1>3, <1>4, <1>6, <2>2 DEF o, next, body
<1>7. CASE body[p].op = "else"
  <2>1. o # << >> /\ Last(o).op = "if" /\ next = Append(Front(o), Other(body, p))
    BY <1>1, <1>7 DEF NestsWell
  <2> HIDE DEF o, next, body, S
  <2>2. /\ Len(o) \in Nat \ {0} /\ Last(o) = o[Len(o)] /\ Front(o) \in Seq(S)
        /\ Len(Front(o)) = Len(o) - 1 /\ \A j \in 1 .. Len(o) - 1 : Front(o)[j] = o[j]
    BY <2>1, <1>2, LastIs
  <2> DEFINE front == Front(o)
  <2> HIDE DEF front
  <2>3. /\ front \in Seq(S) /\ Len(front) = Len(o) - 1
        /\ \A j \in 1 .. Len(o) - 1 : front[j] = o[j]
        /\ next = Append(front, Other(body, p))
    BY <2>1, <2>2 DEF front
  <2>4. /\ Len(next) = Len(o) /\ next[Len(o)] = Other(body, p)
        /\ \A j \in 1 .. Len(o) - 1 : next[j] = o[j]
    BY <2>2, <2>3
  <2> QED
    BY <1>2, <1>3, <1>4, <1>7, <2>1, <2>2, <2>4 DEF o, next, body
<1>8. CASE ~Opens(body, p) /\ ~Closes(body, p) /\ body[p].op # "else"
  <2>1. next = o
    BY <1>1, <1>8 DEF NestsWell
  <2> HIDE DEF o, next, body, S
  <2> QED
    BY <1>2, <1>8, <2>1 DEF o, next, body
<1> QED
  BY <1>5, <1>6, <1>7, <1>8

(* An instruction's blocks nest: each keeps the operands of those around   *)
(* it, and a loop is where its label says.                                 *)
WellOpen(body, p) ==
  LET o == Open(body, p)
  IN  /\ Len(o) < p
      /\ \A j \in 1 .. Len(o) :
           o[j].op = "loop" =>
             /\ Open(body, o[j].at) = SubSeq(o, 1, j)
             /\ Height(body, o[j].at) = o[j].base
      /\ \A j, k \in 1 .. Len(o) : j <= k => o[j].base <= o[k].base

LEMMA FloorIs ==
  ASSUME NEW pr, NEW f, ValidFunction(pr, f), NEW p \in 1 .. Len(f.body)
  PROVE  LET o == Open(f.body, p)
         IN  /\ Floor(f.body, p) \in Nat
             /\ o # << >> => Len(o) > 0 /\ Last(o) = o[Len(o)] /\ Floor(f.body, p) = o[Len(o)].base
             /\ o = << >> => Len(o) = 0 /\ Floor(f.body, p) = 0
             /\ \A j \in 1 .. Len(o) :
                  /\ o[j].base \in Nat /\ o[j].at \in 1 .. Len(f.body) /\ o[j].arity \in {0, 1}
                  /\ o[j].op \in {"block", "loop", "if", "else"}
<1> DEFINE o == Open(f.body, p)
           S == OpenBlocks(f.body)
<1>1. o \in Seq(S)
  BY TypedIs
<1>2. \A e \in S : /\ e.base \in Nat /\ e.at \in 1 .. Len(f.body) /\ e.arity \in {0, 1}
                   /\ e.op \in {"block", "loop", "if", "else"}
  BY DEF OpenBlocks
<1>3. o = << >> => Len(o) = 0 /\ Floor(f.body, p) = 0
  BY DEF Floor
<1>4. ASSUME o # << >>
      PROVE  /\ Len(o) > 0 /\ Last(o) = o[Len(o)] /\ Last(o) \in S
             /\ Floor(f.body, p) = o[Len(o)].base
  <2>1. Floor(f.body, p) = Last(o).base
    BY <1>4 DEF Floor
  <2> HIDE DEF o, S
  <2>2. Len(o) \in Nat \ {0} /\ Last(o) = o[Len(o)] /\ Last(o) \in S
    BY <1>1, <1>4, LastIs
  <2> QED
    BY <2>1, <2>2
<1>5. \A j \in 1 .. Len(o) : o[j] \in S
  <2> HIDE DEF o, S
  <2> QED
    BY <1>1, ElementOfSeq
<1>6. Floor(f.body, p) \in Nat
  <2> HIDE DEF o, S
  <2> QED
    BY <1>2, <1>3, <1>4
<1> QED
  BY <1>2, <1>3, <1>4, <1>5, <1>6

LEMMA WellOpenNext ==
  ASSUME NEW pr, NEW f, ValidFunction(pr, f), NEW p \in 1 .. Len(f.body) - 1,
         WellOpen(f.body, p)
  PROVE  WellOpen(f.body, p + 1)
<1> DEFINE body == f.body
           o == Open(body, p)
           next == Open(body, p + 1)
           S == OpenBlocks(body)
<1>1. /\ p \in 1 .. Len(body) /\ p + 1 \in 1 .. Len(body) /\ p < Len(body)
      /\ o \in Seq(S) /\ next \in Seq(S) /\ Len(o) \in Nat /\ Len(next) \in Nat
      /\ Height(body, p) \in Nat /\ Height(body, p + 1) \in Nat
  BY TypedIs
<1>2. /\ Len(o) < p
      /\ \A j \in 1 .. Len(o) : o[j].op = "loop" =>
           Open(body, o[j].at) = SubSeq(o, 1, j) /\ Height(body, o[j].at) = o[j].base
      /\ \A j, k \in 1 .. Len(o) : j <= k => o[j].base <= o[k].base
  BY DEF WellOpen
<1>3. \A j \in 1 .. Len(o) : o[j].base \in Nat
  BY <1>1, FloorIs
<1>4. ASSUME NEW k \in Nat, k <= Len(o), k <= Len(next), \A j \in 1 .. k : next[j] = o[j]
      PROVE  \A j \in 1 .. k : next[j].op = "loop" =>
               /\ Open(body, next[j].at) = SubSeq(next, 1, j)
               /\ Height(body, next[j].at) = next[j].base
  <2> HIDE DEF o, next, S
  <2>1. \A j \in 0 .. k : SubSeq(next, 1, j) = SubSeq(o, 1, j)
    BY <1>1, <1>4, SamePrefixes
  <2> QED
    BY <1>2, <1>4, <2>1
<1>5. CASE Opens(body, p)
  <2>1. /\ Len(next) = Len(o) + 1 /\ next[Len(next)] = Begun(body, p)
        /\ \A j \in 1 .. Len(o) : next[j] = o[j]
    <3>1. /\ Len(next) = Len(o) + 1 /\ next[Len(o) + 1] = Begun(body, p)
          /\ \A j \in 1 .. Len(o) : next[j] = o[j]
      BY <1>5, NextOpen
    <3> HIDE DEF o, next, body
    <3> QED
      BY <3>1
  <2>2. Height(body, p + 1) >= Floor(body, p)
    <3>1. ControlChecked(pr, f, p)
      BY <1>1 DEF ValidFunction
    <3>2. body[p].op \in {"block", "loop"} \/ body[p].op = "if"
      BY <1>5 DEF Opens, Openers
    <3>3. Goes(body, p, 0, 0) \/ Goes(body, p, 1, 0)
      BY <3>1, <3>2 DEF ControlChecked
    <3>4. Floor(body, p) \in Nat
      BY <1>1, FloorIs
    <3> QED
      BY <1>1, <3>3, <3>4 DEF Goes, Enough
  <2>3. /\ Begun(body, p).at = p + 1 /\ Begun(body, p).base = Height(body, p + 1)
    BY DEF Begun
  <2>4. SubSeq(next, 1, Len(next)) = next
    <3> HIDE DEF next, S
    <3> QED
      BY <1>1
  <2>5. \A j \in 1 .. Len(o) : o[j].base <= Floor(body, p)
    <3>1. o # << >> => Floor(body, p) = o[Len(o)].base
      BY <1>1, FloorIs
    <3> HIDE DEF o
    <3> QED
      BY <1>1, <1>2, <3>1
  <2>6. Floor(body, p) \in Nat
    BY <1>1, FloorIs
  <2>7. \A j \in 1 .. Len(next) : next[j].op = "loop" =>
          Open(body, next[j].at) = SubSeq(next, 1, j) /\ Height(body, next[j].at) = next[j].base
    <3>3. \A j \in 1 .. Len(o) : next[j].op = "loop" =>
            Open(body, next[j].at) = SubSeq(next, 1, j) /\ Height(body, next[j].at) = next[j].base
      <4> DEFINE k == Len(o)
      <4>1. k \in Nat /\ k <= Len(o) /\ k <= Len(next) /\ \A j \in 1 .. k : next[j] = o[j]
        BY <1>1, <2>1
      <4> HIDE DEF k, next
      <4>2. \A j \in 1 .. k : next[j].op = "loop" =>
              Open(body, next[j].at) = SubSeq(next, 1, j) /\ Height(body, next[j].at) = next[j].base
        BY <1>4, <4>1
      <4> QED
        BY <4>2 DEF k
    <3> TAKE j \in 1 .. Len(next)
    <3>1. CASE j = Len(next)
      BY <2>1, <2>3, <2>4, <3>1
    <3>2. CASE j # Len(next)
      <4>1. j \in 1 .. Len(o)
        BY <1>1, <2>1, <3>2
      <4> QED
        BY <3>3, <4>1
    <3> QED
      BY <3>1, <3>2
  <2>8. \A j, k \in 1 .. Len(next) : j <= k => next[j].base <= next[k].base
    <3> DEFINE n == Len(o)
               last == next[Len(next)].base
    <3>1. n \in Nat /\ Len(next) = n + 1 /\ last >= Floor(body, p) /\ last \in Nat
      BY <1>1, <2>1, <2>2, <2>3
    <3>2. \A j \in 1 .. n : next[j].base = o[j].base /\ o[j].base \in Nat
                         /\ o[j].base <= Floor(body, p)
      BY <1>3, <2>1, <2>5
    <3>3. \A j, k \in 1 .. n : j <= k => o[j].base <= o[k].base
      BY <1>2
    <3>4. next[n + 1].base = last
      BY <2>1
    <3> HIDE DEF o, next, body, n, last
    <3>5. ASSUME NEW j \in 1 .. n + 1, NEW k \in 1 .. n + 1, j <= k
          PROVE  next[j].base <= next[k].base
      <4>1. CASE k \in 1 .. n
        <5>1. j \in 1 .. n
          BY <3>1, <3>5, <4>1
        <5> QED
          BY <3>2, <3>3, <3>5, <4>1, <5>1
      <4>2. CASE k = n + 1 /\ j \in 1 .. n
        BY <2>6, <3>1, <3>2, <3>4, <4>2
      <4>3. CASE k = n + 1 /\ j = n + 1
        BY <3>1, <3>4, <4>3
      <4> QED
        BY <3>1, <3>5, <4>1, <4>2, <4>3
    <3> QED
      BY <3>1, <3>5
  <2>9. Len(next) < p + 1
    BY <1>1, <1>2, <2>1
  <2> QED
    BY <2>7, <2>8, <2>9 DEF WellOpen
<1>6. CASE Closes(body, p) \/ (~Opens(body, p) /\ body[p].op # "else")
  <2>1. /\ Len(next) <= Len(o)
        /\ \A j \in 1 .. Len(next) : next[j] = o[j]
    <3>1. CASE Closes(body, p)
      <4>1. Len(next) = Len(o) - 1 /\ \A j \in 1 .. Len(o) - 1 : next[j] = o[j]
        BY <3>1, NextOpen
      <4> HIDE DEF o, next, body
      <4> QED
        BY SMTT(30), <1>1, <4>1
    <3>2. CASE ~Closes(body, p)
      <4>1. next = o
        BY <1>6, <3>2, NextOpen
      <4> QED
        BY <1>1, <4>1
    <3> QED
      BY <3>1, <3>2
  <2>2. \A j \in 1 .. Len(next) : next[j].op = "loop" =>
          Open(body, next[j].at) = SubSeq(next, 1, j) /\ Height(body, next[j].at) = next[j].base
    BY <1>1, <1>4, <2>1
  <2>3. Len(next) < p + 1 /\ \A j, k \in 1 .. Len(next) : j <= k => next[j].base <= next[k].base
    <3> HIDE DEF o, next, body
    <3> QED
      BY <1>1, <1>2, <2>1
  <2> QED
    BY <2>2, <2>3 DEF WellOpen
<1>7. CASE body[p].op = "else"
  <2>1. /\ Len(next) = Len(o) /\ Len(o) - 1 \in Nat /\ next[Len(o)] = Other(body, p)
        /\ \A j \in 1 .. Len(o) - 1 : next[j] = o[j]
        /\ Last(o) = o[Len(o)]
    <3>1. ~Opens(body, p) /\ ~Closes(body, p)
      BY <1>7 DEF Opens, Closes, Openers
    <3> QED
      BY SMTT(30), <1>7, <3>1, NextOpen
  <2>2. Other(body, p).op = "else" /\ Other(body, p).base = o[Len(o)].base
    <3>1. o[Len(o)] \in S
      <4> HIDE DEF o, S
      <4> QED
        BY <1>1, <2>1, ElementOfSeq
    <3>2. \A e \in S : [e EXCEPT !.op = "else"].op = "else" /\ [e EXCEPT !.op = "else"].base = e.base
      BY DEF OpenBlocks
    <3>3. Other(body, p) = [o[Len(o)] EXCEPT !.op = "else"]
      BY <2>1 DEF Other
    <3> QED
      BY <3>1, <3>2, <3>3
  <2>3. \A j \in 1 .. Len(next) : next[j].op = "loop" =>
          Open(body, next[j].at) = SubSeq(next, 1, j) /\ Height(body, next[j].at) = next[j].base
    <3> TAKE j \in 1 .. Len(next)
    <3>1. CASE j = Len(next)
      BY <2>1, <2>2, <3>1
    <3>2. CASE j # Len(next)
      <4>1. j \in 1 .. Len(o) - 1
        BY <1>1, <2>1, <3>2
      <4> QED
        BY SMTT(30), <1>1, <1>4, <2>1, <4>1
    <3> QED
      BY <3>1, <3>2
  <2>4. Len(next) < p + 1 /\ \A j \in 1 .. Len(next) : next[j].base = o[j].base
    <3> HIDE DEF o, next, body
    <3> QED
      BY <1>1, <1>2, <2>1, <2>2
  <2>5. \A j, k \in 1 .. Len(next) : j <= k => next[j].base <= next[k].base
    <3> HIDE DEF o, next, body
    <3> QED
      BY <1>1, <1>2, <2>1, <2>4
  <2> QED
    BY <2>3, <2>4, <2>5 DEF WellOpen
<1> QED
  BY <1>5, <1>6, <1>7

LEMMA AllWellOpen ==
  ASSUME NEW pr, NEW f, ValidFunction(pr, f)
  PROVE  \A p \in 1 .. Len(f.body) : WellOpen(f.body, p)
<1> DEFINE T == {p \in 1 .. Len(f.body) : ~WellOpen(f.body, p)}
<1>1. Len(f.body) \in Nat /\ Len(f.body) >= 1
  BY TypedIs
<1>2. WellOpen(f.body, 1)
  <2>1. Open(f.body, 1) = << >>
    BY DEF ValidFunction
  <2> QED
    BY <2>1 DEF WellOpen
<1>3. SUFFICES ASSUME T # {} PROVE FALSE
  OBVIOUS
<1>4. PICK p \in T : \A q \in T : p <= q
  <2>1. T \in SUBSET Nat
    BY <1>1
  <2> HIDE DEF T
  <2> QED
    BY <1>3, <2>1, LeastOf
<1>5. p \in 1 .. Len(f.body) /\ p # 1
  BY <1>2
<1>6. p - 1 \in 1 .. Len(f.body) - 1 /\ p - 1 \notin T
  BY <1>1, <1>4, <1>5
<1>7. WellOpen(f.body, p - 1)
  BY <1>1, <1>6
<1>8. WellOpen(f.body, p - 1 + 1)
  BY <1>6, <1>7, WellOpenNext
<1> QED
  BY <1>5, <1>8

(* Where a branch out of the k-th of the open blocks o lands: with the     *)
(* blocks around that one, and its results on top of what was below it.    *)
Landed(body, o, k, r) ==
  /\ r \in 1 .. Len(body)
  /\ Len(Open(body, r)) = k - 1
  /\ \A j \in 1 .. k - 1 : Open(body, r)[j] = o[j]
  /\ Height(body, r) = o[k].base + o[k].arity

Found(body, q) ==
  \A depth, left \in Nat :
    depth + left < Len(Open(body, q)) =>
      Landed(body, Open(body, q), Len(Open(body, q)) - depth - left, BranchScan(body)[q][depth][left])

LEMMA OtherIs ==
  ASSUME NEW pr, NEW f, ValidFunction(pr, f), NEW p \in 1 .. Len(f.body),
         Open(f.body, p) # << >>
  PROVE  /\ Other(f.body, p).op = "else"
         /\ Other(f.body, p).base = Open(f.body, p)[Len(Open(f.body, p))].base
         /\ Other(f.body, p).arity = Open(f.body, p)[Len(Open(f.body, p))].arity
<1> DEFINE o == Open(f.body, p)
           S == OpenBlocks(f.body)
<1>1. o \in Seq(S)
  BY TypedIs
<1>2. Last(o) \in S /\ Last(o) = o[Len(o)]
  <2> HIDE DEF o, S
  <2>1. o # << >>
    BY DEF o
  <2> QED
    BY <1>1, <2>1, LastIs
<1>3. \A e \in S : /\ [e EXCEPT !.op = "else"].op = "else"
                   /\ [e EXCEPT !.op = "else"].base = e.base
                   /\ [e EXCEPT !.op = "else"].arity = e.arity
  BY DEF OpenBlocks
<1> QED
  BY <1>2, <1>3 DEF Other

LEMMA FoundBefore ==
  ASSUME NEW pr, NEW f, ValidFunction(pr, f), NEW q \in 1 .. Len(f.body) - 1,
         Found(f.body, q + 1)
  PROVE  Found(f.body, q)
<1> DEFINE body == f.body
           o == Open(body, q)
           next == Open(body, q + 1)
           scan == BranchScan(body)
<1>1. /\ q \in 1 .. Len(body) /\ q + 1 \in 1 .. Len(body) /\ q < Len(body) /\ Len(body) \in Nat
      /\ Len(o) \in Nat /\ Len(next) \in Nat
  BY TypedIs
<1>2. Len(o) < q
  BY <1>1, AllWellOpen DEF WellOpen
<1>3. scan[q] = BranchFrom(body, q, scan[q + 1])
  <2>1. q \in 1 .. Len(body) + 1 /\ ~(q > Len(body))
    BY <1>1
  <2> HIDE DEF body
  <2> QED
    BY <1>1, <2>1, BranchScanIs
<1>4. \A d, l \in Nat : d + l < Len(next) => Landed(body, next, Len(next) - d - l, scan[q + 1][d][l])
  BY DEF Found
<1>5. SUFFICES ASSUME NEW d \in Nat, NEW l \in Nat, d + l < Len(o)
               PROVE  Landed(body, o, Len(o) - d - l, scan[q][d][l])
  BY DEF Found
<1>6. d \in 0 .. Len(body) /\ l \in 0 .. Len(body)
  BY <1>1, <1>2, <1>5
<1>7. scan[q][d][l] =
        IF Opens(body, q) THEN scan[q + 1][d + 1][l]
        ELSE IF Closes(body, q) /\ d > 0 THEN scan[q + 1][d - 1][l]
        ELSE IF Closes(body, q) /\ l = 0 THEN q + 1
        ELSE IF Closes(body, q) THEN scan[q + 1][d][l - 1]
        ELSE scan[q + 1][d][l]
  <2> HIDE DEF body, scan
  <2> QED
    BY <1>3, <1>6 DEF BranchFrom
<1> DEFINE k == Len(o) - d - l
<1>8. k \in 1 .. Len(o)
  BY <1>1, <1>5
<1>9. ASSUME NEW r, Landed(body, next, k, r),
             \A j \in 1 .. k - 1 : next[j] = o[j],
             next[k].base = o[k].base, next[k].arity = o[k].arity
      PROVE  Landed(body, o, k, r)
  BY <1>9 DEF Landed
<1>10. CASE Opens(body, q)
  <2>1. Len(next) = Len(o) + 1 /\ \A j \in 1 .. Len(o) : next[j] = o[j]
    BY <1>10, NextOpen
  <2>2. d + 1 \in Nat /\ d + 1 + l < Len(next) /\ Len(next) - (d + 1) - l = k
    BY <1>1, <1>5, <2>1
  <2>3. Landed(body, next, k, scan[q + 1][d + 1][l])
    BY <1>4, <2>2
  <2>4. next[k] = o[k] /\ \A j \in 1 .. k - 1 : next[j] = o[j]
    BY <1>8, <2>1
  <2> QED
    BY <1>7, <1>9, <1>10, <2>3, <2>4
<1>11. CASE Closes(body, q)
  <2>1. /\ ~Opens(body, q) /\ Len(next) = Len(o) - 1 /\ Last(o) = o[Len(o)]
        /\ \A j \in 1 .. Len(o) - 1 : next[j] = o[j]
    BY <1>11, NextOpen
  <2>2. CASE d > 0
    <3>1. d - 1 \in Nat /\ d - 1 + l < Len(next) /\ Len(next) - (d - 1) - l = k
      BY <1>1, <1>5, <2>1, <2>2
    <3>2. Landed(body, next, k, scan[q + 1][d - 1][l])
      BY <1>4, <3>1
    <3>3. k \in 1 .. Len(o) - 1
      BY <1>1, <1>8, <2>2
    <3>4. next[k] = o[k] /\ \A j \in 1 .. k - 1 : next[j] = o[j]
      BY <1>8, <2>1, <3>3
    <3> QED
      BY <1>7, <1>9, <1>11, <2>1, <2>2, <3>2, <3>4
  <2>3. CASE d = 0 /\ l = 0
    <3>1. scan[q][d][l] = q + 1 /\ k = Len(o)
      BY <1>1, <1>7, <1>11, <2>1, <2>3
    <3>2. Height(body, q) = Last(o).base + Last(o).arity /\ Height(body, q + 1) = Height(body, q)
      <4>1. EndsWell(f, q)
        BY <1>1 DEF ValidFunction
      <4> QED
        BY <1>1, <1>11, <4>1 DEF EndsWell
    <3>3. Landed(body, o, k, q + 1)
      BY <1>1, <2>1, <3>1, <3>2 DEF Landed
    <3> QED
      BY <3>1, <3>3
  <2>4. CASE d = 0 /\ l # 0
    <3>1. l - 1 \in Nat /\ d + (l - 1) < Len(next) /\ Len(next) - d - (l - 1) = k
      BY <1>1, <1>5, <2>1, <2>4
    <3>2. Landed(body, next, k, scan[q + 1][d][l - 1])
      BY <1>4, <3>1
    <3>3. k \in 1 .. Len(o) - 1
      BY <1>1, <1>8, <2>4
    <3>4. next[k] = o[k] /\ \A j \in 1 .. k - 1 : next[j] = o[j]
      BY <1>8, <2>1, <3>3
    <3>5. scan[q][d][l] = scan[q + 1][d][l - 1]
      BY <1>7, <1>11, <2>1, <2>4
    <3> QED
      BY <1>9, <3>2, <3>4, <3>5
  <2> QED
    BY <2>2, <2>3, <2>4
<1>12. CASE ~Opens(body, q) /\ ~Closes(body, q)
  <2>1. /\ Len(next) = Len(o) /\ \A j \in 1 .. Len(o) - 1 : next[j] = o[j]
        /\ next[Len(o)].base = o[Len(o)].base /\ next[Len(o)].arity = o[Len(o)].arity
    <3>1. CASE body[q].op = "else"
      <4>1. /\ Len(o) # 0 /\ Len(next) = Len(o) /\ next[Len(o)] = Other(body, q)
            /\ \A j \in 1 .. Len(o) - 1 : next[j] = o[j]
        BY <3>1, NextOpen
      <4>2. o # << >>
        BY <4>1
      <4>3. Other(body, q).base = o[Len(o)].base /\ Other(body, q).arity = o[Len(o)].arity
        BY <1>1, <4>2, OtherIs
      <4> QED
        BY <4>1, <4>3
    <3>2. CASE body[q].op # "else"
      <4>1. next = o
        BY <1>12, <3>2, NextOpen
      <4> QED
        BY <4>1
    <3> QED
      BY <3>1, <3>2
  <2>2. d + l < Len(next) /\ Len(next) - d - l = k
    BY <1>1, <1>5, <2>1
  <2>3. Landed(body, next, k, scan[q + 1][d][l])
    BY <1>4, <2>2
  <2>4. /\ \A j \in 1 .. k - 1 : next[j] = o[j]
        /\ next[k].base = o[k].base /\ next[k].arity = o[k].arity
    <3>1. k = Len(o) \/ k \in 1 .. Len(o) - 1
      BY <1>1, <1>8
    <3>2. \A j \in 1 .. k - 1 : j \in 1 .. Len(o) - 1
      BY <1>1, <1>8
    <3> QED
      BY <2>1, <3>1, <3>2
  <2> QED
    BY <1>7, <1>9, <1>12, <2>3, <2>4
<1> QED
  BY <1>10, <1>11, <1>12

(* branch_target never runs off valid code, and finds the `end` of the     *)
(* block that is `levels` out.                                             *)
LEMMA TargetFound ==
  ASSUME NEW pr, NEW f, ValidFunction(pr, f), NEW q \in 1 .. Len(f.body),
         NEW l \in Nat, l < Len(Open(f.body, q))
  PROVE  Landed(f.body, Open(f.body, q), Len(Open(f.body, q)) - l, BranchTarget(f.body, q, l))
<1> DEFINE n == Len(f.body)
           T == {x \in Nat : x < n /\ ~Found(f.body, n - x)}
<1>1. n \in Nat /\ n >= 1
  BY TypedIs
<1>2. Found(f.body, n)
  <2>1. EndsWell(f, n)
    BY <1>1 DEF ValidFunction
  <2>2. Open(f.body, n) = << >>
    BY <2>1 DEF EndsWell
  <2> QED
    BY <2>2 DEF Found
<1>3. T = {}
  <2>1. SUFFICES ASSUME T # {} PROVE FALSE
    OBVIOUS
  <2>2. PICK x \in T : \A y \in T : x <= y
    <3>1. T \in SUBSET Nat
      OBVIOUS
    <3> HIDE DEF T
    <3> QED
      BY <2>1, <3>1, LeastOf
  <2>3. x \in Nat /\ x # 0 /\ x < n
    BY <1>1, <1>2
  <2>4. x - 1 \in Nat /\ x - 1 < n /\ x - 1 \notin T
    BY <1>1, <2>2, <2>3
  <2>5. Found(f.body, n - (x - 1))
    BY <2>4
  <2>6. n - x \in 1 .. n - 1 /\ n - (x - 1) = n - x + 1
    BY <1>1, <2>3
  <2>7. Found(f.body, n - x)
    BY <2>5, <2>6, FoundBefore
  <2> QED
    BY <2>7
<1>4. Found(f.body, q)
  <2>1. n - q \in Nat /\ n - q < n /\ n - (n - q) = q
    BY <1>1
  <2>2. n - q \notin T
    BY <1>3
  <2>3. Found(f.body, n - (n - q))
    BY <2>1, <2>2
  <2> QED
    BY <2>1, <2>3
<1>5. Len(Open(f.body, q)) \in Nat
  BY TypedIs
<1>6. 0 + l < Len(Open(f.body, q)) /\ Len(Open(f.body, q)) - 0 - l = Len(Open(f.body, q)) - l
  BY <1>5
<1> QED
  BY <1>4, <1>6 DEF Found, BranchTarget

(* Where a false `if` goes on, o being the blocks open in its first arm    *)
(* and k its own: past its `end`, or at the beginning of its other arm.    *)
ArmAfter(body, o, k, r) ==
  /\ r \in 2 .. Len(body)
  /\ \A j \in 1 .. k - 1 : Open(body, r)[j] = o[j]
  /\ Closes(body, r - 1) =>
       /\ Len(Open(body, r)) = k - 1
       /\ Height(body, r) = o[k].base + o[k].arity
       /\ o[k].op = "if" => o[k].arity = 0
  /\ ~Closes(body, r - 1) =>
       /\ Len(Open(body, r)) = k /\ Height(body, r) = o[k].base
       /\ Open(body, r)[k].op = "else"
       /\ Open(body, r)[k].base = o[k].base /\ Open(body, r)[k].arity = o[k].arity

ArmFound(body, q) ==
  \A depth \in Nat :
    depth < Len(Open(body, q)) =>
      ArmAfter(body, Open(body, q), Len(Open(body, q)) - depth, ElseScan(body)[q][depth])

LEMMA ArmFoundBefore ==
  ASSUME NEW pr, NEW f, ValidFunction(pr, f), NEW q \in 1 .. Len(f.body) - 1,
         ArmFound(f.body, q + 1)
  PROVE  ArmFound(f.body, q)
<1> DEFINE body == f.body
           o == Open(body, q)
           next == Open(body, q + 1)
           scan == ElseScan(body)
<1>1. /\ q \in 1 .. Len(body) /\ q + 1 \in 1 .. Len(body) /\ q < Len(body) /\ Len(body) \in Nat
      /\ Len(o) \in Nat /\ Len(next) \in Nat
  BY TypedIs
<1>2. Len(o) < q
  BY <1>1, AllWellOpen DEF WellOpen
<1>3. scan[q] = ElseFrom(body, q, scan[q + 1])
  <2>1. q \in 1 .. Len(body) + 1 /\ ~(q > Len(body))
    BY <1>1
  <2> HIDE DEF body
  <2> QED
    BY <1>1, <2>1, ElseScanIs
<1>4. \A d \in Nat : d < Len(next) => ArmAfter(body, next, Len(next) - d, scan[q + 1][d])
  BY DEF ArmFound
<1>5. SUFFICES ASSUME NEW d \in Nat, d < Len(o)
               PROVE  ArmAfter(body, o, Len(o) - d, scan[q][d])
  BY DEF ArmFound
<1>6. d \in 0 .. Len(body)
  BY <1>1, <1>2, <1>5
<1>7. scan[q][d] =
        IF Opens(body, q) THEN scan[q + 1][d + 1]
        ELSE IF Closes(body, q) /\ d = 0 THEN q + 1
        ELSE IF Closes(body, q) THEN scan[q + 1][d - 1]
        ELSE IF body[q].op = "else" /\ d = 0 THEN q + 1
        ELSE scan[q + 1][d]
  <2> HIDE DEF body, scan
  <2> QED
    BY <1>3, <1>6 DEF ElseFrom
<1> DEFINE k == Len(o) - d
<1>8. k \in 1 .. Len(o)
  BY <1>1, <1>5
<1>9. ASSUME NEW r, ArmAfter(body, next, k, r), \A j \in 1 .. k : next[j] = o[j]
      PROVE  ArmAfter(body, o, k, r)
  <2>1. next[k] = o[k] /\ \A j \in 1 .. k - 1 : next[j] = o[j]
    BY <1>1, <1>8, <1>9
  <2> HIDE DEF k, o, next, body
  <2> QED
    BY <1>9, <2>1 DEF ArmAfter
<1>10. CASE Opens(body, q)
  <2>1. Len(next) = Len(o) + 1 /\ \A j \in 1 .. Len(o) : next[j] = o[j]
    BY <1>10, NextOpen
  <2>2. d + 1 \in Nat /\ d + 1 < Len(next) /\ Len(next) - (d + 1) = k
    BY <1>1, <1>5, <2>1
  <2>3. ArmAfter(body, next, k, scan[q + 1][d + 1])
    BY <1>4, <2>2
  <2>4. \A j \in 1 .. k : next[j] = o[j]
    BY <1>1, <1>8, <2>1
  <2> QED
    BY <1>7, <1>9, <1>10, <2>3, <2>4
<1>11. CASE Closes(body, q)
  <2>1. /\ ~Opens(body, q) /\ Len(next) = Len(o) - 1 /\ Last(o) = o[Len(o)]
        /\ \A j \in 1 .. Len(o) - 1 : next[j] = o[j]
    BY <1>11, NextOpen
  <2>2. CASE d > 0
    <3>1. d - 1 \in Nat /\ d - 1 < Len(next) /\ Len(next) - (d - 1) = k
      BY <1>1, <1>5, <2>1, <2>2
    <3>2. ArmAfter(body, next, k, scan[q + 1][d - 1])
      BY <1>4, <3>1
    <3>3. \A j \in 1 .. k : next[j] = o[j]
      BY <1>1, <1>8, <2>1, <2>2
    <3>4. scan[q][d] = scan[q + 1][d - 1]
      BY <1>7, <1>11, <2>1, <2>2
    <3> QED
      BY <1>9, <3>2, <3>3, <3>4
  <2>3. CASE d = 0
    <3>1. scan[q][d] = q + 1 /\ k = Len(o)
      BY <1>1, <1>7, <1>11, <2>1, <2>3
    <3>2. /\ Height(body, q) = Last(o).base + Last(o).arity /\ Height(body, q + 1) = Height(body, q)
          /\ Last(o).op = "if" => Last(o).arity = 0
      <4>1. EndsWell(f, q)
        BY <1>1 DEF ValidFunction
      <4> QED
        BY <1>1, <1>11, <4>1 DEF EndsWell
    <3>3. q + 1 \in 2 .. Len(body) /\ q + 1 - 1 = q
      BY <1>1
    <3>4. ArmAfter(body, o, k, q + 1)
      BY <1>1, <1>11, <2>1, <3>1, <3>2, <3>3 DEF ArmAfter
    <3> QED
      BY <3>1, <3>4
  <2> QED
    BY <2>2, <2>3
<1>12. CASE body[q].op = "else"
  <2>1. /\ ~Opens(body, q) /\ ~Closes(body, q)
        /\ Len(o) # 0 /\ Len(next) = Len(o) /\ next[Len(o)] = Other(body, q) /\ Last(o) = o[Len(o)]
        /\ \A j \in 1 .. Len(o) - 1 : next[j] = o[j]
    BY <1>12, NextOpen
  <2>2. o # << >>
    BY <2>1
  <2>3. CASE d = 0
    <3>1. scan[q][d] = q + 1 /\ k = Len(o)
      BY <1>1, <1>7, <1>12, <2>1, <2>3
    <3>2. /\ Other(body, q).op = "else" /\ Other(body, q).base = o[Len(o)].base
          /\ Other(body, q).arity = o[Len(o)].arity
      BY <1>1, <2>2, OtherIs
    <3>3. Height(body, q + 1) = Last(o).base
      <4>1. EndsWell(f, q)
        BY <1>1 DEF ValidFunction
      <4> QED
        BY <1>12, <4>1 DEF EndsWell
    <3>4. q + 1 \in 2 .. Len(body) /\ q + 1 - 1 = q
      BY <1>1
    <3>5. \A j \in 1 .. k - 1 : next[j] = o[j]
      BY <2>1, <3>1
    <3>6. /\ Len(next) = k /\ Height(body, q + 1) = o[k].base
          /\ next[k].op = "else" /\ next[k].base = o[k].base /\ next[k].arity = o[k].arity
      BY <2>1, <3>1, <3>2, <3>3
    <3>7. ArmAfter(body, o, k, q + 1)
      <4> HIDE DEF o, k
      <4> QED
        BY <2>1, <3>4, <3>5, <3>6 DEF ArmAfter
    <3> QED
      BY <3>1, <3>7
  <2>4. CASE d # 0
    <3>1. d < Len(next) /\ Len(next) - d = k
      BY <1>1, <1>5, <2>1
    <3>2. ArmAfter(body, next, k, scan[q + 1][d])
      BY <1>4, <3>1
    <3>3. \A j \in 1 .. k : next[j] = o[j]
      BY <1>1, <1>8, <2>1, <2>4
    <3>4. scan[q][d] = scan[q + 1][d]
      BY <1>7, <2>1, <2>4
    <3> QED
      BY <1>9, <3>2, <3>3, <3>4
  <2> QED
    BY <2>3, <2>4
<1>13. CASE ~Opens(body, q) /\ ~Closes(body, q) /\ body[q].op # "else"
  <2>1. next = o
    BY <1>13, NextOpen
  <2>2. ArmAfter(body, next, k, scan[q + 1][d])
    BY <1>4, <1>5, <2>1
  <2>3. scan[q][d] = scan[q + 1][d]
    BY <1>7, <1>13
  <2> QED
    BY <2>1, <2>2, <2>3
<1> QED
  BY <1>10, <1>11, <1>12, <1>13

(* else_or_end never runs off valid code either.                           *)
LEMMA ElseFound ==
  ASSUME NEW pr, NEW f, ValidFunction(pr, f), NEW q \in 1 .. Len(f.body),
         Open(f.body, q) # << >>
  PROVE  ArmAfter(f.body, Open(f.body, q), Len(Open(f.body, q)), ElseOrEnd(f.body, q))
<1> DEFINE n == Len(f.body)
           T == {x \in Nat : x < n /\ ~ArmFound(f.body, n - x)}
<1>1. n \in Nat /\ n >= 1
  BY TypedIs
<1>2. ArmFound(f.body, n)
  <2>1. EndsWell(f, n)
    BY <1>1 DEF ValidFunction
  <2>2. Open(f.body, n) = << >>
    BY <2>1 DEF EndsWell
  <2> QED
    BY <2>2 DEF ArmFound
<1>3. T = {}
  <2>1. SUFFICES ASSUME T # {} PROVE FALSE
    OBVIOUS
  <2>2. PICK x \in T : \A y \in T : x <= y
    <3>1. T \in SUBSET Nat
      OBVIOUS
    <3> HIDE DEF T
    <3> QED
      BY <2>1, <3>1, LeastOf
  <2>3. x \in Nat /\ x # 0 /\ x < n
    BY <1>1, <1>2
  <2>4. x - 1 \in Nat /\ x - 1 < n /\ x - 1 \notin T
    BY <1>1, <2>2, <2>3
  <2>5. ArmFound(f.body, n - (x - 1))
    BY <2>4
  <2>6. n - x \in 1 .. n - 1 /\ n - (x - 1) = n - x + 1
    BY <1>1, <2>3
  <2>7. ArmFound(f.body, n - x)
    BY <2>5, <2>6, ArmFoundBefore
  <2> QED
    BY <2>7
<1>4. ArmFound(f.body, q)
  <2>1. n - q \in Nat /\ n - q < n /\ n - (n - q) = q
    BY <1>1
  <2>2. n - q \notin T
    BY <1>3
  <2>3. ArmFound(f.body, n - (n - q))
    BY <2>1, <2>2
  <2> QED
    BY <2>1, <2>3
<1>5. Len(Open(f.body, q)) \in Nat /\ Len(Open(f.body, q)) > 0
  BY TypedIs, FloorIs
<1>6. 0 < Len(Open(f.body, q)) /\ Len(Open(f.body, q)) - 0 = Len(Open(f.body, q))
  BY <1>5
<1> QED
  BY <1>4, <1>6 DEF ArmFound, ElseOrEnd

----------------------------------------------------------------------------
(* The part of the stacks a call has: its labels are those of the blocks   *)
(* open where it is, its operands as many as validation says.              *)
LabelOf(lab, block, base) ==
  /\ lab.isLoop <=> block.op = "loop"
  /\ lab.arity = IF block.op = "loop" THEN 0 ELSE block.arity
  /\ lab.sp = base + block.base
  /\ lab.isLoop => lab.cont = block.at

Framed(pr, c, a, ctrlEnd, stackEnd, localsEnd) ==
  LET f == pr[a.fn]
      open == Open(f.body, a.pc)
  IN  /\ a.fn \in DOMAIN pr /\ a.pc \in 1 .. Len(f.body)
      /\ ctrlEnd = a.ctrlBase + Len(open)
      /\ stackEnd = a.spBase + Height(f.body, a.pc)
      /\ localsEnd = a.localsBase + f.params + f.locals
      /\ \A j \in 1 .. Len(open) : LabelOf(c[a.ctrlBase + j], open[j], a.spBase)

Activations == [fn : Nat, pc : Nat, localsBase : Nat, ctrlBase : Nat, spBase : Nat]
LabelRecords == [isLoop : BOOLEAN, cont : Nat, arity : {0, 1}, sp : 0 .. StackSize]

StackTypes ==
  /\ prog \in Programs
  /\ stack \in Seq(Words) /\ Len(stack) <= StackSize
  /\ locals \in Seq(Words) /\ Len(locals) <= LocalsSize
  /\ ctrl \in Seq(LabelRecords) /\ Len(ctrl) <= CtrlSize
  /\ acts \in Seq(Activations) /\ Len(acts) <= Depth

TopFramed == acts # << >> => Framed(prog, ctrl, Last(acts), Len(ctrl), Len(stack), Len(locals))
CallersFramed ==
  \A i \in 1 .. Len(acts) - 1 :
    Framed(prog, ctrl, acts[i], acts[i + 1].ctrlBase,
           acts[i + 1].spBase + prog[acts[i + 1].fn].results, acts[i + 1].localsBase)
Ascending ==
  \A i, j \in 1 .. Len(acts) : i <= j =>
    /\ acts[i].ctrlBase <= acts[j].ctrlBase /\ acts[i].spBase <= acts[j].spBase
    /\ acts[i].localsBase <= acts[j].localsBase
Inv == StackTypes /\ TopFramed /\ CallersFramed /\ Ascending /\ NeverMalformed

LEMMA ProgIs ==
  ASSUME StackTypes
  PROVE  /\ Len(prog) \in Nat \ {0} /\ DOMAIN prog = 1 .. Len(prog)
         /\ \A k \in DOMAIN prog : ValidFunction(prog, prog[k])
         /\ prog[1].params = 0
<1>1. /\ prog \in Seq(Range(prog)) /\ prog # << >> /\ prog[1].params = 0
      /\ \A k \in DOMAIN prog : ValidFunction(prog, prog[k])
  BY ValidAssumption DEF StackTypes
<1> QED
  BY <1>1, EmptySeq, LenProperties

(* The instruction a running call is at.                                   *)
LEMMA Here ==
  ASSUME Inv, Running
  PROVE  /\ Len(acts) \in Nat \ {0} /\ Len(acts) <= Depth /\ Act = acts[Len(acts)]
         /\ Act \in Activations
         /\ Framed(prog, ctrl, Act, Len(ctrl), Len(stack), Len(locals))
         /\ Act.fn \in DOMAIN prog /\ ValidFunction(prog, Fn)
         /\ Act.pc \in 1 .. Len(Fn.body) /\ Len(Fn.body) \in Nat
         /\ Act.pc \in Nat /\ Act.ctrlBase \in Nat /\ Act.spBase \in Nat /\ Act.localsBase \in Nat
         /\ Len(stack) \in Nat /\ Len(ctrl) \in Nat /\ Len(locals) \in Nat
         /\ Height(Fn.body, Act.pc) \in Nat /\ Len(Open(Fn.body, Act.pc)) \in Nat
         /\ Len(ctrl) = Act.ctrlBase + Len(Open(Fn.body, Act.pc))
         /\ Len(stack) = Act.spBase + Height(Fn.body, Act.pc)
         /\ Len(locals) = Act.localsBase + Fn.params + Fn.locals
         /\ Fn.params \in Nat /\ Fn.locals \in Nat /\ Fn.results \in {0, 1}
         /\ \A j \in 1 .. Len(Open(Fn.body, Act.pc)) :
              LabelOf(ctrl[Act.ctrlBase + j], Open(Fn.body, Act.pc)[j], Act.spBase)
<1>1. acts # << >> /\ acts \in Seq(Activations) /\ Len(acts) <= Depth
  BY DEF Inv, StackTypes, Running
<1>2. Len(acts) \in Nat \ {0} /\ Act = acts[Len(acts)] /\ Act \in Activations
  BY <1>1, LastIs DEF Act
<1>3. Framed(prog, ctrl, Act, Len(ctrl), Len(stack), Len(locals))
  BY <1>1 DEF Inv, TopFramed, Act
<1>4. Act.fn \in DOMAIN prog /\ Act.pc \in 1 .. Len(Fn.body)
  BY <1>3 DEF Framed, Fn
<1>5. ValidFunction(prog, Fn)
  BY <1>4, ProgIs DEF Inv, Fn
<1>6. /\ Len(Fn.body) \in Nat /\ Height(Fn.body, Act.pc) \in Nat /\ Len(Open(Fn.body, Act.pc)) \in Nat
  BY <1>4, <1>5, TypedIs
<1>7. Fn.params \in Nat /\ Fn.locals \in Nat /\ Fn.results \in {0, 1}
  BY <1>5 DEF ValidFunction
<1>8. Act.pc \in Nat /\ Act.ctrlBase \in Nat /\ Act.spBase \in Nat /\ Act.localsBase \in Nat
  BY <1>2 DEF Activations
<1>9. Len(stack) \in Nat /\ Len(ctrl) \in Nat /\ Len(locals) \in Nat
  BY LenProperties DEF Inv, StackTypes
<1>10. /\ Len(ctrl) = Act.ctrlBase + Len(Open(Fn.body, Act.pc))
       /\ Len(stack) = Act.spBase + Height(Fn.body, Act.pc)
       /\ Len(locals) = Act.localsBase + Fn.params + Fn.locals
       /\ \A j \in 1 .. Len(Open(Fn.body, Act.pc)) :
            LabelOf(ctrl[Act.ctrlBase + j], Open(Fn.body, Act.pc)[j], Act.spBase)
  BY <1>3 DEF Framed, Fn
<1> QED
  BY <1>1, <1>2, <1>3, <1>4, <1>5, <1>6, <1>7, <1>8, <1>9, <1>10

(* The callers' labels lie below those of the running call.                *)
LEMMA CallersStay ==
  ASSUME Inv, Running, NEW c, \A j \in 1 .. Act.ctrlBase : c[j] = ctrl[j]
  PROVE  \A i \in 1 .. Len(acts) - 1 :
           Framed(prog, c, acts[i], acts[i + 1].ctrlBase,
                  acts[i + 1].spBase + prog[acts[i + 1].fn].results, acts[i + 1].localsBase)
<1> TAKE i \in 1 .. Len(acts) - 1
<1> DEFINE a == acts[i]
           end == acts[i + 1].ctrlBase
           top == acts[i + 1].spBase + prog[acts[i + 1].fn].results
           low == acts[i + 1].localsBase
           open == Open(prog[a.fn].body, a.pc)
<1>1. Len(acts) \in Nat \ {0} /\ Act = acts[Len(acts)] /\ Act.ctrlBase \in Nat
  BY Here
<1>2. i \in 1 .. Len(acts) /\ i + 1 \in 1 .. Len(acts) /\ i + 1 <= Len(acts)
  BY <1>1
<1>3. Framed(prog, ctrl, a, end, top, low)
  BY DEF Inv, CallersFramed
<1>4. a \in Activations /\ acts[i + 1] \in Activations
  BY <1>2, ElementOfSeq DEF Inv, StackTypes
<1>5. a.ctrlBase \in Nat /\ end \in Nat
  BY <1>4 DEF Activations
<1>6. end <= Act.ctrlBase
  BY <1>1, <1>2 DEF Inv, Ascending
<1>7. end = a.ctrlBase + Len(open)
  BY <1>3 DEF Framed
<1>8. a.fn \in DOMAIN prog /\ a.pc \in 1 .. Len(prog[a.fn].body)
  BY <1>3 DEF Framed
<1>9. Len(open) \in Nat
  <2>1. ValidFunction(prog, prog[a.fn])
    BY <1>8, ProgIs DEF Inv
  <2> QED
    BY <1>8, <2>1, TypedIs
<1>10. \A j \in 1 .. Len(open) : c[a.ctrlBase + j] = ctrl[a.ctrlBase + j]
  <2> HIDE DEF a, end, open
  <2> QED
    BY SMTT(30), <1>1, <1>5, <1>6, <1>7, <1>9
<1>11. \A j \in 1 .. Len(open) : LabelOf(ctrl[a.ctrlBase + j], open[j], a.spBase)
  BY <1>3 DEF Framed
<1>12. \A j \in 1 .. Len(open) : LabelOf(c[a.ctrlBase + j], open[j], a.spBase)
  <2> HIDE DEF a, open
  <2> QED
    BY <1>10, <1>11
<1>13. /\ top = a.spBase + Height(prog[a.fn].body, a.pc)
       /\ low = a.localsBase + prog[a.fn].params + prog[a.fn].locals
  BY <1>3 DEF Framed
<1> QED
  BY <1>7, <1>8, <1>12, <1>13 DEF Framed

LEMMA FailKeeps ==
  ASSUME Inv, UNCHANGED prog, NEW e, e \notin {"short", "truncated", "type"}, Fail(e)
  PROVE  Inv'
<1>1. acts' = << >> /\ reply' = e /\ UNCHANGED <<prog, stack, locals, ctrl>>
  BY DEF Fail
<1>2. StackTypes'
  <2>1. acts' \in Seq(Activations) /\ Len(acts') = 0 /\ 0 <= Depth
    BY <1>1, EmptySeq, LimitsAssumption
  <2> QED
    BY <1>1, <2>1 DEF Inv, StackTypes
<1>3. TopFramed'
  BY <1>1 DEF TopFramed
<1>4. CallersFramed' /\ Ascending'
  <2>1. Len(acts') = 0
    BY <1>1
  <2> QED
    BY <2>1 DEF CallersFramed, Ascending
<1>5. NeverMalformed'
  BY <1>1 DEF NeverMalformed
<1> QED
  BY <1>2, <1>3, <1>4, <1>5 DEF Inv

(* The running call goes on at pc, with the operands and labels validation *)
(* has there.                                                              *)
LEMMA GoesOn ==
  ASSUME Inv, Running, UNCHANGED prog, NEW pc \in 1 .. Len(Fn.body), Goto(pc),
         stack' \in Seq(Words), Len(stack') <= StackSize,
         Len(stack') = Act.spBase + Height(Fn.body, pc),
         locals' \in Seq(Words), Len(locals') = Len(locals),
         ctrl' \in Seq(LabelRecords), Len(ctrl') <= CtrlSize,
         Len(ctrl') = Act.ctrlBase + Len(Open(Fn.body, pc)),
         \A j \in 1 .. Act.ctrlBase : ctrl'[j] = ctrl[j],
         \A j \in 1 .. Len(Open(Fn.body, pc)) :
           LabelOf(ctrl'[Act.ctrlBase + j], Open(Fn.body, pc)[j], Act.spBase)
  PROVE  Inv'
<1> DEFINE n == Len(acts)
           here == [Act EXCEPT !.pc = pc]
<1>1. /\ n \in Nat \ {0} /\ n <= Depth /\ Act = acts[n] /\ Act \in Activations
      /\ acts \in Seq(Activations) /\ pc \in Nat
  <2>1. Len(Fn.body) \in Nat
    BY Here
  <2> QED
    BY <2>1, Here DEF Inv, StackTypes
<1>2. /\ here \in Activations /\ here.pc = pc /\ here.fn = Act.fn
      /\ here.ctrlBase = Act.ctrlBase /\ here.spBase = Act.spBase /\ here.localsBase = Act.localsBase
  BY <1>1 DEF Activations
<1>3. acts' = [acts EXCEPT ![n] = here] /\ reply' = reply
  BY <1>1 DEF Goto, At
<1> HIDE DEF here
<1>4. /\ acts' \in Seq(Activations) /\ Len(acts') = n /\ acts'[n] = here
      /\ \A i \in 1 .. n - 1 : acts'[i] = acts[i]
  <2> HIDE DEF n
  <2>1. n \in 1 .. Len(acts)
    BY <1>1 DEF n
  <2>2. /\ acts' \in Seq(Activations) /\ Len(acts') = Len(acts)
        /\ \A j \in 1 .. Len(acts) : acts'[j] = IF j = n THEN here ELSE acts[j]
    BY <1>1, <1>2, <1>3, <2>1, ExceptSeq
  <2>3. n = Len(acts)
    BY DEF n
  <2>4. Len(acts') = n /\ \A j \in 1 .. n : acts'[j] = IF j = n THEN here ELSE acts[j]
    BY <2>2, <2>3
  <2>5. n \in 1 .. n /\ \A i \in 1 .. n - 1 : i \in 1 .. n /\ i # n
    BY <1>1
  <2> QED
    BY <2>2, <2>4, <2>5
<1>5. \A i \in 1 .. n : /\ acts'[i].fn = acts[i].fn /\ acts'[i].ctrlBase = acts[i].ctrlBase
                        /\ acts'[i].spBase = acts[i].spBase /\ acts'[i].localsBase = acts[i].localsBase
  <2> HIDE DEF n
  <2> TAKE i \in 1 .. n
  <2>1. CASE i = n
    BY <1>1, <1>2, <1>4, <2>1
  <2>2. CASE i # n
    <3>1. acts'[i] = acts[i]
      BY <1>1, <1>4, <2>2
    <3> QED
      BY <3>1
  <2> QED
    BY <2>1, <2>2
<1>6. StackTypes'
  BY <1>1, <1>4 DEF Inv, StackTypes
<1>7. TopFramed'
  <2>1. Last(acts') = here
    BY <1>1, <1>4 DEF Last
  <2>2. Act.fn \in DOMAIN prog /\ Len(locals) = Act.localsBase + Fn.params + Fn.locals
    BY Here
  <2>3. Framed(prog, ctrl', here, Len(ctrl'), Len(stack'), Len(locals'))
    BY <1>2, <2>2 DEF Framed, Fn
  <2> QED
    BY <2>1, <2>3 DEF TopFramed
<1>8. CallersFramed'
  <2>1. \A i \in 1 .. n - 1 :
          Framed(prog, ctrl', acts[i], acts[i + 1].ctrlBase,
                 acts[i + 1].spBase + prog[acts[i + 1].fn].results, acts[i + 1].localsBase)
    BY CallersStay
  <2>2. \A i \in 1 .. n - 1 : i \in 1 .. n /\ i + 1 \in 1 .. n
    BY <1>1
  <2> QED
    BY <1>4, <1>5, <2>1, <2>2 DEF CallersFramed
<1>9. Ascending'
  BY <1>4, <1>5 DEF Inv, Ascending
<1>10. NeverMalformed'
  BY <1>3 DEF Inv, NeverMalformed
<1> QED
  BY <1>6, <1>7, <1>8, <1>9, <1>10 DEF Inv

(* An instruction inside its block: not the last, and it opens and closes  *)
(* none.                                                                   *)
LEMMA NextIs ==
  ASSUME Inv, Running, ~Closes(Fn.body, Act.pc)
  PROVE  /\ Act.pc \in 1 .. Len(Fn.body) - 1 /\ Next1 \in 1 .. Len(Fn.body)
         /\ Height(Fn.body, Next1) \in Nat
         /\ ~Opens(Fn.body, Act.pc) /\ Instr.op # "else" =>
              Open(Fn.body, Next1) = Open(Fn.body, Act.pc)
<1>1. /\ ValidFunction(prog, Fn) /\ Act.pc \in 1 .. Len(Fn.body) /\ Len(Fn.body) \in Nat
  BY Here
<1>2. EndsWell(Fn, Act.pc)
  BY <1>1 DEF ValidFunction
<1>3. Act.pc # Len(Fn.body)
  BY <1>2 DEF EndsWell
<1>4. Act.pc \in 1 .. Len(Fn.body) - 1 /\ Next1 \in 1 .. Len(Fn.body)
  BY <1>1, <1>3 DEF Next1
<1>5. ~Opens(Fn.body, Act.pc) /\ Instr.op # "else" => Open(Fn.body, Next1) = Open(Fn.body, Act.pc)
  BY <1>1, <1>4, NextOpen DEF Instr, Next1
<1> QED
  BY <1>1, <1>4, <1>5, TypedIs

LEMMA PopPushKeeps ==
  ASSUME Inv, Running, UNCHANGED prog,
         ~Opens(Fn.body, Act.pc), ~Closes(Fn.body, Act.pc), Instr.op # "else",
         NEW n \in Nat, NEW out \in Seq(Words), Goes(Fn.body, Act.pc, n, Len(out)), PopPush(n, out)
  PROVE  Inv'
<1> DEFINE h == Height(Fn.body, Act.pc)
           next == Height(Fn.body, Next1)
           o == Open(Fn.body, Act.pc)
<1>1. /\ Next1 \in 1 .. Len(Fn.body) /\ Open(Fn.body, Next1) = o
  BY NextIs
<1>2. /\ h \in Nat /\ Act.spBase \in Nat /\ Len(stack) = Act.spBase + h /\ Len(out) \in Nat
      /\ Len(stack) \in Nat /\ stack \in Seq(Words)
  BY Here, LenProperties DEF Inv, StackTypes
<1>3. h >= n /\ next = h - n + Len(out)
  <2>1. Floor(Fn.body, Act.pc) \in Nat
    BY Here, FloorIs
  <2> QED
    BY <1>2, <2>1 DEF Goes, Enough, Next1
<1>4. ~(Len(stack) < n)
  BY <1>2, <1>3
<1>5. CASE Len(stack) - n + Len(out) > StackSize
  BY <1>4, <1>5, FailKeeps DEF PopPush
<1>6. CASE ~(Len(stack) - n + Len(out) > StackSize)
  <2>1. stack' = Without(stack, n) \o out /\ Goto(Next1) /\ UNCHANGED <<locals, ctrl>>
    BY <1>4, <1>6 DEF PopPush
  <2> DEFINE rest == Without(stack, n)
  <2>2. rest \in Seq(Words) /\ Len(rest) = Len(stack) - n
    BY <1>2, <1>4, SubSeqProperties DEF Without
  <2> HIDE DEF rest
  <2>3. stack' \in Seq(Words) /\ Len(stack') = Len(rest) + Len(out)
    BY <2>1, <2>2, ConcatProperties DEF rest
  <2>4. Len(stack') <= StackSize /\ Len(stack') = Act.spBase + next
    <3>1. Len(stack') = Len(stack) - n + Len(out)
      BY <2>2, <2>3
    <3> HIDE DEF next, h
    <3>2. StackSize \in Nat
      BY LimitsAssumption
    <3> DEFINE a == Len(stack)
               b == Len(out)
               t == Len(stack')
               sb == Act.spBase
    <3>3. a \in Nat /\ b \in Nat /\ sb \in Nat /\ h \in Nat /\ a = sb + h /\ h >= n /\ next = h - n + b
      BY <1>2, <1>3
    <3>4. t = a - n + b /\ ~(a - n + b > StackSize)
      BY <1>6, <3>1
    <3> HIDE DEF a, b, t, sb
    <3>5. t <= StackSize /\ t = sb + next
      BY <3>2, <3>3, <3>4
    <3> QED
      BY <3>5 DEF t, sb
  <2>5. /\ locals' \in Seq(Words) /\ Len(locals') = Len(locals)
        /\ ctrl' \in Seq(LabelRecords) /\ Len(ctrl') <= CtrlSize
    BY <2>1 DEF Inv, StackTypes
  <2>6. /\ Len(ctrl') = Act.ctrlBase + Len(o) /\ \A j \in 1 .. Act.ctrlBase : ctrl'[j] = ctrl[j]
        /\ \A j \in 1 .. Len(o) : LabelOf(ctrl'[Act.ctrlBase + j], o[j], Act.spBase)
    BY <2>1, Here
  <2> QED
    BY <1>1, <2>1, <2>3, <2>4, <2>5, <2>6, GoesOn
<1> QED
  BY <1>5, <1>6

(* A block begins, and the call goes on at pc inside it.                   *)
LEMMA LabelledKeeps ==
  ASSUME Inv, Running, UNCHANGED prog,
         NEW ops \in Seq(Words), NEW isLoop \in BOOLEAN, NEW cont \in Nat, NEW arity \in {0, 1},
         NEW pc \in 1 .. Len(Fn.body), Len(ops) <= StackSize,
         Len(ops) = Act.spBase + Height(Fn.body, pc),
         Len(Open(Fn.body, pc)) = Len(Open(Fn.body, Act.pc)) + 1,
         \A j \in 1 .. Len(Open(Fn.body, Act.pc)) : Open(Fn.body, pc)[j] = Open(Fn.body, Act.pc)[j],
         LabelOf([isLoop |-> isLoop, cont |-> cont, arity |-> arity, sp |-> Len(ops)],
                 Open(Fn.body, pc)[Len(Open(Fn.body, pc))], Act.spBase),
         Labelled(ops, isLoop, cont, arity, pc)
  PROVE  Inv'
<1> DEFINE o == Open(Fn.body, Act.pc)
           in == Open(Fn.body, pc)
           lab == [isLoop |-> isLoop, cont |-> cont, arity |-> arity, sp |-> Len(ops)]
<1>1. CASE Len(ctrl) >= CtrlSize
  BY <1>1, FailKeeps DEF Labelled
<1>2. CASE ~(Len(ctrl) >= CtrlSize)
  <2>1. ctrl' = Append(ctrl, lab) /\ stack' = ops /\ Goto(pc) /\ UNCHANGED locals
    BY <1>2 DEF Labelled
  <2>2. lab \in LabelRecords
    <3>1. Len(ops) \in Nat
      BY LenProperties
    <3> QED
      BY <3>1 DEF LabelRecords
  <2>3. LabelOf(lab, in[Len(in)], Act.spBase)
    OBVIOUS
  <2>4. /\ Len(ctrl) \in Nat /\ Act.ctrlBase \in Nat /\ Len(o) \in Nat
        /\ Len(ctrl) = Act.ctrlBase + Len(o)
        /\ \A j \in 1 .. Len(o) : LabelOf(ctrl[Act.ctrlBase + j], o[j], Act.spBase)
    BY Here
  <2>5. ctrl \in Seq(LabelRecords) /\ locals \in Seq(Words)
    BY DEF Inv, StackTypes
  <2> HIDE DEF lab
  <2>6. /\ ctrl' \in Seq(LabelRecords) /\ Len(ctrl') = Len(ctrl) + 1 /\ ctrl'[Len(ctrl) + 1] = lab
        /\ \A j \in 1 .. Len(ctrl) : ctrl'[j] = ctrl[j]
    BY <2>1, <2>2, <2>5, AppendProperties
  <2>7. Len(ctrl') <= CtrlSize
    <3>1. CtrlSize \in Nat
      BY LimitsAssumption
    <3> QED
      BY <1>2, <2>4, <2>6, <3>1
  <2>8. Len(in) = Len(o) + 1 /\ \A j \in 1 .. Len(o) : in[j] = o[j]
    OBVIOUS
  <2>9. Len(stack') = Act.spBase + Height(Fn.body, pc) /\ Len(stack') <= StackSize /\ stack' \in Seq(Words)
    BY <2>1
  <2> HIDE DEF o, in
  <2>10. Len(ctrl') = Act.ctrlBase + Len(in) /\ \A j \in 1 .. Act.ctrlBase : ctrl'[j] = ctrl[j]
    <3>1. Len(ctrl') = Act.ctrlBase + Len(in)
      <4>1. Len(ctrl') = Len(ctrl) + 1 /\ Len(in) = Len(o) + 1 /\ Len(ctrl) = Act.ctrlBase + Len(o)
        BY <2>4, <2>6, <2>8
      <4>2. Act.ctrlBase \in Nat /\ Len(o) \in Nat
        BY <2>4
      <4> QED
        BY SMTT(30), <4>1, <4>2
    <3>2. \A j \in 1 .. Act.ctrlBase : j \in 1 .. Len(ctrl)
      BY <2>4
    <3> QED
      BY <2>6, <3>1, <3>2
  <2>11. \A j \in 1 .. Len(in) : LabelOf(ctrl'[Act.ctrlBase + j], in[j], Act.spBase)
    <3> TAKE j \in 1 .. Len(in)
    <3>1. CASE j = Len(in)
      <4>1. Act.ctrlBase + j = Len(ctrl) + 1
        BY SMTT(30), <2>4, <2>8, <3>1
      <4> QED
        BY <2>3, <2>6, <3>1, <4>1
    <3>2. CASE j # Len(in)
      <4>1. j \in 1 .. Len(o) /\ Act.ctrlBase + j \in 1 .. Len(ctrl)
        BY SMTT(30), <2>4, <2>8, <3>2
      <4> QED
        BY <2>4, <2>6, <2>8, <4>1
    <3> QED
      BY <3>1, <3>2
  <2> QED
    BY <2>1, <2>5, <2>6, <2>7, <2>9, <2>10, <2>11, GoesOn DEF in
<1> QED
  BY <1>1, <1>2

(* The running call ends, with n operands of which its results are the     *)
(* topmost.                                                                *)
LEMMA UnwindKeeps ==
  ASSUME Inv, Running, UNCHANGED prog,
         NEW ops \in Seq(Words), Len(ops) <= StackSize, Len(ops) >= Act.spBase + Fn.results,
         Unwind(ops)
  PROVE  Inv'
<1> DEFINE n == Len(acts)
           low == SubSeq(ops, 1, Act.spBase)
           res == LastOf(ops, Fn.results)
<1>1. /\ n \in Nat \ {0} /\ n <= Depth /\ Act = acts[n] /\ acts \in Seq(Activations)
      /\ Act.ctrlBase \in Nat /\ Act.spBase \in Nat /\ Act.localsBase \in Nat /\ Fn.results \in {0, 1}
      /\ Len(ctrl) \in Nat /\ Len(locals) \in Nat
      /\ Act.ctrlBase <= Len(ctrl) /\ Act.localsBase <= Len(locals)
  <2>1. acts \in Seq(Activations)
    BY DEF Inv, StackTypes
  <2>2. /\ Len(Open(Fn.body, Act.pc)) \in Nat /\ Len(ctrl) = Act.ctrlBase + Len(Open(Fn.body, Act.pc))
        /\ Len(locals) = Act.localsBase + Fn.params + Fn.locals /\ Fn.params \in Nat /\ Fn.locals \in Nat
        /\ Act.ctrlBase \in Nat /\ Act.localsBase \in Nat
    BY Here
  <2>3. Act.ctrlBase <= Len(ctrl) /\ Act.localsBase <= Len(locals)
    BY <2>2
  <2> QED
    BY <2>1, <2>3, Here
<1>2. Len(ops) \in Nat
  BY LenProperties
<1>3. ~(Fn.results > 0 /\ Len(ops) <= Act.spBase)
  BY <1>1, <1>2
<1>4. /\ stack' = low \o res
      /\ locals' = SubSeq(locals, 1, Act.localsBase) /\ ctrl' = SubSeq(ctrl, 1, Act.ctrlBase)
      /\ acts' = Front(acts) /\ reply' = IF Len(acts) = 1 THEN "ok" ELSE reply
  BY <1>3 DEF Unwind
<1>5. low \in Seq(Words) /\ Len(low) = Act.spBase
  BY <1>1, <1>2, SubSeqProperties
<1>6. res \in Seq(Words) /\ Len(res) = Fn.results
  <2>1. Fn.results \in Nat /\ Fn.results <= Len(ops)
    BY <1>1, <1>2
  <2> QED
    BY <2>1, SplitAt
<1> HIDE DEF low, res
<1>7. stack' \in Seq(Words) /\ Len(stack') = Act.spBase + Fn.results
  BY SMTT(30), <1>4, <1>5, <1>6, ConcatProperties
<1>8. /\ ctrl' \in Seq(LabelRecords) /\ Len(ctrl') = Act.ctrlBase
      /\ \A j \in 1 .. Act.ctrlBase : ctrl'[j] = ctrl[j]
      /\ locals' \in Seq(Words) /\ Len(locals') = Act.localsBase
  <2>1. ctrl \in Seq(LabelRecords) /\ locals \in Seq(Words)
    BY DEF Inv, StackTypes
  <2>2. /\ SubSeq(ctrl, 1, Act.ctrlBase) \in Seq(LabelRecords)
        /\ Len(SubSeq(ctrl, 1, Act.ctrlBase)) = Act.ctrlBase
        /\ \A j \in 1 .. Act.ctrlBase : SubSeq(ctrl, 1, Act.ctrlBase)[j] = ctrl[j]
    BY <1>1, <2>1, SubSeqProperties
  <2>3. /\ SubSeq(locals, 1, Act.localsBase) \in Seq(Words)
        /\ Len(SubSeq(locals, 1, Act.localsBase)) = Act.localsBase
    BY <1>1, <2>1, SubSeqProperties
  <2> QED
    BY <1>4, <2>2, <2>3
<1>9. /\ acts' \in Seq(Activations) /\ Len(acts') = n - 1 /\ \A j \in 1 .. n - 1 : acts'[j] = acts[j]
  <2>1. acts # << >>
    BY DEF Running
  <2> QED
    BY <1>1, <1>4, <2>1, LastIs
<1>10. StackTypes'
  <2>1. prog' \in Programs /\ Len(ctrl) <= CtrlSize /\ Len(locals) <= LocalsSize
    BY DEF Inv, StackTypes
  <2>2. Len(stack') <= StackSize
    BY <1>1, <1>2, <1>7, LimitsAssumption
  <2>3. Len(ctrl') <= CtrlSize /\ Len(locals') <= LocalsSize /\ Len(acts') <= Depth
    BY SMTT(30), <1>1, <1>8, <1>9, <2>1, LimitsAssumption
  <2> QED
    BY <1>7, <1>8, <1>9, <2>1, <2>2, <2>3 DEF StackTypes
<1>11. \A i \in 1 .. n - 1 :
         Framed(prog, ctrl', acts[i], acts[i + 1].ctrlBase,
                acts[i + 1].spBase + prog[acts[i + 1].fn].results, acts[i + 1].localsBase)
  BY <1>8, CallersStay
<1>12. TopFramed'
  <2>1. SUFFICES ASSUME acts' # << >>
                 PROVE  Framed(prog, ctrl', Last(acts'), Len(ctrl'), Len(stack'), Len(locals'))
    BY DEF TopFramed
  <2>2. n - 1 \in 1 .. n - 1 /\ Last(acts') = acts[n - 1] /\ n - 1 + 1 = n
    <3>1. Len(acts') # 0
      BY <1>9, <2>1, EmptySeq
    <3> QED
      BY <1>1, <1>9, <3>1 DEF Last
  <2>3. Framed(prog, ctrl', acts[n - 1], Act.ctrlBase, Act.spBase + Fn.results, Act.localsBase)
    BY <1>1, <1>11, <2>2 DEF Fn
  <2> QED
    BY <1>7, <1>8, <2>2, <2>3
<1>13. CallersFramed'
  <2>1. \A i \in 1 .. Len(acts') - 1 : i \in 1 .. n - 1 /\ i + 1 \in 1 .. n - 1
    BY <1>1, <1>9
  <2> QED
    BY <1>9, <1>11, <2>1 DEF CallersFramed
<1>14. Ascending'
  <2>1. \A i \in 1 .. Len(acts') : i \in 1 .. n
    BY <1>1, <1>9
  <2> QED
    BY <1>9, <2>1 DEF Inv, Ascending
<1>15. NeverMalformed'
  BY <1>4 DEF Inv, NeverMalformed
<1> QED
  BY <1>10, <1>12, <1>13, <1>14, <1>15 DEF Inv

(* The running call goes on at pc, with the outermost k of its blocks.     *)
LEMMA LandsKeeps ==
  ASSUME Inv, Running, UNCHANGED <<prog, locals>>,
         NEW k \in 0 .. Len(Open(Fn.body, Act.pc)), NEW pc \in 1 .. Len(Fn.body), Goto(pc),
         Len(Open(Fn.body, pc)) = k,
         \A j \in 1 .. k : Open(Fn.body, pc)[j] = Open(Fn.body, Act.pc)[j],
         ctrl' = SubSeq(ctrl, 1, Act.ctrlBase + k),
         stack' \in Seq(Words), Len(stack') <= StackSize,
         Len(stack') = Act.spBase + Height(Fn.body, pc)
  PROVE  Inv'
<1> DEFINE o == Open(Fn.body, Act.pc)
           m == Act.ctrlBase + k
<1>1. /\ Act.ctrlBase \in Nat /\ Len(ctrl) \in Nat /\ Len(o) \in Nat
      /\ Len(ctrl) = Act.ctrlBase + Len(o)
      /\ \A j \in 1 .. Len(o) : LabelOf(ctrl[Act.ctrlBase + j], o[j], Act.spBase)
  BY Here
<1>2. k \in Nat /\ k <= Len(o) /\ m \in Nat /\ m <= Len(ctrl)
  <2>1. k \in Nat /\ k <= Len(o)
    BY <1>1
  <2> HIDE DEF o
  <2> QED
    BY <1>1, <2>1
<1>3. ctrl \in Seq(LabelRecords) /\ Len(ctrl) <= CtrlSize /\ locals \in Seq(Words)
  BY DEF Inv, StackTypes
<1>4. ctrl' \in Seq(LabelRecords) /\ Len(ctrl') = m /\ \A j \in 1 .. m : ctrl'[j] = ctrl[j]
  <2>1. ctrl' = SubSeq(ctrl, 1, m)
    OBVIOUS
  <2> HIDE DEF m
  <2>2. \A j \in 1 .. m : ctrl[j] \in LabelRecords
    BY <1>1, <1>2, <1>3, ElementOfSeq
  <2>3. /\ SubSeq(ctrl, 1, m) \in Seq(LabelRecords)
        /\ Len(SubSeq(ctrl, 1, m)) = IF 1 <= m THEN m - 1 + 1 ELSE 0
        /\ \A j \in 1 .. m - 1 + 1 : SubSeq(ctrl, 1, m)[j] = ctrl[1 + j - 1]
    BY <1>2, <2>2, SubSeqProperties
  <2>4. Len(SubSeq(ctrl, 1, m)) = m
    BY <1>2, <2>3
  <2>5. \A j \in 1 .. m : SubSeq(ctrl, 1, m)[j] = ctrl[j]
    BY <1>2, <2>3
  <2> QED
    BY <2>1, <2>3, <2>4, <2>5
<1>5. Len(ctrl') <= CtrlSize
  <2>1. CtrlSize \in Nat
    BY LimitsAssumption
  <2> HIDE DEF m
  <2> QED
    BY <1>1, <1>2, <1>3, <1>4, <2>1
<1>6. \A j \in 1 .. Act.ctrlBase : ctrl'[j] = ctrl[j]
  <2>1. \A j \in 1 .. Act.ctrlBase : j \in 1 .. m
    BY <1>1, <1>2
  <2> QED
    BY <1>4, <2>1
<1>7. \A j \in 1 .. Len(Open(Fn.body, pc)) :
        LabelOf(ctrl'[Act.ctrlBase + j], Open(Fn.body, pc)[j], Act.spBase)
  <2> TAKE j \in 1 .. Len(Open(Fn.body, pc))
  <2>1. j \in 1 .. k
    OBVIOUS
  <2>2. j \in 1 .. Len(o) /\ Act.ctrlBase + j \in 1 .. m
    BY SMTT(30), <1>1, <1>2, <2>1
  <2>3. ctrl'[Act.ctrlBase + j] = ctrl[Act.ctrlBase + j]
    BY <1>4, <2>2
  <2>4. Open(Fn.body, pc)[j] = o[j]
    BY <2>1
  <2> QED
    BY <1>1, <2>2, <2>3, <2>4
<1>8. Len(ctrl') = Act.ctrlBase + Len(Open(Fn.body, pc))
  BY <1>4
<1>9. locals' \in Seq(Words) /\ Len(locals') = Len(locals)
  BY <1>3
<1> QED
  BY <1>4, <1>5, <1>6, <1>7, <1>8, <1>9, GoesOn

LEMMA UnstackedIs ==
  ASSUME NEW ops \in Seq(Words), NEW lab \in LabelRecords, lab.sp + lab.arity <= Len(ops)
  PROVE  /\ Unstacked(ops, lab) \in Seq(Words)
         /\ Len(Unstacked(ops, lab)) = lab.sp + lab.arity
<1>1. lab.sp \in Nat /\ lab.arity \in Nat /\ Len(ops) \in Nat
  BY LenProperties DEF LabelRecords
<1>2. lab.sp <= Len(ops) /\ lab.arity <= Len(ops) /\ Len(ops) - lab.sp \in Nat
      /\ Len(ops) - (Len(ops) - lab.sp) = lab.sp /\ Len(ops) - lab.sp <= Len(ops)
  BY <1>1
<1> DEFINE low == SubSeq(ops, 1, lab.sp)
           top == LastOf(ops, lab.arity)
<1>3. low \in Seq(Words) /\ Len(low) = lab.sp
  <2> DEFINE d == Len(ops) - lab.sp
  <2>1. low = Without(ops, d)
    BY <1>2 DEF Without
  <2> HIDE DEF d, low
  <2>2. d \in Nat /\ d <= Len(ops) /\ Len(ops) - d = lab.sp
    BY <1>2 DEF d
  <2> QED
    BY <2>1, <2>2, SplitAt
<1>4. top \in Seq(Words) /\ Len(top) = lab.arity
  BY <1>1, <1>2, SplitAt
<1>5. Unstacked(ops, lab) = low \o top
  BY DEF Unstacked
<1> HIDE DEF low, top
<1>6. low \o top \in Seq(Words) /\ Len(low \o top) = Len(low) + Len(top)
  BY <1>3, <1>4, ConcatProperties
<1> QED
  BY <1>3, <1>4, <1>5, <1>6

(* A branch of l levels, n operands having been taken.                     *)
LEMMA JumpKeeps ==
  ASSUME Inv, Running, UNCHANGED prog,
         ~Opens(Fn.body, Act.pc), ~Closes(Fn.body, Act.pc), Instr.op # "else",
         NEW n \in Nat, NEW l, Branches(Fn, Act.pc, l, n),
         NEW ops \in Seq(Words), Len(ops) = Len(stack) - n, Jump(l, ops)
  PROVE  Inv'
<1> DEFINE body == Fn.body
           o == Open(body, Act.pc)
           m == Len(o)
           h == Height(body, Act.pc)
           cb == Act.ctrlBase
           sb == Act.spBase
           c == Len(ctrl)
           s == Len(stack)
           t == Len(ops)
           res == Fn.results
           floor == Floor(body, Act.pc)
           carried == Carried(Fn, Act.pc, l)
           k == m - l
           lab == Label(l)
<1>1. /\ ValidFunction(prog, Fn) /\ Act.pc \in 1 .. Len(body)
      /\ \A j \in 1 .. m : LabelOf(ctrl[cb + j], o[j], sb)
  BY Here
<1>2. /\ m \in Nat /\ h \in Nat /\ cb \in Nat /\ sb \in Nat /\ c \in Nat /\ s \in Nat /\ t \in Nat
      /\ res \in {0, 1} /\ c = cb + m /\ s = sb + h /\ t = s - n
  BY Here, LenProperties
<1>3. /\ floor \in Nat /\ (o # << >> => floor = o[m].base)
      /\ \A j \in 1 .. m :
           /\ o[j].base \in Nat /\ o[j].at \in 1 .. Len(body) /\ o[j].arity \in {0, 1}
           /\ o[j].op \in {"block", "loop", "if", "else"}
  BY <1>1, FloorIs
<1>4. l \in 0 .. m /\ h >= floor + (n + carried)
  BY DEF Branches, Enough
<1>5. Labels = m
  <2>1. Labels = c - cb
    BY DEF Labels
  <2> HIDE DEF c, cb, m, s, sb, t, h, res
  <2> QED
    BY <1>2, <2>1
<1>6. Next1 \in 1 .. Len(body) /\ Open(body, Next1) = o
  BY NextIs
<1>7. s <= StackSize /\ StackSize \in Nat /\ locals \in Seq(Words) /\ ctrl \in Seq(LabelRecords)
  BY LimitsAssumption DEF Inv, StackTypes
<1>8. t <= StackSize
  <2>1. s <= StackSize /\ StackSize \in Nat
    BY <1>7
  <2> HIDE DEF c, cb, m, s, sb, t, h, res
  <2> QED
    BY <1>2, <2>1
<1>9. CASE l >= Labels
  <2>1. l = m
    <3> HIDE DEF c, cb, m, s, sb, t, h, res, floor, carried
    <3> QED
      BY <1>2, <1>4, <1>5, <1>9
  <2>2. carried = res
    BY <2>1 DEF Carried
  <2>3. t >= sb + res
    <3>1. floor \in Nat
      BY <1>3
    <3> HIDE DEF c, cb, m, s, sb, t, h, res, floor, carried
    <3> QED
      BY <1>2, <1>4, <2>2, <3>1
  <2>4. Unwind(ops)
    BY <1>9 DEF Jump
  <2> QED
    BY <1>8, <2>3, <2>4, UnwindKeeps
<1>10. CASE ~(l >= Labels)
  <2>1. l \in Nat /\ l < m /\ l # m /\ k \in 1 .. m /\ c - l = cb + k /\ cb + k \in 1 .. c
    <3> HIDE DEF c, cb, m, s, sb, t, h, res, floor, carried
    <3> QED
      BY <1>2, <1>4, <1>5, <1>10
  <2>2. lab = ctrl[cb + k] /\ LabelOf(lab, o[k], sb) /\ lab \in LabelRecords
    <3>1. lab = ctrl[cb + k]
      BY <2>1 DEF Label
    <3>2. lab \in LabelRecords
      <4>1. cb + k \in 1 .. Len(ctrl)
        BY <2>1
      <4> HIDE DEF k, lab, cb
      <4> QED
        BY <1>7, <3>1, <4>1, ElementOfSeq
    <3>3. LabelOf(ctrl[cb + k], o[k], sb)
      BY <1>1, <2>1
    <3> QED
      BY <3>1, <3>2, <3>3
  <2> DEFINE block == o[k]
             base == block.base
             sp == lab.sp
             arity == lab.arity
  <2>3. /\ base \in Nat /\ block.at \in 1 .. Len(body) /\ sp \in Nat /\ arity \in {0, 1}
        /\ block.arity \in {0, 1}
    BY SMTT(30), <1>3, <2>1, <2>2 DEF LabelRecords
  <2>4. carried = IF block.op = "loop" THEN 0 ELSE block.arity
    BY <2>1 DEF Carried
  <2>5. /\ arity = carried /\ sp = sb + base /\ (lab.isLoop <=> block.op = "loop")
        /\ (lab.isLoop => lab.cont = block.at)
    <3>1. LabelOf(lab, block, sb)
      BY <2>2
    <3> HIDE DEF lab, carried, block, sb
    <3> QED
      BY <2>4, <3>1 DEF LabelOf
  <2>6. base <= floor /\ WellOpen(body, Act.pc)
    <3>1. WellOpen(body, Act.pc)
      BY <1>1, AllWellOpen
    <3>2. \A i, j \in 1 .. m : i <= j => o[i].base <= o[j].base
      BY <3>1 DEF WellOpen
    <3>3. k <= m /\ m \in 1 .. m /\ m # 0
      <4> HIDE DEF m, c, cb
      <4> QED
        BY <1>2, <2>1
    <3>4. base <= o[m].base
      <4> HIDE DEF m, o, k
      <4> QED
        BY <2>1, <3>2, <3>3 DEF block, base
    <3>5. o # << >>
      BY <3>3
    <3> QED
      BY <1>3, <3>1, <3>4, <3>5
  <2>7. sp + arity <= t
    <3>1. floor \in Nat /\ base <= floor
      BY <1>3, <2>6
    <3>2. base \in Nat /\ sp \in Nat /\ arity \in {0, 1} /\ arity = carried /\ sp = sb + base
      BY <2>3, <2>5
    <3> HIDE DEF c, cb, m, s, sb, t, h, res, floor, carried, base, sp, arity
    <3> QED
      BY <1>2, <1>4, <3>1, <3>2
  <2> DEFINE new == Unstacked(ops, lab)
             dst == BranchTarget(body, Next1, l)
  <2>8. new \in Seq(Words) /\ Len(new) = sp + arity
    BY <2>2, <2>7, UnstackedIs
  <2>9. ~(t < arity) /\ sp + arity <= StackSize
    <3>1. StackSize \in Nat /\ sp \in Nat /\ arity \in {0, 1}
      BY <1>7, <2>3
    <3> HIDE DEF c, cb, m, s, sb, t, h, res, sp, arity
    <3> QED
      BY <1>2, <1>8, <2>7, <3>1
  <2>10. Len(new) <= StackSize
    <3> HIDE DEF new, sp, arity
    <3> QED
      BY <2>8, <2>9
  <2>11. CASE lab.isLoop
    <3>1. /\ stack' = new /\ ctrl' = SubSeq(ctrl, 1, c - l)
          /\ Goto(lab.cont) /\ UNCHANGED locals
      BY <1>10, <2>9, <2>11 DEF Jump
    <3>2. lab.cont = block.at /\ block.op = "loop" /\ arity = 0
      BY <2>4, <2>5, <2>11
    <3> DEFINE pc == block.at
    <3>3. pc \in 1 .. Len(body) /\ Open(body, pc) = SubSeq(o, 1, k) /\ Height(body, pc) = base
      <4>1. Open(body, pc) = SubSeq(o, 1, k) /\ Height(body, pc) = base
        BY <2>1, <2>6, <3>2 DEF WellOpen
      <4> QED
        BY <2>3, <4>1
    <3>4. Len(Open(body, pc)) = k /\ \A j \in 1 .. k : Open(body, pc)[j] = o[j]
      <4>1. k \in 1 .. Len(o) /\ Len(o) \in Nat
        BY <1>2, <2>1
      <4> HIDE DEF o, k
      <4>2. SubSeq(o, 1, k) = [j \in 1 .. k |-> o[j]]
        BY <4>1
      <4>3. Len(SubSeq(o, 1, k)) = k /\ \A j \in 1 .. k : SubSeq(o, 1, k)[j] = o[j]
        BY <4>1, <4>2
      <4> HIDE DEF pc, body
      <4> QED
        BY <3>3, <4>3
    <3>5. Len(stack') = sb + Height(body, pc)
      <4>1. Len(stack') = sp + arity /\ sp = sb + base
        BY <2>5, <2>8, <3>1
      <4> HIDE DEF sp, arity, base, sb, pc, body
      <4> QED
        BY <1>2, <2>3, <3>2, <3>3, <4>1
    <3>6. ctrl' = SubSeq(ctrl, 1, cb + k) /\ Goto(pc)
      BY <2>1, <3>1, <3>2
    <3>7. k \in 0 .. m
      <4> HIDE DEF m, k
      <4> QED
        BY <1>2, <2>1
    <3>8. stack' \in Seq(Words) /\ Len(stack') <= StackSize
      BY <2>8, <2>10, <3>1
    <3> HIDE DEF pc, k, new
    <3> QED
      BY <3>1, <3>3, <3>4, <3>5, <3>6, <3>7, <3>8, LandsKeeps
  <2>12. CASE ~lab.isLoop
    <3>1. Landed(body, o, k, dst)
      <4>1. l < Len(Open(body, Next1))
        BY <1>6, <2>1
      <4>2. Landed(body, Open(body, Next1), Len(Open(body, Next1)) - l, dst)
        BY <1>1, <1>6, <2>1, <4>1, TargetFound
      <4> QED
        BY <1>6, <4>2
    <3>2. /\ dst \in 1 .. Len(body) /\ Len(Open(body, dst)) = k - 1
          /\ \A j \in 1 .. k - 1 : Open(body, dst)[j] = o[j]
          /\ Height(body, dst) = base + block.arity
      <4> HIDE DEF dst, o, k, body
      <4> QED
        BY <3>1 DEF Landed
    <3>3. dst # 0
      BY <3>2
    <3>4. /\ stack' = new /\ ctrl' = SubSeq(ctrl, 1, c - l - 1)
          /\ Goto(dst) /\ UNCHANGED locals
      BY <1>10, <2>9, <2>12, <3>3 DEF Jump
    <3>5. arity = block.arity
      BY <2>4, <2>5, <2>12
    <3>6. Len(stack') = sb + Height(body, dst)
      <4>1. Len(stack') = sp + arity /\ sp = sb + base /\ Height(body, dst) = base + arity
        BY <2>5, <2>8, <3>2, <3>4, <3>5
      <4> HIDE DEF sp, arity, base, sb, dst, body
      <4> QED
        BY <1>2, <2>3, <4>1
    <3>7. ctrl' = SubSeq(ctrl, 1, cb + (k - 1)) /\ k - 1 \in 0 .. m
      <4>1. c - l - 1 = cb + (k - 1) /\ k - 1 \in 0 .. m
        <5> HIDE DEF m, c, cb, k, s, sb, t, h, res
        <5> QED
          BY <1>2, <1>4, <2>1
      <4> QED
        BY <3>4, <4>1
    <3>8. stack' \in Seq(Words) /\ Len(stack') <= StackSize
      BY <2>8, <2>10, <3>4
    <3> HIDE DEF dst, k, new
    <3> QED
      BY <3>2, <3>4, <3>6, <3>7, <3>8, LandsKeeps
  <2> QED
    BY <2>11, <2>12
<1> QED
  BY <1>9, <1>10

(* A call: its arguments become locals, and the caller is left where it    *)
(* goes on once the results are there.                                     *)
LEMMA CallKeeps ==
  ASSUME Inv, Call
  PROVE  Inv'
<1> DEFINE n == Len(acts)
           f == Instr.arg
           params == prog[f].params
           extra == prog[f].locals
           results == prog[f].results
           c == Len(ctrl)
           s == Len(stack)
           base == Len(locals)
           cb == Act.ctrlBase
           sb == Act.spBase
           lb == Act.localsBase
           h == Height(Fn.body, Act.pc)
           next == Height(Fn.body, Next1)
           there == [Act EXCEPT !.pc = Next1]
           new == [fn |-> f, pc |-> 1, localsBase |-> base, ctrlBase |-> c, spBase |-> s - params]
<1>1. Running /\ Instr.op = "call" /\ UNCHANGED prog
  BY DEF Call, Runs
<1>2. /\ ValidFunction(prog, Fn) /\ Act.pc \in 1 .. Len(Fn.body)
      /\ n \in Nat \ {0} /\ Act = acts[n] /\ Act \in Activations
      /\ acts \in Seq(Activations) /\ Act.fn \in DOMAIN prog
      /\ \A j \in 1 .. Len(Open(Fn.body, Act.pc)) :
           LabelOf(ctrl[cb + j], Open(Fn.body, Act.pc)[j], sb)
  BY <1>1, Here DEF Inv, StackTypes
<1>3. /\ c \in Nat /\ s \in Nat /\ base \in Nat /\ cb \in Nat /\ sb \in Nat /\ lb \in Nat
      /\ h \in Nat /\ s = sb + h /\ c = cb + Len(Open(Fn.body, Act.pc))
      /\ base = lb + Fn.params + Fn.locals
      /\ Fn.params \in Nat /\ Fn.locals \in Nat /\ Len(Open(Fn.body, Act.pc)) \in Nat
  BY <1>1, Here
<1>4. f \in DOMAIN prog /\ Goes(Fn.body, Act.pc, params, results)
  <2>1. ControlChecked(prog, Fn, Act.pc)
    BY <1>2 DEF ValidFunction
  <2> QED
    BY <1>1, <2>1 DEF ControlChecked, Instr
<1>5. ValidFunction(prog, prog[f]) /\ f \in 1 .. Len(prog) /\ Len(prog) \in Nat
  BY <1>4, ProgIs DEF Inv
<1>6. params \in Nat /\ extra \in Nat /\ results \in {0, 1}
  BY <1>5 DEF ValidFunction
<1>7. /\ ~Closes(Fn.body, Act.pc) /\ ~Opens(Fn.body, Act.pc) /\ Instr.op # "else"
  BY <1>1 DEF Closes, Opens, Openers, Instr
<1>8. Next1 \in 1 .. Len(Fn.body) /\ Open(Fn.body, Next1) = Open(Fn.body, Act.pc) /\ Next1 \in Nat
  BY <1>1, <1>2, <1>7, NextIs, TypedIs
<1>9. h >= params /\ next = h - params + results
  <2>1. Floor(Fn.body, Act.pc) \in Nat
    BY <1>2, FloorIs
  <2>2. h >= Floor(Fn.body, Act.pc) + params /\ next = h - params + results
    BY <1>4 DEF Goes, Enough, Next1
  <2> HIDE DEF h, next, params, results
  <2> QED
    BY <1>3, <1>6, <2>1, <2>2
<1>10. params <= s /\ ~(s < params) /\ s - params \in Nat /\ sb <= s - params
  <2> HIDE DEF s, sb, h, next, params, results
  <2> QED
    BY <1>3, <1>6, <1>9
<1>11. Enter(f, At(Next1), n)
  <2>1. ~(f > Len(prog))
    BY <1>5
  <2> QED
    BY <1>1, <2>1 DEF Call
<1>12. CASE n >= Depth \/ base + params + extra > LocalsSize
  BY <1>1, <1>11, <1>12, FailKeeps DEF Enter
<1>13. CASE ~(n >= Depth) /\ ~(base + params + extra > LocalsSize)
  <2> DEFINE args == LastOf(stack, params)
             zeros == [i \in 1 .. extra |-> 0]
  <2>1. /\ stack' = Without(stack, params)
        /\ locals' = locals \o args \o zeros
        /\ acts' = Append(At(Next1), new)
        /\ UNCHANGED <<ctrl, reply>>
    BY <1>10, <1>11, <1>13 DEF Enter
  <2>2. /\ stack \in Seq(Words) /\ locals \in Seq(Words) /\ s <= StackSize
        /\ ctrl \in Seq(LabelRecords) /\ c <= CtrlSize /\ prog \in Programs
        /\ {StackSize, LocalsSize, Depth} \subseteq Nat
    BY LimitsAssumption DEF Inv, StackTypes
  <2>3. stack' \in Seq(Words) /\ Len(stack') = s - params /\ args \in Seq(Words) /\ Len(args) = params
    BY <1>6, <1>10, <2>1, <2>2, SplitAt
  <2>4. zeros \in Seq(Words) /\ Len(zeros) = extra
    <3>1. 0 \in Words
      BY MemoryAssumption DEF Words
    <3> HIDE DEF extra
    <3>2. zeros \in [1 .. extra -> Words]
      BY <3>1
    <3> QED
      BY <1>6, <3>2, SeqDef
  <2>5. locals' \in Seq(Words) /\ Len(locals') = base + params + extra
    <3> HIDE DEF args, zeros
    <3>1. locals \o args \in Seq(Words) /\ Len(locals \o args) = Len(locals) + Len(args)
      BY <2>2, <2>3, ConcatProperties
    <3> DEFINE la == locals \o args
    <3>2. la \in Seq(Words) /\ Len(la) = base + params /\ locals' = la \o zeros
      BY <2>1, <2>3, <3>1
    <3> HIDE DEF la
    <3>3. la \o zeros \in Seq(Words) /\ Len(la \o zeros) = Len(la) + Len(zeros)
      BY <2>4, <3>2, ConcatProperties
    <3> QED
      BY <2>4, <3>2, <3>3
  <2>6. /\ there \in Activations /\ there.pc = Next1 /\ there.fn = Act.fn
        /\ there.ctrlBase = cb /\ there.spBase = sb /\ there.localsBase = lb
    BY <1>2, <1>8 DEF Activations
  <2>7. /\ new \in Activations /\ new.fn = f /\ new.pc = 1 /\ new.localsBase = base
        /\ new.ctrlBase = c /\ new.spBase = s - params
    <3>1. f \in Nat
      BY <1>5
    <3> HIDE DEF f, base, c, s, params
    <3> QED
      BY <1>3, <1>10, <3>1 DEF Activations
  <2>8. At(Next1) = [acts EXCEPT ![n] = there]
    BY <1>2 DEF At
  <2> HIDE DEF there, new
  <2>9. /\ At(Next1) \in Seq(Activations) /\ Len(At(Next1)) = n /\ At(Next1)[n] = there
        /\ \A i \in 1 .. n - 1 : At(Next1)[i] = acts[i]
    <3> DEFINE e == [acts EXCEPT ![n] = there]
    <3>1. n \in 1 .. Len(acts) /\ n = Len(acts)
      BY <1>2
    <3> HIDE DEF n
    <3>2. /\ e \in Seq(Activations) /\ Len(e) = Len(acts)
          /\ \A j \in 1 .. Len(acts) : e[j] = IF j = n THEN there ELSE acts[j]
      BY <1>2, <2>6, <3>1, ExceptSeq
    <3> HIDE DEF e
    <3>3. Len(e) = n /\ e[n] = there
      BY <3>1, <3>2
    <3>4. \A i \in 1 .. n - 1 : e[i] = acts[i]
      BY <1>2, <3>1, <3>2
    <3> QED
      BY <2>8, <3>2, <3>3, <3>4 DEF e
  <2>10. /\ acts' \in Seq(Activations) /\ Len(acts') = n + 1 /\ acts'[n + 1] = new
         /\ acts'[n] = there /\ \A i \in 1 .. n - 1 : acts'[i] = acts[i]
    <3> DEFINE e == At(Next1)
    <3>1. e \in Seq(Activations) /\ Len(e) = n /\ e[n] = there /\ \A i \in 1 .. n - 1 : e[i] = acts[i]
      BY <2>9
    <3>2. acts' = Append(e, new)
      BY <2>1
    <3> HIDE DEF e, n
    <3>3. /\ acts' \in Seq(Activations) /\ Len(acts') = Len(e) + 1 /\ acts'[Len(e) + 1] = new
          /\ \A i \in 1 .. Len(e) : acts'[i] = e[i]
      BY <2>7, <3>1, <3>2, AppendProperties
    <3>4. n \in 1 .. Len(e) /\ \A i \in 1 .. n - 1 : i \in 1 .. Len(e)
      BY <1>2, <3>1
    <3> QED
      BY <3>1, <3>3, <3>4
  <2>11. \A i \in 1 .. n : /\ acts'[i].fn = acts[i].fn /\ acts'[i].ctrlBase = acts[i].ctrlBase
                           /\ acts'[i].spBase = acts[i].spBase
                           /\ acts'[i].localsBase = acts[i].localsBase
    <3> HIDE DEF n
    <3> TAKE i \in 1 .. n
    <3>1. CASE i = n
      BY <1>2, <2>6, <2>10, <3>1
    <3>2. CASE i # n
      <4>1. acts'[i] = acts[i]
        BY <1>2, <2>10, <3>2
      <4> QED
        BY <4>1
    <3> QED
      BY <3>1, <3>2
  <2>12. StackTypes'
    <3>1. Len(stack') <= StackSize
      <4>1. s <= StackSize /\ StackSize \in Nat
        BY <2>2
      <4> HIDE DEF s, params
      <4> QED
        BY <1>3, <1>6, <2>3, <4>1
    <3>2. Len(locals') <= LocalsSize
      <4> HIDE DEF base, params, extra
      <4> QED
        BY SMTT(30), <1>3, <1>6, <1>13, <2>2, <2>5
    <3>3. Len(acts') <= Depth
      <4> HIDE DEF n
      <4> QED
        BY <1>2, <1>13, <2>2, <2>10
    <3> QED
      BY <1>1, <2>1, <2>2, <2>3, <2>5, <2>10, <3>1, <3>2, <3>3 DEF StackTypes
  <2>13. TopFramed'
    <3>1. Last(acts') = new
      BY <2>10 DEF Last
    <3>2. /\ Open(prog[f].body, 1) = << >> /\ Height(prog[f].body, 1) = 0
          /\ 1 \in 1 .. Len(prog[f].body)
      <4>1. Len(prog[f].body) \in Nat /\ Len(prog[f].body) >= 1
        BY <1>5, TypedIs
      <4> QED
        BY <1>5, <4>1 DEF ValidFunction
    <3>3. Len(stack') = new.spBase + 0 /\ c = new.ctrlBase + 0
      BY SMTT(30), <1>3, <1>10, <2>3, <2>7
    <3>4. Len(Open(prog[f].body, 1)) = 0
      BY <3>2
    <3>5. Framed(prog, ctrl, new, c, Len(stack'), Len(locals'))
      <4> HIDE DEF f, c, base, params, extra
      <4>1. params = prog[f].params /\ extra = prog[f].locals
        BY DEF params, extra
      <4> QED
        BY <1>4, <2>5, <2>7, <3>2, <3>3, <3>4, <4>1 DEF Framed
    <3> QED
      BY <1>1, <2>1, <3>1, <3>5 DEF TopFramed
  <2>14. CallersFramed'
    <3>1. SUFFICES ASSUME NEW i \in 1 .. n
                   PROVE  Framed(prog, ctrl, acts'[i], acts'[i + 1].ctrlBase,
                                 acts'[i + 1].spBase + prog[acts'[i + 1].fn].results,
                                 acts'[i + 1].localsBase)
      <4>1. Len(acts') - 1 = n
        <5> HIDE DEF n
        <5> QED
          BY <1>2, <2>10
      <4> QED
        BY <1>1, <2>1, <4>1 DEF CallersFramed
    <3>2. CASE i = n
      <4>1. s - params + results = sb + next
        <5> HIDE DEF s, sb, h, next, params, results
        <5> QED
          BY <1>3, <1>6, <1>9
      <4>2. Framed(prog, ctrl, there, c, s - params + results, base)
        <5>1. /\ Len(Open(Fn.body, Next1)) = Len(Open(Fn.body, Act.pc))
              /\ \A j \in 1 .. Len(Open(Fn.body, Next1)) :
                   LabelOf(ctrl[cb + j], Open(Fn.body, Next1)[j], sb)
          BY <1>2, <1>8
        <5>2. prog[there.fn] = Fn
          BY <2>6 DEF Fn
        <5> HIDE DEF s, params, results, c, base
        <5> QED
          BY <1>2, <1>3, <1>8, <2>6, <4>1, <5>1, <5>2 DEF Framed
      <4>3. acts'[i] = there /\ acts'[i + 1] = new
        BY <2>10, <3>2
      <4> QED
        BY <2>7, <4>2, <4>3
    <3>3. CASE i # n
      <4>1. i \in 1 .. n - 1 /\ i + 1 \in 1 .. n
        <5> HIDE DEF n
        <5> QED
          BY <1>2, <3>3
      <4>2. Framed(prog, ctrl, acts[i], acts[i + 1].ctrlBase,
                   acts[i + 1].spBase + prog[acts[i + 1].fn].results, acts[i + 1].localsBase)
        BY <4>1 DEF Inv, CallersFramed
      <4>3. acts'[i] = acts[i]
        BY <2>10, <4>1
      <4> QED
        BY <2>11, <4>1, <4>2, <4>3
    <3> QED
      BY <3>2, <3>3
  <2>15. Ascending'
    <3> DEFINE Below(a, b) == /\ a.ctrlBase <= b.ctrlBase /\ a.spBase <= b.spBase
                              /\ a.localsBase <= b.localsBase
    <3>1. \A i, j \in 1 .. n : i <= j => Below(acts[i], acts[j])
      BY DEF Inv, Ascending
    <3>2. \A i, j \in 1 .. n : i <= j => Below(acts'[i], acts'[j])
      BY <2>11, <3>1
    <3>3. \A i \in 1 .. n : Below(acts'[i], acts'[n + 1])
      <4> TAKE i \in 1 .. n
      <4>1. Below(acts[i], Act) /\ acts[i] \in Activations
        <5>1. n \in 1 .. n /\ i <= n
          <6> HIDE DEF n
          <6> QED
            BY <1>2
        <5>2. acts[i] \in Activations
          BY <1>2, ElementOfSeq
        <5> QED
          BY <1>2, <3>1, <5>1, <5>2
      <4>2. cb <= c /\ lb <= base /\ sb <= s - params
        <5> DEFINE m == Len(Open(Fn.body, Act.pc))
                   x == Fn.params
                   y == Fn.locals
        <5>1. /\ m \in Nat /\ x \in Nat /\ y \in Nat /\ cb \in Nat /\ lb \in Nat
              /\ c = cb + m /\ base = lb + x + y
          BY <1>3
        <5> HIDE DEF cb, c, lb, base, sb, s, params, m, x, y
        <5>2. cb <= c /\ lb <= base
          BY <5>1
        <5> QED
          BY <1>10, <5>2
      <4>3. acts[i].ctrlBase \in Nat /\ acts[i].spBase \in Nat /\ acts[i].localsBase \in Nat
        BY <4>1 DEF Activations
      <4>4. acts[i].ctrlBase <= cb /\ acts[i].spBase <= sb /\ acts[i].localsBase <= lb
        BY <4>1
      <4>5. acts[i].ctrlBase <= c /\ acts[i].spBase <= s - params /\ acts[i].localsBase <= base
        <5> DEFINE x == acts[i].ctrlBase
                   y == acts[i].spBase
                   z == acts[i].localsBase
        <5>1. x \in Nat /\ y \in Nat /\ z \in Nat /\ x <= cb /\ y <= sb /\ z <= lb
          BY <4>3, <4>4
        <5> DEFINE w == s - params
        <5>2. /\ cb \in Nat /\ sb \in Nat /\ lb \in Nat /\ c \in Nat /\ w \in Nat /\ base \in Nat
              /\ cb <= c /\ lb <= base /\ sb <= w
          BY <1>3, <1>10, <4>2
        <5> HIDE DEF x, y, z, w, cb, c, lb, base, sb, s, params
        <5>3. x <= c /\ y <= w /\ z <= base
          BY <5>1, <5>2
        <5> QED
          BY <5>3 DEF x, y, z, w
      <4> HIDE DEF c, s, base, params, n
      <4> QED
        BY <2>7, <2>10, <2>11, <4>5
    <3>4. Below(acts'[n + 1], acts'[n + 1])
      <4> HIDE DEF c, s, base, params, n
      <4> QED
        BY SMTT(30), <1>3, <1>10, <2>7, <2>10
    <3>5. \A i \in 1 .. Len(acts') : i \in 1 .. n \/ i = n + 1
      <4> HIDE DEF n
      <4> QED
        BY <1>2, <2>10
    <3>6. \A i \in 1 .. n : ~(n + 1 <= i)
      <4> HIDE DEF n
      <4> QED
        BY <1>2
    <3> HIDE DEF Below, n
    <3>7. \A i, j \in 1 .. Len(acts') : i <= j => Below(acts'[i], acts'[j])
      BY <3>2, <3>3, <3>4, <3>5, <3>6
    <3> QED
      BY <3>7 DEF Ascending, Below
  <2>16. NeverMalformed'
    BY <2>1 DEF Inv, NeverMalformed
  <2> QED
    BY <2>12, <2>13, <2>14, <2>15, <2>16 DEF Inv
<1> QED
  BY <1>12, <1>13

(* A call from outside finds the stacks empty.                             *)
LEMMA WasmCallKeeps ==
  ASSUME Inv, WasmCall
  PROVE  Inv'
<1> DEFINE f == prog[1]
           first == [fn |-> 1, pc |-> 1, localsBase |-> 0, ctrlBase |-> 0, spBase |-> 0]
<1>1. stack' = << >> /\ ctrl' = << >> /\ UNCHANGED prog
  BY DEF WasmCall
<1>2. /\ 1 \in DOMAIN prog /\ ValidFunction(prog, f) /\ f.params = 0 /\ f.locals \in Nat
  BY ProgIs DEF Inv, ValidFunction
<1>3. {StackSize, LocalsSize, CtrlSize} \subseteq Nat /\ Depth \in Nat \ {0} /\ prog \in Programs
  BY LimitsAssumption DEF Inv, StackTypes
<1>4. stack' \in Seq(Words) /\ Len(stack') = 0 /\ ctrl' \in Seq(LabelRecords) /\ Len(ctrl') = 0
  BY <1>1
<1>5. CASE f.locals > LocalsSize
  <2>1. locals' = << >> /\ acts' = << >> /\ reply' = "full"
    BY <1>5 DEF WasmCall
  <2>2. StackTypes'
    <3>1. acts' \in Seq(Activations) /\ Len(acts') = 0 /\ locals' \in Seq(Words) /\ Len(locals') = 0
      BY <2>1
    <3> QED
      BY <1>1, <1>3, <1>4, <3>1 DEF StackTypes
  <2>3. CallersFramed' /\ Ascending'
    <3>1. Len(acts') = 0
      BY <2>1
    <3> QED
      BY <3>1 DEF CallersFramed, Ascending
  <2>4. TopFramed' /\ NeverMalformed'
    BY <2>1 DEF TopFramed, NeverMalformed
  <2> QED
    BY <2>2, <2>3, <2>4 DEF Inv
<1>6. CASE ~(f.locals > LocalsSize)
  <2>1. locals' = [i \in 1 .. f.locals |-> 0] /\ acts' = <<first>> /\ reply' = "none"
    BY <1>6 DEF WasmCall
  <2>2. locals' \in Seq(Words) /\ Len(locals') = f.locals
    <3>1. 0 \in Words
      BY MemoryAssumption DEF Words
    <3>2. locals' \in [1 .. f.locals -> Words]
      BY <2>1, <3>1
    <3> QED
      BY <1>2, <2>1, <3>2, SeqDef
  <2>3. /\ first \in Activations /\ first.fn = 1 /\ first.pc = 1 /\ first.localsBase = 0
        /\ first.ctrlBase = 0 /\ first.spBase = 0
    BY DEF Activations
  <2>4. acts' \in Seq(Activations) /\ Len(acts') = 1 /\ acts'[1] = first
    BY <2>1, <2>3
  <2>5. StackTypes'
    <3>1. f.locals <= LocalsSize
      <4> DEFINE x == f.locals
      <4> HIDE DEF x
      <4> QED
        BY <1>2, <1>3, <1>6 DEF x
    <3> QED
      BY <1>1, <1>3, <1>4, <2>2, <2>4, <3>1 DEF StackTypes
  <2>6. TopFramed'
    <3>1. Last(acts') = first
      BY <2>4 DEF Last
    <3>2. Open(f.body, 1) = << >> /\ Height(f.body, 1) = 0 /\ 1 \in 1 .. Len(f.body)
      <4>1. Len(f.body) \in Nat /\ Len(f.body) >= 1
        BY <1>2, TypedIs
      <4> QED
        BY <1>2, <4>1 DEF ValidFunction
    <3>3. Len(Open(f.body, 1)) = 0
      BY <3>2
    <3>4. Len(locals') = 0 + f.params + f.locals
      BY <1>2, <2>2
    <3> HIDE DEF first
    <3>5. Framed(prog, ctrl', first, Len(ctrl'), Len(stack'), Len(locals'))
      BY <1>2, <1>4, <2>3, <3>2, <3>3, <3>4 DEF Framed
    <3> QED
      BY <1>1, <3>1, <3>5 DEF TopFramed
  <2>7. CallersFramed' /\ Ascending'
    <3>1. \A i, j \in 1 .. Len(acts') : i = 1 /\ j = 1
      BY <2>4
    <3>2. Ascending'
      BY <2>3, <2>4, <3>1 DEF Ascending
    <3>3. 1 .. Len(acts') - 1 = {}
      BY <2>4
    <3> QED
      BY <3>2, <3>3 DEF CallersFramed
  <2>8. NeverMalformed'
    BY <2>1 DEF NeverMalformed
  <2> QED
    BY <2>5, <2>6, <2>7, <2>8 DEF Inv
<1> QED
  BY <1>5, <1>6

----------------------------------------------------------------------------
(* Every instruction keeps the invariant.                                  *)

LEMMA WholeSeq ==
  ASSUME NEW S, NEW s \in Seq(S)
  PROVE  SubSeq(s, 1, Len(s)) = s
<1>1. Len(s) \in Nat /\ s = [i \in 1 .. Len(s) |-> s[i]]
  BY LenProperties
<1>2. SubSeq(s, 1, Len(s)) = [i \in 1 .. Len(s) |-> s[i]]
  BY <1>1
<1> QED
  BY <1>1, <1>2

(* The condition an instruction takes is there.                            *)
LEMMA Condition ==
  ASSUME Inv, Running, Enough(Fn.body, Act.pc, 1)
  PROVE  /\ stack # << >> /\ Last(stack) \in Words
         /\ Front(stack) \in Seq(Words) /\ Len(Front(stack)) = Len(stack) - 1
         /\ Len(Front(stack)) <= StackSize
<1> DEFINE h == Height(Fn.body, Act.pc)
           sb == Act.spBase
           s == Len(stack)
           floor == Floor(Fn.body, Act.pc)
<1>1. h \in Nat /\ sb \in Nat /\ s \in Nat /\ s = sb + h
  BY Here
<1>2. floor \in Nat /\ h >= floor + 1
  BY Here, FloorIs DEF Enough
<1>3. stack \in Seq(Words) /\ s <= StackSize /\ StackSize \in Nat
  BY LimitsAssumption DEF Inv, StackTypes
<1>4. s # 0 /\ s - 1 <= StackSize
  <2> HIDE DEF h, sb, s, floor
  <2> QED
    BY <1>1, <1>2, <1>3
<1>5. stack # << >>
  BY <1>4
<1>6. /\ Last(stack) \in Words /\ Front(stack) \in Seq(Words) /\ Len(Front(stack)) = Len(stack) - 1
  <2>1. stack \in Seq(Words)
    BY <1>3
  <2> QED
    BY <1>5, <2>1, LastIs
<1> QED
  BY <1>4, <1>5, <1>6

LEMMA BlockOrLoopKeeps ==
  ASSUME Inv, BlockOrLoop
  PROVE  Inv'
<1> DEFINE o == Open(Fn.body, Act.pc)
           in == Open(Fn.body, Next1)
           h == Height(Fn.body, Act.pc)
           loop == Instr.op = "loop"
<1>1. /\ Running /\ UNCHANGED prog /\ Instr.op \in {"block", "loop"}
      /\ Labelled(stack, loop, Next1, BlockArity, Next1)
  BY DEF BlockOrLoop, Runs
<1>2. Opens(Fn.body, Act.pc) /\ ~Closes(Fn.body, Act.pc)
  BY <1>1 DEF Opens, Closes, Openers, Instr
<1>3. /\ ValidFunction(prog, Fn) /\ Act.pc \in 1 .. Len(Fn.body) - 1 /\ Next1 \in 1 .. Len(Fn.body)
      /\ Len(Fn.body) \in Nat /\ h \in Nat /\ Next1 = Act.pc + 1
  BY <1>1, <1>2, Here, NextIs DEF Next1
<1>4. Instr.arg \in {0, 1} /\ Height(Fn.body, Next1) = h
  <2>1. ControlChecked(prog, Fn, Act.pc)
    BY <1>3 DEF ValidFunction
  <2>2. Instr.arg \in {0, 1} /\ Goes(Fn.body, Act.pc, 0, 0)
    BY <1>1, <2>1 DEF ControlChecked, Instr
  <2>3. Height(Fn.body, Act.pc + 1) = h - 0 + 0
    BY <2>2 DEF Goes
  <2> HIDE DEF h
  <2> QED
    BY <1>3, <2>2, <2>3
<1>5. /\ Len(in) = Len(o) + 1 /\ in[Len(o) + 1] = Begun(Fn.body, Act.pc)
      /\ \A j \in 1 .. Len(o) : in[j] = o[j]
  BY <1>2, <1>3, NextOpen
<1>6. stack \in Seq(Words) /\ Len(stack) <= StackSize /\ Len(stack) = Act.spBase + Height(Fn.body, Next1)
  BY <1>1, <1>4, Here DEF Inv, StackTypes
<1>7. loop \in BOOLEAN /\ Next1 \in Nat /\ BlockArity \in {0, 1}
  BY <1>3, <1>4 DEF BlockArity
<1>8. LabelOf([isLoop |-> loop, cont |-> Next1, arity |-> BlockArity, sp |-> Len(stack)],
              in[Len(in)], Act.spBase)
  <2>1. in[Len(in)] = Begun(Fn.body, Act.pc)
    BY <1>5
  <2>2. /\ Begun(Fn.body, Act.pc).op = Instr.op /\ Begun(Fn.body, Act.pc).at = Next1
        /\ Begun(Fn.body, Act.pc).arity = Instr.arg
        /\ Begun(Fn.body, Act.pc).base = Height(Fn.body, Next1)
    BY <1>3 DEF Begun, Instr
  <2> HIDE DEF in
  <2> QED
    BY <1>6, <2>1, <2>2 DEF LabelOf, BlockArity
<1> QED
  BY ZenonT(60), <1>1, <1>3, <1>5, <1>6, <1>7, <1>8, LabelledKeeps

LEMMA IfKeeps ==
  ASSUME Inv, If
  PROVE  Inv'
<1> DEFINE body == Fn.body
           o == Open(body, Act.pc)
           in == Open(body, Next1)
           h == Height(body, Act.pc)
           ops == Front(stack)
           dst == ElseOrEnd(body, Next1)
           k == Len(o) + 1
<1>1. Running /\ UNCHANGED prog /\ Instr.op = "if"
  BY DEF If, Runs
<1>2. Opens(body, Act.pc) /\ ~Closes(body, Act.pc)
  BY <1>1 DEF Opens, Closes, Openers, Instr
<1>3. /\ ValidFunction(prog, Fn) /\ Act.pc \in 1 .. Len(body) - 1 /\ Next1 \in 1 .. Len(body)
      /\ Len(body) \in Nat /\ Next1 = Act.pc + 1
  BY <1>1, <1>2, Here, NextIs DEF Next1
<1>11. /\ h \in Nat /\ Len(o) \in Nat
       /\ Act.spBase \in Nat /\ Len(stack) \in Nat /\ Len(stack) = Act.spBase + h
       /\ Len(ctrl) = Act.ctrlBase + Len(o) /\ Act.ctrlBase \in Nat
  BY <1>1, Here
<1>4. Instr.arg \in {0, 1} /\ Enough(body, Act.pc, 1) /\ Height(body, Next1) = h - 1
  <2>1. ControlChecked(prog, Fn, Act.pc)
    BY <1>3 DEF ValidFunction
  <2>2. Instr.arg \in {0, 1} /\ Goes(body, Act.pc, 1, 0)
    BY <1>1, <2>1 DEF ControlChecked, Instr
  <2>3. Enough(body, Act.pc, 1) /\ Height(body, Act.pc + 1) = h - 1 + 0
    BY <2>2 DEF Goes
  <2> HIDE DEF h
  <2> QED
    BY <1>3, <1>11, <2>2, <2>3
<1>5. /\ Len(in) = k /\ in[k] = Begun(body, Act.pc)
      /\ \A j \in 1 .. Len(o) : in[j] = o[j]
  BY <1>2, <1>3, NextOpen
<1>6. stack # << >> /\ ops \in Seq(Words) /\ Len(ops) = Len(stack) - 1 /\ Len(ops) <= StackSize
  BY <1>1, <1>4, Condition
<1>7. Len(ops) = Act.spBase + Height(body, Next1)
  <2> DEFINE s == Len(stack)
             sb == Act.spBase
             t == Len(ops)
             hn == Height(body, Next1)
  <2>1. s = sb + h /\ t = s - 1 /\ hn = h - 1 /\ s \in Nat /\ sb \in Nat /\ h \in Nat
    BY <1>4, <1>6, <1>11
  <2> HIDE DEF s, sb, t, hn, h
  <2>2. t = sb + hn
    BY <2>1
  <2> QED
    BY <2>2 DEF t, sb, hn
<1>8. /\ in[k].op = "if" /\ in[k].arity = Instr.arg /\ in[k].base = Height(body, Next1)
  BY <1>1, <1>3, <1>5 DEF Begun, Instr
<1>9. CASE Last(stack) # 0
  <2>1. Labelled(ops, FALSE, 0, Instr.arg, Next1)
    BY <1>6, <1>9 DEF If
  <2>2. LabelOf([isLoop |-> FALSE, cont |-> 0, arity |-> Instr.arg, sp |-> Len(ops)],
                in[Len(in)], Act.spBase)
    <3> HIDE DEF in, ops, k, body
    <3> QED
      BY <1>5, <1>7, <1>8 DEF LabelOf
  <2> HIDE DEF ops
  <2> QED
    BY <1>1, <1>3, <1>4, <1>5, <1>6, <1>7, <2>1, <2>2, LabelledKeeps
<1>10. CASE Last(stack) = 0
  <2>1. ArmAfter(body, in, k, dst)
    <3>1. in # << >>
      <4>1. k # 0
        <5> HIDE DEF o
        <5> QED
          BY <1>11
      <4> QED
        BY <1>5, <4>1
    <3> QED
      BY <1>3, <1>5, <3>1, ElseFound
  <2>2. /\ dst \in 1 .. Len(body) /\ dst # 0
        /\ \A j \in 1 .. k - 1 : Open(body, dst)[j] = in[j]
    <3>1. dst \in 2 .. Len(body) /\ \A j \in 1 .. k - 1 : Open(body, dst)[j] = in[j]
      BY <2>1 DEF ArmAfter
    <3>2. dst \in 1 .. Len(body) /\ dst # 0
      <4> HIDE DEF dst
      <4> QED
        BY <1>3, <3>1
    <3> QED
      BY <3>1, <3>2
  <2>3. k - 1 = Len(o) /\ \A j \in 1 .. Len(o) : Open(body, dst)[j] = o[j]
    <3>1. k - 1 = Len(o)
      <4> HIDE DEF o
      <4> QED
        BY <1>11
    <3> QED
      BY <1>5, <2>2, <3>1
  <2>4. CASE Len(ctrl) >= CtrlSize
    BY <1>1, <1>6, <1>10, <2>4, FailKeeps DEF If
  <2>5. CASE ~(Len(ctrl) >= CtrlSize) /\ Closes(body, dst - 1)
    <3>1. stack' = ops /\ Goto(dst) /\ UNCHANGED <<locals, ctrl>>
      BY <1>6, <1>10, <2>2, <2>5 DEF If
    <3>2. Len(Open(body, dst)) = Len(o) /\ Height(body, dst) = Height(body, Next1)
      <4>1. /\ Len(Open(body, dst)) = k - 1 /\ Height(body, dst) = in[k].base + in[k].arity
            /\ in[k].arity = 0
        BY <1>8, <2>1, <2>5 DEF ArmAfter
      <4>2. Height(body, Next1) \in Nat
        BY <1>3, TypedIs
      <4> HIDE DEF o, in, dst, body, k
      <4> QED
        BY <1>8, <2>3, <4>1, <4>2
    <3>3. ctrl' = SubSeq(ctrl, 1, Act.ctrlBase + Len(o))
      <4>1. ctrl \in Seq(LabelRecords)
        BY DEF Inv, StackTypes
      <4>2. SubSeq(ctrl, 1, Len(ctrl)) = ctrl
        BY <4>1, WholeSeq
      <4> QED
        BY <1>11, <3>1, <4>2
    <3>4. Len(o) \in 0 .. Len(o)
      <4> HIDE DEF o
      <4> QED
        BY <1>11
    <3>5. stack' \in Seq(Words) /\ Len(stack') <= StackSize /\ Len(stack') = Act.spBase + Height(body, dst)
      BY <1>6, <1>7, <3>1, <3>2
    <3> HIDE DEF dst, ops
    <3> QED
      BY <1>1, <2>2, <2>3, <3>1, <3>2, <3>3, <3>4, <3>5, LandsKeeps
  <2>6. CASE ~(Len(ctrl) >= CtrlSize) /\ ~Closes(body, dst - 1)
    <3>1. Labelled(ops, FALSE, 0, Instr.arg, dst)
      BY <1>6, <1>10, <2>2, <2>6 DEF If
    <3>2. /\ Len(Open(body, dst)) = k /\ Height(body, dst) = Height(body, Next1)
          /\ Open(body, dst)[k].op = "else" /\ Open(body, dst)[k].base = Height(body, Next1)
          /\ Open(body, dst)[k].arity = Instr.arg
      BY <1>8, <2>1, <2>6 DEF ArmAfter
    <3>3. LabelOf([isLoop |-> FALSE, cont |-> 0, arity |-> Instr.arg, sp |-> Len(ops)],
                  Open(body, dst)[Len(Open(body, dst))], Act.spBase)
      <4> HIDE DEF dst, ops, k, body
      <4> QED
        BY <1>7, <3>2 DEF LabelOf
    <3>4. Len(ops) = Act.spBase + Height(body, dst)
      BY <1>7, <3>2
    <3> HIDE DEF dst, ops
    <3> QED
      BY <1>1, <1>4, <1>6, <2>2, <2>3, <3>1, <3>2, <3>3, <3>4, LabelledKeeps
  <2> QED
    BY <2>4, <2>5, <2>6
<1> QED
  BY <1>9, <1>10

LEMMA ElseKeeps ==
  ASSUME Inv, Else
  PROVE  Inv'
<1> DEFINE body == Fn.body
           o == Open(body, Act.pc)
           in == Open(body, Next1)
           dst == BranchTarget(body, Next1, 0)
           k == Len(o)
<1>1. Running /\ UNCHANGED prog /\ Instr.op = "else"
  BY DEF Else, Runs
<1>2. ~Closes(body, Act.pc) /\ body[Act.pc].op = "else"
  BY <1>1 DEF Closes, Instr
<1>3. /\ ValidFunction(prog, Fn) /\ Act.pc \in 1 .. Len(body) - 1 /\ Next1 \in 1 .. Len(body)
      /\ Act.pc \in 1 .. Len(body) /\ Len(body) \in Nat /\ Next1 = Act.pc + 1
  BY <1>1, <1>2, Here, NextIs DEF Next1
<1>4. /\ Len(stack) = Act.spBase + Height(body, Act.pc) /\ Act.ctrlBase \in Nat /\ Act.spBase \in Nat
      /\ Len(ctrl) = Act.ctrlBase + k /\ Len(ctrl) \in Nat
  BY <1>1, Here
<1>5. /\ k \in Nat \ {0} /\ Len(in) = k /\ in[k] = Other(body, Act.pc) /\ Last(o) = o[k]
      /\ \A j \in 1 .. k - 1 : in[j] = o[j]
  BY SMTT(30), <1>2, <1>3, NextOpen
<1>6. in[k].base = o[k].base /\ in[k].arity = o[k].arity
  <2>1. o # << >>
    BY <1>5
  <2> QED
    BY <1>3, <1>5, <2>1, OtherIs
<1>7. Height(body, Act.pc) = o[k].base + o[k].arity
  <2>1. EndsWell(Fn, Act.pc)
    BY <1>3 DEF ValidFunction
  <2> QED
    BY <1>2, <1>5, <2>1 DEF EndsWell
<1>8. Landed(body, in, k, dst)
  <2>1. 0 < Len(in) /\ 0 \in Nat /\ Len(in) - 0 = k
    <3> HIDE DEF in, k
    <3> QED
      BY <1>5
  <2>2. Landed(body, in, Len(in) - 0, dst)
    BY <1>3, <2>1, TargetFound
  <2> QED
    BY <2>1, <2>2
<1>9. /\ dst \in 1 .. Len(body) /\ Len(Open(body, dst)) = k - 1
      /\ \A j \in 1 .. k - 1 : Open(body, dst)[j] = in[j]
      /\ Height(body, dst) = in[k].base + in[k].arity
  <2> HIDE DEF dst, in, k, body
  <2> QED
    BY <1>8 DEF Landed
<1>10. Labels > 0 /\ dst # 0 /\ k - 1 \in 0 .. k /\ Len(ctrl) - 1 = Act.ctrlBase + (k - 1)
  <2>1. Labels = Len(ctrl) - Act.ctrlBase
    BY DEF Labels
  <2>2. dst # 0
    BY <1>9
  <2> HIDE DEF k, dst
  <2> QED
    BY <1>4, <1>5, <2>1, <2>2
<1>11. ctrl' = Front(ctrl) /\ Goto(dst) /\ UNCHANGED <<stack, locals>>
  BY <1>10 DEF Else
<1>12. ctrl' = SubSeq(ctrl, 1, Act.ctrlBase + (k - 1))
  BY <1>10, <1>11 DEF Front
<1>13. /\ stack' \in Seq(Words) /\ Len(stack') <= StackSize
       /\ Len(stack') = Act.spBase + Height(body, dst)
  BY <1>4, <1>6, <1>7, <1>9, <1>11 DEF Inv, StackTypes
<1>14. \A j \in 1 .. k - 1 : Open(body, dst)[j] = o[j]
  BY <1>5, <1>9
<1> HIDE DEF dst
<1> QED
  BY <1>1, <1>9, <1>10, <1>11, <1>12, <1>13, <1>14, LandsKeeps

LEMMA EndKeeps ==
  ASSUME Inv, End
  PROVE  Inv'
<1> DEFINE body == Fn.body
           o == Open(body, Act.pc)
           k == Len(o)
<1>1. Running /\ UNCHANGED prog /\ Instr.op = "end"
  BY DEF End, Runs
<1>2. Closes(body, Act.pc)
  BY <1>1 DEF Closes, Instr
<1>3. /\ ValidFunction(prog, Fn) /\ Act.pc \in 1 .. Len(body) /\ Len(body) \in Nat
  BY <1>1, Here
<1>4. /\ Len(stack) = Act.spBase + Height(body, Act.pc) /\ Act.ctrlBase \in Nat /\ Act.spBase \in Nat
      /\ Len(ctrl) = Act.ctrlBase + k /\ Len(ctrl) \in Nat /\ k \in Nat
  BY <1>1, Here
<1>5. EndsWell(Fn, Act.pc)
  BY <1>3 DEF ValidFunction
<1>6. stack \in Seq(Words) /\ Len(stack) <= StackSize
  BY DEF Inv, StackTypes
<1>7. Labels = k
  <2>1. Labels = Len(ctrl) - Act.ctrlBase
    BY DEF Labels
  <2> HIDE DEF k
  <2> QED
    BY <1>4, <2>1
<1>8. CASE Act.pc = Len(body)
  <2>1. o = << >> /\ Height(body, Act.pc) = Fn.results
    BY <1>5, <1>8 DEF EndsWell
  <2>2. k = 0
    BY <2>1
  <2>3. Unwind(stack)
    BY <1>7, <2>2 DEF End
  <2>4. Len(stack) >= Act.spBase + Fn.results
    <3>1. Fn.results \in {0, 1}
      BY <1>1, Here
    <3> QED
      BY <1>4, <2>1, <3>1
  <2> QED
    BY <1>1, <1>6, <2>3, <2>4, UnwindKeeps
<1>9. CASE Act.pc # Len(body)
  <2>1. /\ Act.pc \in 1 .. Len(body) - 1 /\ Act.pc < Len(body)
        /\ Next1 \in 1 .. Len(body) /\ Next1 = Act.pc + 1
    BY <1>3, <1>9 DEF Next1
  <2>2. /\ k \in Nat \ {0} /\ Len(Open(body, Next1)) = k - 1
        /\ \A j \in 1 .. k - 1 : Open(body, Next1)[j] = o[j]
    BY <1>2, <1>3, <2>1, NextOpen
  <2>3. Height(body, Next1) = Height(body, Act.pc)
    BY <1>2, <1>5, <2>1 DEF EndsWell
  <2>4. Labels > 0 /\ k - 1 \in 0 .. k /\ Len(ctrl) - 1 = Act.ctrlBase + (k - 1)
    <3>1. k \in Nat \ {0}
      BY <2>2
    <3> HIDE DEF k
    <3> QED
      BY <1>4, <1>7, <3>1
  <2>5. ctrl' = Front(ctrl) /\ Goto(Next1) /\ UNCHANGED <<stack, locals>>
    BY <2>4 DEF End
  <2>6. ctrl' = SubSeq(ctrl, 1, Act.ctrlBase + (k - 1))
    BY <2>4, <2>5 DEF Front
  <2>7. /\ stack' \in Seq(Words) /\ Len(stack') <= StackSize
        /\ Len(stack') = Act.spBase + Height(body, Next1)
    BY <1>4, <1>6, <2>3, <2>5
  <2> QED
    BY <1>1, <2>1, <2>2, <2>4, <2>5, <2>6, <2>7, LandsKeeps
<1> QED
  BY <1>8, <1>9

(* What validation says of an instruction that is no block's beginning or  *)
(* end.                                                                    *)
LEMMA Straight ==
  ASSUME Inv, Running, Instr.op \notin Openers \cup {"else", "end"}
  PROVE  /\ ~Opens(Fn.body, Act.pc) /\ ~Closes(Fn.body, Act.pc) /\ Instr.op # "else"
         /\ ControlChecked(prog, Fn, Act.pc) /\ OperandsChecked(Fn, Act.pc)
         /\ stack \in Seq(Words) /\ Len(stack) <= StackSize /\ Len(stack) - 0 = Len(stack)
<1>1. ValidFunction(prog, Fn) /\ Act.pc \in 1 .. Len(Fn.body) /\ Len(stack) \in Nat
  BY Here
<1> QED
  BY <1>1 DEF ValidFunction, Opens, Closes, Instr, Inv, StackTypes

LEMMA BranchKeeps ==
  ASSUME Inv, Br \/ BrIf \/ BrTable
  PROVE  Inv'
<1>1. /\ Running /\ UNCHANGED prog /\ Instr.op \in {"br", "br_if", "br_table"}
  BY DEF Br, BrIf, BrTable, Runs
<1>2. /\ ~Opens(Fn.body, Act.pc) /\ ~Closes(Fn.body, Act.pc) /\ Instr.op # "else"
      /\ ControlChecked(prog, Fn, Act.pc)
      /\ stack \in Seq(Words) /\ Len(stack) - 0 = Len(stack)
  BY <1>1, Straight DEF Openers
<1>3. CASE Br
  <2>1. Branches(Fn, Act.pc, Instr.arg, 0) /\ Jump(Instr.arg, stack)
    BY <1>2, <1>3 DEF Br, Runs, ControlChecked, Instr
  <2> QED
    BY <1>1, <1>2, <2>1, JumpKeeps
<1>4. CASE BrIf
  <2>1. Branches(Fn, Act.pc, Instr.arg, 1) /\ Goes(Fn.body, Act.pc, 1, 0)
    BY <1>2, <1>4 DEF BrIf, Runs, ControlChecked, Instr
  <2>2. Enough(Fn.body, Act.pc, 1)
    BY <2>1 DEF Goes
  <2>3. /\ stack # << >> /\ Front(stack) \in Seq(Words) /\ Len(Front(stack)) = Len(stack) - 1
    BY <1>1, <2>2, Condition
  <2>4. CASE Last(stack) # 0
    <3>1. Jump(Instr.arg, Front(stack))
      BY <1>4, <2>3, <2>4 DEF BrIf
    <3> QED
      BY <1>1, <1>2, <2>1, <2>3, <3>1, JumpKeeps
  <2>5. CASE Last(stack) = 0
    <3>1. PopPush(1, << >>)
      BY <1>4, <2>3, <2>5 DEF BrIf
    <3> DEFINE none == << >>
    <3>2. none \in Seq(Words) /\ Len(none) = 0
      OBVIOUS
    <3>3. PopPush(1, none) /\ Goes(Fn.body, Act.pc, 1, Len(none))
      BY <2>1, <3>1, <3>2
    <3> HIDE DEF none
    <3> QED
      BY <1>1, <1>2, <3>2, <3>3, PopPushKeeps
  <2> QED
    BY <2>4, <2>5
<1>5. CASE BrTable
  <2> DEFINE arg == Instr.arg
             n == Len(arg) - 1
             i == IF Last(stack) < n THEN Last(stack) + 1 ELSE n + 1
  <2>1. /\ arg \in Seq(Nat) /\ arg # << >> /\ Enough(Fn.body, Act.pc, 1)
        /\ \A k \in DOMAIN arg : Branches(Fn, Act.pc, arg[k], 1)
    BY <1>2, <1>5 DEF BrTable, Runs, ControlChecked, Instr
  <2>2. /\ stack # << >> /\ Front(stack) \in Seq(Words) /\ Len(Front(stack)) = Len(stack) - 1
        /\ Last(stack) \in Words
    BY <1>1, <2>1, Condition
  <2>3. Last(stack) \in Nat
    BY <2>2, MemoryAssumption DEF Words
  <2>4. i \in DOMAIN arg
    <3>1. DOMAIN arg = 1 .. Len(arg) /\ Len(arg) \in Nat
      BY <2>1, LenProperties
    <3>2. Len(arg) # 0
      BY <2>1, EmptySeq
    <3> DEFINE m == Len(arg)
               v == Last(stack)
    <3>3. DOMAIN arg = 1 .. m /\ m \in Nat /\ m # 0 /\ v \in Nat /\ n = m - 1
      BY <2>3, <3>1, <3>2
    <3>4. i = IF v < n THEN v + 1 ELSE n + 1
      OBVIOUS
    <3> HIDE DEF arg, n, i, m, v
    <3> QED
      BY <3>3, <3>4
  <2>5. Jump(arg[i], Front(stack))
    BY <1>5, <2>2 DEF BrTable
  <2>6. Branches(Fn, Act.pc, arg[i], 1)
    BY <2>1, <2>4
  <2> HIDE DEF arg, i
  <2> QED
    BY <1>1, <1>2, <2>2, <2>5, <2>6, JumpKeeps
<1> QED
  BY <1>3, <1>4, <1>5

LEMMA ReturnKeeps ==
  ASSUME Inv, Return
  PROVE  Inv'
<1>1. Running /\ UNCHANGED prog /\ Instr.op = "return" /\ Unwind(stack)
  BY DEF Return, Runs
<1>2. ControlChecked(prog, Fn, Act.pc) /\ stack \in Seq(Words) /\ Len(stack) <= StackSize
  BY <1>1, Straight DEF Openers
<1>3. Enough(Fn.body, Act.pc, Fn.results)
  BY <1>1, <1>2 DEF ControlChecked, Instr
<1>4. Len(stack) >= Act.spBase + Fn.results
  <2> DEFINE h == Height(Fn.body, Act.pc)
             sb == Act.spBase
             floor == Floor(Fn.body, Act.pc)
             res == Fn.results
  <2>1. h \in Nat /\ sb \in Nat /\ res \in {0, 1} /\ Len(stack) = sb + h
    BY <1>1, Here
  <2>2. floor \in Nat /\ h >= floor + res
    BY <1>1, <1>3, Here, FloorIs DEF Enough
  <2> HIDE DEF h, sb, floor, res
  <2>3. Len(stack) >= sb + res
    BY <2>1, <2>2
  <2> QED
    BY <2>3 DEF sb, res
<1> QED
  BY <1>1, <1>2, <1>4, UnwindKeeps

LEMMA PlainKeeps ==
  ASSUME Inv, Plain \/ Unreachable
  PROVE  Inv'
<1>1. CASE Unreachable
  BY <1>1, FailKeeps DEF Unreachable, Runs
<1>2. CASE Plain
  <2>1. /\ Running /\ UNCHANGED prog /\ Instr.op = "plain"
    BY <1>2 DEF Plain, Runs
  <2>2. /\ ~Opens(Fn.body, Act.pc) /\ ~Closes(Fn.body, Act.pc) /\ Instr.op # "else"
        /\ OperandsChecked(Fn, Act.pc)
    BY <2>1, Straight DEF Openers
  <2>3. /\ Instr.arg.pops \in Nat /\ Instr.arg.out \subseteq Seq(Words)
        /\ \A out \in Instr.arg.out : Goes(Fn.body, Act.pc, Instr.arg.pops, Len(out))
    BY <2>1, <2>2 DEF OperandsChecked, Instr
  <2>4. CASE Fail("trap")
    BY <2>1, <2>4, FailKeeps
  <2>5. ASSUME NEW out \in Instr.arg.out, PopPush(Instr.arg.pops, out) PROVE Inv'
    <3>1. out \in Seq(Words) /\ Goes(Fn.body, Act.pc, Instr.arg.pops, Len(out))
      BY <2>3, <2>5
    <3> QED
      BY <2>1, <2>2, <2>3, <2>5, <3>1, PopPushKeeps
  <2> QED
    BY <1>2, <2>4, <2>5 DEF Plain
<1> QED
  BY <1>1, <1>2

(* A local of the running call.                                            *)
LEMMA LocalIs ==
  ASSUME Inv, Running, Instr.op \in {"get", "set", "tee"}
  PROVE  /\ Known(Instr.arg) /\ LocalAt(Instr.arg) \in 1 .. Len(locals)
         /\ locals \in Seq(Words) /\ locals[LocalAt(Instr.arg)] \in Words
<1> DEFINE k == Instr.arg
           lb == Act.localsBase
           x == Fn.params
           y == Fn.locals
           m == Len(locals)
<1>1. OperandsChecked(Fn, Act.pc)
  BY Straight DEF Openers
<1>2. k \in 1 .. x + y
  BY <1>1 DEF OperandsChecked, Instr
<1>3. lb \in Nat /\ x \in Nat /\ y \in Nat /\ m \in Nat /\ m = lb + x + y
  BY Here
<1>4. k <= x + y /\ lb + k \in 1 .. m
  <2> HIDE DEF k, lb, x, y, m
  <2> QED
    BY <1>2, <1>3
<1>5. locals \in Seq(Words)
  BY DEF Inv, StackTypes
<1>6. locals[lb + k] \in Words
  <2> DEFINE at == lb + k
  <2>1. at \in 1 .. Len(locals)
    BY <1>4
  <2> HIDE DEF at
  <2>2. locals[at] \in Words
    BY <1>5, <2>1, ElementOfSeq
  <2> QED
    BY <2>2 DEF at
<1> QED
  BY <1>4, <1>5, <1>6 DEF Known, LocalAt

LEMMA LocalGetKeeps ==
  ASSUME Inv, LocalGet
  PROVE  Inv'
<1> DEFINE v == locals[LocalAt(Instr.arg)]
           out == <<v>>
<1>1. /\ Running /\ UNCHANGED prog /\ Instr.op = "get"
  BY DEF LocalGet, Runs
<1>2. /\ ~Opens(Fn.body, Act.pc) /\ ~Closes(Fn.body, Act.pc) /\ Instr.op # "else"
      /\ OperandsChecked(Fn, Act.pc)
  BY <1>1, Straight DEF Openers
<1>3. Known(Instr.arg) /\ v \in Words
  BY <1>1, LocalIs
<1>4. PopPush(0, out)
  BY <1>3 DEF LocalGet
<1>5. out \in Seq(Words) /\ Len(out) = 1
  <2> HIDE DEF v
  <2> QED
    BY <1>3
<1>6. Goes(Fn.body, Act.pc, 0, Len(out))
  BY <1>1, <1>2, <1>5 DEF OperandsChecked, Instr
<1> HIDE DEF out
<1> QED
  BY <1>1, <1>2, <1>4, <1>5, <1>6, PopPushKeeps

LEMMA LocalSetKeeps ==
  ASSUME Inv, LocalSet
  PROVE  Inv'
<1> DEFINE at == LocalAt(Instr.arg)
           body == Fn.body
           h == Height(body, Act.pc)
           next == Height(body, Next1)
           sb == Act.spBase
<1>1. /\ Running /\ UNCHANGED prog /\ Instr.op \in {"set", "tee"}
  BY DEF LocalSet, Runs
<1>2. /\ ~Opens(body, Act.pc) /\ ~Closes(body, Act.pc) /\ Instr.op # "else"
      /\ OperandsChecked(Fn, Act.pc)
  BY <1>1, Straight DEF Openers
<1>3. Known(Instr.arg) /\ at \in 1 .. Len(locals) /\ locals \in Seq(Words)
  BY <1>1, LocalIs
<1>4. /\ Enough(body, Act.pc, 1)
      /\ Instr.op = "set" => next = h - 1 + 0
      /\ Instr.op = "tee" => next = h - 1 + 1
  BY <1>1, <1>2 DEF OperandsChecked, Goes, Instr, Next1
<1>5. /\ stack # << >> /\ Last(stack) \in Words
      /\ Front(stack) \in Seq(Words) /\ Len(Front(stack)) = Len(stack) - 1 /\ Len(Front(stack)) <= StackSize
  BY <1>1, <1>4, Condition
<1>6. /\ locals' = [locals EXCEPT ![at] = Last(stack)]
      /\ stack' = IF Instr.op = "set" THEN Front(stack) ELSE stack
      /\ Goto(Next1) /\ UNCHANGED ctrl
  BY <1>3, <1>5 DEF LocalSet
<1>7. locals' \in Seq(Words) /\ Len(locals') = Len(locals)
  <2> HIDE DEF at
  <2> QED
    BY <1>3, <1>5, <1>6, ExceptSeq
<1>8. h \in Nat /\ sb \in Nat /\ Len(stack) = sb + h /\ Len(stack) \in Nat
  BY <1>1, Here
<1>9. stack \in Seq(Words) /\ Len(stack) <= StackSize /\ ctrl \in Seq(LabelRecords) /\ Len(ctrl) <= CtrlSize
  BY DEF Inv, StackTypes
<1>10. stack' \in Seq(Words) /\ Len(stack') <= StackSize /\ Len(stack') = sb + next
  <2>1. CASE Instr.op = "set"
    <3>1. stack' = Front(stack) /\ next = h - 1 + 0
      BY <1>4, <1>6, <2>1
    <3> HIDE DEF h, next, sb
    <3> QED
      BY <1>5, <1>8, <3>1
  <2>2. CASE Instr.op = "tee"
    <3>1. stack' = stack /\ next = h - 1 + 1
      BY <1>4, <1>6, <2>2
    <3> HIDE DEF h, next, sb
    <3> QED
      BY <1>8, <1>9, <3>1
  <2> QED
    BY <1>1, <2>1, <2>2
<1>11. Next1 \in 1 .. Len(body) /\ Open(body, Next1) = Open(body, Act.pc)
  BY <1>1, <1>2, NextIs
<1>12. /\ Len(ctrl') = Act.ctrlBase + Len(Open(body, Next1))
       /\ \A j \in 1 .. Act.ctrlBase : ctrl'[j] = ctrl[j]
       /\ \A j \in 1 .. Len(Open(body, Next1)) :
            LabelOf(ctrl'[Act.ctrlBase + j], Open(body, Next1)[j], Act.spBase)
  BY <1>1, <1>6, <1>11, Here
<1> QED
  BY <1>1, <1>6, <1>7, <1>9, <1>10, <1>11, <1>12, GoesOn

(* An instruction that replaces n operands by one value.                   *)
LEMMA PushOneKeeps ==
  ASSUME Inv, Running, UNCHANGED prog, NEW n \in Nat, NEW v \in Words,
         Instr.op \notin Openers \cup {"else", "end"},
         Goes(Fn.body, Act.pc, n, 1), PopPush(n, <<v>>)
  PROVE  Inv'
<1> DEFINE out == <<v>>
<1>1. out \in Seq(Words) /\ Len(out) = 1 /\ PopPush(n, out)
  OBVIOUS
<1>2. /\ ~Opens(Fn.body, Act.pc) /\ ~Closes(Fn.body, Act.pc) /\ Instr.op # "else"
      /\ Goes(Fn.body, Act.pc, n, Len(out))
  BY <1>1, Straight
<1> HIDE DEF out
<1> QED
  BY <1>1, <1>2, PopPushKeeps

LEMMA MemoryKeeps ==
  ASSUME Inv, memPages \in Words, LoadStore \/ MemoryGrow
  PROVE  Inv'
<1>1. /\ Running /\ UNCHANGED prog /\ Instr.op \in {"load", "store", "grow"}
  BY DEF LoadStore, MemoryGrow
<1>2. Instr.op \notin Openers \cup {"else", "end"}
  BY <1>1 DEF Openers
<1>3. /\ OperandsChecked(Fn, Act.pc) /\ stack \in Seq(Words)
      /\ ~Opens(Fn.body, Act.pc) /\ ~Closes(Fn.body, Act.pc) /\ Instr.op # "else"
  BY <1>1, <1>2, Straight
<1>4. ASSUME NEW n \in Nat, Enough(Fn.body, Act.pc, n) PROVE Len(stack) >= n
  <2> DEFINE h == Height(Fn.body, Act.pc)
             sb == Act.spBase
             floor == Floor(Fn.body, Act.pc)
             s == Len(stack)
  <2>1. h \in Nat /\ sb \in Nat /\ s = sb + h
    BY <1>1, Here
  <2>2. floor \in Nat /\ h >= floor + n
    BY <1>1, <1>4, Here, FloorIs DEF Enough
  <2> HIDE DEF h, sb, floor, s
  <2>3. s >= n
    BY <2>1, <2>2
  <2> QED
    BY <2>3 DEF s
<1>5. Len(stack) \in Nat
  BY <1>1, Here
<1>6. CASE MemoryGrow
  <2>1. Instr.op = "grow"
    BY <1>6 DEF MemoryGrow
  <2>2. Goes(Fn.body, Act.pc, 1, 1) /\ Enough(Fn.body, Act.pc, 1)
    BY <1>3, <2>1 DEF OperandsChecked, Instr, Goes
  <2>3. stack # << >>
    BY <1>1, <2>2, Condition
  <2>4. PICK answer \in {memPages, Word - 1} : PopPush(1, <<answer>>)
    BY <1>6, <2>3 DEF MemoryGrow
  <2>5. answer \in Words
    BY MemoryAssumption DEF Words
  <2> QED
    BY <1>1, <1>2, <2>2, <2>4, <2>5, PushOneKeeps
<1>7. CASE LoadStore /\ Instr.op = "load"
  <2>1. Goes(Fn.body, Act.pc, 1, 1) /\ Enough(Fn.body, Act.pc, 1)
    BY <1>3, <1>7 DEF OperandsChecked, Instr, Goes
  <2>2. ~(Len(stack) < 1)
    BY <1>4, <1>5, <2>1
  <2>3. Fail("memory") \/ \E v \in Loads : PopPush(1, <<v>>)
    BY <1>7, <2>2 DEF LoadStore
  <2>4. ASSUME NEW v \in Loads, PopPush(1, <<v>>) PROVE Inv'
    <3>1. v \in Words
      BY LimitsAssumption
    <3> QED
      BY <1>1, <1>2, <2>1, <2>4, <3>1, PushOneKeeps
  <2>5. CASE Fail("memory")
    BY <1>1, <2>5, FailKeeps
  <2> QED
    BY <2>3, <2>4, <2>5
<1>8. CASE LoadStore /\ Instr.op = "store"
  <2>1. Goes(Fn.body, Act.pc, 2, 0) /\ Enough(Fn.body, Act.pc, 2)
    BY <1>3, <1>8 DEF OperandsChecked, Instr, Goes
  <2>2. ~(Len(stack) < 2)
    BY <1>4, <1>5, <2>1
  <2>3. Fail("memory") \/ PopPush(2, << >>)
    BY <1>8, <2>2 DEF LoadStore
  <2>4. CASE PopPush(2, << >>)
    <3> DEFINE none == << >>
    <3>1. none \in Seq(Words) /\ PopPush(2, none) /\ Goes(Fn.body, Act.pc, 2, Len(none))
      BY <2>1, <2>4
    <3> HIDE DEF none
    <3> QED
      BY <1>1, <1>3, <3>1, PopPushKeeps
  <2>5. CASE Fail("memory")
    BY <1>1, <2>5, FailKeeps
  <2> QED
    BY <2>3, <2>4, <2>5
<1> QED
  BY <1>6, <1>7, <1>8 DEF LoadStore

----------------------------------------------------------------------------
(* The machine as a whole.                                                 *)

MachineMem == MemInv /\ memPages \in Words /\ memLimit \in Words
MachineInv == Inv /\ MachineMem

LEMMA MemVarsStay ==
  ASSUME MachineMem, UNCHANGED memVars
  PROVE  MachineMem'
  BY DEF MachineMem, MemInv, AccessesInside, memVars

LEMMA WrapsToWord ==
  ASSUME NEW n \in Nat
  PROVE  Wrapped(n) \in Words
  BY WrappedIsWord, MemoryAssumption DEF Words

LEMMA LoadStoreMem ==
  ASSUME MachineInv, LoadStore
  PROVE  MachineMem'
<1> DEFINE n == IF Instr.op = "load" THEN 1 ELSE 2
           at == Len(stack) - n + 1
           addr == Wrapped(stack[at] + Instr.arg.offset)
           size == Instr.arg.size
<1>1. Running /\ Instr.op \in {"load", "store"} /\ Inv /\ MachineMem
  BY DEF LoadStore, MachineInv
<1>2. CASE UNCHANGED memVars
  BY <1>1, <1>2, MemVarsStay
<1>3. CASE ~(Len(stack) < n) /\ Access(addr, size)
  <2>1. Len(stack) \in Nat /\ stack \in Seq(Words) /\ n \in {1, 2}
    BY <1>1, Here DEF Inv, StackTypes
  <2>2. at \in 1 .. Len(stack)
    <3> HIDE DEF n
    <3> QED
      BY <1>3, <2>1
  <2>3. stack[at] \in Words
    <3> HIDE DEF at
    <3> QED
      BY <2>1, <2>2, ElementOfSeq
  <2>4. Instr.arg.offset \in Words /\ size \in Words
    <3>1. Instr.op \notin Openers \cup {"else", "end"}
      BY <1>1 DEF Openers
    <3>2. OperandsChecked(Fn, Act.pc)
      BY <1>1, <3>1, Straight
    <3> QED
      BY <1>1, <3>2 DEF OperandsChecked, Instr
  <2>5. stack[at] + Instr.arg.offset \in Nat
    <3> DEFINE x == stack[at]
               y == Instr.arg.offset
    <3>1. x \in Nat /\ y \in Nat
      BY <2>3, <2>4, MemoryAssumption DEF Words
    <3> HIDE DEF x, y
    <3>2. x + y \in Nat
      BY <3>1
    <3> QED
      BY <3>2 DEF x, y
  <2>6. addr \in Words
    BY <2>5, WrapsToWord
  <2> HIDE DEF addr, size
  <2>7. MemInv'
    BY <1>1, <1>3, <2>4, <2>6, AccessKeeps DEF MachineMem
  <2>8. UNCHANGED <<memPages, memLimit>>
    BY <1>3 DEF Access
  <2> QED
    BY <1>1, <2>7, <2>8 DEF MachineMem
<1>4. UNCHANGED memVars \/ (~(Len(stack) < n) /\ Access(addr, size))
  BY DEF LoadStore
<1> QED
  BY <1>2, <1>3, <1>4

LEMMA MemoryGrowMem ==
  ASSUME MachineInv, MemoryGrow
  PROVE  MachineMem'
<1>1. Running /\ Inv /\ MachineMem
  BY DEF MemoryGrow, MachineInv
<1>2. CASE stack = << >>
  <2>1. UNCHANGED memVars
    BY <1>2 DEF MemoryGrow
  <2> QED
    BY <1>1, <2>1, MemVarsStay
<1>3. CASE stack # << >>
  <2>1. PICK answer \in {memPages, Word - 1} : Grow(Last(stack), answer)
    BY <1>3 DEF MemoryGrow
  <2>2. answer \in Words /\ Last(stack) \in Words
    <3>1. stack \in Seq(Words)
      BY <1>1 DEF Inv, StackTypes
    <3>2. Last(stack) \in Words
      BY <1>3, <3>1, LastIs
    <3> QED
      BY <1>1, <3>2, MemoryAssumption DEF MachineMem, Words
  <2>3. MemInv'
    BY <1>1, <2>1, <2>2, GrowKeeps DEF MachineMem
  <2>4. memPages' \in Words /\ memLimit' \in Words
    <3>1. CASE Grows(Last(stack))
      <4> DEFINE pages == Last(stack)
                 want == Wrapped(memPages + pages)
      <4>1. memPages' = want /\ memLimit' = Wrapped(want * PageBytes)
        BY <2>1, <3>1 DEF Grow
      <4>2. memPages + pages \in Nat
        <5>1. memPages \in Nat /\ pages \in Nat
          BY <1>1, <2>2, MemoryAssumption DEF MachineMem, MemInv, Words
        <5> HIDE DEF pages
        <5> QED
          BY <5>1
      <4>3. want \in Words /\ want \in Nat
        BY <4>2, WrapsToWord, WrappedIsWord
      <4>4. want * PageBytes \in Nat
        <5> HIDE DEF want
        <5> QED
          BY <4>3, MemoryAssumption, Times
      <4> QED
        BY <4>1, <4>3, <4>4, WrapsToWord
    <3>2. CASE ~Grows(Last(stack))
      <4>1. UNCHANGED <<memPages, memLimit>>
        BY <2>1, <3>2 DEF Grow, memVars
      <4> QED
        BY <1>1, <4>1 DEF MachineMem
    <3> QED
      BY <3>1, <3>2
  <2> QED
    BY <2>3, <2>4 DEF MachineMem
<1> QED
  BY <1>2, <1>3

LEMMA MachineInit == Init => MachineInv
<1> SUFFICES ASSUME Init PROVE MachineInv
  OBVIOUS
<1>1. /\ prog \in Programs /\ stack = << >> /\ locals = << >> /\ ctrl = << >> /\ acts = << >>
      /\ reply = "none" /\ MemInit(StartPages)
  BY DEF Init
<1>2. Inv
  <2>1. {StackSize, LocalsSize, CtrlSize, Depth} \subseteq Nat
    BY LimitsAssumption
  <2>2. /\ stack \in Seq(Words) /\ Len(stack) = 0 /\ locals \in Seq(Words) /\ Len(locals) = 0
        /\ ctrl \in Seq(LabelRecords) /\ Len(ctrl) = 0 /\ acts \in Seq(Activations) /\ Len(acts) = 0
    BY <1>1
  <2>3. StackTypes
    BY <1>1, <2>1, <2>2 DEF StackTypes
  <2>4. TopFramed /\ CallersFramed /\ Ascending
    BY <1>1, <2>2 DEF TopFramed, CallersFramed, Ascending
  <2> QED
    BY <1>1, <2>3, <2>4 DEF Inv, NeverMalformed
<1>3. MachineMem
  <2>1. StartPages \in Words /\ StartPages \in Nat /\ StartPages * PageBytes \in Nat
    <3>1. StartPages \in Words /\ StartPages \in Nat
      BY LimitsAssumption, MemoryAssumption DEF Words
    <3> QED
      BY <3>1, MemoryAssumption, Times
  <2>2. /\ memPages = StartPages /\ memLimit = Wrapped(StartPages * PageBytes)
        /\ memLimit <= MemBytes /\ reach = 0 /\ wrapped = Wraps(StartPages * PageBytes)
    BY <1>1 DEF MemInit
  <2>3. memLimit \in Words /\ memLimit \in Nat
    BY <2>1, <2>2, WrapsToWord, WrappedIsWord
  <2>4. ASSUME ~wrapped PROVE memLimit = memPages * PageBytes
    <3>1. StartPages * PageBytes < Word
      BY <2>2, <2>4, Zenon DEF Wraps
    <3> QED
      BY <2>1, <2>2, <3>1, Small
  <2>5. wrapped \in BOOLEAN
    BY <2>2 DEF Wraps
  <2>6. reach <= MemBytes /\ reach <= memLimit /\ reach \in Nat
    BY <2>2, <2>3, MemoryAssumption
  <2> QED
    BY <2>1, <2>2, <2>3, <2>4, <2>5, <2>6 DEF MachineMem, MemInv, AccessesInside
<1> QED
  BY <1>2, <1>3 DEF MachineInv

LEMMA MachineNext ==
  ASSUME MachineInv, [Next]_vars
  PROVE  MachineInv'
<1>1. Inv /\ MachineMem /\ memPages \in Words
  BY DEF MachineInv, MachineMem
<1>2. CASE WasmCall
  BY <1>1, <1>2, WasmCallKeeps, MemVarsStay DEF WasmCall, MachineInv
<1>3. CASE BlockOrLoop
  BY <1>1, <1>3, BlockOrLoopKeeps, MemVarsStay DEF BlockOrLoop, Runs, MachineInv
<1>4. CASE If
  BY <1>1, <1>4, IfKeeps, MemVarsStay DEF If, Runs, MachineInv
<1>5. CASE Else
  BY <1>1, <1>5, ElseKeeps, MemVarsStay DEF Else, Runs, MachineInv
<1>6. CASE End
  BY <1>1, <1>6, EndKeeps, MemVarsStay DEF End, Runs, MachineInv
<1>7. CASE Br \/ BrIf \/ BrTable
  BY <1>1, <1>7, BranchKeeps, MemVarsStay DEF Br, BrIf, BrTable, Runs, MachineInv
<1>8. CASE Return
  BY <1>1, <1>8, ReturnKeeps, MemVarsStay DEF Return, Runs, MachineInv
<1>9. CASE Call
  BY <1>1, <1>9, CallKeeps, MemVarsStay DEF Call, Runs, MachineInv
<1>10. CASE Plain \/ Unreachable
  BY <1>1, <1>10, PlainKeeps, MemVarsStay DEF Plain, Unreachable, Runs, MachineInv
<1>11. CASE LocalGet
  BY <1>1, <1>11, LocalGetKeeps, MemVarsStay DEF LocalGet, Runs, MachineInv
<1>12. CASE LocalSet
  BY <1>1, <1>12, LocalSetKeeps, MemVarsStay DEF LocalSet, Runs, MachineInv
<1>13. CASE LoadStore
  BY <1>1, <1>13, MemoryKeeps, LoadStoreMem DEF MachineInv
<1>14. CASE MemoryGrow
  BY <1>1, <1>14, MemoryKeeps, MemoryGrowMem DEF MachineInv
<1>15. CASE UNCHANGED vars
  <2>1. UNCHANGED machineVars /\ UNCHANGED memVars
    BY <1>15 DEF vars
  <2>2. UNCHANGED <<prog, stack, locals, ctrl, acts, reply>>
    BY <2>1 DEF machineVars
  <2>3. StackTypes' /\ TopFramed' /\ CallersFramed' /\ Ascending' /\ NeverMalformed'
    BY <1>1, <2>2 DEF Inv, StackTypes, TopFramed, CallersFramed, Ascending, NeverMalformed
  <2> QED
    BY <1>1, <2>1, <2>3, MemVarsStay DEF Inv, MachineInv
<1> QED
  BY <1>2, <1>3, <1>4, <1>5, <1>6, <1>7, <1>8, <1>9, <1>10, <1>11, <1>12, <1>13, <1>14, <1>15
     DEF Next

LEMMA MachineTypes == MachineInv => TypeOK
<1> SUFFICES ASSUME MachineInv PROVE TypeOK
  OBVIOUS
<1>1. Inv /\ MachineMem
  BY DEF MachineInv
<1>2. ASSUME NEW i \in 1 .. Len(acts)
      PROVE  /\ acts[i].fn \in 1 .. Len(prog)
             /\ acts[i].pc \in 1 .. Len(prog[acts[i].fn].body)
             /\ acts[i].localsBase <= Len(locals) /\ acts[i].ctrlBase <= Len(ctrl)
             /\ acts[i].spBase <= Len(stack)
  <2>1. Running
    <3>1. acts # << >>
      BY <1>2
    <3> QED
      BY <3>1 DEF Running
  <2>2. acts[i].fn \in DOMAIN prog /\ acts[i].pc \in 1 .. Len(prog[acts[i].fn].body)
    <3>1. CASE i = Len(acts)
      BY <1>1, <2>1, <3>1, Here DEF Fn
    <3>2. CASE i # Len(acts)
      <4>1. i \in 1 .. Len(acts) - 1
        BY <1>1, <2>1, <3>2, Here
      <4> QED
        BY <1>1, <4>1 DEF Inv, CallersFramed, Framed
    <3> QED
      BY <3>1, <3>2
  <2>3. DOMAIN prog = 1 .. Len(prog)
    BY <1>1, ProgIs DEF Inv
  <2> DEFINE n == Len(acts)
             a == acts[i].localsBase
             b == acts[i].ctrlBase
             c == acts[i].spBase
             la == Act.localsBase
             cb == Act.ctrlBase
             sb == Act.spBase
             m == Len(Open(Fn.body, Act.pc))
             h == Height(Fn.body, Act.pc)
             x == Fn.params
             y == Fn.locals
  <2>4. n \in Nat \ {0} /\ Act = acts[n] /\ acts \in Seq(Activations)
    BY <1>1, <2>1, Here DEF Inv, StackTypes
  <2>5. a <= la /\ b <= cb /\ c <= sb
    <3>1. n \in 1 .. n /\ i <= n
      <4> HIDE DEF n
      <4> QED
        BY <1>2, <2>4 DEF n
    <3> QED
      BY <1>1, <1>2, <2>4, <3>1 DEF Inv, Ascending
  <2>6. a \in Nat /\ b \in Nat /\ c \in Nat
    <3>1. acts[i] \in Activations
      BY <1>2, <2>4, ElementOfSeq
    <3> QED
      BY <3>1 DEF Activations
  <2>7. /\ la \in Nat /\ cb \in Nat /\ sb \in Nat /\ m \in Nat /\ h \in Nat /\ x \in Nat /\ y \in Nat
        /\ Len(locals) = la + x + y /\ Len(ctrl) = cb + m /\ Len(stack) = sb + h
    BY <1>1, <2>1, Here
  <2>8. a <= Len(locals) /\ b <= Len(ctrl) /\ c <= Len(stack)
    <3> HIDE DEF a, b, c, la, cb, sb, m, h, x, y
    <3> QED
      BY <2>5, <2>6, <2>7
  <2> QED
    BY <2>2, <2>3, <2>8
<1>3. LabelRecords = [isLoop : BOOLEAN, cont : Nat, arity : {0, 1}, sp : 0 .. StackSize]
  BY DEF LabelRecords
<1> QED
  BY <1>1, <1>2, <1>3 DEF TypeOK, Inv, StackTypes, MachineMem

LEMMA MachineAlways == Spec => []MachineInv
<1>1. Init => MachineInv
  BY MachineInit
<1>2. MachineInv /\ [Next]_vars => MachineInv'
  BY MachineNext
<1> QED
  BY <1>1, <1>2, PTL DEF Spec

(* The interpreter's stacks hold what their declarations say, within       *)
(* WASM_STACK, WASM_LOCALS, WASM_CTRL and WASM_DEPTH, for all valid code,  *)
(* whatever the limits, the words and the memory.                          *)
THEOREM TypeCorrect == Spec => []TypeOK
<1>1. MachineInv => TypeOK
  BY MachineTypes
<1> QED
  BY <1>1, MachineAlways, PTL

(* On valid code run's checks for missing operands, missing `end`s and     *)
(* unknown functions and locals never fire: however a branch, a return or  *)
(* a call has cut and grown the shared stacks, the operands validation     *)
(* counted are there, and branch_target and else_or_end find their `end`.  *)
THEOREM ValidCodeRuns == Spec => []NeverMalformed
<1>1. MachineInv => NeverMalformed
  BY DEF MachineInv, Inv
<1> QED
  BY <1>1, MachineAlways, PTL

(* What MemoryAlways says of any sequence of accesses holds of the         *)
(* programs the interpreter runs: addresses come from its operand stack.   *)
THEOREM ProgramsStayInside == Spec => []AccessesInside
<1>1. MachineInv => AccessesInside
  BY DEF MachineInv, MachineMem, MemInv
<1> QED
  BY <1>1, MachineAlways, PTL

----------------------------------------------------------------------------
(* The blocks of the structured machine.  First the blocks that are open    *)
(* from one instruction to the next, and where a branch out of them lands.  *)

(* What holds at 1 and is handed on from each place to the next holds       *)
(* everywhere.                                                              *)
LEMMA Climb ==
  ASSUME NEW n \in Nat, NEW G, 1 \in G, \A p \in 1 .. n - 1 : p \in G => p + 1 \in G
  PROVE  \A p \in 1 .. n : p \in G
<1> DEFINE T == {p \in 1 .. n : p \notin G}
<1>1. SUFFICES ASSUME T # {} PROVE FALSE
  OBVIOUS
<1>2. PICK p \in T : \A q \in T : p <= q
  <2>1. T \in SUBSET Nat
    OBVIOUS
  <2> HIDE DEF T
  <2> QED
    BY <1>1, <2>1, LeastOf
<1>3. p \in 1 .. n /\ p # 1
  OBVIOUS
<1>4. p - 1 \in 1 .. n - 1 /\ p - 1 \notin T /\ p - 1 + 1 = p
  BY <1>2, <1>3
<1>5. p - 1 \in G
  BY <1>4
<1> QED
  BY <1>4, <1>5

LEMMA Descend ==
  ASSUME NEW n \in Nat, NEW G, n \in G, \A p \in 1 .. n - 1 : p + 1 \in G => p \in G
  PROVE  \A p \in 1 .. n : p \in G
<1> DEFINE H == {x \in Nat : n + 1 - x \in G}
<1>1. 1 \in H
  OBVIOUS
<1>2. ASSUME NEW x \in 1 .. n - 1, x \in H PROVE x + 1 \in H
  <2>1. n + 1 - x \in G /\ n - x \in 1 .. n - 1 /\ n - x + 1 = n + 1 - x
    BY <1>2
  <2>2. n - x \in G
    BY <2>1
  <2>3. n + 1 - (x + 1) = n - x
    BY <1>2
  <2> QED
    BY <2>2, <2>3
<1>3. \A x \in 1 .. n : x \in H
  <2> HIDE DEF H
  <2> QED
    BY <1>1, <1>2, Climb
<1> TAKE p \in 1 .. n
<1>4. n + 1 - p \in 1 .. n /\ n + 1 - (n + 1 - p) = p
  OBVIOUS
<1>5. n + 1 - p \in H
  BY <1>3, <1>4
<1> QED
  BY <1>4, <1>5

(* How many blocks are open before an instruction: the format counts the   *)
(* openings and the ends, validation keeps the blocks.                     *)
Level(body, p) == Len(Open(body, p))

LEMMA LevelIs ==
  ASSUME NEW pr, NEW f, ValidFunction(pr, f)
  PROVE  /\ Len(f.body) \in Nat \ {0} /\ Level(f.body, 1) = 0 /\ Level(f.body, Len(f.body)) = 0
         /\ \A p \in 1 .. Len(f.body) : Level(f.body, p) \in Nat
         /\ \A p \in 1 .. Len(f.body) - 1 :
              Level(f.body, p + 1) =
                IF Opens(f.body, p) THEN Level(f.body, p) + 1
                ELSE IF Closes(f.body, p) THEN Level(f.body, p) - 1
                ELSE Level(f.body, p)
<1> DEFINE body == f.body
           n == Len(body)
<1>1. n \in Nat \ {0} /\ \A p \in 1 .. n : Len(Open(body, p)) \in Nat
  BY TypedIs
<1>2. Open(body, 1) = << >>
  BY DEF ValidFunction
<1>3. Open(body, n) = << >>
  <2>1. EndsWell(f, n)
    BY <1>1 DEF ValidFunction
  <2> QED
    BY <2>1 DEF EndsWell
<1>4. ASSUME NEW p \in 1 .. n - 1
      PROVE  Len(Open(body, p + 1)) =
                IF Opens(body, p) THEN Len(Open(body, p)) + 1
                ELSE IF Closes(body, p) THEN Len(Open(body, p)) - 1
                ELSE Len(Open(body, p))
  <2>1. CASE Opens(body, p)
    BY <2>1, NextOpen
  <2>2. CASE Closes(body, p)
    <3>1. ~Opens(body, p) /\ Len(Open(body, p + 1)) = Len(Open(body, p)) - 1
      BY <2>2, NextOpen
    <3> QED
      BY <2>2, <3>1
  <2>3. CASE body[p].op = "else"
    <3>1. ~Opens(body, p) /\ ~Closes(body, p) /\ Len(Open(body, p + 1)) = Len(Open(body, p))
      BY <2>3, NextOpen
    <3> QED
      BY <2>3, <3>1
  <2>4. CASE ~Opens(body, p) /\ ~Closes(body, p) /\ body[p].op # "else"
    <3>1. Open(body, p + 1) = Open(body, p)
      BY <2>4, NextOpen
    <3> QED
      BY <2>4, <3>1
  <2> QED
    BY <2>1, <2>2, <2>3, <2>4
<1> QED
  BY <1>1, <1>2, <1>3, <1>4 DEF Level

LEMMA NestIs ==
  ASSUME NEW pr, NEW f, ValidFunction(pr, f)
  PROVE  \A p \in 1 .. Len(f.body) : Nest(f.body, p) = Level(f.body, p)
<1> DEFINE body == f.body
           n == Len(body)
           O(p) == {q \in 1 .. p - 1 : Opens(body, q)}
           C(p) == {q \in 1 .. p - 1 : Closes(body, q)}
           G == {p \in 1 .. n : Nest(body, p) = Level(body, p)}
<1>1. n \in Nat \ {0} /\ Level(body, 1) = 0
  BY LevelIs
<1>2. \A p \in 1 .. n : Nest(body, p) = Cardinality(O(p)) - Cardinality(C(p))
  BY DEF Nest
<1>3. ASSUME NEW p \in 1 .. n
      PROVE  /\ IsFiniteSet(O(p)) /\ Cardinality(O(p)) \in Nat
             /\ IsFiniteSet(C(p)) /\ Cardinality(C(p)) \in Nat
  <2>1. IsFiniteSet(1 .. p - 1)
    BY <1>1, FS_Interval
  <2>2. O(p) \in SUBSET (1 .. p - 1) /\ C(p) \in SUBSET (1 .. p - 1)
    OBVIOUS
  <2> HIDE DEF O, C
  <2>3. IsFiniteSet(O(p)) /\ IsFiniteSet(C(p))
    BY <2>1, <2>2, FS_Subset
  <2> QED
    BY <2>3, FS_CardinalityType
<1>4. 1 \in G
  <2>1. O(1) = {} /\ C(1) = {}
    OBVIOUS
  <2> HIDE DEF O, C
  <2>2. 1 \in 1 .. n /\ Nest(body, 1) = Cardinality(O(1)) - Cardinality(C(1))
    BY <1>1, <1>2
  <2>3. Nest(body, 1) = 0
    BY <2>1, <2>2, FS_EmptySet
  <2> QED
    BY <1>1, <2>2, <2>3
<1>5. ASSUME NEW p \in 1 .. n - 1, p \in G PROVE p + 1 \in G
  <2>1. p \in 1 .. n /\ p + 1 \in 1 .. n
    BY <1>1
  <2>2. /\ O(p + 1) = IF Opens(body, p) THEN O(p) \cup {p} ELSE O(p)
        /\ C(p + 1) = IF Closes(body, p) THEN C(p) \cup {p} ELSE C(p)
        /\ p \notin O(p) /\ p \notin C(p)
    OBVIOUS
  <2>3. /\ Nest(body, p) = Cardinality(O(p)) - Cardinality(C(p))
        /\ Nest(body, p + 1) = Cardinality(O(p + 1)) - Cardinality(C(p + 1))
    BY <1>2, <2>1
  <2>4. Nest(body, p) = Level(body, p)
    BY <1>5
  <2>5. Level(body, p + 1) = IF Opens(body, p) THEN Level(body, p) + 1
                             ELSE IF Closes(body, p) THEN Level(body, p) - 1
                             ELSE Level(body, p)
    BY LevelIs
  <2>6. ~(Opens(body, p) /\ Closes(body, p))
    BY DEF Opens, Closes, Openers
  <2> HIDE DEF O, C
  <2>7. Cardinality(O(p + 1)) = IF Opens(body, p) THEN Cardinality(O(p)) + 1 ELSE Cardinality(O(p))
    BY <1>3, <2>1, <2>2, FS_AddElement
  <2>8. Cardinality(C(p + 1)) = IF Closes(body, p) THEN Cardinality(C(p)) + 1 ELSE Cardinality(C(p))
    BY <1>3, <2>1, <2>2, FS_AddElement
  <2>9. Cardinality(O(p)) \in Nat /\ Cardinality(C(p)) \in Nat
    BY <1>3, <2>1
  <2>10. Nest(body, p + 1) = Level(body, p + 1)
    BY <2>3, <2>4, <2>5, <2>6, <2>7, <2>8, <2>9
  <2> QED
    BY <2>1, <2>10
<1>6. \A p \in 1 .. n : p \in G
  <2> HIDE DEF G
  <2>1. n \in Nat
    BY <1>1
  <2> HIDE DEF n
  <2> QED
    BY <1>4, <1>5, <2>1, Climb
<1> QED
  BY <1>6

(* The `end` of a block is the first at its level.                         *)
Closing(body, p, e) ==
  /\ e \in p + 1 .. Len(body) /\ Closes(body, e) /\ Level(body, e) = Level(body, p) + 1
  /\ \A r \in p + 1 .. e : Level(body, r) > Level(body, p)

LEMMA ClosingOnce ==
  ASSUME NEW pr, NEW f, ValidFunction(pr, f), NEW p \in 1 .. Len(f.body),
         NEW d, NEW e, Closing(f.body, p, d), Closing(f.body, p, e)
  PROVE  ~(d < e)
<1> DEFINE body == f.body
           n == Len(body)
<1>1. n \in Nat \ {0} /\ \A q \in 1 .. n : Level(body, q) \in Nat
  BY LevelIs
<1>2. d \in p + 1 .. n /\ e \in p + 1 .. n /\ Closes(body, d) /\ Level(body, d) = Level(body, p) + 1
  BY DEF Closing
<1>3. ~Opens(body, d)
  BY <1>2 DEF Opens, Closes, Openers
<1>4. SUFFICES ASSUME d < e PROVE FALSE
  OBVIOUS
<1>5. d \in 1 .. n - 1 /\ d + 1 \in p + 1 .. e
  BY <1>1, <1>2, <1>4
<1>6. Level(body, d + 1) = Level(body, d) - 1
  BY <1>2, <1>3, <1>5, LevelIs
<1>7. Level(body, d + 1) > Level(body, p)
  BY <1>5 DEF Closing
<1> QED
  BY <1>1, <1>2, <1>6, <1>7

LEMMA EndOfIs ==
  ASSUME NEW pr, NEW f, ValidFunction(pr, f), NEW p \in 1 .. Len(f.body), Opens(f.body, p)
  PROVE  /\ Closing(f.body, p, EndOf(f.body, p))
         /\ \A e : Closing(f.body, p, e) => EndOf(f.body, p) = e
<1> DEFINE body == f.body
           n == Len(body)
           T == {r \in p + 1 .. n : Level(body, r) <= Level(body, p)}
           Fits(e) == /\ Closes(body, e) /\ Nest(body, e) = Nest(body, p) + 1
                      /\ \A r \in p + 1 .. e : Nest(body, r) > Nest(body, p)
<1>1. n \in Nat \ {0} /\ Level(body, n) = 0 /\ \A q \in 1 .. n : Level(body, q) \in Nat
  BY LevelIs
<1>2. p # n
  <2>1. EndsWell(f, n)
    BY <1>1 DEF ValidFunction
  <2>2. Closes(body, n)
    BY <2>1 DEF EndsWell
  <2> QED
    BY <2>2 DEF Opens, Closes, Openers
<1>3. p \in 1 .. n - 1 /\ Level(body, p + 1) = Level(body, p) + 1
  BY <1>1, <1>2, LevelIs
<1>4. n \in T
  BY <1>1, <1>3
<1>5. PICK r \in T : \A s \in T : r <= s
  <2>1. T \in SUBSET Nat
    BY <1>1
  <2> HIDE DEF T
  <2> QED
    BY <1>4, <2>1, LeastOf
<1>6. r \in p + 2 .. n /\ Level(body, r) <= Level(body, p)
  <2>1. r # p + 1
    BY <1>1, <1>3
  <2> QED
    BY <1>1, <1>3, <2>1
<1>7. \A s \in p + 1 .. r - 1 : Level(body, s) > Level(body, p)
  <2> TAKE s \in p + 1 .. r - 1
  <2>1. s \in p + 1 .. n /\ s \in 1 .. n /\ p \in 1 .. n
    BY <1>1, <1>3, <1>6
  <2>2. s \notin T
    BY <1>1, <1>5, <1>6
  <2> QED
    BY <1>1, <2>1, <2>2
<1>8. Closing(body, p, r - 1)
  <2>1. r - 1 \in 1 .. n - 1 /\ r - 1 \in p + 1 .. r - 1 /\ r - 1 + 1 = r /\ r - 1 \in p + 1 .. n
    BY <1>1, <1>3, <1>6
  <2>2. Level(body, r - 1) > Level(body, p)
    BY <1>7, <2>1
  <2>3. Level(body, r - 1 + 1) = IF Opens(body, r - 1) THEN Level(body, r - 1) + 1
                         ELSE IF Closes(body, r - 1) THEN Level(body, r - 1) - 1
                         ELSE Level(body, r - 1)
    BY <2>1, LevelIs
  <2>4. r - 1 \in 1 .. n /\ p \in 1 .. n
    BY <1>1, <2>1
  <2>5. Closes(body, r - 1) /\ Level(body, r - 1) = Level(body, p) + 1
    BY <1>1, <1>6, <2>1, <2>2, <2>3, <2>4
  <2> QED
    BY <1>7, <2>1, <2>5 DEF Closing
<1>9. \A e \in p + 1 .. n : Fits(e) <=> Closing(body, p, e)
  <2> TAKE e \in p + 1 .. n
  <2>1. \A q \in p + 1 .. e : q \in 1 .. n
    BY <1>1
  <2>2. e \in 1 .. n /\ \A q \in 1 .. n : Nest(body, q) = Level(body, q)
    BY <1>1, NestIs
  <2> QED
    BY <2>1, <2>2 DEF Closing
<1>10. EndOf(body, p) = CHOOSE e \in p + 1 .. n : Fits(e)
  BY DEF EndOf
<1> HIDE DEF Fits
<1>11. Closing(body, p, EndOf(body, p))
  <2>1. r - 1 \in p + 1 .. n
    BY <1>8 DEF Closing
  <2>2. EndOf(body, p) \in p + 1 .. n /\ Fits(EndOf(body, p))
    BY <1>8, <1>9, <1>10, <2>1
  <2> QED
    BY <1>9, <2>2
<1>12. ASSUME NEW e, Closing(body, p, e) PROVE EndOf(body, p) = e
  <2>1. ~(EndOf(body, p) < e) /\ ~(e < EndOf(body, p))
    BY <1>11, <1>12, ClosingOnce
  <2>2. e \in p + 1 .. n /\ EndOf(body, p) \in p + 1 .. n
    BY <1>11, <1>12 DEF Closing
  <2> QED
    BY <1>1, <2>1, <2>2
<1> QED
  BY <1>11, <1>12

(* The instruction that began an open block is still open.                 *)
Opened(body, p) ==
  \A j \in 1 .. Level(body, p) :
    LET b == Open(body, p)[j]
        q == b.at - 1
    IN  /\ q \in 1 .. p - 1 /\ Opens(body, q) /\ Level(body, q) = j - 1
        /\ \A r \in q + 1 .. p : Level(body, r) >= j
        /\ b.op = "loop" <=> body[q].op = "loop"
        /\ b.arity = body[q].arg

LEMMA OpenedNext ==
  ASSUME NEW pr, NEW f, ValidFunction(pr, f), NEW p \in 1 .. Len(f.body) - 1,
         Opened(f.body, p)
  PROVE  Opened(f.body, p + 1)
<1> DEFINE body == f.body
           o == Open(body, p)
           next == Open(body, p + 1)
<1>1. /\ Len(body) \in Nat \ {0} /\ p \in 1 .. Len(body) /\ p + 1 \in 1 .. Len(body)
      /\ Level(body, p) \in Nat /\ Level(body, p + 1) \in Nat
  BY LevelIs
<1>2. Level(body, p) = Len(o) /\ Level(body, p + 1) = Len(next)
  BY DEF Level
<1>3. ASSUME NEW j \in 1 .. Level(body, p), j <= Level(body, p + 1),
             next[j].at = o[j].at, next[j].arity = o[j].arity,
             next[j].op = "loop" <=> o[j].op = "loop"
      PROVE  LET b == next[j]
                 q == b.at - 1
             IN  /\ q \in 1 .. p /\ Opens(body, q) /\ Level(body, q) = j - 1
                 /\ \A r \in q + 1 .. p + 1 : Level(body, r) >= j
                 /\ b.op = "loop" <=> body[q].op = "loop"
                 /\ b.arity = body[q].arg
  <2> DEFINE q == o[j].at - 1
  <2>1. /\ q \in 1 .. p - 1 /\ Opens(body, q) /\ Level(body, q) = j - 1
        /\ \A r \in q + 1 .. p : Level(body, r) >= j
        /\ o[j].op = "loop" <=> body[q].op = "loop"
        /\ o[j].arity = body[q].arg
    BY DEF Opened
  <2>2. next[j].at - 1 = q
    BY <1>3
  <2> HIDE DEF q, next, o, body
  <2>3. \A r \in q + 1 .. p + 1 : Level(body, r) >= j
    BY <1>1, <1>3, <2>1
  <2> QED
    BY <1>3, <2>1, <2>2, <2>3
<1>4. SUFFICES ASSUME NEW j \in 1 .. Level(body, p + 1)
               PROVE  LET b == next[j]
                          q == b.at - 1
                      IN  /\ q \in 1 .. p /\ Opens(body, q) /\ Level(body, q) = j - 1
                          /\ \A r \in q + 1 .. p + 1 : Level(body, r) >= j
                          /\ b.op = "loop" <=> body[q].op = "loop"
                          /\ b.arity = body[q].arg
  <2>1. p + 1 - 1 = p
    OBVIOUS
  <2> QED
    BY <2>1, <1>4 DEF Opened
<1>5. CASE Opens(body, p)
  <2>1. /\ Len(next) = Len(o) + 1 /\ next[Len(o) + 1] = Begun(body, p)
        /\ \A i \in 1 .. Len(o) : next[i] = o[i]
    BY <1>5, NextOpen
  <2>2. CASE j = Len(o) + 1
    <3>1. next[j].op = body[p].op /\ next[j].at = p + 1 /\ next[j].arity = body[p].arg
      BY <2>1, <2>2 DEF Begun
    <3>2. next[j].at - 1 = p
      BY <3>1
    <3>3. Level(body, p) = j - 1 /\ Level(body, p + 1) >= j
      BY <1>1, <1>2, <2>1, <2>2
    <3> QED
      BY <1>5, <3>1, <3>2, <3>3
  <2>3. CASE j \in 1 .. Len(o)
    <3>1. j \in 1 .. Level(body, p) /\ j <= Level(body, p + 1) /\ next[j] = o[j]
      BY <1>1, <1>2, <2>1, <2>3
    <3> QED
      BY <1>3, <3>1
  <2> QED
    BY <1>1, <1>2, <2>1, <2>2, <2>3
<1>6. CASE Closes(body, p)
  <2>1. Len(next) = Len(o) - 1 /\ \A i \in 1 .. Len(o) - 1 : next[i] = o[i]
    BY <1>6, NextOpen
  <2>2. j \in 1 .. Level(body, p) /\ j <= Level(body, p + 1) /\ next[j] = o[j]
    BY <1>1, <1>2, <2>1
  <2> QED
    BY <1>3, <2>2
<1>7. CASE body[p].op = "else"
  <2>1. /\ Len(o) \in Nat \ {0} /\ Len(next) = Len(o) /\ next[Len(o)] = Other(body, p)
        /\ Last(o) = o[Len(o)] /\ o[Len(o)].op = "if"
        /\ \A i \in 1 .. Len(o) - 1 : next[i] = o[i]
    BY <1>7, NextOpen
  <2>2. j \in 1 .. Level(body, p) /\ j <= Level(body, p + 1)
    BY <1>1, <1>2, <2>1
  <2>3. CASE j # Len(o)
    <3>1. next[j] = o[j]
      BY <1>1, <1>2, <2>1, <2>3
    <3> QED
      BY <1>3, <2>2, <3>1
  <2>4. CASE j = Len(o)
    <3>1. o \in Seq(OpenBlocks(body))
      BY <1>1, TypedIs
    <3>2. o[j] \in OpenBlocks(body)
      <4> HIDE DEF o
      <4> QED
        BY <2>1, <2>4, <3>1, ElementOfSeq
    <3>3. next[j] = [o[j] EXCEPT !.op = "else"]
      BY <2>1, <2>4 DEF Other
    <3>4. next[j].at = o[j].at /\ next[j].arity = o[j].arity /\ next[j].op = "else"
      BY <3>2, <3>3 DEF OpenBlocks
    <3>5. next[j].op = "loop" <=> o[j].op = "loop"
      BY <2>1, <2>4, <3>4
    <3> QED
      BY <1>3, <2>2, <3>4, <3>5
  <2> QED
    BY <2>3, <2>4
<1>8. CASE ~Opens(body, p) /\ ~Closes(body, p) /\ body[p].op # "else"
  <2>1. next = o
    BY <1>8, NextOpen
  <2>2. j \in 1 .. Level(body, p) /\ j <= Level(body, p + 1) /\ next[j] = o[j]
    BY <1>1, <1>2, <2>1
  <2> QED
    BY <1>3, <2>2
<1> QED
  BY <1>5, <1>6, <1>7, <1>8

LEMMA AllOpened ==
  ASSUME NEW pr, NEW f, ValidFunction(pr, f)
  PROVE  \A p \in 1 .. Len(f.body) : Opened(f.body, p)
<1> DEFINE n == Len(f.body)
           G == {p \in 1 .. n : Opened(f.body, p)}
<1>1. n \in Nat \ {0} /\ Level(f.body, 1) = 0
  BY LevelIs
<1>2. 1 \in G
  BY <1>1 DEF Opened
<1>3. ASSUME NEW p \in 1 .. n - 1, p \in G PROVE p + 1 \in G
  <2>1. Opened(f.body, p + 1)
    BY <1>3, OpenedNext
  <2> QED
    BY <1>1, <2>1
<1>4. \A p \in 1 .. n : p \in G
  <2>1. n \in Nat
    BY <1>1
  <2> HIDE DEF G, n
  <2> QED
    BY <1>2, <1>3, <2>1, Climb
<1> QED
  BY <1>4

(* The block the format means by the l-th around an instruction.           *)
LEMMA EnclosingIs ==
  ASSUME NEW pr, NEW f, ValidFunction(pr, f), NEW p \in 1 .. Len(f.body)
  PROVE  Enclosing(f.body, p) = {Open(f.body, p)[j].at - 1 : j \in 1 .. Level(f.body, p)}
<1> DEFINE body == f.body
           n == Len(body)
           q(j) == Open(body, p)[j].at - 1
           D == Level(body, p)
<1>1. n \in Nat \ {0} /\ \A r \in 1 .. n : Level(body, r) \in Nat
  BY LevelIs
<1>2. \A j \in 1 .. D : /\ q(j) \in 1 .. p - 1 /\ Opens(body, q(j)) /\ Level(body, q(j)) = j - 1
                        /\ \A r \in q(j) + 1 .. p : Level(body, r) >= j
  BY AllOpened DEF Opened
<1>3. ASSUME NEW j \in 1 .. D PROVE q(j) \in Enclosing(body, p)
  <2> DEFINE e == EndOf(body, q(j))
  <2> HIDE DEF q
  <2>1. q(j) \in 1 .. n /\ Opens(body, q(j)) /\ D \in Nat
    BY <1>1, <1>2
  <2>2. Closing(body, q(j), e)
    BY <2>1, EndOfIs
  <2>3. e \in q(j) + 1 .. n /\ Closes(body, e) /\ Level(body, e) = j
    BY <1>1, <1>2, <2>1, <2>2 DEF Closing
  <2>4. e >= p
    <3>1. SUFFICES ASSUME e < p PROVE FALSE
      BY <2>1, <2>3
    <3>2. e \in 1 .. n - 1 /\ e + 1 \in q(j) + 1 .. p
      BY <1>1, <2>1, <2>3, <3>1
    <3>3. ~Opens(body, e)
      BY <2>3 DEF Opens, Closes, Openers
    <3>4. Level(body, e + 1) = Level(body, e) - 1
      BY <2>3, <3>2, <3>3, LevelIs
    <3>5. Level(body, e + 1) >= j
      BY <1>2, <3>2
    <3> HIDE DEF e, D
    <3> QED
      BY <2>3, <3>4, <3>5
  <2> QED
    BY <1>2, <2>4 DEF Enclosing
<1>4. ASSUME NEW r \in Enclosing(body, p) PROVE \E j \in 1 .. D : r = q(j)
  <2> DEFINE j == Level(body, r) + 1
  <2>1. r \in 1 .. p - 1 /\ r \in 1 .. n /\ Opens(body, r) /\ EndOf(body, r) >= p
    BY <1>1 DEF Enclosing
  <2>2. \A s \in r + 1 .. EndOf(body, r) : Level(body, s) > Level(body, r)
    BY <2>1, EndOfIs DEF Closing
  <2>3. EndOf(body, r) \in Int
    BY <1>1, <2>1, EndOfIs DEF Closing
  <2>4. \A s \in r + 1 .. p : Level(body, s) >= j
    <3> TAKE s \in r + 1 .. p
    <3>1. s \in r + 1 .. EndOf(body, r) /\ s \in 1 .. n
      BY <1>1, <2>1, <2>3
    <3> QED
      BY <1>1, <2>1, <2>2, <3>1
  <2>5. j \in 1 .. D
    BY <1>1, <2>1, <2>4
  <2>6. /\ q(j) \in 1 .. p - 1 /\ Level(body, q(j)) = j - 1 
        /\ \A s \in q(j) + 1 .. p : Level(body, s) >= j
    BY <1>2, <2>5
  <2>7. Level(body, r) = j - 1 /\ j \in Nat
    BY <1>1, <2>1
  <2> HIDE DEF j, q
  <2>8. ~(r < q(j)) /\ ~(q(j) < r)
    BY <2>1, <2>4, <2>6, <2>7
  <2> QED
    BY <2>1, <2>5, <2>6, <2>8
<1> QED
  BY <1>3, <1>4

LEMMA AroundIs ==
  ASSUME NEW pr, NEW f, ValidFunction(pr, f), NEW p \in 1 .. Len(f.body),
         NEW l \in Nat, l < Level(f.body, p)
  PROVE  Around(f.body, p, l) = Open(f.body, p)[Level(f.body, p) - l].at - 1
<1> DEFINE body == f.body
           D == Level(body, p)
           q == [j \in 1 .. D |-> Open(body, p)[j].at - 1]
           E == Enclosing(body, p)
           Inside(j) == {r \in E : r > q[j]}
<1>1. D \in Nat /\ \A r \in 1 .. Len(body) : Level(body, r) \in Nat
  BY LevelIs
<1>2. \A j \in 1 .. D : /\ q[j] \in 1 .. p - 1 /\ Level(body, q[j]) = j - 1
                        /\ \A r \in q[j] + 1 .. p : Level(body, r) >= j
  BY AllOpened DEF Opened
<1>3. E = {q[j] : j \in 1 .. D}
  BY EnclosingIs
<1> HIDE DEF q, D, E
<1>4. \A i, j \in 1 .. D : q[j] < q[i] <=> j < i
  <2>1. ASSUME NEW i \in 1 .. D, NEW j \in 1 .. D, q[j] < q[i] PROVE j < i
    <3>1. q[i] \in q[j] + 1 .. p /\ Level(body, q[i]) = i - 1
      BY <1>2, <2>1
    <3>2. Level(body, q[i]) >= j
      BY <1>2, <3>1
    <3> QED
      BY <1>1, <3>1, <3>2
  <2>2. ASSUME NEW i \in 1 .. D, NEW j \in 1 .. D, q[i] = q[j] PROVE i = j
    BY <1>1, <1>2, <2>2
  <2>3. \A i, j \in 1 .. D : q[i] \in Int /\ i \in Int
    BY <1>1, <1>2
  <2> QED
    BY <2>1, <2>2, <2>3
<1>5. ASSUME NEW j \in 1 .. D PROVE Cardinality(Inside(j)) = D - j
  <2> DEFINE S == j + 1 .. D
             g == [i \in S |-> q[i]]
  <2>1. Inside(j) = {q[i] : i \in S}
    BY <1>1, <1>3, <1>4
  <2>2. IsFiniteSet(S) /\ Cardinality(S) = D - j
    <3>1. j + 1 \in Int /\ D \in Int
      BY <1>1
    <3>2. IsFiniteSet(j + 1 .. D) /\ Cardinality(j + 1 .. D) = IF j + 1 > D THEN 0 ELSE D - (j + 1) + 1
      BY <3>1, FS_Interval
    <3>3. (IF j + 1 > D THEN 0 ELSE D - (j + 1) + 1) = D - j
      BY <1>1
    <3> QED
      BY <3>2, <3>3
  <2>3. \A i \in S : i \in 1 .. D
    BY <1>1
  <2>4. \A i, k \in S : q[i] = q[k] => i = k
    BY <1>1, <1>2, <2>3
  <2> HIDE DEF S, Inside
  <2>5. g \in Bijection(S, Inside(j))
    <3>1. g \in [S -> Inside(j)]
      BY <2>1
    <3>2. \A a, b \in S : g[a] = g[b] => a = b
      BY <2>4
    <3>3. \A t \in Inside(j) : \E s \in S : g[s] = t
      BY <2>1
    <3>4. DOMAIN g = S
      OBVIOUS
    <3> HIDE DEF g
    <3>5. IsInjective(g)
      BY <3>2, <3>4 DEF IsInjective
    <3> QED
      BY <3>1, <3>3, <3>5 DEF Bijection, Injection, Surjection
  <2>6. ExistsBijection(S, Inside(j))
    BY <2>5 DEF ExistsBijection
  <2> QED
    BY <2>2, <2>6, FS_Bijection
<1>6. Around(body, p, l) = CHOOSE x \in E : Cardinality({r \in E : r > x}) = l
  BY DEF Around, E
<1>7. D - l \in 1 .. D /\ l < D
  BY <1>1 DEF D
<1>8. q[D - l] \in E /\ Cardinality({r \in E : r > q[D - l]}) = l
  BY <1>1, <1>3, <1>5, <1>7
<1>9. ASSUME NEW x \in E, Cardinality({r \in E : r > x}) = l PROVE x = q[D - l]
  <2>1. PICK j \in 1 .. D : x = q[j]
    BY <1>3
  <2>2. D - j = l
    BY <1>5, <1>9, <2>1
  <2>3. j = D - l
    BY <1>1, <2>2
  <2> QED
    BY <2>1, <2>3
<1>10. Around(body, p, l) = q[D - l]
  BY <1>6, <1>8, <1>9
<1> QED
  BY <1>7, <1>10 DEF q, D

(* branch_target lands behind the first `end` at the level of the block.   *)
Ended(body, q, k, r) ==
  /\ r \in q + 1 .. Len(body) /\ Closes(body, r - 1) /\ Level(body, r - 1) = k
  /\ \A s \in q .. r - 1 : Level(body, s) >= k

EndedAll(body, q) ==
  \A depth, left \in Nat :
    depth + left < Level(body, q) =>
      Ended(body, q, Level(body, q) - depth - left, BranchScan(body)[q][depth][left])

LEMMA EndedBefore ==
  ASSUME NEW pr, NEW f, ValidFunction(pr, f), NEW q \in 1 .. Len(f.body) - 1,
         EndedAll(f.body, q + 1)
  PROVE  EndedAll(f.body, q)
<1> DEFINE body == f.body
           n == Len(body)
           D == Level(body, q)
           E == Level(body, q + 1)
           scan == BranchScan(body)
<1>1. /\ n \in Nat /\ q \in 1 .. n /\ q < n /\ D \in Nat /\ E \in Nat
      /\ E = IF Opens(body, q) THEN D + 1 ELSE IF Closes(body, q) THEN D - 1 ELSE D
  BY LevelIs
<1>2. D < q
  BY <1>1, AllWellOpen DEF WellOpen, Level
<1>3. scan[q] = BranchFrom(body, q, scan[q + 1])
  <2>1. q \in 1 .. Len(body) + 1 /\ ~(q > Len(body)) /\ Len(body) \in Nat
    BY <1>1
  <2> HIDE DEF body
  <2> QED
    BY <2>1, BranchScanIs
<1>4. \A d, l \in Nat : d + l < E => Ended(body, q + 1, E - d - l, scan[q + 1][d][l])
  BY DEF EndedAll
<1>5. SUFFICES ASSUME NEW d \in Nat, NEW l \in Nat, d + l < D
               PROVE  Ended(body, q, D - d - l, scan[q][d][l])
  BY DEF EndedAll
<1>6. d \in 0 .. n /\ l \in 0 .. n
  BY <1>1, <1>2, <1>5
<1>7. scan[q][d][l] =
        IF Opens(body, q) THEN scan[q + 1][d + 1][l]
        ELSE IF Closes(body, q) /\ d > 0 THEN scan[q + 1][d - 1][l]
        ELSE IF Closes(body, q) /\ l = 0 THEN q + 1
        ELSE IF Closes(body, q) THEN scan[q + 1][d][l - 1]
        ELSE scan[q + 1][d][l]
  <2> HIDE DEF body, scan
  <2> QED
    BY <1>3, <1>6 DEF BranchFrom, n
<1> DEFINE k == D - d - l
<1>8. k \in 1 .. D
  BY <1>1, <1>5
<1>9. ASSUME NEW r, Ended(body, q + 1, k, r)
      PROVE  Ended(body, q, k, r)
  <2>1. /\ r \in q + 1 + 1 .. n /\ Closes(body, r - 1) /\ Level(body, r - 1) = k
        /\ \A s \in q + 1 .. r - 1 : Level(body, s) >= k
    BY <1>9 DEF Ended
  <2>2. Level(body, q) >= k
    BY <1>1, <1>8
  <2> HIDE DEF k, D, E, body
  <2>3. r \in q + 1 .. n /\ \A s \in q .. r - 1 : Level(body, s) >= k
    BY <1>1, <2>1, <2>2
  <2> QED
    BY <2>1, <2>3 DEF Ended, n
<1>10. CASE Opens(body, q)
  <2>1. d + 1 \in Nat /\ d + 1 + l < E /\ E - (d + 1) - l = k
    BY <1>1, <1>5, <1>10
  <2>2. Ended(body, q + 1, k, scan[q + 1][d + 1][l])
    BY <1>4, <2>1
  <2> QED
    BY <1>7, <1>9, <1>10, <2>2
<1>11. CASE Closes(body, q)
  <2>1. ~Opens(body, q) /\ E = D - 1
    BY <1>1, <1>11 DEF Opens, Closes, Openers
  <2>2. CASE d > 0
    <3>1. d - 1 \in Nat /\ d - 1 + l < E /\ E - (d - 1) - l = k
      BY <1>1, <1>5, <2>1, <2>2
    <3>2. Ended(body, q + 1, k, scan[q + 1][d - 1][l])
      BY <1>4, <3>1
    <3> QED
      BY <1>7, <1>9, <1>11, <2>1, <2>2, <3>2
  <2>3. CASE d = 0 /\ l = 0
    <3>1. scan[q][d][l] = q + 1 /\ k = D
      BY <1>1, <1>7, <1>11, <2>1, <2>3
    <3>2. q + 1 \in q + 1 .. n /\ q + 1 - 1 = q
      BY <1>1
    <3>3. \A s \in q .. q : s = q
      BY <1>1
    <3>4. Ended(body, q, D, q + 1)
      BY <1>1, <1>11, <3>2, <3>3 DEF Ended
    <3> QED
      BY <3>1, <3>4
  <2>4. CASE d = 0 /\ l # 0
    <3>1. l - 1 \in Nat /\ d + (l - 1) < E /\ E - d - (l - 1) = k
      BY <1>1, <1>5, <2>1, <2>4
    <3>2. Ended(body, q + 1, k, scan[q + 1][d][l - 1])
      BY <1>4, <3>1
    <3>3. scan[q][d][l] = scan[q + 1][d][l - 1]
      BY <1>7, <1>11, <2>1, <2>4
    <3> QED
      BY <1>9, <3>2, <3>3
  <2> QED
    BY <2>2, <2>3, <2>4
<1>12. CASE ~Opens(body, q) /\ ~Closes(body, q)
  <2>1. d + l < E /\ E - d - l = k
    BY <1>1, <1>5, <1>12
  <2>2. Ended(body, q + 1, k, scan[q + 1][d][l])
    BY <1>4, <2>1
  <2> QED
    BY <1>7, <1>9, <1>12, <2>2
<1> QED
  BY <1>10, <1>11, <1>12

LEMMA TargetEnds ==
  ASSUME NEW pr, NEW f, ValidFunction(pr, f), NEW q \in 1 .. Len(f.body),
         NEW l \in Nat, l < Level(f.body, q)
  PROVE  Ended(f.body, q, Level(f.body, q) - l, BranchTarget(f.body, q, l))
<1> DEFINE n == Len(f.body)
           G == {p \in 1 .. n : EndedAll(f.body, p)}
<1>1. n \in Nat \ {0} /\ Level(f.body, n) = 0 /\ Level(f.body, q) \in Nat
  BY LevelIs
<1>2. n \in G
  BY <1>1 DEF EndedAll
<1>3. ASSUME NEW p \in 1 .. n - 1, p + 1 \in G PROVE p \in G
  <2>1. EndedAll(f.body, p)
    BY <1>3, EndedBefore
  <2> QED
    BY <1>1, <2>1
<1>4. q \in G
  <2>1. n \in Nat /\ q \in 1 .. n
    BY <1>1
  <2> HIDE DEF G, n
  <2> QED
    BY <1>2, <1>3, <2>1, Descend
<1>5. 0 + l < Level(f.body, q) /\ Level(f.body, q) - 0 - l = Level(f.body, q) - l /\ 0 \in Nat
  BY <1>1
<1> QED
  BY <1>4, <1>5 DEF EndedAll, BranchTarget

(* else_or_end lands behind the first `else` or `end` at the level of the  *)
(* `if`'s arm.                                                             *)
ArmEnded(body, q, k, r) ==
  /\ r \in q + 1 .. Len(body) /\ Level(body, r - 1) = k
  /\ Closes(body, r - 1) \/ body[r - 1].op = "else"
  /\ \A s \in q .. r - 1 : Level(body, s) >= k
  /\ \A s \in q .. r - 2 : ~(body[s].op = "else" /\ Level(body, s) = k)

ArmEndedAll(body, q) ==
  \A depth \in Nat :
    depth < Level(body, q) =>
      ArmEnded(body, q, Level(body, q) - depth, ElseScan(body)[q][depth])

LEMMA ArmEndedBefore ==
  ASSUME NEW pr, NEW f, ValidFunction(pr, f), NEW q \in 1 .. Len(f.body) - 1,
         ArmEndedAll(f.body, q + 1)
  PROVE  ArmEndedAll(f.body, q)
<1> DEFINE body == f.body
           n == Len(body)
           D == Level(body, q)
           E == Level(body, q + 1)
           scan == ElseScan(body)
<1>1. /\ n \in Nat /\ q \in 1 .. n /\ q < n /\ D \in Nat /\ E \in Nat
      /\ E = IF Opens(body, q) THEN D + 1 ELSE IF Closes(body, q) THEN D - 1 ELSE D
  BY LevelIs
<1>2. D < q
  BY <1>1, AllWellOpen DEF WellOpen, Level
<1>3. scan[q] = ElseFrom(body, q, scan[q + 1])
  <2>1. q \in 1 .. Len(body) + 1 /\ ~(q > Len(body)) /\ Len(body) \in Nat
    BY <1>1
  <2> HIDE DEF body
  <2> QED
    BY <2>1, ElseScanIs
<1>4. \A d \in Nat : d < E => ArmEnded(body, q + 1, E - d, scan[q + 1][d])
  BY DEF ArmEndedAll
<1>5. SUFFICES ASSUME NEW d \in Nat, d < D
               PROVE  ArmEnded(body, q, D - d, scan[q][d])
  BY DEF ArmEndedAll
<1>6. d \in 0 .. n
  BY <1>1, <1>2, <1>5
<1>7. scan[q][d] =
        IF Opens(body, q) THEN scan[q + 1][d + 1]
        ELSE IF Closes(body, q) /\ d = 0 THEN q + 1
        ELSE IF Closes(body, q) THEN scan[q + 1][d - 1]
        ELSE IF body[q].op = "else" /\ d = 0 THEN q + 1
        ELSE scan[q + 1][d]
  <2> HIDE DEF body, scan
  <2> QED
    BY <1>3, <1>6 DEF ElseFrom, n
<1> DEFINE k == D - d
<1>8. k \in 1 .. D
  BY <1>1, <1>5
<1>9. ASSUME NEW r, ArmEnded(body, q + 1, k, r), ~(body[q].op = "else" /\ d = 0)
      PROVE  ArmEnded(body, q, k, r)
  <2>1. /\ r \in q + 1 + 1 .. n
        /\ Closes(body, r - 1) \/ body[r - 1].op = "else"
        /\ Level(body, r - 1) = k
        /\ \A s \in q + 1 .. r - 1 : Level(body, s) >= k
        /\ \A s \in q + 1 .. r - 2 : ~(body[s].op = "else" /\ Level(body, s) = k)
    BY <1>9 DEF ArmEnded
  <2>2. Level(body, q) >= k /\ ~(body[q].op = "else" /\ Level(body, q) = k)
    BY <1>1, <1>5, <1>8, <1>9
  <2> HIDE DEF k, D, E, body
  <2>3. r \in q + 1 .. n /\ \A s \in q .. r - 1 : Level(body, s) >= k
    <3>1. n \in Nat /\ q \in Nat /\ r \in q + 1 + 1 .. n
      BY <1>1, <2>1
    <3> HIDE DEF n
    <3>2. r \in q + 1 .. n
      BY <3>1
    <3>3. \A s \in q .. r - 1 : s = q \/ s \in q + 1 .. r - 1
      BY <3>1
    <3> QED
      BY <2>1, <2>2, <3>2, <3>3
  <2>4. \A s \in q .. r - 2 : ~(body[s].op = "else" /\ Level(body, s) = k)
    <3> TAKE s \in q .. r - 2
    <3>1. s = q \/ s \in q + 1 .. r - 2
      BY <1>1, <2>1
    <3> QED
      BY <2>1, <2>2, <3>1
  <2> QED
    BY <2>1, <2>3, <2>4 DEF ArmEnded, n
<1>10. ASSUME d = 0, Closes(body, q) \/ body[q].op = "else" PROVE ArmEnded(body, q, k, q + 1)
  <2>1. q + 1 \in q + 1 .. n /\ q + 1 - 1 = q /\ k = D
    BY <1>1, <1>10
  <2>2. \A s \in q .. q : s = q
    BY <1>1
  <2>3. q .. q + 1 - 2 = {}
    BY <1>1
  <2> QED
    BY <1>1, <1>10, <2>1, <2>2, <2>3 DEF ArmEnded
<1>11. CASE Opens(body, q)
  <2>1. d + 1 \in Nat /\ d + 1 < E /\ E - (d + 1) = k
    BY <1>1, <1>5, <1>11
  <2>2. ArmEnded(body, q + 1, k, scan[q + 1][d + 1])
    BY <1>4, <2>1
  <2>3. body[q].op # "else"
    BY <1>11 DEF Opens, Openers
  <2> QED
    BY <1>7, <1>9, <1>11, <2>2, <2>3
<1>12. CASE Closes(body, q)
  <2>1. ~Opens(body, q) /\ E = D - 1 /\ body[q].op # "else"
    BY <1>1, <1>12 DEF Opens, Closes, Openers
  <2>2. CASE d > 0
    <3>1. d - 1 \in Nat /\ d - 1 < E /\ E - (d - 1) = k /\ d # 0
      BY <1>1, <1>5, <2>1, <2>2
    <3>2. ArmEnded(body, q + 1, k, scan[q + 1][d - 1])
      BY <1>4, <3>1
    <3> QED
      BY <1>7, <1>9, <1>12, <2>1, <3>1, <3>2
  <2>3. CASE d = 0
    BY <1>7, <1>10, <1>12, <2>1, <2>3
  <2> QED
    BY <2>2, <2>3
<1>13. CASE ~Opens(body, q) /\ ~Closes(body, q)
  <2>1. CASE body[q].op = "else" /\ d = 0
    BY <1>7, <1>10, <1>13, <2>1
  <2>2. CASE ~(body[q].op = "else" /\ d = 0)
    <3>1. d < E /\ E - d = k
      BY <1>1, <1>5, <1>13
    <3>2. ArmEnded(body, q + 1, k, scan[q + 1][d])
      BY <1>4, <3>1
    <3> QED
      BY <1>7, <1>9, <1>13, <2>2, <3>2
  <2> QED
    BY <2>1, <2>2
<1> QED
  BY <1>11, <1>12, <1>13

LEMMA ElseEnds ==
  ASSUME NEW pr, NEW f, ValidFunction(pr, f), NEW q \in 1 .. Len(f.body),
         Level(f.body, q) > 0
  PROVE  ArmEnded(f.body, q, Level(f.body, q), ElseOrEnd(f.body, q))
<1> DEFINE n == Len(f.body)
           G == {p \in 1 .. n : ArmEndedAll(f.body, p)}
<1>1. n \in Nat \ {0} /\ Level(f.body, n) = 0 /\ Level(f.body, q) \in Nat
  BY LevelIs
<1>2. n \in G
  BY <1>1 DEF ArmEndedAll
<1>3. ASSUME NEW p \in 1 .. n - 1, p + 1 \in G PROVE p \in G
  <2>1. ArmEndedAll(f.body, p)
    BY <1>3, ArmEndedBefore
  <2> QED
    BY <1>1, <2>1
<1>4. q \in G
  <2>1. n \in Nat /\ q \in 1 .. n
    BY <1>1
  <2> HIDE DEF G, n
  <2> QED
    BY <1>2, <1>3, <2>1, Descend
<1>5. 0 < Level(f.body, q) /\ Level(f.body, q) - 0 = Level(f.body, q) /\ 0 \in Nat
  BY <1>1
<1> QED
  BY <1>4, <1>5 DEF ArmEndedAll, ElseOrEnd

(* The `end` of an open block, seen from inside it.                        *)
LEMMA EndFrom ==
  ASSUME NEW pr, NEW f, ValidFunction(pr, f), NEW p \in 1 .. Len(f.body),
         NEW j \in 1 .. Level(f.body, p), NEW e \in p .. Len(f.body),
         Closes(f.body, e), Level(f.body, e) = j, \A s \in p .. e : Level(f.body, s) >= j
  PROVE  EndOf(f.body, Open(f.body, p)[j].at - 1) = e
<1> DEFINE body == f.body
           n == Len(body)
           q == Open(body, p)[j].at - 1
<1>1. n \in Nat /\ \A s \in 1 .. n : Level(body, s) \in Nat
  BY LevelIs
<1>2. /\ q \in 1 .. p - 1 /\ Opens(body, q) /\ Level(body, q) = j - 1
      /\ \A r \in q + 1 .. p : Level(body, r) >= j
  BY AllOpened DEF Opened
<1>3. Level(body, p) \in Nat
  BY <1>1
<1> HIDE DEF q, n
<1>4. /\ q \in 1 .. n /\ e \in q + 1 .. n
      /\ \A s \in q + 1 .. e : s \in q + 1 .. p \/ s \in p .. e
  BY <1>1, <1>2 DEF n
<1>5. \A s \in q + 1 .. e : Level(body, s) > Level(body, q)
  <2> TAKE s \in q + 1 .. e
  <2>1. Level(body, s) >= j
    BY <1>2, <1>4
  <2>2. Level(body, s) \in Nat
    BY <1>1, <1>2, <1>4
  <2> QED
    BY <1>2, <1>3, <2>1, <2>2
<1>6. Closing(body, q, e)
  <2>1. Level(body, e) = Level(body, q) + 1
    BY <1>2, <1>3
  <2> QED
    BY <1>4, <1>5, <2>1 DEF Closing, n
<1>7. EndOf(body, q) = e
  BY <1>2, <1>4, <1>6, EndOfIs DEF n
<1> QED
  BY <1>7 DEF q

(* The l-th block around p, as the format and as validation have it.       *)
LEMMA AroundAt ==
  ASSUME NEW pr, NEW f, ValidFunction(pr, f), NEW p \in 1 .. Len(f.body),
         NEW l \in Nat, l < Level(f.body, p)
  PROVE  LET q == Around(f.body, p, l)
             b == Open(f.body, p)[Level(f.body, p) - l]
         IN  /\ q = b.at - 1 /\ q \in Nat
             /\ f.body[q].op = "loop" <=> b.op = "loop"
             /\ LabelArity(f.body, q) = IF b.op = "loop" THEN 0 ELSE b.arity
<1> DEFINE q == Around(f.body, p, l)
           k == Level(f.body, p) - l
           b == Open(f.body, p)[k]
<1>1. k \in 1 .. Level(f.body, p)
  BY LevelIs
<1>2. q = b.at - 1
  BY AroundIs
<1>3. /\ b.at - 1 \in 1 .. p - 1 
      /\ b.op = "loop" <=> f.body[b.at - 1].op = "loop"
      /\ b.arity = f.body[b.at - 1].arg
  <2> HIDE DEF k
  <2> QED
    BY <1>1, AllOpened DEF Opened
<1> HIDE DEF q, b
<1>4. /\ q = b.at - 1 /\ q \in Nat
      /\ f.body[q].op = "loop" <=> b.op = "loop"
      /\ LabelArity(f.body, q) = IF b.op = "loop" THEN 0 ELSE b.arity
  BY <1>2, <1>3 DEF LabelArity
<1> QED
  BY <1>4 DEF q, b, k

(* A branch goes on behind the `end` the format means, and so does `else`; *)
(* an `end` is that of the innermost block.                                *)
LEMMA BranchLands ==
  ASSUME NEW pr, NEW f, ValidFunction(pr, f), NEW p \in 1 .. Len(f.body) - 1,
         ~Opens(f.body, p), ~Closes(f.body, p), NEW l \in Nat, l < Level(f.body, p)
  PROVE  BranchTarget(f.body, p + 1, l) = EndOf(f.body, Around(f.body, p, l)) + 1
<1> DEFINE body == f.body
           n == Len(body)
           D == Level(body, p)
           r == BranchTarget(body, p + 1, l)
           q == Around(body, p, l)
<1>1. n \in Nat /\ p \in 1 .. n /\ p + 1 \in 1 .. n /\ D \in Nat /\ Level(body, p + 1) = D
  BY LevelIs
<1>2. Ended(body, p + 1, D - l, r)
  BY <1>1, TargetEnds
<1>3. D - l \in 1 .. D /\ q = Open(body, p)[D - l].at - 1
  BY <1>1, AroundIs
<1>4. /\ r \in p + 2 .. n /\ Closes(body, r - 1) /\ Level(body, r - 1) = D - l
      /\ \A s \in p + 1 .. r - 1 : Level(body, s) >= D - l
  BY <1>1, <1>2 DEF Ended
<1> HIDE DEF r
<1>5. r - 1 \in p .. n /\ \A s \in p .. r - 1 : Level(body, s) >= D - l
  <2>1. \A s \in p .. r - 1 : s = p \/ s \in p + 1 .. r - 1
    BY <1>1, <1>4
  <2>2. r - 1 \in p .. n
    BY <1>1, <1>4
  <2>3. Level(body, p) >= D - l
    BY <1>1
  <2> HIDE DEF D
  <2> QED
    BY <1>4, <2>1, <2>2, <2>3
<1>6. EndOf(body, q) = r - 1
  <2> HIDE DEF q
  <2> DEFINE k == D - l
  <2>1. k \in 1 .. Level(body, p) /\ q = Open(body, p)[k].at - 1
    BY <1>3
  <2>2. Level(body, r - 1) = k /\ \A s \in p .. r - 1 : Level(body, s) >= k
    BY <1>4, <1>5
  <2> HIDE DEF k, D
  <2> QED
    BY <1>1, <1>4, <1>5, <2>1, <2>2, EndFrom
<1>7. r \in Int
  BY <1>1, <1>4
<1> QED
  BY <1>6, <1>7 DEF r

LEMMA EndLands ==
  ASSUME NEW pr, NEW f, ValidFunction(pr, f), NEW p \in 1 .. Len(f.body),
         Closes(f.body, p), Level(f.body, p) > 0
  PROVE  EndOf(f.body, Around(f.body, p, 0)) = p
<1> DEFINE D == Level(f.body, p)
<1>1. Len(f.body) \in Nat /\ D \in Nat /\ D > 0
  BY LevelIs
<1>2. D - 0 = D /\ Around(f.body, p, 0) = Open(f.body, p)[D - 0].at - 1
  BY <1>1, AroundIs
<1>3. p \in p .. Len(f.body) /\ D \in 1 .. D /\ \A s \in p .. p : s = p
  BY <1>1
<1>4. EndOf(f.body, Open(f.body, p)[D].at - 1) = p
  <2>1. \A s \in p .. p : Level(f.body, s) >= D
    BY <1>1, <1>3
  <2> QED
    BY <1>3, <2>1, EndFrom
<1> QED
  BY <1>2, <1>4

(* A false `if` goes on in its other arm, behind its end if it has none.   *)
LEMMA IfLands ==
  ASSUME NEW pr, NEW f, ValidFunction(pr, f), NEW p \in 1 .. Len(f.body) - 1,
         f.body[p].op = "if"
  PROVE  LET r == ElseOrEnd(f.body, p + 1)
         IN  /\ r \in 2 .. Len(f.body)
             /\ Closes(f.body, r - 1) => ElseOf(f.body, p) = {} /\ EndOf(f.body, p) + 1 = r
             /\ ~Closes(f.body, r - 1) => r - 1 \in ElseOf(f.body, p)
<1> DEFINE body == f.body
           n == Len(body)
           D == Level(body, p)
           r == ElseOrEnd(body, p + 1)
<1>1. Opens(body, p)
  BY DEF Opens, Openers
<1>2. /\ n \in Nat /\ p \in 1 .. n /\ p + 1 \in 1 .. n /\ D \in Nat /\ Level(body, p + 1) = D + 1
      /\ \A s \in 1 .. n : Level(body, s) \in Nat
  <2>1. n \in Nat /\ \A s \in 1 .. n : Level(body, s) \in Nat
    BY LevelIs
  <2>2. Level(body, p + 1) = IF Opens(body, p) THEN Level(body, p) + 1
                             ELSE IF Closes(body, p) THEN Level(body, p) - 1
                             ELSE Level(body, p)
    BY LevelIs
  <2> QED
    BY <1>1, <2>1, <2>2
<1>3. ArmEnded(body, p + 1, D + 1, r)
  BY <1>2, ElseEnds
<1>4. /\ r \in p + 2 .. n /\ Level(body, r - 1) = D + 1
      /\ Closes(body, r - 1) \/ body[r - 1].op = "else"
      /\ \A s \in p + 1 .. r - 1 : Level(body, s) >= D + 1
      /\ \A s \in p + 1 .. r - 2 : ~(body[s].op = "else" /\ Level(body, s) = D + 1)
  BY <1>2, <1>3 DEF ArmEnded
<1> DEFINE e == EndOf(body, p)
<1>5. Closing(body, p, e)
  BY <1>1, <1>2, EndOfIs
<1>6. \A s \in 1 .. n : Nest(body, s) = Level(body, s)
  BY NestIs
<1> HIDE DEF r
<1>7. ElseOf(body, p) = {q \in p + 1 .. e : body[q].op = "else" /\ Level(body, q) = D + 1}
  <2>1. \A q \in p + 1 .. e : q \in 1 .. n
    BY <1>2, <1>5 DEF Closing
  <2>2. \A q \in p + 1 .. e : Nest(body, q) = Nest(body, p) + 1 <=> Level(body, q) = D + 1
    BY <1>2, <1>6, <2>1
  <2>3. ElseOf(body, p) = {q \in p + 1 .. e : body[q].op = "else" /\ Nest(body, q) = Nest(body, p) + 1}
    BY DEF ElseOf
  <2> HIDE DEF e, body, D
  <2> QED
    BY <2>2, <2>3
<1>8. r \in 2 .. n /\ r - 1 \in p + 1 .. n
  BY <1>2, <1>4
<1>9. CASE Closes(body, r - 1)
  <2>1. \A s \in p + 1 .. r - 1 : Level(body, s) > Level(body, p)
    <3> TAKE s \in p + 1 .. r - 1
    <3>1. s \in 1 .. n
      BY <1>2, <1>4
    <3> QED
      BY <1>2, <1>4, <3>1
  <2>2. Closing(body, p, r - 1)
    BY <1>4, <1>8, <1>9, <2>1 DEF Closing
  <2>3. e = r - 1
    BY <1>1, <1>2, <2>2, EndOfIs
  <2>4. ~(body[r - 1].op = "else")
    BY <1>9 DEF Closes
  <2>5. \A q \in p + 1 .. e : q \in p + 1 .. r - 2 \/ q = r - 1
    <3> HIDE DEF e
    <3> QED
      BY <1>2, <1>8, <2>3
  <2> HIDE DEF e
  <2>6. ElseOf(body, p) = {}
    BY <1>4, <1>7, <2>4, <2>5
  <2>7. e + 1 = r
    BY <1>8, <2>3
  <2> QED
    BY <1>8, <1>9, <2>6, <2>7 DEF r, e
<1>10. CASE ~Closes(body, r - 1)
  <2>1. body[r - 1].op = "else"
    BY <1>4, <1>10
  <2>2. e \in p + 1 .. n /\ Level(body, e) = D + 1 /\ Closes(body, e)
    BY <1>5 DEF Closing
  <2>3. e >= r - 1
    <3>1. SUFFICES ASSUME e < r - 1 PROVE FALSE
      BY <1>8, <2>2
    <3>2. e \in 1 .. n - 1 /\ e + 1 \in p + 1 .. r - 1
      BY <1>2, <1>8, <2>2, <3>1
    <3>3. ~Opens(body, e)
      BY <2>2 DEF Opens, Closes, Openers
    <3>4. Level(body, e + 1) = Level(body, e) - 1
      BY <2>2, <3>2, <3>3, LevelIs
    <3>5. Level(body, e + 1) >= D + 1
      BY <1>4, <3>2
    <3> HIDE DEF e
    <3> QED
      BY <1>2, <2>2, <3>4, <3>5
  <2> HIDE DEF e
  <2>4. r - 1 \in p + 1 .. e
    BY <1>8, <2>2, <2>3
  <2>5. r - 1 \in ElseOf(body, p)
    BY <1>4, <1>7, <2>1, <2>4
  <2> QED
    BY <1>8, <1>10, <2>5 DEF r
<1> QED
  BY <1>9, <1>10

----------------------------------------------------------------------------
(* Pieces of the shared stack: what of it is a block, and what is left when *)
(* it is cut or grown.                                                      *)

(* Pieces of a stack. *)
LEMMA PieceIs ==
  ASSUME NEW S, NEW s \in Seq(S), NEW a \in Nat, NEW b \in Nat, a <= b, b <= Len(s)
  PROVE  /\ SubSeq(s, a + 1, b) \in Seq(S) /\ Len(SubSeq(s, a + 1, b)) = b - a
         /\ \A i \in 1 .. b - a : SubSeq(s, a + 1, b)[i] = s[a + i]
<1>1. Len(s) \in Nat /\ \A i \in 1 .. Len(s) : s[i] \in S
  BY LenProperties, ElementOfSeq
<1>2. \A i \in a + 1 .. b : s[i] \in S
  BY <1>1
<1>3. a + 1 \in Int /\ b \in Int
  OBVIOUS
<1>4. /\ SubSeq(s, a + 1, b) \in Seq(S)
      /\ Len(SubSeq(s, a + 1, b)) = IF a + 1 <= b THEN b - (a + 1) + 1 ELSE 0
      /\ \A i \in 1 .. b - (a + 1) + 1 : SubSeq(s, a + 1, b)[i] = s[a + 1 + i - 1]
  BY <1>2, <1>3, SubSeqProperties
<1>5. \A i \in 1 .. b - a : SubSeq(s, a + 1, b)[i] = s[a + i]
  <2> TAKE i \in 1 .. b - a
  <2>1. i \in 1 .. b - (a + 1) + 1 /\ a + 1 + i - 1 = a + i
    OBVIOUS
  <2> QED
    BY <1>4, <2>1
<1> QED
  BY <1>4, <1>5

(* The same, in one word.                                                   *)
PieceOf(S, s, a, b) ==
  /\ SubSeq(s, a + 1, b) \in Seq(S) /\ Len(SubSeq(s, a + 1, b)) = b - a
  /\ \A i \in 1 .. b - a : SubSeq(s, a + 1, b)[i] = s[a + i]
LEMMA IsPiece ==
  ASSUME NEW S, NEW s \in Seq(S), NEW a \in Nat, NEW b \in Nat, a <= b, b <= Len(s)
  PROVE  PieceOf(S, s, a, b)
  BY PieceIs DEF PieceOf

LEMMA SamePiece ==
  ASSUME NEW S, NEW s \in Seq(S), NEW t \in Seq(S), NEW a \in Nat, NEW b \in Nat,
         a <= b, b <= Len(s), b <= Len(t), \A i \in a + 1 .. b : s[i] = t[i]
  PROVE  SubSeq(s, a + 1, b) = SubSeq(t, a + 1, b)
<1> DEFINE u == SubSeq(s, a + 1, b)
           v == SubSeq(t, a + 1, b)
<1>1. /\ u \in Seq(S) /\ Len(u) = b - a /\ \A i \in 1 .. b - a : u[i] = s[a + i]
      /\ v \in Seq(S) /\ Len(v) = b - a /\ \A i \in 1 .. b - a : v[i] = t[a + i]
  BY PieceIs
<1>2. \A i \in 1 .. b - a : a + i \in a + 1 .. b
  OBVIOUS
<1> HIDE DEF u, v
<1>3. Len(u) = Len(v) /\ \A i \in 1 .. Len(u) : u[i] = v[i]
  BY <1>1, <1>2
<1>4. u = v
  BY <1>1, <1>3, SeqEqual
<1> QED
  BY <1>4 DEF u, v

LEMMA PieceJoins ==
  ASSUME NEW S, NEW s \in Seq(S), NEW a \in Nat, NEW b \in Nat, NEW c \in Nat,
         a <= b, b <= c, c <= Len(s)
  PROVE  SubSeq(s, a + 1, b) \o SubSeq(s, b + 1, c) = SubSeq(s, a + 1, c)
<1>1. Len(s) \in Nat
  BY LenProperties
<1>2. a + 1 \in 1 .. Len(s) + 1 /\ b \in a + 1 - 1 .. Len(s) /\ c \in b .. Len(s)
  BY <1>1
<1> QED
  BY <1>2, ConcatAdjacentSubSeq

(* What is put on top of the lower part of a stack. *)
OnTop(S, s, t, a, b) ==
  LET u == SubSeq(s, 1, b) \o t
  IN  /\ u \in Seq(S) /\ Len(u) = b + Len(t) /\ Len(u) \in Nat /\ a <= Len(u)
      /\ \A i \in 1 .. b : u[i] = s[i]
      /\ SubSeq(u, a + 1, Len(u)) = SubSeq(s, a + 1, b) \o t
LEMMA PieceOn ==
  ASSUME NEW S, NEW s \in Seq(S), NEW t \in Seq(S), NEW a \in Nat, NEW b \in Nat,
         a <= b, b <= Len(s)
  PROVE  OnTop(S, s, t, a, b)
<1> DEFINE low == SubSeq(s, 1, b)
           u == low \o t
           v == SubSeq(u, a + 1, Len(u))
           m == SubSeq(s, a + 1, b)
           w == m \o t
<1>1. /\ low \in Seq(S) /\ Len(low) = b /\ \A i \in 1 .. b : low[i] = s[i]
      /\ m \in Seq(S) /\ Len(m) = b - a /\ \A i \in 1 .. b - a : m[i] = s[a + i]
  <2>1. /\ m \in Seq(S) /\ Len(m) = b - a /\ \A i \in 1 .. b - a : m[i] = s[a + i]
    BY PieceIs
  <2>2. /\ SubSeq(s, 0 + 1, b) \in Seq(S) /\ Len(SubSeq(s, 0 + 1, b)) = b - 0
        /\ \A i \in 1 .. b - 0 : SubSeq(s, 0 + 1, b)[i] = s[0 + i]
    BY PieceIs
  <2>3. 0 + 1 = 1 /\ b - 0 = b /\ \A i \in 1 .. b : 0 + i = i
    OBVIOUS
  <2> QED
    BY <2>1, <2>2, <2>3
<1>2. Len(t) \in Nat
  BY LenProperties
<1> HIDE DEF low, m
<1>3. /\ u \in Seq(S) /\ Len(u) = b + Len(t)
      /\ \A i \in 1 .. b + Len(t) : u[i] = IF i <= b THEN low[i] ELSE t[i - b]
      /\ w \in Seq(S) /\ Len(w) = b - a + Len(t)
      /\ \A i \in 1 .. b - a + Len(t) : w[i] = IF i <= b - a THEN m[i] ELSE t[i - (b - a)]
  <2>0. low \in Seq(S) /\ m \in Seq(S)
    BY <1>1
  <2>1. /\ u \in Seq(S) /\ Len(u) = Len(low) + Len(t)
        /\ \A i \in 1 .. Len(low) + Len(t) : u[i] = IF i <= Len(low) THEN low[i] ELSE t[i - Len(low)]
    BY <2>0, ConcatProperties
  <2>2. /\ w \in Seq(S) /\ Len(w) = Len(m) + Len(t)
        /\ \A i \in 1 .. Len(m) + Len(t) : w[i] = IF i <= Len(m) THEN m[i] ELSE t[i - Len(m)]
    BY <2>0, ConcatProperties
  <2> HIDE DEF u, w
  <2> QED
    BY <1>1, <2>1, <2>2
<1> HIDE DEF u, w
<1>4. \A i \in 1 .. b : u[i] = s[i]
  BY <1>1, <1>2, <1>3
<1>5. Len(u) \in Nat /\ a <= Len(u)
  BY <1>2, <1>3
<1>6. v \in Seq(S) /\ Len(v) = Len(u) - a /\ \A i \in 1 .. Len(u) - a : v[i] = u[a + i]
  <2>1. u \in Seq(S) /\ Len(u) \in Nat /\ Len(u) <= Len(u)
    BY <1>3, <1>5
  <2> QED
    BY <1>5, <2>1, PieceIs
<1>7. Len(v) = Len(w) /\ \A i \in 1 .. Len(v) : v[i] = w[i]
  <2> HIDE DEF v
  <2>1. Len(v) = Len(w) /\ Len(v) = b - a + Len(t)
    BY <1>2, <1>3, <1>6
  <2> SUFFICES ASSUME NEW i \in 1 .. Len(v) PROVE v[i] = w[i]
    BY <2>1
  <2>2. i \in 1 .. b - a + Len(t) /\ a + i \in 1 .. b + Len(t) /\ v[i] = u[a + i]
    BY <1>2, <1>3, <1>6, <2>1
  <2>3. CASE i <= b - a
    <3>1. a + i <= b /\ a + i \in 1 .. b /\ i \in 1 .. b - a
      BY <2>2, <2>3
    <3>2. v[i] = low[a + i]
      BY <1>3, <2>2, <3>1
    <3>3. w[i] = m[i]
      BY <1>3, <2>2, <2>3
    <3>4. low[a + i] = m[i]
      BY <1>1, <3>1
    <3> QED
      BY <3>2, <3>3, <3>4
  <2>4. CASE ~(i <= b - a)
    <3>1. ~(a + i <= b) /\ a + i - b = i - (b - a)
      BY <2>2, <2>4
    <3>2. v[i] = t[a + i - b]
      BY <1>3, <2>2, <3>1
    <3>3. w[i] = t[i - (b - a)]
      BY <1>3, <2>2, <2>4
    <3> QED
      BY <3>1, <3>2, <3>3
  <2> QED
    BY <2>3, <2>4
<1>8. v = w
  <2> HIDE DEF v
  <2> QED
    BY <1>3, <1>6, <1>7, SeqEqual
<1> QED
  BY <1>3, <1>4, <1>5, <1>8 DEF u, v, w, low, m, OnTop

(* The operands at the end of a piece that reaches the top. *)
LEMMA PieceEnds ==
  ASSUME NEW S, NEW s \in Seq(S), NEW a \in Nat, NEW k \in Nat, a + k <= Len(s)
  PROVE  LET u == SubSeq(s, a + 1, Len(s))
         IN  /\ Without(u, k) = SubSeq(s, a + 1, Len(s) - k)
             /\ LastOf(u, k) = LastOf(s, k)
<1> DEFINE n == Len(s)
           u == SubSeq(s, a + 1, n)
           m == n - a
<1>1. n \in Nat /\ a <= n /\ m \in Nat /\ k <= m /\ n - k \in Nat /\ m - k \in Nat
  BY LenProperties
<1>2. u \in Seq(S) /\ Len(u) = m /\ \A i \in 1 .. m : u[i] = s[a + i]
  BY <1>1, PieceIs
<1> HIDE DEF u
<1>3. Without(u, k) = SubSeq(s, a + 1, n - k)
  <2> DEFINE v == SubSeq(u, 0 + 1, m - k)
             w == SubSeq(s, a + 1, n - k)
  <2> HIDE DEF m, n
  <2>1. v \in Seq(S) /\ Len(v) = m - k - 0 /\ \A i \in 1 .. m - k - 0 : v[i] = u[0 + i]
    <3> DEFINE d == m - k
               zero == 0
    <3>1. zero \in Nat /\ d \in Nat /\ zero <= d /\ d <= Len(u) /\ u \in Seq(S)
      BY <1>1, <1>2
    <3> HIDE DEF d, zero
    <3>2. PieceOf(S, u, zero, d)
      BY <3>1, IsPiece
    <3> QED
      BY <3>2 DEF PieceOf, d, zero
  <2>2. w \in Seq(S) /\ Len(w) = n - k - a /\ \A i \in 1 .. n - k - a : w[i] = s[a + i]
    <3>1. a <= n - k /\ n - k <= Len(s)
      BY <1>1 DEF m, n
    <3> QED
      BY <1>1, <3>1, PieceIs
  <2>3. m - k - 0 = n - k - a /\ \A i \in 1 .. m - k - 0 : i \in 1 .. m /\ i \in 1 .. n - k - a /\ 0 + i = i
    BY <1>1 DEF m
  <2> HIDE DEF v, w
  <2>4. Len(v) = Len(w) /\ \A i \in 1 .. Len(v) : v[i] = w[i]
    <3>1. Len(v) = Len(w) /\ Len(v) = m - k - 0
      BY <2>1, <2>2, <2>3
    <3>2. ASSUME NEW i \in 1 .. m - k - 0 PROVE v[i] = w[i]
      <4>1. i \in 1 .. m /\ i \in 1 .. n - k - a /\ 0 + i = i
        BY <2>3
      <4>2. v[i] = u[0 + i] /\ w[i] = s[a + i]
        BY <2>1, <2>2, <4>1
      <4> QED
        BY <1>2, <4>1, <4>2
    <3> QED
      BY <3>1, <3>2
  <2>5. v = w
    BY <2>1, <2>2, <2>4, SeqEqual
  <2>6. Without(u, k) = SubSeq(u, 1, m - k)
    BY <1>2 DEF Without
  <2>7. 0 + 1 = 1
    OBVIOUS
  <2>8. v = SubSeq(u, 1, m - k)
    BY <2>7, Zenon DEF v
  <2> QED
    BY <2>5, <2>6, <2>8 DEF w
<1>4. LastOf(u, k) = LastOf(s, k)
  <2> DEFINE x == m - k
             y == n - k
             v == SubSeq(u, x + 1, m)
             w == SubSeq(s, y + 1, n)
  <2>1. LastOf(u, k) = v /\ LastOf(s, k) = w
    BY <1>2 DEF LastOf
  <2>2. /\ x \in Nat /\ y \in Nat /\ x <= m /\ y <= n /\ m <= Len(u) /\ n <= Len(s)
        /\ m - x = k /\ n - y = k
        /\ \A i \in 1 .. k : x + i \in 1 .. m /\ a + (x + i) = y + i
    BY <1>1, <1>2
  <2> HIDE DEF m, n, x, y
  <2>3. v \in Seq(S) /\ Len(v) = m - x /\ \A i \in 1 .. m - x : v[i] = u[x + i]
    BY <1>1, <1>2, <2>2, PieceIs
  <2>4. w \in Seq(S) /\ Len(w) = n - y /\ \A i \in 1 .. n - y : w[i] = s[y + i]
    BY <1>1, <2>2, PieceIs
  <2> HIDE DEF v, w
  <2>5. Len(v) = k /\ Len(w) = k /\ \A i \in 1 .. k : v[i] = w[i]
    <3>1. Len(v) = k /\ Len(w) = k
      BY <2>2, <2>3, <2>4
    <3>2. \A i \in 1 .. k : v[i] = u[x + i] /\ w[i] = s[y + i]
      BY <2>2, <2>3, <2>4
    <3>3. \A i \in 1 .. k : u[x + i] = s[a + (x + i)]
      BY <1>2, <2>2
    <3> QED
      BY <2>2, <3>1, <3>2, <3>3
  <2>6. v = w
    BY <2>3, <2>4, <2>5, SeqEqual
  <2> QED
    BY <2>1, <2>6
<1> QED
  BY <1>3, <1>4 DEF u, n

(* Where the blocks of a call begin in the stack, from and to being where  *)
(* its operands do and the open blocks o; and what is in each.             *)
Mark(o, from, to, j) ==
  IF j = 1 THEN from ELSE IF j = Len(o) + 2 THEN to ELSE from + o[j - 1].base
BlocksAt(s, o, from, to) ==
  [j \in 1 .. Len(o) + 1 |-> SubSeq(s, Mark(o, from, to, j) + 1, Mark(o, from, to, j + 1))]

Rising(o, from, to) ==
  /\ \A j \in 1 .. Len(o) + 2 : Mark(o, from, to, j) \in Nat
  /\ \A i, j \in 1 .. Len(o) + 2 : i <= j => Mark(o, from, to, i) <= Mark(o, from, to, j)

LEMMA MarksRise ==
  ASSUME NEW pr, NEW f, ValidFunction(pr, f), NEW p \in 1 .. Len(f.body),
         NEW from \in Nat, NEW to \in Nat, from + Floor(f.body, p) <= to
  PROVE  /\ Rising(Open(f.body, p), from, to)
         /\ Mark(Open(f.body, p), from, to, Level(f.body, p) + 1) = from + Floor(f.body, p)
<1> DEFINE o == Open(f.body, p)
           D == Len(o)
           M(j) == Mark(o, from, to, j)
           fl == Floor(f.body, p)
<1>1. D \in Nat
  BY TypedIs
<1>2. \A i, j \in 1 .. D : i <= j => o[i].base <= o[j].base
  BY AllWellOpen DEF WellOpen
<1>3. /\ \A j \in 1 .. D : o[j].base \in Nat
      /\ fl \in Nat /\ (D > 0 => fl = o[D].base) /\ (D = 0 => fl = 0)
  <2>1. o = << >> => D = 0
    BY FloorIs
  <2>2. o # << >> => D > 0
    BY FloorIs
  <2> QED
    BY <2>1, <2>2, FloorIs
<1> HIDE DEF o, fl
<1>4. M(1) = from /\ M(D + 2) = to /\ \A j \in 2 .. D + 1 : M(j) = from + o[j - 1].base
  BY <1>1 DEF Mark
<1> HIDE DEF M, D
<1>5. \A j \in 1 .. D + 2 : M(j) \in Nat
  <2> TAKE j \in 1 .. D + 2
  <2>1. j = 1 \/ j = D + 2 \/ (j \in 2 .. D + 1 /\ j - 1 \in 1 .. D)
    BY <1>1
  <2> QED
    BY <1>3, <1>4, <2>1
<1>6. \A j \in 2 .. D + 1 : M(j) <= to /\ M(j) >= from
  <2> TAKE j \in 2 .. D + 1
  <2>1. j - 1 \in 1 .. D /\ D \in 1 .. D /\ j - 1 <= D
    BY <1>1
  <2>2. o[j - 1].base <= o[D].base /\ fl = o[D].base /\ o[j - 1].base \in Nat
    BY <1>2, <1>3, <2>1
  <2>3. from + fl <= to
    BY DEF fl
  <2> QED
    <3>1. M(j) = from + o[j - 1].base
      BY <1>4
    <3> QED
      BY <1>3, <2>2, <2>3, <3>1
<1>7. \A i, j \in 2 .. D + 1 : i <= j => M(i) <= M(j)
  <2> TAKE i, j \in 2 .. D + 1
  <2>1. i - 1 \in 1 .. D /\ j - 1 \in 1 .. D /\ (i <= j => i - 1 <= j - 1)
    BY <1>1
  <2>2. i <= j => o[i - 1].base <= o[j - 1].base
    BY <1>2, <2>1
  <2>3. o[i - 1].base \in Nat /\ o[j - 1].base \in Nat
    BY <1>3, <2>1
  <2>4. M(i) = from + o[i - 1].base /\ M(j) = from + o[j - 1].base
    BY <1>4
  <2> QED
    BY <2>2, <2>3, <2>4
<1>8. from <= to
  <2>1. from + fl <= to
    BY DEF fl
  <2> QED
    BY <1>3, <2>1
<1>9. \A i, j \in 1 .. D + 2 : i <= j => M(i) <= M(j)
  <2> TAKE i, j \in 1 .. D + 2
  <2>1. (i = 1 \/ i = D + 2 \/ i \in 2 .. D + 1) /\ (j = 1 \/ j = D + 2 \/ j \in 2 .. D + 1)
    BY <1>1
  <2>2. \A k \in 2 .. D + 1 : k > 1 /\ k < D + 2
    BY <1>1
  <2> QED
    BY <1>1, <1>4, <1>6, <1>7, <1>8, <2>1, <2>2
<1>10. M(D + 1) = from + fl
  <2>1. D = 0 \/ D + 1 \in 2 .. D + 1
    BY <1>1
  <2>2. CASE D = 0
    BY <1>3, <1>4, <2>2
  <2>3. CASE D # 0
    <3>1. D + 1 - 1 = D /\ D > 0
      BY <1>1, <2>3
    <3> QED
      <4> DEFINE e == D + 1
      <4>1. e \in 2 .. D + 1 /\ e - 1 = D
        BY <1>1, <2>1, <2>3, <3>1
      <4> HIDE DEF e
      <4>2. M(e) = from + o[e - 1].base
        BY <1>4, <4>1
      <4>3. M(e) = from + fl
        BY <1>3, <3>1, <4>1, <4>2
      <4> QED
        BY <4>3 DEF e
  <2> QED
    BY <2>2, <2>3
<1> QED
  BY <1>5, <1>9, <1>10 DEF Rising, M, D, o, fl, Level

Pieces(S, s, o, from, to) ==
  /\ BlocksAt(s, o, from, to) \in Seq(Seq(S))
  /\ Len(BlocksAt(s, o, from, to)) = Len(o) + 1
  /\ \A j \in 1 .. Len(o) + 1 :
       BlocksAt(s, o, from, to)[j] =
         SubSeq(s, Mark(o, from, to, j) + 1, Mark(o, from, to, j + 1))
  /\ \A j \in 1 .. Len(o) + 1 :
       /\ Mark(o, from, to, j) \in Nat /\ Mark(o, from, to, j + 1) \in Nat
       /\ Mark(o, from, to, j) <= Mark(o, from, to, j + 1)
       /\ Mark(o, from, to, j + 1) <= Len(s)

LEMMA BlocksTyped ==
  ASSUME NEW S, NEW s \in Seq(S), NEW o, Len(o) \in Nat, NEW from, NEW to,
         Rising(o, from, to), to \in Nat, to <= Len(s)
  PROVE  Pieces(S, s, o, from, to)
<1> DEFINE n == Len(o) + 1
           M(j) == Mark(o, from, to, j)
           P == BlocksAt(s, o, from, to)
<1>0. n \in Nat /\ Len(s) \in Nat /\ M(n + 1) = to
  BY LenProperties DEF Mark
<1>1. \A j \in 1 .. n : M(j) \in Nat /\ M(j + 1) \in Nat /\ M(j) <= M(j + 1) /\ M(j + 1) <= M(n + 1)
  <2> TAKE j \in 1 .. n
  <2>1. j \in 1 .. Len(o) + 2 /\ j + 1 \in 1 .. Len(o) + 2 /\ n + 1 \in 1 .. Len(o) + 2 /\ j <= j + 1 /\ j + 1 <= n + 1
    BY <1>0
  <2> HIDE DEF n
  <2> QED
    BY <2>1 DEF Rising
<1>2. P = [j \in 1 .. n |-> SubSeq(s, M(j) + 1, M(j + 1))]
  BY DEF BlocksAt
<1> HIDE DEF M, P, n
<1>3. \A j \in 1 .. n : M(j + 1) <= Len(s)
  <2> TAKE j \in 1 .. n
  <2>1. M(j + 1) \in Nat /\ M(j + 1) <= to
    BY <1>0, <1>1
  <2> QED
    BY <1>0, <2>1
<1>4. \A j \in 1 .. n : P[j] = SubSeq(s, M(j) + 1, M(j + 1))
  BY <1>2
<1>5. \A j \in 1 .. n : P[j] \in Seq(S)
  <2> TAKE j \in 1 .. n
  <2>1. SubSeq(s, M(j) + 1, M(j + 1)) \in Seq(S)
    BY <1>1, <1>3, PieceIs
  <2> QED
    BY <1>4, <2>1
<1>6. P \in Seq(Seq(S)) /\ Len(P) = n
  <2>1. P \in [1 .. n -> Seq(S)]
    BY <1>2, <1>5
  <2>2. P \in Seq(Seq(S))
    BY <1>0, <2>1, SeqDef
  <2>5. Len(P) = n
    BY <1>0, <2>1
  <2> QED
    BY <2>2, <2>5
<1> QED
  BY <1>1, <1>3, <1>4, <1>6 DEF M, P, n, Pieces

(* When the stack changes above a block's beginning only, the blocks below *)
(* it stay.                                                                *)
Kept(S, s, t, o, q, k, from, to, mark, end) ==
  /\ mark = Mark(o, from, to, k + 1) /\ end = Len(t)
  /\ s \in Seq(S) /\ t \in Seq(S)
  /\ Len(o) \in Nat /\ k \in 0 .. Len(o) /\ Len(q) = k
  /\ \A j \in 1 .. k : q[j].base = o[j].base
  /\ from \in Nat /\ to \in Nat /\ Rising(o, from, to) /\ to <= Len(s)
  /\ mark <= end /\ \A i \in 1 .. mark : t[i] = s[i]

Regrouped(s, t, o, q, l, from, to, mark, end) ==
  BlocksAt(t, q, from, end) =
    Append(SubSeq(BlocksAt(s, o, from, to), 1, l), SubSeq(t, mark + 1, end))

LEMMA BlocksKept ==
  ASSUME NEW S, NEW s, NEW t, NEW o, NEW q, NEW l \in Nat, NEW from \in Nat, NEW to \in Nat,
         NEW mark \in Nat, NEW end \in Nat, Kept(S, s, t, o, q, l, from, to, mark, end)
  PROVE  Regrouped(s, t, o, q, l, from, to, mark, end)
<1> SUFFICES
      ASSUME NEW k, k = l + 1, s \in Seq(S), t \in Seq(S),
             Len(o) \in Nat, k \in 1 .. Len(o) + 1, Len(q) = k - 1,
             \A j \in 1 .. k - 1 : q[j].base = o[j].base,
             from \in Nat, to \in Nat, Rising(o, from, to), to <= Len(s),
             Mark(o, from, to, k) <= Len(t),
             \A i \in 1 .. Mark(o, from, to, k) : t[i] = s[i]
      PROVE  BlocksAt(t, q, from, Len(t)) =
               Append(SubSeq(BlocksAt(s, o, from, to), 1, k - 1),
                      SubSeq(t, Mark(o, from, to, k) + 1, Len(t)))
  <2> DEFINE k == l + 1
  <2>1. /\ mark = Mark(o, from, to, k) /\ end = Len(t)
        /\ s \in Seq(S) /\ t \in Seq(S)
        /\ Len(o) \in Nat /\ l \in 0 .. Len(o) /\ Len(q) = l
        /\ \A j \in 1 .. l : q[j].base = o[j].base
        /\ Rising(o, from, to) /\ to <= Len(s)
        /\ mark <= end /\ \A i \in 1 .. mark : t[i] = s[i]
    BY DEF Kept
  <2>2. k - 1 = l /\ k \in 1 .. Len(o) + 1
    BY <2>1
  <2> HIDE DEF k
  <2> QED
    BY <2>1, <2>2 DEF k, Regrouped
<1> DEFINE m == Len(t)
           M(j) == Mark(o, from, to, j)
           N(j) == Mark(q, from, m, j)
           P == BlocksAt(s, o, from, to)
           X == SubSeq(t, M(k) + 1, m)
           low == SubSeq(P, 1, k - 1)
           Q == BlocksAt(t, q, from, m)
<1>1. m \in Nat /\ Len(s) \in Nat
  BY LenProperties
<1>2. /\ P \in Seq(Seq(S)) /\ Len(P) = Len(o) + 1
      /\ \A j \in 1 .. Len(o) + 1 : P[j] = SubSeq(s, M(j) + 1, M(j + 1))
      /\ \A j \in 1 .. Len(o) + 1 :
           M(j) \in Nat /\ M(j + 1) \in Nat /\ M(j) <= M(j + 1) /\ M(j + 1) <= Len(s)
  <2>1. Pieces(S, s, o, from, to)
    BY BlocksTyped
  <2> QED
    BY <2>1 DEF Pieces
<1>3. \A j \in 1 .. k - 1 : M(j + 1) <= M(k)
  <2> TAKE j \in 1 .. k - 1
  <2>1. j + 1 \in 1 .. Len(o) + 2 /\ k \in 1 .. Len(o) + 2 /\ j + 1 <= k
    OBVIOUS
  <2> QED
    BY <2>1 DEF Rising
<1>4. N(k + 1) = m /\ \A j \in 1 .. k : N(j) = M(j)
  BY DEF Mark
<1>5. Q = [j \in 1 .. k |-> SubSeq(t, N(j) + 1, N(j + 1))]
  <2>1. Len(q) + 1 = k
    OBVIOUS
  <2> QED
    BY <2>1, Zenon DEF BlocksAt
<1>6. \A i \in 1 .. M(k) : t[i] = s[i]
  OBVIOUS
<1>7. M(k) \in Nat /\ M(k) <= m
  BY <1>2
<1> HIDE DEF M, N, Q, P, m
<1>8. X \in Seq(S)
  <2>1. m <= Len(t)
    BY <1>1 DEF m
  <2> QED
    <3> DEFINE a == M(k)
    <3>1. a \in Nat /\ a <= m /\ m \in Nat
      BY <1>1, <1>7
    <3> HIDE DEF a
    <3>2. SubSeq(t, a + 1, m) \in Seq(S)
      BY <2>1, <3>1, PieceIs
    <3> QED
      BY <3>2 DEF a
<1> HIDE DEF X
<1>9. low \in Seq(Seq(S)) /\ Len(low) = k - 1 /\ \A j \in 1 .. k - 1 : low[j] = P[j]
  <2> DEFINE e == k - 1
  <2>1. e \in Nat /\ e <= Len(P) /\ 1 .. e - 0 = 1 .. e /\ e - 0 = e
    BY <1>2
  <2> HIDE DEF e
  <2> DEFINE SS == Seq(S)
  <2>0. P \in Seq(SS)
    BY <1>2
  <2> HIDE DEF SS
  <2>2. /\ SubSeq(P, 0 + 1, e) \in Seq(SS) /\ Len(SubSeq(P, 0 + 1, e)) = e - 0
        /\ \A j \in 1 .. e - 0 : SubSeq(P, 0 + 1, e)[j] = P[0 + j]
    BY <2>0, <2>1, PieceIs
  <2>3. 0 + 1 = 1 /\ \A j \in 1 .. e : 0 + j = j
    BY <2>1
  <2>4. /\ SubSeq(P, 1, e) \in Seq(SS) /\ Len(SubSeq(P, 1, e)) = e
        /\ \A j \in 1 .. e : SubSeq(P, 1, e)[j] = P[j]
    BY <2>1, <2>2, <2>3
  <2> QED
    BY <2>4 DEF e, SS
<1> HIDE DEF low
<1> DEFINE A == Append(low, X)
<1>10. /\ A \in Seq(Seq(S)) /\ Len(A) = k /\ A[k] = X /\ \A j \in 1 .. k - 1 : A[j] = P[j]
  <2>1. /\ A \in Seq(Seq(S)) /\ Len(A) = Len(low) + 1
        /\ \A i \in 1 .. Len(low) : A[i] = low[i]
        /\ A[Len(low) + 1] = X
    BY <1>8, <1>9, AppendProperties
  <2>2. Len(low) + 1 = k
    BY <1>9
  <2> HIDE DEF A
  <2> QED
    BY <1>9, <2>1, <2>2
<1>11. \A j \in 1 .. k : Q[j] = A[j]
  <2> TAKE j \in 1 .. k
  <2>1. Q[j] = SubSeq(t, N(j) + 1, N(j + 1))
    BY <1>5
  <2> HIDE DEF A
  <2>2. CASE j = k
    BY <1>4, <1>10, <2>1, <2>2 DEF X
  <2>3. CASE j # k
    <3>1. j \in 1 .. k - 1 /\ j \in 1 .. Len(o) + 1 /\ j + 1 \in 1 .. k
      BY <2>3
    <3>2. N(j) = M(j) /\ N(j + 1) = M(j + 1)
      BY <1>4, <3>1
    <3>3. M(j) \in Nat /\ M(j + 1) \in Nat /\ M(j) <= M(j + 1) /\ M(j + 1) <= Len(s) /\ M(j + 1) <= M(k)
      BY <1>2, <1>3, <3>1
    <3>4. M(j + 1) <= Len(t)
      BY <1>1, <1>7, <3>3 DEF m
    <3>5. \A i \in M(j) + 1 .. M(j + 1) : t[i] = s[i]
      <4>1. \A i \in M(j) + 1 .. M(j + 1) : i \in 1 .. M(k)
        BY <1>7, <3>3
      <4> QED
        BY <1>6, <4>1
    <3>6. SubSeq(t, M(j) + 1, M(j + 1)) = SubSeq(s, M(j) + 1, M(j + 1))
      <4> DEFINE a == M(j)
                 b == M(j + 1)
      <4>1. a \in Nat /\ b \in Nat /\ a <= b /\ b <= Len(s) /\ b <= Len(t) /\ \A i \in a + 1 .. b : t[i] = s[i]
        BY <3>3, <3>4, <3>5
      <4> HIDE DEF a, b
      <4>2. SubSeq(t, a + 1, b) = SubSeq(s, a + 1, b)
        BY <4>1, SamePiece
      <4> QED
        BY <4>2 DEF a, b
    <3> QED
      BY <1>2, <1>10, <2>1, <3>1, <3>2, <3>6
  <2> QED
    BY <2>2, <2>3
<1>12. Q = A
  <2>1. Q = [j \in 1 .. k |-> Q[j]]
    BY <1>5
  <2>2. DOMAIN A = 1 .. k /\ A = [j \in 1 .. k |-> A[j]]
    <3> HIDE DEF A
    <3> QED
      BY <1>10, LenProperties
  <2> HIDE DEF A
  <2> QED
    BY <1>11, <2>1, <2>2
<1> QED
  BY <1>12 DEF Q, P, X, M, m, low

(* The machine's cuts, for any labels and stacks.                          *)
CutBlocks(c, lo, hi, s, from, to) ==
  LET labels == SubSeq(c, lo + 1, hi)
      cuts == <<from>> \o [j \in 1 .. Len(labels) |-> labels[j].sp] \o <<to>>
  IN  [j \in 1 .. Len(labels) + 1 |-> SubSeq(s, cuts[j] + 1, cuts[j + 1])]

LabelsAt(c, lo, o, from) == \A j \in 1 .. Len(o) : c[lo + j].sp = from + o[j].base
LEMMA CutIs ==
  ASSUME NEW c \in Seq(LabelRecords), NEW o, Len(o) \in Nat, NEW lo \in Nat, NEW hi \in Nat,
         hi = lo + Len(o), hi <= Len(c), NEW from \in Nat, NEW to \in Nat, NEW s,
         LabelsAt(c, lo, o, from)
  PROVE  CutBlocks(c, lo, hi, s, from, to) = BlocksAt(s, o, from, to)
<1> DEFINE D == Len(o)
           labels == SubSeq(c, lo + 1, hi)
           sps == [j \in 1 .. Len(labels) |-> labels[j].sp]
           first == <<from>>
           last == <<to>>
           fs == first \o sps
           cuts == fs \o last
<1>1. Len(labels) = D /\ \A j \in 1 .. D : labels[j] = c[lo + j]
  <2>1. lo <= hi /\ hi - lo = D
    OBVIOUS
  <2>2. PieceOf(LabelRecords, c, lo, hi)
    <3> HIDE DEF D
    <3> QED
      BY <2>1, IsPiece
  <2> HIDE DEF D
  <2> QED
    BY <2>1, <2>2 DEF PieceOf
<1>2. \A j \in 1 .. D : labels[j].sp \in Nat
  <2> TAKE j \in 1 .. D
  <2>1. lo + j \in 1 .. Len(c)
    BY LenProperties
  <2>2. c[lo + j] \in LabelRecords
    BY <2>1, ElementOfSeq
  <2>3. 0 .. StackSize \subseteq Nat
    OBVIOUS
  <2> QED
    <3> DEFINE r == c[lo + j]
    <3>1. r \in LabelRecords /\ labels[j] = r
      BY <1>1, <2>2
    <3> HIDE DEF r, labels
    <3>2. r.sp \in 0 .. StackSize
      BY <3>1, Zenon DEF LabelRecords
    <3>3. r.sp \in Nat
      BY <2>3, <3>2
    <3> QED
      BY <3>1, <3>3
<1>3. CutBlocks(c, lo, hi, s, from, to) =
        [j \in 1 .. Len(labels) + 1 |-> SubSeq(s, cuts[j] + 1, cuts[j + 1])]
  BY DEF CutBlocks
<1>4. D \in Nat /\ \A j \in 1 .. D : c[lo + j].sp = from + o[j].base
  BY DEF LabelsAt
<1> HIDE DEF labels, D
<1>5. sps \in Seq(Nat) /\ Len(sps) = D /\ \A j \in 1 .. D : sps[j] = from + o[j].base
  <2>1. sps = [j \in 1 .. D |-> labels[j].sp]
    BY <1>1
  <2>2. sps \in [1 .. D -> Nat]
    BY <1>2, <2>1
  <2>3. \A j \in 1 .. D : sps[j] = from + o[j].base
    <3> TAKE j \in 1 .. D
    <3>1. sps[j] = labels[j].sp /\ labels[j] = c[lo + j]
      BY <1>1, <2>1
    <3> HIDE DEF sps
    <3> QED
      BY <1>4, <3>1
  <2> HIDE DEF sps
  <2>4. D \in Nat
    BY <1>4
  <2>5. sps \in Seq(Nat) /\ Len(sps) = D
    BY <2>2, <2>4, SeqDef
  <2> QED
    BY <2>3, <2>5
<1>6. /\ first \in Seq(Nat) /\ Len(first) = 1 /\ first[1] = from
      /\ last \in Seq(Nat) /\ Len(last) = 1 /\ last[1] = to
  OBVIOUS
<1> HIDE DEF sps, first, last
<1>7. /\ fs \in Seq(Nat) /\ Len(fs) = 1 + D
      /\ \A i \in 1 .. 1 + D : fs[i] = IF i <= 1 THEN first[i] ELSE sps[i - 1]
  <2>0. first \in Seq(Nat) /\ sps \in Seq(Nat) /\ Len(first) = 1 /\ Len(sps) = D
    BY <1>5, <1>6
  <2>1. fs \in Seq(Nat) /\ Len(fs) = Len(first) + Len(sps)
    BY <2>0, ConcatProperties
  <2>2. \A i \in 1 .. Len(first) + Len(sps) : fs[i] = IF i <= Len(first) THEN first[i] ELSE sps[i - Len(first)]
    <3>1. first \in Seq(Nat) /\ sps \in Seq(Nat)
      BY <2>0
    <3> QED
      BY <3>1, ConcatProperties
  <2> HIDE DEF fs
  <2> QED
    BY <2>0, <2>1, <2>2
<1> HIDE DEF fs
<1>8. \A i \in 1 .. D + 2 : cuts[i] = IF i <= 1 + D THEN fs[i] ELSE last[i - (1 + D)]
  <2>0. fs \in Seq(Nat) /\ last \in Seq(Nat) /\ Len(fs) = 1 + D /\ Len(last) = 1
    BY <1>6, <1>7
  <2>1. \A i \in 1 .. Len(fs) + Len(last) : cuts[i] = IF i <= Len(fs) THEN fs[i] ELSE last[i - Len(fs)]
    <3>1. fs \in Seq(Nat) /\ last \in Seq(Nat)
      BY <2>0
    <3> QED
      BY <3>1, ConcatProperties
  <2> HIDE DEF cuts
  <2>2. 1 + D + 1 = D + 2
    BY <1>4
  <2> QED
    BY <2>0, <2>1, <2>2
<1> HIDE DEF cuts
<1>9. \A i \in 1 .. D + 2 : cuts[i] = Mark(o, from, to, i)
  <2> TAKE i \in 1 .. D + 2
  <2>1. CASE i = 1
    BY <1>4, <1>6, <1>7, <1>8, <2>1 DEF Mark
  <2>2. CASE i = D + 2
    <3>1. ~(i <= 1 + D) /\ i - (1 + D) = 1 /\ i # 1
      BY <1>4, <2>2
    <3> QED
      BY <1>6, <1>8, <2>2, <3>1 DEF Mark, D
  <2>3. CASE i \in 2 .. D + 1
    <3>1. i \in 1 .. 1 + D /\ i <= 1 + D /\ ~(i <= 1) /\ i # D + 2 /\ i - 1 \in 1 .. D
      BY <1>4, <2>3
    <3>2. cuts[i] = from + o[i - 1].base
      BY <1>5, <1>7, <1>8, <3>1
    <3> QED
      BY <3>1, <3>2 DEF Mark, D
  <2> QED
    BY <1>4, <2>1, <2>2, <2>3
<1>10. \A j \in 1 .. D + 1 : cuts[j] = Mark(o, from, to, j) /\ cuts[j + 1] = Mark(o, from, to, j + 1)
  <2> TAKE j \in 1 .. D + 1
  <2>1. j \in 1 .. D + 2 /\ j + 1 \in 1 .. D + 2
    BY <1>4
  <2> QED
    BY <1>9, <2>1
<1> QED
  BY <1>1, <1>3, <1>10 DEF BlocksAt, D

----------------------------------------------------------------------------
(* The calls under way, by what validation says of where each is.          *)
FrameAt(pr, a, s, l, to, low) ==
  [fn |-> a.fn, pc |-> a.pc,
   vals |-> BlocksAt(s, Open(pr[a.fn].body, a.pc), a.spBase, to),
   locals |-> SubSeq(l, a.localsBase + 1, low)]

AllFrames(pr, a, s, l) ==
  [i \in 1 .. Len(a) |->
     FrameAt(pr, a[i], s, l, IF i = Len(a) THEN Len(s) ELSE a[i + 1].spBase,
             IF i = Len(a) THEN Len(l) ELSE a[i + 1].localsBase)]
CutFrames(a, c, s, l) ==
  [i \in 1 .. Len(a) |->
     [fn |-> a[i].fn, pc |-> a[i].pc,
      vals |-> CutBlocks(c, a[i].ctrlBase, IF i = Len(a) THEN Len(c) ELSE a[i + 1].ctrlBase,
                         s, a[i].spBase, IF i = Len(a) THEN Len(s) ELSE a[i + 1].spBase),
      locals |-> SubSeq(l, a[i].localsBase + 1, IF i = Len(a) THEN Len(l) ELSE a[i + 1].localsBase)]]

(* Inv's account of the stacks.                                            *)
Laid(pr, a, c, s, l) ==
  /\ pr \in Programs /\ a \in Seq(Activations) /\ c \in Seq(LabelRecords)
  /\ s \in Seq(Words) /\ l \in Seq(Words)
  /\ a # << >> => Framed(pr, c, Last(a), Len(c), Len(s), Len(l))
  /\ \A i \in 1 .. Len(a) - 1 :
       Framed(pr, c, a[i], a[i + 1].ctrlBase,
              a[i + 1].spBase + pr[a[i + 1].fn].results, a[i + 1].localsBase)
  /\ \A i, j \in 1 .. Len(a) : i <= j =>
       /\ a[i].ctrlBase <= a[j].ctrlBase /\ a[i].spBase <= a[j].spBase
       /\ a[i].localsBase <= a[j].localsBase

LEMMA LaidIs == ASSUME Inv PROVE Laid(prog, acts, ctrl, stack, locals)
  BY DEF Inv, StackTypes, TopFramed, CallersFramed, Ascending, Laid
LEMMA LaidNext == ASSUME Inv' PROVE Laid(prog', acts', ctrl', stack', locals')
  BY DEF Inv, StackTypes, TopFramed, CallersFramed, Ascending, Laid

LEMMA CutFramesAre ==
  ASSUME NEW pr, NEW a, NEW c, NEW s, NEW l, Laid(pr, a, c, s, l)
  PROVE  CutFrames(a, c, s, l) = AllFrames(pr, a, s, l)
<1> DEFINE n == Len(a)
<1>1. /\ pr \in Programs /\ a \in Seq(Activations) /\ c \in Seq(LabelRecords)
      /\ s \in Seq(Words) /\ l \in Seq(Words) /\ n \in Nat /\ Len(c) \in Nat /\ Len(s) \in Nat
  BY LenProperties DEF Laid
<1>2. SUFFICES ASSUME NEW i \in 1 .. n
               PROVE  CutBlocks(c, a[i].ctrlBase, IF i = Len(a) THEN Len(c) ELSE a[i + 1].ctrlBase,
                         s, a[i].spBase, IF i = Len(a) THEN Len(s) ELSE a[i + 1].spBase)
                      = BlocksAt(s, Open(pr[a[i].fn].body, a[i].pc), a[i].spBase,
                                 IF i = Len(a) THEN Len(s) ELSE a[i + 1].spBase)
  BY DEF CutFrames, AllFrames, FrameAt
<1> DEFINE b == a[i]
           o == Open(pr[b.fn].body, b.pc)
           hi == IF i = Len(a) THEN Len(c) ELSE a[i + 1].ctrlBase
           to == IF i = Len(a) THEN Len(s) ELSE a[i + 1].spBase
<1>3. \A j \in 1 .. n : a[j] \in Activations /\ a[j].ctrlBase \in Nat /\ a[j].spBase \in Nat
  <2>1. \A j \in 1 .. n : a[j] \in Activations
    BY <1>1, ElementOfSeq
  <2> QED
    BY <2>1 DEF Activations
<1>4. Last(a) = a[n] /\ a # << >> /\ n \in 1 .. n
  <2>1. n # 0
    BY <1>1
  <2> QED
    BY <1>1, <2>1 DEF Last
<1>5. \E x, y : Framed(pr, c, b, hi, x, y)
  <2>1. CASE i = n
    <3>1. Framed(pr, c, a[n], Len(c), Len(s), Len(l))
      BY <1>4 DEF Laid
    <3> QED
      BY <2>1, <3>1
  <2>2. CASE i # n
    <3>1. i \in 1 .. n - 1
      BY <1>1, <2>2
    <3>2. Framed(pr, c, a[i], a[i + 1].ctrlBase, a[i + 1].spBase + pr[a[i + 1].fn].results, a[i + 1].localsBase)
      BY <3>1 DEF Laid
    <3> QED
      BY <2>2, <3>2
  <2> QED
    BY <2>1, <2>2
<1>6. /\ b.fn \in DOMAIN pr /\ b.pc \in 1 .. Len(pr[b.fn].body)
      /\ hi = b.ctrlBase + Len(o)
      /\ \A j \in 1 .. Len(o) : LabelOf(c[b.ctrlBase + j], o[j], b.spBase)
  BY <1>5 DEF Framed
<1>7. Len(o) \in Nat
  <2>1. ValidFunction(pr, pr[b.fn])
    BY <1>1, <1>6, ValidAssumption
  <2> QED
    BY <1>6, <2>1, TypedIs
<1>8. hi \in Nat /\ to \in Nat /\ hi <= Len(c)
  <2>1. CASE i = n
    BY <1>1, <2>1
  <2>2. CASE i # n
    <3>1. i + 1 \in 1 .. n /\ i + 1 <= n
      BY <1>1, <2>2
    <3>2. a[i + 1].ctrlBase <= a[n].ctrlBase
      BY <1>4, <3>1 DEF Laid
    <3>3. Len(c) = a[n].ctrlBase + Len(Open(pr[a[n].fn].body, a[n].pc)) /\ a[n].fn \in DOMAIN pr
          /\ a[n].pc \in 1 .. Len(pr[a[n].fn].body)
      BY <1>4 DEF Laid, Framed
    <3>4. ValidFunction(pr, pr[a[n].fn])
      BY <1>1, <3>3, ValidAssumption
    <3>5. Len(Open(pr[a[n].fn].body, a[n].pc)) \in Nat
      BY <3>3, <3>4, TypedIs
    <3>6. a[n].ctrlBase \in Nat /\ a[i + 1].ctrlBase \in Nat /\ a[i + 1].spBase \in Nat
      BY <1>3, <1>4, <3>1
    <3> HIDE DEF n
    <3> QED
      BY <1>1, <2>2, <3>2, <3>3, <3>5, <3>6 DEF n
  <2> QED
    BY <2>1, <2>2
<1>9. b.ctrlBase \in Nat /\ b.spBase \in Nat
  BY <1>3
<1>10. \A j \in 1 .. Len(o) : c[b.ctrlBase + j].sp = b.spBase + o[j].base
  BY <1>6 DEF LabelOf
<1> DEFINE lo == b.ctrlBase
           from == b.spBase
<1>11. CutBlocks(c, lo, hi, s, from, to) = BlocksAt(s, o, from, to)
  <2>1. /\ c \in Seq(LabelRecords) /\ Len(o) \in Nat /\ lo \in Nat /\ hi \in Nat
        /\ hi = lo + Len(o) /\ hi <= Len(c) /\ from \in Nat /\ to \in Nat
    BY <1>1, <1>6, <1>7, <1>8, <1>9
  <2>2. LabelsAt(c, lo, o, from)
    BY <1>10 DEF LabelsAt
  <2> HIDE DEF b, o, hi, to, lo, from
  <2> QED
    BY <2>1, <2>2, CutIs
<1> QED
  BY <1>11

(* The calls of the structured machine are the frames validation lays out.  *)
LEMMA FramesAre ==
  ASSUME Inv
  PROVE  [i \in 1 .. Len(acts) |-> CallOf(i)] = AllFrames(prog, acts, stack, locals)
<1>1. [i \in 1 .. Len(acts) |-> CallOf(i)] = CutFrames(acts, ctrl, stack, locals)
  <2>1. ASSUME NEW i \in 1 .. Len(acts), Len(acts) \in Nat
        PROVE  /\ Ends(i, CtrlBases, Len(ctrl)) = IF i = Len(acts) THEN Len(ctrl) ELSE acts[i + 1].ctrlBase
               /\ Ends(i, SpBases, Len(stack)) = IF i = Len(acts) THEN Len(stack) ELSE acts[i + 1].spBase
               /\ Ends(i, LocalsBases, Len(locals)) = IF i = Len(acts) THEN Len(locals) ELSE acts[i + 1].localsBase
    <3>1. i # Len(acts) => i + 1 \in 1 .. Len(acts)
      BY <2>1
    <3>2. Ends(i, CtrlBases, Len(ctrl)) = IF i = Len(acts) THEN Len(ctrl) ELSE acts[i + 1].ctrlBase
      BY <3>1 DEF Ends, CtrlBases
    <3>3. Ends(i, SpBases, Len(stack)) = IF i = Len(acts) THEN Len(stack) ELSE acts[i + 1].spBase
      BY <3>1 DEF Ends, SpBases
    <3>4. Ends(i, LocalsBases, Len(locals)) = IF i = Len(acts) THEN Len(locals) ELSE acts[i + 1].localsBase
      BY <3>1 DEF Ends, LocalsBases
    <3> QED
      BY <3>2, <3>3, <3>4
  <2>2. Len(acts) \in Nat
    BY LenProperties DEF Inv, StackTypes
  <2>3. ASSUME NEW i \in 1 .. Len(acts)
        PROVE  CallOf(i) = CutFrames(acts, ctrl, stack, locals)[i]
    <3>1. BlocksOf(i) = CutBlocks(ctrl, acts[i].ctrlBase, Ends(i, CtrlBases, Len(ctrl)),
                                  stack, acts[i].spBase, Ends(i, SpBases, Len(stack)))
      BY Zenon DEF BlocksOf, CutBlocks
    <3>2. CallOf(i) = [fn |-> acts[i].fn, pc |-> acts[i].pc, vals |-> BlocksOf(i),
                       locals |-> SubSeq(locals, acts[i].localsBase + 1, Ends(i, LocalsBases, Len(locals)))]
      BY Zenon DEF CallOf
    <3> QED
      BY <2>1, <2>2, <3>1, <3>2, Zenon DEF CutFrames
  <2> QED
    BY <2>3, Zenon DEF CutFrames
<1> QED
  BY <1>1, LaidIs, CutFramesAre

LEMMA FramesNext ==
  ASSUME Inv'
  PROVE  [i \in 1 .. Len(acts) |-> CallOf(i)]' = AllFrames(prog', acts', stack', locals')
<1>1. [i \in 1 .. Len(acts) |-> CallOf(i)]' = CutFrames(acts', ctrl', stack', locals')
  <2>1. ASSUME NEW i \in 1 .. Len(acts'), Len(acts') \in Nat
        PROVE  /\ Ends(i, CtrlBases, Len(ctrl))' = IF i = Len(acts') THEN Len(ctrl') ELSE acts'[i + 1].ctrlBase
               /\ Ends(i, SpBases, Len(stack))' = IF i = Len(acts') THEN Len(stack') ELSE acts'[i + 1].spBase
               /\ Ends(i, LocalsBases, Len(locals))' = IF i = Len(acts') THEN Len(locals') ELSE acts'[i + 1].localsBase
    <3>1. i # Len(acts') => i + 1 \in 1 .. Len(acts')
      BY <2>1
    <3>2. Ends(i, CtrlBases, Len(ctrl))' = IF i = Len(acts') THEN Len(ctrl') ELSE acts'[i + 1].ctrlBase
      BY <3>1 DEF Ends, CtrlBases
    <3>3. Ends(i, SpBases, Len(stack))' = IF i = Len(acts') THEN Len(stack') ELSE acts'[i + 1].spBase
      BY <3>1 DEF Ends, SpBases
    <3>4. Ends(i, LocalsBases, Len(locals))' = IF i = Len(acts') THEN Len(locals') ELSE acts'[i + 1].localsBase
      BY <3>1 DEF Ends, LocalsBases
    <3> QED
      BY <3>2, <3>3, <3>4
  <2>2. Len(acts') \in Nat
    BY LenProperties DEF Inv, StackTypes
  <2>3. ASSUME NEW i \in 1 .. Len(acts')
        PROVE  CallOf(i)' = CutFrames(acts', ctrl', stack', locals')[i]
    <3>1. BlocksOf(i)' = CutBlocks(ctrl', acts'[i].ctrlBase, Ends(i, CtrlBases, Len(ctrl))',
                                   stack', acts'[i].spBase, Ends(i, SpBases, Len(stack))')
      BY Zenon DEF BlocksOf, CutBlocks
    <3>2. CallOf(i)' = [fn |-> acts'[i].fn, pc |-> acts'[i].pc, vals |-> BlocksOf(i)',
                        locals |-> SubSeq(locals', acts'[i].localsBase + 1, Ends(i, LocalsBases, Len(locals))')]
      BY Zenon DEF CallOf
    <3> QED
      BY <2>1, <2>2, <3>1, <3>2, Zenon DEF CutFrames
  <2> QED
    BY <2>3, Zenon DEF CutFrames
<1> QED
  BY <1>1, LaidNext, CutFramesAre
=============================================================================
