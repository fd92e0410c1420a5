------------------------------ MODULE WasmLoad ------------------------------
(***************************************************************************)
(* wasm_load of wasm/wasm.c, a section at a time, and the lookup of        *)
(* wasm_call.  A file is a header and sections as its bytes declare them:  *)
(* in any order, any number of times, well formed or not.  `short` says    *)
(* that a section's bytes end before the last item its count announces.    *)
(***************************************************************************)
EXTENDS Integers, Sequences, FiniteSets

CONSTANTS
  MaxTypes, MaxFuncs, MaxExports, MaxGlobals,   \* WASM_MAX_*
  MaxByte,                                      \* 255
  Word, PageBytes, MemBytes,                    \* 2^32, 65536, sizeof(g_mem)
  Hosts                                         \* how many entries g_hosts has

ASSUME LoadAssumption ==
  /\ {MaxTypes, MaxFuncs, MaxExports, MaxGlobals, MaxByte, Hosts} \subseteq Nat
  /\ {PageBytes, MemBytes} \subseteq Nat
  /\ Word \in Nat \ {0} /\ MaxFuncs < Word

(* What a section of a file may declare: items of the shape its id gives   *)
(* them, fewer than it announces if its bytes end before.  Where a body    *)
(* ends, by its size: behind its first instruction, not behind it (a size  *)
(* too small, or one that wraps as a pointer), or outside the section; the *)
(* reader goes on from there, so that the next item may be any bytes.      *)
(* locals is the sum of its groups.                                        *)
Signatures == [params : Nat, results : Nat, i32 : BOOLEAN]
Exported == [name : STRING, kind : Nat, index : Nat]
Items(id) ==
  CASE id = 1 -> Signatures
    [] id = 2 -> [kind : Nat, type : Nat, host : Nat]
    [] id = 6 -> [i32 : BOOLEAN, constant : BOOLEAN]
    [] id = 7 -> Exported
    [] id = 10 -> [ends : {"behind", "before", "outside"}, i32 : BOOLEAN, locals : Nat]
    [] id = 11 -> [active : BOOLEAN, offset : Nat, bytes : Nat]
    [] OTHER -> Nat
Declared(s) ==
  /\ s.id \in 0 .. MaxByte /\ s.count \in 0 .. Word - 1
  /\ s.items \in Seq(Items(s.id)) /\ Len(s.items) <= s.count
  /\ s.short <=> Len(s.items) < s.count

(* A module before its first section: wzero.  types is the array up to     *)
(* what was ever written, of which the first ntypes count; host is the     *)
(* index of an import, 0 in a function of the module's own; body 0 is no   *)
(* code; runs says that an instruction lies before code_end; first is      *)
(* wasm_load's first_local.                                                *)
Blank == [types |-> << >>, ntypes |-> 0, funcs |-> << >>, nimports |-> 0,
          first |-> 0, exports |-> << >>, globals |-> 0,
          pages |-> 0, limit |-> 0]

Ok(m) == [mod |-> m, err |-> "ok"]
Fails(m, e) == [mod |-> m, err |-> e]

(* The error of the first item that has one, else what a section that ran  *)
(* out of bytes ends with.                                                 *)
FirstError(s, errs, ranOut) ==
  LET bad == {i \in DOMAIN s.items : errs[i] # "ok"}
  IN  IF bad # {} THEN errs[CHOOSE i \in bad : \A j \in bad : i <= j]
      ELSE IF s.short THEN ranOut ELSE "ok"

(* Every section: m as it becomes if there is no error. *)
Judged(m, becomes, e) == IF e = "ok" THEN Ok(becomes) ELSE Fails(m, e)

(* section_type *)
TypeErrors(s) ==
  [i \in DOMAIN s.items |->
     LET t == s.items[i] IN
     CASE t.params > MaxByte -> "limit"
       [] t.params <= MaxByte /\ ~t.i32 -> "unsupported"
       [] t.params <= MaxByte /\ t.i32 /\ t.results > 1 -> "unsupported"
       [] OTHER -> "ok"]
TypeSection(m, s) ==
  IF s.count > MaxTypes THEN Fails(m, "limit")
  ELSE Judged(m, [m EXCEPT !.types = s.items \o SubSeq(@, s.count + 1, Len(@)),
                           !.ntypes = s.count],
              FirstError(s, TypeErrors(s), "type"))

(* section_import: an import of a table, a memory or a global is read over. *)
IsFunc(s, i) == s.items[i].kind = 0
UpTo(s, n) == {j \in 1 .. n : IsFunc(s, j)}
Nth(s, k) == CHOOSE i \in DOMAIN s.items : IsFunc(s, i) /\ Cardinality(UpTo(s, i)) = k
ImportErrors(m, s) ==
  [i \in DOMAIN s.items |->
     LET f == s.items[i]
         fits == Len(m.funcs) + Cardinality(UpTo(s, i)) <= MaxFuncs
     IN  CASE f.kind > 3 -> "unsupported"
           [] f.kind # 0 /\ f.kind <= 3 -> "ok"
           [] f.kind = 0 /\ ~fits -> "limit"
           [] f.kind = 0 /\ fits /\ f.type >= m.ntypes -> "type"
           [] f.kind = 0 /\ fits /\ f.type < m.ntypes /\ f.host \notin 1 .. Hosts -> "import"
           [] OTHER -> "ok"]
Imported(s, k) ==
  [type |-> s.items[Nth(s, k)].type, host |-> s.items[Nth(s, k)].host,
   body |-> 0, locals |-> 0, runs |-> FALSE]
ImportSection(m, s) ==
  LET n == Cardinality(UpTo(s, Len(s.items))) IN
  Judged(m, [m EXCEPT !.funcs = @ \o [k \in 1 .. n |-> Imported(s, k)],
                      !.nimports = @ + n],
         FirstError(s, ImportErrors(m, s), "truncated"))

(* Mutant of Room: the functions of earlier sections are forgotten. *)
RoomFresh(m, n) == n <= MaxFuncs

(* section_function: the sum of the functions there are and the count is   *)
(* one of 32 bits.                                                         *)
Room(m, n) == (Len(m.funcs) + n) % Word <= MaxFuncs

(* A count that wraps passes, and the loop reaches the entry past the end  *)
(* of funcs unless one before it has no type; the bytes that are not there *)
(* read as type 0.                                                         *)
PastEnd(m) == MaxFuncs + 1 - Len(m.funcs)
Overruns(m, s) ==
  /\ Len(m.funcs) + s.count >= Word
  /\ \A i \in DOMAIN s.items : i <= PastEnd(m) => s.items[i] < m.ntypes
  /\ Len(s.items) >= PastEnd(m) \/ m.ntypes > 0

Own(type) == [type |-> type, host |-> 0, body |-> 0, locals |-> 0, runs |-> FALSE]
Adding(m, more) == [m EXCEPT !.first = Len(m.funcs), !.funcs = @ \o more]
FunctionErrors(m, s) ==
  [i \in DOMAIN s.items |-> IF s.items[i] >= m.ntypes THEN "type" ELSE "ok"]
FunctionSection(m, s) ==
  IF ~Room(m, s.count) THEN Fails(m, "limit")
  ELSE IF Overruns(m, s)
  THEN Fails(Adding(m, [i \in 1 .. PastEnd(m) |->
                          Own(IF i \in DOMAIN s.items THEN s.items[i] ELSE 0)]), "overrun")
  ELSE Judged(m, Adding(m, [i \in DOMAIN s.items |-> Own(s.items[i])]),
              FirstError(s, FunctionErrors(m, s), IF m.ntypes = 0 THEN "type" ELSE "truncated"))

(* The limit the pages give, in 32 bits, and the buffer. *)
Limit(pages) == (pages * PageBytes) % Word
Fits(pages) == Limit(pages) <= MemBytes

(* wasm_load's memory section *)
MemorySection(m, s) ==
  IF s.count > 1 THEN Fails(m, "unsupported")
  ELSE LET pages == IF s.count = 1 /\ ~s.short THEN s.items[1] ELSE 0 IN
       IF ~Fits(pages) THEN Fails(m, "memory")
       ELSE Judged(m, [m EXCEPT !.pages = pages, !.limit = Limit(pages)],
                   IF s.short THEN "truncated" ELSE "ok")

(* section_global: the items say whether the type is i32 and the constant  *)
(* expression is one const_expr takes.                                     *)
GlobalErrors(s) ==
  [i \in DOMAIN s.items |-> IF s.items[i].i32 THEN "ok" ELSE "unsupported"]
GlobalSection(m, s) ==
  LET e == FirstError(s, GlobalErrors(s), "unsupported")
      constant == \A i \in DOMAIN s.items : s.items[i].constant
  IN  IF s.count > MaxGlobals THEN Fails(m, "limit")
      ELSE Judged(m, [m EXCEPT !.globals = IF s.count = 0 THEN @ ELSE s.count],
                  IF e = "ok" /\ ~constant THEN "truncated" ELSE e)

(* section_export: nexports is left where an empty section finds it. *)
ExportSection(m, s) ==
  IF s.count > MaxExports THEN Fails(m, "limit")
  ELSE Judged(m, [m EXCEPT !.exports = IF s.count = 0 THEN @ ELSE s.items],
              IF s.short THEN "truncated" ELSE "ok")

(* Mutant of BodyAt: bodies are counted from function 0. *)
BodyAtZero(m, i) == i

(* The function the i-th body belongs to. *)
BodyAt(m, i) == m.first + i

(* section_code *)
CodeErrors(m, s) ==
  [i \in DOMAIN s.items |->
     LET b == s.items[i]
         known == BodyAt(m, i) <= Len(m.funcs)
     IN  CASE b.ends = "outside" -> "truncated"
           [] b.ends # "outside" /\ ~known -> "limit"
           [] b.ends # "outside" /\ known /\ ~b.i32 -> "unsupported"
           [] b.ends # "outside" /\ known /\ b.i32 /\ b.locals % Word > MaxByte -> "limit"
           [] OTHER -> "ok"]
HasBody(m, s, f) == \E i \in DOMAIN s.items : BodyAt(m, i) = f
BodyOf(m, s, f) == CHOOSE i \in DOMAIN s.items : BodyAt(m, i) = f
Coded(f, i, b) ==
  [f EXCEPT !.body = i, !.locals = b.locals % Word, !.runs = (b.ends = "behind")]
CodeSection(m, s) ==
  Judged(m, [m EXCEPT !.funcs = [f \in DOMAIN @ |->
               IF HasBody(m, s, f)
               THEN Coded(@[f], BodyOf(m, s, f), s.items[BodyOf(m, s, f)]) ELSE @[f]]],
         FirstError(s, CodeErrors(m, s), "truncated"))

(* section_data: writes into the memory, which the module does not hold. *)
DataErrors(m, s) ==
  [i \in DOMAIN s.items |->
     LET d == s.items[i] IN
     CASE ~d.active -> "unsupported"
       [] d.active /\ (d.offset > m.limit \/ d.bytes > m.limit - d.offset) -> "memory"
       [] OTHER -> "ok"]
DataSection(m, s) ==
  Judged(m, m, FirstError(s, DataErrors(m, s), "truncated"))

(* A section's payload; other ids are skipped. *)
Section(m, s) ==
  CASE s.id = 1 -> TypeSection(m, s)
    [] s.id = 2 -> ImportSection(m, s)
    [] s.id = 3 -> FunctionSection(m, s)
    [] s.id = 5 -> MemorySection(m, s)
    [] s.id = 6 -> GlobalSection(m, s)
    [] s.id = 7 -> ExportSection(m, s)
    [] s.id = 10 -> CodeSection(m, s)
    [] s.id = 11 -> DataSection(m, s)
    [] OTHER -> Ok(m)

(* Does a section write into the memory before or without an error?  Data  *)
(* segments are copied one by one.                                         *)
Writes(m, s) ==
  s.id = 11 /\ \E i \in DOMAIN s.items :
    /\ s.items[i].bytes > 0
    /\ \A j \in 1 .. i : s.items[j].active /\ s.items[j].offset <= m.limit
                           /\ s.items[j].bytes <= m.limit - s.items[j].offset

(* wasm_call: the function an export names, or why there is none.  A       *)
(* function of no instructions returns at once, which is a stack error if it was *)
(* to leave a result.                                                      *)
Called(m, name, nargs) ==
  LET named == {i \in DOMAIN m.exports : m.exports[i].kind = 0 /\ m.exports[i].name = name}
      at == m.exports[CHOOSE i \in named : \A j \in named : i <= j].index
      f == m.funcs[at + 1]
  IN  IF named = {} THEN [err |-> "no_export", fn |-> 0]
      ELSE IF at >= Len(m.funcs) THEN [err |-> "type", fn |-> 0]
      ELSE IF m.types[f.type + 1].params # nargs THEN [err |-> "type", fn |-> 0]
      ELSE IF f.host = 0 /\ ~f.runs /\ m.types[f.type + 1].results = 1
           THEN [err |-> "stack", fn |-> at + 1]
      ELSE [err |-> "ok", fn |-> at + 1]
=============================================================================
