------------------------------ MODULE WasmHost ------------------------------
(***************************************************************************)
(* wasm/host.c and fs_run: starting the guest compiled in or a program off *)
(* the volume, calling it when the window is painted, and handing it the   *)
(* keys the desktop pushes.  One thread does it all; a load is a step per  *)
(* section so that a file may be anything.  Drawing is in GuestDraw, sound *)
(* in Music.                                                               *)
(***************************************************************************)
EXTENDS WasmLoad

CONSTANTS
  Files,        \* external: programs on the volume, by name
  Pool,         \* external: the sections a file may have, in any order
  MaxSections,  \* bound: how many it has
  Builtin,      \* the module compiled in, as GuestModule!GuestFile
  KeySlots,     \* KEY_SLOTS
  Codes,        \* the guest's key codes
  KeyHost       \* the place of hf_key in g_hosts

ASSUME HostAssumption ==
  /\ KeySlots \in Nat \ {0, 1} /\ Codes \subseteq Nat \ {0}
  /\ MaxSections \in Nat /\ "builtin" \notin Files
ASSUME FilesAssumption ==
  /\ \A s \in Pool : Declared(s)
  /\ \A i \in DOMAIN Builtin : Declared(Builtin[i])

VARIABLES
  mod,          \* g_mod
  loaded, failed, fromDisk,   \* g_loaded, g_failed ("ok" for 0), g_from_disk
  prog,         \* which program's bytes are in g_prog
  memOf,        \* the programs that wrote what g_mem holds
  keys, head, tail,           \* g_keys, g_key_head, g_key_tail
  pc,           \* where the desktop's thread is
  loading,      \* the file being loaded, its sections so far
  running,      \* history: the file the loaded module came from
  torn,         \* history: a failed read went over the running program
  typed,        \* history: keys pushed at the running program, not yet read
  lastId, bodies              \* history: see InOrder

ring == <<keys, head, tail>>
host == <<loaded, failed, fromDisk>>
history == <<running, torn, typed, lastId, bodies>>
vars == <<mod, host, prog, memOf, ring, pc, loading, history>>

Unordered == MaxByte + 1        \* no section's id
NoFile == [from |-> "none", read |-> 0, next |-> "idle"]

Init ==
  /\ mod = Blank
  /\ loaded = FALSE /\ failed = "ok" /\ fromDisk = FALSE
  /\ prog = "none" /\ memOf = {}
  /\ keys = [i \in 0 .. KeySlots - 1 |-> 0] /\ head = 0 /\ tail = 0
  /\ pc = "idle" /\ loading = NoFile
  /\ running = "none" /\ torn = FALSE /\ typed = << >>
  /\ lastId = Unordered /\ bodies = 0

----------------------------------------------------------------------------
(* use_module.                                                             *)

(* Mutant of KeysDropped: the queue is kept. *)
KeysKept == UNCHANGED ring

KeysDropped == head' = 0 /\ tail' = 0 /\ UNCHANGED keys

(* Memory and keys are cleared before anything of the file is looked at. *)
Begins(file, next) ==
  /\ memOf' = {}
  /\ KeysDropped /\ typed' = << >>
  /\ mod' = Blank
  /\ pc' = "load"
  /\ loading' = [from |-> file, read |-> 0, next |-> next]
  /\ lastId' = 0 /\ bodies' = 0

(* Mutant of Refused: the old state of affairs is left standing. *)
RefusedQuietly(e) == failed' = e /\ UNCHANGED loaded

Refused(e) == failed' = e /\ loaded' = FALSE

Ends(e) ==
  /\ IF e = "ok"
     THEN /\ loaded' = TRUE /\ failed' = "ok" /\ fromDisk' = (loading.from # "builtin")
          /\ running' = loading.from /\ torn' = FALSE
     ELSE Refused(e) /\ UNCHANGED <<fromDisk, running, torn>>
  /\ pc' = IF e = "ok" THEN loading.next ELSE "idle"
  /\ loading' = NoFile
  /\ lastId' = Unordered /\ bodies' = 0       \* the order was looked at as it loaded

(* The next section: the builtin's, or any. *)
Offered == IF loading.from = "builtin" THEN {Builtin[loading.read + 1]} ELSE Pool
AtEnd == IF loading.from = "builtin" THEN loading.read = Len(Builtin) ELSE TRUE
More == IF loading.from = "builtin" THEN loading.read < Len(Builtin)
        ELSE loading.read < MaxSections

LoadSection(s) ==
  LET r == Section(mod, s) IN
  /\ pc = "load" /\ More /\ s \in Offered
  /\ memOf' = IF Writes(mod, s) THEN memOf \cup {loading.from} ELSE memOf
  /\ IF r.err = "ok"
     THEN /\ mod' = r.mod
          /\ loading' = [loading EXCEPT !.read = @ + 1]
          /\ lastId' = IF s.id = 0 THEN lastId ELSE IF s.id > lastId THEN s.id ELSE Unordered
          /\ bodies' = IF s.id = 10 THEN s.count ELSE bodies
          /\ UNCHANGED <<pc, host, running, torn>>
     ELSE IF r.err = "overrun"
     THEN /\ mod' = r.mod /\ pc' = "lost"
          /\ lastId' = Unordered /\ bodies' = 0
          /\ UNCHANGED <<host, loading, running, torn>>
     ELSE /\ Ends(r.err)
          /\ mod' = Blank         \* never looked at again: g_loaded is 0
  /\ UNCHANGED <<prog, ring, typed>>

(* The loop of section_function has left funcs and goes on over what lies  *)
(* behind it in memory: what the kernel does from here is not modelled.    *)
Overrunning == pc = "lost" /\ UNCHANGED vars

(* The file ends, after whole sections or within one or the header. *)
LoadEnds(e) ==
  /\ pc = "load"
  /\ e = "ok" => AtEnd
  /\ e \in {"magic", "version"} => loading.read = 0
  /\ e # "ok" => loading.from # "builtin"
  /\ Ends(e)
  /\ mod' = IF e = "ok" THEN mod ELSE Blank
  /\ UNCHANGED <<prog, memOf, ring, typed>>

----------------------------------------------------------------------------
(* fs_run, from the File Manager.                                          *)

(* The whole file, or its first WASM_PROG_MAX bytes, replaces g_prog. *)
Run(file) ==
  /\ pc = "idle"
  /\ prog' = file
  /\ Begins(file, "idle")
  /\ UNCHANGED <<host, running, torn>>

(* A read that fails after some sectors, a file of no bytes, or no file:   *)
(* the program that was running goes on.                                   *)
RunFails(over) ==
  /\ pc = "idle"
  /\ prog' = IF over THEN "mixed" ELSE prog
  /\ torn' = (torn \/ (over /\ loaded /\ fromDisk))
  /\ UNCHANGED <<mod, host, memOf, ring, pc, loading, running, typed, lastId, bodies>>

----------------------------------------------------------------------------
(* drawWasm: wasm_set_sound, then wasm_guest_frame.                        *)

(* A call into the guest; it goes on at next. *)
Calls(name, nargs, next) ==
  LET c == Called(mod, name, nargs) IN
  /\ IF c.err = "ok" THEN pc' = "guest" /\ loading' = [NoFile EXCEPT !.next = next]
     ELSE pc' = next /\ UNCHANGED loading
  /\ UNCHANGED <<mod, host, prog, memOf, ring, history>>

Sound ==
  /\ pc = "idle"
  /\ IF loaded THEN Calls("set_sound", 1, "frame")
     ELSE pc' = "frame" /\ UNCHANGED <<mod, host, prog, memOf, ring, loading, history>>

(* A frame of a window with room for one. *)
Frame ==
  /\ pc = "frame"
  /\ CASE failed # "ok" ->
            pc' = "idle" /\ UNCHANGED <<mod, host, prog, memOf, ring, loading, history>>
       [] failed = "ok" /\ ~loaded ->
            Begins("builtin", "frame") /\ UNCHANGED <<host, prog, running, torn>>
       [] OTHER -> Calls("frame", 0, "idle")

(* The guest stores into its memory. *)
GuestWrites ==
  /\ pc = "guest" /\ mod.limit > 0
  /\ memOf' = memOf \cup {running}
  /\ UNCHANGED <<mod, host, prog, ring, pc, loading, history>>

(* hf_key, if the guest imported it. *)
HfKey ==
  /\ pc = "guest" /\ \E f \in DOMAIN mod.funcs : mod.funcs[f].host = KeyHost
  /\ head # tail
  /\ typed' = Tail(typed)
  /\ head' = (head + 1) % KeySlots
  /\ UNCHANGED <<mod, host, prog, memOf, keys, tail, pc, loading, running, torn, lastId, bodies>>

(* The call returns, or traps. *)
GuestEnds ==
  /\ pc = "guest"
  /\ pc' = loading.next /\ loading' = NoFile
  /\ UNCHANGED <<mod, host, prog, memOf, ring, history>>

(* wasm_push_key: a full queue drops the key. *)
PushKey(code) ==
  LET next == (tail + 1) % KeySlots IN
  /\ pc = "idle" /\ next # head
  /\ keys' = [keys EXCEPT ![tail] = code] /\ tail' = next
  /\ typed' = Append(typed, code)
  /\ UNCHANGED <<mod, host, prog, memOf, head, pc, loading, running, torn, lastId, bodies>>

Next ==
  \/ \E s \in Pool \cup {Builtin[i] : i \in DOMAIN Builtin} : LoadSection(s)
  \/ \E e \in {"ok", "magic", "version", "truncated"} : LoadEnds(e)
  \/ \E file \in Files : Run(file)
  \/ \E over \in BOOLEAN : RunFails(over)
  \/ Sound \/ Frame
  \/ GuestWrites \/ HfKey \/ GuestEnds \/ Overrunning
  \/ \E code \in Codes : PushKey(code)

Spec == Init /\ [][Next]_vars

----------------------------------------------------------------------------
(* What the interpreter relies on while it runs, from files whose sections *)
(* come in any order and any number of times: every index stays within the *)
(* fixed arrays and names something that was read, and the memory the      *)
(* guest is given is the host's (wasm.h, "fixed-size arrays").  Excepted   *)
(* is a file with a function section whose count wraps when the functions  *)
(* before it are added (section_function, `m->nfuncs + n`): for it the     *)
(* loop writes past funcs before wasm_load answers.                        *)
LoadedInBounds ==
  pc # "lost" =>
    /\ Len(mod.types) <= MaxTypes /\ mod.ntypes <= Len(mod.types)
    /\ Len(mod.funcs) <= MaxFuncs /\ Len(mod.exports) <= MaxExports
    /\ mod.globals <= MaxGlobals
    /\ mod.limit <= MemBytes
    /\ \A f \in DOMAIN mod.funcs :
         /\ mod.funcs[f].type < Len(mod.types)
         /\ mod.funcs[f].host \in 0 .. Hosts
         /\ mod.funcs[f].locals <= MaxByte

(* A file whose sections come once each, in the order of their ids, loads  *)
(* as it declares: its imports are functions 0 to n-1 (wasm.h), the others *)
(* are its own, and each has the body that is its in the code section.     *)
InOrder == lastId # Unordered
LoadsAsDeclared ==
  InOrder =>
    \A f \in DOMAIN mod.funcs :
      /\ f <= mod.nimports <=> mod.funcs[f].host # 0
      /\ f > mod.nimports =>
           mod.funcs[f].body = IF f - mod.nimports <= bodies THEN f - mod.nimports ELSE 0

Queue == [i \in 1 .. (tail - head + KeySlots) % KeySlots |->
            keys[(head + i - 1) % KeySlots]]

(* A program that runs reads the keys typed since it was started, in order *)
(* and none twice, and finds in its memory what it or its file put there,  *)
(* whatever ran or failed to load before it: "keystrokes typed at the old  *)
(* program have no business arriving in the new one" (use_module).         *)
NothingInherited ==
  /\ Queue = typed
  /\ pc = "guest" => memOf \subseteq {running}

(* The interpreter reads instructions and names where the file was put, so *)
(* a program from the volume runs from its own bytes, through launches     *)
(* that are refused, fail to load or fail to read -- but for a read that   *)
(* failed after it had begun to replace them (fs_run; "that buffer must    *)
(* outlive the module", wasm.h).                                           *)
RunsItsOwnBytes ==
  pc \notin {"load", "lost"} /\ loaded /\ running # "builtin" => prog = running \/ torn
=============================================================================
