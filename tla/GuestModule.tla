----------------------------- MODULE GuestModule ----------------------------
(***************************************************************************)
(* The module compiled into the kernel (wasm/guest_module.h), section by   *)
(* section as WasmLoad reads files: what each declares, with its names     *)
(* kept where the host looks them up and its instructions left to the      *)
(* machine that runs them.                                                 *)
(***************************************************************************)
EXTENDS Integers, Sequences

CONSTANTS HostTable     \* g_hosts: the names, in order

LOCAL Sig(params, results) == [params |-> params, results |-> results, i32 |-> TRUE]
LOCAL Import(name, type) ==
  [kind |-> 0, type |-> type,
   host |-> IF \E h \in DOMAIN HostTable : HostTable[h] = name
            THEN CHOOSE h \in DOMAIN HostTable : HostTable[h] = name ELSE 0]
LOCAL Export(name, kind, index) == [name |-> name, kind |-> kind, index |-> index]
LOCAL Body(locals) == [ends |-> "behind", i32 |-> TRUE, locals |-> locals]
LOCAL Segment(offset, bytes) == [active |-> TRUE, offset |-> offset, bytes |-> bytes]
LOCAL Declares(id, items) ==
  [id |-> id, count |-> Len(items), items |-> items, short |-> FALSE]

GuestTypes == Declares(1,
  <<Sig(2, 0), Sig(1, 0), Sig(4, 0), Sig(0, 1), Sig(3, 0), Sig(0, 0), Sig(6, 0)>>)

GuestImports == Declares(2,
  <<Import("beep", 0), Import("music", 1), Import("set_color", 1), Import("fill_rect", 2),
    Import("key", 3), Import("width", 3), Import("height", 3),
    Import("draw_int", 4), Import("draw_image", 2)>>)

GuestFunctions == Declares(3, <<1, 5, 0, 0, 1, 5, 6, 5, 1, 1, 1, 3, 5>>)

GuestMemory == Declares(5, <<1>>)

GuestGlobals == Declares(6, [i \in 1 .. 3 |-> [i32 |-> TRUE, constant |-> TRUE]])

GuestExports == Declares(7,
  <<Export("memory", 2, 0), Export("frame", 0, 16), Export("set_sound", 0, 19),
    Export("level_count", 0, 20), Export("__data_end", 3, 1), Export("__heap_base", 3, 2)>>)

(* The bodies of main.rs's functions: each is skipped over but for the     *)
(* locals it declares.                                                     *)
GuestCode == Declares(10,
  <<Body(8), Body(2), Body(0), Body(3), Body(0), Body(0), Body(2),
    Body(12), Body(0), Body(0), Body(0), Body(0), Body(0)>>)

(* The level maps and the constants, then one initialised variable. *)
GuestData == Declares(11, <<Segment(32768, 18908), Segment(51676, 4)>>)

(* wasm_guest_module *)
GuestFile == <<GuestTypes, GuestImports, GuestFunctions, GuestMemory,
               GuestGlobals, GuestExports, GuestCode, GuestData>>
=============================================================================
