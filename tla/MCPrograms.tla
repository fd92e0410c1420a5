------------------------------ MODULE MCPrograms ----------------------------
(***************************************************************************)
(* The guest compiled in, and files of up to five sections drawn from a    *)
(* pool: for each kind one or two that are well formed in some module and  *)
(* some that are over a limit, cut short, or refer to what is not there.   *)
(* The limits are just what the compiled-in guest needs.                   *)
(***************************************************************************)
EXTENDS WasmHost, GuestDraw, TLC

CONSTANTS game, tool    \* programs on the volume

MCSymmetry == Permutations({game, tool})

HostNames == <<"set_color", "fill_rect", "draw_int", "draw_image", "width",
               "height", "key", "beep", "music">>

Guest == INSTANCE GuestModule WITH HostTable <- HostNames

MCBuiltin == Guest!GuestFile

(* Words of five bits in groups of two stand for 32 in groups of seven:    *)
(* the last group that fits is one bit in, and another is too long.        *)
Leb == INSTANCE Leb128 WITH Bits <- 5, Group <- 2
LebBytes == [low : 0 .. 3, more : BOOLEAN]
ASSUME LebIsRead ==
  \A n \in 0 .. 4 : \A bytes \in [1 .. n -> LebBytes] : Leb!ReadsWhatIsMeant(bytes)

(* What the guest draws, on windows and clip rectangles a few pixels wide: *)
(* what it asked for, where that lies in its window.                       *)
Win == [x |-> 1, y |-> 1, w |-> 3, h |-> 2]
Meets(box, p) == /\ box.x <= p[1] /\ p[1] < box.x + box.w
                 /\ box.y <= p[2] /\ p[2] < box.y + box.h
ASSUME RectanglesAreClipped ==
  \A box \in [x : -1 .. 3, y : -1 .. 2, w : -1 .. 5, h : -1 .. 3] :
    LET filled == FillRect(Win, box) IN
    \A p \in (-2 .. 7) \X (-2 .. 6) :
      Meets(filled, p) <=> Meets(Win, p) /\ Meets(OnScreen(Win, box), p)
Wide == [x |-> 2, y |-> -3, w |-> 20, h |-> 18]
ASSUME NumbersStayInside ==
  LET clip == [x |-> 0, y |-> 0, x2 |-> 30, y2 |-> 30] IN
  \A x \in {-1, 0, 5, 19, 20}, y \in -1 .. IntMax : \A fits \in MayFit(Wide, y) :
    \A p \in DrawInt(Wide, clip, x, y, 2, fits) : Visible(Wide, clip, p)

(* It fits in the limits of wasm.h, and so in the ones below. *)
ASSUME BuiltinFits ==
  /\ Guest!GuestTypes.count <= 64 /\ Guest!GuestExports.count <= 64
  /\ Guest!GuestImports.count + Guest!GuestFunctions.count <= 256
  /\ Guest!GuestGlobals.count <= 64

Part(id, items) == [id |-> id, count |-> Len(items), items |-> items, short |-> FALSE]
Short(id, items) == [id |-> id, count |-> Len(items) + 1, items |-> items, short |-> TRUE]
Over(id, n) == [id |-> id, count |-> n, items |-> << >>, short |-> TRUE]

T(p, r) == [params |-> p, results |-> r, i32 |-> TRUE]
Fn(kind, type, h) == [kind |-> kind, type |-> type, host |-> h]
Ex(name, kind, index) == [name |-> name, kind |-> kind, index |-> index]
Body(locals) == [ends |-> "behind", i32 |-> TRUE, locals |-> locals]
Data(offset, n) == [active |-> TRUE, offset |-> offset, bytes |-> n]

Wanted ==
  { Part(1, <<T(0, 0), T(0, 1)>>), Part(1, <<T(0, 1)>>),
    Part(2, <<Fn(2, 0, 0), Fn(0, 0, 7)>>),
    Part(3, [i \in 1 .. 12 |-> i % 2]),
    Part(5, <<17>>),
    Part(7, <<Ex("frame", 2, 0), Ex("frame", 0, 0), Ex("set_sound", 0, 1)>>),
    Part(10, <<Body(1), Body(0)>>),
    Part(11, <<Data(0, 4)>>) }

Flawed ==
  { Over(1, 8), Short(1, <<T(0, 0)>>), Part(1, <<T(1, 2)>>),
    Part(1, <<[T(0, 0) EXCEPT !.i32 = FALSE]>>),
    Part(2, <<Fn(0, 0, 0)>>), Part(2, <<Fn(4, 0, 0)>>), Short(2, << >>),
    Short(3, << >>), Over(3, 23), Over(3, Word - 1),
    Part(5, <<2>>), Part(5, <<1, 1>>), Short(5, << >>),
    Over(6, 4), Part(6, <<[i32 |-> TRUE, constant |-> FALSE]>>),
    Over(7, 7), Short(7, << >>),
    Part(10, <<[Body(0) EXCEPT !.ends = "outside"]>>), Part(10, <<Body(256)>>),
    Part(10, <<[Body(Word + 3) EXCEPT !.ends = "before"], Body(0)>>),
    Part(10, <<[Body(0) EXCEPT !.i32 = FALSE]>>),
    Part(11, <<Data(65530, 10)>>), Part(11, <<Data(0, 4), Data(65537, 0)>>),
    Part(11, <<[Data(0, 1) EXCEPT !.active = FALSE]>>) }

MCPool == Wanted \cup Flawed
=============================================================================
