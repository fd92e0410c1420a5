------------------------------ MODULE GuestDraw -----------------------------
(***************************************************************************)
(* The drawing calls of wasm/host.c as the set of pixels each one paints:  *)
(* the guest draws in coordinates of its own and "this layer translates    *)
(* and clamps".  A box is [x, y, w, h]; the window is the box the desktop  *)
(* gave the frame, and the guest's (0, 0) is its corner.  A clip rectangle *)
(* [x, y, x2, y2] is the part of the screen that is being painted.         *)
(***************************************************************************)
EXTENDS Images

CONSTANT IntMax         \* INT_MAX of a 32-bit int

ASSUME IntAssumption == IntMax \in Nat /\ IntMax > 16

(* What a sum of two ints, or three, becomes. *)
Wrapped(v) ==
  IF v > IntMax THEN v - 2 * (IntMax + 1)
  ELSE IF v < -IntMax - 1 THEN v + 2 * (IntMax + 1) ELSE v

Pixels(b) == {p \in Int \X Int : /\ b.x <= p[1] /\ p[1] < b.x + b.w
                                 /\ b.y <= p[2] /\ p[2] < b.y + b.h}

(* A box of the guest's, on the screen. *)
OnScreen(win, b) == [b EXCEPT !.x = win.x + @, !.y = win.y + @]

(* hf_fill_rect: one direction of the clamp, for a start a, a length n and *)
(* a window that long; then the rectangle that is filled.                  *)
From(a) == IF a < 0 THEN 0 ELSE a
Left(a, n) == IF a < 0 THEN n + a ELSE n
Span(a, n, size) ==
  IF Left(a, n) > size - From(a) THEN size - From(a) ELSE Left(a, n)

FillRect(win, b) ==
  LET nothing == [x |-> 0, y |-> 0, w |-> 0, h |-> 0]
      w == Span(b.x, b.w, win.w)
      h == Span(b.y, b.h, win.h)
  IN  IF \/ b.w <= 0 \/ b.h <= 0
         \/ From(b.x) >= win.w \/ From(b.y) >= win.h
         \/ w <= 0 \/ h <= 0
      THEN nothing
      ELSE [x |-> win.x + From(b.x), y |-> win.y + From(b.y), w |-> w, h |-> h]

(* What is visible of the window in the clip rectangle. *)
Visible(win, clip, p) ==
  /\ win.x <= p[1] /\ p[1] < win.x + win.w /\ clip.x <= p[1] /\ p[1] < clip.x2
  /\ win.y <= p[2] /\ p[2] < win.y + win.h /\ clip.y <= p[2] /\ p[2] < clip.y2

(* hf_draw_int: the cells, 8 by 16, of the characters of a number that has *)
(* n of them, the i-th from the right at i = 0.  y is any int: what        *)
(* `y + 16 > g_oh` comes to when the sum is none is the compiler's choice. *)
(* draw_char_vram adds up a row and drops it outside the clip rectangle.   *)
CharX(x, n, i) == x + (n - 1 - i) * 8
MayFit(win, y) == IF y + 16 > IntMax THEN BOOLEAN ELSE {y + 16 <= win.h}
CellPixel(win, x, y, kx, ky) == <<win.x + x + kx, Wrapped(win.y + y + ky)>>
Clipped(clip, p) == clip.x <= p[1] /\ p[1] < clip.x2 /\ clip.y <= p[2] /\ p[2] < clip.y2
DrawInt(win, clip, x, y, n, fits) ==
  IF x < 0 \/ y < 0 \/ x >= win.w \/ ~fits THEN {}
  ELSE {p \in {CellPixel(win, CharX(x, n, i), y, kx, ky) :
                 i \in {j \in 0 .. n - 1 : CharX(x, n, j) + 8 <= win.w},
                 kx \in 0 .. 7, ky \in 0 .. 15} : Clipped(clip, p)}

(* hf_draw_image: `scale` held to 1 .. 8; the point source pixel (sx, sy)  *)
(* paints at (kx, ky) of its square; and the points that are painted.      *)
Scale(s) == IF s < 1 THEN 1 ELSE IF s > 8 THEN 8 ELSE s
PointAt(win, dx, dy, s, sx, sy, kx, ky) ==
  <<Wrapped(win.x + dx + sx * s + kx), Wrapped(win.y + dy + sy * s + ky)>>
DrawImage(win, clip, im, dx, dy, scale) ==
  LET s == Scale(scale) IN
  {p \in {PointAt(win, dx, dy, s, sx, sy, kx, ky) :
            sx \in 0 .. im.width - 1, sy \in 0 .. im.height - 1,
            kx \in 0 .. s - 1, ky \in 0 .. s - 1} : Visible(win, clip, p)}

(* The pixel of the array that is read for a source position. *)
SourceAt(im, sx, sy) == sy * im.width + sx
=============================================================================
