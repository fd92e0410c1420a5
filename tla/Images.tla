------------------------------- MODULE Images -------------------------------
(***************************************************************************)
(* The pictures of wasm/images.h: for each how many pixels its array has,  *)
(* the palette indexes that occur among them, and the palette's length;    *)
(* then the table hf_draw_image looks them up in.                          *)
(***************************************************************************)
EXTENDS Integers, Sequences

Image0 == [pixels |-> 25000, indexes |-> 0 .. 144, palette |-> 145]

Image1 == [pixels |-> 25000, indexes |-> 0 .. 41, palette |-> 42]

Image2 == [pixels |-> 25000, indexes |-> 0 .. 158, palette |-> 159]

Image3 == [pixels |-> 25000, indexes |-> 0 .. 133, palette |-> 134]

Image4 == [pixels |-> 25000, indexes |-> 0 .. 136, palette |-> 137]

(* g_images, from 1 *)
Images == <<[width |-> 200, height |-> 125, art |-> Image0],
            [width |-> 200, height |-> 125, art |-> Image1],
            [width |-> 200, height |-> 125, art |-> Image2],
            [width |-> 200, height |-> 125, art |-> Image3],
            [width |-> 200, height |-> 125, art |-> Image4]>>
=============================================================================
