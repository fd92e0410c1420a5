------------------------------- MODULE Leb128 -------------------------------
(***************************************************************************)
(* The readers of wasm/wasm.c: numbers in groups of bits, the lowest group *)
(* first, a flag in each byte saying that another follows.  The code has   *)
(* words of 32 bits and groups of 7; a byte here is [low, more].           *)
(***************************************************************************)
EXTENDS Integers, Sequences

CONSTANTS Bits, Group

Wrapped(n) == n % 2 ^ Bits
AsInt(n) == IF 2 * n < 2 ^ Bits THEN n ELSE n - 2 ^ Bits

(* The number of bytes looked at: up to the first without the flag. *)
Last(bytes) == {i \in DOMAIN bytes : ~bytes[i].more}
Used(bytes) == CHOOSE i \in Last(bytes) : \A j \in Last(bytes) : i <= j
Failed == [ok |-> FALSE, value |-> 0, read |-> 0]
Read(v, n) == [ok |-> TRUE, value |-> v, read |-> n]

(* A byte past the end, or one that begins at bit Bits or later. *)
TooLong(n) == (n - 1) * Group > Bits - 1
Unreadable(bytes) == Last(bytes) = {} \/ TooLong(Used(bytes))

(* The groups of the first n bytes, each shifted into the word.  They do   *)
(* not meet, so adding them is or-ing them.                                *)
Shifted(bytes, n) ==
  LET sum[i \in 0 .. n] ==
        IF i = 0 THEN 0
        ELSE sum[i - 1] + Wrapped(bytes[i].low * 2 ^ ((i - 1) * Group))
  IN  sum[n]

(* rd_uleb *)
Uleb(bytes) ==
  IF Unreadable(bytes) THEN Failed
  ELSE Read(Shifted(bytes, Used(bytes)), Used(bytes))

(* rd_sleb: the sign of the last group is spread over what is left of the  *)
(* word, if anything is.                                                   *)
Sleb(bytes) ==
  LET n == Used(bytes)
      negative == 2 * bytes[n].low >= 2 ^ Group
      spread == IF n * Group < Bits /\ negative THEN 2 ^ Bits - 2 ^ (n * Group) ELSE 0
  IN  IF Unreadable(bytes) THEN Failed
      ELSE Read(AsInt(Shifted(bytes, n) + spread), n)

----------------------------------------------------------------------------
(* What the format means by some bytes: a number of any size, without or   *)
(* with a sign.                                                            *)
Means(bytes, n) ==
  LET sum[i \in 0 .. n] ==
        IF i = 0 THEN 0 ELSE bytes[n + 1 - i].low + 2 ^ Group * sum[i - 1]
  IN  sum[n]
MeansSigned(bytes, n) ==
  Means(bytes, n) - (IF 2 * bytes[n].low >= 2 ^ Group THEN 2 ^ (n * Group) ELSE 0)

(* The readers take what is meant, in the word's width, of everything that *)
(* ends in time, and consume the bytes that mean it.                       *)
ReadsWhatIsMeant(bytes) ==
  LET n == Used(bytes) IN
  IF Unreadable(bytes) THEN ~Uleb(bytes).ok /\ ~Sleb(bytes).ok
  ELSE /\ Uleb(bytes) = Read(Wrapped(Means(bytes, n)), n)
       /\ Sleb(bytes) = Read(AsInt(Wrapped(MeansSigned(bytes, n))), n)
=============================================================================
