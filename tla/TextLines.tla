------------------------------ MODULE TextLines -----------------------------
(***************************************************************************)
(* What the user of the editor sees: lines of text, a caret at a row and a *)
(* column, and a mark that the text was changed.  The text with its line   *)
(* ends has a capacity; a key that would exceed it does nothing.           *)
(***************************************************************************)
EXTENDS Naturals, Sequences, SequencesExt

CONSTANTS Chars, Capacity

VARIABLES lines, row, col, marked

linesVars == <<lines, row, col, marked>>

(* The characters of the first n lines, each with its line end. *)
Total(ls, n) ==
  LET sum[i \in 0 .. n] == IF i = 0 THEN 0 ELSE sum[i - 1] + Len(ls[i]) + 1 IN sum[n]

Size == Total(lines, Len(lines)) - 1
Line == lines[row]
Above == SubSeq(lines, 1, row - 1)
Below == SubSeq(lines, row + 1, Len(lines))

(* How many characters precede the caret. *)
Before == Total(lines, row - 1) + col

Goes(r, c) == row' = r /\ col' = c /\ UNCHANGED <<lines, marked>>

LinesInit == lines = << << >> >> /\ row = 1 /\ col = 0 /\ marked = FALSE

Type(c) ==
  /\ Size < Capacity
  /\ lines' = [lines EXCEPT ![row] = InsertAt(@, col + 1, c)]
  /\ col' = col + 1 /\ marked' = TRUE /\ UNCHANGED row

Break ==
  /\ Size < Capacity
  /\ lines' = Above \o <<SubSeq(Line, 1, col), SubSeq(Line, col + 1, Len(Line))>> \o Below
  /\ row' = row + 1 /\ col' = 0 /\ marked' = TRUE

Erase ==
  /\ marked' = TRUE
  /\ \/ /\ col > 0
        /\ lines' = [lines EXCEPT ![row] = RemoveAt(@, col)]
        /\ col' = col - 1 /\ UNCHANGED row
     \/ /\ col = 0 /\ row > 1
        /\ lines' = SubSeq(lines, 1, row - 2) \o <<lines[row - 1] \o Line>> \o Below
        /\ row' = row - 1 /\ col' = Len(lines[row - 1])

Left ==
  \/ col > 0 /\ Goes(row, col - 1)
  \/ col = 0 /\ row > 1 /\ Goes(row - 1, Len(lines[row - 1]))

Right ==
  \/ col < Len(Line) /\ Goes(row, col + 1)
  \/ col = Len(Line) /\ row < Len(lines) /\ Goes(row + 1, 0)

(* To a row, as near to a column as its line reaches. *)
Reach(r, c) == Goes(r, IF c > Len(lines[r]) THEN Len(lines[r]) ELSE c)

Up == row > 1 /\ Reach(row - 1, col)
Down == row < Len(lines) /\ Reach(row + 1, col)

(* A click on a row, or below the last one. *)
Point == \/ \E r \in DOMAIN lines, c \in 0 .. Capacity : Reach(r, c)
         \/ Goes(Len(lines), Len(lines[Len(lines)]))

Empty == lines' = << << >> >> /\ row' = 1 /\ col' = 0 /\ marked' = FALSE

Load == Size' <= Capacity /\ row' = 1 /\ col' = 0 /\ marked' = FALSE

Store == marked' = FALSE /\ UNCHANGED <<lines, row, col>>

(* A load that fails may leave other characters, as many as there were. *)
Spoil == Size' = Size /\ Before' = Before /\ UNCHANGED marked

LinesNext ==
  \/ \E c \in Chars : Type(c)
  \/ Break \/ Erase \/ Left \/ Right \/ Up \/ Down \/ Point
  \/ Empty \/ Load \/ Store \/ Spoil

LinesSpec == LinesInit /\ [][LinesNext]_linesVars
=============================================================================
