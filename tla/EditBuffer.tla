----------------------------- MODULE EditBuffer -----------------------------
(***************************************************************************)
(* The editor key by key: the flat buffer and the file name of             *)
(* fs/fat32_disk.c, reached through fs_edit, and the caret, the first      *)
(* visible line and the name field of kernel/Boot.java, which finds lines  *)
(* by asking for offsets each time.  Files models the same buffer whole,   *)
(* beside the volume; here the volume is what a read may return.           *)
(***************************************************************************)
EXTENDS Integers, FiniteSets, Sequences, SequencesExt

CONSTANTS
  TextKeys, NameKeys,  \* characters of the text but for the line end, and of the name field
  Newline, Dot, Blank,
  Upper(_),            \* edUpper, and upper in fat32.c
  TextMax,             \* FS_TEXT_MAX
  NameMax,             \* FS_NAME_MAX
  BaseLen, ExtLen,     \* the 8 and 3 of an 8.3 name
  Entries,             \* external: [packed, body] of the files on the volume
  Heights              \* external: how many rows of text the window may show

ASSUME EditAssumption ==
  /\ TextMax \in Nat /\ NameMax \in Nat /\ BaseLen \in Nat /\ ExtLen \in Nat
  /\ NameMax >= BaseLen + 1 + ExtLen
  /\ Heights \subseteq Nat \ {0}
  /\ Dot # Blank /\ Newline \notin TextKeys

(* What a volume may hold: any 8.3 name, any text. *)
ASSUME EntriesAssumption ==
  \A e \in Entries :
    /\ e.packed = [i \in 1 .. BaseLen + ExtLen |-> e.packed[i]]
    /\ e.body \in Seq(TextKeys \cup {Newline})

(* The characters of names.  A letter in upper case stays as it is, and no *)
(* other becomes the dot.                                                  *)
Letters ==
  NameKeys \cup {Upper(c) : c \in NameKeys} \cup {Dot, Blank}
    \cup UNION {{e.packed[i] : i \in 1 .. BaseLen + ExtLen} : e \in Entries}
ASSUME UpperAssumption ==
  /\ Upper(Blank) = Blank
  /\ \A c \in Letters : Upper(Upper(c)) = Upper(c) /\ (Upper(c) = Dot => c = Dot)

VARIABLES
  text, dirty,    \* g_text up to g_text_len, g_dirty
  name,           \* g_name up to g_name_len
  caret,          \* edCursor
  top,            \* edTop
  nameFocus,      \* edNameFocus
  drawn,          \* the window is open and not minimised
  rows            \* drawEditor's rows, at least 1

editVars == <<text, dirty, name, caret, top, nameFocus, drawn, rows>>

EditInit ==
  /\ text = << >> /\ dirty = FALSE /\ name = << >>
  /\ caret = 0 /\ top = 0 /\ nameFocus = FALSE
  /\ drawn = FALSE /\ rows \in Heights

----------------------------------------------------------------------------
(* Names: 8.3, padded with blanks.                                         *)

Clip(s, n) == SubSeq(s, 1, IF Len(s) < n THEN Len(s) ELSE n)
Padded(s, n) == s \o [i \in 1 .. n - Len(s) |-> Blank]
Trimmed(s) == Clip(s, LET used == {i \in DOMAIN s : s[i] # Blank}
                      IN IF used = {} THEN 0 ELSE CHOOSE i \in used : \A j \in used : j <= i)
Dots(n) == {i \in DOMAIN n : n[i] = Dot}
Uppered(s) == [i \in DOMAIN s |-> Upper(s[i])]

(* fat32_pack_name: the base ends at the first dot, a longer one is cut. *)
Pack(n) ==
  LET dot == IF Dots(n) = {} THEN Len(n) + 1
             ELSE CHOOSE i \in Dots(n) : \A j \in Dots(n) : i <= j
  IN  Padded(Uppered(Clip(n, IF dot - 1 < BaseLen THEN dot - 1 ELSE BaseLen)), BaseLen)
        \o Padded(Uppered(Clip(SubSeq(n, dot + 1, Len(n)), ExtLen)), ExtLen)

(* Mutant of Unpack: the dot is left out. *)
UnpackDotless(p) ==
  Trimmed(Clip(p, BaseLen)) \o Trimmed(SubSeq(p, BaseLen + 1, BaseLen + ExtLen))

(* unpack_into *)
Unpack(p) ==
  LET ext == Trimmed(SubSeq(p, BaseLen + 1, BaseLen + ExtLen))
  IN  Trimmed(Clip(p, BaseLen)) \o (IF ext = << >> THEN << >> ELSE <<Dot>> \o ext)

----------------------------------------------------------------------------
(* Lines, from 0.                                                          *)

Newlines(t, off) == {i \in 1 .. off : t[i] = Newline}

(* line_of, which takes an offset past the end for the end, line_start and *)
(* line_end, of a text.                                                    *)
LineOf(t, off) == Cardinality(Newlines(t, IF off > Len(t) THEN Len(t) ELSE off))
LineStart(t, line) ==
  IF line <= 0 THEN 0
  ELSE IF \E i \in Newlines(t, Len(t)) : LineOf(t, i) = line
       THEN CHOOSE i \in Newlines(t, Len(t)) : LineOf(t, i) = line
       ELSE -1
LineEnd(t, off) ==
  LET ends == {i \in off .. Len(t) - 1 : t[i + 1] = Newline}
  IN  IF ends = {} THEN Len(t) ELSE CHOOSE i \in ends : \A j \in ends : i <= j

(* Mutant of Nearest: the end of the line is not looked for. *)
NearestAnywhere(start, c) == IF start + c > Len(text) THEN Len(text) ELSE start + c

(* edMoveLine and editorClick: a column of the line that begins at start,  *)
(* or its end.                                                             *)
Nearest(start, c) ==
  IF start + c > LineEnd(text, start) THEN LineEnd(text, start) ELSE start + c

(* Mutant of Scrolled: the last visible line is counted wrong. *)
ScrolledLate(line, first, n) ==
  IF line < first THEN line
  ELSE IF line > first + n THEN line - n + 1 ELSE first

(* edScroll *)
Scrolled(line, first, n) ==
  IF line < first THEN line
  ELSE IF line >= first + n THEN line - n + 1 ELSE first

(* Every key and click ends in a paint, and so does opening the window. *)
Painted(first) ==
  top' = IF drawn' THEN Scrolled(LineOf(text', caret'), first, rows') ELSE first

----------------------------------------------------------------------------
(* editorKey, in the text.                                                 *)

InText == drawn /\ ~nameFocus
Stays == UNCHANGED <<nameFocus, drawn, rows>>

(* text_insert's and text_delete's shifting. *)
Inserted(t, off, c) == SubSeq(t, 1, off) \o <<c>> \o SubSeq(t, off + 1, Len(t))
Deleted(t, off) == SubSeq(t, 1, off) \o SubSeq(t, off + 2, Len(t))

(* edInsert: a full buffer only sounds. *)
Insert(c) ==
  /\ InText
  /\ IF Len(text) < TextMax
     THEN text' = Inserted(text, caret, c) /\ caret' = caret + 1 /\ dirty' = TRUE
     ELSE UNCHANGED <<text, caret, dirty>>
  /\ UNCHANGED name /\ Stays
  /\ Painted(top)

Backspace ==
  /\ InText /\ caret > 0
  /\ caret' = caret - 1
  /\ text' = Deleted(text, caret - 1) /\ dirty' = TRUE
  /\ UNCHANGED name /\ Stays
  /\ Painted(top)

(* Mutant of Step: the end of the text is not looked at. *)
StepPast(d) ==
  /\ InText /\ caret + d >= 0
  /\ caret' = caret + d
  /\ UNCHANGED <<text, dirty, name>> /\ Stays
  /\ Painted(top)

Step(d) ==
  /\ InText /\ caret + d \in 0 .. Len(text)
  /\ caret' = caret + d
  /\ UNCHANGED <<text, dirty, name>> /\ Stays
  /\ Painted(top)

(* edMoveLine *)
MoveLine(d) ==
  LET line == LineOf(text, caret)
      start == LineStart(text, line + d)
  IN  /\ InText /\ line + d >= 0 /\ start >= 0
      /\ caret' = Nearest(start, caret - LineStart(text, line))
      /\ UNCHANGED <<text, dirty, name>> /\ Stays
      /\ Painted(top)

(* editorClick: in the text, at a visible row ... *)
Click(r, c) ==
  LET start == LineStart(text, top + r) IN
  /\ drawn /\ r < rows
  /\ caret' = IF start < 0 THEN Len(text) ELSE Nearest(start, c)
  /\ nameFocus' = FALSE
  /\ UNCHANGED <<text, dirty, name, drawn, rows>>
  /\ Painted(top)

(* ... or in the name field; Tab goes to and fro. *)
Focus(on) ==
  /\ drawn
  /\ nameFocus' = on
  /\ UNCHANGED <<text, dirty, name, caret, drawn, rows>>
  /\ Painted(top)

(* edNameKey *)
NameKey(c) ==
  /\ drawn /\ nameFocus
  /\ name' = IF Len(name) < NameMax THEN Append(name, Upper(c)) ELSE name
  /\ UNCHANGED <<text, dirty, caret>> /\ Stays
  /\ Painted(top)

NameBackspace ==
  /\ drawn /\ nameFocus /\ name # << >>
  /\ name' = Front(name)
  /\ UNCHANGED <<text, dirty, caret>> /\ Stays
  /\ Painted(top)

(* edNew, by Ctrl+N or from the File menu, which opens the window. *)
New ==
  /\ text' = << >> /\ name' = << >> /\ dirty' = FALSE
  /\ caret' = 0 /\ nameFocus' = TRUE
  /\ drawn' = TRUE
  /\ UNCHANGED rows
  /\ Painted(0)

(* edSave, when the volume takes the file; otherwise nothing changes. *)
Save ==
  /\ drawn /\ name # << >>
  /\ dirty' = FALSE
  /\ UNCHANGED <<text, name, caret>> /\ Stays
  /\ Painted(top)

(* openInEditor and text_open *)
OpenFile(e) ==
  /\ name' = Unpack(e.packed)
  /\ text' = Clip(e.body, TextMax) /\ dirty' = FALSE
  /\ caret' = 0 /\ nameFocus' = FALSE /\ drawn' = TRUE
  /\ UNCHANGED rows
  /\ Painted(0)

(* ... when a sector fails once k bytes are read over the old ones: the    *)
(* length, the caret and the dirty flag stay.                              *)
OpenFails(e, k) ==
  /\ name' = Unpack(e.packed)
  /\ text' = [i \in DOMAIN text |-> IF i <= k THEN e.body[i] ELSE text[i]]
  /\ UNCHANGED <<dirty, caret>> /\ Stays
  /\ Painted(top)

(* text_remove, for the File Manager: the name is taken for the delete. *)
RemoveFile(e) ==
  /\ name' = Unpack(e.packed)
  /\ UNCHANGED <<text, dirty, caret>> /\ Stays
  /\ Painted(top)

(* The window is opened, restored, closed, minimised or resized. *)
Window(shown, n) ==
  /\ drawn' = shown /\ rows' = n
  /\ UNCHANGED <<text, dirty, name, caret, nameFocus>>
  /\ Painted(top)

EditNext ==
  \/ \E c \in TextKeys \cup {Newline} : Insert(c)
  \/ Backspace
  \/ \E d \in {-1, 1} : Step(d) \/ MoveLine(d)
  \/ \E r \in 0 .. TextMax, c \in 0 .. TextMax : Click(r, c)
  \/ \E on \in BOOLEAN : Focus(on)
  \/ \E c \in NameKeys : NameKey(c)
  \/ NameBackspace \/ New \/ Save
  \/ \E e \in Entries : OpenFile(e) \/ RemoveFile(e)
  \/ \E e \in Entries : \E k \in 0 .. Len(e.body) : OpenFails(e, k)
  \/ \E shown \in BOOLEAN, n \in Heights : Window(shown, n)

EditSpec == EditInit /\ [][EditNext]_editVars

----------------------------------------------------------------------------
(* The caret is an offset the kernel's calls accept, after any editing,    *)
(* clicking and loading, and a load that failed half-way.                  *)
CaretInside == caret \in 0 .. Len(text)

EditTypeOK ==
  /\ text \in Seq(TextKeys \cup {Newline}) /\ Len(text) <= TextMax
  /\ CaretInside
  /\ dirty \in BOOLEAN
  /\ Len(name) <= NameMax
  /\ top \in 0 .. TextMax /\ rows \in Heights
  /\ {nameFocus, drawn} \subseteq BOOLEAN

(* A paint shows the line the caret is on, and the first line it shows is  *)
(* a line of the text, however the window was resized and wherever the     *)
(* caret went while it was hidden (edScroll, drawEditor).                  *)
CaretShown ==
  drawn => /\ LineOf(text, caret) \in top .. top + rows - 1
           /\ LineStart(text, top) >= 0

(* A file is found again under the name it was listed with: packing,       *)
(* unpacking and packing a typed name gives the entry the first packing    *)
(* gave, and the unpacked name fits its array.  Only a name of blanks      *)
(* before its first dot and blanks after it unpacks to no name at all.     *)
NamesAgree ==
  LET p == Pack(name)
      back == Unpack(p)
  IN  /\ Len(p) = BaseLen + ExtLen /\ Pack(back) = p
      /\ Len(back) <= NameMax
      /\ (back = << >> <=> \A i \in DOMAIN p : p[i] = Blank)

(* The lines of the flat text, cut at its newlines. *)
Cut(t) ==
  LET cut[n \in 0 .. Len(t)] ==
        IF n = 0 THEN << << >> >>
        ELSE LET ls == cut[n - 1] IN
             IF t[n] = Newline THEN Append(ls, << >>)
             ELSE [ls EXCEPT ![Len(ls)] = Append(@, t[n])]
  IN  cut[Len(t)]
UpToCaret == Cut(SubSeq(text, 1, caret))

Lines == INSTANCE TextLines WITH
  Chars <- TextKeys, Capacity <- TextMax,
  lines <- Cut(text), row <- Len(UpToCaret), col <- Len(Last(UpToCaret)),
  marked <- dirty

BufferFull == Lines!Size = TextMax /\ UNCHANGED <<text, caret>>
KeysEditLines ==
  /\ \A c \in TextKeys : Insert(c) => Lines!Type(c) \/ BufferFull
  /\ Insert(Newline) => Lines!Break \/ BufferFull
  /\ Backspace => Lines!Erase
  /\ Step(-1) => Lines!Left
  /\ Step(1) => Lines!Right
  /\ MoveLine(-1) => Lines!Up
  /\ MoveLine(1) => Lines!Down

(* Shifting bytes in one buffer and asking for offsets is editing lines:   *)
(* every step is a step of TextLines, and every key the step that key      *)
(* means there -- up and down keep the column where the line reaches it,   *)
(* Enter splits, Backspace at the left margin joins.                       *)
ImplementsLines == Lines!LinesSpec /\ [][KeysEditLines]_editVars
=============================================================================
