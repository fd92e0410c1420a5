------------------------------- MODULE Desktop ------------------------------
(***************************************************************************)
(* The windows of kernel/Boot.java: which are open, which minimised, and   *)
(* the z-order whose last entry takes the keyboard.  Geometry is left out: *)
(* a click is on any window the code would let it be on.                   *)
(***************************************************************************)
EXTENDS Integers, FiniteSets

CONSTANTS
  WinCount,   \* WIN_COUNT
  Windows,    \* W_GALLERY .. W_EDIT
  Files       \* W_FILES, the one window open at boot

ASSUME WindowsAssumption ==
  /\ WinCount \in Nat \ {0}
  /\ IsFiniteSet(Windows) /\ Cardinality(Windows) = WinCount
  /\ Files \in Windows

VARIABLES
  zorder,    \* Boot.java's array, from 1; the last entry is in front
  wOpen,     \* the windows that are open
  wMin,      \* the windows that are minimised, open or not
  cycled     \* history: Alt+Tab has turned the z-order

deskVars == <<zorder, wOpen, wMin, cycled>>

Places == 1 .. WinCount
TopWin == zorder[WinCount]
Visible == wOpen \ wMin
At(i, p) == zorder[p] = i

(* initState: the File Manager is open and in front. *)
DeskInit ==
  /\ zorder \in [Places -> Windows]
  /\ \A i \in Windows : \E p \in Places : At(i, p)
  /\ \A p, q \in Places : zorder[p] = zorder[q] => p = q
  /\ TopWin = Files
  /\ wOpen = {Files} /\ wMin = {}
  /\ cycled = FALSE

----------------------------------------------------------------------------
(* Mutant of Raised: the shift stops one short of the front. *)
RaisedShort(i, p) ==
  [q \in Places |-> IF q < p \/ q = WinCount - 1 THEN zorder[q]
                    ELSE IF q < WinCount THEN zorder[q + 1] ELSE i]

(* raiseWin: everything above i moves down one. *)
Raised(i, p) ==
  [q \in Places |-> IF q < p THEN zorder[q]
                    ELSE IF q < WinCount THEN zorder[q + 1] ELSE i]

(* Mutant of Sunk: a closed window keeps its place. *)
SunkNot(i, p) == zorder

(* closeWin sinks i: everything below it moves up one. *)
Sunk(i, p) ==
  [q \in Places |-> IF q = 1 THEN i
                    ELSE IF q <= p THEN zorder[q - 1] ELSE zorder[q]]

(* k turns of cycleWindow's outer loop: the front window goes to the back. *)
Turned(k) ==
  [q \in Places |-> IF q <= k THEN zorder[WinCount - k + q] ELSE zorder[q - k]]

Raise(i) == \E p \in Places : At(i, p) /\ zorder' = Raised(i, p)
Close(i) ==
  /\ \E p \in Places : At(i, p) /\ zorder' = Sunk(i, p)
  /\ wOpen' = wOpen \ {i}
  /\ UNCHANGED <<wMin, cycled>>

----------------------------------------------------------------------------
(* openIcon, openInEditor, runProgram, and the menu's New and About. *)
Open(i) ==
  /\ wOpen' = wOpen \cup {i} /\ wMin' = wMin \ {i}
  /\ Raise(i)
  /\ UNCHANGED cycled

(* Alt+F4 and the menu's Close: the front window, whatever it is. *)
CloseFront == Close(TopWin)

(* The close button, after the press has raised the window; Escape, for an *)
(* open About window.                                                      *)
CloseOne(i) == i \in wOpen /\ Close(i)

(* Mutant of Lands: a minimised window will do. *)
LandsMinimised(k) == Turned(k)[WinCount] \in wOpen

(* Alt+Tab: the z-order turns until an open, not minimised window is in    *)
(* front, all the way round if there is no other.                          *)
Lands(k) == Turned(k)[WinCount] \in Visible

Cycle ==
  /\ \E k \in Places :
       /\ \A m \in Places : m < k => ~Lands(m)
       /\ Lands(k) \/ k = WinCount
       /\ zorder' = Turned(k)
  /\ cycled' = TRUE
  /\ UNCHANGED <<wOpen, wMin>>

(* taskbarClick on the button of an open window. *)
Taskbar(i) ==
  /\ i \in wOpen
  /\ CASE i \in wMin -> wMin' = wMin \ {i} /\ Raise(i)
       [] i \notin wMin /\ i = TopWin -> wMin' = wMin \cup {i} /\ UNCHANGED zorder
       [] OTHER -> UNCHANGED wMin /\ Raise(i)
  /\ UNCHANGED <<wOpen, cycled>>

(* onPress in a window, and on its minimise button. *)
OnPress(i) ==
  /\ i \in Visible
  /\ Raise(i)
  /\ wMin' \in {wMin, wMin \cup {i}}
  /\ UNCHANGED <<wOpen, cycled>>

OpenAll ==
  /\ wOpen' = Windows /\ wMin' = {}
  /\ UNCHANGED <<zorder, cycled>>

RestoreAll ==
  /\ wMin' = {}
  /\ UNCHANGED <<zorder, wOpen, cycled>>

DeskNext ==
  \/ \E i \in Windows : Open(i) \/ CloseOne(i) \/ Taskbar(i) \/ OnPress(i)
  \/ CloseFront \/ Cycle \/ OpenAll \/ RestoreAll

DeskSpec == DeskInit /\ [][DeskNext]_deskVars

----------------------------------------------------------------------------
(* Every window is in the z-order exactly once, so that no shift loses one *)
(* or shows one twice.                                                     *)
DeskTypeOK ==
  /\ zorder \in [Places -> Windows]
  /\ \A i \in Windows : \E p \in Places : At(i, p)
  /\ \A p, q \in Places : zorder[p] = zorder[q] => p = q
  /\ wOpen \subseteq Windows /\ wMin \subseteq Windows
  /\ cycled \in BOOLEAN

(* Closed windows lie below open ones, as long as nothing but opening,     *)
(* closing, raising and minimising has moved them: a key then never goes   *)
(* to a window that is shut while another is open.                         *)
ClosedBelowOpen ==
  ~cycled => \A p, q \in Places : p < q /\ zorder[p] \in wOpen => zorder[q] \in wOpen

(* Alt+Tab takes the visible windows in turn: the one that was in front    *)
(* goes behind all of them and the others keep their order.                *)
Above(i, j) == \E p, q \in Places : At(i, p) /\ At(j, q) /\ p > q
CycleTakesTurns ==
  [][Cycle =>
       /\ Visible # {} => zorder'[WinCount] \in Visible
       /\ \A i, j \in Visible :
            i # j => (Above(i, j)' <=> CASE i = TopWin -> FALSE
                                         [] j = TopWin -> TRUE
                                         [] OTHER -> Above(i, j))]_deskVars
=============================================================================
