-------------------------------- MODULE Files -------------------------------
(***************************************************************************)
(* The File Manager and the editor's file commands: the selection and the  *)
(* two-press delete of kernel/Boot.java over the edit buffer's name, text  *)
(* and dirty flag of fs/fat32_disk.c.                                      *)
(*                                                                         *)
(* The desktop names a file by its position in the listing and asks again  *)
(* at every keystroke; the driver below is called with the name found      *)
(* there, and acts on the first entry of that name.  Fat32 has the         *)
(* driver's steps; here a call is one step, with each of the outcomes they *)
(* add up to.  Every handler ends with a paint, which may find the listing *)
(* shorter than it is.  Texts are opaque; a file longer than the edit      *)
(* buffer opens as its head.                                               *)
(***************************************************************************)
EXTENDS Integers, FiniteSets

CONSTANTS
  Names,      \* file names (what they pack to)
  NoName,     \* the empty name field; an unused slot
  Texts,      \* what the edit buffer and a file may hold
  Empty,      \* the empty text
  Damaged,    \* bytes nobody meant: of a freed chain, or of a read gone wrong
  Opened(_),  \* the text a file's contents open as: the first FS_TEXT_MAX bytes
  LastSlot,   \* the directory's last slot
  MaxFaults   \* bound: calls that go wrong, but for counting the listing

ASSUME NamesAssumption == NoName \notin Names
ASSUME TextsAssumption ==
  /\ Empty \in Texts /\ Damaged \notin Texts
  /\ Opened(Empty) = Empty /\ Opened(Damaged) = Damaged
  /\ \A t \in Texts : Opened(t) \in Texts /\ Opened(Opened(t)) = Opened(t)
ASSUME BoundsAssumption == LastSlot \in Nat /\ MaxFaults \in Nat

VARIABLES
  slots,       \* the directory: a name per slot, NoName where reusable
  stored,      \* what reading a slot's entry gives
  loose,       \* the entries whose clusters may be free, or another's as well
  text, gName, dirty,     \* g_text, g_name, g_dirty
  fileSel, fileArmed,     \* Boot.java's selection and armed entry
  armedSlot,   \* history: the slot of the entry the delete armed for
  shifted,     \* history: a save created a file ahead of it since
  left,        \* history: the selection has been off the armed row since
  source,      \* history: the file the text was last read from or saved to
  excuse,      \* history: why that file may hold something else
  faults

volume == <<slots, stored, loose>>
buffer == <<text, gName, dirty>>
origin == <<source, excuse>>
arming == <<fileArmed, armedSlot, shifted>>
vars == <<volume, buffer, fileSel, arming, left, origin, faults>>

Slots == 0 .. LastSlot
Contents == Texts \cup {Damaged}
Excuses == {"none", "failedRead", "lostLink", "blindLookup", "damaged", "deleted"}
None == -1

Used(s) == slots[s] # NoName
Exists(n) == \E s \in Slots : slots[s] = n
Before(s) == {t \in Slots : t < s /\ Used(t)}

(* fs_count when every read works, and the slot fat32_list finds at an     *)
(* index.                                                                  *)
Count == Cardinality({s \in Slots : Used(s)})
At(i, s) == Used(s) /\ Cardinality(Before(s)) = i

(* find_entry: two entries have one name after a save that did not see the *)
(* first.                                                                  *)
Hit(s, n) == slots[s] = n /\ \A t \in Slots : slots[t] = n => s <= t

(* A mounted volume with any files, the desktop as initState leaves it. *)
Init ==
  /\ slots \in [Slots -> Names \cup {NoName}]
  /\ \A s, t \in Slots : Used(s) /\ slots[s] = slots[t] => s = t
  /\ stored \in [Slots -> Texts]
  /\ \A s \in Slots : ~Used(s) => stored[s] = Empty
  /\ loose = {}
  /\ text = Empty /\ gName = NoName /\ dirty = FALSE
  /\ fileSel = 0
  /\ fileArmed = None /\ armedSlot = None /\ shifted = FALSE /\ left = FALSE
  /\ source = NoName /\ excuse = "none"
  /\ faults = 0

Faults(k) == faults + k <= MaxFaults /\ faults' = faults + k
Fault == Faults(1)

----------------------------------------------------------------------------
(* Painting.                                                               *)

Clamped(i, count) == IF i >= count THEN count - 1 ELSE i

(* The paint that ends every handler pulls the selection into the list, if *)
(* the window is drawn (0 stands for one that is not) and the list is not  *)
(* empty.  fs_count stops at the first sector it cannot read, so the list  *)
(* may look shorter than it is.                                            *)
Painted(sel) ==
  /\ \E count \in 0 .. Count' :
       fileSel' = IF count > 0 THEN Clamped(sel, count) ELSE sel
  /\ left' = /\ fileArmed' # None
             /\ (left /\ fileArmed' = fileArmed) \/ fileSel' # fileArmed'

(* desktopLoop, every second and whenever the mouse moves. *)
Paint ==
  /\ UNCHANGED <<volume, buffer, arming, origin, faults>>
  /\ Painted(fileSel)

Disarmed == fileArmed' = None /\ armedSlot' = None /\ shifted' = FALSE

----------------------------------------------------------------------------
(* The File Manager.  A handler that counts too few entries does nothing,  *)
(* or less; what it does then another of its cases does as well.           *)

(* Mutant of Touched: moving the selection leaves the delete armed. *)
TouchedStaysArmed == UNCHANGED arming

(* filesTouched *)
Touched == Disarmed

(* stepUp, stepDown and a click on a row. *)
Select(i) ==
  /\ \/ i = fileSel + 1 /\ fileSel < Count - 1
     \/ i = fileSel - 1 /\ fileSel > 0
     \/ i \in 0 .. Count - 1
     \/ i = fileSel
  /\ Touched
  /\ UNCHANGED <<volume, buffer, origin, faults>>
  /\ Painted(i)

(* filesDelete, first press. *)
Arm(s) ==
  /\ fileSel < Count /\ At(fileSel, s)
  /\ fileArmed # fileSel
  /\ fileArmed' = fileSel /\ armedSlot' = s /\ shifted' = FALSE
  /\ UNCHANGED <<volume, buffer, origin, faults>>
  /\ Painted(fileSel)

(* text_remove: the name of the entry is unpacked over the editor's. *)
Unpacked(s) == gName' = slots[s] /\ UNCHANGED <<text, dirty>>

(* A call wrote over, or freed, what these entries had. *)
Hurts(lost, why) ==
  /\ source' = source
  /\ excuse' = IF \E s \in lost : Hit(s, source) THEN why ELSE excuse

Damages(lost) ==
  stored' = [t \in Slots |-> IF t \in lost THEN Damaged ELSE stored[t]]

(* Freeing a loose entry's chain may free or break another one's. *)
Shares(s) == IF s \in loose THEN loose \ {s} ELSE {}

Removal(s) ==
  \E also \in SUBSET Shares(s) :
    /\ slots' = [slots EXCEPT ![s] = NoName]
    /\ stored' = [t \in Slots |-> IF t = s THEN Empty
                                  ELSE IF t \in also THEN Damaged ELSE stored[t]]
    /\ loose' = loose \ {s}
    /\ source' = source
    /\ excuse' = IF Hit(s, source) THEN "deleted"
                 ELSE IF \E t \in also : Hit(t, source) THEN "damaged" ELSE excuse

(* Mutant of Delete: one press is enough. *)
DeleteAtOnce(r, s) ==
  /\ fileSel < Count /\ At(fileSel, r)
  /\ Hit(s, slots[r])
  /\ Removal(s) /\ Unpacked(r) /\ Disarmed
  /\ UNCHANGED faults
  /\ Painted(fileSel)

(* filesDelete, second press: row r is asked for, entry s is the one that  *)
(* fat32_delete_file finds by its name.                                    *)
Delete(r, s) ==
  /\ fileSel < Count /\ At(fileSel, r)
  /\ fileArmed = fileSel
  /\ Hit(s, slots[r])
  /\ Removal(s) /\ Unpacked(r) /\ Disarmed
  /\ UNCHANGED faults
  /\ Painted(fileSel)

(* The chain is freed, and the call fails before the directory write. *)
CutShort(s) ==
  \E also \in SUBSET Shares(s) :
    /\ Damages({s} \cup also) /\ Hurts({s} \cup also, "damaged")
    /\ loose' = loose \cup {s}

(* ... when a sector fails: fat32_list finds nothing, or fat32_delete_file *)
(* gives up with the file whole or its chain freed.                        *)
DeleteFails(r, s) ==
  /\ fileSel < Count /\ At(fileSel, r)
  /\ fileArmed = fileSel
  /\ Hit(s, slots[r])
  /\ Fault
  /\ \/ UNCHANGED <<stored, loose, buffer, origin>>
     \/ Unpacked(r) /\ UNCHANGED <<stored, loose, origin>>
     \/ Unpacked(r) /\ CutShort(s)
  /\ Disarmed
  /\ UNCHANGED slots
  /\ Painted(fileSel)

(* openSelected on a text file: text_open, and the editor comes up. *)
Open(r, s) ==
  /\ fileSel < Count /\ At(fileSel, r)
  /\ Hit(s, slots[r])
  /\ gName' = slots[r] /\ text' = Opened(stored[s]) /\ dirty' = FALSE
  /\ source' = slots[r]
  /\ excuse' = IF stored[s] = Damaged THEN "damaged" ELSE "none"
  /\ Disarmed
  /\ UNCHANGED <<volume, faults>>
  /\ Painted(fileSel)

(* ... when a sector fails: before the name is taken; after it, with the   *)
(* text untouched or half overwritten, length and dirty flag as they were; *)
(* or in the FAT, where fat_entry_get answers 0x0FFFFFF7, which is read    *)
(* like any cluster and, in 28 bits, is a sector of the second FAT copy.   *)
OpenFails(r) ==
  /\ fileSel < Count /\ At(fileSel, r)
  /\ Fault
  /\ \/ UNCHANGED <<buffer, origin>>
     \/ gName' = slots[r] /\ UNCHANGED <<text, dirty, origin>>
     \/ /\ gName' = slots[r] /\ text' = Damaged
        /\ \/ UNCHANGED <<dirty, source>>
           \/ dirty' = FALSE /\ source' = slots[r]
        /\ excuse' = "failedRead"
  /\ Disarmed
  /\ UNCHANGED volume
  /\ Painted(fileSel)

(* openSelected on a program, a directory or a file of no known kind only  *)
(* disarms; so does one past the end of the list.                          *)
OpenElsewhere ==
  /\ Disarmed
  /\ UNCHANGED <<volume, buffer, origin, faults>>
  /\ Painted(fileSel)

----------------------------------------------------------------------------
(* The editor.                                                             *)

(* Mutant of Type: the buffer is changed without being marked. *)
TypeUnmarked(t) ==
  /\ Opened(t) = t /\ text' = t
  /\ UNCHANGED <<volume, gName, dirty, origin, faults, arming>>
  /\ Painted(fileSel)

(* text_insert, text_delete: up to any other text the buffer has room for. *)
Type(t) ==
  /\ Opened(t) = t
  /\ text' = t /\ dirty' = TRUE
  /\ UNCHANGED <<volume, gName, origin, faults, arming>>
  /\ Painted(fileSel)

(* ED_NAME_PUSH and ED_NAME_POP, typed up to some other name. *)
Rename(n) ==
  /\ gName' = n
  /\ UNCHANGED <<volume, text, dirty, origin, faults, arming>>
  /\ Painted(fileSel)

(* edNew *)
New ==
  /\ text' = Empty /\ gName' = NoName /\ dirty' = FALSE
  /\ source' = NoName /\ excuse' = "none"
  /\ UNCHANGED <<volume, faults, arming>>
  /\ Painted(fileSel)

(* fat32_write_file answers 1 for entry s.  The link from one cluster to   *)
(* the next may be lost all the same, so that the file ends there.  What   *)
(* is allocated may belong to a loose entry, and then each holds on to it. *)
Written(s, blind) ==
  \E cut \in BOOLEAN, also \in SUBSET (loose \ {s}) :
    /\ cut => text # Empty
    /\ Faults((IF blind THEN 1 ELSE 0) + (IF cut THEN 1 ELSE 0))
    /\ stored' = [t \in Slots |->
                    IF t \in also \/ (t = s /\ cut) THEN Damaged
                    ELSE IF t = s THEN text ELSE stored[t]]
    /\ loose' = IF loose \subseteq {s} THEN {} ELSE loose \cup {s}
    /\ dirty' = FALSE /\ source' = gName
    /\ excuse' = IF cut THEN "lostLink" ELSE IF blind THEN "blindLookup" ELSE "none"

(* text_save over a file that exists. *)
Save(s) ==
  /\ gName # NoName /\ Hit(s, gName)
  /\ Written(s, FALSE)
  /\ UNCHANGED <<slots, text, gName, arming>>
  /\ Painted(fileSel)

(* ... under a name no entry has, or that find_entry misses because it     *)
(* cannot read a sector: the first reusable slot.                          *)
SaveNew(s) ==
  /\ gName # NoName
  /\ ~Used(s) /\ \A t \in Slots : t < s => Used(t)
  /\ slots' = [slots EXCEPT ![s] = gName]
  /\ Written(s, Exists(gName))
  /\ shifted' = (shifted \/ s < armedSlot)
  /\ UNCHANGED <<text, gName, fileArmed, armedSlot>>
  /\ Painted(fileSel)

(* ... and when the volume refuses it: no room, or a sector that fails.    *)
(* The chain that was to be replaced may be freed; the buffer stays as     *)
(* dirty as it was.                                                        *)
SaveFails ==
  /\ gName # NoName
  /\ Fault
  /\ \/ UNCHANGED <<stored, loose, origin>>
     \/ \E s \in Slots : Hit(s, gName) /\ CutShort(s)
  /\ UNCHANGED <<slots, buffer, arming>>
  /\ Painted(fileSel)

Next ==
  \/ Paint
  \/ \E i \in 0 .. LastSlot : Select(i)
  \/ \E s \in Slots : Arm(s) \/ OpenFails(s)
  \/ \E r, s \in Slots : Delete(r, s) \/ DeleteFails(r, s) \/ Open(r, s)
  \/ OpenElsewhere
  \/ \E t \in Texts : Type(t)
  \/ \E n \in Names \cup {NoName} : Rename(n)
  \/ New \/ SaveFails
  \/ \E s \in Slots : Save(s) \/ SaveNew(s)

Spec == Init /\ [][Next]_vars

----------------------------------------------------------------------------
(* The selection is a row a listing may have.  A pending delete survives   *)
(* the paint that pulls the selection off its row because the listing      *)
(* looked shorter; but once it was off, nothing brings it back while the   *)
(* delete is pending, so that a second press arms again.                   *)
ArmedNeverRegained ==
  /\ fileSel \in Slots
  /\ fileArmed # None =>
       /\ fileArmed < Count /\ Used(armedSlot)
       /\ fileSel = fileArmed => ~left

Removed(s) == Used(s) /\ slots'[s] = NoName

(* An entry is deleted only by a second press, with the selection on the   *)
(* armed row ever since the first.  It has the name the first one was      *)
(* about, unless a save created a file ahead of it meanwhile; if two       *)
(* entries have that name, the first goes.                                 *)
ConfirmedUnlessShifted ==
  [][\A s \in Slots : Removed(s) =>
       /\ fileArmed # None /\ fileSel = fileArmed /\ ~left
       /\ slots[s] = slots[armedSlot] \/ shifted]_vars

(* An editor that does not say "edited" shows what its file holds, or the  *)
(* head of it: saving loses nothing but the tail of a file too long to     *)
(* open whole.  The exceptions are events: a read that failed or went      *)
(* wrong, a save that answered 1 with a link lost or without seeing the    *)
(* entry of that name, and a call that freed or deleted the file, or one   *)
(* it shares clusters with, after the text was read or saved.              *)
CleanIsStored ==
  ~dirty /\ source # NoName /\ excuse = "none" =>
    \E s \in Slots : Hit(s, source) /\ text = Opened(stored[s])
=============================================================================
