---------------------------- MODULE FilesProofs -----------------------------
(***************************************************************************)
(* The File Manager's two-press delete and the editor's mark, for any      *)
(* names and texts and a directory of any size.                            *)
(***************************************************************************)
EXTENDS Files, FiniteSetTheorems, TLAPS

MaybeNames == Names \cup {NoName}

(* The directory: a blind save may give two entries one name.              *)
Directory == slots \in [Slots -> MaybeNames] /\ stored \in [Slots -> Contents]

(* The buffer: no text in it is longer than itself, and an unedited one    *)
(* is what the file it came from opens as, unless something is to blame.   *)
Buffer ==
  /\ text \in Contents /\ Opened(text) = text
  /\ gName \in MaybeNames /\ dirty \in BOOLEAN
  /\ source \in MaybeNames /\ excuse \in Excuses
  /\ CleanIsStored

(* The pending delete: the row it is about is in the listing, and is the   *)
(* armed entry's while no save has moved the listing; the selection is on  *)
(* it, or above.                                                           *)
Pending ==
  /\ fileSel \in Slots /\ fileArmed \in Slots \cup {None}
  /\ armedSlot \in Slots \cup {None}
  /\ shifted \in BOOLEAN /\ left \in BOOLEAN
  /\ fileArmed # None =>
       /\ fileArmed < Count /\ armedSlot \in Slots /\ Used(armedSlot)
       /\ ~shifted => At(fileArmed, armedSlot)
       /\ fileSel <= fileArmed
       /\ fileSel = fileArmed => ~left

IInv == Directory /\ Buffer /\ Pending

----------------------------------------------------------------------------
(* Listings: the slots before one, and the one at an index.                *)

LEMMA SlotsFinite == IsFiniteSet(Slots) /\ Slots \subseteq Nat
  BY FS_Interval, BoundsAssumption DEF Slots

LEMMA BeforeCount ==
  ASSUME NEW s \in Slots
  PROVE  IsFiniteSet(Before(s)) /\ Cardinality(Before(s)) \in Nat
<1>1. Before(s) \in SUBSET Slots
  BY DEF Before
<1> QED
  BY <1>1, SlotsFinite, FS_Subset, FS_CardinalityType

(* An index names one slot. *)
LEMMA BeforeGrows ==
  ASSUME NEW s \in Slots, NEW t \in Slots, s < t, Used(s)
  PROVE  Cardinality(Before(s)) < Cardinality(Before(t))
<1> DEFINE B == Before(s)
           C == Before(t)
<1>1. B \cup {s} \in SUBSET C /\ s \notin B
  <2>1. \A u \in Slots : u \in Nat
    BY SlotsFinite
  <2>2. \A u \in Slots : u < s => u < t
    BY <2>1
  <2>3. ~(s < s)
    BY <2>1
  <2>4. B \subseteq C /\ s \in C /\ s \notin B
    BY <2>2, <2>3, Zenon DEF Before
  <2> QED
    BY <2>4
<1>2. /\ IsFiniteSet(B) /\ Cardinality(B) \in Nat
      /\ IsFiniteSet(C) /\ Cardinality(C) \in Nat
  BY BeforeCount
<1> HIDE DEF B, C
<1>3. Cardinality(B \cup {s}) = Cardinality(B) + 1
  BY <1>1, <1>2, FS_AddElement
<1>4. Cardinality(B \cup {s}) <= Cardinality(C)
  BY <1>1, <1>2, FS_Subset
<1>5. Cardinality(B) < Cardinality(C)
  BY <1>2, <1>3, <1>4
<1> QED
  BY <1>5 DEF B, C

LEMMA AtUnique ==
  ASSUME NEW i, NEW s \in Slots, NEW t \in Slots, At(i, s), At(i, t)
  PROVE  s = t
<1>1. s \in Nat /\ t \in Nat
  BY SlotsFinite
<1>2. Cardinality(Before(s)) = Cardinality(Before(t)) /\ Used(s) /\ Used(t)
  BY DEF At
<1>3. ~(s < t) /\ ~(t < s)
  BY <1>2, BeforeGrows, BeforeCount
<1> QED
  BY <1>1, <1>3

LEMMA CountOf ==
  ASSUME NEW d
  PROVE  /\ Cardinality({s \in Slots : d[s] # NoName}) \in Nat
         /\ Cardinality({s \in Slots : d[s] # NoName}) <= LastSlot + 1
<1> DEFINE U == {s \in Slots : d[s] # NoName}
<1>1. U \in SUBSET Slots
  OBVIOUS
<1>2. IsFiniteSet(Slots) /\ Cardinality(Slots) = LastSlot + 1
  BY FS_Interval, BoundsAssumption DEF Slots
<1> HIDE DEF U
<1>3. Cardinality(U) \in Nat /\ Cardinality(U) <= LastSlot + 1
  BY <1>1, <1>2, FS_Subset, FS_CardinalityType
<1> QED
  BY <1>3 DEF U

LEMMA CountNat ==
  /\ Count \in Nat /\ Count <= LastSlot + 1
  /\ Count' \in Nat /\ Count' <= LastSlot + 1
  BY CountOf DEF Count, Used

(* A file is created ahead of some of the listing; the rows before it are  *)
(* where they were.                                                        *)
LEMMA BeforeCreated ==
  ASSUME Directory, NEW n \in Names, NEW s \in Slots, ~Used(s),
         slots' = [slots EXCEPT ![s] = n], NEW t \in Slots, t < s
  PROVE  Before(t)' = Before(t) /\ slots'[t] = slots[t]
<1>1. \A u \in Slots : u < t \/ u = t => u # s
  BY SlotsFinite
<1>2. \A u \in Slots : u # s => slots'[u] = slots[u]
  BY DEF Directory
<1> QED
  BY <1>1, <1>2 DEF Before, Used

LEMMA CountCreated ==
  ASSUME Directory, NEW n \in Names, NEW s \in Slots, ~Used(s),
         slots' = [slots EXCEPT ![s] = n]
  PROVE  Count' >= Count /\ Count' \in Nat
<1> DEFINE U == {u \in Slots : Used(u)}
           V == {u \in Slots : slots'[u] # NoName}
<1>1. \A u \in Slots : u # s => slots'[u] = slots[u]
  BY DEF Directory
<1>2. U \in SUBSET V /\ V \in SUBSET Slots
  BY <1>1 DEF Used
<1>3. IsFiniteSet(Slots)
  BY SlotsFinite
<1> HIDE DEF U, V
<1>4. IsFiniteSet(V) /\ Cardinality(V) \in Nat /\ Cardinality(U) \in Nat
  BY <1>2, <1>3, FS_Subset, FS_CardinalityType
<1>5. Cardinality(V) >= Cardinality(U)
  BY <1>2, <1>4, FS_Subset
<1> QED
  BY <1>4, <1>5 DEF U, V, Count, Used

----------------------------------------------------------------------------
(* Entries of a directory.                                                 *)
LEMMA SlotIsInt == ASSUME NEW s \in Slots PROVE s \in Int /\ s # None /\ s >= 0
  BY BoundsAssumption DEF Slots, None

LEMMA NameAt ==
  ASSUME Directory, NEW i, NEW s \in Slots, At(i, s)
  PROVE  slots[s] \in Names
  BY DEF Directory, At, Used, MaybeNames

----------------------------------------------------------------------------
LEMMA InitIInv == Init => IInv
<1> SUFFICES ASSUME Init PROVE IInv
  OBVIOUS
<1>1. Directory
  BY DEF Init, Directory, MaybeNames, Contents
<1>2. Buffer
  BY TextsAssumption, NamesAssumption
     DEF Init, Buffer, CleanIsStored, MaybeNames, Contents, Excuses
<1>3. Pending
  <2>1. 0 \in Slots
    BY BoundsAssumption DEF Slots
  <2> QED
    BY <2>1, Zenon DEF Init, Pending
<1> QED
  BY <1>1, <1>2, <1>3 DEF IInv

(* A paint never moves the selection down the listing, whatever it counts. *)
LEMMA PaintedLowers ==
  ASSUME NEW sel \in Slots, Painted(sel)
  PROVE  fileSel' \in Slots /\ fileSel' <= sel /\ left' \in BOOLEAN
<1>1. PICK count \in 0 .. Count' :
        fileSel' = IF count > 0 THEN Clamped(sel, count) ELSE sel
  BY DEF Painted
<1>2. sel \in Int /\ sel >= 0 /\ sel <= LastSlot /\ count \in Int /\ LastSlot \in Int
  BY <1>1, CountNat, BoundsAssumption DEF Slots
<1>3. fileSel' \in Int /\ fileSel' >= 0 /\ fileSel' <= sel
  BY <1>1, <1>2 DEF Clamped
<1>4. left' \in BOOLEAN
  BY Zenon DEF Painted
<1> QED
  BY <1>2, <1>3, <1>4 DEF Slots

(* What the handlers that leave the delete pending, or disarm it, need.    *)
LEMMA DisarmedPending ==
  ASSUME Disarmed, NEW sel \in Slots, Painted(sel)
  PROVE  Pending'
<1>1. fileSel' \in Slots /\ left' \in BOOLEAN
  BY PaintedLowers
<1> QED
  BY <1>1 DEF Disarmed, Pending

LEMMA KeptPending ==
  ASSUME Pending, Painted(fileSel), UNCHANGED <<slots, arming>>
  PROVE  Pending'
<1>1. fileSel' \in Slots /\ fileSel' <= fileSel /\ left' \in BOOLEAN
  BY PaintedLowers DEF Pending
<1>2. UNCHANGED <<slots, fileArmed, armedSlot, shifted>>
  BY DEF arming
<1>3. Count' = Count /\ Used(armedSlot)' = Used(armedSlot)
      /\ At(fileArmed, armedSlot)' = At(fileArmed, armedSlot)
  BY <1>2 DEF Count, At, Before, Used
<1>4. ASSUME fileArmed # None
      PROVE  fileSel' <= fileArmed' /\ (fileSel' = fileArmed' => ~left')
  <2>1. fileSel <= fileArmed /\ (fileSel = fileArmed => ~left)
    BY <1>4 DEF Pending
  <2>2. fileSel \in Int /\ fileSel' \in Int /\ fileArmed \in Int /\ fileArmed' = fileArmed
    BY <1>1, <1>2, <1>4, SlotIsInt DEF Pending
  <2>3. fileSel' <= fileArmed' /\ (fileSel' = fileArmed' => fileSel = fileArmed)
    BY <1>1, <2>1, <2>2
  <2>4. fileSel' = fileArmed' => ~left'
    BY <2>1, <2>3, Zenon DEF Painted
  <2> QED
    BY <2>3, <2>4
<1> QED
  BY <1>1, <1>2, <1>3, <1>4 DEF Pending

LEMMA KeptBuffer ==
  ASSUME Buffer, UNCHANGED <<slots, stored, text, dirty, source, excuse>>,
         gName' \in MaybeNames
  PROVE  Buffer'
  BY DEF Buffer, CleanIsStored, Hit

(* Entries lose what they held: if the buffer came from one of them, it    *)
(* is excused.                                                             *)
LEMMA CutShortKeeps ==
  ASSUME Directory, Buffer, NEW s \in Slots, CutShort(s),
         UNCHANGED <<slots, text, dirty>>, gName' \in MaybeNames
  PROVE  Directory' /\ Buffer'
<1>1. PICK also \in SUBSET Shares(s) :
        Damages({s} \cup also) /\ Hurts({s} \cup also, "damaged")
  BY DEF CutShort
<1> DEFINE lost == {s} \cup also
<1>2. /\ stored' = [t \in Slots |-> IF t \in lost THEN Damaged ELSE stored[t]]
      /\ source' = source
      /\ excuse' = IF \E t \in lost : Hit(t, source) THEN "damaged" ELSE excuse
  BY <1>1 DEF Damages, Hurts
<1> HIDE DEF lost
<1>3. Directory'
  BY <1>2 DEF Directory, Contents
<1>4. excuse' \in Excuses
  BY <1>2 DEF Buffer, Excuses
<1>5. CleanIsStored'
  <2> SUFFICES ASSUME ~dirty', source' # NoName, excuse' = "none"
               PROVE  \E t \in Slots : Hit(t, source)' /\ text' = Opened(stored'[t])
    BY DEF CleanIsStored
  <2>1. excuse = "none" /\ \A t \in lost : ~Hit(t, source)
    BY <1>2
  <2>2. PICK t \in Slots : Hit(t, source) /\ text = Opened(stored[t])
    BY <1>2, <2>1 DEF Buffer, CleanIsStored
  <2>3. stored'[t] = stored[t] /\ Hit(t, source)'
    BY <1>2, <2>1, <2>2 DEF Hit
  <2> QED
    BY <2>2, <2>3
<1> QED
  BY <1>2, <1>3, <1>4, <1>5 DEF Buffer

LEMMA PaintIInv == ASSUME IInv, Paint PROVE IInv'
<1>1. UNCHANGED <<slots, stored, text, gName, dirty, source, excuse, arming>>
      /\ Painted(fileSel)
  BY DEF Paint, volume, buffer, origin
<1> QED
  BY <1>1, KeptPending, KeptBuffer DEF IInv, Directory, Buffer

LEMMA SelectIInv == ASSUME IInv, NEW i \in Slots, Select(i) PROVE IInv'
<1>1. UNCHANGED <<slots, stored, text, gName, dirty, source, excuse>>
      /\ Painted(i) /\ Disarmed
  BY DEF Select, Touched, volume, buffer, origin
<1> QED
  BY <1>1, DisarmedPending, KeptBuffer DEF IInv, Directory, Buffer

LEMMA ArmIInv == ASSUME IInv, NEW s \in Slots, Arm(s) PROVE IInv'
<1>1. /\ UNCHANGED <<slots, stored, text, gName, dirty, source, excuse>>
      /\ At(fileSel, s) /\ fileSel < Count /\ fileArmed # fileSel
      /\ fileArmed' = fileSel /\ armedSlot' = s /\ shifted' = FALSE
      /\ Painted(fileSel)
  BY DEF Arm, volume, buffer, origin
<1>2. Directory' /\ Buffer'
  BY <1>1, KeptBuffer DEF IInv, Directory, Buffer
<1>3. fileSel' \in Slots /\ fileSel' <= fileSel /\ left' \in BOOLEAN
  BY <1>1, PaintedLowers DEF IInv, Pending
<1>4. fileSel' = fileArmed' => ~left'
  BY <1>1, Zenon DEF Painted
<1>5. At(fileArmed, armedSlot)' /\ Used(armedSlot)' /\ (fileArmed < Count)'
  BY <1>1 DEF At, Before, Used, Count
<1>6. fileSel \in Slots /\ s \in Slots
  BY DEF IInv, Pending
<1>7. Pending'
  BY <1>1, <1>3, <1>4, <1>5, <1>6 DEF Pending
<1> QED
  BY <1>2, <1>7 DEF IInv

(* An entry is taken out of the directory: no other moves to its slot. *)
LEMMA RemovalKeeps ==
  ASSUME Directory, Buffer, NEW s \in Slots, Used(s), Removal(s),
         UNCHANGED <<text, dirty>>, gName' \in MaybeNames
  PROVE  Directory' /\ Buffer'
<1>1. PICK also \in SUBSET Shares(s) :
        /\ slots' = [slots EXCEPT ![s] = NoName]
        /\ stored' = [t \in Slots |-> IF t = s THEN Empty
                                      ELSE IF t \in also THEN Damaged ELSE stored[t]]
        /\ source' = source
        /\ excuse' = IF Hit(s, source) THEN "deleted"
                     ELSE IF \E t \in also : Hit(t, source) THEN "damaged" ELSE excuse
  BY DEF Removal
<1>2. Directory'
  BY <1>1, TextsAssumption DEF Directory, MaybeNames, Contents
<1>3. excuse' \in Excuses
  BY <1>1 DEF Buffer, Excuses
<1>4. CleanIsStored'
  <2> SUFFICES ASSUME ~dirty', source' # NoName, excuse' = "none"
               PROVE  \E t \in Slots : Hit(t, source)' /\ text' = Opened(stored'[t])
    BY DEF CleanIsStored
  <2>1. excuse = "none" /\ ~Hit(s, source) /\ \A t \in also : ~Hit(t, source)
    BY <1>1
  <2>2. PICK t \in Slots : Hit(t, source) /\ text = Opened(stored[t])
    BY <1>1, <2>1 DEF Buffer, CleanIsStored
  <2>3. t # s /\ t \notin also /\ stored'[t] = stored[t]
    BY <1>1, <2>1, <2>2
  <2>4. \A u \in Slots : u # s => slots'[u] = slots[u]
    BY <1>1 DEF Directory
  <2>5. slots'[s] = NoName
    BY <1>1 DEF Directory
  <2>6. Hit(t, source)'
    BY <1>1, <2>2, <2>3, <2>4, <2>5 DEF Hit
  <2> QED
    BY <2>2, <2>3, <2>6
<1> QED
  BY <1>1, <1>2, <1>3, <1>4 DEF Buffer

LEMMA DeleteIInv ==
  ASSUME IInv, NEW r \in Slots, NEW s \in Slots, Delete(r, s)
  PROVE  IInv'
<1>1. /\ Hit(s, slots[r]) /\ slots[r] \in Names
      /\ gName' = slots[r] /\ UNCHANGED <<text, dirty>>
      /\ Removal(s) /\ Disarmed /\ Painted(fileSel)
  BY NameAt DEF Delete, Unpacked, IInv
<1>2. Used(s) /\ gName' \in MaybeNames
  BY <1>1, NamesAssumption DEF Hit, Used, MaybeNames
<1> QED
  BY <1>1, <1>2, RemovalKeeps, DisarmedPending DEF IInv, Pending

LEMMA DeleteFailsIInv ==
  ASSUME IInv, NEW r \in Slots, NEW s \in Slots, DeleteFails(r, s)
  PROVE  IInv'
<1>1. slots[r] \in MaybeNames
  BY NameAt DEF DeleteFails, IInv, MaybeNames
<1>2. UNCHANGED slots /\ Disarmed /\ Painted(fileSel)
  BY DEF DeleteFails
<1>3. Pending'
  BY <1>2, DisarmedPending DEF IInv, Pending
<1>4. CASE UNCHANGED <<stored, loose, buffer, origin>>
  BY <1>2, <1>3, <1>4, KeptBuffer DEF IInv, Directory, Buffer, buffer, origin
<1>5. CASE Unpacked(r) /\ UNCHANGED <<stored, loose, origin>>
  BY <1>1, <1>2, <1>3, <1>5, KeptBuffer DEF IInv, Directory, Unpacked, origin
<1>6. CASE Unpacked(r) /\ CutShort(s)
  BY <1>1, <1>2, <1>3, <1>6, CutShortKeeps DEF IInv, Unpacked
<1> QED
  BY <1>4, <1>5, <1>6 DEF DeleteFails

(* A text comes from a file; at its head if that is too long. *)
LEMMA OpenIInv ==
  ASSUME IInv, NEW r \in Slots, NEW s \in Slots, Open(r, s)
  PROVE  IInv'
<1> DEFINE n == slots[r]
<1>1. n \in MaybeNames /\ stored[s] \in Contents
  BY NameAt DEF Open, IInv, Directory, MaybeNames
<1>2. /\ Hit(s, n) /\ gName' = n /\ text' = Opened(stored[s]) /\ dirty' = FALSE
      /\ source' = n /\ excuse' = (IF stored[s] = Damaged THEN "damaged" ELSE "none")
      /\ Disarmed /\ UNCHANGED <<slots, stored>> /\ Painted(fileSel)
  BY DEF Open, volume
<1>3. Directory' /\ Pending'
  BY <1>2, DisarmedPending DEF IInv, Directory, Pending
<1>4. text' \in Contents /\ Opened(text)' = text'
  BY <1>1, <1>2, TextsAssumption DEF Contents
<1>5. excuse' \in Excuses
  BY <1>2 DEF Excuses
<1>6. CleanIsStored'
  BY <1>2 DEF CleanIsStored, Hit
<1>7. Buffer'
  BY <1>1, <1>2, <1>4, <1>5, <1>6 DEF Buffer
<1> QED
  BY <1>3, <1>7 DEF IInv

LEMMA OpenFailsIInv == ASSUME IInv, NEW r \in Slots, OpenFails(r) PROVE IInv'
<1>1. slots[r] \in MaybeNames
  BY NameAt DEF OpenFails, IInv, MaybeNames
<1>2. Disarmed /\ UNCHANGED <<slots, stored>> /\ Painted(fileSel)
  BY DEF OpenFails, volume
<1>3. Directory' /\ Pending'
  BY <1>2, DisarmedPending DEF IInv, Directory, Pending
<1>4. CASE UNCHANGED <<buffer, origin>>
  BY <1>2, <1>3, <1>4, KeptBuffer DEF IInv, Buffer, buffer, origin
<1>5. CASE gName' = slots[r] /\ UNCHANGED <<text, dirty, origin>>
  BY <1>1, <1>2, <1>3, <1>5, KeptBuffer DEF IInv, origin
<1>6. CASE /\ gName' = slots[r] /\ text' = Damaged
           /\ \/ UNCHANGED <<dirty, source>>
              \/ dirty' = FALSE /\ source' = slots[r]
           /\ excuse' = "failedRead"
  <2>1. text' \in Contents /\ Opened(text)' = text' /\ excuse' \in Excuses
    BY <1>6, TextsAssumption DEF Contents, Excuses
  <2>2. dirty' \in BOOLEAN /\ source' \in MaybeNames
    <3>1. CASE UNCHANGED <<dirty, source>>
      BY <3>1, Zenon DEF IInv, Buffer
    <3>2. CASE dirty' = FALSE /\ source' = slots[r]
      BY <1>1, <3>2
    <3> QED
      BY <1>6, <3>1, <3>2
  <2>3. CleanIsStored'
    BY <1>6 DEF CleanIsStored
  <2> QED
    BY <1>1, <1>3, <1>6, <2>1, <2>2, <2>3 DEF IInv, Buffer
<1> QED
  BY <1>4, <1>5, <1>6 DEF OpenFails

(* The keys and commands that leave the volume and the listing alone. *)
LEMMA EditIInv ==
  ASSUME IInv, UNCHANGED <<volume, arming>>, Painted(fileSel), Buffer'
  PROVE  IInv'
<1>1. UNCHANGED <<slots, stored>>
  BY DEF volume
<1> QED
  BY <1>1, KeptPending DEF IInv, Directory

LEMMA TypeIInv == ASSUME IInv, NEW t \in Texts, Type(t) PROVE IInv'
<1>1. Buffer'
  BY DEF Type, IInv, Buffer, CleanIsStored, Contents, volume, origin
<1> QED
  BY <1>1, EditIInv DEF Type

LEMMA RenameIInv == ASSUME IInv, NEW n \in MaybeNames, Rename(n) PROVE IInv'
<1>1. Buffer'
  BY KeptBuffer DEF Rename, IInv, volume, origin
<1> QED
  BY <1>1, EditIInv DEF Rename

LEMMA NewIInv == ASSUME IInv, New PROVE IInv'
<1>1. Buffer'
  BY TextsAssumption DEF New, IInv, Buffer, CleanIsStored, Contents, MaybeNames, Excuses
<1> QED
  BY <1>1, EditIInv DEF New

(* A saved text is the file's contents whole, and opens as itself, unless  *)
(* the call lost a link or took the entry for a new one.                   *)
LEMMA WrittenKeeps ==
  ASSUME Directory, Buffer, NEW s \in Slots, NEW blind \in BOOLEAN, Written(s, blind),
         gName \in Names, UNCHANGED <<text, gName>>, ~blind => Hit(s, gName)'
  PROVE  Buffer' /\ stored' \in [Slots -> Contents]
<1>1. PICK cut \in BOOLEAN, also \in SUBSET (loose \ {s}) :
        /\ stored' = [t \in Slots |-> IF t \in also \/ (t = s /\ cut) THEN Damaged
                                      ELSE IF t = s THEN text ELSE stored[t]]
        /\ dirty' = FALSE /\ source' = gName
        /\ excuse' = IF cut THEN "lostLink" ELSE IF blind THEN "blindLookup" ELSE "none"
  BY DEF Written
<1>2. stored' \in [Slots -> Contents]
  BY <1>1 DEF Directory, Buffer, Contents
<1>3. excuse' \in Excuses
  BY <1>1 DEF Excuses
<1>4. CleanIsStored'
  <2> SUFFICES ASSUME excuse' = "none"
               PROVE  Hit(s, source)' /\ text' = Opened(stored'[s])
    BY DEF CleanIsStored
  <2>1. ~cut /\ ~blind /\ s \notin also
    BY <1>1
  <2>2. stored'[s] = text
    BY <1>1, <2>1
  <2> QED
    BY <1>1, <2>1, <2>2 DEF Hit, Buffer
<1> QED
  BY <1>1, <1>2, <1>3, <1>4 DEF Buffer, MaybeNames

LEMMA SaveIInv == ASSUME IInv, NEW s \in Slots, Save(s) PROVE IInv'
<1>1. /\ gName # NoName /\ Hit(s, gName) /\ Written(s, FALSE) /\ Painted(fileSel)
      /\ UNCHANGED <<slots, text, gName, arming>>
  BY DEF Save
<1>2. gName \in Names /\ Hit(s, gName)'
  BY <1>1 DEF IInv, Buffer, MaybeNames, Hit
<1>3. Buffer' /\ stored' \in [Slots -> Contents]
  BY <1>1, <1>2, WrittenKeeps DEF IInv
<1> QED
  BY <1>1, <1>3, KeptPending DEF IInv, Directory

(* An entry is created: a delete that was pending is about the same row    *)
(* unless the listing moved there.                                         *)
LEMMA SaveNewIInv == ASSUME IInv, NEW s \in Slots, SaveNew(s) PROVE IInv'
<1>1. /\ gName # NoName /\ ~Used(s)
      /\ slots' = [slots EXCEPT ![s] = gName]
      /\ Written(s, Exists(gName)) /\ Painted(fileSel)
      /\ UNCHANGED <<text, gName, fileArmed, armedSlot>>
      /\ shifted' = (shifted \/ s < armedSlot)
  BY DEF SaveNew
<1>2. gName \in Names
  BY <1>1 DEF IInv, Buffer, MaybeNames
<1>3. slots'[s] = gName /\ \A t \in Slots : t # s => slots'[t] = slots[t]
  BY <1>1 DEF IInv, Directory
<1>4. Buffer' /\ stored' \in [Slots -> Contents]
  <2>1. ~Exists(gName) => Hit(s, gName)'
    BY <1>1, <1>3, SlotIsInt DEF Exists, Hit
  <2>2. Exists(gName) \in BOOLEAN
    BY DEF Exists
  <2> QED
    BY <1>1, <1>2, <2>1, <2>2, WrittenKeeps DEF IInv
<1>5. Directory'
  BY <1>1, <1>2, <1>4 DEF IInv, Directory, MaybeNames
<1>6. Pending'
  <2>1. shifted' \in BOOLEAN
    BY <1>1, Zenon DEF IInv, Pending
  <2>2. fileSel' \in Slots /\ fileSel' <= fileSel /\ left' \in BOOLEAN
    BY <1>1, PaintedLowers DEF IInv, Pending
  <2>3. CASE fileArmed = None
    BY <1>1, <2>1, <2>2, <2>3 DEF IInv, Pending
  <2>4. CASE fileArmed # None
    <3>1. /\ fileArmed \in Slots /\ armedSlot \in Slots /\ Used(armedSlot)
          /\ fileArmed < Count /\ fileSel <= fileArmed /\ (fileSel = fileArmed => ~left)
          /\ ~shifted => At(fileArmed, armedSlot)
      BY <2>4 DEF IInv, Pending
    <3>2. fileArmed' < Count'
      <4>1. Count' >= Count
        BY <1>1, <1>2, CountCreated DEF IInv
      <4>2. fileArmed \in Int
        BY <3>1, SlotIsInt
      <4> QED
        BY <1>1, <3>1, <4>1, <4>2, CountNat
    <3>3. fileSel' <= fileArmed' /\ (fileSel' = fileArmed' => fileSel = fileArmed)
      <4>1. fileSel \in Int /\ fileSel' \in Int /\ fileArmed \in Int
        BY <2>2, <3>1, SlotIsInt DEF IInv, Pending
      <4> QED
        BY <1>1, <2>2, <3>1, <4>1
    <3>4. fileSel' = fileArmed' => ~left'
      BY <1>1, <3>1, <3>3, Zenon DEF Painted
    <3>5. armedSlot # s /\ Used(armedSlot)'
      BY <1>1, <1>3, <3>1 DEF Used
    <3>6. ASSUME ~shifted' PROVE At(fileArmed, armedSlot)'
      <4>1. ~shifted /\ ~(s < armedSlot)
        BY <1>1, <3>6, Zenon
      <4>2. armedSlot < s
        BY <3>1, <3>5, <4>1, SlotIsInt
      <4>3. Before(armedSlot)' = Before(armedSlot)
        BY <1>1, <1>2, <3>1, <4>2, BeforeCreated DEF IInv
      <4> QED
        BY <1>1, <3>1, <3>5, <4>1, <4>3 DEF At
    <3> QED
      BY <1>1, <2>1, <2>2, <3>1, <3>2, <3>3, <3>4, <3>5, <3>6 DEF Pending
  <2> QED
    BY <2>3, <2>4
<1> QED
  BY <1>4, <1>5, <1>6 DEF IInv

LEMMA SaveFailsIInv == ASSUME IInv, SaveFails PROVE IInv'
<1>1. UNCHANGED <<slots, text, gName, dirty, arming>> /\ Painted(fileSel)
  BY DEF SaveFails, buffer
<1>2. gName' \in MaybeNames
  BY <1>1 DEF IInv, Buffer
<1>3. Pending'
  BY <1>1, KeptPending DEF IInv
<1>4. CASE UNCHANGED <<stored, loose, origin>>
  BY <1>1, <1>2, <1>3, <1>4, KeptBuffer DEF IInv, Directory, origin
<1>5. CASE \E s \in Slots : Hit(s, gName) /\ CutShort(s)
  BY <1>1, <1>2, <1>3, <1>5, CutShortKeeps DEF IInv
<1> QED
  BY <1>4, <1>5 DEF SaveFails

LEMMA NextIInv == IInv /\ [Next]_vars => IInv'
<1> SUFFICES ASSUME IInv, [Next]_vars PROVE IInv'
  OBVIOUS
<1>1. CASE Paint
  BY <1>1, PaintIInv
<1>2. ASSUME NEW i \in 0 .. LastSlot, Select(i) PROVE IInv'
  BY <1>2, SelectIInv DEF Slots
<1>3. ASSUME NEW s \in Slots, Arm(s) \/ OpenFails(s) \/ Save(s) \/ SaveNew(s)
      PROVE  IInv'
  BY <1>3, ArmIInv, OpenFailsIInv, SaveIInv, SaveNewIInv
<1>4. ASSUME NEW r \in Slots, NEW s \in Slots,
             Delete(r, s) \/ DeleteFails(r, s) \/ Open(r, s)
      PROVE  IInv'
  BY <1>4, DeleteIInv, DeleteFailsIInv, OpenIInv
<1>5. CASE OpenElsewhere
  <2>1. UNCHANGED <<slots, stored, text, gName, dirty, source, excuse>>
        /\ Painted(fileSel) /\ Disarmed
    BY <1>5 DEF OpenElsewhere, volume, buffer, origin
  <2> QED
    BY <2>1, DisarmedPending, KeptBuffer DEF IInv, Directory, Buffer, Pending
<1>6. ASSUME NEW t \in Texts, Type(t) PROVE IInv'
  BY <1>6, TypeIInv
<1>7. ASSUME NEW n \in Names \cup {NoName}, Rename(n) PROVE IInv'
  BY <1>7, RenameIInv DEF MaybeNames
<1>8. CASE New
  BY <1>8, NewIInv
<1>9. CASE SaveFails
  BY <1>9, SaveFailsIInv
<1>10. CASE UNCHANGED vars
  <2>1. /\ UNCHANGED <<slots, stored, text, gName, dirty, source, excuse>>
        /\ UNCHANGED <<fileSel, fileArmed, armedSlot, shifted, left>>
    BY <1>10 DEF vars, volume, buffer, arming, origin
  <2>2. Pending'
    BY <2>1 DEF IInv, Pending, Count, At, Before, Used
  <2> QED
    BY <2>1, <2>2, KeptBuffer DEF IInv, Directory, Buffer
<1> QED
  BY <1>1, <1>2, <1>3, <1>4, <1>5, <1>6, <1>7, <1>8, <1>9, <1>10 DEF Next

LEMMA IInvAlways == Spec => []IInv
  BY InitIInv, NextIInv, PTL DEF Spec

(* In a directory of any size, whatever is selected, opened, saved and     *)
(* deleted, and however short a paint finds the listing: once the          *)
(* selection has been off the row a pending delete is about, it is not on  *)
(* that row again before the delete is armed anew or given up.             *)
THEOREM ArmedAlways == Spec => []ArmedNeverRegained
<1>1. IInv => ArmedNeverRegained
  BY DEF IInv, Pending, ArmedNeverRegained
<1> QED
  BY <1>1, IInvAlways, PTL

(* For any files, texts and calls that go wrong: an editor that does not   *)
(* say "edited" shows what its file holds, or the head of it, unless one   *)
(* of the named events stands between the two.                             *)
THEOREM CleanAlways == Spec => []CleanIsStored
<1>1. IInv => CleanIsStored
  BY DEF IInv, Buffer
<1> QED
  BY <1>1, IInvAlways, PTL

(* The rows of a listing of any length: an entry goes only by a second     *)
(* press on a row the selection did not leave, and has the name the first  *)
(* press was about, unless a save created an entry ahead of it in between. *)
THEOREM DeletesWhatWasArmed == Spec => ConfirmedUnlessShifted
<1> DEFINE Confirmed == \A s \in Slots : Removed(s) =>
                          /\ fileArmed # None /\ fileSel = fileArmed /\ ~left
                          /\ slots[s] = slots[armedSlot] \/ shifted
<1>1. ASSUME IInv, Next PROVE Confirmed
  <2> SUFFICES ASSUME NEW t \in Slots, Removed(t)
               PROVE  /\ fileArmed # None /\ fileSel = fileArmed /\ ~left
                      /\ slots[t] = slots[armedSlot] \/ shifted
    OBVIOUS
  <2>1. slots'[t] = NoName /\ slots[t] # NoName
    BY DEF Removed, Used
  <2>2. ASSUME NEW s \in Slots, SaveNew(s) PROVE FALSE
    <3>1. ~Used(s) /\ gName # NoName /\ slots' = [slots EXCEPT ![s] = gName]
      BY <2>2 DEF SaveNew
    <3> QED
      BY <1>1, <2>1, <3>1 DEF IInv, Directory
  <2>3. PICK r \in Slots, s \in Slots : Delete(r, s)
    BY <1>1, <2>1, <2>2 DEF Next, Paint, Select, Arm, DeleteFails, Open, OpenFails,
       OpenElsewhere, Type, Rename, New, Save, SaveFails, volume
  <2>4. /\ At(fileSel, r) /\ fileArmed = fileSel /\ Hit(s, slots[r])
        /\ slots' = [slots EXCEPT ![s] = NoName]
    BY <2>3 DEF Delete, Removal
  <2>5. t = s /\ slots[t] = slots[r]
    BY <1>1, <2>1, <2>4 DEF IInv, Directory, Hit
  <2>6. fileArmed # None /\ ~left
    BY <1>1, <2>4, SlotIsInt DEF IInv, Pending
  <2>7. ~shifted => At(fileArmed, armedSlot) /\ armedSlot \in Slots
    BY <1>1, <2>6 DEF IInv, Pending
  <2>8. ~shifted => r = armedSlot
    BY <2>4, <2>7, AtUnique
  <2> QED
    BY <2>4, <2>5, <2>6, <2>8
<1>2. [][Confirmed]_vars <=> ConfirmedUnlessShifted
  BY DEF ConfirmedUnlessShifted
<1> HIDE DEF Confirmed
<1> QED
  BY <1>1, <1>2, IInvAlways, PTL DEF Spec

=============================================================================
