---------------------------- MODULE DesktopProofs ---------------------------
(***************************************************************************)
(* What Boot.java puts before its user, for any number of windows, any     *)
(* ring and any text.                                                      *)
(*                                                                         *)
(* The z-order: no shift of the array loses or doubles a window, and a     *)
(* closed one is in front of an open one only after Alt+Tab.               *)
(*                                                                         *)
(* The keyboard ring: one interrupt handler that only moves the tail and   *)
(* one reader that only moves the head share it without a lock, and no key *)
(* is lost, doubled or reordered once it has entered.                      *)
(*                                                                         *)
(* The editor those keys reach, for every text, name and window, up to its *)
(* being an editor of lines.                                               *)
(***************************************************************************)
EXTENDS Desktop, Keyboard, EditBuffer, SequenceTheorems, FiniteSetTheorems, TLAPS

(* z holds every window exactly once. *)
Orders(z) ==
  /\ z \in [Places -> Windows]
  /\ \A i \in Windows : \E p \in Places : z[p] = i
  /\ \A p, q \in Places : z[p] = z[q] => p = q

(* Closed windows lie below open ones. *)
Layered(z, open) == \A p, q \in Places : p < q /\ z[p] \in open => z[q] \in open

LEMMA CountPositive == WinCount \in Nat /\ WinCount >= 1
  BY WindowsAssumption

LEMMA RaisedOrders ==
  ASSUME Orders(zorder), NEW p \in Places
  PROVE  Orders(Raised(zorder[p], p)) /\ Raised(zorder[p], p)[WinCount] = zorder[p]
<1> USE CountPositive DEF Places, Orders
<1> DEFINE z == Raised(zorder[p], p)
<1>1. z \in [Places -> Windows]
  BY DEF Raised
<1>2. ASSUME NEW i \in Windows PROVE \E q \in Places : z[q] = i
  <2>1. PICK r \in Places : zorder[r] = i
    OBVIOUS
  <2>2. CASE r < p
    BY <2>1, <2>2 DEF Raised
  <2>3. CASE r = p
    BY <2>1, <2>3 DEF Raised
  <2>4. CASE r > p
    <3>1. r - 1 \in Places /\ z[r - 1] = i
      BY <2>1, <2>4 DEF Raised
    <3> QED
      BY <3>1
  <2> QED
    BY <2>2, <2>3, <2>4
<1>3. \A q, r \in Places : z[q] = z[r] => q = r
  BY DEF Raised
<1>4. z[WinCount] = zorder[p]
  BY DEF Raised
<1> QED
  BY <1>1, <1>2, <1>3, <1>4

LEMMA SunkOrders ==
  ASSUME Orders(zorder), NEW p \in Places
  PROVE  Orders(Sunk(zorder[p], p))
<1> USE CountPositive DEF Places, Orders
<1> DEFINE z == Sunk(zorder[p], p)
<1>1. z \in [Places -> Windows]
  BY DEF Sunk
<1>2. ASSUME NEW i \in Windows PROVE \E q \in Places : z[q] = i
  <2>1. PICK r \in Places : zorder[r] = i
    OBVIOUS
  <2>2. CASE r < p
    <3>1. r + 1 \in Places /\ z[r + 1] = i
      BY <2>1, <2>2 DEF Sunk
    <3> QED
      BY <3>1
  <2>3. CASE r = p
    <3>1. 1 \in Places /\ z[1] = i
      BY <2>1, <2>3 DEF Sunk
    <3> QED
      BY <3>1
  <2>4. CASE r > p
    <3>1. z[r] = i
      BY <2>1, <2>4 DEF Sunk
    <3> QED
      BY <3>1
  <2> QED
    BY <2>2, <2>3, <2>4
<1>3. \A q, r \in Places : z[q] = z[r] => q = r
  BY DEF Sunk
<1> QED
  BY <1>1, <1>2, <1>3

LEMMA TurnedOrders ==
  ASSUME Orders(zorder), NEW k \in Places
  PROVE  Orders(Turned(k))
<1> USE CountPositive DEF Places, Orders
<1>1. Turned(k) \in [Places -> Windows]
  BY DEF Turned
<1>2. ASSUME NEW i \in Windows PROVE \E q \in Places : Turned(k)[q] = i
  <2>1. PICK r \in Places : zorder[r] = i
    OBVIOUS
  <2>2. CASE r <= WinCount - k
    <3>1. r + k \in Places /\ Turned(k)[r + k] = i
      BY <2>1, <2>2 DEF Turned
    <3> QED
      BY <3>1
  <2>3. CASE r > WinCount - k
    <3>1. r - (WinCount - k) \in Places /\ Turned(k)[r - (WinCount - k)] = i
      BY <2>1, <2>3 DEF Turned
    <3> QED
      BY <3>1
  <2> QED
    BY <2>2, <2>3
<1>3. \A q, r \in Places : Turned(k)[q] = Turned(k)[r] => q = r
  BY DEF Turned
<1> QED
  BY <1>1, <1>2, <1>3

(* How the two shifts treat the layers. *)
LEMMA RaisedLayered ==
  ASSUME Orders(zorder), Layered(zorder, wOpen), NEW p \in Places
  PROVE  Layered(Raised(zorder[p], p), wOpen \cup {zorder[p]})
  BY CountPositive DEF Places, Orders, Layered, Raised

LEMMA SunkLayered ==
  ASSUME Orders(zorder), Layered(zorder, wOpen), NEW p \in Places
  PROVE  Layered(Sunk(zorder[p], p), wOpen \ {zorder[p]})
<1> SUFFICES ASSUME NEW q \in Places, NEW r \in Places, q < r,
                    Sunk(zorder[p], p)[q] \in wOpen \ {zorder[p]}
             PROVE  Sunk(zorder[p], p)[r] \in wOpen \ {zorder[p]}
  BY DEF Layered
<1> USE CountPositive DEF Places, Orders, Layered, Sunk
<1>1. q > 1
  OBVIOUS
<1>2. CASE r <= p
  BY <1>1, <1>2
<1>3. CASE q <= p /\ r > p
  BY <1>1, <1>3
<1>4. CASE q > p
  BY <1>1, <1>4
<1> QED
  BY <1>2, <1>3, <1>4

----------------------------------------------------------------------------
DeskInv == DeskTypeOK /\ (~cycled => Layered(zorder, wOpen))

LEMMA InitDesk == DeskInit => DeskInv
<1> SUFFICES ASSUME DeskInit PROVE DeskInv
  OBVIOUS
<1>1. DeskTypeOK
  BY WindowsAssumption DEF DeskInit, DeskTypeOK
<1>2. Layered(zorder, wOpen)
  BY CountPositive DEF DeskInit, Layered, Places, TopWin
<1> QED
  BY <1>1, <1>2 DEF DeskInv

LEMMA StepDesk == DeskInv /\ [DeskNext]_deskVars => DeskInv'
<1> SUFFICES ASSUME DeskInv, [DeskNext]_deskVars PROVE DeskInv'
  OBVIOUS
<1>0. Orders(zorder) /\ wOpen \subseteq Windows /\ wMin \subseteq Windows /\ cycled \in BOOLEAN
  BY DEF DeskInv, DeskTypeOK, Orders, At
<1>a. ASSUME Orders(zorder'), wOpen' \subseteq Windows, wMin' \subseteq Windows,
             cycled' \in BOOLEAN, ~cycled' => Layered(zorder', wOpen')
      PROVE  DeskInv'
  BY <1>a DEF DeskInv, DeskTypeOK, Orders, Layered, At, Places
<1>b. ASSUME NEW i \in Windows, Raise(i), UNCHANGED cycled,
             wMin' \subseteq Windows, wOpen' = wOpen \cup {i}
      PROVE  DeskInv'
  <2>1. PICK p \in Places : zorder[p] = i /\ zorder' = Raised(i, p)
    BY <1>b DEF Raise, At
  <2>2. Orders(zorder')
    BY <1>0, <2>1, RaisedOrders
  <2>3. ~cycled' => Layered(zorder', wOpen')
    BY <1>0, <1>b, <2>1, RaisedLayered DEF DeskInv
  <2> QED
    BY <1>0, <1>a, <1>b, <2>2, <2>3
<1>c. ASSUME NEW i \in Windows, Close(i) PROVE DeskInv'
  <2>1. PICK p \in Places : zorder[p] = i /\ zorder' = Sunk(i, p)
    BY <1>c DEF Close, At
  <2>2. Orders(zorder')
    BY <1>0, <2>1, SunkOrders
  <2>3. ~cycled' => Layered(zorder', wOpen')
    BY <1>0, <1>c, <2>1, SunkLayered DEF DeskInv, Close
  <2> QED
    BY <1>0, <1>a, <1>c, <2>2, <2>3 DEF Close
<1>1. ASSUME NEW i \in Windows, Open(i) PROVE DeskInv'
  BY <1>0, <1>b, <1>1 DEF Open
<1>2. ASSUME NEW i \in Windows, CloseOne(i) PROVE DeskInv'
  BY <1>c, <1>2 DEF CloseOne
<1>3. ASSUME NEW i \in Windows, Taskbar(i) PROVE DeskInv'
  <2>1. i \in wOpen /\ UNCHANGED <<wOpen, cycled>>
    BY <1>3 DEF Taskbar
  <2>2. CASE Raise(i)
    <3>1. wMin' \subseteq Windows /\ wOpen' = wOpen \cup {i}
      BY <1>0, <1>3, <2>1 DEF Taskbar
    <3> QED
      BY <1>b, <2>1, <2>2, <3>1
  <2>3. CASE UNCHANGED zorder
    <3>1. wMin' \subseteq Windows
      BY <1>0, <1>3 DEF Taskbar
    <3> QED
      BY <1>0, <1>a, <2>1, <2>3, <3>1 DEF DeskInv
  <2> QED
    BY <1>3, <2>2, <2>3 DEF Taskbar
<1>4. ASSUME NEW i \in Windows, OnPress(i) PROVE DeskInv'
  <2>1. wOpen' = wOpen \cup {i} /\ wMin' \subseteq Windows
    BY <1>0, <1>4 DEF OnPress, Visible
  <2> QED
    BY <1>b, <1>4, <2>1 DEF OnPress
<1>5. CASE CloseFront
  <2>1. TopWin \in Windows
    BY <1>0, CountPositive DEF TopWin, Orders, Places
  <2> QED
    BY <1>5, <1>c, <2>1 DEF CloseFront
<1>6. CASE Cycle
  BY <1>0, <1>6, <1>a, TurnedOrders DEF Cycle
<1>7. CASE OpenAll
  <2>1. Layered(zorder', wOpen')
    BY <1>0, <1>7 DEF OpenAll, Layered, Orders
  <2> QED
    BY <1>0, <1>7, <1>a, <2>1 DEF OpenAll
<1>8. CASE RestoreAll
  BY <1>0, <1>8, <1>a DEF RestoreAll, DeskInv
<1>9. CASE UNCHANGED deskVars
  BY <1>0, <1>9, <1>a DEF deskVars, DeskInv
<1> QED
  BY <1>1, <1>2, <1>3, <1>4, <1>5, <1>6, <1>7, <1>8, <1>9 DEF DeskNext

(* The inductive invariant holds in every reachable state. *)
THEOREM DeskAlways == DeskSpec => []DeskInv
  BY InitDesk, StepDesk, PTL DEF DeskSpec

(* raiseWin, closeWin and cycleWindow keep zorder a permutation of the     *)
(* windows, however many there are.                                        *)
THEOREM DeskTypeCorrect == DeskSpec => []DeskTypeOK
<1>1. DeskInv => DeskTypeOK
  BY DEF DeskInv
<1> QED
  BY <1>1, DeskAlways, PTL

(* Until Alt+Tab is used, no closed window lies above an open one, so the  *)
(* front window is open whenever any is.                                   *)
THEOREM LayersAlways == DeskSpec => []ClosedBelowOpen
<1>1. DeskInv => ClosedBelowOpen
  BY DEF DeskInv, Layered, ClosedBelowOpen
<1> QED
  BY <1>1, DeskAlways, PTL

----------------------------------------------------------------------------
(* Alt+Tab. *)

(* Where the window at p is after k turns. *)
Moved(p, k) == IF p <= WinCount - k THEN p + k ELSE p - (WinCount - k)

LEMMA MovedIs ==
  ASSUME Orders(zorder), NEW k \in Places, NEW p \in Places
  PROVE  Moved(p, k) \in Places /\ Turned(k)[Moved(p, k)] = zorder[p]
<1> USE CountPositive DEF Places, Moved, Turned
<1>1. CASE p <= WinCount - k
  BY <1>1
<1>2. CASE p > WinCount - k
  BY <1>2
<1> QED
  BY <1>1, <1>2

(* A turn that brings no visible window to the front passes none. *)
LEMMA NoneSkipped ==
  ASSUME Orders(zorder), NEW k \in Places, \A m \in Places : m < k => ~Lands(m),
         NEW p \in Places, zorder[p] \in Visible
  PROVE  p = WinCount \/ p <= WinCount - k
<1> SUFFICES ASSUME p < WinCount, p > WinCount - k PROVE FALSE
  BY CountPositive DEF Places
<1> DEFINE m == WinCount - p
<1>1. m \in Places /\ m < k /\ m < WinCount /\ WinCount - m = p
  BY CountPositive DEF Places
<1>2. Turned(m)[WinCount] = zorder[WinCount - m]
  BY <1>1, CountPositive DEF Places, Turned
<1>3. Lands(m)
  BY <1>1, <1>2 DEF Lands
<1> QED
  BY <1>1, <1>3

LEMMA CycleTurns ==
  ASSUME DeskInv, Cycle
  PROVE  /\ Visible # {} => zorder'[WinCount] \in Visible
         /\ \A i, j \in Visible :
              i # j => (Above(i, j)' <=> CASE i = TopWin -> FALSE
                                           [] j = TopWin -> TRUE
                                           [] OTHER -> Above(i, j))
<1>1. Orders(zorder) /\ Visible \subseteq Windows
  BY DEF DeskInv, DeskTypeOK, Orders, At, Visible
<1>2. PICK k \in Places : /\ \A m \in Places : m < k => ~Lands(m)
                          /\ Lands(k) \/ k = WinCount
                          /\ zorder' = Turned(k)
  BY DEF Cycle
<1>3. WinCount \in Nat /\ WinCount \in Places /\ Places = 1 .. WinCount
  BY CountPositive DEF Places
<1>4. ASSUME Visible # {} PROVE zorder'[WinCount] \in Visible
  <2>1. CASE Lands(k)
    BY <1>2, <2>1 DEF Lands
  <2>2. CASE k = WinCount
    <3>1. PICK p \in Places : zorder[p] \in Visible
      BY <1>1, <1>4 DEF Orders
    <3>2. p = WinCount
      BY <1>1, <1>2, <1>3, <2>2, <3>1, NoneSkipped
    <3>3. Turned(k)[WinCount] = zorder[WinCount]
      BY <1>3, <2>2 DEF Turned
    <3> QED
      BY <1>2, <3>1, <3>2, <3>3
  <2> QED
    BY <1>2, <2>1, <2>2
<1>5. ASSUME NEW i \in Visible, NEW j \in Visible, i # j
      PROVE  Above(i, j)' <=> CASE i = TopWin -> FALSE
                                [] j = TopWin -> TRUE
                                [] OTHER -> Above(i, j)
  <2>1. PICK p \in Places : zorder[p] = i
    BY <1>1 DEF Orders
  <2>2. PICK q \in Places : zorder[q] = j
    BY <1>1 DEF Orders
  <2>3. /\ p # q /\ (p = WinCount <=> i = TopWin) /\ (q = WinCount <=> j = TopWin)
    BY <1>1, <1>3, <1>5, <2>1, <2>2 DEF Orders, TopWin
  <2>4. (p = WinCount \/ p <= WinCount - k) /\ (q = WinCount \/ q <= WinCount - k)
    BY <1>1, <1>2, <2>1, <2>2, NoneSkipped
  <2>5. /\ Moved(p, k) \in Places /\ zorder'[Moved(p, k)] = i
        /\ Moved(q, k) \in Places /\ zorder'[Moved(q, k)] = j
    BY <1>1, <1>2, <2>1, <2>2, MovedIs
  <2>6. Above(i, j) <=> p > q
    BY <1>1, <2>1, <2>2 DEF Above, At, Orders
  <2>7. Orders(zorder')
    BY <1>1, <1>2, TurnedOrders
  <2>8. Above(i, j)' <=> Moved(p, k) > Moved(q, k)
    BY <2>5, <2>7 DEF Above, At, Orders
  <2>9. Moved(p, k) > Moved(q, k) <=>
          (p # WinCount /\ (q = WinCount \/ p > q))
    BY <1>3, <2>3, <2>4 DEF Moved
  <2> QED
    BY <2>3, <2>6, <2>8, <2>9
<1> QED
  BY <1>4, <1>5

(* However many windows there are, Alt+Tab takes the visible ones in turn: *)
(* the window it brings to the front is visible if any is, the one that    *)
(* was in front goes behind all visible ones, the others keep their order. *)
THEOREM CycleAlwaysTakesTurns == DeskSpec => CycleTakesTurns
<1>1. DeskInv /\ Cycle =>
        /\ Visible # {} => zorder'[WinCount] \in Visible
        /\ \A i, j \in Visible :
             i # j => (Above(i, j)' <=> CASE i = TopWin -> FALSE
                                          [] j = TopWin -> TRUE
                                          [] OTHER -> Above(i, j))
  BY CycleTurns
<1> QED
  BY <1>1, DeskAlways, PTL DEF CycleTakesTurns

----------------------------------------------------------------------------
(* The keyboard ring.                                                      *)

(* seen keeps, for every key not yet delivered, what is held now. *)
SeenInv ==
  /\ Len(seen) = Len(log)
  /\ down \subseteq HeldMods
  /\ \A k \in 1 .. Len(log) : k >= taken => HeldMods \subseteq seen[k]

IInv == TypeOK /\ FifoFaithful /\ SeenInv /\ ModifiersHeld

(* What IRQ1 does to the ring when it is not full, in terms of Pending. *)
LEMMA PendingFacts ==
  ASSUME TypeOK
  PROVE  /\ Pending \in 0 .. FifoSize - 1
         /\ Wrap(head + Pending) = tail
         /\ ~Full => Pending < FifoSize - 1
         /\ \A j \in 0 .. Pending : Wrap(head + j) \in Ring
         /\ \A j \in 0 .. Pending - 1 : Wrap(head + j) # tail
  BY SizeAssumption DEF TypeOK, Ring, Pending, Wrap, Full

LEMMA ModOrderFacts == Len(ModOrder) = 3 /\ 1 \in 1 .. Len(ModOrder)
  BY DEF ModOrder

LEMMA InitIInv == Init => IInv
<1> SUFFICES ASSUME Init PROVE IInv
  OBVIOUS
<1> USE SizeAssumption DEF Init
<1>1. TypeOK
  <2>1. buf \in [Ring -> KeyBytes \cup {NoKey}] /\ head \in Ring /\ tail \in Ring
    BY DEF Ring
  <2>2. log \in Seq(KeyBytes) /\ Len(log) <= MaxPresses /\ seen \in Seq(SUBSET Mods)
    OBVIOUS
  <2>3. turn \in 1 .. Len(ModOrder) /\ taken \in Nat
    BY ModOrderFacts
  <2> QED
    BY <2>1, <2>2, <2>3 DEF TypeOK
<1>2. FifoFaithful
  BY DEF FifoFaithful, Pending, Reading
<1>3. SeenInv
  BY DEF SeenInv, HeldMods
<1>4. ModifiersHeld
  BY DEF ModifiersHeld, Reading
<1> QED
  BY <1>1, <1>2, <1>3, <1>4 DEF IInv

(* A step that leaves the ring and the reader alone keeps the queue. *)
LEMMA PressIInv == ASSUME IInv, NEW c \in Codes, Press(c) PROVE IInv'
<1> DEFINE byte == [code |-> c, extended |-> e0]
<1> USE DEF IInv
<1>1. byte \in KeyBytes
  BY DEF TypeOK, KeyBytes
<1>2. CASE Full
  <2>1. UNCHANGED <<ring, log, seen, down, reader, held, taken>> /\ e0' = FALSE
    BY <1>2 DEF Press
  <2> QED
    BY <2>1 DEF ring, reader, TypeOK, FifoFaithful, Pending, SeenInv, HeldMods, ModifiersHeld
<1>3. CASE ~Full
  <2>1. /\ buf' = [buf EXCEPT ![tail] = byte] /\ tail' = Wrap(tail + 1)
        /\ log' = Append(log, byte) /\ seen' = Append(seen, HeldMods)
        /\ head' = head /\ e0' = FALSE /\ Len(log) < MaxPresses
        /\ UNCHANGED <<down, reader, held, taken>>
    BY <1>3 DEF Press
  <2>2. HeldMods \subseteq Mods /\ HeldMods' = HeldMods
    BY <2>1, KeysAssumption DEF HeldMods, TypeOK
  <2>3. TypeOK'
    <3>1. tail' \in Ring /\ buf' \in [Ring -> KeyBytes \cup {NoKey}]
      BY <1>1, <2>1, SizeAssumption DEF TypeOK, Ring, Wrap
    <3>2. log' \in Seq(KeyBytes) /\ Len(log') <= MaxPresses /\ seen' \in Seq(SUBSET Mods)
      BY <1>1, <2>1, <2>2, SizeAssumption DEF TypeOK
    <3> QED
      BY <2>1, <3>1, <3>2 DEF TypeOK, reader
  <2>4. Pending' = Pending + 1
    BY <1>3, <2>1, SizeAssumption DEF TypeOK, Ring, Pending, Wrap, Full
  <2>5. Len(log') = Len(log) + 1 /\ \A k \in 1 .. Len(log) : log'[k] = log[k]
    BY <1>1, <2>1 DEF TypeOK
  <2>5a. log'[Len(log) + 1] = byte
    BY <1>1, <2>1 DEF TypeOK
  <2>6. FifoFaithful'
    <3>1. Pending' = Len(log') - taken'
      BY <2>1, <2>4, <2>5 DEF FifoFaithful, TypeOK
    <3>2. ASSUME NEW j \in 0 .. Pending' - 1
          PROVE  buf'[Wrap(head' + j)] = log'[taken' + 1 + j]
      <4>1. CASE j < Pending
        <5>1. j \in 0 .. Pending - 1 /\ taken + 1 + j \in 1 .. Len(log)
          BY <2>4, <3>2, <4>1, PendingFacts DEF FifoFaithful, TypeOK
        <5>2. Wrap(head + j) \in Ring /\ Wrap(head + j) # tail
          BY <5>1, PendingFacts
        <5> QED
          BY <2>1, <2>5, <5>1, <5>2 DEF FifoFaithful, TypeOK
      <4>2. CASE j = Pending
        <5>1. Wrap(head + j) = tail /\ taken + 1 + j = Len(log) + 1
          BY <4>2, PendingFacts DEF FifoFaithful, TypeOK
        <5> QED
          BY <2>1, <2>5a, <5>1 DEF TypeOK
      <4> QED
        BY <2>4, <3>2, <4>1, <4>2, PendingFacts
    <3>3. pc' \in {"load", "advance"} => Pending' > 0
      BY <2>1, <2>4, PendingFacts DEF reader
    <3>4. pc' = "advance" => val' = log'[taken' + 1]
      <4>1. pc = "advance" => taken + 1 \in 1 .. Len(log)
        BY PendingFacts DEF FifoFaithful, TypeOK
      <4> QED
        BY <2>1, <2>5, <4>1 DEF FifoFaithful, reader
    <3>5. pc' \in Reading => taken' > 0 /\ val' = log'[taken']
      <4>1. pc \in Reading => taken \in 1 .. Len(log)
        BY PendingFacts DEF FifoFaithful, TypeOK
      <4> QED
        BY <2>1, <2>5, <4>1 DEF FifoFaithful, reader
    <3> QED
      BY <3>1, <3>2, <3>3, <3>4, <3>5 DEF FifoFaithful
  <2>7. Len(seen') = Len(seen) + 1 /\ \A k \in 1 .. Len(seen) : seen'[k] = seen[k]
    BY <2>1, <2>2 DEF TypeOK
  <2>8. seen'[Len(seen) + 1] = HeldMods
    BY <2>1, <2>2 DEF TypeOK
  <2>9. SeenInv'
    <3>1. ASSUME NEW k \in 1 .. Len(log'), k >= taken' PROVE HeldMods' \subseteq seen'[k]
      <4>1. CASE k \in 1 .. Len(log)
        BY <2>1, <2>2, <2>7, <3>1, <4>1 DEF SeenInv
      <4>2. CASE k = Len(log) + 1
        BY <2>2, <2>8, <4>2 DEF SeenInv
      <4> QED
        BY <2>5, <3>1, <4>1, <4>2 DEF TypeOK
    <3> QED
      BY <2>1, <2>2, <2>5, <2>7, <3>1 DEF SeenInv
  <2>10. ModifiersHeld'
    <3>1. pc \in Reading => taken \in 1 .. Len(seen)
      BY PendingFacts DEF FifoFaithful, TypeOK, SeenInv
    <3> QED
      BY <2>1, <2>7, <3>1 DEF ModifiersHeld, reader
  <2> QED
    BY <2>3, <2>6, <2>9, <2>10
<1> QED
  BY <1>2, <1>3

LEMMA ModifierKeyIInv ==
  ASSUME IInv, NEW m \in ModKeys, ModDown(m) \/ ModUp(m)
  PROVE  IInv'
<1> USE DEF IInv
<1>1. UNCHANGED <<ring, reader, log, taken>> /\ e0' = FALSE
  BY DEF ModDown, ModUp
<1>2. FifoFaithful'
  BY <1>1 DEF FifoFaithful, Pending, ring, reader
<1>3. ModOf[m] \in Mods
  BY KeysAssumption
<1>4. CASE ModDown(m)
  <2>1. /\ held' = held \cup {m} /\ down' = down \cup {ModOf[m]}
        /\ seen' = [k \in 1 .. Len(log) |->
                      IF k >= taken THEN seen[k] \cup {ModOf[m]} ELSE seen[k]]
    BY <1>4 DEF ModDown
  <2>2. HeldMods' = HeldMods \cup {ModOf[m]}
    BY <2>1 DEF HeldMods
  <2>3. seen' \in Seq(SUBSET Mods) /\ Len(seen') = Len(log)
    <3>1. \A k \in 1 .. Len(log) : seen[k] \in SUBSET Mods
      BY DEF TypeOK, SeenInv
    <3>2. seen' \in [1 .. Len(log) -> SUBSET Mods]
      BY <1>3, <2>1, <3>1
    <3> QED
      BY SMTT(30), <3>2 DEF TypeOK
  <2>4. TypeOK'
    BY <1>1, <1>3, <2>1, <2>3 DEF TypeOK, ring, reader
  <2>5. SeenInv'
    BY <1>1, <2>1, <2>2, <2>3 DEF SeenInv
  <2>6. ModifiersHeld'
    <3>1. pc \in Reading => taken \in 1 .. Len(log)
      BY PendingFacts DEF FifoFaithful, TypeOK
    <3> QED
      BY <1>1, <2>1, <3>1 DEF ModifiersHeld, reader, TypeOK
  <2> QED
    BY <1>2, <2>4, <2>5, <2>6
<1>5. CASE ModUp(m)
  <2>1. held' = held \ {m} /\ down' = down \ {ModOf[m]} /\ seen' = seen
    BY <1>5 DEF ModUp
  <2>2. HeldMods' \subseteq HeldMods /\ HeldMods \ {ModOf[m]} \subseteq HeldMods'
    BY <2>1 DEF HeldMods
  <2>3. TypeOK'
    BY <1>1, <2>1 DEF TypeOK, ring, reader
  <2>4. SeenInv'
    BY <1>1, <2>1, <2>2 DEF SeenInv
  <2>5. ModifiersHeld'
    BY <1>1, <2>1 DEF ModifiersHeld, reader
  <2> QED
    BY <1>2, <2>3, <2>4, <2>5
<1> QED
  BY <1>4, <1>5

LEMMA ReaderIInv == ASSUME IInv, Reader PROVE IInv'
<1> USE DEF IInv
<1>1. UNCHANGED <<buf, tail, e0, down, held, log, seen>>
  BY DEF Reader, Poll, Load, Advance, Unknown, Case, Modifier, Deliver, ring
<1>2. pc \in {"load", "advance"} => Len(log) > taken
  BY PendingFacts DEF FifoFaithful, TypeOK
<1>3. SeenInv'
  <2>1. taken' >= taken
    BY DEF Reader, Poll, Load, Advance, Unknown, Case, Modifier, Deliver, TypeOK
  <2> QED
    BY <1>1, <2>1 DEF SeenInv, HeldMods, TypeOK, Advance, Reader, Poll, Load, Unknown, Case,
                      Modifier, Deliver
<1>4. CASE Poll
  <2>1. Pending > 0
    BY <1>4, SizeAssumption DEF Poll, Pending, TypeOK, Ring
  <2> QED
    BY <1>3, <1>4, <2>1 DEF Poll, TypeOK, FifoFaithful, Pending, ModifiersHeld, Reading, ring
<1>5. CASE Load
  <2>1. 0 \in 0 .. Pending - 1 /\ Wrap(head + 0) = head /\ taken + 1 + 0 = taken + 1
    BY <1>5, PendingFacts, SizeAssumption DEF Load, FifoFaithful, Wrap, TypeOK, Ring
  <2>2. buf[head] = log[taken + 1]
    BY <2>1 DEF FifoFaithful
  <2>3. TypeOK'
    BY <1>5 DEF Load, TypeOK, ring
  <2> QED
    BY <1>3, <1>5, <2>2, <2>3
       DEF Load, TypeOK, FifoFaithful, Pending, ModifiersHeld, Reading, ring
<1>6. CASE Advance
  <2>1. Pending > 0 /\ head' = Wrap(head + 1) /\ taken' = taken + 1 /\ val' = val
    BY <1>6 DEF Advance, FifoFaithful
  <2>2. Pending' = Pending - 1
    BY <1>1, <2>1, SizeAssumption DEF TypeOK, Ring, Pending, Wrap
  <2>3. TypeOK'
    <3>1. head' \in Ring
      BY <2>1, SizeAssumption DEF TypeOK, Ring, Wrap
    <3>2. taken' \in Nat /\ turn' \in 1 .. Len(ModOrder)
      BY <1>6, <2>1, ModOrderFacts DEF Advance, TypeOK
    <3>3. upper' = FALSE /\ mods' = {} /\ pc' \in Reading
      BY <1>6 DEF Advance, Reading
    <3> QED
      BY <1>1, <2>1, <3>1, <3>2, <3>3 DEF TypeOK
  <2>4. ASSUME NEW j \in 0 .. Pending' - 1
        PROVE  buf'[Wrap(head' + j)] = log'[taken' + 1 + j]
    <3>1. j + 1 \in 0 .. Pending - 1 /\ Wrap(head' + j) = Wrap(head + (j + 1))
      BY <2>1, <2>2, <2>4, PendingFacts, SizeAssumption DEF TypeOK, Ring, Wrap, Pending
    <3>2. taken' + 1 + j = taken + 1 + (j + 1)
      BY <2>1 DEF TypeOK
    <3> QED
      BY <1>1, <3>1, <3>2 DEF FifoFaithful
  <2>5. FifoFaithful'
    <3>1. Pending' = Len(log') - taken'
      <4>1. Pending = Len(log) - taken /\ Len(log) \in Nat /\ taken \in Nat
        BY DEF FifoFaithful, TypeOK
      <4>2. Len(log') = Len(log)
        BY <1>1
      <4> QED
        BY <2>1, <2>2, <4>1, <4>2
    <3>2. pc' \notin {"load", "advance"}
      BY <1>6 DEF Advance
    <3>3. taken' > 0 /\ val' = log'[taken']
      BY <1>1, <1>6, <2>1 DEF Advance, FifoFaithful, TypeOK
    <3> QED
      BY <2>4, <3>1, <3>2, <3>3 DEF FifoFaithful
  <2>6. ModifiersHeld'
    BY <1>6 DEF Advance, ModifiersHeld
  <2> QED
    BY <1>3, <2>3, <2>5, <2>6
<1>7. CASE Unknown \/ Deliver
  <2>1. TypeOK'
    BY <1>7, ModOrderFacts DEF Unknown, Deliver, TypeOK, ring, Reading
  <2> QED
    BY <1>3, <1>7, <2>1
       DEF Unknown, Deliver, FifoFaithful, Pending, ModifiersHeld, Reading, ring
<1>8. CASE Case \/ Modifier
  <2>1. pc \in Reading /\ pc' \in Reading /\ UNCHANGED <<ring, val, taken>>
    BY <1>8 DEF Case, Modifier, Reading
  <2>2. down \subseteq seen[taken]
    BY <2>1, PendingFacts DEF SeenInv, FifoFaithful, TypeOK
  <2>3. TypeOK'
    <3>1. CASE Case
      <4>1. upper' \in BOOLEAN
        BY <3>1 DEF Case
      <4> QED
        BY <3>1, <4>1 DEF Case, TypeOK, ring, Reading
    <3>2. CASE Modifier
      BY <3>2, ModOrderFacts DEF Modifier, TypeOK, ring, Reading
    <3> QED
      BY <1>8, <3>1, <3>2
  <2>4. FifoFaithful'
    BY <1>1, <2>1 DEF FifoFaithful, Pending, ring, Reading
  <2>5. ModifiersHeld'
    BY <1>1, <1>8, <2>1, <2>2 DEF Case, Modifier, ModifiersHeld
  <2> QED
    BY <1>3, <2>3, <2>4, <2>5
<1> QED
  BY <1>4, <1>5, <1>6, <1>7, <1>8 DEF Reader

LEMMA StepIInv == IInv /\ [Next]_vars => IInv'
<1> SUFFICES ASSUME IInv, [Next]_vars PROVE IInv'
  OBVIOUS
<1>1. CASE Prefix \/ Release \/ UNCHANGED vars
  <2>1. UNCHANGED <<ring, down, reader, held, log, taken, seen>> /\ e0' \in BOOLEAN
    BY <1>1 DEF Prefix, Release, vars, IInv, TypeOK
  <2> QED
    BY <2>1 DEF IInv, ring, reader, TypeOK, FifoFaithful, Pending, SeenInv, HeldMods,
                ModifiersHeld
<1>2. ASSUME NEW c \in Codes, Press(c) PROVE IInv'
  BY <1>2, PressIInv
<1>3. ASSUME NEW m \in ModKeys, ModDown(m) \/ ModUp(m) PROVE IInv'
  BY <1>3, ModifierKeyIInv
<1>4. CASE Reader
  BY <1>4, ReaderIInv
<1> QED
  BY <1>1, <1>2, <1>3, <1>4 DEF Next, Irq1

(* The inductive invariant holds in every reachable state. *)
THEOREM IInvAlways == Spec => []IInv
  BY InitIInv, StepIInv, PTL DEF Spec

(* The ring indices stay in the ring and the reader's registers in their   *)
(* ranges.                                                                 *)
THEOREM TypeCorrect == Spec => []TypeOK
<1>1. IInv => TypeOK
  BY DEF IInv
<1> QED
  BY <1>1, IInvAlways, PTL

(* The ring is a queue for every size of at least two and any number of    *)
(* presses, with an interrupt between any two accesses of the reader.      *)
THEOREM QueueAlways == Spec => []FifoFaithful
<1>1. IInv => FifoFaithful
  BY DEF IInv
<1> QED
  BY <1>1, IInvAlways, PTL

(* A key is never delivered with a modifier that was not held since its    *)
(* press.                                                                  *)
THEOREM ModifiersAlways == Spec => []ModifiersHeld
<1>1. IInv => ModifiersHeld
  BY DEF IInv
<1> QED
  BY <1>1, IInvAlways, PTL
----------------------------------------------------------------------------
(* The editor (EditBuffer): names.                                         *)

(* The least of some numbers, by the well-foundedness of inclusion among   *)
(* the intervals below them.                                               *)
LEMMA LeastOf ==
  ASSUME NEW T \in SUBSET Nat, T # {}
  PROVE  \E x \in T : \A y \in T : x <= y
<1> DEFINE below(n) == 0 .. n
           D == {below(n) : n \in T}
           R == StrictSubsetOrdering(Nat)
           F == FiniteSubsetsOf(Nat)
<1>1. \A n \in Nat : below(n) \in F
  BY FS_Interval DEF FiniteSubsetsOf
<1>2. D \subseteq F /\ D # {}
  BY <1>1
<1>3. IsWellFoundedOn(R, F)
  BY FS_StrictSubsetOrderingWellFounded
<1>4. PICK d \in D : \A e \in D : <<e, d>> \notin R
  <2> HIDE DEF D, R, F
  <2> QED
    BY <1>2, <1>3, WFMin
<1>5. PICK x \in T : d = below(x)
  BY <1>4
<1>6. ASSUME NEW y \in T, y < x PROVE FALSE
  <2>1. below(y) \subseteq below(x) /\ x \in below(x) /\ x \notin below(y)
    BY <1>6
  <2>2. below(y) \in SUBSET Nat /\ below(x) \in SUBSET Nat
    OBVIOUS
  <2> HIDE DEF below
  <2>3. <<below(y), below(x)>> \in R
    BY <2>1, <2>2 DEF StrictSubsetOrdering
  <2>4. below(y) \in D
    OBVIOUS
  <2> QED
    BY <1>4, <1>5, <2>3, <2>4
<1> QED
  BY <1>6

LEMMA GreatestOf ==
  ASSUME NEW l \in Nat, NEW T \in SUBSET (1 .. l), T # {}
  PROVE  \E x \in T : \A y \in T : y <= x
<1> DEFINE D == {l - i : i \in T}
<1>1. D \in SUBSET Nat /\ D # {}
  <2>1. \A i \in T : i \in 1 .. l
    OBVIOUS
  <2>2. \A i \in T : l - i \in Nat
    BY <2>1
  <2> QED
    BY <2>2
<1>2. PICK d \in D : \A e \in D : d <= e
  <2> HIDE DEF D
  <2> QED
    BY <1>1, LeastOf
<1>3. PICK x \in T : d = l - x
  BY <1>2
<1>4. ASSUME NEW y \in T PROVE y <= x
  <2>1. y \in 1 .. l /\ x \in 1 .. l /\ d <= l - y
    BY <1>2
  <2> QED
    BY <1>3, <2>1
<1> QED
  BY <1>4

LEMMA ClipIs ==
  ASSUME NEW S, NEW s \in Seq(S), NEW n \in Nat
  PROVE  /\ Clip(s, n) \in Seq(S)
         /\ Len(Clip(s, n)) = IF Len(s) < n THEN Len(s) ELSE n
         /\ \A i \in 1 .. n : i <= Len(s) => Clip(s, n)[i] = s[i]
<1> DEFINE k == IF Len(s) < n THEN Len(s) ELSE n
<1>1. Len(s) \in Nat /\ k \in Nat /\ k <= Len(s) /\ k <= n
  BY LenProperties
<1>2. \A i \in 1 .. k : s[i] \in S
  BY <1>1, ElementOfSeq
<1>3. Clip(s, n) = SubSeq(s, 1, k)
  BY DEF Clip
<1>4. \A i \in 1 .. n : i <= Len(s) => i \in 1 .. k
  BY <1>1
<1> HIDE DEF k
<1>5. /\ SubSeq(s, 1, k) \in Seq(S) /\ Len(SubSeq(s, 1, k)) = k
      /\ \A i \in 1 .. k : SubSeq(s, 1, k)[i] = s[i]
  BY <1>1, <1>2, SubSeqProperties
<1> QED
  BY <1>3, <1>4, <1>5 DEF k

LEMMA PaddedIs ==
  ASSUME NEW S, Blank \in S, NEW n \in Nat, NEW s \in Seq(S), Len(s) <= n
  PROVE  /\ Padded(s, n) \in Seq(S) /\ Len(Padded(s, n)) = n
         /\ \A i \in 1 .. n : Padded(s, n)[i] = IF i <= Len(s) THEN s[i] ELSE Blank
<1> DEFINE pad == [i \in 1 .. n - Len(s) |-> Blank]
<1>1. Len(s) \in Nat /\ n - Len(s) \in Nat
  BY LenProperties
<1>2. pad \in [1 .. n - Len(s) -> S] /\ \A i \in 1 .. n - Len(s) : pad[i] = Blank
  OBVIOUS
<1>3. Padded(s, n) = s \o pad
  BY DEF Padded
<1> HIDE DEF pad
<1>4. pad \in Seq(S)
  BY <1>1, <1>2, SeqDef
<1>5. Len(pad) = n - Len(s)
  BY <1>1, <1>2, <1>4, LenProperties
<1>6. /\ s \o pad \in Seq(S) /\ Len(s \o pad) = Len(s) + Len(pad)
      /\ \A i \in 1 .. Len(s) + Len(pad) :
           (s \o pad)[i] = IF i <= Len(s) THEN s[i] ELSE pad[i - Len(s)]
  BY <1>4, ConcatProperties
<1>7. Len(s) + Len(pad) = n
  BY <1>1, <1>5
<1>8. ASSUME NEW i \in 1 .. n, ~(i <= Len(s)) PROVE pad[i - Len(s)] = Blank
  <2>1. i - Len(s) \in 1 .. n - Len(s)
    BY <1>1, <1>8
  <2> QED
    BY <1>2, <2>1
<1> QED
  BY <1>3, <1>6, <1>7, <1>8

(* A name's characters, and what packing makes of them. *)
Characters == Letters \cup {Upper(c) : c \in Letters}

LEMMA CharacterFacts ==
  /\ Dot \in Characters /\ Blank \in Characters /\ Blank # Dot
  /\ \A c \in Characters : Upper(c) \in Characters /\ Upper(Upper(c)) = Upper(c)
                             /\ (Upper(c) = Dot => c = Dot)
<1>1. Dot \in Letters /\ Blank \in Letters
  BY DEF Letters
<1>2. ASSUME NEW c \in Characters
      PROVE  Upper(c) \in Characters /\ Upper(Upper(c)) = Upper(c) /\ (Upper(c) = Dot => c = Dot)
  <2>1. CASE c \in Letters
    BY <2>1, UpperAssumption DEF Characters
  <2>2. CASE c \in {Upper(d) : d \in Letters}
    <3>1. PICK d \in Letters : c = Upper(d)
      BY <2>2
    <3>2. Upper(c) = c
      BY <3>1, UpperAssumption
    <3> QED
      BY <3>2
  <2> QED
    BY <2>1, <2>2 DEF Characters
<1> QED
  BY <1>1, <1>2, EditAssumption DEF Characters

LEMMA UpperedIs ==
  ASSUME NEW s \in Seq(Characters)
  PROVE  /\ Uppered(s) \in Seq(Characters) /\ Len(Uppered(s)) = Len(s)
         /\ \A i \in 1 .. Len(s) : Uppered(s)[i] = Upper(s[i])
<1>1. Len(s) \in Nat /\ DOMAIN s = 1 .. Len(s)
  BY LenProperties
<1>2. \A i \in 1 .. Len(s) : Upper(s[i]) \in Characters
  BY ElementOfSeq, CharacterFacts
<1>3. Uppered(s) = [i \in 1 .. Len(s) |-> Upper(s[i])]
  BY <1>1 DEF Uppered
<1>4. Uppered(s) \in [1 .. Len(s) -> Characters]
  BY <1>2, <1>3
<1>5. Uppered(s) \in Seq(Characters)
  BY <1>1, <1>4, SeqDef
<1> QED
  BY <1>1, <1>3, <1>4, <1>5, LenProperties

(* One half of a packed name: upper case, cut or padded. *)
LEMMA HalfIs ==
  ASSUME NEW s \in Seq(Characters), NEW n \in Nat
  PROVE  LET h == Padded(Uppered(Clip(s, n)), n) IN
         /\ h \in Seq(Characters) /\ Len(h) = n
         /\ \A i \in 1 .. n : h[i] = IF i <= Len(s) THEN Upper(s[i]) ELSE Blank
<1> DEFINE c == Clip(s, n)
           u == Uppered(c)
           h == Padded(u, n)
<1>1. Len(s) \in Nat
  BY LenProperties
<1>2. /\ c \in Seq(Characters) /\ Len(c) = (IF Len(s) < n THEN Len(s) ELSE n)
      /\ \A i \in 1 .. n : i <= Len(s) => c[i] = s[i]
  BY ClipIs
<1> HIDE DEF c
<1>3. /\ u \in Seq(Characters) /\ Len(u) = Len(c) /\ \A i \in 1 .. Len(c) : u[i] = Upper(c[i])
  BY <1>2, UpperedIs
<1> HIDE DEF u
<1>4. Len(u) <= n
  BY <1>1, <1>2, <1>3
<1>5. /\ h \in Seq(Characters) /\ Len(h) = n
      /\ \A i \in 1 .. n : h[i] = IF i <= Len(u) THEN u[i] ELSE Blank
  BY <1>3, <1>4, PaddedIs, CharacterFacts
<1> HIDE DEF h
<1>6. ASSUME NEW i \in 1 .. n PROVE h[i] = IF i <= Len(s) THEN Upper(s[i]) ELSE Blank
  <2>1. i <= Len(s) <=> i <= Len(u)
    BY <1>1, <1>2, <1>3
  <2>2. i <= Len(s) => i \in 1 .. Len(c)
    BY <1>1, <1>2
  <2> QED
    BY <1>2, <1>3, <1>5, <2>1, <2>2
<1> QED
  BY <1>5, <1>6 DEF h, u, c
(* What is packed: the letters before the first dot and those behind it. *)
FirstDot(n, d) ==
  /\ d \in 1 .. Len(n) + 1
  /\ d <= Len(n) => n[d] = Dot
  /\ \A i \in 1 .. Len(n) : i < d => n[i] # Dot

Packs(n, d, p) ==
  /\ p \in Seq(Characters) /\ Len(p) = BaseLen + ExtLen
  /\ \A i \in 1 .. BaseLen : p[i] = IF i < d THEN Upper(n[i]) ELSE Blank
  /\ \A j \in 1 .. ExtLen : p[BaseLen + j] = IF d + j <= Len(n) THEN Upper(n[d + j]) ELSE Blank

LEMMA LengthsAreNat == BaseLen \in Nat /\ ExtLen \in Nat /\ NameMax \in Nat /\ NameMax >= BaseLen + 1 + ExtLen
BY EditAssumption

LEMMA RestIs ==
  ASSUME NEW S, NEW s \in Seq(S), NEW a \in Nat \ {0}
  PROVE  /\ SubSeq(s, a, Len(s)) \in Seq(S)
         /\ Len(SubSeq(s, a, Len(s))) = IF a <= Len(s) THEN Len(s) - a + 1 ELSE 0
         /\ \A j \in 1 .. Len(s) - a + 1 : SubSeq(s, a, Len(s))[j] = s[a + j - 1]
<1>1. Len(s) \in Int /\ a \in Int
  BY LenProperties
<1>2. \A i \in a .. Len(s) : i \in 1 .. Len(s)
  BY <1>1
<1>3. \A i \in a .. Len(s) : s[i] \in S
  BY <1>2, ElementOfSeq
<1> QED
  BY <1>1, <1>3, SubSeqProperties

LEMMA PackAt ==
  ASSUME NEW n \in Seq(Characters),
         NEW d, FirstDot(n, d),
         d = IF Dots(n) = {} THEN Len(n) + 1
             ELSE CHOOSE i \in Dots(n) : \A j \in Dots(n) : i <= j
  PROVE  Packs(n, d, Pack(n))
<1> DEFINE m == IF d - 1 < BaseLen THEN d - 1 ELSE BaseLen
           b == Clip(n, m)
           B == Padded(Uppered(b), BaseLen)
           e == SubSeq(n, d + 1, Len(n))
           E == Padded(Uppered(Clip(e, ExtLen)), ExtLen)
<1>1. Pack(n) = B \o E
  BY DEF Pack
<1>2. Len(n) \in Nat /\ d \in Nat /\ d >= 1 /\ d <= Len(n) + 1 /\ m \in Nat /\ m <= BaseLen /\ m <= d - 1
  BY LenProperties, LengthsAreNat DEF FirstDot
<1>3. /\ e \in Seq(Characters)
      /\ \A j \in Nat : j >= 1 => (j <= Len(e) <=> d + j <= Len(n))
      /\ \A j \in 1 .. Len(e) : e[j] = n[d + j]
  <2> DEFINE a == d + 1
  <2>1. a \in Nat \ {0}
    BY <1>2
  <2>2. e = SubSeq(n, a, Len(n))
    OBVIOUS
  <2> HIDE DEF e, a
  <2>3. /\ e \in Seq(Characters)
        /\ Len(e) = IF a <= Len(n) THEN Len(n) - a + 1 ELSE 0
        /\ \A j \in 1 .. Len(n) - a + 1 : e[j] = n[a + j - 1]
    BY <2>1, <2>2, RestIs
  <2>4. \A j \in Nat : j >= 1 => (j <= Len(e) <=> d + j <= Len(n))
    BY SMTT(30), <1>2, <2>3 DEF a
  <2>5. ASSUME NEW j \in 1 .. Len(e) PROVE e[j] = n[d + j]
    <3>1. j \in 1 .. Len(n) - a + 1 /\ a + j - 1 = d + j
      BY <1>2, <2>3 DEF a
    <3> QED
      BY <2>3, <3>1
  <2> QED
    BY <2>3, <2>4, <2>5
<1>4. /\ E \in Seq(Characters) /\ Len(E) = ExtLen
      /\ \A j \in 1 .. ExtLen : E[j] = IF j <= Len(e) THEN Upper(e[j]) ELSE Blank
  <2> HIDE DEF e
  <2> QED
    BY <1>3, HalfIs, LengthsAreNat
<1> HIDE DEF E, e
<1>5. ASSUME NEW j \in 1 .. ExtLen
      PROVE  E[j] = IF d + j <= Len(n) THEN Upper(n[d + j]) ELSE Blank
  <2>1. j \in Nat /\ j >= 1
    OBVIOUS
  <2>2. j <= Len(e) <=> d + j <= Len(n)
    BY <1>3, <2>1
  <2>3. j <= Len(e) => j \in 1 .. Len(e)
    BY <1>3, <2>1, LenProperties
  <2> QED
    BY <1>3, <1>4, <2>2, <2>3
<1>6. /\ b \in Seq(Characters) /\ Len(b) = m /\ \A i \in 1 .. m : b[i] = n[i]
  <2>1. /\ b \in Seq(Characters) /\ Len(b) = (IF Len(n) < m THEN Len(n) ELSE m)
        /\ \A i \in 1 .. m : i <= Len(n) => b[i] = n[i]
    BY <1>2, ClipIs
  <2> HIDE DEF b, m
  <2> QED
    BY <1>2, <2>1
<1> HIDE DEF b
<1>7. /\ B \in Seq(Characters) /\ Len(B) = BaseLen
      /\ \A i \in 1 .. BaseLen : B[i] = IF i <= m THEN Upper(n[i]) ELSE Blank
  <2> HIDE DEF m
  <2> DEFINE u == Uppered(b)
  <2>1. /\ u \in Seq(Characters) /\ Len(u) = m /\ \A i \in 1 .. m : u[i] = Upper(n[i])
    BY <1>6, UpperedIs
  <2> HIDE DEF u
  <2>2. /\ Padded(u, BaseLen) \in Seq(Characters) /\ Len(Padded(u, BaseLen)) = BaseLen
        /\ \A i \in 1 .. BaseLen : Padded(u, BaseLen)[i] = IF i <= Len(u) THEN u[i] ELSE Blank
    BY <1>2, <2>1, PaddedIs, CharacterFacts, LengthsAreNat
  <2> QED
    BY SMTT(30), <1>2, <2>1, <2>2 DEF u
<1>8. \A i \in 1 .. BaseLen : i <= m <=> i < d
  BY <1>2, LengthsAreNat
<1> HIDE DEF B, m
<1>9. /\ B \o E \in Seq(Characters) /\ Len(B \o E) = Len(B) + Len(E)
      /\ \A i \in 1 .. Len(B) + Len(E) : (B \o E)[i] = IF i <= Len(B) THEN B[i] ELSE E[i - Len(B)]
  BY <1>4, <1>7, ConcatProperties
<1> DEFINE p == B \o E
<1> HIDE DEF p
<1>10. /\ p \in Seq(Characters) /\ Len(p) = BaseLen + ExtLen
       /\ \A i \in 1 .. BaseLen + ExtLen : p[i] = IF i <= BaseLen THEN B[i] ELSE E[i - BaseLen]
  BY <1>4, <1>7, <1>9 DEF p
<1>11. \A i \in 1 .. BaseLen : p[i] = B[i]
  BY <1>10, LengthsAreNat
<1>12. ASSUME NEW j \in 1 .. ExtLen PROVE p[BaseLen + j] = E[j]
  <2> DEFINE k == BaseLen + j
  <2>1. k \in 1 .. BaseLen + ExtLen /\ ~(k <= BaseLen) /\ k - BaseLen = j
    BY LengthsAreNat
  <2> HIDE DEF k
  <2>2. p[k] = E[j]
    BY <1>10, <2>1
  <2> QED
    BY <2>2 DEF k
<1>13. Packs(n, d, p)
  BY <1>5, <1>7, <1>8, <1>10, <1>11, <1>12 DEF Packs
<1> QED
  BY <1>1, <1>13 DEF p

LEMMA PackIs ==
  ASSUME NEW n \in Seq(Characters)
  PROVE  \E d : FirstDot(n, d) /\ Packs(n, d, Pack(n))
<1> DEFINE d == IF Dots(n) = {} THEN Len(n) + 1
                ELSE CHOOSE i \in Dots(n) : \A j \in Dots(n) : i <= j
<1>1. Len(n) \in Nat /\ Dots(n) \in SUBSET Nat /\ Dots(n) \subseteq 1 .. Len(n)
      /\ \A i \in 1 .. Len(n) : i \in Dots(n) <=> n[i] = Dot
  BY LenProperties DEF Dots
<1>2. FirstDot(n, d)
  <2>1. CASE Dots(n) = {}
    BY <1>1, <2>1 DEF FirstDot
  <2>2. CASE Dots(n) # {}
    <3>1. \E i \in Dots(n) : \A j \in Dots(n) : i <= j
      BY <1>1, <2>2, LeastOf
    <3>2. d \in Dots(n) /\ \A j \in Dots(n) : d <= j
      BY <2>2, <3>1
    <3> HIDE DEF d
    <3>3. ASSUME NEW i \in 1 .. Len(n), i < d PROVE n[i] # Dot
      BY <1>1, <3>2, <3>3
    <3> QED
      BY <1>1, <3>2, <3>3 DEF FirstDot
  <2> QED
    BY <2>1, <2>2
<1> QED
  BY <1>2, PackAt

(* The first dot is one. *)
LEMMA OneFirstDot ==
  ASSUME NEW n \in Seq(Characters), NEW d, NEW e, FirstDot(n, d), FirstDot(n, e)
  PROVE  d = e
BY LenProperties DEF FirstDot
(* Trailing blanks are dropped, and only those. *)
LEMMA TrimmedIs ==
  ASSUME NEW S, NEW s \in Seq(S)
  PROVE  \E k \in 0 .. Len(s) :
           /\ Trimmed(s) \in Seq(S) /\ Len(Trimmed(s)) = k
           /\ \A i \in 1 .. k : Trimmed(s)[i] = s[i]
           /\ \A i \in 1 .. Len(s) : i > k => s[i] = Blank
           /\ k > 0 => s[k] # Blank
<1> DEFINE used == {i \in DOMAIN s : s[i] # Blank}
           k == IF used = {} THEN 0 ELSE CHOOSE i \in used : \A j \in used : j <= i
<1>1. Len(s) \in Nat /\ DOMAIN s = 1 .. Len(s)
  BY LenProperties
<1>2. Trimmed(s) = Clip(s, k)
  BY DEF Trimmed
<1>3. /\ k \in 0 .. Len(s) /\ (k > 0 => s[k] # Blank)
      /\ \A i \in 1 .. Len(s) : i > k => s[i] = Blank
  <2>1. CASE used = {}
    BY <1>1, <2>1
  <2>2. CASE used # {}
    <3>1. used \in SUBSET (1 .. Len(s))
      BY <1>1
    <3>2. \E i \in used : \A j \in used : j <= i
      <4> HIDE DEF used
      <4> QED
        BY <1>1, <2>2, <3>1, GreatestOf
    <3>3. k \in used /\ \A j \in used : j <= k
      BY <2>2, <3>2
    <3>4. k \in 1 .. Len(s) /\ s[k] # Blank
      BY <3>1, <3>3
    <3>5. \A i \in 1 .. Len(s) : i > k => i \notin used
      <4> HIDE DEF k, used
      <4> QED
        BY <3>3, <3>4
    <3> HIDE DEF k
    <3> QED
      BY <1>1, <3>4, <3>5
  <2> QED
    BY <2>1, <2>2
<1> HIDE DEF k
<1>4. /\ Clip(s, k) \in Seq(S) /\ Len(Clip(s, k)) = k /\ \A i \in 1 .. k : Clip(s, k)[i] = s[i]
  <2>1. /\ Clip(s, k) \in Seq(S) /\ Len(Clip(s, k)) = (IF Len(s) < k THEN Len(s) ELSE k)
        /\ \A i \in 1 .. k : i <= Len(s) => Clip(s, k)[i] = s[i]
    <3>1. k \in Nat
      BY <1>1, <1>3
    <3> QED
      BY <3>1, ClipIs
  <2> DEFINE c == Clip(s, k)
  <2> HIDE DEF c
  <2>2. k \in Nat /\ k <= Len(s)
    BY <1>1, <1>3
  <2>3. c \in Seq(S) /\ Len(c) = (IF Len(s) < k THEN Len(s) ELSE k)
        /\ \A i \in 1 .. k : i <= Len(s) => c[i] = s[i]
    BY <2>1 DEF c
  <2>4. Len(c) = k /\ \A i \in 1 .. k : i <= Len(s)
    <3> DEFINE n == Len(s)
    <3>1. n \in Nat /\ k \in Nat /\ k <= n /\ Len(c) = (IF n < k THEN n ELSE k)
      BY <1>1, <2>2, <2>3
    <3> HIDE DEF n, c, k
    <3>2. Len(c) = k /\ \A i \in 1 .. k : i <= n
      BY <3>1
    <3> QED
      BY <3>2 DEF n
  <2>5. \A i \in 1 .. k : c[i] = s[i]
    <3> HIDE DEF c, k
    <3> QED
      BY <2>3, <2>4
  <2> QED
    BY <2>3, <2>4, <2>5 DEF c
<1> QED
  BY <1>2, <1>3, <1>4

(* A name as it is listed: the letters of each half, and a dot between     *)
(* them if the second has any.                                             *)
Lists(p, b, e, n) ==
  /\ n \in Seq(Characters)
  /\ b \in 0 .. BaseLen /\ e \in 0 .. ExtLen
  /\ Len(n) = IF e = 0 THEN b ELSE b + 1 + e
  /\ \A i \in 1 .. b : n[i] = p[i]
  /\ e > 0 => n[b + 1] = Dot /\ \A j \in 1 .. e : n[b + 1 + j] = p[BaseLen + j]
  /\ \A i \in 1 .. BaseLen : i > b => p[i] = Blank
  /\ \A j \in 1 .. ExtLen : j > e => p[BaseLen + j] = Blank
  /\ b > 0 => p[b] # Blank
  /\ e > 0 => p[BaseLen + e] # Blank

LEMMA UnpackIs ==
  ASSUME NEW p \in Seq(Characters), Len(p) = BaseLen + ExtLen
  PROVE  \E b, e : Lists(p, b, e, Unpack(p))
<1> USE LengthsAreNat
<1> DEFINE base == Clip(p, BaseLen)
           tail0 == SubSeq(p, BaseLen + 1, BaseLen + ExtLen)
           B == Trimmed(base)
           E == Trimmed(tail0)
<1>1. /\ base \in Seq(Characters) /\ Len(base) = BaseLen
      /\ \A i \in 1 .. BaseLen : base[i] = p[i]
  <2>1. /\ base \in Seq(Characters) /\ Len(base) = (IF Len(p) < BaseLen THEN Len(p) ELSE BaseLen)
        /\ \A i \in 1 .. BaseLen : i <= Len(p) => base[i] = p[i]
    BY ClipIs
  <2> HIDE DEF base
  <2> QED
    BY <2>1
<1>2. /\ tail0 \in Seq(Characters) /\ Len(tail0) = ExtLen
      /\ \A j \in 1 .. ExtLen : tail0[j] = p[BaseLen + j]
  <2> DEFINE a == BaseLen + 1
  <2>1. a \in Nat \ {0} /\ tail0 = SubSeq(p, a, Len(p))
    OBVIOUS
  <2> HIDE DEF tail0, a
  <2>2. /\ tail0 \in Seq(Characters)
        /\ Len(tail0) = IF a <= Len(p) THEN Len(p) - a + 1 ELSE 0
        /\ \A j \in 1 .. Len(p) - a + 1 : tail0[j] = p[a + j - 1]
    BY <2>1, RestIs
  <2>3. Len(tail0) = ExtLen
    BY <2>2 DEF a
  <2>4. ASSUME NEW j \in 1 .. ExtLen PROVE tail0[j] = p[BaseLen + j]
    <3>1. j \in 1 .. Len(p) - a + 1 /\ a + j - 1 = BaseLen + j
      BY DEF a
    <3> QED
      BY <2>2, <3>1
  <2> QED
    BY <2>2, <2>3, <2>4
<1>3. Unpack(p) = B \o (IF E = << >> THEN << >> ELSE <<Dot>> \o E)
  BY DEF Unpack
<1> HIDE DEF base, tail0
<1>4. PICK b \in 0 .. Len(base) :
           /\ B \in Seq(Characters) /\ Len(B) = b
           /\ \A i \in 1 .. b : B[i] = base[i]
           /\ \A i \in 1 .. Len(base) : i > b => base[i] = Blank
           /\ b > 0 => base[b] # Blank
  BY <1>1, TrimmedIs
<1>5. PICK e \in 0 .. Len(tail0) :
           /\ E \in Seq(Characters) /\ Len(E) = e
           /\ \A i \in 1 .. e : E[i] = tail0[i]
           /\ \A i \in 1 .. Len(tail0) : i > e => tail0[i] = Blank
           /\ e > 0 => tail0[e] # Blank
  BY <1>2, TrimmedIs
<1> HIDE DEF B, E
<1>6. b \in 0 .. BaseLen /\ e \in 0 .. ExtLen
  BY <1>1, <1>2, <1>4, <1>5
<1>7. \A i \in 1 .. b : B[i] = p[i]
  BY <1>1, <1>4, <1>6
<1>8. \A j \in 1 .. e : E[j] = p[BaseLen + j]
  BY <1>2, <1>5, <1>6
<1>9. /\ \A i \in 1 .. BaseLen : i > b => p[i] = Blank
      /\ b > 0 => p[b] # Blank
  <2>1. b > 0 => b \in 1 .. BaseLen
    BY <1>6
  <2> QED
    BY <1>1, <1>4, <2>1
<1>10. /\ \A j \in 1 .. ExtLen : j > e => p[BaseLen + j] = Blank
       /\ e > 0 => p[BaseLen + e] # Blank
  <2>1. e > 0 => e \in 1 .. ExtLen
    BY <1>6
  <2> QED
    BY <1>2, <1>5, <2>1
<1> DEFINE n == Unpack(p)
<1>11. CASE e = 0
  <2>1. E = << >>
    BY <1>5, <1>11, EmptySeq
  <2>2. n = B
    <3>1. n = B \o << >>
      BY <1>3, <2>1
    <3> QED
      BY <1>4, <3>1, ConcatEmptySeq
  <2> HIDE DEF n
  <2>3. Lists(p, b, e, n)
    BY <1>4, <1>6, <1>7, <1>9, <1>10, <1>11, <2>2 DEF Lists
  <2> QED
    BY <2>3 DEF n
<1>12. CASE e > 0
  <2>1. E # << >>
    BY <1>5, <1>12, EmptySeq
  <2> DEFINE D == <<Dot>>
             F == D \o E
  <2>2. n = B \o F
    BY <1>3, <2>1
  <2>3. D \in Seq(Characters) /\ Len(D) = 1 /\ D[1] = Dot
    BY CharacterFacts
  <2> HIDE DEF D
  <2>4. /\ F \in Seq(Characters) /\ Len(F) = 1 + e
        /\ \A j \in 1 .. 1 + e : F[j] = IF j <= 1 THEN D[j] ELSE E[j - 1]
    <3>1. /\ D \o E \in Seq(Characters) /\ Len(D \o E) = Len(D) + Len(E)
          /\ \A i \in 1 .. Len(D) + Len(E) :
               (D \o E)[i] = IF i <= Len(D) THEN D[i] ELSE E[i - Len(D)]
      BY <1>5, <2>3, ConcatProperties
    <3> QED
      BY <1>5, <2>3, <3>1
  <2> HIDE DEF F
  <2>5. F[1] = Dot
    BY SMTT(30), <1>6, <2>3, <2>4
  <2>6. ASSUME NEW j \in 1 .. e PROVE F[1 + j] = E[j]
    <3> DEFINE k == 1 + j
    <3>1. k \in 1 .. 1 + e /\ ~(k <= 1) /\ k - 1 = j
      BY <1>6
    <3> HIDE DEF k
    <3>2. F[k] = E[j]
      BY <2>4, <3>1
    <3> QED
      BY <3>2 DEF k
  <2> HIDE DEF n
  <2>7. /\ n \in Seq(Characters) /\ Len(n) = b + (1 + e)
        /\ \A i \in 1 .. b + (1 + e) : n[i] = IF i <= b THEN B[i] ELSE F[i - b]
    <3>1. /\ B \o F \in Seq(Characters) /\ Len(B \o F) = Len(B) + Len(F)
          /\ \A i \in 1 .. Len(B) + Len(F) :
               (B \o F)[i] = IF i <= Len(B) THEN B[i] ELSE F[i - Len(B)]
      BY <1>4, <2>4, ConcatProperties
    <3> QED
      BY <1>4, <2>2, <2>4, <3>1
  <2>8. \A i \in 1 .. b : n[i] = p[i]
    BY <1>6, <1>7, <2>7
  <2>9. ASSUME NEW j \in 1 .. 1 + e PROVE n[b + j] = F[j]
    <3> DEFINE k == b + j
    <3>1. k \in 1 .. b + (1 + e) /\ ~(k <= b) /\ k - b = j
      BY <1>6
    <3> HIDE DEF k
    <3>2. n[k] = F[j]
      BY <2>7, <3>1
    <3> QED
      BY <3>2 DEF k
  <2>10. n[b + 1] = Dot
    BY <1>6, <2>5, <2>9
  <2>11. ASSUME NEW j \in 1 .. e PROVE n[b + 1 + j] = p[BaseLen + j]
    <3>1. 1 + j \in 1 .. 1 + e /\ b + (1 + j) = b + 1 + j
      BY <1>6
    <3> QED
      BY <1>8, <2>6, <2>9, <3>1
  <2>12. Len(n) = IF e = 0 THEN b ELSE b + 1 + e
    BY <1>6, <1>12, <2>7
  <2>13. Lists(p, b, e, n)
    BY <1>6, <1>9, <1>10, <2>7, <2>8, <2>10, <2>11, <2>12 DEF Lists
  <2> QED
    BY <2>13 DEF n
<1> QED
  BY <1>6, <1>11, <1>12
(* What a name is packed to, listed and packed again: the same entry, for  *)
(* every name.                                                             *)
LEMMA PackedAgain ==
  ASSUME NEW n \in Seq(Characters), NEW p, p = Pack(n), NEW back, back = Unpack(p)
  PROVE  /\ Len(p) = BaseLen + ExtLen /\ Pack(back) = p /\ Len(back) <= NameMax
         /\ back = << >> <=> \A i \in DOMAIN p : p[i] = Blank
<1> USE LengthsAreNat
<1>1. PICK d : FirstDot(n, d) /\ Packs(n, d, p)
  BY PackIs
<1>2. p \in Seq(Characters) /\ Len(p) = BaseLen + ExtLen /\ DOMAIN p = 1 .. BaseLen + ExtLen
  BY <1>1, LenProperties DEF Packs
<1>3. PICK b, e : Lists(p, b, e, back)
  BY <1>2, UnpackIs
<1>4. /\ back \in Seq(Characters) /\ b \in Nat /\ b <= BaseLen /\ e \in Nat /\ e <= ExtLen
      /\ Len(back) = IF e = 0 THEN b ELSE b + 1 + e
  BY <1>3 DEF Lists
<1>5. PICK f : FirstDot(back, f) /\ Packs(back, f, Pack(back))
  BY <1>4, PackIs
<1>6. Len(n) \in Nat /\ d \in Nat /\ d >= 1 /\ d <= Len(n) + 1
  BY <1>1, LenProperties DEF FirstDot
(* Both halves are in upper case, and the first has no dot. *)
<1>7. ASSUME NEW i \in 1 .. BaseLen PROVE Upper(p[i]) = p[i] /\ p[i] # Dot
  <2>1. CASE i < d
    <3>1. i \in 1 .. Len(n)
      BY <1>6, <2>1
    <3>2. n[i] \in Characters /\ n[i] # Dot
      BY <1>1, <2>1, <3>1, ElementOfSeq DEF FirstDot
    <3>3. p[i] = Upper(n[i])
      BY <1>1, <2>1 DEF Packs
    <3> QED
      BY <3>2, <3>3, CharacterFacts
  <2>2. CASE ~(i < d)
    <3>1. p[i] = Blank
      BY <1>1, <2>2 DEF Packs
    <3> QED
      BY <3>1, CharacterFacts, UpperAssumption
  <2> QED
    BY <2>1, <2>2
<1>8. ASSUME NEW j \in 1 .. ExtLen PROVE Upper(p[BaseLen + j]) = p[BaseLen + j]
  <2>1. CASE d + j <= Len(n)
    <3> DEFINE k == d + j
    <3>1. k \in 1 .. Len(n)
      BY <1>6, <2>1
    <3> HIDE DEF k
    <3>2. n[k] \in Characters
      BY <3>1, ElementOfSeq
    <3>3. p[BaseLen + j] = Upper(n[k])
      BY <1>1, <2>1 DEF Packs, k
    <3> QED
      BY <3>2, <3>3, CharacterFacts
  <2>2. CASE ~(d + j <= Len(n))
    <3>1. p[BaseLen + j] = Blank
      BY <1>1, <2>2 DEF Packs
    <3> QED
      BY <3>1, UpperAssumption
  <2> QED
    BY <2>1, <2>2
<1>9. f = b + 1
  <2>1. \A i \in 1 .. b : back[i] # Dot
    BY <1>3, <1>4, <1>7 DEF Lists
  <2>2. e > 0 => back[b + 1] = Dot
    BY <1>3 DEF Lists
  <2>3. FirstDot(back, b + 1)
    <3>1. b + 1 \in 1 .. Len(back) + 1
      BY <1>4
    <3>2. b + 1 <= Len(back) => e > 0
      BY <1>4
    <3>3. \A i \in 1 .. Len(back) : i < b + 1 => i \in 1 .. b
      BY <1>4
    <3> QED
      BY <2>1, <2>2, <3>1, <3>2, <3>3 DEF FirstDot
  <2> QED
    BY <1>4, <1>5, <2>3, OneFirstDot
<1> DEFINE q == Pack(back)
<1>10. /\ q \in Seq(Characters) /\ Len(q) = BaseLen + ExtLen
       /\ \A i \in 1 .. BaseLen : q[i] = IF i < b + 1 THEN Upper(back[i]) ELSE Blank
       /\ \A j \in 1 .. ExtLen :
            q[BaseLen + j] = IF b + 1 + j <= Len(back) THEN Upper(back[b + 1 + j]) ELSE Blank
  BY <1>5, <1>9 DEF Packs
<1> HIDE DEF q
<1>11. ASSUME NEW i \in 1 .. BaseLen PROVE q[i] = p[i]
  <2>1. CASE i <= b
    <3>1. i < b + 1 /\ i \in 1 .. b
      BY <1>4, <2>1
    <3>2. back[i] = p[i]
      BY <1>3, <3>1 DEF Lists
    <3> QED
      BY <1>7, <1>10, <3>1, <3>2
  <2>2. CASE i > b
    <3>1. ~(i < b + 1)
      BY <1>4, <2>2
    <3>2. p[i] = Blank
      BY <1>3, <2>2 DEF Lists
    <3> QED
      BY <1>10, <3>1, <3>2
  <2> QED
    BY <1>4, <2>1, <2>2
<1>12. ASSUME NEW j \in 1 .. ExtLen PROVE q[BaseLen + j] = p[BaseLen + j]
  <2>1. CASE j <= e
    <3>1. e > 0 /\ j \in 1 .. e /\ b + 1 + j <= Len(back)
      BY <1>4, <2>1
    <3>2. back[b + 1 + j] = p[BaseLen + j]
      BY <1>3, <3>1 DEF Lists
    <3> QED
      BY <1>8, <1>10, <3>1, <3>2
  <2>2. CASE j > e
    <3>1. ~(b + 1 + j <= Len(back))
      BY <1>4, <2>2
    <3>2. p[BaseLen + j] = Blank
      BY <1>3, <2>2 DEF Lists
    <3> QED
      BY <1>10, <3>1, <3>2
  <2> QED
    BY <1>4, <2>1, <2>2
<1>13. ASSUME NEW i \in 1 .. BaseLen + ExtLen PROVE q[i] = p[i]
  <2>1. CASE i <= BaseLen
    BY <1>11, <2>1
  <2>2. CASE ~(i <= BaseLen)
    <3> DEFINE j == i - BaseLen
    <3>1. j \in 1 .. ExtLen /\ BaseLen + j = i
      BY <2>2
    <3> HIDE DEF j
    <3> QED
      BY <1>12, <3>1
  <2> QED
    BY <2>1, <2>2
<1>14. q = p
  BY <1>2, <1>10, <1>13, SeqEqual
<1>15. Len(back) <= NameMax
  BY <1>4
<1>16. back = << >> <=> b = 0 /\ e = 0
  <2>1. back = << >> <=> Len(back) = 0
    BY <1>4, EmptySeq
  <2> QED
    BY <1>4, <2>1
<1>17. b = 0 /\ e = 0 => \A i \in DOMAIN p : p[i] = Blank
  <2> SUFFICES ASSUME b = 0, e = 0, NEW i \in 1 .. BaseLen + ExtLen PROVE p[i] = Blank
    BY <1>2
  <2>1. CASE i <= BaseLen
    BY <1>3, <2>1 DEF Lists
  <2>2. CASE ~(i <= BaseLen)
    <3> DEFINE j == i - BaseLen
    <3>1. j \in 1 .. ExtLen /\ BaseLen + j = i /\ j > e
      BY <2>2
    <3> HIDE DEF j
    <3>2. p[BaseLen + j] = Blank
      BY <1>3, <3>1 DEF Lists
    <3> QED
      BY <3>1, <3>2
  <2> QED
    BY <2>1, <2>2
<1>18. (\A i \in DOMAIN p : p[i] = Blank) => b = 0 /\ e = 0
  <2>1. b > 0 => b \in DOMAIN p /\ p[b] # Blank
    BY <1>2, <1>3, <1>4 DEF Lists
  <2>2. e > 0 => BaseLen + e \in DOMAIN p /\ p[BaseLen + e] # Blank
    BY <1>2, <1>3, <1>4 DEF Lists
  <2> QED
    BY <1>4, <2>1, <2>2
<1> QED
  BY <1>2, <1>14, <1>15, <1>16, <1>17, <1>18 DEF q
----------------------------------------------------------------------------
(* The editor: lines, the caret and the window.                            *)

LEMMA NewlinesFinite ==
  ASSUME NEW t, NEW n \in Nat
  PROVE  /\ IsFiniteSet(Newlines(t, n)) /\ Cardinality(Newlines(t, n)) \in Nat
         /\ Cardinality(Newlines(t, n)) <= n
         /\ Newlines(t, 0) = {} /\ Cardinality(Newlines(t, 0)) = 0
<1>1. IsFiniteSet(1 .. n) /\ Cardinality(1 .. n) = n /\ Newlines(t, n) \in SUBSET (1 .. n)
  BY FS_Interval DEF Newlines
<1>2. Newlines(t, 0) = {}
  BY DEF Newlines
<1> QED
  BY <1>1, <1>2, FS_Subset, FS_CardinalityType, FS_EmptySet

LEMMA NewlinesNext ==
  ASSUME NEW t, NEW n \in Nat
  PROVE  Cardinality(Newlines(t, n + 1)) =
           IF t[n + 1] = Newline THEN Cardinality(Newlines(t, n)) + 1
           ELSE Cardinality(Newlines(t, n))
<1>1. Newlines(t, n + 1) =
        IF t[n + 1] = Newline THEN Newlines(t, n) \cup {n + 1} ELSE Newlines(t, n)
  BY DEF Newlines
<1>2. n + 1 \notin Newlines(t, n)
  BY DEF Newlines
<1> QED
  BY <1>1, <1>2, NewlinesFinite, FS_AddElement

LEMMA NewlinesGrow ==
  ASSUME NEW t, NEW m \in Nat, NEW n \in Nat, m <= n
  PROVE  /\ Cardinality(Newlines(t, m)) <= Cardinality(Newlines(t, n))
         /\ \A k \in 1 .. n : k > m /\ t[k] = Newline
              => Cardinality(Newlines(t, m)) < Cardinality(Newlines(t, n))
<1> DEFINE M == Newlines(t, m)
           N == Newlines(t, n)
<1>1. M \in SUBSET N
  BY DEF Newlines
<1>2. IsFiniteSet(N) /\ Cardinality(M) \in Nat /\ Cardinality(N) \in Nat
  BY NewlinesFinite
<1>3. Cardinality(M) <= Cardinality(N) /\ (Cardinality(M) = Cardinality(N) => M = N)
  <2> HIDE DEF M, N
  <2> QED
    BY <1>1, <1>2, FS_Subset
<1>4. ASSUME NEW k \in 1 .. n, k > m, t[k] = Newline PROVE k \in N /\ k \notin M
  BY <1>4 DEF Newlines
<1> HIDE DEF M, N
<1>5. \A k \in 1 .. n : k > m /\ t[k] = Newline => Cardinality(M) < Cardinality(N)
  BY <1>2, <1>3, <1>4
<1> QED
  BY <1>3, <1>5 DEF M, N

LEMMA LineOfIs ==
  ASSUME NEW S, NEW t \in Seq(S), NEW off \in 0 .. Len(t)
  PROVE  LineOf(t, off) = Cardinality(Newlines(t, off)) /\ LineOf(t, off) \in Nat
<1>1. off \in Nat /\ ~(off > Len(t))
  BY LenProperties
<1> QED
  BY <1>1, NewlinesFinite DEF LineOf

(* Up to the line an offset is on, every line begins, at or before it. *)
LEMMA LineStarts ==
  ASSUME NEW S, NEW t \in Seq(S), NEW off \in 0 .. Len(t), NEW l \in Int, l <= LineOf(t, off)
  PROVE  LineStart(t, l) \in 0 .. off
<1>1. Len(t) \in Nat /\ off \in Nat /\ off <= Len(t)
      /\ LineOf(t, off) = Cardinality(Newlines(t, off))
  BY LenProperties, LineOfIs
<1>2. CASE l <= 0
  BY <1>1, <1>2 DEF LineStart
<1>3. CASE l > 0
  <2> DEFINE T == {i \in 0 .. off : l <= Cardinality(Newlines(t, i))}
  <2>1. T \in SUBSET Nat /\ off \in T
    BY <1>1
  <2>2. PICK x \in T : \A y \in T : x <= y
    <3> HIDE DEF T
    <3> QED
      BY <2>1, LeastOf
  <2>3. x \in 1 .. off
    BY <1>1, <1>3, <2>2, NewlinesFinite
  <2> DEFINE p == x - 1
  <2>4. p \in Nat /\ p + 1 = x /\ p \notin T /\ p \in 0 .. off
    BY <1>1, <2>2, <2>3
  <2>5. ~(l <= Cardinality(Newlines(t, p))) /\ l <= Cardinality(Newlines(t, x))
    BY <2>2, <2>4
  <2> HIDE DEF p, T
  <2>6. t[x] = Newline /\ Cardinality(Newlines(t, x)) = l
    BY <1>3, <2>4, <2>5, NewlinesNext, NewlinesFinite
  <2>7. x \in Newlines(t, Len(t)) /\ LineOf(t, x) = l
    <3>1. x \in 1 .. Len(t) /\ x \in 0 .. Len(t)
      BY <1>1, <2>3
    <3>2. x \in Newlines(t, Len(t))
      BY <2>6, <3>1 DEF Newlines
    <3> QED
      BY <2>6, <3>1, <3>2, LineOfIs
  <2> DEFINE s == LineStart(t, l)
  <2>8. s \in Newlines(t, Len(t)) /\ LineOf(t, s) = l
    BY <1>3, <2>7 DEF LineStart
  <2> HIDE DEF s
  <2>9. s \in 1 .. Len(t) /\ t[s] = Newline /\ Cardinality(Newlines(t, s)) = l
    <3>1. s \in 1 .. Len(t) /\ t[s] = Newline
      BY <2>8 DEF Newlines
    <3>2. s \in 0 .. Len(t)
      BY <1>1, <3>1
    <3> QED
      BY <2>8, <3>1, <3>2, LineOfIs
  <2>10. s > off => Cardinality(Newlines(t, off)) < Cardinality(Newlines(t, s))
    BY <1>1, <2>9, NewlinesGrow
  <2>11. s <= off
    BY <1>1, <2>9, <2>10, NewlinesFinite
  <2> QED
    BY <1>1, <2>9, <2>11 DEF s
<1> QED
  BY <1>2, <1>3

LEMMA LineStartRange ==
  ASSUME NEW S, NEW t \in Seq(S), NEW l \in Int
  PROVE  LineStart(t, l) \in -1 .. Len(t)
<1>1. Len(t) \in Nat
  BY LenProperties
<1>2. CASE \E i \in Newlines(t, Len(t)) : LineOf(t, i) = l
  <2>1. (CHOOSE i \in Newlines(t, Len(t)) : LineOf(t, i) = l) \in 1 .. Len(t)
    BY <1>2 DEF Newlines
  <2> QED
    BY <1>1, <1>2, <2>1 DEF LineStart
<1>3. CASE ~ \E i \in Newlines(t, Len(t)) : LineOf(t, i) = l
  BY <1>1, <1>3 DEF LineStart
<1> QED
  BY <1>2, <1>3

LEMMA LineEnds ==
  ASSUME NEW S, NEW t \in Seq(S), NEW off \in 0 .. Len(t)
  PROVE  LineEnd(t, off) \in off .. Len(t)
<1> DEFINE ends == {i \in off .. Len(t) - 1 : t[i + 1] = Newline}
<1>1. Len(t) \in Nat /\ ends \in SUBSET Nat
  BY LenProperties
<1>2. CASE ends = {}
  BY <1>1, <1>2 DEF LineEnd
<1>3. CASE ends # {}
  <2>1. \E i \in ends : \A j \in ends : i <= j
    <3> HIDE DEF ends
    <3> QED
      BY <1>1, <1>3, LeastOf
  <2>2. (CHOOSE i \in ends : \A j \in ends : i <= j) \in ends
    BY <2>1
  <2>3. LineEnd(t, off) = CHOOSE i \in ends : \A j \in ends : i <= j
    BY <1>3 DEF LineEnd
  <2>4. LineEnd(t, off) \in ends
    BY <2>2, <2>3
  <2> QED
    BY <1>1, <2>4
<1> QED
  BY <1>2, <1>3

LEMMA NearestInside ==
  ASSUME NEW S, text \in Seq(S), NEW start \in 0 .. Len(text), NEW c \in Nat
  PROVE  Nearest(start, c) \in 0 .. Len(text)
<1>1. Len(text) \in Nat /\ LineEnd(text, start) \in start .. Len(text)
  BY LenProperties, LineEnds
<1> QED
  BY <1>1 DEF Nearest

(* Inserting and deleting a character. *)
LEMMA PieceIs ==
  ASSUME NEW S, NEW t \in Seq(S), NEW a \in 1 .. Len(t) + 2, NEW b \in 0 .. Len(t)
  PROVE  /\ SubSeq(t, a, b) \in Seq(S)
         /\ Len(SubSeq(t, a, b)) = IF a <= b THEN b - a + 1 ELSE 0
         /\ \A j \in 1 .. b - a + 1 : SubSeq(t, a, b)[j] = t[a + j - 1]
<1>1. Len(t) \in Nat /\ a \in Int /\ b \in Int
  BY LenProperties
<1>2. \A i \in a .. b : i \in 1 .. Len(t)
  BY <1>1
<1>3. \A i \in a .. b : t[i] \in S
  BY <1>2, ElementOfSeq
<1> QED
  BY <1>1, <1>3, SubSeqProperties

LEMMA InsertedIs ==
  ASSUME NEW S, NEW t \in Seq(S), NEW off \in 0 .. Len(t), NEW c \in S
  PROVE  Inserted(t, off, c) \in Seq(S) /\ Len(Inserted(t, off, c)) = Len(t) + 1
<1> DEFINE a == SubSeq(t, 1, off)
           m == <<c>>
           b == SubSeq(t, off + 1, Len(t))
<1>1. Len(t) \in Nat /\ off \in Nat /\ 1 \in 1 .. Len(t) + 2 /\ off + 1 \in 1 .. Len(t) + 2
      /\ Len(t) \in 0 .. Len(t)
  BY LenProperties
<1>2. a \in Seq(S) /\ Len(a) = off
  <2>1. a \in Seq(S) /\ Len(a) = IF 1 <= off THEN off - 1 + 1 ELSE 0
    BY <1>1, PieceIs
  <2> HIDE DEF a
  <2> QED
    BY <1>1, <2>1
<1>3. b \in Seq(S) /\ Len(b) = Len(t) - off
  <2> DEFINE o == off + 1
  <2>1. o \in 1 .. Len(t) + 2 /\ b = SubSeq(t, o, Len(t))
    BY <1>1
  <2> HIDE DEF o, b
  <2>2. b \in Seq(S) /\ Len(b) = IF o <= Len(t) THEN Len(t) - o + 1 ELSE 0
    BY <1>1, <2>1, PieceIs
  <2> QED
    BY <1>1, <2>2 DEF o
<1>4. m \in Seq(S) /\ Len(m) = 1
  OBVIOUS
<1> HIDE DEF a, b, m
<1>5. a \o m \in Seq(S) /\ Len(a \o m) = off + 1
  BY SMTT(30), <1>2, <1>4, ConcatProperties
<1>6. (a \o m) \o b \in Seq(S) /\ Len((a \o m) \o b) = Len(a \o m) + Len(b)
  BY <1>3, <1>5, ConcatProperties
<1>7. Len((a \o m) \o b) = Len(t) + 1
  BY <1>1, <1>3, <1>5, <1>6
<1> QED
  BY <1>6, <1>7 DEF Inserted, a, m, b

LEMMA DeletedIs ==
  ASSUME NEW S, NEW t \in Seq(S), NEW off \in 0 .. Len(t) - 1
  PROVE  Deleted(t, off) \in Seq(S) /\ Len(Deleted(t, off)) = Len(t) - 1
<1> DEFINE a == SubSeq(t, 1, off)
           b == SubSeq(t, off + 2, Len(t))
<1>1. Len(t) \in Nat /\ off \in Nat /\ off <= Len(t) - 1
  BY LenProperties
<1>2. a \in Seq(S) /\ Len(a) = off
  <2>1. a \in Seq(S) /\ Len(a) = IF 1 <= off THEN off - 1 + 1 ELSE 0
    BY <1>1, PieceIs
  <2> HIDE DEF a
  <2> QED
    BY <1>1, <2>1
<1>3. b \in Seq(S) /\ Len(b) = Len(t) - off - 1
  <2> DEFINE o == off + 2
  <2>1. o \in 1 .. Len(t) + 2 /\ b = SubSeq(t, o, Len(t)) /\ Len(t) \in 0 .. Len(t)
    BY <1>1
  <2> HIDE DEF o, b
  <2>2. b \in Seq(S) /\ Len(b) = IF o <= Len(t) THEN Len(t) - o + 1 ELSE 0
    BY <1>1, <2>1, PieceIs
  <2> QED
    BY <1>1, <2>2 DEF o
<1> HIDE DEF a, b
<1>4. a \o b \in Seq(S) /\ Len(a \o b) = Len(a) + Len(b)
  BY <1>2, <1>3, ConcatProperties
<1>5. Len(a \o b) = Len(t) - 1
  BY <1>1, <1>2, <1>3, <1>4
<1> QED
  BY <1>4, <1>5 DEF Deleted, a, b
TextChars == TextKeys \cup {Newline}

TextInv ==
  /\ text \in Seq(TextChars) /\ Len(text) <= TextMax
  /\ CaretInside
  /\ dirty \in BOOLEAN
NameInv == name \in Seq(Characters) /\ Len(name) <= NameMax
WindowInv ==
  /\ top \in 0 .. TextMax /\ rows \in Heights
  /\ nameFocus \in BOOLEAN /\ drawn \in BOOLEAN
  /\ CaretShown
EditInv == TextInv /\ NameInv /\ WindowInv

LEMMA EmptyFits ==
  /\ << >> \in Seq(TextChars) /\ Len(<< >>) = 0 /\ Len(<< >>) <= TextMax
  /\ << >> \in Seq(Characters) /\ Len(<< >>) <= NameMax /\ 0 \in 0 .. TextMax
  /\ 0 \in 0 .. Len(<< >>)
<1>1. << >> \in Seq(TextChars) /\ << >> \in Seq(Characters) /\ Len(<< >>) = 0
  BY EmptySeq
<1> QED
  BY <1>1, EditAssumption

(* Scrolling shows the line of any offset, and a line the text has. *)
LEMMA ScrolledShows ==
  ASSUME NEW S, NEW t \in Seq(S), Len(t) <= TextMax, NEW off \in 0 .. Len(t),
         NEW first \in 0 .. TextMax, NEW n \in Nat \ {0},
         NEW to, to = Scrolled(LineOf(t, off), first, n)
  PROVE  /\ to \in 0 .. TextMax
         /\ LineOf(t, off) \in to .. to + n - 1 /\ LineStart(t, to) >= 0
<1>1. Len(t) \in Nat /\ TextMax \in Nat /\ off \in Nat /\ off <= Len(t) /\ first \in Nat
  BY LenProperties, EditAssumption
<1> DEFINE l == LineOf(t, off)
<1>2. l \in Nat /\ l <= off
  BY <1>1, LineOfIs, NewlinesFinite
<1>3. to = IF l < first THEN l ELSE IF l >= first + n THEN l - n + 1 ELSE first
  BY DEF Scrolled
<1> HIDE DEF l
<1>4. to \in Nat /\ to <= l /\ l <= to + n - 1
  BY <1>1, <1>2, <1>3
<1>5. LineStart(t, to) \in 0 .. off
  <2>1. to \in Int /\ to <= LineOf(t, off)
    BY <1>4 DEF l
  <2> QED
    BY <2>1, LineStarts
<1> QED
  BY <1>1, <1>2, <1>4, <1>5 DEF l

(* Every step ends in a paint, which is enough. *)
LEMMA PaintShows ==
  ASSUME TextInv', rows' \in Heights, nameFocus' \in BOOLEAN, drawn' \in BOOLEAN,
         NEW first \in 0 .. TextMax, Painted(first)
  PROVE  WindowInv'
<1>1. rows' \in Nat \ {0}
  BY EditAssumption
<1>2. CASE drawn'
  <2>1. top' = Scrolled(LineOf(text', caret'), first, rows')
    BY <1>2 DEF Painted
  <2>2. text' \in Seq(TextChars) /\ Len(text') <= TextMax /\ caret' \in 0 .. Len(text')
    BY DEF TextInv, CaretInside
  <2>3. /\ top' \in 0 .. TextMax
        /\ LineOf(text', caret') \in top' .. top' + rows' - 1 /\ LineStart(text', top') >= 0
    BY <1>1, <2>1, <2>2, ScrolledShows
  <2> QED
    BY <2>3 DEF WindowInv, CaretShown
<1>3. CASE ~drawn'
  BY <1>3 DEF Painted, WindowInv, CaretShown
<1> QED
  BY <1>2, <1>3

(* What is read off the volume. *)
LEMMA EntryName ==
  ASSUME NEW e \in Entries
  PROVE  Unpack(e.packed) \in Seq(Characters) /\ Len(Unpack(e.packed)) <= NameMax
<1> USE LengthsAreNat
<1> DEFINE p == e.packed
<1>1. p = [i \in 1 .. BaseLen + ExtLen |-> p[i]]
  BY EntriesAssumption
<1>2. \A i \in 1 .. BaseLen + ExtLen : p[i] \in Characters
  BY DEF Letters, Characters
<1> HIDE DEF p
<1>3. p \in [1 .. BaseLen + ExtLen -> Characters]
  BY <1>1, <1>2
<1>4. p \in Seq(Characters) /\ Len(p) = BaseLen + ExtLen
  BY <1>3, SeqDef, LenProperties
<1>5. PICK b, f : Lists(p, b, f, Unpack(p))
  BY <1>4, UnpackIs
<1> QED
  BY <1>5 DEF Lists, p

LEMMA EntryText ==
  ASSUME NEW e \in Entries
  PROVE  Clip(e.body, TextMax) \in Seq(TextChars) /\ Len(Clip(e.body, TextMax)) <= TextMax
<1>1. e.body \in Seq(TextChars) /\ TextMax \in Nat
  BY EntriesAssumption, EditAssumption DEF TextChars
<1>2. Len(e.body) \in Nat
  BY <1>1, LenProperties
<1> QED
  BY <1>1, <1>2, ClipIs

(* A load that fails replaces characters by characters. *)
LEMMA SpoiltText ==
  ASSUME TextInv, NEW e \in Entries, NEW k \in 0 .. Len(e.body),
         NEW t, t = [i \in DOMAIN text |-> IF i <= k THEN e.body[i] ELSE text[i]]
  PROVE  t \in Seq(TextChars) /\ Len(t) = Len(text)
<1>1. e.body \in Seq(TextChars) /\ text \in Seq(TextChars)
  BY EntriesAssumption DEF TextChars, TextInv
<1>2. Len(text) \in Nat /\ DOMAIN text = 1 .. Len(text) /\ Len(e.body) \in Nat
  BY <1>1, LenProperties
<1>3. ASSUME NEW i \in 1 .. Len(text)
      PROVE  (IF i <= k THEN e.body[i] ELSE text[i]) \in TextChars
  <2>1. i <= k => i \in 1 .. Len(e.body)
    BY <1>2
  <2> QED
    BY <1>1, <2>1, ElementOfSeq
<1>4. t \in [1 .. Len(text) -> TextChars]
  BY <1>2, <1>3
<1> QED
  BY <1>2, <1>4, SeqDef, LenProperties

LEMMA EditTypeFacts ==
  ASSUME EditInv
  PROVE  /\ Len(text) \in Nat /\ caret \in Nat /\ caret <= Len(text) /\ TextMax \in Nat
         /\ Len(text) <= TextMax /\ top \in Nat /\ top <= TextMax
         /\ text \in Seq(TextChars) /\ caret \in 0 .. Len(text)
BY LenProperties, EditAssumption DEF EditInv, TextInv, WindowInv, CaretInside

(* Keys and clicks in the text. *)
LEMMA InsertText ==
  ASSUME EditInv, NEW c \in TextChars, Insert(c) PROVE TextInv' /\ name' = name
<1>1. CASE Len(text) < TextMax
  <2>1. text' = Inserted(text, caret, c) /\ caret' = caret + 1 /\ dirty' = TRUE /\ name' = name
    BY <1>1 DEF Insert
  <2>2. text' \in Seq(TextChars) /\ Len(text') = Len(text) + 1
    BY <2>1, EditTypeFacts, InsertedIs
  <2> QED
    BY <1>1, <2>1, <2>2, EditTypeFacts DEF TextInv, CaretInside
<1>2. CASE ~(Len(text) < TextMax)
  <2>1. UNCHANGED <<text, caret, dirty, name>>
    BY <1>2 DEF Insert
  <2> QED
    BY <2>1 DEF EditInv, TextInv, CaretInside
<1> QED
  BY <1>1, <1>2

LEMMA BackspaceText == ASSUME EditInv, Backspace PROVE TextInv' /\ name' = name
<1>1. caret > 0 /\ caret' = caret - 1 /\ text' = Deleted(text, caret - 1) /\ dirty' = TRUE
      /\ name' = name
  BY DEF Backspace
<1> DEFINE off == caret - 1
<1>2. off \in 0 .. Len(text) - 1
  BY <1>1, EditTypeFacts
<1>3. text' = Deleted(text, off)
  BY <1>1
<1> HIDE DEF off
<1>4. text' \in Seq(TextChars) /\ Len(text') = Len(text) - 1
  BY <1>2, <1>3, EditTypeFacts, DeletedIs
<1> QED
  BY <1>1, <1>4, EditTypeFacts DEF TextInv, CaretInside

(* Where a key or click that changes no text may put the caret. *)
LEMMA MovedText ==
  ASSUME EditInv, UNCHANGED <<text, dirty>>, caret' \in 0 .. Len(text)
  PROVE  TextInv'
BY DEF EditInv, TextInv, CaretInside

LEMMA MoveLineText ==
  ASSUME EditInv, NEW d \in {-1, 1}, MoveLine(d) PROVE TextInv' /\ name' = name
<1> DEFINE line == LineOf(text, caret)
           start == LineStart(text, line + d)
           from == LineStart(text, line)
<1>1. start >= 0 /\ caret' = Nearest(start, caret - from) /\ UNCHANGED <<text, dirty, name>>
  BY DEF MoveLine
<1>2. line \in Nat
  BY EditTypeFacts, LineOfIs
<1>3. from \in 0 .. caret
  BY <1>2, EditTypeFacts, LineStarts
<1>4. start \in 0 .. Len(text)
  <2>1. line + d \in Int
    BY <1>2
  <2> HIDE DEF line
  <2>2. start \in -1 .. Len(text)
    BY <2>1, EditTypeFacts, LineStartRange
  <2> QED
    BY <1>1, <2>2, EditTypeFacts
<1> HIDE DEF start, from
<1>5. caret - from \in Nat
  BY <1>3, EditTypeFacts
<1>6. Nearest(start, caret - from) \in 0 .. Len(text)
  BY <1>4, <1>5, EditTypeFacts, NearestInside
<1> QED
  BY <1>1, <1>6, MovedText

LEMMA ClickText ==
  ASSUME EditInv, NEW r \in Nat, NEW c \in Nat, Click(r, c) PROVE TextInv' /\ name' = name
<1> DEFINE start == LineStart(text, top + r)
<1>1. /\ caret' = (IF start < 0 THEN Len(text) ELSE Nearest(start, c))
      /\ UNCHANGED <<text, dirty, name>>
  BY DEF Click
<1>2. start \in -1 .. Len(text)
  <2>1. top + r \in Int
    BY EditTypeFacts
  <2> QED
    BY <2>1, EditTypeFacts, LineStartRange
<1> HIDE DEF start
<1>3. caret' \in 0 .. Len(text)
  <2>1. CASE start < 0
    BY <1>1, <2>1, EditTypeFacts
  <2>2. CASE ~(start < 0)
    <3>1. start \in 0 .. Len(text)
      BY <1>2, <2>2, EditTypeFacts
    <3> QED
      BY <1>1, <2>2, <3>1, EditTypeFacts, NearestInside
  <2> QED
    BY <2>1, <2>2
<1> QED
  BY <1>1, <1>3, MovedText
(* A step that leaves the text is judged by the name and the window. *)
LEMMA NextEdit == EditInv /\ [EditNext]_editVars => EditInv'
<1> SUFFICES ASSUME EditInv, [EditNext]_editVars PROVE EditInv'
  OBVIOUS
<1>1. TextInv /\ NameInv /\ top \in 0 .. TextMax /\ rows \in Heights
      /\ nameFocus \in BOOLEAN /\ drawn \in BOOLEAN
  BY DEF EditInv, WindowInv
<1>2. 0 \in 0 .. TextMax
  BY EditAssumption
(* What stays, and what a paint then shows. *)
<1>3. ASSUME TextInv', NameInv', Stays, Painted(top) PROVE EditInv'
  BY <1>1, <1>3, PaintShows DEF EditInv, Stays
<1>4. ASSUME name' = name PROVE NameInv'
  BY <1>1, <1>4 DEF NameInv
<1>5. ASSUME UNCHANGED <<text, dirty, caret>> PROVE TextInv'
  BY <1>1, <1>5 DEF TextInv, CaretInside
<1>6. ASSUME NEW c \in TextKeys \cup {Newline}, Insert(c) PROVE EditInv'
  <2>1. TextInv' /\ name' = name
    BY <1>6, InsertText DEF TextChars
  <2>2. Stays /\ Painted(top)
    BY <1>6 DEF Insert
  <2> QED
    BY <1>3, <1>4, <2>1, <2>2
<1>7. ASSUME Backspace PROVE EditInv'
  <2>1. TextInv' /\ name' = name
    BY <1>7, BackspaceText
  <2>2. Stays /\ Painted(top)
    BY <1>7 DEF Backspace
  <2> QED
    BY <1>3, <1>4, <2>1, <2>2
<1>8. ASSUME NEW d \in {-1, 1}, Step(d) PROVE EditInv'
  <2>1. caret' \in 0 .. Len(text) /\ UNCHANGED <<text, dirty, name>> /\ Stays /\ Painted(top)
    BY <1>8 DEF Step
  <2>2. TextInv'
    BY <2>1, MovedText
  <2> QED
    BY <1>3, <1>4, <2>1, <2>2
<1>9. ASSUME NEW d \in {-1, 1}, MoveLine(d) PROVE EditInv'
  <2>1. TextInv' /\ name' = name
    BY <1>9, MoveLineText
  <2>2. Stays /\ Painted(top)
    BY <1>9 DEF MoveLine
  <2> QED
    BY <1>3, <1>4, <2>1, <2>2
<1>10. ASSUME NEW r \in 0 .. TextMax, NEW c \in 0 .. TextMax, Click(r, c) PROVE EditInv'
  <2>1. r \in Nat /\ c \in Nat
    OBVIOUS
  <2>2. TextInv' /\ name' = name
    BY <1>10, <2>1, ClickText
  <2>3. nameFocus' = FALSE /\ UNCHANGED <<drawn, rows>> /\ Painted(top)
    BY <1>10 DEF Click
  <2>4. WindowInv'
    BY <1>1, <2>2, <2>3, PaintShows
  <2> QED
    BY <1>4, <2>2, <2>4 DEF EditInv
<1>11. ASSUME NEW on \in BOOLEAN, Focus(on) PROVE EditInv'
  <2>1. nameFocus' = on /\ UNCHANGED <<text, dirty, name, caret, drawn, rows>> /\ Painted(top)
    BY <1>11 DEF Focus
  <2>2. TextInv' /\ NameInv'
    BY <1>4, <1>5, <2>1
  <2>3. WindowInv'
    BY <1>1, <2>1, <2>2, PaintShows
  <2> QED
    BY <2>2, <2>3 DEF EditInv
<1>12. ASSUME NEW c \in NameKeys, NameKey(c) PROVE EditInv'
  <2>1. /\ name' = (IF Len(name) < NameMax THEN Append(name, Upper(c)) ELSE name)
        /\ UNCHANGED <<text, dirty, caret>> /\ Stays /\ Painted(top)
    BY <1>12 DEF NameKey
  <2>2. Upper(c) \in Characters
    BY DEF Characters, Letters
  <2>3. name \in Seq(Characters) /\ Len(name) \in Nat /\ Len(name) <= NameMax
    BY <1>1, LenProperties DEF NameInv
  <2>4. /\ Append(name, Upper(c)) \in Seq(Characters)
        /\ Len(Append(name, Upper(c))) = Len(name) + 1
    BY <2>2, <2>3, AppendProperties
  <2>5. NameInv'
    BY <2>1, <2>3, <2>4, LengthsAreNat DEF NameInv
  <2> QED
    BY <1>3, <1>5, <2>1, <2>5
<1>13. ASSUME NameBackspace PROVE EditInv'
  <2>1. /\ name # << >> /\ name' = Front(name)
        /\ UNCHANGED <<text, dirty, caret>> /\ Stays /\ Painted(top)
    BY <1>13 DEF NameBackspace
  <2>2. name \in Seq(Characters) /\ Len(name) \in Nat \ {0} /\ Len(name) <= NameMax
    BY <1>1, <2>1, EmptySeq DEF NameInv
  <2> DEFINE n == Len(name) - 1
  <2>3. n \in 0 .. Len(name) /\ 1 \in 1 .. Len(name) + 2 /\ name' = SubSeq(name, 1, n)
    BY <2>1, <2>2 DEF Front
  <2> HIDE DEF n
  <2>4. name' \in Seq(Characters) /\ Len(name') = IF 1 <= n THEN n - 1 + 1 ELSE 0
    BY <2>2, <2>3, PieceIs
  <2>5. NameInv'
    BY <2>2, <2>3, <2>4, LengthsAreNat DEF NameInv
  <2> QED
    BY <1>3, <1>5, <2>1, <2>5
<1>14. ASSUME New PROVE EditInv'
  <2>1. /\ text' = << >> /\ name' = << >> /\ dirty' = FALSE /\ caret' = 0
        /\ nameFocus' = TRUE /\ drawn' = TRUE /\ rows' = rows /\ Painted(0)
    BY <1>14 DEF New
  <2>2. TextInv'
    BY <2>1, EmptyFits DEF TextInv, CaretInside
  <2>3. NameInv'
    BY <2>1, EmptyFits DEF NameInv
  <2>4. WindowInv'
    BY <1>1, <1>2, <2>1, <2>2, PaintShows
  <2> QED
    BY <2>2, <2>3, <2>4 DEF EditInv
<1>15. ASSUME Save PROVE EditInv'
  <2>1. dirty' = FALSE /\ UNCHANGED <<text, name, caret>> /\ Stays /\ Painted(top)
    BY <1>15 DEF Save
  <2>2. TextInv'
    BY <1>1, <2>1 DEF TextInv, CaretInside
  <2> QED
    BY <1>3, <1>4, <2>1, <2>2
<1>16. ASSUME NEW e \in Entries, OpenFile(e) PROVE EditInv'
  <2>1. /\ name' = Unpack(e.packed) /\ text' = Clip(e.body, TextMax) /\ dirty' = FALSE
        /\ caret' = 0 /\ nameFocus' = FALSE /\ drawn' = TRUE /\ rows' = rows /\ Painted(0)
    BY <1>16 DEF OpenFile
  <2>2. NameInv'
    BY <2>1, EntryName DEF NameInv
  <2>3. text' \in Seq(TextChars) /\ Len(text') <= TextMax
    BY <2>1, EntryText
  <2>6. 0 \in 0 .. Len(text')
    BY <2>3, LenProperties
  <2>4. TextInv'
    BY <2>1, <2>3, <2>6 DEF TextInv, CaretInside
  <2>5. WindowInv'
    BY <1>1, <1>2, <2>1, <2>4, PaintShows
  <2> QED
    BY <2>2, <2>4, <2>5 DEF EditInv
<1>17. ASSUME NEW e \in Entries, RemoveFile(e) PROVE EditInv'
  <2>1. name' = Unpack(e.packed) /\ UNCHANGED <<text, dirty, caret>> /\ Stays /\ Painted(top)
    BY <1>17 DEF RemoveFile
  <2>2. NameInv'
    BY <2>1, EntryName DEF NameInv
  <2> QED
    BY <1>3, <1>5, <2>1, <2>2
<1>18. ASSUME NEW e \in Entries, NEW k \in 0 .. Len(e.body), OpenFails(e, k) PROVE EditInv'
  <2>1. /\ name' = Unpack(e.packed)
        /\ text' = [i \in DOMAIN text |-> IF i <= k THEN e.body[i] ELSE text[i]]
        /\ UNCHANGED <<dirty, caret>> /\ Stays /\ Painted(top)
    BY <1>18 DEF OpenFails
  <2>2. NameInv'
    BY <2>1, EntryName DEF NameInv
  <2>3. text' \in Seq(TextChars) /\ Len(text') = Len(text)
    BY <1>1, <2>1, SpoiltText
  <2>4. TextInv'
    BY <1>1, <2>1, <2>3 DEF TextInv, CaretInside
  <2> QED
    BY <1>3, <2>1, <2>2, <2>4
<1>19. ASSUME NEW shown \in BOOLEAN, NEW n \in Heights, Window(shown, n) PROVE EditInv'
  <2>1. /\ drawn' = shown /\ rows' = n /\ UNCHANGED <<text, dirty, name, caret, nameFocus>>
        /\ Painted(top)
    BY <1>19 DEF Window
  <2>2. TextInv' /\ NameInv'
    BY <1>4, <1>5, <2>1
  <2>3. WindowInv'
    BY <1>1, <2>1, <2>2, PaintShows
  <2> QED
    BY <2>2, <2>3 DEF EditInv
<1>20. ASSUME UNCHANGED editVars PROVE EditInv'
  BY <1>20 DEF editVars, EditInv, TextInv, NameInv, WindowInv, CaretInside, CaretShown
<1> QED
  BY <1>6, <1>7, <1>8, <1>9, <1>10, <1>11, <1>12, <1>13, <1>14, <1>15, <1>16, <1>17, <1>18,
     <1>19, <1>20 DEF EditNext

LEMMA InitEdit == EditInit => EditInv
<1> SUFFICES ASSUME EditInit PROVE EditInv
  OBVIOUS
<1>1. /\ text = << >> /\ dirty = FALSE /\ name = << >> /\ caret = 0 /\ top = 0
      /\ nameFocus = FALSE /\ drawn = FALSE /\ rows \in Heights
  BY DEF EditInit
<1>2. TextInv /\ NameInv
  <2>1. TextInv
    BY <1>1, EmptyFits DEF TextInv, CaretInside
  <2>2. NameInv
    BY <1>1, EmptyFits DEF NameInv
  <2> QED
    BY <2>1, <2>2
<1>3. WindowInv
  BY <1>1, EmptyFits DEF WindowInv, CaretShown
<1> QED
  BY <1>2, <1>3 DEF EditInv

(* The caret is an offset of the text, which fits its buffer as the name   *)
(* fits its own, whatever is typed, clicked, loaded or half loaded.        *)
THEOREM EditTypeCorrect == EditSpec => []EditTypeOK
<1>1. EditInv => EditTypeOK
  BY DEF EditInv, TextInv, NameInv, WindowInv, EditTypeOK, TextChars
<1> QED
  BY <1>1, InitEdit, NextEdit, PTL DEF EditSpec

(* In a window of any height, resized or hidden at any time, what is drawn *)
(* begins at a line of the text and shows the caret's.                     *)
THEOREM CaretAlwaysShown == EditSpec => []CaretShown
<1>1. EditInv => CaretShown
  BY DEF EditInv, WindowInv
<1> QED
  BY <1>1, InitEdit, NextEdit, PTL DEF EditSpec

(* Whatever stands in the name field, the file it names is listed under a  *)
(* name that finds it again.                                               *)
THEOREM NamesAlwaysAgree == EditSpec => []NamesAgree
<1>1. EditInv => NamesAgree
  <2> SUFFICES ASSUME EditInv PROVE NamesAgree
    OBVIOUS
  <2>1. name \in Seq(Characters)
    BY DEF EditInv, NameInv
  <2> DEFINE p == Pack(name)
             back == Unpack(p)
  <2>2. /\ Len(p) = BaseLen + ExtLen /\ Pack(back) = p /\ Len(back) <= NameMax
        /\ back = << >> <=> \A i \in DOMAIN p : p[i] = Blank
    BY <2>1, PackedAgain
  <2> QED
    BY <2>2 DEF NamesAgree
<1> QED
  BY <1>1, InitEdit, NextEdit, PTL DEF EditSpec

----------------------------------------------------------------------------
(* The editor: the flat text and its lines.                                *)

(* The first n characters of t are the lines ls; line i ends at at[i],     *)
(* with a newline, or after the text.                                      *)
Ruled(t, n, ls, at) ==
  /\ n \in Nat /\ ls \in Seq(Seq(TextKeys)) /\ ls # << >>
  /\ at \in [0 .. Len(ls) -> Nat] /\ at[0] = 0 /\ at[Len(ls)] = n + 1
  /\ \A i \in 1 .. Len(ls) : at[i] = at[i - 1] + Len(ls[i]) + 1
  /\ \A i \in 1 .. Len(ls) : \A k \in 1 .. Len(ls[i]) : t[at[i - 1] + k] = ls[i][k]
  /\ \A i \in 1 .. Len(ls) : i < Len(ls) => t[at[i]] = Newline

LEMMA RuledRows ==
  ASSUME NEW t, NEW n, NEW ls, NEW at, Ruled(t, n, ls, at)
  PROVE  /\ n \in Nat /\ Len(ls) \in Nat /\ Len(ls) >= 1
         /\ at[0] = 0 /\ at[Len(ls)] = n + 1
         /\ \A i \in 0 .. Len(ls) : at[i] \in Nat
<1>1. Len(ls) \in Nat \ {0}
  BY EmptySeq DEF Ruled
<1>2. n \in Nat /\ at[0] = 0 /\ at[Len(ls)] = n + 1 /\ at \in [0 .. Len(ls) -> Nat]
  BY DEF Ruled
<1>3. \A i \in 0 .. Len(ls) : at[i] \in Nat
  BY <1>2
<1> QED
  BY <1>1, <1>2, <1>3

(* One of the lines. *)
LEMMA RowIs ==
  ASSUME NEW t, NEW n, NEW ls, NEW at, Ruled(t, n, ls, at), NEW i \in 1 .. Len(ls)
  PROVE  /\ i \in Nat /\ ls[i] \in Seq(TextKeys) /\ Len(ls[i]) \in Nat
         /\ at[i - 1] \in Nat /\ at[i] \in Nat /\ at[i] = at[i - 1] + Len(ls[i]) + 1
         /\ i < Len(ls) => t[at[i]] = Newline
         /\ \A k \in 1 .. Len(ls[i]) :
              t[at[i - 1] + k] = ls[i][k] /\ ls[i][k] \in TextKeys /\ ls[i][k] # Newline
<1>1. Len(ls) \in Nat
  BY RuledRows
<1>2. ls[i] \in Seq(TextKeys)
  BY ElementOfSeq DEF Ruled
<1>3. Len(ls[i]) \in Nat /\ \A k \in 1 .. Len(ls[i]) : ls[i][k] \in TextKeys
  BY <1>2, LenProperties, ElementOfSeq
<1>4. i \in Nat /\ i - 1 \in 0 .. Len(ls) /\ i \in 0 .. Len(ls)
  BY <1>1
<1>5. at[i - 1] \in Nat /\ at[i] \in Nat
  BY <1>4, RuledRows
<1>6. at[i] = at[i - 1] + Len(ls[i]) + 1 /\ (i < Len(ls) => t[at[i]] = Newline)
  BY DEF Ruled
<1>7. \A k \in 1 .. Len(ls[i]) : t[at[i - 1] + k] = ls[i][k]
  BY DEF Ruled
<1>8. Newline \notin TextKeys
  BY EditAssumption
<1>9. \A k \in 1 .. Len(ls[i]) : ls[i][k] # Newline
  BY <1>3, <1>8
<1> QED
  BY <1>2, <1>3, <1>4, <1>5, <1>6, <1>7, <1>9

(* Later lines end later. *)
LEMMA EndsGrow ==
  ASSUME NEW t, NEW n, NEW ls, NEW at, Ruled(t, n, ls, at),
         NEW i \in 0 .. Len(ls), NEW j \in 0 .. Len(ls), i < j
  PROVE  at[i] < at[j]
<1> DEFINE T == {m \in i + 1 .. Len(ls) : ~(at[i] < at[m])}
<1>1. Len(ls) \in Nat /\ i \in Nat /\ j \in Nat
  BY RuledRows
<1>2. T \in SUBSET Nat
  BY <1>1
<1>3. ASSUME T # {} PROVE FALSE
  <2>1. PICK x \in T : \A y \in T : x <= y
    <3> HIDE DEF T
    <3> QED
      BY <1>2, <1>3, LeastOf
  <2>2. x \in 1 .. Len(ls) /\ x \in Nat /\ ~(at[i] < at[x])
    BY <1>1, <2>1
  <2>3. at[x] = at[x - 1] + Len(ls[x]) + 1 /\ at[x - 1] \in Nat /\ Len(ls[x]) \in Nat
    BY <2>2, RowIs
  <2> DEFINE p == x - 1
  <2>4. p \in Nat /\ p < x /\ i <= p /\ p \in i .. Len(ls)
    BY <1>1, <2>1, <2>2
  <2>5. p # i => p \in i + 1 .. Len(ls) /\ p \notin T
    BY <1>1, <2>1, <2>4
  <2>6. at[i] <= at[p]
    <3>1. p = i => at[i] <= at[p]
      BY <1>1, RuledRows
    <3>2. p # i => at[i] < at[p]
      BY <2>5
    <3>3. at[i] \in Nat /\ at[p] \in Nat
      BY <2>3, RuledRows
    <3> HIDE DEF p
    <3> QED
      BY <3>1, <3>2, <3>3
  <2>7. at[x] = at[p] + Len(ls[x]) + 1 /\ at[p] \in Nat
    BY <2>3
  <2>8. at[i] \in Nat
    BY RuledRows
  <2> HIDE DEF p, T
  <2> QED
    BY <2>2, <2>3, <2>6, <2>7, <2>8
<1>4. j \in i + 1 .. Len(ls) /\ j \notin T
  BY <1>1, <1>3
<1> QED
  BY <1>4

LEMMA EndsOrdered ==
  ASSUME NEW t, NEW n, NEW ls, NEW at, Ruled(t, n, ls, at),
         NEW i \in 0 .. Len(ls), NEW j \in 0 .. Len(ls), i <= j
  PROVE  at[i] <= at[j] /\ at[i] \in Nat /\ at[j] \in Nat
<1>1. Len(ls) \in Nat /\ i \in Nat /\ j \in Nat /\ at[i] \in Nat /\ at[j] \in Nat
  BY RuledRows
<1>2. i < j => at[i] < at[j]
  BY EndsGrow
<1>3. CASE i < j
  BY <1>1, <1>2, <1>3
<1>4. CASE i = j
  BY <1>1, <1>4
<1> QED
  BY <1>1, <1>3, <1>4

(* All of it lies in the text. *)
LEMMA RowInside ==
  ASSUME NEW t, NEW n, NEW ls, NEW at, Ruled(t, n, ls, at), NEW i \in 1 .. Len(ls)
  PROVE  /\ at[i] <= n + 1 /\ (i < Len(ls) => at[i] \in 1 .. n)
         /\ \A k \in 1 .. Len(ls[i]) : at[i - 1] + k \in 1 .. n
<1>1. Len(ls) \in Nat /\ n \in Nat /\ i \in Nat /\ at[Len(ls)] = n + 1
  BY RuledRows
<1>2. i \in 0 .. Len(ls) /\ Len(ls) \in 0 .. Len(ls) /\ i <= Len(ls)
  BY <1>1
<1>3. at[i] <= n + 1
  BY <1>1, <1>2, EndsOrdered
<1>4. i < Len(ls) => at[i] < n + 1
  BY <1>1, <1>2, EndsGrow
<1>5. at[i] = at[i - 1] + Len(ls[i]) + 1 /\ at[i - 1] \in Nat /\ Len(ls[i]) \in Nat
  BY RowIs
<1> HIDE DEF Ruled
<1>6. i < Len(ls) => at[i] \in 1 .. n
  BY <1>1, <1>4, <1>5
<1>7. ASSUME NEW k \in 1 .. Len(ls[i]) PROVE at[i - 1] + k \in 1 .. n
  BY <1>1, <1>3, <1>5
<1> QED
  BY <1>3, <1>6, <1>7

(* So only the text's first n characters matter. *)
LEMMA RuledSame ==
  ASSUME NEW t, NEW n, NEW ls, NEW at, Ruled(t, n, ls, at),
         NEW u, \A p \in 1 .. n : u[p] = t[p]
  PROVE  Ruled(u, n, ls, at)
<1>1. ASSUME NEW i \in 1 .. Len(ls), i < Len(ls) PROVE u[at[i]] = Newline
  BY <1>1, RowIs, RowInside
<1>2. ASSUME NEW i \in 1 .. Len(ls), NEW k \in 1 .. Len(ls[i]) PROVE u[at[i - 1] + k] = ls[i][k]
  <2>1. at[i - 1] + k \in 1 .. n
    BY RowInside
  <2>2. t[at[i - 1] + k] = ls[i][k]
    BY RowIs
  <2> QED
    BY <2>1, <2>2
<1> QED
  BY <1>1, <1>2 DEF Ruled

(* The offset o is column c of row r. *)
Spot(ls, at, o, r, c) ==
  r \in 1 .. Len(ls) /\ c \in 0 .. Len(ls[r]) /\ o = at[r - 1] + c

LEMMA SpotInside ==
  ASSUME NEW t, NEW n, NEW ls, NEW at, Ruled(t, n, ls, at),
         NEW o, NEW r, NEW c, Spot(ls, at, o, r, c)
  PROVE  /\ r \in Nat /\ r >= 1 /\ r <= Len(ls) /\ c \in Nat /\ c <= Len(ls[r])
         /\ Len(ls) \in Nat /\ Len(ls[r]) \in Nat
         /\ o \in 0 .. n /\ o \in Nat /\ at[r - 1] \in Nat /\ o = at[r - 1] + c
         /\ at[r] \in Nat /\ at[r] = o + (Len(ls[r]) - c) + 1 /\ o < at[r]
<1>1. r \in 1 .. Len(ls) /\ c \in 0 .. Len(ls[r]) /\ o = at[r - 1] + c
  BY DEF Spot
<1>2. Len(ls) \in Nat /\ n \in Nat
  BY RuledRows
<1>3. /\ Len(ls[r]) \in Nat /\ at[r - 1] \in Nat /\ at[r] \in Nat
      /\ at[r] = at[r - 1] + Len(ls[r]) + 1
  BY <1>1, RowIs
<1>4. at[r] <= n + 1
  BY <1>1, RowInside
<1> DEFINE b == at[r - 1]
           e == at[r]
           l == Len(ls[r])
<1>5. /\ b \in Nat /\ l \in Nat /\ n \in Nat /\ c \in 0 .. l /\ o = b + c
      /\ e = b + l + 1 /\ e <= n + 1
  BY <1>1, <1>2, <1>3, <1>4
<1>6. /\ c \in Nat /\ c <= l /\ o \in 0 .. n /\ o \in Nat
      /\ e = o + (l - c) + 1 /\ o < e
  <2> HIDE DEF b, e, l
  <2> QED
    BY <1>5
<1>7. r \in Nat /\ r >= 1 /\ r <= Len(ls)
  BY <1>1, <1>2
<1> QED
  BY <1>1, <1>2, <1>3, <1>6, <1>7

LEMMA SpotExists ==
  ASSUME NEW t, NEW n, NEW ls, NEW at, Ruled(t, n, ls, at), NEW o \in 0 .. n
  PROVE  \E r, c : Spot(ls, at, o, r, c)
<1> DEFINE T == {i \in 1 .. Len(ls) : o < at[i]}
<1>1. Len(ls) \in Nat /\ Len(ls) >= 1 /\ n \in Nat /\ o \in Nat /\ o < at[Len(ls)]
  BY RuledRows
<1>2. T \in SUBSET Nat /\ Len(ls) \in T
  BY <1>1
<1>3. PICK x \in T : \A y \in T : x <= y
  <2> HIDE DEF T
  <2> QED
    BY <1>2, LeastOf
<1>4. x \in 1 .. Len(ls) /\ x \in Nat /\ o < at[x]
  BY <1>1, <1>3
<1>5. at[x - 1] \in Nat /\ Len(ls[x]) \in Nat /\ at[x] = at[x - 1] + Len(ls[x]) + 1
  BY <1>4, RowIs
<1>6. at[x - 1] <= o
  <2> DEFINE p == x - 1
  <2>1. p = 0 => at[p] = 0
    BY RuledRows
  <2>2. p # 0 => p \in 1 .. Len(ls) /\ p < x
    BY <1>1, <1>4
  <2>3. p # 0 => p \notin T
    BY <1>3, <1>4, <2>2
  <2>4. p # 0 => ~(o < at[p])
    BY <2>2, <2>3
  <2>5. at[p] \in Nat
    BY <1>5
  <2> HIDE DEF p, T
  <2>6. at[p] <= o
    BY <1>1, <2>1, <2>4, <2>5
  <2> QED
    BY <2>6 DEF p
<1> DEFINE c == o - at[x - 1]
<1>7. c \in 0 .. Len(ls[x]) /\ o = at[x - 1] + c
  BY <1>1, <1>4, <1>5, <1>6
<1> HIDE DEF c
<1> QED
  BY <1>4, <1>7 DEF Spot

(* A text has only one division into lines. *)
LEMMA EndsNotBefore ==
  ASSUME NEW t, NEW n, NEW ls, NEW at, Ruled(t, n, ls, at),
         NEW ms, NEW bt, Ruled(t, n, ms, bt),
         NEW i \in 1 .. Len(ls), i \in 1 .. Len(ms), at[i - 1] = bt[i - 1]
  PROVE  ~(at[i] < bt[i])
<1> SUFFICES ASSUME at[i] < bt[i] PROVE FALSE
  OBVIOUS
<1>1. /\ i \in Nat /\ Len(ls[i]) \in Nat /\ at[i - 1] \in Nat /\ at[i] \in Nat
      /\ at[i] = at[i - 1] + Len(ls[i]) + 1 /\ (i < Len(ls) => t[at[i]] = Newline)
  BY RowIs
<1>2. /\ Len(ms[i]) \in Nat /\ bt[i] \in Nat /\ bt[i] = bt[i - 1] + Len(ms[i]) + 1
      /\ \A k \in 1 .. Len(ms[i]) : t[bt[i - 1] + k] = ms[i][k] /\ ms[i][k] # Newline
  BY RowIs
<1> DEFINE k == Len(ls[i]) + 1
<1>3. k \in 1 .. Len(ms[i]) /\ bt[i - 1] + k = at[i]
  BY <1>1, <1>2
<1> HIDE DEF k
<1>4. t[at[i]] # Newline
  BY <1>2, <1>3
<1>5. Len(ls) \in Nat /\ n \in Nat /\ at[Len(ls)] = n + 1
  BY RuledRows
<1>6. i = Len(ls)
  BY <1>1, <1>4, <1>5
<1>7. bt[i] <= n + 1
  BY RowInside
<1> QED
  BY <1>1, <1>2, <1>5, <1>6, <1>7

LEMMA RuledOnce ==
  ASSUME NEW t, NEW n, NEW ls, NEW at, Ruled(t, n, ls, at),
         NEW ms, NEW bt, Ruled(t, n, ms, bt)
  PROVE  ls = ms
<1> DEFINE T == {i \in 0 .. Len(ls) : i <= Len(ms) /\ at[i] # bt[i]}
<1>1. /\ Len(ls) \in Nat /\ Len(ms) \in Nat /\ n \in Nat /\ at[0] = 0 /\ bt[0] = 0
      /\ at[Len(ls)] = n + 1 /\ bt[Len(ms)] = n + 1
  BY RuledRows
<1>2. ASSUME T # {} PROVE FALSE
  <2>1. T \in SUBSET Nat
    BY <1>1
  <2>2. PICK x \in T : \A y \in T : x <= y
    <3> HIDE DEF T
    <3> QED
      BY <1>2, <2>1, LeastOf
  <2>3. x \in 0 .. Len(ls) /\ x <= Len(ms) /\ at[x] # bt[x] /\ x # 0
    BY <1>1, <2>2
  <2> DEFINE p == x - 1
  <2>4. p \in 0 .. Len(ls) /\ p <= Len(ms) /\ p < x
    BY <1>1, <2>3
  <2>5. p \notin T
    BY <1>1, <2>2, <2>4
  <2>6. at[p] = bt[p]
    BY <2>4, <2>5
  <2>7. x \in 1 .. Len(ls) /\ x \in 1 .. Len(ms) /\ at[x - 1] = bt[x - 1]
    BY <1>1, <2>3, <2>6
  <2> HIDE DEF p, T
  <2>8. ~(at[x] < bt[x]) /\ ~(bt[x] < at[x])
    BY <2>7, EndsNotBefore
  <2>9. at[x] \in Nat /\ bt[x] \in Nat
    BY <2>7, RowIs
  <2> QED
    BY <2>3, <2>8, <2>9
<1>3. \A i \in 0 .. Len(ls) : i <= Len(ms) => at[i] = bt[i]
  BY <1>2
<1> HIDE DEF T
<1>4. ~(Len(ls) < Len(ms))
  <2> SUFFICES ASSUME Len(ls) < Len(ms) PROVE FALSE
    OBVIOUS
  <2>1. Len(ls) \in 0 .. Len(ms) /\ Len(ms) \in 0 .. Len(ms) /\ Len(ls) \in 0 .. Len(ls)
    BY <1>1
  <2>2. bt[Len(ls)] < bt[Len(ms)]
    BY <2>1, EndsGrow
  <2>3. at[Len(ls)] = bt[Len(ls)]
    BY <1>1, <1>3, <2>1
  <2> QED
    BY <1>1, <2>2, <2>3
<1>5. ~(Len(ms) < Len(ls))
  <2> SUFFICES ASSUME Len(ms) < Len(ls) PROVE FALSE
    OBVIOUS
  <2>1. Len(ms) \in 0 .. Len(ls) /\ Len(ls) \in 0 .. Len(ls) /\ Len(ms) <= Len(ms)
    BY <1>1
  <2>2. at[Len(ms)] < at[Len(ls)]
    BY <2>1, EndsGrow
  <2>3. at[Len(ms)] = bt[Len(ms)]
    BY <1>3, <2>1
  <2> QED
    BY <1>1, <2>2, <2>3
<1>6. Len(ls) = Len(ms)
  BY <1>1, <1>4, <1>5
<1>7. ASSUME NEW i \in 1 .. Len(ls) PROVE ls[i] = ms[i]
  <2>1. i \in 1 .. Len(ms) /\ i \in 0 .. Len(ls) /\ i - 1 \in 0 .. Len(ls)
        /\ i <= Len(ms) /\ i - 1 <= Len(ms)
    BY <1>1, <1>6
  <2>2. at[i] = bt[i] /\ at[i - 1] = bt[i - 1]
    BY <1>3, <2>1
  <2>3. /\ ls[i] \in Seq(TextKeys) /\ Len(ls[i]) \in Nat /\ at[i - 1] \in Nat
        /\ at[i] = at[i - 1] + Len(ls[i]) + 1
        /\ \A k \in 1 .. Len(ls[i]) : t[at[i - 1] + k] = ls[i][k]
    BY RowIs
  <2>4. /\ ms[i] \in Seq(TextKeys) /\ Len(ms[i]) \in Nat
        /\ bt[i] = bt[i - 1] + Len(ms[i]) + 1
        /\ \A k \in 1 .. Len(ms[i]) : t[bt[i - 1] + k] = ms[i][k]
    BY <2>1, RowIs
  <2> DEFINE a == Len(ls[i])
             b == Len(ms[i])
  <2>5. a = b
    <3> DEFINE p == at[i - 1]
               q == at[i]
    <3>1. a \in Nat /\ b \in Nat /\ p \in Nat /\ q = p + a + 1 /\ bt[i] = bt[i - 1] + b + 1
      BY <2>3, <2>4
    <3>2. bt[i] = q /\ bt[i - 1] = p
      BY <2>2
    <3>3. q = p + b + 1
      BY <3>1, <3>2
    <3> HIDE DEF a, b, p, q
    <3> QED
      BY <3>1, <3>3
  <2>6. \A k \in 1 .. Len(ls[i]) : ls[i][k] = ms[i][k]
    BY <2>2, <2>3, <2>4, <2>5
  <2> QED
    BY <2>3, <2>4, <2>5, <2>6, SeqEqual
<1>8. ls \in Seq(Seq(TextKeys)) /\ ms \in Seq(Seq(TextKeys))
  BY DEF Ruled
<1> QED
  BY <1>6, <1>7, <1>8, SeqEqual

(* What stands before an offset has the lines up to it. *)
LEMMA PrefixRules ==
  ASSUME NEW t, NEW n, NEW ls, NEW at, Ruled(t, n, ls, at),
         NEW o, NEW r, NEW c, Spot(ls, at, o, r, c)
  PROVE  \E ms, bt : Ruled(t, o, ms, bt) /\ Len(ms) = r /\ Len(ms[r]) = c
<1>1. /\ r \in Nat /\ r >= 1 /\ r <= Len(ls) /\ c \in Nat /\ c <= Len(ls[r])
      /\ Len(ls) \in Nat /\ Len(ls[r]) \in Nat
      /\ o \in Nat /\ at[r - 1] \in Nat /\ o = at[r - 1] + c
  BY SpotInside
<1>2. r \in 1 .. Len(ls) /\ r - 1 \in 0 .. Len(ls) /\ c \in 0 .. Len(ls[r])
  BY <1>1
<1> DEFINE piece == SubSeq(ls[r], 1, c)
           ms == [i \in 1 .. r |-> IF i < r THEN ls[i] ELSE piece]
           bt == [i \in 0 .. r |-> IF i < r THEN at[i] ELSE o + 1]
<1>3. /\ piece \in Seq(TextKeys) /\ Len(piece) = c
      /\ \A k \in 1 .. c : piece[k] = ls[r][k]
  <2>1. ls[r] \in Seq(TextKeys)
    BY <1>2, RowIs
  <2>2. \A k \in 1 .. c : ls[r][k] \in TextKeys
    BY <1>1, <2>1, ElementOfSeq
  <2>3. 1 \in Int /\ c \in Int
    BY <1>1
  <2>4. /\ piece \in Seq(TextKeys) /\ Len(piece) = (IF 1 <= c THEN c - 1 + 1 ELSE 0)
        /\ \A k \in 1 .. c - 1 + 1 : piece[k] = ls[r][1 + k - 1]
    BY <2>2, <2>3, SubSeqProperties
  <2> HIDE DEF piece
  <2>5. c - 1 + 1 = c /\ \A k \in 1 .. c : 1 + k - 1 = k
    BY <1>1
  <2>6. Len(piece) = c
    BY <1>1, <2>4
  <2> QED
    BY <2>4, <2>5, <2>6
<1> HIDE DEF piece
<1>4. ms \in Seq(Seq(TextKeys)) /\ Len(ms) = r
  <2>1. \A i \in 1 .. r : i < r => ls[i] \in Seq(TextKeys)
    <3>1. \A i \in 1 .. r : i \in 1 .. Len(ls)
      BY <1>1
    <3> QED
      BY <3>1, RowIs
  <2>2. ms \in [1 .. r -> Seq(TextKeys)]
    BY <1>3, <2>1
  <2> HIDE DEF ms
  <2> QED
    BY <1>1, <2>2, SeqDef, LenProperties
<1>5. ms[r] = piece /\ \A i \in 1 .. r : i < r => ms[i] = ls[i]
  BY <1>1
<1>6. bt[r] = o + 1 /\ \A i \in 0 .. r : i < r => bt[i] = at[i]
  BY <1>1
<1>7. bt \in [0 .. r -> Nat]
  <2>1. \A i \in 0 .. r : at[i] \in Nat
    BY <1>1, RuledRows
  <2> QED
    BY <1>1, <2>1
<1> HIDE DEF ms, bt
<1>8. bt[0] = 0 /\ ms # << >>
  <2>1. at[0] = 0 /\ 0 \in 0 .. r /\ 0 < r
    BY <1>1, RuledRows
  <2>2. Len(ms) # 0
    BY <1>1, <1>4
  <2> QED
    BY <1>6, <2>1, <2>2, EmptySeq
<1>9. bt[r - 1] = at[r - 1]
  BY <1>1, <1>6
<1>10. ASSUME NEW i \in 1 .. r
       PROVE  /\ bt[i] = bt[i - 1] + Len(ms[i]) + 1
              /\ \A k \in 1 .. Len(ms[i]) : t[bt[i - 1] + k] = ms[i][k]
              /\ i < r => t[bt[i]] = Newline
  <2>1. CASE i < r
    <3>1. i \in 1 .. Len(ls) /\ i \in 0 .. r /\ i - 1 \in 0 .. r /\ i - 1 < r /\ i < Len(ls)
      BY <1>1, <2>1
    <3>2. bt[i] = at[i] /\ bt[i - 1] = at[i - 1] /\ ms[i] = ls[i]
      BY <1>5, <1>6, <2>1, <3>1
    <3>3. /\ at[i] = at[i - 1] + Len(ls[i]) + 1 /\ t[at[i]] = Newline
          /\ \A k \in 1 .. Len(ls[i]) : t[at[i - 1] + k] = ls[i][k]
      BY <3>1, RowIs
    <3> QED
      BY <3>2, <3>3
  <2>2. CASE i = r
    <3>1. bt[i] = o + 1 /\ bt[i - 1] = at[r - 1] /\ ms[i] = piece /\ Len(ms[i]) = c
      BY <1>3, <1>5, <1>6, <1>9, <2>2
    <3>2. bt[i] = bt[i - 1] + Len(ms[i]) + 1
      BY <1>1, <3>1
    <3>3. \A k \in 1 .. c : t[at[r - 1] + k] = ls[r][k]
      <4>1. \A k \in 1 .. c : k \in 1 .. Len(ls[r])
        BY <1>1
      <4> QED
        BY <1>2, <4>1, RowIs
    <3>4. \A k \in 1 .. Len(ms[i]) : t[bt[i - 1] + k] = ms[i][k]
      BY <1>3, <3>1, <3>3
    <3>5. ~(i < r)
      BY <1>1, <2>2
    <3> QED
      BY <3>2, <3>4, <3>5
  <2> QED
    BY <1>1, <2>1, <2>2
<1>11. Ruled(t, o, ms, bt)
  <2>1. \A i \in 1 .. Len(ms) :
          /\ bt[i] = bt[i - 1] + Len(ms[i]) + 1
          /\ \A k \in 1 .. Len(ms[i]) : t[bt[i - 1] + k] = ms[i][k]
          /\ i < Len(ms) => t[bt[i]] = Newline
    BY <1>4, <1>10
  <2>2. o \in Nat /\ bt \in [0 .. Len(ms) -> Nat] /\ bt[Len(ms)] = o + 1
    BY <1>1, <1>4, <1>6, <1>7
  <2> QED
    BY <1>4, <1>8, <2>1, <2>2 DEF Ruled
<1> QED
  BY <1>3, <1>4, <1>5, <1>11

(* u is t with one more character at o. *)
Grown(t, n, u, o, ch) ==
  /\ \A p \in 1 .. o : u[p] = t[p]
  /\ u[o + 1] = ch
  /\ \A p \in o + 1 .. n : u[p + 1] = t[p]

(* ms are the lines ls with a character typed, or a line broken. *)
Typed(ls, r, c, ch, ms) ==
  /\ ms \in Seq(Seq(TextKeys)) /\ Len(ms) = Len(ls)
  /\ \A i \in 1 .. Len(ls) : i # r => ms[i] = ls[i]
  /\ Len(ms[r]) = Len(ls[r]) + 1
  /\ \A k \in 1 .. c : ms[r][k] = ls[r][k]
  /\ ms[r][c + 1] = ch
  /\ \A k \in c + 1 .. Len(ls[r]) : ms[r][k + 1] = ls[r][k]
Broken(ls, r, c, ms) ==
  /\ ms \in Seq(Seq(TextKeys)) /\ Len(ms) = Len(ls) + 1
  /\ \A i \in 1 .. Len(ls) : i < r => ms[i] = ls[i]
  /\ Len(ms[r]) = c /\ \A k \in 1 .. c : ms[r][k] = ls[r][k]
  /\ Len(ms[r + 1]) = Len(ls[r]) - c
  /\ \A k \in 1 .. Len(ls[r]) - c : ms[r + 1][k] = ls[r][c + k]
  /\ \A i \in 1 .. Len(ls) : i > r => ms[i + 1] = ls[i]

(* A row before the caret stays where it is, one after it moves by one. *)
LEMMA RowBefore ==
  ASSUME NEW t, NEW n, NEW ls, NEW at, Ruled(t, n, ls, at),
         NEW o, NEW r, NEW c, Spot(ls, at, o, r, c),
         NEW u, NEW ch, Grown(t, n, u, o, ch), NEW i \in 1 .. Len(ls), i < r
  PROVE  u[at[i]] = Newline /\ \A k \in 1 .. Len(ls[i]) : u[at[i - 1] + k] = ls[i][k]
<1>1. /\ r \in Nat /\ r <= Len(ls) /\ c \in Nat /\ Len(ls) \in Nat
      /\ o \in Nat /\ at[r - 1] \in Nat /\ o = at[r - 1] + c
  BY SpotInside
<1>2. /\ i \in Nat /\ i < Len(ls) /\ Len(ls[i]) \in Nat /\ at[i] \in Nat /\ at[i - 1] \in Nat
      /\ at[i] = at[i - 1] + Len(ls[i]) + 1
      /\ t[at[i]] = Newline
      /\ \A k \in 1 .. Len(ls[i]) : t[at[i - 1] + k] = ls[i][k]
  <2>1. i < Len(ls)
    BY <1>1
  <2> QED
    BY <2>1, RowIs
<1> DEFINE q == r - 1
<1>3. i \in 0 .. Len(ls) /\ q \in 0 .. Len(ls) /\ i <= q
  BY <1>1, <1>2
<1> HIDE DEF q
<1>4. at[i] <= at[q]
  BY <1>3, EndsOrdered
<1>5. at[i] <= o
  BY <1>1, <1>2, <1>4 DEF q
<1>6. at[i] \in 1 .. o
  BY <1>1, <1>2, <1>5
<1>7. \A k \in 1 .. Len(ls[i]) : at[i - 1] + k \in 1 .. o
  <2> DEFINE b == at[i - 1]
             l == Len(ls[i])
             e == at[i]
  <2>1. b \in Nat /\ l \in Nat /\ o \in Nat /\ e = b + l + 1 /\ e <= o
    BY <1>1, <1>2, <1>5
  <2>2. \A k \in 1 .. l : b + k \in 1 .. o
    <3> HIDE DEF b, l, e
    <3> QED
      BY <2>1
  <2> QED
    BY <2>2
<1>8. \A p \in 1 .. o : u[p] = t[p]
  BY DEF Grown
<1>9. u[at[i]] = Newline
  BY <1>2, <1>6, <1>8
<1>10. ASSUME NEW k \in 1 .. Len(ls[i]) PROVE u[at[i - 1] + k] = ls[i][k]
  <2> DEFINE p == at[i - 1] + k
  <2>1. p \in 1 .. o /\ t[p] = ls[i][k]
    BY <1>2, <1>7
  <2> HIDE DEF p
  <2>2. u[p] = ls[i][k]
    BY <1>8, <2>1
  <2> QED
    BY <2>2 DEF p
<1> QED
  BY <1>9, <1>10

LEMMA RowAfter ==
  ASSUME NEW t, NEW n, NEW ls, NEW at, Ruled(t, n, ls, at),
         NEW o, NEW r, NEW c, Spot(ls, at, o, r, c),
         NEW u, NEW ch, Grown(t, n, u, o, ch), NEW i \in 1 .. Len(ls)
  PROVE  /\ i >= r /\ i < Len(ls) => u[at[i] + 1] = Newline
         /\ i > r => \A k \in 1 .. Len(ls[i]) : u[at[i - 1] + 1 + k] = ls[i][k]
<1>1. /\ r \in Nat /\ r >= 1 /\ r <= Len(ls) /\ Len(ls) \in Nat /\ o \in Nat
      /\ at[r] \in Nat /\ o < at[r]
  BY SpotInside
<1>2. /\ i \in Nat /\ Len(ls[i]) \in Nat /\ at[i] \in Nat /\ at[i - 1] \in Nat
      /\ i < Len(ls) => t[at[i]] = Newline
      /\ \A k \in 1 .. Len(ls[i]) : t[at[i - 1] + k] = ls[i][k]
  BY RowIs
<1>3. /\ n \in Nat /\ (i < Len(ls) => at[i] \in 1 .. n)
      /\ \A k \in 1 .. Len(ls[i]) : at[i - 1] + k \in 1 .. n
  BY RowInside, RuledRows
<1>4. i >= r /\ i < Len(ls) => u[at[i] + 1] = Newline
  <2> SUFFICES ASSUME i >= r, i < Len(ls) PROVE u[at[i] + 1] = Newline
    OBVIOUS
  <2>1. i \in 0 .. Len(ls) /\ r \in 0 .. Len(ls) /\ r <= i
    BY <1>1, <1>2
  <2>2. at[r] <= at[i]
    BY <2>1, EndsOrdered
  <2>3. at[i] \in o + 1 .. n
    BY <1>1, <1>2, <1>3, <2>2
  <2>4. u[at[i] + 1] = t[at[i]]
    BY <2>3 DEF Grown
  <2> QED
    BY <1>2, <2>4
<1>5. i > r => \A k \in 1 .. Len(ls[i]) : u[at[i - 1] + 1 + k] = ls[i][k]
  <2> SUFFICES ASSUME i > r, NEW k \in 1 .. Len(ls[i]) PROVE u[at[i - 1] + 1 + k] = ls[i][k]
    OBVIOUS
  <2> DEFINE q == i - 1
             p == at[i - 1] + k
  <2>1. q \in 0 .. Len(ls) /\ r \in 0 .. Len(ls) /\ r <= q
    BY <1>1, <1>2
  <2>2. at[r] <= at[q]
    <3> HIDE DEF q
    <3> QED
      BY <2>1, EndsOrdered
  <2>3. p \in o + 1 .. n
    <3> DEFINE b == at[q]
               f == at[r]
    <3>1. b \in Nat /\ o \in Nat /\ n \in Nat /\ f \in Nat /\ f <= b /\ o < f
      BY <1>1, <1>2, <1>3, <2>2
    <3>2. p = b + k /\ k \in Nat /\ k >= 1
      BY <1>2
    <3>3. p \in 1 .. n
      BY <1>3
    <3> HIDE DEF p, q, b, f
    <3> QED
      BY <3>1, <3>2, <3>3
  <2>4. at[i - 1] + 1 + k = p + 1 /\ t[p] = ls[i][k]
    BY <1>2
  <2> HIDE DEF p
  <2>5. u[p + 1] = t[p]
    BY <2>3 DEF Grown
  <2> QED
    BY <2>4, <2>5
<1> QED
  BY <1>4, <1>5

(* The row the caret is in, up to the caret and after it. *)
LEMMA RowAtCaret ==
  ASSUME NEW t, NEW n, NEW ls, NEW at, Ruled(t, n, ls, at),
         NEW o, NEW r, NEW c, Spot(ls, at, o, r, c),
         NEW u, NEW ch, Grown(t, n, u, o, ch)
  PROVE  /\ \A k \in 1 .. c : u[at[r - 1] + k] = ls[r][k]
         /\ u[at[r - 1] + c + 1] = ch
         /\ \A k \in c + 1 .. Len(ls[r]) : u[at[r - 1] + k + 1] = ls[r][k]
<1>1. /\ r \in 1 .. Len(ls) /\ c \in Nat /\ c <= Len(ls[r]) /\ Len(ls[r]) \in Nat
      /\ o \in Nat /\ at[r - 1] \in Nat /\ o = at[r - 1] + c
  BY SpotInside
<1>2. \A k \in 1 .. Len(ls[r]) : t[at[r - 1] + k] = ls[r][k] /\ at[r - 1] + k \in 1 .. n
  BY <1>1, RowIs, RowInside
<1>3. n \in Nat
  BY RuledRows
<1>4. ASSUME NEW k \in 1 .. c PROVE u[at[r - 1] + k] = ls[r][k]
  <2>1. k \in 1 .. Len(ls[r]) /\ at[r - 1] + k \in 1 .. o
    BY <1>1
  <2> QED
    BY <1>2, <2>1 DEF Grown
<1>5. ASSUME NEW k \in c + 1 .. Len(ls[r]) PROVE u[at[r - 1] + k + 1] = ls[r][k]
  <2> DEFINE p == at[r - 1] + k
  <2>1. k \in 1 .. Len(ls[r])
    BY <1>1
  <2>2. p \in 1 .. n /\ t[p] = ls[r][k]
    BY <1>2, <2>1
  <2>3. p \in o + 1 .. n
    <3> DEFINE b == at[r - 1]
    <3>1. b \in Nat /\ c \in Nat /\ o = b + c /\ p = b + k /\ k >= c + 1 /\ k \in Int
      BY <1>1
    <3>2. p <= n /\ n \in Nat
      BY <1>3, <2>2
    <3> HIDE DEF b, p
    <3> QED
      BY <3>1, <3>2
  <2> HIDE DEF p
  <2>4. u[p + 1] = t[p]
    BY <2>3 DEF Grown
  <2> QED
    BY <2>2, <2>4 DEF p
<1>6. u[at[r - 1] + c + 1] = ch
  BY <1>1 DEF Grown
<1> QED
  BY <1>4, <1>5, <1>6

(* Typing a character. *)
LEMMA TypedRules ==
  ASSUME NEW t, NEW n, NEW ls, NEW at, Ruled(t, n, ls, at),
         NEW o, NEW r, NEW c, Spot(ls, at, o, r, c),
         NEW u, NEW ch, Grown(t, n, u, o, ch), NEW ms, Typed(ls, r, c, ch, ms)
  PROVE  \E bt : Ruled(u, n + 1, ms, bt) /\ Spot(ms, bt, o + 1, r, c + 1)
<1>1. /\ r \in Nat /\ r >= 1 /\ r <= Len(ls) /\ r \in 1 .. Len(ls)
      /\ c \in Nat /\ c <= Len(ls[r]) /\ Len(ls) \in Nat /\ Len(ls[r]) \in Nat
      /\ o \in Nat /\ at[r - 1] \in Nat /\ o = at[r - 1] + c
  BY SpotInside
<1>2. n \in Nat /\ at[0] = 0 /\ at[Len(ls)] = n + 1 /\ \A i \in 0 .. Len(ls) : at[i] \in Nat
  BY RuledRows
<1>3. /\ ms \in Seq(Seq(TextKeys)) /\ Len(ms) = Len(ls)
      /\ \A i \in 1 .. Len(ls) : i # r => ms[i] = ls[i]
      /\ Len(ms[r]) = Len(ls[r]) + 1
  BY DEF Typed
<1> DEFINE bt == [i \in 0 .. Len(ls) |-> IF i < r THEN at[i] ELSE at[i] + 1]
<1>4. \A i \in 0 .. Len(ls) : (i < r => bt[i] = at[i]) /\ (i >= r => bt[i] = at[i] + 1)
  BY <1>1
<1>5. bt \in [0 .. Len(ls) -> Nat]
  BY <1>2
<1> HIDE DEF bt
<1>6. bt[0] = 0 /\ bt[Len(ls)] = (n + 1) + 1 /\ ms # << >>
  <2>1. 0 \in 0 .. Len(ls) /\ 0 < r /\ Len(ls) \in 0 .. Len(ls) /\ Len(ls) >= r
    BY <1>1
  <2>2. Len(ms) # 0
    BY <1>1, <1>3
  <2> QED
    BY <1>2, <1>4, <2>1, <2>2, EmptySeq
<1>7. bt[r - 1] = at[r - 1]
  <2>1. r - 1 \in 0 .. Len(ls) /\ r - 1 < r
    BY <1>1
  <2> QED
    BY <1>4, <2>1
<1>8. ASSUME NEW i \in 1 .. Len(ls)
      PROVE  /\ bt[i] = bt[i - 1] + Len(ms[i]) + 1
             /\ \A k \in 1 .. Len(ms[i]) : u[bt[i - 1] + k] = ms[i][k]
             /\ i < Len(ls) => u[bt[i]] = Newline
  <2>1. /\ i \in Nat /\ Len(ls[i]) \in Nat /\ at[i] \in Nat /\ at[i - 1] \in Nat
        /\ at[i] = at[i - 1] + Len(ls[i]) + 1
    BY RowIs
  <2>2. i \in 0 .. Len(ls) /\ i - 1 \in 0 .. Len(ls)
    BY <1>1
  <2>3. CASE i < r
    <3>1. i - 1 < r
      BY <1>1, <2>1, <2>3
    <3>2. bt[i] = at[i] /\ bt[i - 1] = at[i - 1] /\ ms[i] = ls[i]
      BY <1>1, <1>3, <1>4, <2>2, <2>3, <3>1
    <3>3. u[at[i]] = Newline /\ \A k \in 1 .. Len(ls[i]) : u[at[i - 1] + k] = ls[i][k]
      BY <2>3, RowBefore
    <3> QED
      BY <2>1, <3>2, <3>3
  <2>4. CASE i > r
    <3>1. i - 1 >= r /\ i >= r /\ i # r
      BY <1>1, <2>1, <2>4
    <3>2. bt[i] = at[i] + 1 /\ bt[i - 1] = at[i - 1] + 1 /\ ms[i] = ls[i]
      BY <1>3, <1>4, <2>2, <3>1
    <3>3. /\ i < Len(ls) => u[at[i] + 1] = Newline
          /\ \A k \in 1 .. Len(ls[i]) : u[at[i - 1] + 1 + k] = ls[i][k]
      BY <2>4, <3>1, RowAfter
    <3>4. bt[i] = bt[i - 1] + Len(ms[i]) + 1
      <4> DEFINE a == at[i]
                 b == at[i - 1]
                 l == Len(ls[i])
      <4>1. bt[i] = a + 1 /\ bt[i - 1] = b + 1 /\ Len(ms[i]) = l
        BY <3>2
      <4>2. a \in Nat /\ b \in Nat /\ l \in Nat /\ a = b + l + 1
        BY <2>1
      <4> HIDE DEF a, b, l
      <4> QED
        BY <4>1, <4>2
    <3> QED
      BY <3>2, <3>3, <3>4
  <2>5. CASE i = r
    <3>1. bt[i] = at[r] + 1 /\ bt[i - 1] = at[r - 1] /\ Len(ms[i]) = Len(ls[r]) + 1
      BY <1>1, <1>3, <1>4, <1>7, <2>2, <2>5
    <3>2. bt[i] = bt[i - 1] + Len(ms[i]) + 1
      <4> DEFINE a == at[r]
                 b == at[r - 1]
                 l == Len(ls[r])
      <4>1. bt[i] = a + 1 /\ bt[i - 1] = b /\ Len(ms[i]) = l + 1
        BY <3>1
      <4>2. a \in Nat /\ b \in Nat /\ l \in Nat /\ a = b + l + 1
        BY <2>1, <2>5
      <4> HIDE DEF a, b, l
      <4> QED
        BY <4>1, <4>2
    <3>3. i < Len(ls) => u[bt[i]] = Newline
      BY <1>1, <2>5, <3>1, RowAfter
    <3>4. /\ \A k \in 1 .. c : u[at[r - 1] + k] = ls[r][k]
          /\ u[at[r - 1] + c + 1] = ch
          /\ \A k \in c + 1 .. Len(ls[r]) : u[at[r - 1] + k + 1] = ls[r][k]
      BY RowAtCaret
    <3>5. /\ \A k \in 1 .. c : ms[r][k] = ls[r][k]
          /\ ms[r][c + 1] = ch
          /\ \A k \in c + 1 .. Len(ls[r]) : ms[r][k + 1] = ls[r][k]
      BY DEF Typed
    <3>6. ASSUME NEW k \in 1 .. Len(ls[r]) + 1 PROVE u[at[r - 1] + k] = ms[r][k]
      <4>1. CASE k \in 1 .. c
        BY <3>4, <3>5, <4>1
      <4>2. CASE k = c + 1
        <5> DEFINE b == at[r - 1]
        <5>0. b \in Nat /\ c \in Nat
          BY <1>1
        <5>1. b + k = b + c + 1
          <6> HIDE DEF b
          <6> QED
            BY <4>2, <5>0
        <5> QED
          BY <3>4, <3>5, <4>2, <5>1
      <4>3. CASE k > c + 1
        <5> DEFINE m == k - 1
        <5>1. m \in c + 1 .. Len(ls[r]) /\ k = m + 1 /\ at[r - 1] + k = at[r - 1] + m + 1
          BY <1>1, <4>3
        <5> HIDE DEF m
        <5> QED
          BY <3>4, <3>5, <5>1
      <4> QED
        BY <1>1, <4>1, <4>2, <4>3
    <3>7. \A k \in 1 .. Len(ms[i]) : u[bt[i - 1] + k] = ms[i][k]
      BY <2>5, <3>1, <3>6
    <3> QED
      BY <3>2, <3>3, <3>7
  <2> QED
    BY <1>1, <2>1, <2>3, <2>4, <2>5
<1>9. Ruled(u, n + 1, ms, bt)
  <2>1. n + 1 \in Nat /\ bt \in [0 .. Len(ms) -> Nat] /\ bt[Len(ms)] = (n + 1) + 1
    BY <1>2, <1>3, <1>5, <1>6
  <2>2. \A i \in 1 .. Len(ms) :
          /\ bt[i] = bt[i - 1] + Len(ms[i]) + 1
          /\ \A k \in 1 .. Len(ms[i]) : u[bt[i - 1] + k] = ms[i][k]
          /\ i < Len(ms) => u[bt[i]] = Newline
    BY <1>3, <1>8
  <2> QED
    BY <1>3, <1>6, <2>1, <2>2 DEF Ruled
<1>10. Spot(ms, bt, o + 1, r, c + 1)
  <2> DEFINE b == at[r - 1]
             l == Len(ls[r])
  <2>1. r \in 1 .. Len(ms) /\ Len(ms[r]) = l + 1 /\ bt[r - 1] = b
    BY <1>1, <1>3, <1>7
  <2>2. b \in Nat /\ l \in Nat /\ c \in Nat /\ c <= l /\ o = b + c
    BY <1>1
  <2> HIDE DEF b, l
  <2>3. c + 1 \in 0 .. l + 1 /\ o + 1 = b + (c + 1)
    BY <2>2
  <2> QED
    BY <2>1, <2>3 DEF Spot
<1> QED
  BY <1>9, <1>10

(* Breaking a line. *)
LEMMA BrokenRules ==
  ASSUME NEW t, NEW n, NEW ls, NEW at, Ruled(t, n, ls, at),
         NEW o, NEW r, NEW c, Spot(ls, at, o, r, c),
         NEW u, Grown(t, n, u, o, Newline), NEW ms, Broken(ls, r, c, ms)
  PROVE  \E bt : Ruled(u, n + 1, ms, bt) /\ Spot(ms, bt, o + 1, r + 1, 0)
<1>1. /\ r \in Nat /\ r >= 1 /\ r <= Len(ls) /\ r \in 1 .. Len(ls)
      /\ c \in Nat /\ c <= Len(ls[r]) /\ Len(ls) \in Nat /\ Len(ls[r]) \in Nat
      /\ o \in Nat /\ at[r - 1] \in Nat /\ o = at[r - 1] + c
      /\ at[r] \in Nat /\ at[r] = o + (Len(ls[r]) - c) + 1
  BY SpotInside
<1>2. n \in Nat /\ at[0] = 0 /\ at[Len(ls)] = n + 1 /\ \A i \in 0 .. Len(ls) : at[i] \in Nat
  BY RuledRows
<1> DEFINE L == Len(ls) + 1
<1>3. /\ ms \in Seq(Seq(TextKeys)) /\ Len(ms) = L
      /\ \A i \in 1 .. Len(ls) : i < r => ms[i] = ls[i]
      /\ Len(ms[r]) = c /\ Len(ms[r + 1]) = Len(ls[r]) - c
      /\ \A i \in 1 .. Len(ls) : i > r => ms[i + 1] = ls[i]
  BY DEF Broken
<1> DEFINE bt == [i \in 0 .. L |-> IF i < r THEN at[i] ELSE IF i = r THEN o + 1 ELSE at[i - 1] + 1]
<1>4. /\ bt[r] = o + 1 /\ \A i \in 0 .. L : i < r => bt[i] = at[i]
      /\ \A i \in 0 .. Len(ls) : i >= r => bt[i + 1] = at[i] + 1
  <2>1. ASSUME NEW i \in 0 .. Len(ls), i >= r PROVE bt[i + 1] = at[i] + 1
    <3>1. i + 1 \in 0 .. L /\ ~(i + 1 < r) /\ i + 1 # r /\ (i + 1) - 1 = i
      BY <1>1, <2>1
    <3> QED
      BY <3>1
  <2>2. \A i \in 0 .. L : i < r => bt[i] = at[i]
    OBVIOUS
  <2>3. bt[r] = o + 1
    BY <1>1
  <2> QED
    BY <2>1, <2>2, <2>3
<1>5. bt \in [0 .. L -> Nat]
  <2>0. o \in Nat
    BY <1>1
  <2>1. ASSUME NEW i \in 0 .. L
        PROVE  (IF i < r THEN at[i] ELSE IF i = r THEN o + 1 ELSE at[i - 1] + 1) \in Nat
    <3>1. i < r => at[i] \in Nat
      <4>1. i < r => i \in 0 .. Len(ls)
        BY <1>1
      <4> QED
        BY <1>2, <4>1
    <3>2. ~(i < r) /\ i # r => at[i - 1] \in Nat
      <4>1. ~(i < r) /\ i # r => i - 1 \in 0 .. Len(ls)
        BY <1>1
      <4> QED
        BY <1>2, <4>1
    <3>3. o + 1 \in Nat
      BY <2>0
    <3>4. CASE i < r
      BY <3>1, <3>4
    <3>5. CASE ~(i < r) /\ i = r
      BY <3>3, <3>5
    <3>6. CASE ~(i < r) /\ i # r
      <4>1. at[i - 1] + 1 \in Nat
        BY <3>2, <3>6
      <4> QED
        BY <3>6, <4>1
    <3> QED
      BY <3>4, <3>5, <3>6
  <2> QED
    BY <2>1
<1> HIDE DEF bt
<1>6. bt[0] = 0 /\ bt[L] = (n + 1) + 1 /\ ms # << >>
  <2>1. 0 \in 0 .. L /\ 0 < r /\ Len(ls) \in 0 .. Len(ls) /\ Len(ls) >= r
    BY <1>1
  <2>2. Len(ms) # 0
    BY <1>1, <1>3
  <2> QED
    BY <1>2, <1>4, <2>1, <2>2, EmptySeq
<1>7. bt[r - 1] = at[r - 1]
  <2>1. r - 1 \in 0 .. L /\ r - 1 < r
    BY <1>1
  <2> QED
    BY <1>4, <2>1
<1>8. /\ \A k \in 1 .. c : u[at[r - 1] + k] = ls[r][k]
      /\ u[at[r - 1] + c + 1] = Newline
      /\ \A k \in c + 1 .. Len(ls[r]) : u[at[r - 1] + k + 1] = ls[r][k]
  BY RowAtCaret
<1>9. ASSUME NEW i \in 1 .. L
      PROVE  /\ bt[i] = bt[i - 1] + Len(ms[i]) + 1
             /\ \A k \in 1 .. Len(ms[i]) : u[bt[i - 1] + k] = ms[i][k]
             /\ i < L => u[bt[i]] = Newline
  <2>1. CASE i < r
    <3>1. i \in 1 .. Len(ls) /\ i \in 0 .. L /\ i - 1 \in 0 .. L /\ i - 1 < r
      <4> DEFINE m == Len(ls)
      <4>1. m \in Nat /\ r \in Nat /\ r <= m /\ i \in 1 .. m + 1 /\ i < r
        BY <1>1, <2>1
      <4>2. i \in 1 .. m /\ i \in 0 .. m + 1 /\ i - 1 \in 0 .. m + 1 /\ i - 1 < r
        <5> HIDE DEF m
        <5> QED
          BY <4>1
      <4> QED
        BY <4>2
    <3>2. bt[i] = at[i] /\ bt[i - 1] = at[i - 1] /\ ms[i] = ls[i]
      BY <1>3, <1>4, <2>1, <3>1
    <3>3. u[at[i]] = Newline /\ \A k \in 1 .. Len(ls[i]) : u[at[i - 1] + k] = ls[i][k]
      BY <2>1, <3>1, RowBefore
    <3>4. at[i] = at[i - 1] + Len(ls[i]) + 1
      BY <3>1, RowIs
    <3> QED
      BY <3>2, <3>3, <3>4
  <2>2. CASE i = r
    <3>1. bt[i] = o + 1 /\ bt[i - 1] = at[r - 1] /\ Len(ms[i]) = c
      BY <1>3, <1>4, <1>7, <2>2
    <3>2. bt[i] = bt[i - 1] + Len(ms[i]) + 1
      <4> DEFINE b == at[r - 1]
      <4>1. bt[i] = o + 1 /\ bt[i - 1] = b /\ Len(ms[i]) = c /\ b \in Nat /\ c \in Nat /\ o = b + c
        BY <1>1, <3>1
      <4> HIDE DEF b
      <4> QED
        BY <4>1
    <3>3. u[bt[i]] = Newline
      <4>1. o + 1 = at[r - 1] + c + 1
        BY <1>1
      <4> QED
        BY <1>8, <3>1, <4>1
    <3>4. \A k \in 1 .. c : ms[r][k] = ls[r][k]
      BY DEF Broken
    <3>5. \A k \in 1 .. Len(ms[i]) : u[bt[i - 1] + k] = ms[i][k]
      BY <1>8, <2>2, <3>1, <3>4
    <3> QED
      BY <3>2, <3>3, <3>5
  <2>3. CASE i = r + 1
    <3>1. r \in 0 .. Len(ls) /\ r >= r
      BY <1>1
    <3>2. bt[i] = at[r] + 1 /\ bt[i - 1] = o + 1 /\ Len(ms[i]) = Len(ls[r]) - c
      <4>1. i - 1 = r
        BY <1>1, <2>3
      <4> QED
        BY <1>3, <1>4, <2>3, <3>1, <4>1
    <3>3. bt[i] = bt[i - 1] + Len(ms[i]) + 1
      BY <1>1, <3>2
    <3>4. i < L => u[bt[i]] = Newline
      <4> SUFFICES ASSUME i < L PROVE u[bt[i]] = Newline
        OBVIOUS
      <4>1. r < Len(ls) /\ r >= r /\ r \in 1 .. Len(ls)
        BY <1>1, <2>3
      <4>2. r >= r /\ r < Len(ls) => u[at[r] + 1] = Newline
        BY <4>1, RowAfter
      <4> QED
        BY <3>2, <4>1, <4>2
    <3>5. \A k \in 1 .. Len(ls[r]) - c : ms[r + 1][k] = ls[r][c + k]
      BY DEF Broken
    <3>6. ASSUME NEW k \in 1 .. Len(ls[r]) - c PROVE u[o + 1 + k] = ms[r + 1][k]
      <4> DEFINE m == c + k
      <4>0. m \in c + 1 .. Len(ls[r])
        BY <1>1
      <4>1. o + 1 + k = at[r - 1] + m + 1
        <5> DEFINE b == at[r - 1]
        <5>1. b \in Nat /\ o = b + c /\ c \in Nat /\ k \in Int
          BY <1>1
        <5>2. o + 1 + k = b + m + 1
          <6> HIDE DEF b
          <6> QED
            BY <5>1
        <5> QED
          BY <5>2
      <4>2. ms[r + 1][k] = ls[r][m]
        BY <3>5
      <4> HIDE DEF m
      <4> QED
        BY <1>8, <4>0, <4>1, <4>2
    <3>7. \A k \in 1 .. Len(ms[i]) : u[bt[i - 1] + k] = ms[i][k]
      BY <2>3, <3>2, <3>6
    <3> QED
      BY <3>3, <3>4, <3>7
  <2>4. CASE i > r + 1
    <3> DEFINE j == i - 1
    <3>1. /\ j \in 1 .. Len(ls) /\ j > r /\ j >= r /\ i = j + 1 /\ j \in 0 .. Len(ls)
          /\ j - 1 >= r /\ j - 1 \in 0 .. Len(ls) /\ (i < L <=> j < Len(ls)) /\ (j - 1) + 1 = j
      <4> DEFINE m == Len(ls)
      <4>1. m \in Nat /\ r \in Nat /\ r >= 1 /\ i \in 1 .. m + 1 /\ i > r + 1 /\ j = i - 1
        BY <1>1, <2>4
      <4>2. /\ j \in 1 .. m /\ j > r /\ j >= r /\ i = j + 1 /\ j \in 0 .. m
            /\ j - 1 >= r /\ j - 1 \in 0 .. m /\ (j - 1) + 1 = j
        <5> HIDE DEF m, j
        <5> QED
          BY <4>1
      <4>3. i < m + 1 <=> j < m
        <5> HIDE DEF m, j
        <5> QED
          BY <4>1
      <4> QED
        BY <4>2, <4>3
    <3>2. i - 1 = j
      OBVIOUS
    <3> HIDE DEF j
    <3>3. bt[i] = at[j] + 1 /\ bt[i - 1] = at[j - 1] + 1 /\ ms[i] = ls[j]
      <4>1. bt[i] = at[j] + 1 /\ ms[i] = ls[j]
        BY <1>3, <1>4, <3>1
      <4>2. bt[(j - 1) + 1] = at[j - 1] + 1
        BY <1>4, <3>1
      <4> QED
        BY <3>1, <3>2, <4>1, <4>2
    <3>4. /\ j < Len(ls) => u[at[j] + 1] = Newline
          /\ \A k \in 1 .. Len(ls[j]) : u[at[j - 1] + 1 + k] = ls[j][k]
      BY <3>1, RowAfter
    <3>5. bt[i] = bt[i - 1] + Len(ms[i]) + 1
      <4> DEFINE a == at[j]
                 b == at[j - 1]
                 l == Len(ls[j])
      <4>1. bt[i] = a + 1 /\ bt[i - 1] = b + 1 /\ Len(ms[i]) = l
        BY <3>3
      <4>2. a \in Nat /\ b \in Nat /\ l \in Nat /\ a = b + l + 1
        BY <3>1, RowIs
      <4> HIDE DEF a, b, l
      <4> QED
        BY <4>1, <4>2
    <3> QED
      BY <3>1, <3>3, <3>4, <3>5
  <2> QED
    BY <1>1, <2>1, <2>2, <2>3, <2>4
<1>10. Ruled(u, n + 1, ms, bt)
  <2>1. n + 1 \in Nat /\ bt \in [0 .. Len(ms) -> Nat] /\ bt[Len(ms)] = (n + 1) + 1
    BY <1>2, <1>3, <1>5, <1>6
  <2>2. \A i \in 1 .. Len(ms) :
          /\ bt[i] = bt[i - 1] + Len(ms[i]) + 1
          /\ \A k \in 1 .. Len(ms[i]) : u[bt[i - 1] + k] = ms[i][k]
          /\ i < Len(ms) => u[bt[i]] = Newline
    BY <1>3, <1>9
  <2> QED
    BY <1>3, <1>6, <2>1, <2>2 DEF Ruled
<1>11. Spot(ms, bt, o + 1, r + 1, 0)
  <2>1. r + 1 \in 1 .. Len(ms) /\ 0 \in 0 .. Len(ms[r + 1]) /\ o + 1 = bt[(r + 1) - 1] + 0
    <3>1. r + 1 \in 1 .. Len(ms)
      BY <1>1, <1>3
    <3>2. Len(ms[r + 1]) = Len(ls[r]) - c
      BY <1>3
    <3>3. Len(ls[r]) - c >= 0 /\ Len(ls[r]) - c \in Int
      BY <1>1
    <3>4. 0 \in 0 .. Len(ms[r + 1])
      BY <3>2, <3>3
    <3>5. (r + 1) - 1 = r /\ o + 1 = (o + 1) + 0
      BY <1>1
    <3>6. bt[(r + 1) - 1] = o + 1
      BY <1>4, <3>5
    <3> QED
      BY <3>1, <3>4, <3>5, <3>6
  <2> QED
    BY <2>1 DEF Spot
<1> QED
  BY <1>10, <1>11

LEMMA AllNumbers ==
  ASSUME NEW T \in SUBSET Nat, 0 \in T, \A m \in T : m + 1 \in T
  PROVE  \A m \in Nat : m \in T
<1> DEFINE D == {m \in Nat : m \notin T}
<1>1. ASSUME D # {} PROVE FALSE
  <2>1. PICK x \in D : \A y \in D : x <= y
    <3>1. D \in SUBSET Nat
      OBVIOUS
    <3> HIDE DEF D
    <3> QED
      BY <1>1, <3>1, LeastOf
  <2>2. x \in Nat /\ x # 0 /\ x \notin T
    BY <2>1
  <2>3. x - 1 \in Nat /\ x - 1 \notin D /\ (x - 1) + 1 = x
    BY <2>1, <2>2
  <2> QED
    BY <2>2, <2>3
<1> QED
  BY <1>1

(* One turn of the loop that cuts. *)
Extended(t, ls, n) ==
  IF t[n] = Newline THEN Append(ls, << >>) ELSE [ls EXCEPT ![Len(ls)] = Append(@, t[n])]

LEMMA CutIs ==
  ASSUME NEW t, NEW n \in Nat, Len(t) = n
  PROVE  \E g : /\ Cut(t) = g[n] /\ g[0] = << << >> >>
                /\ \A k \in 1 .. n : g[k] = Extended(t, g[k - 1], k)
<1> DEFINE Row(k, x) == IF k = 0 THEN << << >> >> ELSE Extended(t, x, k)
           Is(g, m) == g = [k \in 0 .. m |-> Row(k, g[k - 1])]
           T == {m \in Nat : \E g : Is(g, m)}
<1>1. 0 \in T
  <2> DEFINE g == [k \in 0 .. 0 |-> << << >> >>]
  <2>1. \A x : Row(0, x) = << << >> >>
    OBVIOUS
  <2>2. \A k \in 0 .. 0 : k = 0
    OBVIOUS
  <2> HIDE DEF Row
  <2>3. Is(g, 0)
    BY <2>1, <2>2
  <2> HIDE DEF Is, g
  <2>4. \E h : Is(h, 0)
    BY <2>3
  <2> QED
    BY <2>4
<1>2. ASSUME NEW m \in T PROVE m + 1 \in T
  <2>1. \A x, y : Row(0, x) = Row(0, y)
    OBVIOUS
  <2> HIDE DEF Row
  <2>2. PICK g : Is(g, m)
    BY <1>2
  <2> DEFINE h == [k \in 0 .. m + 1 |-> IF k = m + 1 THEN Row(m + 1, g[m]) ELSE g[k]]
  <2>3. m \in Nat
    BY <1>2
  <2>4. \A k \in 0 .. m : h[k] = g[k] /\ g[k] = Row(k, g[k - 1])
    BY <2>2, <2>3
  <2>5. h[m + 1] = Row(m + 1, g[m]) /\ h = [k \in 0 .. m + 1 |-> h[k]]
    BY <2>3
  <2> HIDE DEF h
  <2>6. \A k \in 0 .. m + 1 : h[k] = Row(k, h[k - 1])
    <3> TAKE k \in 0 .. m + 1
    <3>1. CASE k = m + 1
      <4>1. h[k - 1] = g[m]
        BY <2>3, <2>4, <3>1
      <4> QED
        BY <2>5, <3>1, <4>1
    <3>2. CASE k # m + 1 /\ k # 0
      <4>1. k \in 0 .. m /\ k - 1 \in 0 .. m
        BY <2>3, <3>2
      <4> QED
        BY <2>4, <4>1
    <3>3. CASE k = 0
      <4>1. 0 \in 0 .. m
        BY <2>3
      <4> QED
        BY <2>1, <2>4, <3>3, <4>1
    <3> QED
      BY <3>1, <3>2, <3>3
  <2>7. Is(h, m + 1)
    BY <2>5, <2>6
  <2> HIDE DEF Is
  <2> QED
    BY <2>3, <2>7
<1>3. n \in T
  <2>1. T \in SUBSET Nat
    OBVIOUS
  <2> HIDE DEF T
  <2> QED
    BY <1>1, <1>2, <2>1, AllNumbers
<1> DEFINE g == CHOOSE g : Is(g, n)
<1>4. Cut(t) = g[n]
  BY DEF Cut, Extended
<1>5. \E h : Is(h, n)
  BY <1>3
<1>6. Is(g, n)
  <2> HIDE DEF Is
  <2> QED
    BY <1>5
<1> HIDE DEF g
<1>7. \A k \in 0 .. n : g[k] = Row(k, g[k - 1])
  <2> HIDE DEF Row
  <2> QED
    BY <1>6
<1>8. g[0] = << << >> >>
  BY <1>7
<1>9. ASSUME NEW k \in 1 .. n PROVE g[k] = Extended(t, g[k - 1], k)
  <2>1. k \in 0 .. n /\ k # 0
    OBVIOUS
  <2> QED
    BY <1>7, <2>1
<1> QED
  BY <1>4, <1>8, <1>9

(* The end of the text is the end of the last row. *)
LEMMA SpotEnd ==
  ASSUME NEW t, NEW n, NEW ls, NEW at, Ruled(t, n, ls, at)
  PROVE  /\ Len(ls) \in 1 .. Len(ls) /\ Len(ls[Len(ls)]) \in Nat
         /\ Spot(ls, at, n, Len(ls), Len(ls[Len(ls)]))
<1> DEFINE r == Len(ls)
<1>1. r \in Nat /\ r >= 1 /\ n \in Nat /\ at[r] = n + 1
  BY RuledRows
<1>2. r \in 1 .. Len(ls)
  BY <1>1
<1> HIDE DEF r
<1>3. Len(ls[r]) \in Nat /\ at[r - 1] \in Nat /\ at[r] = at[r - 1] + Len(ls[r]) + 1
  BY <1>2, RowIs
<1>4. Len(ls[r]) \in 0 .. Len(ls[r])
  BY <1>3
<1>5. n = at[r - 1] + Len(ls[r])
  <2> DEFINE b == at[r - 1]
             l == Len(ls[r])
  <2>1. b \in Nat /\ l \in Nat /\ n \in Nat /\ n + 1 = b + l + 1
    BY <1>1, <1>3
  <2>2. n = b + l
    <3> HIDE DEF b, l
    <3> QED
      BY <2>1
  <2> QED
    BY <2>2
<1> QED
  BY <1>2, <1>3, <1>4, <1>5 DEF Spot, r

LEMMA ExtendedRules ==
  ASSUME NEW t, NEW n, NEW ls, NEW at, Ruled(t, n, ls, at), t[n + 1] \in TextKeys \cup {Newline}
  PROVE  \E bt : Ruled(t, n + 1, Extended(t, ls, n + 1), bt)
<1> DEFINE r == Len(ls)
           c == Len(ls[r])
           ch == t[n + 1]
           ms == Extended(t, ls, n + 1)
<1>1. r \in 1 .. Len(ls) /\ c \in Nat /\ Spot(ls, at, n, r, c)
  BY SpotEnd
<1>2. n \in Nat /\ Len(ls) \in Nat /\ ls \in Seq(Seq(TextKeys))
  BY RuledRows DEF Ruled
<1>3. Grown(t, n, t, n, ch)
  <2>1. \A p \in n + 1 .. n : t[p + 1] = t[p]
    BY <1>2
  <2> QED
    BY <2>1 DEF Grown
<1>4. ls[r] \in Seq(TextKeys) /\ \A k \in c + 1 .. Len(ls[r]) : FALSE
  BY <1>1, RowIs
<1>5. CASE ch = Newline
  <2>1. ms = Append(ls, << >>)
    BY <1>5 DEF Extended
  <2>2. << >> \in Seq(TextKeys) /\ Len(<< >>) = 0
    BY EmptySeq
  <2>3. /\ ms \in Seq(Seq(TextKeys)) /\ Len(ms) = Len(ls) + 1 /\ ms[r + 1] = << >>
        /\ \A i \in 1 .. Len(ls) : ms[i] = ls[i]
    <3> DEFINE e == << >>
    <3>1. e \in Seq(TextKeys) /\ ms = Append(ls, e)
      BY <2>1, <2>2
    <3> HIDE DEF e, ms
    <3>2. /\ ms \in Seq(Seq(TextKeys)) /\ Len(ms) = Len(ls) + 1 /\ ms[Len(ls) + 1] = e
          /\ \A i \in 1 .. Len(ls) : ms[i] = ls[i]
      BY <1>2, <3>1, AppendProperties
    <3> QED
      BY <3>2 DEF e
  <2>4. Broken(ls, r, c, ms)
    <3> HIDE DEF ms
    <3>1. Len(ms[r + 1]) = c - c /\ \A k \in 1 .. c - c : FALSE
      BY <1>1, <2>2, <2>3
    <3>2. \A i \in 1 .. Len(ls) : ~(i > r)
      BY <1>2
    <3>3. ms[r] = ls[r]
      BY <1>1, <2>3
    <3> QED
      BY <2>3, <3>1, <3>2, <3>3 DEF Broken
  <2>5. Grown(t, n, t, n, Newline)
    BY <1>3, <1>5
  <2> HIDE DEF ms, c, r, ch
  <2> QED
    BY <1>1, <2>4, <2>5, BrokenRules DEF ms
<1>6. CASE ch # Newline
  <2>1. ms = [ls EXCEPT ![r] = Append(ls[r], ch)] /\ ch \in TextKeys
    BY <1>6 DEF Extended
  <2>2. /\ Append(ls[r], ch) \in Seq(TextKeys) /\ Len(Append(ls[r], ch)) = c + 1
        /\ Append(ls[r], ch)[c + 1] = ch /\ \A k \in 1 .. c : Append(ls[r], ch)[k] = ls[r][k]
    BY <1>4, <2>1, AppendProperties
  <2> DEFINE line == Append(ls[r], ch)
  <2> HIDE DEF ms, line, c, ch, r
  <2>3. /\ ms \in Seq(Seq(TextKeys)) /\ Len(ms) = Len(ls) /\ ms[r] = line
        /\ \A i \in 1 .. Len(ls) : i # r => ms[i] = ls[i]
    BY <1>1, <1>2, <2>1, <2>2, ExceptSeq DEF line
  <2>4. Len(ls[r]) = c
    BY DEF c
  <2>5. Typed(ls, r, c, ch, ms)
    BY <1>4, <2>2, <2>3, <2>4 DEF Typed, line
  <2> QED
    BY <1>1, <1>3, <2>5, TypedRules DEF ms
<1> QED
  BY <1>5, <1>6

(* Cutting a text gives its lines. *)
LEMMA CutRules ==
  ASSUME NEW t \in Seq(TextChars)
  PROVE  \E at : Ruled(t, Len(t), Cut(t), at)
<1> DEFINE n == Len(t)
<1>1. n \in Nat /\ \A m \in 1 .. n : t[m] \in TextKeys \cup {Newline}
  BY LenProperties, ElementOfSeq DEF TextChars
<1>2. PICK g : /\ Cut(t) = g[n] /\ g[0] = << << >> >>
               /\ \A k \in 1 .. n : g[k] = Extended(t, g[k - 1], k)
  BY <1>1, CutIs
<1> HIDE DEF n
<1> DEFINE Some(m) == \E at : Ruled(t, m, g[m], at)
           T == {m \in Nat : m <= n => Some(m)}
<1>3. Some(0)
  <2> DEFINE ls == << << >> >>
             at == [i \in 0 .. 1 |-> i]
  <2>1. << >> \in Seq(TextKeys) /\ Len(<< >>) = 0
    BY EmptySeq
  <2>2. ls \in Seq(Seq(TextKeys)) /\ Len(ls) = 1 /\ ls # << >> /\ ls[1] = << >>
    BY <2>1
  <2>3. at \in [0 .. 1 -> Nat] /\ at[0] = 0 /\ at[1] = 0 + 1 /\ at[1] = at[0] + 0 + 1
    OBVIOUS
  <2>4. \A i \in 1 .. 1 : i = 1 /\ i - 1 = 0
    OBVIOUS
  <2> HIDE DEF ls, at
  <2>5. \A i \in 1 .. Len(ls) : at[i] = at[i - 1] + Len(ls[i]) + 1
    BY <2>1, <2>2, <2>3, <2>4
  <2>6. \A i \in 1 .. Len(ls) : \A k \in 1 .. Len(ls[i]) : FALSE
    BY <2>1, <2>2, <2>4
  <2>7. \A i \in 1 .. Len(ls) : ~(i < Len(ls))
    BY <2>2
  <2>8. Ruled(t, 0, ls, at)
    BY <2>2, <2>3, <2>5, <2>6, <2>7 DEF Ruled
  <2>9. g[0] = ls
    BY <1>2 DEF ls
  <2> QED
    BY <2>8, <2>9
<1>4. ASSUME NEW m \in Nat, m + 1 <= n, Some(m) PROVE Some(m + 1)
  <2>1. PICK at : Ruled(t, m, g[m], at)
    BY <1>4
  <2>2. m + 1 \in 1 .. n /\ (m + 1) - 1 = m
    BY <1>1, <1>4
  <2>3. g[m + 1] = Extended(t, g[m], m + 1)
    BY <1>2, <2>2
  <2>4. t[m + 1] \in TextKeys \cup {Newline}
    BY <1>1, <2>2
  <2>5. \E bt : Ruled(t, m + 1, Extended(t, g[m], m + 1), bt)
    BY <2>1, <2>4, ExtendedRules
  <2> QED
    BY <2>3, <2>5
<1> HIDE DEF Some
<1>5. 0 \in T /\ \A m \in T : m + 1 \in T
  <2>1. \A m \in Nat : m + 1 <= n => m <= n
    BY <1>1
  <2> QED
    BY <1>3, <1>4, <2>1
<1>6. n \in T
  <2>1. T \in SUBSET Nat
    OBVIOUS
  <2> HIDE DEF T
  <2> QED
    BY <1>1, <1>5, <2>1, AllNumbers
<1>7. Some(n)
  BY <1>1, <1>6
<1> QED
  BY <1>2, <1>7 DEF Some, n

(* What stands before an offset, and where that offset is. *)
Precedes(t, ls, at, o, r, c) ==
  \/ /\ c > 0 /\ Spot(ls, at, o - 1, r, c - 1)
     /\ t[o] = ls[r][c] /\ t[o] \in TextKeys /\ t[o] # Newline
  \/ /\ c = 0 /\ r > 1 /\ Spot(ls, at, o - 1, r - 1, Len(ls[r - 1]))
     /\ t[o] = Newline

(* One character back, and one on. *)
LEMMA SpotBack ==
  ASSUME NEW t, NEW n, NEW ls, NEW at, Ruled(t, n, ls, at),
         NEW o, NEW r, NEW c, Spot(ls, at, o, r, c), o > 0
  PROVE  Precedes(t, ls, at, o, r, c)
<1>1. /\ r \in Nat /\ r >= 1 /\ r <= Len(ls) /\ r \in 1 .. Len(ls) /\ c \in Nat /\ c <= Len(ls[r])
      /\ Len(ls) \in Nat /\ Len(ls[r]) \in Nat
      /\ o \in Nat /\ at[r - 1] \in Nat /\ o = at[r - 1] + c
  BY SpotInside
<1>2. CASE c > 0
  <2>1. c \in 1 .. Len(ls[r]) /\ c - 1 \in 0 .. Len(ls[r]) /\ o - 1 = at[r - 1] + (c - 1)
    BY <1>1, <1>2
  <2>2. t[at[r - 1] + c] = ls[r][c] /\ ls[r][c] \in TextKeys /\ ls[r][c] # Newline
    BY <1>1, <2>1, RowIs
  <2> QED
    BY <1>1, <1>2, <2>1, <2>2 DEF Spot, Precedes
<1>3. CASE c = 0
  <2> DEFINE q == r - 1
  <2>1. o = at[q] /\ q \in Nat
    BY <1>1, <1>3
  <2>2. q # 0
    BY <2>1, RuledRows
  <2>3. q \in 1 .. Len(ls) /\ q < Len(ls) /\ r > 1
    BY <1>1, <2>1, <2>2
  <2> HIDE DEF q
  <2>4. /\ Len(ls[q]) \in Nat /\ at[q - 1] \in Nat /\ at[q] = at[q - 1] + Len(ls[q]) + 1
        /\ t[at[q]] = Newline
    BY <2>3, RowIs
  <2>5. Len(ls[q]) \in 0 .. Len(ls[q]) /\ o - 1 = at[q - 1] + Len(ls[q])
    BY <2>1, <2>4
  <2>6. Spot(ls, at, o - 1, q, Len(ls[q]))
    BY <2>3, <2>5 DEF Spot
  <2>7. t[o] = Newline
    BY <2>1, <2>4
  <2> QED
    BY <1>3, <2>3, <2>6, <2>7 DEF q, Precedes
<1> QED
  BY <1>1, <1>2, <1>3

LEMMA SpotOn ==
  ASSUME NEW t, NEW n, NEW ls, NEW at, Ruled(t, n, ls, at),
         NEW o, NEW r, NEW c, Spot(ls, at, o, r, c), o < n
  PROVE  \/ c < Len(ls[r]) /\ Spot(ls, at, o + 1, r, c + 1)
         \/ c = Len(ls[r]) /\ r < Len(ls) /\ Spot(ls, at, o + 1, r + 1, 0)
<1>1. /\ r \in Nat /\ r >= 1 /\ r <= Len(ls) /\ r \in 1 .. Len(ls) /\ c \in Nat /\ c <= Len(ls[r])
      /\ Len(ls) \in Nat /\ Len(ls[r]) \in Nat
      /\ o \in Nat /\ at[r - 1] \in Nat /\ o = at[r - 1] + c
      /\ at[r] \in Nat /\ at[r] = o + (Len(ls[r]) - c) + 1
  BY SpotInside
<1>2. CASE c < Len(ls[r])
  <2>1. c + 1 \in 0 .. Len(ls[r]) /\ o + 1 = at[r - 1] + (c + 1)
    <3> DEFINE b == at[r - 1]
               l == Len(ls[r])
    <3>1. b \in Nat /\ l \in Nat /\ c \in Nat /\ c < l /\ o = b + c
      BY <1>1, <1>2
    <3>2. c + 1 \in 0 .. l /\ o + 1 = b + (c + 1)
      <4> HIDE DEF b, l
      <4> QED
        BY <3>1
    <3> QED
      BY <3>2
  <2> QED
    BY <1>1, <1>2, <2>1 DEF Spot
<1>3. CASE c = Len(ls[r])
  <2>1. at[r] = o + 1
    BY <1>1, <1>3
  <2>2. n \in Nat /\ at[Len(ls)] = n + 1
    BY RuledRows
  <2>3. r # Len(ls)
    BY <1>1, <2>1, <2>2
  <2> DEFINE q == r + 1
  <2>4. q \in 1 .. Len(ls) /\ r < Len(ls) /\ q - 1 = r
    BY <1>1, <2>3
  <2> HIDE DEF q
  <2>5. Len(ls[q]) \in Nat
    BY <2>4, RowIs
  <2>6. 0 \in 0 .. Len(ls[q]) /\ o + 1 = at[q - 1] + 0
    <3>1. at[r] \in Nat /\ at[q - 1] = at[r] /\ at[r] = (o + 1) + 0
      BY <1>1, <2>1, <2>4
    <3>2. 0 \in 0 .. Len(ls[q])
      BY <2>5
    <3>3. o + 1 = at[q - 1] + 0
      BY <2>1, <1>1, <3>1
    <3> QED
      BY <3>2, <3>3
  <2>7. Spot(ls, at, o + 1, q, 0)
    BY <2>4, <2>6 DEF Spot
  <2> QED
    BY <1>3, <2>4, <2>7 DEF q
<1> QED
  BY <1>1, <1>2, <1>3

(* line_of, line_start and line_end, by the rows. *)
LEMMA NewlinesRuled ==
  ASSUME NEW t, NEW n, NEW ls, NEW at, Ruled(t, n, ls, at), NEW o \in Nat
  PROVE  \A r, c : Spot(ls, at, o, r, c) => Cardinality(Newlines(t, o)) = r - 1
<1> DEFINE Right(m) == \A r, c : Spot(ls, at, m, r, c) => Cardinality(Newlines(t, m)) = r - 1
           T == {m \in Nat : Right(m)}
<1>1. Right(0)
  <2> SUFFICES ASSUME NEW r, NEW c, Spot(ls, at, 0, r, c)
               PROVE  Cardinality(Newlines(t, 0)) = r - 1
    OBVIOUS
  <2>1. /\ r \in Nat /\ r >= 1 /\ r <= Len(ls) /\ c \in Nat /\ Len(ls) \in Nat
        /\ at[r - 1] \in Nat /\ 0 = at[r - 1] + c
    BY SpotInside
  <2> DEFINE q == r - 1
  <2>2. at[q] = 0 /\ q \in 0 .. Len(ls) /\ 0 \in 0 .. Len(ls) /\ at[0] = 0
    BY <2>1, RuledRows
  <2>3. 0 < q => at[0] < at[q]
    <3> HIDE DEF q
    <3> QED
      BY <2>2, EndsGrow
  <2>4. q = 0
    <3> HIDE DEF q
    <3> QED
      BY <2>1, <2>2, <2>3
  <2> QED
    BY <2>4, NewlinesFinite
<1>2. ASSUME NEW m \in Nat, Right(m) PROVE Right(m + 1)
  <2> SUFFICES ASSUME NEW r, NEW c, Spot(ls, at, m + 1, r, c)
               PROVE  Cardinality(Newlines(t, m + 1)) = r - 1
    OBVIOUS
  <2>1. m + 1 > 0 /\ (m + 1) - 1 = m /\ r \in Nat
    BY SpotInside
  <2>2. \/ Spot(ls, at, m, r, c - 1) /\ t[m + 1] # Newline
        \/ Spot(ls, at, m, r - 1, Len(ls[r - 1])) /\ t[m + 1] = Newline
    <3>1. Precedes(t, ls, at, m + 1, r, c)
      BY <2>1, SpotBack
    <3> QED
      BY <2>1, <3>1 DEF Precedes
  <2> DEFINE w == Cardinality(Newlines(t, m))
  <2>3. \/ w = r - 1 /\ t[m + 1] # Newline
        \/ w = r - 1 - 1 /\ t[m + 1] = Newline
    BY <1>2, <2>2
  <2>4. Cardinality(Newlines(t, m + 1)) = IF t[m + 1] = Newline THEN w + 1 ELSE w
    BY NewlinesNext
  <2> HIDE DEF w
  <2> QED
    BY <2>1, <2>3, <2>4
<1> HIDE DEF Right
<1>3. o \in T
  <2>1. T \in SUBSET Nat /\ 0 \in T /\ \A m \in T : m + 1 \in T
    BY <1>1, <1>2
  <2> HIDE DEF T
  <2> QED
    BY <2>1, AllNumbers
<1> QED
  BY <1>3 DEF Right

LEMMA LineIs ==
  ASSUME NEW t \in Seq(TextChars), NEW ls, NEW at, Ruled(t, Len(t), ls, at),
         NEW o, NEW r, NEW c, Spot(ls, at, o, r, c)
  PROVE  LineOf(t, o) = r - 1
<1>1. o \in 0 .. Len(t) /\ o \in Nat
  BY SpotInside
<1>2. LineOf(t, o) = Cardinality(Newlines(t, o))
  BY <1>1, LineOfIs
<1> QED
  BY <1>1, <1>2, NewlinesRuled

(* Newlines are where rows end. *)
LEMMA NewlineEnds ==
  ASSUME NEW t \in Seq(TextChars), NEW ls, NEW at, Ruled(t, Len(t), ls, at),
         NEW i \in Newlines(t, Len(t))
  PROVE  LineOf(t, i) \in 1 .. Len(ls) - 1 /\ i = at[LineOf(t, i)]
<1>1. Len(t) \in Nat /\ i \in 1 .. Len(t) /\ t[i] = Newline
  BY LenProperties DEF Newlines
<1>2. i \in 0 .. Len(t) /\ i > 0
  BY <1>1
<1>3. PICK r, c : Spot(ls, at, i, r, c)
  BY <1>2, SpotExists
<1>4. c = 0 /\ r > 1
  <2>1. Precedes(t, ls, at, i, r, c)
    BY <1>2, <1>3, SpotBack
  <2> QED
    BY <1>1, <2>1 DEF Precedes
<1>5. r \in Nat /\ r <= Len(ls) /\ Len(ls) \in Nat /\ at[r - 1] \in Nat /\ i = at[r - 1] + c
  BY <1>3, SpotInside
<1>6. LineOf(t, i) = r - 1
  BY <1>3, LineIs
<1>7. i = at[r - 1]
  BY <1>4, <1>5
<1> QED
  BY <1>4, <1>5, <1>6, <1>7

LEMMA StartIs ==
  ASSUME NEW t \in Seq(TextChars), NEW ls, NEW at, Ruled(t, Len(t), ls, at), NEW l \in Nat
  PROVE  /\ l < Len(ls) => LineStart(t, l) = at[l]
         /\ l >= Len(ls) => LineStart(t, l) = -1
<1>1. Len(ls) \in Nat /\ Len(ls) >= 1 /\ at[0] = 0
  BY RuledRows
<1>2. CASE l = 0
  BY <1>1, <1>2 DEF LineStart
<1>3. CASE l # 0 /\ l < Len(ls)
  <2>1. l \in 1 .. Len(ls)
    BY <1>1, <1>3
  <2> DEFINE i == at[l]
  <2>2. i \in 1 .. Len(t) /\ t[i] = Newline
    BY <1>3, <2>1, RowIs, RowInside
  <2>3. Spot(ls, at, i, l + 1, 0)
    <3> DEFINE q == l + 1
    <3>1. q \in 1 .. Len(ls) /\ q - 1 = l
      BY <1>1, <1>3
    <3> HIDE DEF q
    <3>2. Len(ls[q]) \in Nat /\ at[l] \in Nat
      BY <3>1, RowIs
    <3>3. 0 \in 0 .. Len(ls[q]) /\ at[l] = at[q - 1] + 0
      BY <3>1, <3>2
    <3>4. Spot(ls, at, i, q, 0)
      BY <3>1, <3>3 DEF Spot
    <3> QED
      BY <3>4 DEF q
  <2>4. LineOf(t, i) = l
    <3>1. LineOf(t, i) = l + 1 - 1
      BY <2>3, LineIs
    <3> QED
      BY <3>1
  <2>5. i \in Newlines(t, Len(t))
    BY <2>2 DEF Newlines
  <2> DEFINE s == CHOOSE j \in Newlines(t, Len(t)) : LineOf(t, j) = l
  <2>6. s \in Newlines(t, Len(t)) /\ LineOf(t, s) = l
    BY <2>4, <2>5
  <2>7. LineStart(t, l) = s
    BY <1>3, <2>4, <2>5 DEF LineStart
  <2> HIDE DEF s
  <2>8. s = at[LineOf(t, s)]
    BY <2>6, NewlineEnds
  <2> QED
    BY <1>3, <2>6, <2>7, <2>8
<1>4. CASE l >= Len(ls)
  <2>1. \A i \in Newlines(t, Len(t)) : LineOf(t, i) \in 1 .. Len(ls) - 1
    BY NewlineEnds
  <2>2. ~ \E i \in Newlines(t, Len(t)) : LineOf(t, i) = l
    BY <1>1, <1>4, <2>1
  <2>3. ~(l <= 0)
    BY <1>1, <1>4
  <2> QED
    BY <1>1, <1>4, <2>2, <2>3 DEF LineStart
<1> QED
  BY <1>1, <1>2, <1>3, <1>4

LEMMA EndIs ==
  ASSUME NEW t \in Seq(TextChars), NEW ls, NEW at, Ruled(t, Len(t), ls, at),
         NEW r \in 1 .. Len(ls)
  PROVE  LineEnd(t, at[r - 1]) = at[r - 1] + Len(ls[r])
<1> DEFINE n == Len(t)
<1>0a. Ruled(t, n, ls, at)
  OBVIOUS
<1> HIDE DEF n
<1>0. \A k \in 1 .. Len(ls[r]) :
        t[at[r - 1] + k] = ls[r][k] /\ ls[r][k] \in TextKeys /\ ls[r][k] # Newline
  BY <1>0a, RowIs
<1> DEFINE b == at[r - 1]
           l == Len(ls[r])
           ends == {i \in b .. Len(t) - 1 : t[i + 1] = Newline}
<1>1. /\ b \in Nat /\ l \in Nat /\ at[r] \in Nat /\ at[r] = b + l + 1
      /\ r < Len(ls) => t[at[r]] = Newline
      /\ \A k \in 1 .. l : t[b + k] # Newline
  <2>2. \A k \in 1 .. l : t[b + k] # Newline
    BY <1>0
  <2>3. b \in Nat /\ l \in Nat /\ at[r] \in Nat /\ at[r] = b + l + 1
    BY RowIs
  <2>4. r < Len(ls) => t[at[r]] = Newline
    BY RowIs
  <2> QED
    BY <2>2, <2>3, <2>4
<1>2. Len(t) \in Nat /\ at[r] <= Len(t) + 1 /\ Len(ls) \in Nat /\ at[Len(ls)] = Len(t) + 1
  BY RowInside, RuledRows
<1> HIDE DEF b, l
<1>3. ASSUME NEW i \in ends PROVE b + l <= i
  <2> SUFFICES ASSUME i < b + l PROVE FALSE
    BY <1>1, <1>2
  <2> DEFINE k == i + 1 - b
  <2>1. k \in 1 .. l /\ b + k = i + 1
    BY <1>1, <1>2
  <2> HIDE DEF k
  <2>2. t[i + 1] # Newline
    BY <1>1, <2>1
  <2> QED
    BY <2>2
<1>4. CASE r < Len(ls)
  <2> DEFINE x == b + l
  <2>1. at[r] \in 1 .. Len(t)
    BY <1>4, RowInside
  <2>2. x \in b .. Len(t) - 1 /\ t[x + 1] = Newline
    BY <1>1, <1>2, <1>4, <2>1
  <2>3. x \in ends /\ \A j \in ends : x <= j
    BY <1>3, <2>2
  <2> DEFINE e == CHOOSE i \in ends : \A j \in ends : i <= j
  <2>4. e \in ends /\ \A j \in ends : e <= j
    BY <2>3
  <2>5. LineEnd(t, b) = e
    BY <2>3 DEF LineEnd
  <2> HIDE DEF e
  <2>6. e \in Int /\ x \in Int /\ e <= x /\ x <= e
    <3>1. e <= x /\ b + l <= e
      BY <1>3, <2>3, <2>4
    <3>2. e \in b .. Len(t) - 1
      BY <2>4
    <3> QED
      BY <1>1, <1>2, <3>1, <3>2
  <2> QED
    BY <2>5, <2>6 DEF b, l
<1>5. CASE r = Len(ls)
  <2>1. b + l = Len(t)
    BY <1>1, <1>2, <1>5
  <2>2. ends = {}
    BY <1>1, <1>2, <1>3, <2>1
  <2>3. LineEnd(t, b) = Len(t)
    BY <2>2 DEF LineEnd
  <2> QED
    BY <2>1, <2>3 DEF b, l
<1> QED
  BY <1>2, <1>4, <1>5

(* A text has one view, which is what Cut shows of it. *)
Sees(t, o, ls, r, c) == \E at : Ruled(t, Len(t), ls, at) /\ Spot(ls, at, o, r, c)

LEMMA SeesExist ==
  ASSUME NEW t \in Seq(TextChars), NEW o \in 0 .. Len(t)
  PROVE  \E r, c : Sees(t, o, Cut(t), r, c)
<1>1. PICK at : Ruled(t, Len(t), Cut(t), at)
  BY CutRules
<1>2. PICK r, c : Spot(Cut(t), at, o, r, c)
  BY <1>1, SpotExists
<1> QED
  BY <1>1, <1>2 DEF Sees

LEMMA SeesCut ==
  ASSUME NEW t \in Seq(TextChars), NEW o, NEW ls, NEW r, NEW c, Sees(t, o, ls, r, c)
  PROVE  /\ Cut(t) = ls /\ Len(Cut(SubSeq(t, 1, o))) = r
         /\ Len(Last(Cut(SubSeq(t, 1, o)))) = c
<1>1. PICK at : Ruled(t, Len(t), ls, at) /\ Spot(ls, at, o, r, c)
  BY DEF Sees
<1>2. PICK bt : Ruled(t, Len(t), Cut(t), bt)
  BY CutRules
<1>3. Cut(t) = ls
  BY <1>1, <1>2, RuledOnce
<1>4. PICK ms, ct : Ruled(t, o, ms, ct) /\ Len(ms) = r /\ Len(ms[r]) = c
  BY <1>1, PrefixRules
<1>5. o \in 0 .. Len(t) /\ Len(t) \in Nat /\ 1 \in 1 .. Len(t) + 2
  BY <1>1, SpotInside, LenProperties
<1> DEFINE u == SubSeq(t, 1, o)
<1>6. /\ u \in Seq(TextChars) /\ Len(u) = (IF 1 <= o THEN o - 1 + 1 ELSE 0)
      /\ \A j \in 1 .. o - 1 + 1 : u[j] = t[1 + j - 1]
  BY <1>5, PieceIs
<1> HIDE DEF u
<1>7. Len(u) = o /\ \A p \in 1 .. o : u[p] = t[p]
  <2>1. o - 1 + 1 = o /\ \A p \in 1 .. o : 1 + p - 1 = p
    BY <1>5
  <2>2. Len(u) = o
    BY <1>5, <1>6
  <2> QED
    BY <1>6, <2>1, <2>2
<1>8. Ruled(u, o, ms, ct)
  BY <1>4, <1>7, RuledSame
<1>9. PICK dt : Ruled(u, o, Cut(u), dt)
  BY <1>6, <1>7, CutRules
<1>10. Cut(u) = ms
  BY <1>8, <1>9, RuledOnce
<1>11. Len(Cut(u)) = r /\ Len(Last(Cut(u))) = c
  BY <1>4, <1>10 DEF Last
<1> QED
  BY <1>3, <1>11 DEF u

(* A sequence with what stands between a and b replaced by m. *)
Spliced(s, a, m, b) == SubSeq(s, 1, a) \o m \o SubSeq(s, b, Len(s))

(* What that is, place by place. *)
Parts(S, s, a, m, b, w) ==
  /\ w \in Seq(S) /\ Len(w) = a + Len(m) + (Len(s) - b + 1)
  /\ \A k \in 1 .. a : w[k] = s[k]
  /\ \A k \in 1 .. Len(m) : w[a + k] = m[k]
  /\ \A k \in b .. Len(s) : w[a + Len(m) + (k - b) + 1] = s[k]

LEMMA PartsIs ==
  ASSUME NEW S, NEW s \in Seq(S), NEW m \in Seq(S),
         NEW a \in 0 .. Len(s), NEW b \in 1 .. Len(s) + 1,
         NEW w, w = Spliced(s, a, m, b)
  PROVE  Parts(S, s, a, m, b, w)
<1> DEFINE x == SubSeq(s, 1, a)
           y == SubSeq(s, b, Len(s))
           n == Len(s)
           l == Len(m)
<1>1. n \in Nat /\ l \in Nat /\ a \in Nat /\ a <= n /\ b \in Nat /\ b >= 1 /\ b <= n + 1
  BY LenProperties
<1>2. x \in Seq(S) /\ Len(x) = a /\ \A k \in 1 .. a : x[k] = s[k]
  <2>1. 1 \in 1 .. Len(s) + 2
    BY <1>1
  <2>2. /\ x \in Seq(S) /\ Len(x) = (IF 1 <= a THEN a - 1 + 1 ELSE 0)
        /\ \A j \in 1 .. a - 1 + 1 : x[j] = s[1 + j - 1]
    BY <2>1, PieceIs
  <2> HIDE DEF x
  <2>3. Len(x) = a
    BY <1>1, <2>2
  <2>4. a - 1 + 1 = a /\ \A k \in 1 .. a : 1 + k - 1 = k
    BY <1>1
  <2> QED
    BY <2>2, <2>3, <2>4
<1>3. y \in Seq(S) /\ Len(y) = n - b + 1 /\ \A j \in 1 .. n - b + 1 : y[j] = s[b + j - 1]
  <2>1. b \in 1 .. Len(s) + 2 /\ Len(s) \in 0 .. Len(s)
    BY <1>1
  <2>2. /\ y \in Seq(S) /\ Len(y) = (IF b <= n THEN n - b + 1 ELSE 0)
        /\ \A j \in 1 .. n - b + 1 : y[j] = s[b + j - 1]
    BY <2>1, PieceIs
  <2> HIDE DEF y
  <2>3. Len(y) = n - b + 1
    BY <1>1, <2>2
  <2> QED
    BY <2>2, <2>3
<1>4. w = (x \o m) \o y
  BY DEF Spliced
<1> HIDE DEF x, y, n, l
<1> DEFINE z == x \o m
<1>5. /\ z \in Seq(S) /\ Len(z) = a + l
      /\ \A i \in 1 .. a + l : z[i] = IF i <= a THEN x[i] ELSE m[i - a]
  BY <1>2, ConcatProperties DEF l
<1>6. w = z \o y
  BY <1>4
<1> HIDE DEF z
<1>7. /\ w \in Seq(S) /\ Len(w) = Len(z) + Len(y)
      /\ \A i \in 1 .. Len(z) + Len(y) : w[i] = IF i <= Len(z) THEN z[i] ELSE y[i - Len(z)]
  <2>1. z \in Seq(S) /\ y \in Seq(S)
    BY <1>3, <1>5
  <2>2. /\ z \o y \in Seq(S) /\ Len(z \o y) = Len(z) + Len(y)
        /\ \A i \in 1 .. Len(z) + Len(y) :
             (z \o y)[i] = IF i <= Len(z) THEN z[i] ELSE y[i - Len(z)]
    BY <2>1, ConcatProperties
  <2> QED
    BY <1>6, <2>2
<1>8. Len(w) = a + l + (n - b + 1)
  BY <1>3, <1>5, <1>7
<1>9. ASSUME NEW i \in 1 .. a + l PROVE w[i] = z[i]
  <2>1. i \in 1 .. Len(z) + Len(y) /\ i <= Len(z)
    BY <1>1, <1>3, <1>5
  <2> QED
    BY <1>7, <2>1
<1>10. ASSUME NEW k \in 1 .. a PROVE w[k] = s[k]
  <2>1. k \in 1 .. a + l /\ k <= a
    BY <1>1
  <2> QED
    BY <1>2, <1>5, <1>9, <2>1
<1>11. ASSUME NEW k \in 1 .. l PROVE w[a + k] = m[k]
  <2> DEFINE i == a + k
  <2>1. i \in 1 .. a + l /\ ~(i <= a) /\ i - a = k
    BY <1>1
  <2> HIDE DEF i
  <2>2. w[i] = m[i - a]
    BY <1>5, <1>9, <2>1
  <2> QED
    BY <2>1, <2>2 DEF i
<1>12. ASSUME NEW k \in b .. n PROVE w[a + l + (k - b) + 1] = s[k]
  <2> DEFINE i == a + l + (k - b) + 1
             j == k - b + 1
  <2>1. /\ i \in 1 .. Len(z) + Len(y) /\ ~(i <= Len(z)) /\ i - Len(z) = j
        /\ j \in 1 .. n - b + 1 /\ b + j - 1 = k
    BY <1>1, <1>3, <1>5
  <2> HIDE DEF i, j
  <2>2. w[i] = y[j]
    BY <1>7, <2>1
  <2>3. y[j] = s[k]
    BY <1>3, <2>1
  <2> QED
    BY <2>2, <2>3 DEF i
<1> QED
  BY <1>7, <1>8, <1>10, <1>11, <1>12 DEF n, l, Parts

(* One element more, one less. *)
LEMMA InsertedGrows ==
  ASSUME NEW S, NEW s \in Seq(S), NEW o \in 0 .. Len(s), NEW e \in S,
         NEW w, w = Inserted(s, o, e)
  PROVE  w \in Seq(S) /\ Len(w) = Len(s) + 1 /\ Grown(s, Len(s), w, o, e)
<1> DEFINE m == <<e>>
           b == o + 1
           n == Len(s)
<1>1. n \in Nat /\ o \in Nat /\ o <= n /\ b \in 1 .. n + 1
  BY LenProperties
<1>2. m \in Seq(S) /\ Len(m) = 1 /\ m[1] = e
  OBVIOUS
<1>3. w = Spliced(s, o, m, b)
  BY DEF Inserted, Spliced
<1> HIDE DEF m, b
<1>4. /\ w \in Seq(S) /\ Len(w) = o + Len(m) + (n - b + 1)
      /\ \A k \in 1 .. o : w[k] = s[k]
      /\ \A k \in 1 .. Len(m) : w[o + k] = m[k]
      /\ \A k \in b .. n : w[o + Len(m) + (k - b) + 1] = s[k]
  <2>1. Len(s) = n
    OBVIOUS
  <2>2. Parts(S, s, o, m, b, w)
    BY <1>1, <1>2, <1>3, PartsIs
  <2> HIDE DEF n
  <2> QED
    BY <2>1, <2>2 DEF Parts
<1> HIDE DEF n
<1>5. Len(w) = n + 1
  BY <1>1, <1>2, <1>4 DEF b
<1>6. w[o + 1] = e
  BY <1>2, <1>4
<1>7. ASSUME NEW p \in o + 1 .. n PROVE w[p + 1] = s[p]
  <2>1. p \in b .. n /\ o + Len(m) + (p - b) + 1 = p + 1
    BY <1>1, <1>2 DEF b
  <2> QED
    BY <1>4, <2>1
<1> QED
  BY <1>4, <1>5, <1>6, <1>7 DEF Grown, n

Lacks(S, s, o, w) ==
  /\ w \in Seq(S) /\ Len(w) = Len(s) - 1
  /\ \A k \in 1 .. o - 1 : w[k] = s[k]
  /\ \A k \in o .. Len(s) - 1 : w[k] = s[k + 1]

LEMMA RemovedIs ==
  ASSUME NEW S, NEW s \in Seq(S), NEW o \in 1 .. Len(s),
         NEW w, w = RemoveAt(s, o)
  PROVE  Lacks(S, s, o, w)
<1> DEFINE m == << >>
           a == o - 1
           b == o + 1
           n == Len(s)
<1>1. n \in Nat /\ o \in Nat /\ o >= 1 /\ o <= n /\ a \in 0 .. n /\ b \in 1 .. n + 1
  BY LenProperties
<1>2. m \in Seq(S) /\ Len(m) = 0
  BY EmptySeq
<1>3. w = Spliced(s, a, m, b)
  <2>1. 1 \in 1 .. n + 2
    BY <1>1
  <2> HIDE DEF a
  <2>2. SubSeq(s, 1, a) \in Seq(S)
    BY <1>1, <2>1, PieceIs
  <2>3. SubSeq(s, 1, a) \o m = SubSeq(s, 1, a)
    BY <2>2, ConcatEmptySeq
  <2> QED
    BY <2>3 DEF a, Spliced, RemoveAt
<1> HIDE DEF m, b, a
<1>4. /\ w \in Seq(S) /\ Len(w) = a + Len(m) + (n - b + 1)
      /\ \A k \in 1 .. a : w[k] = s[k]
      /\ \A k \in b .. n : w[a + Len(m) + (k - b) + 1] = s[k]
  <2>1. Len(s) = n
    OBVIOUS
  <2>2. Parts(S, s, a, m, b, w)
    BY <1>1, <1>2, <1>3, PartsIs
  <2> HIDE DEF n
  <2> QED
    BY <2>1, <2>2 DEF Parts
<1> HIDE DEF n
<1>5. Len(w) = n - 1
  <2>1. Len(w) = a + 0 + (n - b + 1)
    BY <1>2, <1>4
  <2> QED
    BY <1>1, <2>1 DEF a, b
<1>6. ASSUME NEW k \in o .. n - 1 PROVE w[k] = s[k + 1]
  <2> DEFINE q == k + 1
  <2>1. q \in b .. n /\ a + Len(m) + (q - b) + 1 = k
    BY <1>1, <1>2 DEF b, a
  <2> HIDE DEF q
  <2>2. w[k] = s[q]
    BY <1>4, <2>1
  <2> QED
    BY <2>2 DEF q
<1> QED
  BY <1>4, <1>5, <1>6 DEF n, a, Lacks

LEMMA DeletedGrown ==
  ASSUME NEW t \in Seq(TextChars), NEW o \in 1 .. Len(t), NEW u, u = Deleted(t, o - 1)
  PROVE  u \in Seq(TextChars) /\ Len(u) = Len(t) - 1 /\ Grown(u, Len(u), t, o - 1, t[o])
<1>1. Len(t) \in Nat /\ o \in Nat /\ o >= 1 /\ o - 1 + 2 = o + 1 /\ o - 1 + 1 = o
  BY LenProperties
<1>2. u = RemoveAt(t, o)
  BY <1>1 DEF Deleted, RemoveAt
<1>2a. Lacks(TextChars, t, o, u)
  BY <1>2, RemovedIs
<1>3. /\ u \in Seq(TextChars) /\ Len(u) = Len(t) - 1
      /\ \A k \in 1 .. o - 1 : u[k] = t[k]
      /\ \A k \in o .. Len(t) - 1 : u[k] = t[k + 1]
  BY <1>2a DEF Lacks
<1>4. Grown(u, Len(u), t, o - 1, t[o])
  BY <1>1, <1>3 DEF Grown
<1> QED
  BY <1>3, <1>4

(* What TextLines does to its lines is what was described. *)
LEMMA TypedIs ==
  ASSUME NEW ls \in Seq(Seq(TextKeys)), NEW r \in 1 .. Len(ls), NEW c \in 0 .. Len(ls[r]),
         NEW ch \in TextKeys, NEW ms, ms = [ls EXCEPT ![r] = Inserted(ls[r], c, ch)]
  PROVE  Typed(ls, r, c, ch, ms)
<1> DEFINE line == Inserted(ls[r], c, ch)
<1>1. ls[r] \in Seq(TextKeys)
  BY ElementOfSeq
<1>2. line \in Seq(TextKeys) /\ Len(line) = Len(ls[r]) + 1 /\ Grown(ls[r], Len(ls[r]), line, c, ch)
  BY <1>1, InsertedGrows
<1>3. ms = [ls EXCEPT ![r] = line]
  OBVIOUS
<1> HIDE DEF line
<1>4. /\ ms \in Seq(Seq(TextKeys)) /\ Len(ms) = Len(ls) /\ ms[r] = line
      /\ \A i \in 1 .. Len(ls) : i # r => ms[i] = ls[i]
  BY <1>2, <1>3, ExceptSeq
<1> QED
  BY <1>2, <1>4 DEF Typed, Grown

(* A line up to a column, and from there. *)
UpTo(s, c) == SubSeq(s, 1, c)
From(s, c) == SubSeq(s, c + 1, Len(s))

Halves(S, s, c, x, y) ==
  /\ x \in Seq(S) /\ Len(x) = c /\ \A k \in 1 .. c : x[k] = s[k]
  /\ y \in Seq(S) /\ Len(y) = Len(s) - c /\ \A k \in 1 .. Len(s) - c : y[k] = s[c + k]

LEMMA HalvesAre ==
  ASSUME NEW S, NEW s \in Seq(S), NEW c \in 0 .. Len(s)
  PROVE  Halves(S, s, c, UpTo(s, c), From(s, c))
<1> DEFINE l == Len(s)
           x == UpTo(s, c)
           y == From(s, c)
           o == c + 1
<1>1. l \in Nat /\ c \in Nat /\ c <= l /\ 1 \in 1 .. Len(s) + 2 /\ o \in 1 .. Len(s) + 2
      /\ Len(s) \in 0 .. Len(s)
  BY LenProperties
<1>2. x = SubSeq(s, 1, c) /\ y = SubSeq(s, o, Len(s)) /\ o = c + 1
  BY DEF UpTo, From
<1> HIDE DEF x, y, o
<1>3. /\ SubSeq(s, 1, c) \in Seq(S) /\ Len(SubSeq(s, 1, c)) = (IF 1 <= c THEN c - 1 + 1 ELSE 0)
      /\ \A j \in 1 .. c - 1 + 1 : SubSeq(s, 1, c)[j] = s[1 + j - 1]
  BY <1>1, PieceIs
<1>4. /\ SubSeq(s, o, l) \in Seq(S) /\ Len(SubSeq(s, o, l)) = (IF o <= l THEN l - o + 1 ELSE 0)
      /\ \A j \in 1 .. l - o + 1 : SubSeq(s, o, l)[j] = s[o + j - 1]
  BY <1>1, PieceIs
<1>5. /\ x \in Seq(S) /\ Len(x) = (IF 1 <= c THEN c - 1 + 1 ELSE 0)
      /\ \A j \in 1 .. c - 1 + 1 : x[j] = s[1 + j - 1]
      /\ y \in Seq(S) /\ Len(y) = (IF o <= l THEN l - o + 1 ELSE 0)
      /\ \A j \in 1 .. l - o + 1 : y[j] = s[o + j - 1]
  BY <1>2, <1>3, <1>4
<1> HIDE DEF l
<1>6. Len(x) = c /\ Len(y) = l - c
  <2>1. Len(x) = c
    BY <1>1, <1>5
  <2>2. Len(y) = l - c
    BY <1>1, <1>2, <1>5
  <2> QED
    BY <2>1, <2>2
<1>7. \A k \in 1 .. c : x[k] = s[k]
  <2>1. c - 1 + 1 = c /\ \A k \in 1 .. c : 1 + k - 1 = k
    BY <1>1
  <2> QED
    BY <1>5, <2>1
<1>8. \A k \in 1 .. l - c : y[k] = s[c + k]
  <2>1. l - o + 1 = l - c /\ \A k \in 1 .. l - c : o + k - 1 = c + k
    BY <1>1, <1>2
  <2> QED
    BY <1>5, <2>1
<1> QED
  BY <1>5, <1>6, <1>7, <1>8 DEF x, y, l, Halves

LEMMA BrokenIs ==
  ASSUME NEW ls \in Seq(Seq(TextKeys)), NEW r \in 1 .. Len(ls), NEW c \in 0 .. Len(ls[r]),
         NEW m, m = <<UpTo(ls[r], c), From(ls[r], c)>>,
         NEW ms, ms = Spliced(ls, r - 1, m, r + 1)
  PROVE  Broken(ls, r, c, ms)
<1> DEFINE n == Len(ls)
           l == Len(ls[r])
           a == r - 1
           b == r + 1
<1>1. n \in Nat /\ r \in Nat /\ r >= 1 /\ r <= n /\ a \in 0 .. n /\ b \in 1 .. n + 1
  BY LenProperties
<1>2. ls[r] \in Seq(TextKeys)
  BY ElementOfSeq
<1>3. l \in Nat /\ c \in Nat /\ c <= l
  BY <1>2, LenProperties
<1> DEFINE x == UpTo(ls[r], c)
           y == From(ls[r], c)
<1>4. /\ x \in Seq(TextKeys) /\ Len(x) = c /\ \A k \in 1 .. c : x[k] = ls[r][k]
      /\ y \in Seq(TextKeys) /\ Len(y) = l - c /\ \A k \in 1 .. l - c : y[k] = ls[r][c + k]
  <2>1. Halves(TextKeys, ls[r], c, x, y)
    BY <1>2, HalvesAre
  <2> QED
    BY <2>1 DEF Halves
<1>5. m = <<x, y>>
  OBVIOUS
<1> HIDE DEF x, y
<1>6. m \in Seq(Seq(TextKeys)) /\ Len(m) = 2 /\ m[1] = x /\ m[2] = y
  <2> DEFINE S == Seq(TextKeys)
  <2>1. x \in S /\ y \in S
    BY <1>4
  <2> HIDE DEF S
  <2>2. m \in Seq(S) /\ Len(m) = 2 /\ m[1] = x /\ m[2] = y
    BY <1>5, <2>1
  <2> QED
    BY <2>2 DEF S
<1>7. Parts(Seq(TextKeys), ls, a, m, b, ms)
  BY <1>1, <1>6, PartsIs
<1> HIDE DEF a, b
<1>8. /\ ms \in Seq(Seq(TextKeys)) /\ Len(ms) = a + 2 + (Len(ls) - b + 1)
      /\ \A k \in 1 .. a : ms[k] = ls[k]
      /\ \A k \in 1 .. 2 : ms[a + k] = m[k]
      /\ \A k \in b .. Len(ls) : ms[a + 2 + (k - b) + 1] = ls[k]
  BY <1>6, <1>7 DEF Parts
<1>9. a + 1 = r /\ a + 2 = r + 1 /\ b = r + 1 /\ a = r - 1
  BY <1>1 DEF a, b
<1>10. Len(ms) = n + 1
  <2>1. Len(ms) = a + 2 + (n - b + 1)
    BY <1>8
  <2> HIDE DEF n
  <2> QED
    BY <1>1, <1>9, <2>1
<1>11. ms[r] = x /\ ms[r + 1] = y
  <2>1. 1 \in 1 .. 2 /\ 2 \in 1 .. 2
    OBVIOUS
  <2>2. ms[a + 1] = m[1] /\ ms[a + 2] = m[2]
    BY <1>8, <2>1
  <2> QED
    BY <1>6, <1>9, <2>2
<1>12. ASSUME NEW i \in 1 .. Len(ls), i < r PROVE ms[i] = ls[i]
  <2>1. i \in 1 .. a
    BY <1>1, <1>9, <1>12
  <2> QED
    BY <1>8, <2>1
<1>13. ASSUME NEW i \in 1 .. Len(ls), i > r PROVE ms[i + 1] = ls[i]
  <2>1. i \in b .. Len(ls) /\ a + 2 + (i - b) + 1 = i + 1
    BY <1>1, <1>9, <1>13
  <2> QED
    BY <1>8, <2>1
<1>14. Len(ms[r]) = c /\ \A k \in 1 .. c : ms[r][k] = ls[r][k]
  BY <1>4, <1>11
<1>15. /\ Len(ms[r + 1]) = Len(ls[r]) - c
       /\ \A k \in 1 .. Len(ls[r]) - c : ms[r + 1][k] = ls[r][c + k]
  BY <1>4, <1>11
<1>16. ms \in Seq(Seq(TextKeys)) /\ Len(ms) = Len(ls) + 1
  BY <1>8, <1>10
<1> QED
  BY <1>12, <1>13, <1>14, <1>15, <1>16 DEF Broken

(* ... and back. *)
LEMMA UntypedIs ==
  ASSUME NEW ms \in Seq(Seq(TextKeys)), NEW q \in 1 .. Len(ms), NEW d \in 0 .. Len(ms[q]),
         NEW ch, NEW ls, Typed(ms, q, d, ch, ls),
         NEW o, o = d + 1, NEW w, w = RemoveAt(ls[q], o)
  PROVE  ms = [ls EXCEPT ![q] = w]
<1>1. /\ ls \in Seq(Seq(TextKeys)) /\ Len(ls) = Len(ms)
      /\ \A i \in 1 .. Len(ms) : i # q => ls[i] = ms[i]
      /\ Len(ls[q]) = Len(ms[q]) + 1
      /\ \A k \in 1 .. d : ls[q][k] = ms[q][k]
      /\ \A k \in d + 1 .. Len(ms[q]) : ls[q][k + 1] = ms[q][k]
  BY DEF Typed
<1>2. ms[q] \in Seq(TextKeys) /\ ls[q] \in Seq(TextKeys)
  BY <1>1, ElementOfSeq
<1> DEFINE l == Len(ms[q])
<1>3. l \in Nat /\ d \in Nat /\ d <= l /\ o \in 1 .. Len(ls[q])
  BY <1>1, <1>2, LenProperties
<1>5. /\ w \in Seq(TextKeys) /\ Len(w) = Len(ls[q]) - 1
      /\ \A k \in 1 .. o - 1 : w[k] = ls[q][k]
      /\ \A k \in o .. Len(ls[q]) - 1 : w[k] = ls[q][k + 1]
  <2>1. Lacks(TextKeys, ls[q], o, w)
    BY <1>2, <1>3, RemovedIs
  <2> QED
    BY <2>1 DEF Lacks
<1>6. Len(w) = l /\ o - 1 = d /\ Len(ls[q]) - 1 = l
  BY <1>1, <1>3, <1>5
<1>7. ASSUME NEW k \in 1 .. l PROVE w[k] = ms[q][k]
  <2>1. CASE k <= d
    BY <1>1, <1>3, <1>5, <1>6, <2>1
  <2>2. CASE k > d
    <3>1. k \in d + 1 .. l /\ k \in o .. l
      BY <1>3, <2>2
    <3> QED
      BY <1>1, <1>5, <1>6, <3>1
  <2> QED
    BY <1>3, <2>1, <2>2
<1>8. w = ms[q]
  BY <1>2, <1>5, <1>6, <1>7, SeqEqual
<1> DEFINE v == [ls EXCEPT ![q] = w]
<1>9. /\ v \in Seq(Seq(TextKeys)) /\ Len(v) = Len(ls)
      /\ \A j \in 1 .. Len(ls) : v[j] = IF j = q THEN w ELSE ls[j]
  <2>1. q \in 1 .. Len(ls)
    BY <1>1
  <2> QED
    BY <1>1, <1>5, <2>1, ExceptSeq
<1> HIDE DEF v
<1>10. \A j \in 1 .. Len(ms) : ms[j] = v[j]
  BY <1>1, <1>8, <1>9
<1>11. ms = v
  BY <1>1, <1>9, <1>10, SeqEqual
<1> QED
  BY <1>11 DEF v

Glued(ls, q) == ls[q] \o ls[q + 1]
LEMMA UnbrokenIs ==
  ASSUME NEW ms \in Seq(Seq(TextKeys)), NEW q \in 1 .. Len(ms), NEW d \in 0 .. Len(ms[q]),
         NEW ls, Broken(ms, q, d, ls), NEW m, m = <<Glued(ls, q)>>
  PROVE  ms = Spliced(ls, q - 1, m, q + 2) /\ Len(ls[q]) = d /\ q + 1 \in 1 .. Len(ls)
<1> DEFINE n == Len(ms)
           l == Len(ms[q])
           p == q + 1
           a == q - 1
           b == q + 2
<1>1. n \in Nat /\ q \in Nat /\ q >= 1 /\ q <= n
  BY LenProperties
<1>2. /\ ls \in Seq(Seq(TextKeys)) /\ Len(ls) = n + 1
      /\ \A i \in 1 .. n : i < q => ls[i] = ms[i]
      /\ Len(ls[q]) = d /\ \A k \in 1 .. d : ls[q][k] = ms[q][k]
      /\ Len(ls[p]) = l - d
      /\ \A k \in 1 .. l - d : ls[p][k] = ms[q][d + k]
      /\ \A i \in 1 .. n : i > q => ls[i + 1] = ms[i]
  BY DEF Broken
<1>3. p \in 1 .. Len(ls) /\ q \in 1 .. Len(ls) /\ a \in 0 .. Len(ls) /\ b \in 1 .. Len(ls) + 1
  <2> DEFINE m0 == Len(ls)
  <2>1. n \in Nat /\ q \in Nat /\ q >= 1 /\ q <= n /\ m0 = n + 1
    BY <1>1, <1>2
  <2>2. p \in 1 .. m0 /\ q \in 1 .. m0 /\ a \in 0 .. m0 /\ b \in 1 .. m0 + 1
    <3> HIDE DEF n, m0
    <3> QED
      BY <2>1
  <2> QED
    BY <2>2
<1>3a. p = q + 1 /\ a = q - 1 /\ b = q + 2
  OBVIOUS
<1>4. ms[q] \in Seq(TextKeys) /\ ls[q] \in Seq(TextKeys)
  BY <1>2, <1>3, ElementOfSeq
<1>5. l \in Nat /\ d \in Nat /\ d <= l
  BY <1>4, LenProperties
<1> DEFINE x == Glued(ls, q)
<1>6. x = ls[q] \o ls[p] /\ m = <<x>>
  BY DEF Glued
<1> HIDE DEF p, x
<1>7. ls[p] \in Seq(TextKeys)
  BY <1>2, <1>3, ElementOfSeq
<1>8. /\ x \in Seq(TextKeys) /\ Len(x) = Len(ls[q]) + Len(ls[p])
      /\ \A i \in 1 .. Len(ls[q]) + Len(ls[p]) :
            x[i] = IF i <= Len(ls[q]) THEN ls[q][i] ELSE ls[p][i - Len(ls[q])]
  <2>1. /\ ls[q] \o ls[p] \in Seq(TextKeys) /\ Len(ls[q] \o ls[p]) = Len(ls[q]) + Len(ls[p])
        /\ \A i \in 1 .. Len(ls[q]) + Len(ls[p]) :
             (ls[q] \o ls[p])[i] = IF i <= Len(ls[q]) THEN ls[q][i] ELSE ls[p][i - Len(ls[q])]
    BY <1>4, <1>7, ConcatProperties
  <2> QED
    BY <1>6, <2>1
<1>9. Len(ls[q]) + Len(ls[p]) = l
  BY <1>2, <1>5
<1>10. \A i \in 1 .. l : x[i] = IF i <= d THEN ls[q][i] ELSE ls[p][i - d]
  BY <1>2, <1>8, <1>9
<1>11. ASSUME NEW k \in 1 .. l PROVE x[k] = ms[q][k]
  <2>1. CASE k <= d
    <3>1. k \in 1 .. d
      BY <1>5, <2>1
    <3>2. x[k] = ls[q][k]
      BY <1>10, <2>1
    <3> QED
      BY <1>2, <3>1, <3>2
  <2>2. CASE k > d
    <3> DEFINE j == k - d
    <3>1. j \in 1 .. l - d /\ d + j = k /\ ~(k <= d)
      BY <1>5, <2>2
    <3>2. x[k] = ls[p][j]
      BY <1>10, <3>1
    <3> HIDE DEF j
    <3>3. ls[p][j] = ms[q][d + j]
      BY <1>2, <3>1
    <3> QED
      BY <3>1, <3>2, <3>3
  <2>3. k \in Nat /\ d \in Nat
    BY <1>5
  <2>4. k <= d \/ k > d
    BY <2>3
  <2> QED
    BY <2>1, <2>2, <2>4
<1>12. x = ms[q]
  BY <1>4, <1>8, <1>9, <1>11, SeqEqual
<1>13. m \in Seq(Seq(TextKeys)) /\ Len(m) = 1 /\ m[1] = x
  <2> DEFINE S == Seq(TextKeys)
  <2>1. x \in S
    BY <1>8
  <2> HIDE DEF S
  <2>2. <<x>> \in Seq(S) /\ Len(<<x>>) = 1 /\ <<x>>[1] = x
    BY <2>1
  <2> QED
    BY <1>6, <2>2 DEF S
<1> DEFINE w == Spliced(ls, a, m, b)
<1> HIDE DEF a, b, w
<1>14. Parts(Seq(TextKeys), ls, a, m, b, w)
  BY <1>2, <1>3, <1>13, PartsIs DEF w
<1>15. /\ w \in Seq(Seq(TextKeys)) /\ Len(w) = a + 1 + (Len(ls) - b + 1)
       /\ \A k \in 1 .. a : w[k] = ls[k]
       /\ \A k \in 1 .. 1 : w[a + k] = m[k]
       /\ \A k \in b .. Len(ls) : w[a + 1 + (k - b) + 1] = ls[k]
  BY <1>13, <1>14 DEF Parts
<1>16. Len(w) = n
  <2> DEFINE N == Len(ls)
             M == Len(w)
  <2>1. M = a + 1 + (N - b + 1)
    BY <1>15
  <2>2. N = n + 1 /\ n \in Nat /\ q \in Nat /\ a = q - 1 /\ b = q + 2
    BY <1>1, <1>2, <1>3a
  <2>3. M = n
    <3> HIDE DEF N, M, n
    <3> QED
      BY <2>1, <2>2
  <2> QED
    BY <2>3
<1>17. ASSUME NEW i \in 1 .. n PROVE ms[i] = w[i]
  <2>1. CASE i < q
    <3>1. i \in 1 .. a
      BY <1>1, <1>3a, <2>1
    <3>2. w[i] = ls[i]
      BY <1>15, <3>1
    <3> QED
      BY <1>2, <2>1, <3>2
  <2>2. CASE i = q
    <3>1. a + 1 = q /\ 1 \in 1 .. 1
      BY <1>1, <1>3a
    <3> QED
      BY <1>12, <1>13, <1>15, <2>2, <3>1
  <2>3. CASE i > q
    <3> DEFINE k == i + 1
    <3>1. k \in b .. Len(ls) /\ a + 1 + (k - b) + 1 = i
      BY <1>1, <1>2, <1>3a, <2>3
    <3> HIDE DEF k
    <3>2. w[i] = ls[k]
      BY <1>15, <3>1
    <3>3. ls[i + 1] = ms[i]
      BY <1>2, <2>3
    <3> QED
      BY <3>2, <3>3 DEF k
  <2> QED
    BY <1>1, <2>1, <2>2, <2>3
<1>18. ms = w
  BY <1>15, <1>16, <1>17, SeqEqual
<1> QED
  BY <1>2, <1>3, <1>18 DEF w, a, b, p

(* What TextLines counts is where the lines end. *)
LEMMA TotalIs ==
  ASSUME NEW t, NEW n, NEW ls, NEW at, Ruled(t, n, ls, at), NEW k \in 0 .. Len(ls)
  PROVE  Lines!Total(ls, k) = at[k]
<1> DEFINE Row(i, x) == IF i = 0 THEN 0 ELSE x + Len(ls[i]) + 1
           Is(g) == g = [i \in 0 .. k |-> Row(i, g[i - 1])]
           g == CHOOSE g : Is(g)
<1>1. Lines!Total(ls, k) = g[k]
  BY DEF Lines!Total
<1>2. Len(ls) \in Nat /\ k \in Nat /\ k <= Len(ls) /\ at[0] = 0
  BY RuledRows
<1>3. \A i \in 1 .. k : at[i] = at[i - 1] + Len(ls[i]) + 1
  BY <1>2 DEF Ruled
<1>4. \A i \in 0 .. k : at[i] = Row(i, at[i - 1])
  BY <1>2, <1>3
<1>5. \A x, y : Row(0, x) = 0 /\ Row(0, x) = Row(0, y)
  OBVIOUS
<1> HIDE DEF Row
<1>6. Is(g)
  <2> DEFINE h == [i \in 0 .. k |-> at[i]]
  <2>1. \A i \in 0 .. k : h[i] = at[i]
    OBVIOUS
  <2>2. \A i \in 0 .. k : h[i] = Row(i, h[i - 1])
    <3> TAKE i \in 0 .. k
    <3>1. CASE i = 0
      BY <1>4, <1>5, <2>1, <3>1
    <3>2. CASE i # 0
      <4>1. i - 1 \in 0 .. k
        BY <1>2, <3>2
      <4> HIDE DEF h
      <4> QED
        BY <1>4, <2>1, <4>1
    <3> QED
      BY <3>1, <3>2
  <2>3. h = [i \in 0 .. k |-> h[i]]
    OBVIOUS
  <2> HIDE DEF h
  <2>4. Is(h)
    BY <2>2, <2>3
  <2>5. \E f : Is(f)
    <3> HIDE DEF Is
    <3> QED
      BY <2>4
  <2> HIDE DEF Is
  <2> QED
    BY <2>5
<1> HIDE DEF g
<1>7. \A i \in 0 .. k : g[i] = Row(i, g[i - 1])
  BY <1>6
<1> DEFINE T == {m \in Nat : m <= k => g[m] = at[m]}
<1>8. 0 \in T
  <2>1. 0 \in 0 .. k
    BY <1>2
  <2>2. g[0] = 0
    BY <1>5, <1>7, <2>1
  <2> QED
    BY <1>2, <2>2
<1>9. ASSUME NEW m \in T PROVE m + 1 \in T
  <2> DEFINE p == m + 1
  <2>1. m \in Nat /\ (m <= k => g[m] = at[m]) /\ p \in Nat
    OBVIOUS
  <2>2. ASSUME p <= k PROVE g[p] = at[p]
    <3>1. m <= k /\ p \in 0 .. k /\ p - 1 = m
      BY <1>2, <2>1, <2>2
    <3> HIDE DEF p
    <3>2. g[p] = Row(p, g[m]) /\ at[p] = Row(p, at[m])
      BY <1>4, <1>7, <3>1
    <3> QED
      BY <2>1, <3>1, <3>2
  <2> QED
    BY <2>1, <2>2
<1>10. k \in T
  <2>1. T \in SUBSET Nat
    OBVIOUS
  <2> HIDE DEF T
  <2> QED
    BY <1>2, <1>8, <1>9, <2>1, AllNumbers
<1> QED
  BY <1>1, <1>2, <1>10

LEMMA SeesCounts ==
  ASSUME NEW t, NEW o, NEW ls, NEW r, NEW c, Sees(t, o, ls, r, c), NEW l, l = Len(ls)
  PROVE  Lines!Total(ls, l) - 1 = Len(t) /\ Lines!Total(ls, r - 1) + c = o
<1> DEFINE n == Len(t)
<1>1. PICK at : Ruled(t, n, ls, at) /\ Spot(ls, at, o, r, c)
  BY DEF Sees
<1> HIDE DEF n
<1>2. n \in Nat /\ Len(ls) \in Nat /\ Len(ls) >= 1 /\ at[Len(ls)] = n + 1
  BY <1>1, RuledRows
<1>3. r \in Nat /\ r >= 1 /\ r <= Len(ls) /\ o = at[r - 1] + c
  BY <1>1, SpotInside
<1>4. Len(ls) \in 0 .. Len(ls) /\ r - 1 \in 0 .. Len(ls)
  BY <1>2, <1>3
<1>5. Lines!Total(ls, Len(ls)) = at[Len(ls)]
  BY <1>1, <1>4, TotalIs
<1> DEFINE q == r - 1
<1>6. q \in 0 .. Len(ls) /\ o = at[q] + c
  BY <1>3, <1>4
<1> HIDE DEF q
<1>7. Lines!Total(ls, q) = at[q]
  BY <1>1, <1>6, TotalIs
<1>8. Lines!Total(ls, l) - 1 = n
  BY <1>2, <1>5
<1> QED
  BY <1>6, <1>7, <1>8 DEF n, q

(* Every offset is at one place of the lines. *)
LEMMA SeesNow ==
  ASSUME NEW t \in Seq(TextChars), NEW o \in 0 .. Len(t)
  PROVE  Sees(t, o, Cut(t), Len(Cut(SubSeq(t, 1, o))), Len(Last(Cut(SubSeq(t, 1, o)))))
<1>1. PICK r, c : Sees(t, o, Cut(t), r, c)
  BY SeesExist
<1>2. Len(Cut(SubSeq(t, 1, o))) = r /\ Len(Last(Cut(SubSeq(t, 1, o)))) = c
  BY <1>1, SeesCut
<1> QED
  BY <1>1, <1>2

LEMMA SeesOnce ==
  ASSUME NEW t \in Seq(TextChars), NEW o,
         NEW ls, NEW r, NEW c, Sees(t, o, ls, r, c),
         NEW ms, NEW q, NEW d, Sees(t, o, ms, q, d)
  PROVE  ls = ms /\ r = q /\ c = d
<1>1. Cut(t) = ls /\ Len(Cut(SubSeq(t, 1, o))) = r /\ Len(Last(Cut(SubSeq(t, 1, o)))) = c
  BY SeesCut
<1>2. Cut(t) = ms /\ Len(Cut(SubSeq(t, 1, o))) = q /\ Len(Last(Cut(SubSeq(t, 1, o)))) = d
  BY SeesCut
<1> QED
  BY <1>1, <1>2

(* A character in the text is a character in its line ... *)
LEMMA TypeSees ==
  ASSUME NEW t \in Seq(TextChars), NEW o, NEW ls, NEW r, NEW c, Sees(t, o, ls, r, c),
         NEW ch \in TextKeys, NEW u, u = Inserted(t, o, ch),
         NEW ms, ms = [ls EXCEPT ![r] = Inserted(ls[r], c, ch)]
  PROVE  Sees(u, o + 1, ms, r, c + 1)
<1> DEFINE n == Len(t)
<1>1. PICK at : Ruled(t, n, ls, at) /\ Spot(ls, at, o, r, c)
  BY DEF Sees
<1>2. o \in 0 .. n /\ n \in Nat
  BY <1>1, SpotInside, LenProperties
<1>3. ls \in Seq(Seq(TextKeys)) /\ r \in 1 .. Len(ls) /\ c \in 0 .. Len(ls[r])
  BY <1>1 DEF Ruled, Spot
<1>4. ch \in TextChars
  BY DEF TextChars
<1>5. u \in Seq(TextChars) /\ Len(u) = n + 1 /\ Grown(t, n, u, o, ch)
  BY <1>2, <1>4, InsertedGrows
<1>6. Typed(ls, r, c, ch, ms)
  BY <1>3, TypedIs
<1> HIDE DEF n
<1>7. PICK bt : Ruled(u, n + 1, ms, bt) /\ Spot(ms, bt, o + 1, r, c + 1)
  BY <1>1, <1>5, <1>6, TypedRules
<1> QED
  BY <1>5, <1>7 DEF Sees

(* ... and a newline breaks it in two. *)
LEMMA BreakSees ==
  ASSUME NEW t \in Seq(TextChars), NEW o, NEW ls, NEW r, NEW c, Sees(t, o, ls, r, c),
         NEW u, u = Inserted(t, o, Newline),
         NEW m, m = <<UpTo(ls[r], c), From(ls[r], c)>>,
         NEW ms, ms = Spliced(ls, r - 1, m, r + 1)
  PROVE  Sees(u, o + 1, ms, r + 1, 0)
<1> DEFINE n == Len(t)
<1>1. PICK at : Ruled(t, n, ls, at) /\ Spot(ls, at, o, r, c)
  BY DEF Sees
<1>2. o \in 0 .. n /\ n \in Nat
  BY <1>1, SpotInside, LenProperties
<1>3. ls \in Seq(Seq(TextKeys)) /\ r \in 1 .. Len(ls) /\ c \in 0 .. Len(ls[r])
  BY <1>1 DEF Ruled, Spot
<1>4. Newline \in TextChars
  BY DEF TextChars
<1>5. u \in Seq(TextChars) /\ Len(u) = n + 1 /\ Grown(t, n, u, o, Newline)
  BY <1>2, <1>4, InsertedGrows
<1>6. Broken(ls, r, c, ms)
  BY <1>3, BrokenIs
<1> HIDE DEF n
<1>7. PICK bt : Ruled(u, n + 1, ms, bt) /\ Spot(ms, bt, o + 1, r + 1, 0)
  BY <1>1, <1>5, <1>6, BrokenRules
<1> QED
  BY <1>5, <1>7 DEF Sees

(* What Backspace makes of lines and caret. *)
Erased(ls, r, c, ms, q, d) ==
  \/ c > 0 /\ ms = [ls EXCEPT ![r] = RemoveAt(ls[r], c)] /\ q = r /\ d = c - 1
  \/ /\ c = 0 /\ r > 1 /\ ms = Spliced(ls, q - 1, <<Glued(ls, q)>>, q + 2)
     /\ q = r - 1 /\ d = Len(ls[q])

LEMMA EraseSees ==
  ASSUME NEW t \in Seq(TextChars), NEW o, NEW ls, NEW r, NEW c, Sees(t, o, ls, r, c), o > 0,
         NEW u, u = Deleted(t, o - 1)
  PROVE  \E ms, q, d : Sees(u, o - 1, ms, q, d) /\ Erased(ls, r, c, ms, q, d)
<1> DEFINE p == o - 1
           n == Len(u)
           ms == Cut(u)
<1>1. PICK at : Ruled(t, Len(t), ls, at) /\ Spot(ls, at, o, r, c)
  BY DEF Sees
<1>2. o \in 1 .. Len(t) /\ Len(t) \in Nat
  BY <1>1, SpotInside, LenProperties
<1>3. u \in Seq(TextChars) /\ n = Len(t) - 1 /\ Grown(u, n, t, p, t[o])
  BY <1>2, DeletedGrown
<1>4. p \in 0 .. n /\ p + 1 = o /\ n + 1 = Len(t) /\ n \in Nat
  BY <1>2, <1>3
<1>5. PICK q, d : Sees(u, p, ms, q, d)
  BY <1>3, <1>4, SeesExist
<1> HIDE DEF p, ms
<1>6. PICK bt : Ruled(u, n, ms, bt) /\ Spot(ms, bt, p, q, d)
  BY <1>5 DEF Sees
<1>7. ms \in Seq(Seq(TextKeys)) /\ q \in 1 .. Len(ms) /\ d \in 0 .. Len(ms[q])
  BY <1>6 DEF Ruled, Spot
<1>8. Len(ms) \in Nat /\ q \in Nat /\ q >= 1 /\ Len(ms[q]) \in Nat /\ d \in Nat
  BY <1>6, SpotInside
<1> HIDE DEF n
<1>9. t[o] \in TextKeys \/ t[o] = Newline
  BY <1>2, ElementOfSeq DEF TextChars
<1>10. CASE t[o] \in TextKeys
  <2> DEFINE ch == t[o]
             ks == [ms EXCEPT ![q] = Inserted(ms[q], d, ch)]
             e == d + 1
  <2>1. Typed(ms, q, d, ch, ks)
    BY <1>7, <1>10, TypedIs
  <2>2. Grown(u, n, t, p, ch) /\ ch \in TextKeys
    BY <1>3, <1>10
  <2> HIDE DEF ks, ch
  <2>3. PICK ct : Ruled(t, n + 1, ks, ct) /\ Spot(ks, ct, p + 1, q, d + 1)
    BY <1>6, <2>1, <2>2, TypedRules
  <2>4. Sees(t, o, ks, q, e)
    BY <1>4, <2>3 DEF Sees
  <2>5. ls = ks /\ r = q /\ c = e
    <3> HIDE DEF e
    <3> QED
      BY <2>4, SeesOnce
  <2>6. Typed(ms, q, d, ch, ls)
    BY <2>1, <2>5
  <2>7. e = d + 1
    OBVIOUS
  <2> HIDE DEF e
  <2> DEFINE w == RemoveAt(ls[q], e)
  <2>7a. w = RemoveAt(ls[q], e)
    OBVIOUS
  <2> HIDE DEF w
  <2>8. ms = [ls EXCEPT ![q] = w]
    BY <1>7, <2>6, <2>7, <2>7a, UntypedIs
  <2>9. c > 0 /\ d = c - 1
    BY <1>8, <2>5, <2>7
  <2>10. Erased(ls, r, c, ms, q, d)
    BY <2>5, <2>7a, <2>8, <2>9 DEF Erased
  <2> QED
    BY <1>5, <2>10 DEF p
<1>11. CASE t[o] = Newline
  <2> DEFINE m == <<UpTo(ms[q], d), From(ms[q], d)>>
             ks == Spliced(ms, q - 1, m, q + 1)
             s == q + 1
  <2>1. Broken(ms, q, d, ks)
    BY <1>7, BrokenIs
  <2>2. Grown(u, n, t, p, Newline)
    BY <1>3, <1>11
  <2> HIDE DEF ks
  <2>3. PICK ct : Ruled(t, n + 1, ks, ct) /\ Spot(ks, ct, p + 1, q + 1, 0)
    BY <1>6, <2>1, <2>2, BrokenRules
  <2>4. Sees(t, o, ks, s, 0)
    BY <1>4, <2>3 DEF Sees
  <2>5. ls = ks /\ r = s /\ c = 0
    <3> HIDE DEF s
    <3> QED
      BY <2>4, SeesOnce
  <2>6. Broken(ms, q, d, ls)
    BY <2>1, <2>5
  <2> DEFINE g == <<Glued(ls, q)>>
  <2>7. ms = Spliced(ls, q - 1, g, q + 2) /\ Len(ls[q]) = d
    <3>1. g = <<Glued(ls, q)>>
      OBVIOUS
    <3> HIDE DEF g
    <3> QED
      BY <1>7, <2>6, <3>1, UnbrokenIs
  <2>8. c = 0 /\ r > 1 /\ q = r - 1
    BY <1>8, <2>5
  <2>9. Erased(ls, r, c, ms, q, d)
    BY <2>7, <2>8 DEF Erased
  <2> QED
    BY <1>5, <2>9 DEF p
<1> QED
  BY <1>9, <1>10, <1>11

(* One to the left, one to the right. *)
LeftOf(ls, r, c, q, d) ==
  \/ c > 0 /\ q = r /\ d = c - 1
  \/ c = 0 /\ r > 1 /\ q = r - 1 /\ d = Len(ls[r - 1])
RightOf(ls, r, c, q, d) ==
  \/ c < Len(ls[r]) /\ q = r /\ d = c + 1
  \/ c = Len(ls[r]) /\ r < Len(ls) /\ q = r + 1 /\ d = 0

LEMMA LeftSees ==
  ASSUME NEW t \in Seq(TextChars), NEW o, NEW ls, NEW r, NEW c, Sees(t, o, ls, r, c), o > 0
  PROVE  \E q, d : Sees(t, o - 1, ls, q, d) /\ LeftOf(ls, r, c, q, d)
<1>1. PICK at : Ruled(t, Len(t), ls, at) /\ Spot(ls, at, o, r, c)
  BY DEF Sees
<1>2. Precedes(t, ls, at, o, r, c)
  BY <1>1, SpotBack
<1>3. CASE c > 0 /\ Spot(ls, at, o - 1, r, c - 1)
  <2> DEFINE d == c - 1
  <2>1. LeftOf(ls, r, c, r, d)
    BY <1>3 DEF LeftOf
  <2>2. Sees(t, o - 1, ls, r, d)
    BY <1>1, <1>3 DEF Sees
  <2> QED
    BY <2>1, <2>2
<1>4. CASE c = 0 /\ r > 1 /\ Spot(ls, at, o - 1, r - 1, Len(ls[r - 1]))
  <2> DEFINE q == r - 1
             d == Len(ls[r - 1])
  <2>1. LeftOf(ls, r, c, q, d)
    BY <1>4 DEF LeftOf
  <2>2. Sees(t, o - 1, ls, q, d)
    BY <1>1, <1>4 DEF Sees
  <2> QED
    BY <2>1, <2>2
<1> QED
  BY <1>2, <1>3, <1>4 DEF Precedes

LEMMA RightSees ==
  ASSUME NEW t \in Seq(TextChars), NEW o, NEW ls, NEW r, NEW c, Sees(t, o, ls, r, c),
         o < Len(t)
  PROVE  \E q, d : Sees(t, o + 1, ls, q, d) /\ RightOf(ls, r, c, q, d)
<1> DEFINE n == Len(t)
<1>1. PICK at : Ruled(t, n, ls, at) /\ Spot(ls, at, o, r, c)
  BY DEF Sees
<1>2. o < n
  OBVIOUS
<1> HIDE DEF n
<1>3. \/ c < Len(ls[r]) /\ Spot(ls, at, o + 1, r, c + 1)
      \/ c = Len(ls[r]) /\ r < Len(ls) /\ Spot(ls, at, o + 1, r + 1, 0)
  BY <1>1, <1>2, SpotOn
<1>4. CASE c < Len(ls[r]) /\ Spot(ls, at, o + 1, r, c + 1)
  <2> DEFINE d == c + 1
  <2>1. RightOf(ls, r, c, r, d)
    BY <1>4 DEF RightOf
  <2>2. Sees(t, o + 1, ls, r, d)
    BY <1>1, <1>4 DEF Sees, n
  <2> QED
    BY <2>1, <2>2
<1>5. CASE c = Len(ls[r]) /\ r < Len(ls) /\ Spot(ls, at, o + 1, r + 1, 0)
  <2> DEFINE q == r + 1
  <2>1. RightOf(ls, r, c, q, 0)
    BY <1>5 DEF RightOf
  <2>2. Sees(t, o + 1, ls, q, 0)
    BY <1>1, <1>5 DEF Sees, n
  <2> QED
    BY <2>1, <2>2
<1> QED
  BY <1>3, <1>4, <1>5

(* The row and the column that the kernel's offsets give. *)
LEMMA SeesLine ==
  ASSUME NEW t \in Seq(TextChars), NEW o, NEW ls, NEW r, NEW c, Sees(t, o, ls, r, c)
  PROVE  /\ LineOf(t, o) = r - 1 /\ o - LineStart(t, r - 1) = c
         /\ r \in Nat /\ r >= 1 /\ r <= Len(ls) /\ Len(ls) \in Nat /\ c \in Nat
         /\ c <= Len(ls[r]) /\ Len(ls[r]) \in Nat
         /\ o \in 0 .. Len(t)
<1>1. PICK at : Ruled(t, Len(t), ls, at) /\ Spot(ls, at, o, r, c)
  BY DEF Sees
<1>2. LineOf(t, o) = r - 1
  BY <1>1, LineIs
<1>3. /\ r \in Nat /\ r >= 1 /\ r <= Len(ls) /\ c \in Nat /\ c <= Len(ls[r])
      /\ Len(ls) \in Nat /\ Len(ls[r]) \in Nat
      /\ o \in 0 .. Len(t) /\ at[r - 1] \in Nat /\ o = at[r - 1] + c
  BY <1>1, SpotInside
<1> DEFINE l == r - 1
<1>4. l \in Nat /\ l < Len(ls)
  BY <1>3
<1> HIDE DEF l
<1>5. LineStart(t, l) = at[l]
  BY <1>1, <1>4, StartIs
<1>6. o - LineStart(t, r - 1) = c
  BY <1>3, <1>5 DEF l
<1> QED
  BY <1>2, <1>3, <1>6

(* A column of a line, or its end. *)
LEMMA ReachSees ==
  ASSUME NEW t \in Seq(TextChars), NEW o, NEW ls, NEW r, NEW c, Sees(t, o, ls, r, c),
         NEW l \in Nat, NEW s, s = LineStart(t, l), s >= 0, NEW k \in Nat,
         NEW x, x = IF s + k > LineEnd(t, s) THEN LineEnd(t, s) ELSE s + k,
         NEW q, q = l + 1, NEW d, d = IF k > Len(ls[q]) THEN Len(ls[q]) ELSE k
  PROVE  q \in 1 .. Len(ls) /\ Sees(t, x, ls, q, d)
<1>1. PICK at : Ruled(t, Len(t), ls, at)
  BY DEF Sees
<1>2. /\ l < Len(ls) => LineStart(t, l) = at[l]
      /\ l >= Len(ls) => LineStart(t, l) = -1
  BY <1>1, StartIs
<1>3. Len(ls) \in Nat
  BY <1>1, RuledRows
<1>4. l < Len(ls) /\ s = at[l]
  BY <1>2, <1>3
<1>5. q \in 1 .. Len(ls) /\ q - 1 = l
  BY <1>3, <1>4
<1> DEFINE m == Len(ls[q])
<1>6. m \in Nat /\ at[l] \in Nat
  BY <1>1, <1>5, RowIs
<1>7. LineEnd(t, s) = s + m
  <2>1. LineEnd(t, at[q - 1]) = at[q - 1] + Len(ls[q])
    BY <1>1, <1>5, EndIs
  <2> QED
    BY <1>4, <1>5, <2>1
<1> DEFINE e == LineEnd(t, s)
<1>8. /\ s \in Nat /\ e = s + m
      /\ x = IF s + k > e THEN e ELSE s + k
      /\ d = IF k > m THEN m ELSE k
  BY <1>4, <1>6, <1>7
<1> HIDE DEF m, e
<1>9. d \in 0 .. m /\ x = s + d
  BY <1>6, <1>8
<1>10. Spot(ls, at, x, q, d)
  BY <1>4, <1>5, <1>9 DEF Spot, m
<1> QED
  BY <1>1, <1>5, <1>10 DEF Sees

(* The end of the text. *)
LEMMA EndSees ==
  ASSUME NEW t \in Seq(TextChars), NEW o, NEW ls, NEW r, NEW c, Sees(t, o, ls, r, c)
  PROVE  Sees(t, Len(t), ls, Len(ls), Len(ls[Len(ls)]))
<1>1. PICK at : Ruled(t, Len(t), ls, at)
  BY DEF Sees
<1> DEFINE n == Len(t)
<1>2. Ruled(t, n, ls, at)
  BY <1>1
<1> HIDE DEF n
<1>3. Spot(ls, at, n, Len(ls), Len(ls[Len(ls)]))
  BY <1>2, SpotEnd
<1> QED
  BY <1>1, <1>3 DEF Sees, n

(* And its beginning. *)
LEMMA EmptyCut == Cut(<< >>) = << << >> >>
<1> DEFINE t == << >>
           n == 0
<1>1. n \in Nat /\ Len(t) = n
  OBVIOUS
<1> HIDE DEF t, n
<1>2. PICK g : /\ Cut(t) = g[n] /\ g[0] = << << >> >>
               /\ \A k \in 1 .. n : g[k] = Extended(t, g[k - 1], k)
  BY <1>1, CutIs
<1> QED
  BY <1>2 DEF t, n

LEMMA NothingBefore ==
  ASSUME NEW t
  PROVE  /\ Len(Cut(SubSeq(t, 1, 0))) = 1
         /\ Len(Last(Cut(SubSeq(t, 1, 0)))) = 0
<1>1. SubSeq(t, 1, 0) = << >>
  BY SMT
<1>2. Cut(SubSeq(t, 1, 0)) = << << >> >>
  BY <1>1, EmptyCut
<1> DEFINE ls == << << >> >>
<1>3. Len(ls) = 1 /\ ls[1] = << >> /\ Len(<< >>) = 0
  OBVIOUS
<1>4. Last(ls) = << >>
  BY <1>3 DEF Last
<1> QED
  BY <1>2, <1>3, <1>4

(* The caret's row and column, now and after a step. *)
LEMMA CaretSees ==
  ASSUME EditInv
  PROVE  Sees(text, caret, Cut(text), Len(UpToCaret), Len(Last(UpToCaret)))
BY EditTypeFacts, SeesNow DEF UpToCaret

LEMMA CaretWillSee ==
  ASSUME text' \in Seq(TextChars), NEW ls, NEW r, NEW c, Sees(text', caret', ls, r, c)
  PROVE  Cut(text)' = ls /\ Len(UpToCaret)' = r /\ Len(Last(UpToCaret))' = c
<1>1. /\ Cut(text') = ls /\ Len(Cut(SubSeq(text', 1, caret'))) = r
      /\ Len(Last(Cut(SubSeq(text', 1, caret')))) = c
  BY SeesCut
<1> QED
  BY <1>1 DEF UpToCaret

LEMMA SizeIs ==
  ASSUME EditInv PROVE Lines!Size = Len(text) /\ Lines!Before = caret
<1>1. Sees(text, caret, Cut(text), Len(UpToCaret), Len(Last(UpToCaret)))
  BY CaretSees
<1> DEFINE ls == Cut(text)
           r == Len(UpToCaret)
           c == Len(Last(UpToCaret))
           l == Len(ls)
<1>2. Lines!Size = Lines!Total(ls, l) - 1 /\ Lines!Before = Lines!Total(ls, r - 1) + c
  BY DEF Lines!Size, Lines!Before
<1>3. l = Len(ls) /\ Sees(text, caret, ls, r, c)
  BY <1>1
<1> HIDE DEF ls, r, c, l
<1>4. Lines!Total(ls, l) - 1 = Len(text) /\ Lines!Total(ls, r - 1) + c = caret
  BY <1>3, SeesCounts
<1> QED
  BY <1>2, <1>4

LEMMA InsertAtIs ==
  ASSUME NEW s, NEW c \in Nat, NEW d, d = c + 1, NEW e
  PROVE  Inserted(s, c, e) = Lines!InsertAt(s, d, e)
<1>1. c + 1 = d
  OBVIOUS
<1>2. d - 1 = c
  OBVIOUS
<1> QED
  BY <1>1, <1>2, Zenon DEF Inserted, Lines!InsertAt

LEMMA InsertTypes ==
  ASSUME EditInv, NEW ch \in TextKeys, Insert(ch) PROVE Lines!Type(ch) \/ BufferFull
<1>1. Len(text) \in Nat /\ Len(text) <= TextMax /\ TextMax \in Nat /\ text \in Seq(TextChars)
      /\ caret \in 0 .. Len(text) /\ Lines!Size = Len(text)
  BY EditTypeFacts, SizeIs
<1>2. CASE ~(Len(text) < TextMax)
  <2>1. UNCHANGED <<text, caret>>
    BY <1>2 DEF Insert
  <2> QED
    BY <1>1, <1>2, <2>1 DEF BufferFull
<1>3. CASE Len(text) < TextMax
  <2> DEFINE ls == Cut(text)
             r == Len(UpToCaret)
             c == Len(Last(UpToCaret))
             ms == [ls EXCEPT ![r] = Inserted(ls[r], c, ch)]
             p == caret + 1
             d == c + 1
  <2>1. text' = Inserted(text, caret, ch) /\ caret' = caret + 1 /\ dirty' = TRUE
    BY <1>3 DEF Insert
  <2>2. Sees(text, caret, ls, r, c)
    BY CaretSees
  <2>3. ms = [ls EXCEPT ![r] = Inserted(ls[r], c, ch)]
    OBVIOUS
  <2>4. text' \in Seq(TextChars)
    <3>1. ch \in TextChars
      BY DEF TextChars
    <3>2. TextInv'
      BY <3>1, InsertText
    <3> QED
      BY <3>2 DEF TextInv
  <2>5. c \in Nat /\ r \in Nat
    BY <1>1, <2>2, SeesLine
  <2>6. ls = Cut(text) /\ r = Len(UpToCaret) /\ c = Len(Last(UpToCaret))
    OBVIOUS
  <2> HIDE DEF ls, r, c, ms
  <2>7. Sees(text', caret', ms, r, d)
    BY <1>1, <2>1, <2>2, <2>3, TypeSees
  <2>8. d = c + 1
    OBVIOUS
  <2> HIDE DEF d
  <2>9. Cut(text)' = ms /\ Len(UpToCaret)' = r /\ Len(Last(UpToCaret))' = d
    BY <2>4, <2>7, CaretWillSee
  <2>10. Inserted(ls[r], c, ch) = Lines!InsertAt(ls[r], d, ch)
    BY <2>5, <2>8, InsertAtIs
  <2>11. ms = [ls EXCEPT ![r] = Lines!InsertAt(ls[r], d, ch)]
    BY <2>3, <2>10
  <2>12. Lines!Type(ch)
    <3>1. Lines!Size < TextMax
      BY <1>1, <1>3
    <3>2. Cut(text)' = [Cut(text) EXCEPT ![Len(UpToCaret)] =
             Lines!InsertAt(Cut(text)[Len(UpToCaret)], Len(Last(UpToCaret)) + 1, ch)]
      BY <2>6, <2>8, <2>9, <2>11, Zenon
    <3>3. /\ Len(Last(UpToCaret))' = Len(Last(UpToCaret)) + 1
          /\ Len(UpToCaret)' = Len(UpToCaret)
      BY <2>6, <2>8, <2>9
    <3> QED
      BY <2>1, <3>1, <3>2, <3>3 DEF Lines!Type
  <2> QED
    BY <2>12
<1> QED
  BY <1>2, <1>3

LEMMA InsertBreaks ==
  ASSUME EditInv, Insert(Newline) PROVE Lines!Break \/ BufferFull
<1>1. Len(text) \in Nat /\ Len(text) <= TextMax /\ TextMax \in Nat /\ text \in Seq(TextChars)
      /\ caret \in 0 .. Len(text) /\ Lines!Size = Len(text)
  BY EditTypeFacts, SizeIs
<1>2. CASE ~(Len(text) < TextMax)
  <2>1. UNCHANGED <<text, caret>>
    BY <1>2 DEF Insert
  <2> QED
    BY <1>1, <1>2, <2>1 DEF BufferFull
<1>3. CASE Len(text) < TextMax
  <2> DEFINE ls == Cut(text)
             r == Len(UpToCaret)
             c == Len(Last(UpToCaret))
             m == <<UpTo(ls[r], c), From(ls[r], c)>>
             ms == Spliced(ls, r - 1, m, r + 1)
             q == r + 1
  <2>1. text' = Inserted(text, caret, Newline) /\ caret' = caret + 1 /\ dirty' = TRUE
    BY <1>3 DEF Insert
  <2>2. Sees(text, caret, ls, r, c)
    BY CaretSees
  <2>3. m = <<UpTo(ls[r], c), From(ls[r], c)>> /\ ms = Spliced(ls, r - 1, m, r + 1)
    OBVIOUS
  <2>4. text' \in Seq(TextChars)
    <3>1. Newline \in TextChars
      BY DEF TextChars
    <3>2. TextInv'
      BY <3>1, InsertText
    <3> QED
      BY <3>2 DEF TextInv
  <2>6. ls = Cut(text) /\ r = Len(UpToCaret) /\ c = Len(Last(UpToCaret))
    OBVIOUS
  <2> HIDE DEF ls, r, c, m, ms
  <2>7. Sees(text', caret', ms, q, 0)
    BY <1>1, <2>1, <2>2, <2>3, BreakSees
  <2>8. q = r + 1
    OBVIOUS
  <2> HIDE DEF q
  <2>9. Cut(text)' = ms /\ Len(UpToCaret)' = q /\ Len(Last(UpToCaret))' = 0
    BY <2>4, <2>7, CaretWillSee
  <2>10. ms = SubSeq(ls, 1, r - 1) \o <<SubSeq(ls[r], 1, c), SubSeq(ls[r], c + 1, Len(ls[r]))>>
                \o SubSeq(ls, r + 1, Len(ls))
    BY <2>3, Zenon DEF Spliced, UpTo, From
  <2>11. Lines!Size < TextMax
    BY <1>1, <1>3
  <2>12. Cut(text)' = Lines!Above \o <<SubSeq(Lines!Line, 1, c), SubSeq(Lines!Line, c + 1, Len(Lines!Line))>>
                \o Lines!Below
    BY <2>6, <2>9, <2>10, Zenon DEF Lines!Above, Lines!Below, Lines!Line
  <2> QED
    BY <2>1, <2>6, <2>8, <2>9, <2>11, <2>12 DEF Lines!Break
<1> QED
  BY <1>2, <1>3

LEMMA RemoveAtIs ==
  ASSUME NEW s, NEW o PROVE RemoveAt(s, o) = Lines!RemoveAt(s, o)
BY Zenon DEF RemoveAt, Lines!RemoveAt

LEMMA BackspaceErases == ASSUME EditInv, Backspace PROVE Lines!Erase
<1> DEFINE ls == Cut(text)
           r == Len(UpToCaret)
           c == Len(Last(UpToCaret))
<1>1. /\ text \in Seq(TextChars) /\ caret > 0 /\ caret' = caret - 1
      /\ text' = Deleted(text, caret - 1) /\ dirty' = TRUE
  BY EditTypeFacts DEF Backspace
<1>2. text' \in Seq(TextChars)
  BY BackspaceText DEF TextInv
<1>3. Sees(text, caret, ls, r, c)
  BY CaretSees
<1>4. ls = Cut(text) /\ r = Len(UpToCaret) /\ c = Len(Last(UpToCaret))
  OBVIOUS
<1> HIDE DEF ls, r, c
<1>5. PICK ms, q, d : Sees(text', caret', ms, q, d) /\ Erased(ls, r, c, ms, q, d)
  BY <1>1, <1>3, EraseSees
<1>6. Cut(text)' = ms /\ Len(UpToCaret)' = q /\ Len(Last(UpToCaret))' = d
  BY <1>2, <1>5, CaretWillSee
<1>7. CASE c > 0 /\ ms = [ls EXCEPT ![r] = RemoveAt(ls[r], c)] /\ q = r /\ d = c - 1
  <2>1. ms = [ls EXCEPT ![r] = Lines!RemoveAt(ls[r], c)]
    BY <1>7, RemoveAtIs
  <2>2. Cut(text)' = [Cut(text) EXCEPT ![Len(UpToCaret)] =
           Lines!RemoveAt(Cut(text)[Len(UpToCaret)], Len(Last(UpToCaret)))]
    BY <1>4, <1>6, <2>1, Zenon
  <2>3. /\ Len(Last(UpToCaret)) > 0 /\ Len(UpToCaret)' = Len(UpToCaret)
        /\ Len(Last(UpToCaret))' = Len(Last(UpToCaret)) - 1
    BY <1>4, <1>6, <1>7
  <2> QED
    BY <1>1, <2>2, <2>3 DEF Lines!Erase
<1>8. CASE /\ c = 0 /\ r > 1 /\ ms = Spliced(ls, q - 1, <<Glued(ls, q)>>, q + 2)
           /\ q = r - 1 /\ d = Len(ls[q])
  <2>1. r \in Nat
    BY <1>1, <1>3, SeesLine
  <2>2. q - 1 = r - 2 /\ q + 1 = r /\ q + 2 = r + 1
    BY <1>8, <2>1
  <2>3. ms = Spliced(ls, r - 2, <<ls[q] \o ls[r]>>, r + 1)
    BY <1>8, <2>2, Zenon DEF Glued
  <2>4. ms = SubSeq(ls, 1, r - 2) \o <<ls[q] \o ls[r]>> \o SubSeq(ls, r + 1, Len(ls))
    BY <2>3, Zenon DEF Spliced
  <2>5. Cut(text)' = SubSeq(Cut(text), 1, Len(UpToCaret) - 2)
             \o <<Cut(text)[Len(UpToCaret) - 1] \o Lines!Line>> \o Lines!Below
    BY <1>4, <1>6, <1>8, <2>4, Zenon DEF Lines!Line, Lines!Below
  <2>6. /\ Len(Last(UpToCaret)) = 0 /\ Len(UpToCaret) > 1
        /\ Len(UpToCaret)' = Len(UpToCaret) - 1
        /\ Len(Last(UpToCaret))' = Len(Cut(text)[Len(UpToCaret) - 1])
    BY <1>4, <1>6, <1>8
  <2> QED
    BY <1>1, <2>5, <2>6 DEF Lines!Erase
<1> QED
  BY <1>5, <1>7, <1>8 DEF Erased

(* A step that only moves the caret. *)
LEMMA Going ==
  ASSUME EditInv, UNCHANGED <<text, dirty>>,
         NEW q, NEW d, Sees(text, caret', Cut(text), q, d)
  PROVE  Lines!Goes(q, d)
<1> DEFINE ls == Cut(text)
<1>1. text' = text /\ dirty' = dirty /\ text \in Seq(TextChars) /\ ls = Cut(text)
  BY EditTypeFacts
<1>2. Sees(text', caret', ls, q, d)
  BY <1>1
<1> HIDE DEF ls
<1>3. Cut(text)' = ls /\ Len(UpToCaret)' = q /\ Len(Last(UpToCaret))' = d
  BY <1>1, <1>2, CaretWillSee
<1> QED
  BY <1>1, <1>3 DEF Lines!Goes

LEMMA StepsLeft == ASSUME EditInv, Step(-1) PROVE Lines!Left
<1> DEFINE ls == Cut(text)
           r == Len(UpToCaret)
           c == Len(Last(UpToCaret))
<1>1. /\ text \in Seq(TextChars) /\ caret' = caret - 1 /\ UNCHANGED <<text, dirty>>
      /\ caret > 0
  BY EditTypeFacts DEF Step
<1>2. Sees(text, caret, ls, r, c)
  BY CaretSees
<1>3. ls = Cut(text) /\ r = Len(UpToCaret) /\ c = Len(Last(UpToCaret))
  OBVIOUS
<1> HIDE DEF ls, r, c
<1>4. PICK q, d : Sees(text, caret', ls, q, d) /\ LeftOf(ls, r, c, q, d)
  BY <1>1, <1>2, LeftSees
<1>5. Lines!Goes(q, d)
  BY <1>1, <1>3, <1>4, Going
<1>6. CASE c > 0 /\ q = r /\ d = c - 1
  BY <1>3, <1>5, <1>6 DEF Lines!Left
<1>7. CASE c = 0 /\ r > 1 /\ q = r - 1 /\ d = Len(ls[r - 1])
  BY <1>3, <1>5, <1>7 DEF Lines!Left
<1> QED
  BY <1>4, <1>6, <1>7 DEF LeftOf

LEMMA StepsRight == ASSUME EditInv, Step(1) PROVE Lines!Right
<1> DEFINE ls == Cut(text)
           r == Len(UpToCaret)
           c == Len(Last(UpToCaret))
<1>1. /\ text \in Seq(TextChars) /\ caret' = caret + 1 /\ UNCHANGED <<text, dirty>>
      /\ caret < Len(text)
  BY EditTypeFacts DEF Step
<1>2. Sees(text, caret, ls, r, c)
  BY CaretSees
<1>3. ls = Cut(text) /\ r = Len(UpToCaret) /\ c = Len(Last(UpToCaret))
  OBVIOUS
<1> HIDE DEF ls, r, c
<1>4. PICK q, d : Sees(text, caret', ls, q, d) /\ RightOf(ls, r, c, q, d)
  BY <1>1, <1>2, RightSees
<1>5. Lines!Goes(q, d)
  BY <1>1, <1>3, <1>4, Going
<1>6. CASE c < Len(ls[r]) /\ q = r /\ d = c + 1
  BY <1>3, <1>5, <1>6 DEF Lines!Right, Lines!Line
<1>7. CASE c = Len(ls[r]) /\ r < Len(ls) /\ q = r + 1 /\ d = 0
  BY <1>3, <1>5, <1>7 DEF Lines!Right, Lines!Line
<1> QED
  BY <1>4, <1>6, <1>7 DEF RightOf

(* To a column of line l, or its end. *)
LEMMA Reaching ==
  ASSUME EditInv, UNCHANGED <<text, dirty>>,
         NEW l \in Nat, NEW s, s = LineStart(text, l), s >= 0,
         NEW k \in Nat, caret' = Nearest(s, k), NEW q, q = l + 1
  PROVE  q \in 1 .. Len(Cut(text)) /\ Lines!Reach(q, k)
<1> DEFINE ls == Cut(text)
           d == IF k > Len(ls[q]) THEN Len(ls[q]) ELSE k
           r == Len(UpToCaret)
           c == Len(Last(UpToCaret))
<1>1. text \in Seq(TextChars)
  BY EditTypeFacts
<1>2. Sees(text, caret, ls, r, c)
  BY CaretSees
<1>3. caret' = IF s + k > LineEnd(text, s) THEN LineEnd(text, s) ELSE s + k
  BY DEF Nearest
<1>4. ls = Cut(text) /\ d = IF k > Len(ls[q]) THEN Len(ls[q]) ELSE k
  OBVIOUS
<1> HIDE DEF ls, r, c, d
<1>5. q \in 1 .. Len(ls) /\ Sees(text, caret', ls, q, d)
  BY <1>1, <1>2, <1>3, <1>4, ReachSees
<1>6. Lines!Goes(q, d)
  BY <1>4, <1>5, Going
<1> QED
  BY <1>4, <1>5, <1>6 DEF Lines!Reach

LEMMA LineMoves ==
  ASSUME EditInv, NEW b \in {-1, 1}, MoveLine(b)
  PROVE  /\ b = -1 => Lines!Up
         /\ b = 1 => Lines!Down
<1> DEFINE ls == Cut(text)
           r == Len(UpToCaret)
           c == Len(Last(UpToCaret))
           l == r - 1 + b
           s == LineStart(text, l)
           q == r + b
<1>1. text \in Seq(TextChars)
  BY EditTypeFacts
<1>2. Sees(text, caret, ls, r, c)
  BY CaretSees
<1>3. ls = Cut(text) /\ r = Len(UpToCaret) /\ c = Len(Last(UpToCaret))
  OBVIOUS
<1> HIDE DEF ls, r, c
<1>4. /\ LineOf(text, caret) = r - 1 /\ caret - LineStart(text, r - 1) = c
      /\ r \in Nat /\ r >= 1 /\ r <= Len(ls) /\ Len(ls) \in Nat /\ c \in Nat
  BY <1>1, <1>2, SeesLine
<1>5. /\ l >= 0 /\ s >= 0 /\ caret' = Nearest(s, c) /\ UNCHANGED <<text, dirty>>
  BY <1>4 DEF MoveLine
<1>6. l \in Nat /\ q = l + 1
  BY <1>4, <1>5
<1>7. s = LineStart(text, l)
  OBVIOUS
<1>7a. q = r + b
  OBVIOUS
<1> HIDE DEF l, s, q
<1>8. q \in 1 .. Len(ls) /\ Lines!Reach(q, c)
  BY <1>3, <1>4, <1>5, <1>6, <1>7, Reaching
<1>9. ASSUME b = -1 PROVE Lines!Up
  <2>1. q = r - 1 /\ r > 1
    BY <1>4, <1>7a, <1>8, <1>9
  <2> QED
    BY <1>3, <1>8, <2>1 DEF Lines!Up
<1>10. ASSUME b = 1 PROVE Lines!Down
  <2>1. q = r + 1 /\ r < Len(ls)
    BY <1>4, <1>7a, <1>8, <1>10
  <2> QED
    BY <1>3, <1>8, <2>1 DEF Lines!Down
<1> QED
  BY <1>9, <1>10

LEMMA ClickPoints ==
  ASSUME EditInv, NEW y \in 0 .. TextMax, NEW k \in 0 .. TextMax, Click(y, k)
  PROVE  Lines!Point
<1> DEFINE l == top + y
           s == LineStart(text, l)
           q == l + 1
<1>1. /\ caret' = (IF s < 0 THEN Len(text) ELSE Nearest(s, k)) /\ UNCHANGED <<text, dirty>>
  BY DEF Click
<1>2. l \in Nat /\ k \in Nat /\ TextMax \in Nat /\ text \in Seq(TextChars)
  BY EditTypeFacts
<1>3. s \in Int
  <2>1. s \in -1 .. Len(text)
    BY <1>2, LineStartRange
  <2> QED
    BY <2>1
<1>4. s = LineStart(text, l) /\ q = l + 1
  OBVIOUS
<1> HIDE DEF l, s, q
<1>5. CASE s >= 0
  <2>1. caret' = Nearest(s, k)
    BY <1>1, <1>3, <1>5
  <2>2. q \in 1 .. Len(Cut(text)) /\ Lines!Reach(q, k)
    BY <1>1, <1>2, <1>4, <1>5, <2>1, Reaching
  <2>3. DOMAIN Cut(text) = 1 .. Len(Cut(text))
    <3>1. Sees(text, caret, Cut(text), Len(UpToCaret), Len(Last(UpToCaret)))
      BY CaretSees
    <3>2. Cut(text) \in Seq(Seq(TextKeys))
      BY <3>1 DEF Sees, Ruled
    <3> QED
      BY <3>2, LenProperties
  <2> QED
    BY <2>2, <2>3 DEF Lines!Point
<1>6. CASE s < 0
  <2> DEFINE ls == Cut(text)
             n == Len(ls)
             d == Len(ls[n])
  <2>1. caret' = Len(text)
    BY <1>1, <1>6
  <2>2. Sees(text, caret, ls, Len(UpToCaret), Len(Last(UpToCaret)))
    BY CaretSees
  <2>3. Sees(text, Len(text), ls, n, d)
    BY <1>2, <2>2, EndSees
  <2>4. Lines!Goes(n, d)
    BY <1>1, <2>1, <2>3, Going
  <2> QED
    BY <2>4 DEF Lines!Point
<1> QED
  BY <1>3, <1>5, <1>6

(* Steps that replace the text. *)
LEMMA SizeWillBe ==
  ASSUME text' \in Seq(TextChars), caret' \in 0 .. Len(text')
  PROVE  Lines!Size' = Len(text') /\ Lines!Before' = caret'
<1> DEFINE t == text'
           o == caret'
           ls == Cut(t)
           r == Len(Cut(SubSeq(t, 1, o)))
           c == Len(Last(Cut(SubSeq(t, 1, o))))
           l == Len(ls)
<1>1. Sees(t, o, ls, r, c) /\ l = Len(ls)
  BY SeesNow
<1>2. Lines!Size' = Lines!Total(ls, l) - 1 /\ Lines!Before' = Lines!Total(ls, r - 1) + c
  BY DEF Lines!Size, Lines!Before, UpToCaret
<1> HIDE DEF t, o, ls, r, c, l
<1>3. Lines!Total(ls, l) - 1 = Len(t) /\ Lines!Total(ls, r - 1) + c = o
  BY <1>1, SeesCounts
<1> QED
  BY <1>2, <1>3 DEF t, o

LEMMA TopOfText ==
  ASSUME caret' = 0
  PROVE  Len(UpToCaret)' = 1 /\ Len(Last(UpToCaret))' = 0
<1>1. Len(Cut(SubSeq(text', 1, 0))) = 1 /\ Len(Last(Cut(SubSeq(text', 1, 0)))) = 0
  BY NothingBefore
<1> QED
  BY <1>1 DEF UpToCaret

LEMMA NewEmpties == ASSUME New PROVE Lines!Empty
<1>1. text' = << >> /\ dirty' = FALSE /\ caret' = 0
  BY DEF New
<1>2. Cut(text)' = << << >> >>
  BY <1>1, EmptyCut
<1> QED
  BY <1>1, <1>2, TopOfText DEF Lines!Empty

LEMMA OpenLoads == ASSUME EditInv, NEW e \in Entries, OpenFile(e) PROVE Lines!Load
<1>1. text' = Clip(e.body, TextMax) /\ dirty' = FALSE /\ caret' = 0
  BY DEF OpenFile
<1>2. text' \in Seq(TextChars) /\ Len(text') <= TextMax
  BY <1>1, EntryText
<1>3. caret' \in 0 .. Len(text')
  BY <1>1, <1>2, LenProperties
<1>4. Lines!Size' <= TextMax
  BY <1>2, <1>3, SizeWillBe
<1> QED
  BY <1>1, <1>4, TopOfText DEF Lines!Load

LEMMA OpenSpoils ==
  ASSUME EditInv, NEW e \in Entries, NEW k \in 0 .. Len(e.body), OpenFails(e, k)
  PROVE  Lines!Spoil
<1>1. /\ text' = [i \in DOMAIN text |-> IF i <= k THEN e.body[i] ELSE text[i]]
      /\ UNCHANGED <<dirty, caret>>
  BY DEF OpenFails
<1>2. text' \in Seq(TextChars) /\ Len(text') = Len(text)
  BY <1>1, SpoiltText DEF EditInv
<1>3. caret' \in 0 .. Len(text')
  BY <1>1, <1>2, EditTypeFacts
<1>4. Lines!Size' = Len(text) /\ Lines!Before' = caret
  BY <1>1, <1>2, <1>3, SizeWillBe
<1> QED
  BY <1>1, <1>4, SizeIs DEF Lines!Spoil

LEMMA TextStays ==
  ASSUME UNCHANGED <<text, caret>>
  PROVE  UNCHANGED <<Cut(text), Len(UpToCaret), Len(Last(UpToCaret))>>
BY DEF UpToCaret

LEMMA SaveStores == ASSUME Save PROVE Lines!Store
<1>1. dirty' = FALSE /\ UNCHANGED <<text, caret>>
  BY DEF Save
<1> QED
  BY <1>1, TextStays DEF Lines!Store

(* A full buffer takes no key. *)
LEMMA FullStays ==
  ASSUME NEW ch \in TextChars, Insert(ch), BufferFull, EditInv
  PROVE  UNCHANGED <<text, caret, dirty>>
<1>1. Len(text) = TextMax /\ TextMax \in Nat
  BY SizeIs, EditTypeFacts DEF BufferFull
<1> QED
  BY <1>1 DEF Insert

(* What each key means. *)
LEMMA KeysStep == EditInv /\ [EditNext]_editVars => [KeysEditLines]_editVars
<1> SUFFICES ASSUME EditInv PROVE KeysEditLines
  OBVIOUS
<1>1. ASSUME NEW ch \in TextKeys, Insert(ch) PROVE Lines!Type(ch) \/ BufferFull
  BY <1>1, InsertTypes
<1>2. Insert(Newline) => Lines!Break \/ BufferFull
  BY InsertBreaks
<1>3. Backspace => Lines!Erase
  BY BackspaceErases
<1>4. (Step(-1) => Lines!Left) /\ (Step(1) => Lines!Right)
  BY StepsLeft, StepsRight
<1>5. MoveLine(-1) => Lines!Up
  <2>1. -1 \in {-1, 1}
    OBVIOUS
  <2> QED
    BY <2>1, LineMoves
<1>6. MoveLine(1) => Lines!Down
  BY LineMoves
<1> QED
  BY <1>1, <1>2, <1>3, <1>4, <1>5, <1>6 DEF KeysEditLines

LEMMA LinesStep == EditInv /\ [EditNext]_editVars => [Lines!LinesNext]_(Lines!linesVars)
<1> SUFFICES ASSUME EditInv, [EditNext]_editVars
             PROVE  Lines!LinesNext \/ UNCHANGED Lines!linesVars
  OBVIOUS
<1>1. ASSUME UNCHANGED <<text, caret, dirty>> PROVE UNCHANGED Lines!linesVars
  BY <1>1, TextStays DEF Lines!linesVars
<1>2. ASSUME NEW ch \in TextKeys \cup {Newline}, Insert(ch)
      PROVE  Lines!LinesNext \/ UNCHANGED Lines!linesVars
  <2>1. CASE BufferFull
    BY <1>1, <1>2, <2>1, FullStays DEF TextChars
  <2>2. CASE Lines!Break
    BY <2>2 DEF Lines!LinesNext
  <2>3. CASE \E c \in TextKeys : Lines!Type(c)
    BY <2>3 DEF Lines!LinesNext
  <2>4. ch \in TextKeys => Lines!Type(ch) \/ BufferFull
    BY <1>2, InsertTypes
  <2>5. ch = Newline => Lines!Break \/ BufferFull
    BY <1>2, InsertBreaks
  <2> QED
    BY <2>1, <2>2, <2>3, <2>4, <2>5
<1>3. ASSUME Backspace PROVE Lines!LinesNext
  BY <1>3, BackspaceErases DEF Lines!LinesNext
<1>4. ASSUME NEW d \in {-1, 1}, Step(d) PROVE Lines!LinesNext
  BY <1>4, StepsLeft, StepsRight DEF Lines!LinesNext
<1>5. ASSUME NEW d \in {-1, 1}, MoveLine(d) PROVE Lines!LinesNext
  BY <1>5, LineMoves DEF Lines!LinesNext
<1>6. ASSUME NEW r \in 0 .. TextMax, NEW c \in 0 .. TextMax, Click(r, c)
      PROVE  Lines!LinesNext
  BY <1>6, ClickPoints DEF Lines!LinesNext
<1>7. ASSUME NEW on \in BOOLEAN, Focus(on) PROVE UNCHANGED Lines!linesVars
  BY <1>1, <1>7 DEF Focus
<1>8. ASSUME NEW c \in NameKeys, NameKey(c) PROVE UNCHANGED Lines!linesVars
  BY <1>1, <1>8 DEF NameKey
<1>9. ASSUME NameBackspace PROVE UNCHANGED Lines!linesVars
  BY <1>1, <1>9 DEF NameBackspace
<1>10. ASSUME New PROVE Lines!LinesNext
  BY <1>10, NewEmpties DEF Lines!LinesNext
<1>11. ASSUME Save PROVE Lines!LinesNext
  BY <1>11, SaveStores DEF Lines!LinesNext
<1>12. ASSUME NEW e \in Entries, OpenFile(e) PROVE Lines!LinesNext
  BY <1>12, OpenLoads DEF Lines!LinesNext
<1>13. ASSUME NEW e \in Entries, RemoveFile(e) PROVE UNCHANGED Lines!linesVars
  BY <1>1, <1>13 DEF RemoveFile
<1>14. ASSUME NEW e \in Entries, NEW k \in 0 .. Len(e.body), OpenFails(e, k)
       PROVE  Lines!LinesNext
  BY <1>14, OpenSpoils DEF Lines!LinesNext
<1>15. ASSUME NEW shown \in BOOLEAN, NEW n \in Heights, Window(shown, n)
       PROVE  UNCHANGED Lines!linesVars
  BY <1>1, <1>15 DEF Window
<1>16. ASSUME UNCHANGED editVars PROVE UNCHANGED Lines!linesVars
  BY <1>1, <1>16 DEF editVars
<1> QED
  BY <1>2, <1>3, <1>4, <1>5, <1>6, <1>7, <1>8, <1>9, <1>10, <1>11, <1>12, <1>13, <1>14,
     <1>15, <1>16 DEF EditNext

LEMMA LinesStart == EditInit => Lines!LinesInit
<1> SUFFICES ASSUME EditInit PROVE Lines!LinesInit
  OBVIOUS
<1>1. text = << >> /\ caret = 0 /\ dirty = FALSE
  BY DEF EditInit
<1>2. Cut(text) = << << >> >>
  BY <1>1, EmptyCut
<1>3. Len(UpToCaret) = 1 /\ Len(Last(UpToCaret)) = 0
  BY <1>1, NothingBefore DEF UpToCaret
<1> QED
  BY <1>1, <1>2, <1>3 DEF Lines!LinesInit

(* Typing, moving, clicking and loading, in a flat buffer that knows of    *)
(* offsets only, is editing lines: each key does to rows and columns what  *)
(* its user expects, for every text, caret and capacity.                   *)
THEOREM LinesImplemented == EditSpec => ImplementsLines
  BY InitEdit, NextEdit, LinesStart, LinesStep, KeysStep, PTL
     DEF EditSpec, ImplementsLines, Lines!LinesSpec
=============================================================================
