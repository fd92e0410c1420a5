------------------------------ MODULE Keyboard ------------------------------
(***************************************************************************)
(* The keyboard of boot/sys_api.asm: IRQ1 fills a ring of key bytes and    *)
(* keeps the modifier state; the desktop loop takes one key per round out  *)
(* of the ring with interrupts on, so that IRQ1 may run between any two of *)
(* its memory accesses.  The interrupt handler itself is one step.         *)
(***************************************************************************)
EXTENDS Integers, Sequences

CONSTANTS
  Codes,       \* scan codes of keys that are not modifiers
  Printable,   \* those kbd_ascii_map or the F key ranges know
  ModKeys,     \* the keyboard's modifier keys
  ModOf,       \* [ModKeys -> {"shift", "ctrl", "alt"}]: the state each one sets
  FifoSize,    \* 256
  MaxPresses   \* bound: keys that enter the ring

Mods == {"shift", "ctrl", "alt"}
ModOrder == <<"alt", "ctrl", "shift">>    \* the order they are tested in

ASSUME KeysAssumption == Printable \subseteq Codes /\ ModOf \in [ModKeys -> Mods]
ASSUME SizeAssumption == FifoSize \in Nat /\ FifoSize >= 2 /\ MaxPresses \in Nat

VARIABLES
  buf, head, tail,   \* kbd_fifo_buf, kbd_fifo_head, kbd_fifo_tail
  e0,                \* kbd_e0: an extended key's prefix has arrived
  down,              \* kbd_shift_state, kbd_ctrl_state, kbd_alt_state
  pc, val, upper, mods, turn,   \* sys_read_keyboard_scancode's registers
  held,              \* environment: the modifier keys that are held
  log,               \* history: the key bytes that entered the ring
  taken,             \* history: how many of them have left it
  seen               \* history: the modifiers held at some time since each

ring == <<buf, head, tail>>
reader == <<pc, val, upper, mods, turn>>
vars == <<ring, e0, down, reader, held, log, taken, seen>>

Ring == 0 .. FifoSize - 1
KeyBytes == [code : Codes, extended : BOOLEAN]
NoKey == [code |-> "none", extended |-> FALSE]

HeldMods == {ModOf[m] : m \in held}

Init ==
  /\ buf = [i \in Ring |-> NoKey] /\ head = 0 /\ tail = 0
  /\ e0 = FALSE /\ down = {}
  /\ pc = "poll" /\ val = NoKey /\ upper = FALSE /\ mods = {} /\ turn = 1
  /\ held = {} /\ log = << >> /\ taken = 0 /\ seen = << >>

----------------------------------------------------------------------------
(* irq1_keyboard_handler, one action per kind of byte.                     *)

(* Mutant of Wrap: the index is not masked. *)
NoWrap(i) == i

(* and edx, 0xFF *)
Wrap(i) == IF i >= FifoSize THEN i - FifoSize ELSE i

Prefix ==
  /\ e0' = TRUE
  /\ UNCHANGED <<ring, down, reader, held, log, taken, seen>>

(* Mutant of Full: the last free place is used too, and a full ring looks  *)
(* empty.                                                                  *)
NeverFull == FALSE

(* One place stays free, so that full and empty differ. *)
Full == Wrap(tail + 1) = head

(* A key goes down.  When the ring is full the byte is dropped. *)
Press(c) ==
  LET byte == [code |-> c, extended |-> e0] IN
  /\ Len(log) < MaxPresses
  /\ IF Full THEN UNCHANGED <<ring, log, seen>>
     ELSE /\ buf' = [buf EXCEPT ![tail] = byte]
          /\ tail' = Wrap(tail + 1)
          /\ log' = Append(log, byte)
          /\ seen' = Append(seen, HeldMods)
          /\ UNCHANGED head
  /\ e0' = FALSE
  /\ UNCHANGED <<down, reader, held, taken>>

(* A key comes up: only the prefix is forgotten. *)
Release ==
  /\ e0' = FALSE
  /\ UNCHANGED <<ring, down, reader, held, log, taken, seen>>

ModDown(m) ==
  /\ held' = held \cup {m}
  /\ down' = down \cup {ModOf[m]}
  /\ seen' = [k \in 1 .. Len(log) |-> IF k >= taken THEN seen[k] \cup {ModOf[m]} ELSE seen[k]]
  /\ e0' = FALSE
  /\ UNCHANGED <<ring, reader, log, taken>>

(* Mutant of ModUp: the release is not told from the press. *)
ModUpSticks(m) ==
  /\ m \in held
  /\ held' = held \ {m}
  /\ e0' = FALSE
  /\ UNCHANGED <<ring, down, reader, log, taken, seen>>

(* The state is one byte per modifier: with both shift keys held, letting  *)
(* go of one clears it.                                                    *)
ModUp(m) ==
  /\ m \in held
  /\ held' = held \ {m}
  /\ down' = down \ {ModOf[m]}
  /\ e0' = FALSE
  /\ UNCHANGED <<ring, reader, log, taken, seen>>

Irq1 ==
  \/ Prefix \/ Release
  \/ \E c \in Codes : Press(c)
  \/ \E m \in ModKeys : ModDown(m) \/ ModUp(m)

----------------------------------------------------------------------------
(* sys_read_keyboard_scancode, called by handleKeys once a round.          *)

(* An empty ring returns 0, and the next round polls again. *)
Poll ==
  /\ pc = "poll" /\ head # tail
  /\ pc' = "load"
  /\ UNCHANGED <<ring, e0, down, val, upper, mods, turn, held, log, taken, seen>>

Load ==
  /\ pc = "load"
  /\ val' = buf[head]
  /\ pc' = "advance"
  /\ UNCHANGED <<ring, e0, down, upper, mods, turn, held, log, taken, seen>>

(* An extended key is always special; another has to be in a table. *)
Known(b) == b.extended \/ b.code \in Printable

(* Mutant of Advance: a key no table knows is left in the ring. *)
AdvanceKnown ==
  /\ pc = "advance"
  /\ IF Known(val) THEN head' = Wrap(head + 1) /\ taken' = taken + 1 /\ pc' = "case"
                   ELSE pc' = "poll" /\ UNCHANGED <<head, taken>>
  /\ upper' = FALSE /\ mods' = {} /\ turn' = 1
  /\ UNCHANGED <<buf, tail, e0, down, val, held, log, seen>>

(* The place is given back, and the tables are looked up. *)
Advance ==
  /\ pc = "advance"
  /\ head' = Wrap(head + 1)
  /\ taken' = taken + 1
  /\ upper' = FALSE /\ mods' = {} /\ turn' = 1
  /\ pc' = IF Known(val) THEN "case" ELSE "unknown"
  /\ UNCHANGED <<buf, tail, e0, down, val, held, log, seen>>

(* A key without a character returns 0, as an empty ring does. *)
Unknown ==
  /\ pc = "unknown"
  /\ pc' = "poll" /\ val' = NoKey
  /\ UNCHANGED <<ring, e0, down, upper, mods, turn, held, log, taken, seen>>

(* A letter's case is the shift state of this moment. *)
Case ==
  /\ pc = "case"
  /\ upper' = (~val.extended /\ "shift" \in down)
  /\ pc' = "modifiers"
  /\ UNCHANGED <<ring, e0, down, val, mods, turn, held, log, taken, seen>>

(* Then each modifier bit is the state of its own moment. *)
Modifier ==
  /\ pc = "modifiers"
  /\ mods' = mods \cup ({ModOrder[turn]} \cap down)
  /\ IF turn < Len(ModOrder) THEN turn' = turn + 1 /\ UNCHANGED pc
                             ELSE pc' = "deliver" /\ UNCHANGED turn
  /\ UNCHANGED <<ring, e0, down, val, upper, held, log, taken, seen>>

(* modifiers | code, to handleKeys. *)
Deliver ==
  /\ pc = "deliver"
  /\ pc' = "poll" /\ val' = NoKey /\ upper' = FALSE /\ mods' = {} /\ turn' = 1
  /\ UNCHANGED <<ring, e0, down, held, log, taken, seen>>

Reader == Poll \/ Load \/ Advance \/ Unknown \/ Case \/ Modifier \/ Deliver

Next == Irq1 \/ Reader

Spec == Init /\ [][Next]_vars

(* desktopLoop never stops calling handleKeys. *)
FairSpec == Spec /\ WF_vars(Reader)

----------------------------------------------------------------------------
Reading == {"case", "modifiers", "deliver", "unknown"}
Pending == IF tail >= head THEN tail - head ELSE tail - head + FifoSize

TypeOK ==
  /\ buf \in [Ring -> KeyBytes \cup {NoKey}]
  /\ head \in Ring /\ tail \in Ring
  /\ e0 \in BOOLEAN /\ down \subseteq Mods
  /\ pc \in {"poll", "load", "advance"} \cup Reading
  /\ val \in KeyBytes \cup {NoKey} /\ upper \in BOOLEAN /\ mods \subseteq Mods
  /\ turn \in 1 .. Len(ModOrder)
  /\ held \subseteq ModKeys
  /\ log \in Seq(KeyBytes) /\ Len(log) <= MaxPresses
  /\ taken \in Nat
  /\ seen \in Seq(SUBSET Mods)

(* The ring is a queue: the bytes that entered and have not left are in it *)
(* in order, however IRQ1 and the reader interleave, and the byte the      *)
(* reader works on is the one whose turn it is.  Nothing is overwritten    *)
(* and nothing is read twice.                                              *)
FifoFaithful ==
  /\ Pending = Len(log) - taken
  /\ \A j \in 0 .. Pending - 1 : buf[Wrap(head + j)] = log[taken + 1 + j]
  /\ pc \in {"load", "advance"} => Pending > 0
  /\ pc = "advance" => val = log[taken + 1]
  /\ pc \in Reading => taken > 0 /\ val = log[taken]

(* The modifiers a key arrives with were each held at some moment between  *)
(* its press and its delivery.  (They need not have been held at either:   *)
(* they are sampled when the key is read, one by one.)                     *)
ModifiersHeld ==
  pc \in Reading =>
    mods \subseteq seen[taken] /\ (upper => "shift" \in seen[taken])

(* Every key that entered the ring is taken out of it. *)
AllKeysRead == \A k \in 1 .. MaxPresses : Len(log) >= k ~> taken >= k
=============================================================================
