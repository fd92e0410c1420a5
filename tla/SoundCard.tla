------------------------------ MODULE SoundCard -----------------------------
(***************************************************************************)
(* wasm/sb16.c and the clock it measures with: the clips built into the    *)
(* DMA buffer when the first sound is asked for, one-shot transfers whose  *)
(* end is only guessed from the millisecond counter, and the tone on the   *)
(* PC speaker that blocks the machine where no card answers.               *)
(*                                                                         *)
(* The counter is sys_api.asm's sys_ticks: IRQ0 adds one at any time, C    *)
(* reads it as a signed int, sys_sleep compares it unsigned.               *)
(***************************************************************************)
EXTENDS Integers, FiniteSets

CONSTANTS
  Word,         \* 2^32
  Clips,        \* how many: SND_COUNT
  ClipMs,       \* the durations build_clips asks reserve for
  Voices,       \* the tones it mixes into each clip: sets of [delay, ms]
  FallbackMs,   \* FALLBACK_MS
  Rate,         \* SB_RATE, in samples per
  Second,       \*   1000 ms
  DmaBytes,     \* DMA_BYTES
  MaxTransfer,  \* 65536: what the card plays for a length of zero
  Slack         \* the 10 ms audio_play waits past a clip's end

Clip == 0 .. Clips - 1

Words == 0 .. Word - 1
Signed(n) == IF 2 * n < Word THEN n ELSE n - Word
Plus(n, ms) == (n + ms) % Word

(* The samples a duration takes, and the milliseconds some samples take:   *)
(* rounded down as audio_play does, and up.                                *)
Samples(ms) == (Rate * ms) \div Second
Lasts(samples) == (samples * Second) \div Rate
LastsUp(samples) == (samples * Second + Rate - 1) \div Rate

ASSUME ClockAssumption == Word \in Nat /\ Word > 1
ASSUME ClipsAssumption ==
  /\ Clips \in Nat \ {0} /\ DmaBytes \in Nat /\ Slack \in Nat /\ MaxTransfer \in Nat
  /\ Rate \in Nat \ {0} /\ Second \in Nat \ {0}
  /\ ClipMs \in [Clip -> Nat] /\ FallbackMs \in [Clip -> Nat \ {0}]
  /\ Voices \in [Clip -> SUBSET [delay : Nat, ms : Nat]]

(* No clip lasts as long as the clock takes from zero to its largest int,  *)
(* and the slack covers what rounding and a late start take from it.       *)
ASSUME ShortAssumption ==
  /\ Slack >= 2
  /\ \A c \in Clip : 2 * (Lasts(Samples(ClipMs[c])) + Slack) <= Word

VARIABLES
  ticks,             \* sys_ticks
  probed, present,   \* g_probed, g_present
  pc,                \* where the one thread of the system is in audio_play
  clip, effect,      \* its clip, and whether hf_beep called it
  built, at,         \* build_clips: the clip it is at, the first free byte
  offset, length,    \* g_offset, g_length
  dma,               \* the clips whose voices sound in each byte of the buffer
  busyUntil,         \* g_busy_until
  target,            \* sys_sleep's target
  speaker,           \* environment: what the PC speaker sounds
  left               \* environment: how long the card may still be sounding

clipTable == <<built, at, offset, length, dma>>
cardVars == <<probed, present, clipTable, busyUntil, left>>
playVars == <<pc, clip, effect, target>>

Bytes == 0 .. DmaBytes - 1
AtLeast(a, b) == IF a < b THEN b ELSE a
AtMost(a, b) == IF a < b THEN a ELSE b

(* audio_play returns; its locals and sys_sleep's are gone. *)
Returns == pc' = "free" /\ clip' = 0 /\ effect' = FALSE /\ target' = 0

CardInit ==
  /\ ticks = 0
  /\ probed = FALSE /\ present = FALSE
  /\ pc = "free" /\ clip = 0 /\ effect = FALSE
  /\ built = 0 /\ at = 0
  /\ offset = [c \in Clip |-> 0] /\ length = [c \in Clip |-> 0]
  /\ dma = [b \in Bytes |-> {}]
  /\ busyUntil = 0 /\ target = 0
  /\ speaker = "off" /\ left = 0

----------------------------------------------------------------------------
(* sys_sleep's test. *)
SleepOver == ticks >= target

(* irq0_timer_handler.  A sleeping thread looks at the counter again after *)
(* every interrupt, long before the next one.                              *)
Tick ==
  /\ ~(pc = "tone" /\ SleepOver)
  /\ ticks' = Plus(ticks, 1)
  /\ left' = AtLeast(left - 1, 0)

(* Mutant of Reserved: the room that is left is not looked at. *)
ReservedPast(ms) == Samples(ms)

(* reserve: the samples a clip gets. *)
Reserved(ms) == AtMost(Samples(ms), DmaBytes - at)

(* mix_tone's voices of clip c put at byte base: up to the buffer's end. *)
Mixed(c, base) ==
  {b \in Bytes : \E v \in Voices[c] :
     LET start == base + Samples(v.delay) IN b \in start .. start + Samples(v.ms) - 1}

(* sb16_probe: the card answers the reset, or there is none. *)
Probe ==
  /\ pc = "start" /\ ~probed
  /\ probed' = TRUE
  /\ \E answers \in BOOLEAN :
       /\ present' = answers
       /\ pc' = IF answers THEN "build" ELSE "start"
  /\ UNCHANGED <<ticks, clip, effect, clipTable, busyUntil, target, speaker, left>>

(* One clip of build_clips: reserve silences its bytes, its voices follow. *)
Build ==
  /\ pc = "build"
  /\ LET n == Reserved(ClipMs[built])
         own == at .. at + n - 1
     IN  /\ offset' = [offset EXCEPT ![built] = at]
         /\ length' = [length EXCEPT ![built] = n]
         /\ dma' = [b \in Bytes |->
                      (IF b \in own THEN {} ELSE dma[b])
                        \cup (IF b \in Mixed(built, at) THEN {built} ELSE {})]
         /\ at' = at + n
  /\ built' = built + 1
  /\ pc' = IF built' = Clips THEN "start" ELSE "build"
  /\ UNCHANGED <<ticks, probed, present, clip, effect, busyUntil, target, speaker, left>>

Busy == Signed(ticks) < Signed(busyUntil)

(* Mutant of FreeAgain: no slack past the clip's length. *)
FreeAgainAtOnce(c) == Plus(ticks, Lasts(length[c]))

FreeAgain(c) == Plus(ticks, Lasts(length[c]) + Slack)

(* sb16_transfer gives the card a clip's last sample, in 16 bits: a clip   *)
(* without samples has the largest.                                        *)
Transferred(samples) == IF samples = 0 THEN MaxTransfer ELSE samples

(* audio_play with a card: dropped while the last clip sounds, by the      *)
(* clock; sb16_transfer otherwise.  The card may start up to a millisecond *)
(* after the tick it was counted from.                                     *)
OnCard ==
  /\ pc = "start" /\ probed /\ present
  /\ IF Busy THEN UNCHANGED <<busyUntil, left>>
     ELSE busyUntil' = FreeAgain(clip) /\ left' = LastsUp(Transferred(length[clip])) + 1
  /\ Returns
  /\ UNCHANGED <<ticks, probed, present, clipTable, speaker>>

(* ... and without one: the tone starts and the machine sleeps. *)
OnSpeaker ==
  /\ pc = "start" /\ probed /\ ~present
  /\ speaker' = "tone"
  /\ target' = Plus(ticks, FallbackMs[clip])
  /\ pc' = "tone"
  /\ UNCHANGED <<ticks, clip, effect, cardVars>>

(* Mutant of ToneOff: the tone is left on. *)
ToneLeftOn == UNCHANGED speaker

(* sys_beep(0) *)
ToneOff == speaker' = "off"

(* audio_play(c), for the desktop or for the guest's hf_beep. *)
Call(c, forBeep) ==
  /\ pc = "free"
  /\ pc' = "start" /\ clip' = c /\ effect' = forBeep
  /\ UNCHANGED <<ticks, cardVars, target, speaker>>

CardNext == Probe \/ Build \/ OnCard \/ OnSpeaker

----------------------------------------------------------------------------
CardTypeOK ==
  /\ {ticks, busyUntil, target} \subseteq Words
  /\ {probed, present, effect} \subseteq BOOLEAN
  /\ pc \in {"free", "start", "build", "tone"} /\ clip \in Clip
  /\ built \in 0 .. Clips /\ at \in 0 .. DmaBytes
  /\ offset \in [Clip -> 0 .. DmaBytes] /\ length \in [Clip -> 0 .. DmaBytes]
  /\ dma \in [Bytes -> SUBSET Clip]
  /\ speaker \in {"off", "tone", "note"} /\ left \in Nat

Span(c) == offset[c] .. offset[c] + length[c] - 1
Done == 0 .. built - 1

(* Whatever durations the clips are given, the part of the buffer reserved *)
(* for one lies in the buffer and is no other clip's (reserve).  It is what *)
(* a transfer of the clip reads, unless it is empty (Transferred).         *)
ClipsApart ==
  \A c \in Done :
    /\ Span(c) \subseteq Bytes
    /\ \A d \in Done : c # d => Span(c) \cap Span(d) = {}

(* The bytes of that part sound the clip's own voices and no others',      *)
(* however long the voices are and however the clips were cut short        *)
(* (mix_tone stops at the buffer's end only, reserve silences first).      *)
ClipsPure == \A c \in Done : \A b \in Span(c) \cap Bytes : dma[b] \subseteq {c}

(* Both: a transfer of a clip that is not empty sounds it and nothing else. *)
ClipsWhole == ClipsApart /\ ClipsPure

(* The buffer has room for a sample of every clip. *)
Filled == \A c \in Clip : length[c] > 0

(* A card that still sounds is taken for busy, so that no transfer cuts a  *)
(* clip off -- while the counter and the end it is compared with have the  *)
(* same sign as an int, and unless the table has an empty clip, which is   *)
(* played for MaxTransfer samples and timed as none (audio_play).          *)
SoundingIsBusy ==
  left > 0 /\ Filled /\ (2 * ticks < Word <=> 2 * busyUntil < Word) => Busy
=============================================================================
