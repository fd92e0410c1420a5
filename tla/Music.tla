-------------------------------- MODULE Music -------------------------------
(***************************************************************************)
(* The sequencer of wasm/host.c and everything that sounds: the desktop's  *)
(* loop ticks it, the guest selects a track or asks for an effect, the     *)
(* desktop switches the sound off or covers the guest's window, and an     *)
(* effect that falls back to the PC speaker cuts into the note that is     *)
(* sounding there.                                                         *)
(***************************************************************************)
EXTENDS SoundCard, Sequences

CONSTANTS
  Fanfare, Theme,   \* fanfare_ms, theme_ms
  Gap,              \* MUSIC_GAP
  Effects,          \* the clips hf_beep chooses from by pitch
  Win,              \* SND_WIN
  MaxSince          \* bound: how far since counts, past every due

ASSUME TunesAssumption ==
  /\ Fanfare # << >> /\ Theme # << >> /\ Gap \in Nat \ {0}
  /\ Fanfare \in Seq(Nat) /\ Theme \in Seq(Nat)
  /\ Effects \subseteq Clip /\ Win \in Clip
  /\ MaxSince \in Nat

VARIABLES
  track,      \* g_track: 0 none, 1 the fanfare, anything else the theme
  note,       \* g_note, from 1
  resting,    \* g_resting: the note has been started
  noteAt,     \* g_note_at
  sounding,   \* g_sounding
  soundOn,    \* g_sound_on
  audible,    \* the guest's window is open and not minimised
  due, since  \* history: how long the note or rest is to last, and has lasted

tune == <<track, note, resting>>
history == <<due, since>>
vars == <<ticks, cardVars, playVars, speaker, tune, noteAt, sounding, soundOn, audible, history>>

Init ==
  /\ CardInit
  /\ track = 0 /\ note = 1 /\ resting = FALSE /\ noteAt = 0
  /\ sounding = FALSE /\ soundOn = TRUE
  /\ audible = FALSE
  /\ due = 0 /\ since = 0

Tune == IF track = 1 THEN Fanfare ELSE Theme

(* music_silence *)
Silence == sounding' = FALSE /\ speaker' = IF sounding THEN "off" ELSE speaker

Due(ms) == noteAt' = Plus(ticks, ms) /\ due' = ms /\ since' = 0

----------------------------------------------------------------------------
(* wasm_music_tick.                                                        *)

(* Mutant of Muted: a window that was covered goes on playing. *)
MutedBySetting == ~soundOn \/ track = 0

Muted == ~audible \/ ~soundOn \/ track = 0

(* `now - g_note_at < 0`.  A difference that is no int is undefined: the   *)
(* subtraction may wrap, or the compiler compares the two directly.        *)
Early ==
  LET d == Signed(ticks) - Signed(noteAt) IN
  IF -Word <= 2 * d /\ 2 * d < Word THEN {d < 0} ELSE BOOLEAN

(* `now < g_note_at`, after a clock that is behind has been believed. *)
Waits(early) == ~early /\ Signed(ticks) < Signed(noteAt)

MusicMuted ==
  /\ pc = "free" /\ Muted
  /\ Silence
  /\ UNCHANGED <<ticks, cardVars, playVars, tune, noteAt, soundOn, audible, history>>

MusicWaits ==
  /\ pc = "free" /\ ~Muted
  /\ \E early \in Early : Waits(early)
  /\ UNCHANGED vars

(* Mutant of Following: the loop leaves out its last note. *)
FollowingShort == IF note + 1 >= Len(Tune) THEN 1 ELSE note + 1

(* The note after this one: the tune begins again after its last. *)
Following == IF note = Len(Tune) THEN 1 ELSE note + 1

(* The note is over: silence, and on to the next one. *)
MusicRests ==
  /\ pc = "free" /\ ~Muted /\ resting
  /\ \E early \in Early : ~Waits(early)
  /\ Silence
  /\ Due(Gap)
  /\ resting' = FALSE
  /\ note' = Following
  /\ track' = IF note = Len(Tune) /\ track = 1 THEN 0 ELSE track
  /\ UNCHANGED <<ticks, cardVars, playVars, soundOn, audible>>

MusicStarts ==
  /\ pc = "free" /\ ~Muted /\ ~resting
  /\ \E early \in Early : ~Waits(early)
  /\ speaker' = "note" /\ sounding' = TRUE
  /\ Due(Tune[note] - Gap)
  /\ resting' = TRUE
  /\ UNCHANGED <<ticks, cardVars, playVars, track, note, soundOn, audible>>

MusicTick == MusicMuted \/ MusicWaits \/ MusicRests \/ MusicStarts

----------------------------------------------------------------------------
(* music_select, from hf_music with anything but 1. *)
Select(t) ==
  /\ pc = "free"
  /\ Silence
  /\ track' = t /\ note' = 1 /\ resting' = FALSE
  /\ Due(0)
  /\ UNCHANGED <<ticks, cardVars, playVars, soundOn, audible>>

(* hf_music(1): the fanfare is a clip. *)
PlayFanfare ==
  /\ Call(Win, FALSE)
  /\ UNCHANGED <<tune, noteAt, sounding, soundOn, audible, history>>

(* hf_beep, and SYS_SND_PLAY from the desktop. *)
Beep(c) ==
  /\ Call(c, TRUE)
  /\ UNCHANGED <<tune, noteAt, sounding, soundOn, audible, history>>
Play(c) ==
  /\ Call(c, FALSE)
  /\ UNCHANGED <<tune, noteAt, sounding, soundOn, audible, history>>

(* The tone ends; hf_beep lets it breathe before the next note. *)
ToneEnds ==
  /\ pc = "tone" /\ SleepOver
  /\ ToneOff
  /\ IF effect THEN sounding' = FALSE /\ Due(Gap)
     ELSE UNCHANGED <<sounding, noteAt, history>>
  /\ Returns
  /\ UNCHANGED <<ticks, cardVars, tune, soundOn, audible>>

(* wasm_set_sound *)
SetSound(on) ==
  /\ pc = "free"
  /\ soundOn' = on
  /\ IF on THEN UNCHANGED <<sounding, speaker>> ELSE Silence
  /\ UNCHANGED <<ticks, cardVars, playVars, tune, noteAt, audible, history>>

(* The guest's window is opened, closed, minimised or restored. *)
Window ==
  /\ pc = "free"
  /\ audible' = ~audible
  /\ UNCHANGED <<ticks, cardVars, playVars, speaker, tune, noteAt, sounding, soundOn, history>>

Passes ==
  /\ Tick
  /\ since' = AtMost(since + 1, MaxSince)
  /\ UNCHANGED <<probed, present, clipTable, busyUntil, playVars, speaker,
                 tune, noteAt, sounding, soundOn, audible, due>>

Prepares ==
  /\ CardNext
  /\ UNCHANGED <<tune, noteAt, sounding, soundOn, audible, history>>

Next ==
  \/ Passes
  \/ MusicTick
  \/ \E t \in {0, 2} : Select(t)
  \/ PlayFanfare
  \/ \E c \in Effects : Beep(c)
  \/ \E c \in Clip : Play(c)
  \/ Prepares
  \/ ToneEnds
  \/ \E on \in BOOLEAN : SetSound(on)
  \/ Window

(* Interrupts come, a call that was begun goes on, and desktopLoop comes   *)
(* round to wasm_music_tick however often a round plays a sound.           *)
Fairness ==
  /\ WF_vars(Passes) /\ WF_vars(Prepares) /\ WF_vars(ToneEnds)
  /\ SF_vars(MusicTick)

Spec == Init /\ [][Next]_vars /\ Fairness

----------------------------------------------------------------------------
TypeOK ==
  /\ CardTypeOK
  /\ track \in 0 .. 2 /\ note \in 1 .. Len(Tune) /\ resting \in BOOLEAN
  /\ noteAt \in Words
  /\ {sounding, soundOn, audible} \subseteq BOOLEAN
  /\ due \in Nat /\ since \in 0 .. MaxSince

(* Outside audio_play's tone the speaker sounds only what g_sounding       *)
(* answers for, so that the next music_silence reaches it, through tones   *)
(* that cut into a note and effects that end one.                          *)
SpeakerAnswered == speaker # "off" => sounding \/ pc = "tone"

(* "each tick is a comparison against the system clock" (host.c): a note   *)
(* that has been started is not ended by the sequencer before its time.    *)
NoteHeld == [][MusicRests => since >= due]_vars

(* A guest whose window stays covered, or whose sound stays switched off, *)
(* falls silent for good (wasm_music_tick, wasm_set_sound).                *)
FallsSilent == <>[](~audible \/ ~soundOn) => <>[](speaker # "note")

(* A theme that is left to play, heard and undisturbed, comes round to     *)
(* each of its notes for good: neither the tune's end nor the counter's    *)
(* wrap, nor what an effect or a covered window left behind, stops the     *)
(* loop (wasm_music_tick) -- though passing the largest int may hold it up *)
(* for as long as the counter takes to come back.                          *)
Heard == audible /\ soundOn /\ track = 2 /\ pc = "free"
Selects == \E t \in {0, 2} : Select(t)

ThemeGoesRound ==
  <>[]Heard /\ <>[][~Selects]_vars =>
    \A n \in 1 .. Len(Theme) : []<>(speaker = "note" /\ note = n)
=============================================================================
