----------------------------- MODULE MusicProofs ----------------------------
(***************************************************************************)
(* The sounds for any clips, voices, tunes and clock: the table of clips   *)
(* that build_clips lays out in the DMA buffer, who answers for a speaker  *)
(* that sounds, and that a card which sounds is taken for busy.            *)
(***************************************************************************)
EXTENDS Music, TLAPS

(* The clips lie one after the other, in the order they were built, before *)
(* the first byte that is free.                                            *)
Laid ==
  /\ built \in Nat /\ built <= Clips
  /\ at \in 0 .. DmaBytes
  /\ DOMAIN offset = Clip /\ DOMAIN length = Clip
  /\ \A c \in Done : offset[c] \in Nat /\ length[c] \in Nat /\ offset[c] + length[c] <= at
  /\ \A c \in Done, d \in Done : c < d => offset[c] + length[c] <= offset[d]

(* build_clips runs on a card that was found, up to the last clip. *)
Building == pc = "build" => probed /\ built < Clips

(* What the first call still has to build: nothing is built before the     *)
(* card is probed, and it is probed once.                                  *)
Unbuilt == ~probed => built = 0

IInv == Laid /\ Building /\ Unbuilt /\ dma \in [Bytes -> SUBSET Clip] /\ ClipsPure

LEMMA QuotientNat == ASSUME NEW a \in Nat, NEW d \in Nat \ {0} PROVE a \div d \in Nat
  OBVIOUS

LEMMA SamplesNat == ASSUME NEW ms \in Nat PROVE Samples(ms) \in Nat
<1>1. Rate * ms \in Nat /\ Second \in Nat \ {0}
  BY ClipsAssumption
<1> QED
  BY <1>1, QuotientNat DEF Samples

LEMMA ReservedFits ==
  ASSUME NEW ms \in Nat, at \in 0 .. DmaBytes
  PROVE  Reserved(ms) \in Nat /\ at + Reserved(ms) <= DmaBytes
  BY SamplesNat, ClipsAssumption DEF Reserved, AtMost

(* A voice sounds in no byte before the one its clip begins at. *)
LEMMA MixedAfter ==
  ASSUME NEW c \in Clip, NEW base \in Nat, NEW b \in Mixed(c, base)
  PROVE  b \in Nat /\ b >= base
<1>1. PICK v \in Voices[c] : b \in (base + Samples(v.delay)) .. (base + Samples(v.delay)) + Samples(v.ms) - 1
  BY DEF Mixed
<1>2. v.delay \in Nat /\ v.ms \in Nat
  BY ClipsAssumption
<1>3. Samples(v.delay) \in Nat /\ Samples(v.ms) \in Nat
  BY <1>2, SamplesNat
<1>4. b \in Nat
  BY ClipsAssumption DEF Mixed, Bytes
<1> QED
  BY <1>1, <1>3, <1>4

LEMMA InitIInv == Init => IInv
<1> SUFFICES ASSUME Init PROVE IInv
  OBVIOUS
<1>1. Done = {}
  BY DEF Init, CardInit, Done
<1>2. Laid
  BY <1>1, ClipsAssumption DEF Init, CardInit, Laid
<1>3. ClipsPure
  BY <1>1 DEF ClipsPure
<1>4. dma \in [Bytes -> SUBSET Clip]
  BY DEF Init, CardInit
<1>5. Building /\ Unbuilt
  BY DEF Init, CardInit, Building, Unbuilt
<1> QED
  BY <1>2, <1>3, <1>4, <1>5 DEF IInv

(* One clip more: it begins where the last one ended, its bytes are        *)
(* silenced before its voices are mixed, and these reach no byte before.   *)
LEMMA BuildIInv == ASSUME IInv, Build PROVE IInv'
<1> DEFINE n == Reserved(ClipMs[built])
           own == at .. at + n - 1
<1>1. built \in Clip /\ built' = built + 1 /\ ClipMs[built] \in Nat
  BY ClipsAssumption DEF IInv, Laid, Building, Build, Clip
<1>2. n \in Nat /\ at + n <= DmaBytes /\ at \in Nat
  BY <1>1, ReservedFits, ClipsAssumption DEF IInv, Laid
<1>3. /\ at' = at + n
      /\ offset' = [offset EXCEPT ![built] = at]
      /\ length' = [length EXCEPT ![built] = n]
      /\ dma' = [b \in Bytes |-> (IF b \in own THEN {} ELSE dma[b])
                                   \cup (IF b \in Mixed(built, at) THEN {built} ELSE {})]
  BY DEF Build
<1>4. Done' = Done \cup {built} /\ Done \subseteq Clip
      /\ \A c \in Done : c \in Nat /\ c < built
  <2>1. built \in Nat /\ built < Clips /\ Clips \in Nat /\ built' = built + 1
    BY <1>1, ClipsAssumption DEF Clip
  <2> QED
    BY <2>1 DEF Done, Clip
<1>5. /\ \A c \in Done : offset'[c] = offset[c] /\ length'[c] = length[c]
      /\ offset'[built] = at /\ length'[built] = n
  BY <1>1, <1>3, <1>4 DEF IInv, Laid
<1>6. Laid'
  <2>1. built' \in Nat /\ built' <= Clips /\ at' \in 0 .. DmaBytes
    BY <1>1, <1>2, <1>3, ClipsAssumption DEF Clip
  <2>2. DOMAIN offset' = Clip /\ DOMAIN length' = Clip
    BY <1>3 DEF IInv, Laid
  <2>3. \A c \in Done' : offset'[c] \in Nat /\ length'[c] \in Nat /\ offset'[c] + length'[c] <= at'
    BY <1>2, <1>3, <1>4, <1>5 DEF IInv, Laid
  <2>4. \A c \in Done', d \in Done' : c < d => offset'[c] + length'[c] <= offset'[d]
    BY <1>1, <1>2, <1>4, <1>5 DEF IInv, Laid, Clip
  <2> QED
    BY <2>1, <2>2, <2>3, <2>4 DEF Laid
<1>7. dma' \in [Bytes -> SUBSET Clip]
  BY <1>1, <1>3 DEF IInv
<1>8. ClipsPure'
  <2> SUFFICES ASSUME NEW c \in Done', NEW b \in Span(c)' \cap Bytes PROVE dma'[b] \subseteq {c}
    BY DEF ClipsPure, Bytes
  <2>1. CASE c = built
    <3>1. b \in own
      BY <2>1, <1>5 DEF Span
    <3> QED
      BY <3>1, <1>3, <2>1
  <2>2. CASE c \in Done
    <3>1. b \in Span(c) /\ b \in Nat /\ b < at
      BY <2>2, <1>2, <1>5 DEF Span, IInv, Laid
    <3>2. b \notin own /\ b \notin Mixed(built, at)
      BY <3>1, <1>1, <1>2, MixedAfter
    <3> QED
      BY <3>1, <3>2, <2>2, <1>3 DEF IInv, ClipsPure
  <2> QED
    BY <2>1, <2>2, <1>4
<1>9. Building' /\ Unbuilt'
  <2>1. pc = "build" /\ probed' = probed /\ (pc' = "build" => built' # Clips)
    BY DEF Build
  <2>2. probed
    BY <2>1 DEF IInv, Building
  <2>3. built' <= Clips /\ built' \in Nat /\ Clips \in Nat
    BY <1>6, ClipsAssumption DEF Laid
  <2>4. built' # Clips => built' < Clips
    BY <2>3
  <2> QED
    BY <2>1, <2>2, <2>4 DEF Building, Unbuilt
<1> QED
  BY <1>6, <1>7, <1>8, <1>9 DEF IInv

(* What leaves the table alone, and does not begin to build. *)
LEMMA KeepsIInv ==
  ASSUME IInv, UNCHANGED <<clipTable, probed>>, pc' = "build" => pc = "build"
  PROVE  IInv'
<1>1. Laid' /\ ClipsPure' /\ dma' \in [Bytes -> SUBSET Clip]
  BY DEF IInv, Laid, ClipsPure, Done, Span, clipTable, Bytes, Clip
<1>2. Building' /\ Unbuilt'
  BY DEF IInv, Building, Unbuilt, clipTable
<1> QED
  BY <1>1, <1>2 DEF IInv

LEMMA CardIInv == ASSUME IInv, CardNext PROVE IInv'
<1>1. CASE Probe
  <2>1. built = 0 /\ UNCHANGED clipTable /\ probed' = TRUE
    BY <1>1 DEF Probe, IInv, Unbuilt
  <2>2. built' < Clips
    BY <2>1, ClipsAssumption DEF clipTable
  <2>3. Laid' /\ ClipsPure' /\ dma' \in [Bytes -> SUBSET Clip]
    BY <2>1 DEF IInv, Laid, ClipsPure, Done, Span, clipTable, Bytes, Clip
  <2> QED
    BY <2>1, <2>2, <2>3 DEF IInv, Building, Unbuilt
<1>2. CASE Build
  BY <1>2, BuildIInv
<1>3. CASE OnCard
  BY <1>3, KeepsIInv DEF OnCard, Returns
<1>4. CASE OnSpeaker
  BY <1>4, KeepsIInv DEF OnSpeaker, cardVars
<1> QED
  BY <1>1, <1>2, <1>3, <1>4 DEF CardNext

LEMMA NextIInv == IInv /\ [Next]_vars => IInv'
<1> SUFFICES ASSUME IInv, [Next]_vars PROVE IInv'
  OBVIOUS
<1>1. CASE Passes
  BY <1>1, KeepsIInv DEF Passes, playVars
<1>2. CASE MusicTick
  <2>1. UNCHANGED <<cardVars, playVars>>
    BY <1>2 DEF MusicTick, MusicMuted, MusicWaits, MusicRests, MusicStarts, vars
  <2> QED
    BY <2>1, KeepsIInv DEF cardVars, playVars
<1>3. ASSUME NEW t \in {0, 2}, Select(t) PROVE IInv'
  BY <1>3, KeepsIInv DEF Select, cardVars, playVars
<1>4. CASE PlayFanfare
  BY <1>4, KeepsIInv DEF PlayFanfare, Call, cardVars
<1>5. ASSUME NEW c \in Effects, Beep(c) PROVE IInv'
  BY <1>5, KeepsIInv DEF Beep, Call, cardVars
<1>6. ASSUME NEW c \in Clip, Play(c) PROVE IInv'
  BY <1>6, KeepsIInv DEF Play, Call, cardVars
<1>7. CASE Prepares
  BY <1>7, CardIInv DEF Prepares
<1>8. CASE ToneEnds
  BY <1>8, KeepsIInv DEF ToneEnds, Returns, cardVars
<1>9. ASSUME NEW on \in BOOLEAN, SetSound(on) PROVE IInv'
  BY <1>9, KeepsIInv DEF SetSound, cardVars, playVars
<1>10. CASE Window
  BY <1>10, KeepsIInv DEF Window, cardVars, playVars
<1>11. CASE UNCHANGED vars
  BY <1>11, KeepsIInv DEF vars, cardVars, playVars
<1> QED
  BY <1>1, <1>2, <1>3, <1>4, <1>5, <1>6, <1>7, <1>8, <1>9, <1>10, <1>11 DEF Next

LEMMA IInvClipsWhole == IInv => ClipsWhole
<1> SUFFICES ASSUME IInv PROVE ClipsWhole
  OBVIOUS
<1>1. \A c \in Done : c \in Nat
  BY DEF Done
<1>2. ASSUME NEW c \in Done PROVE Span(c) \subseteq Bytes
  BY <1>2, ClipsAssumption DEF IInv, Laid, Span, Bytes
<1>3. ASSUME NEW c \in Done, NEW d \in Done, c # d PROVE Span(c) \cap Span(d) = {}
  <2>1. c < d \/ d < c
    BY <1>1, <1>3
  <2>2. offset[c] + length[c] <= offset[d] \/ offset[d] + length[d] <= offset[c]
    BY <2>1 DEF IInv, Laid
  <2>3. offset[c] \in Nat /\ length[c] \in Nat /\ offset[d] \in Nat /\ length[d] \in Nat
    BY DEF IInv, Laid
  <2> QED
    BY <2>2, <2>3 DEF Span
<1>4. ClipsApart
  BY <1>2, <1>3 DEF ClipsApart
<1> QED
  BY <1>4 DEF IInv, ClipsWhole

(* The parts reserved for the clips never overlap in the DMA buffer, never *)
(* leave it, and sound nothing of one another, for any durations, any      *)
(* voices and a buffer of any size: build_clips, reserve and mix_tone are  *)
(* called in the right order for every table of sounds, not only for the   *)
(* one they have.                                                          *)
THEOREM ClipsAlwaysWhole == Spec => []ClipsWhole
<1>1. Init => IInv
  BY InitIInv
<1>2. IInv /\ [Next]_vars => IInv'
  BY NextIInv
<1>3. IInv => ClipsWhole
  BY IInvClipsWhole
<1> QED
  BY <1>1, <1>2, <1>3, PTL DEF Spec

----------------------------------------------------------------------------
(* A tone is on its way to its end before anything else may happen.        *)
LEMMA NextAnswered == SpeakerAnswered /\ [Next]_vars => SpeakerAnswered'
<1> SUFFICES ASSUME SpeakerAnswered, [Next]_vars PROVE SpeakerAnswered'
  OBVIOUS
<1> USE DEF SpeakerAnswered
<1>1. CASE Passes
  BY <1>1 DEF Passes, playVars
<1>2. CASE MusicTick
  <2>1. CASE MusicMuted
    BY <2>1 DEF MusicMuted, Silence
  <2>2. CASE MusicWaits
    BY <2>2 DEF MusicWaits, vars, playVars
  <2>3. CASE MusicRests
    BY <2>3 DEF MusicRests, Silence
  <2>4. CASE MusicStarts
    BY <2>4 DEF MusicStarts
  <2> QED
    BY <1>2, <2>1, <2>2, <2>3, <2>4 DEF MusicTick
<1>3. ASSUME NEW t \in {0, 2}, Select(t) PROVE SpeakerAnswered'
  BY <1>3 DEF Select, Silence
<1>4. CASE PlayFanfare
  BY <1>4 DEF PlayFanfare, Call
<1>5. ASSUME NEW c \in Effects, Beep(c) PROVE SpeakerAnswered'
  BY <1>5 DEF Beep, Call
<1>6. ASSUME NEW c \in Clip, Play(c) PROVE SpeakerAnswered'
  BY <1>6 DEF Play, Call
<1>7. CASE Prepares
  <2>1. CASE Probe \/ Build \/ OnCard
    BY <1>7, <2>1 DEF Prepares, Probe, Build, OnCard
  <2>2. CASE OnSpeaker
    BY <2>2 DEF OnSpeaker
  <2> QED
    BY <1>7, <2>1, <2>2 DEF Prepares, CardNext
<1>8. CASE ToneEnds
  BY <1>8 DEF ToneEnds, ToneOff
<1>9. ASSUME NEW on \in BOOLEAN, SetSound(on) PROVE SpeakerAnswered'
  BY <1>9 DEF SetSound, Silence
<1>10. CASE Window
  BY <1>10 DEF Window, playVars
<1>11. CASE UNCHANGED vars
  BY <1>11 DEF vars, playVars
<1> QED
  BY <1>1, <1>2, <1>3, <1>4, <1>5, <1>6, <1>7, <1>8, <1>9, <1>10, <1>11 DEF Next

(* Whatever track, effect, setting or window the user and the guest choose *)
(* and whenever the clock interrupts, nothing sounds on the PC speaker     *)
(* that music_silence would not silence or audio_play itself.              *)
THEOREM SpeakerAlwaysAnswered == Spec => []SpeakerAnswered
<1>1. Init => SpeakerAnswered
  BY DEF Init, CardInit, SpeakerAnswered
<1>2. SpeakerAnswered /\ [Next]_vars => SpeakerAnswered'
  BY NextAnswered
<1> QED
  BY <1>1, <1>2, PTL DEF Spec

----------------------------------------------------------------------------
(* The card and the clock. *)

LEMMA QuotientBounds ==
  ASSUME NEW a \in Nat, NEW d \in Nat \ {0}
  PROVE  d * (a \div d) <= a /\ a < d * (a \div d) + d
  OBVIOUS

LEMMA Cancel ==
  ASSUME NEW p \in Int, NEW q \in Int, NEW d \in Nat \ {0}, d * p < d * q + d
  PROVE  p <= q
<1>1. p > q => p >= q + 1
  OBVIOUS
<1>2. p >= q + 1 => d * p >= d * (q + 1)
  OBVIOUS
<1>3. d * (q + 1) = d * q + d /\ d * p \in Int /\ d * q \in Int
  OBVIOUS
<1> QED
  BY <1>1, <1>2, <1>3

LEMMA QuotientMono ==
  ASSUME NEW a \in Nat, NEW b \in Nat, NEW d \in Nat \ {0}, a <= b
  PROVE  a \div d <= b \div d
<1>1. a \div d \in Int /\ b \div d \in Int
  OBVIOUS
<1>2. d * (a \div d) <= a /\ b < d * (b \div d) + d
  BY QuotientBounds
<1>3. d * (a \div d) \in Int /\ d * (b \div d) \in Int
  BY <1>1
<1>4. d * (a \div d) < d * (b \div d) + d
  BY <1>2, <1>3
<1> QED
  BY Cancel, <1>1, <1>4

(* Rounding up is at most one more than rounding down. *)
LEMMA QuotientUp ==
  ASSUME NEW a \in Nat, NEW d \in Nat \ {0}
  PROVE  (a + d - 1) \div d <= a \div d + 1
<1> DEFINE q == a \div d
           p == (a + d - 1) \div d
<1>1. a + d - 1 \in Nat
  OBVIOUS
<1>2. p \in Int /\ q + 1 \in Int /\ q \in Int
  BY <1>1
<1>3. d * p <= a + d - 1 /\ a < d * q + d
  BY <1>1, QuotientBounds
<1>4. d * p \in Int /\ d * q \in Int /\ d * (q + 1) = d * q + d
  BY <1>2
<1>5. d * p < d * (q + 1) + d
  BY <1>3, <1>4
<1>6. p <= q + 1
  <2> HIDE DEF p, q
  <2> QED
    BY Cancel, <1>2, <1>5
<1> QED
  BY <1>6

LEMMA LastsFacts ==
  ASSUME NEW n \in Nat, NEW m \in Nat, n <= m
  PROVE  /\ Lasts(n) \in Nat /\ Lasts(m) \in Nat /\ LastsUp(n) \in Nat
         /\ Lasts(n) <= Lasts(m)
         /\ LastsUp(n) <= Lasts(n) + 1
<1>1. Rate \in Nat \ {0} /\ Second \in Nat \ {0}
  BY ClipsAssumption
<1>2. n * Second \in Nat /\ m * Second \in Nat /\ n * Second <= m * Second
  BY <1>1
<1>3. n * Second + Rate - 1 \in Nat
  BY <1>1, <1>2
<1> QED
  BY <1>1, <1>2, <1>3, QuotientNat, QuotientMono, QuotientUp DEF Lasts, LastsUp

LEMMA PlusFacts ==
  ASSUME NEW n \in Words, NEW ms \in Nat
  PROVE  /\ Plus(n, ms) \in Words
         /\ ms < Word =>
              Plus(n, ms) = IF n + ms < Word THEN n + ms ELSE n + ms - Word
  BY ClockAssumption DEF Words, Plus

(* How long busyUntil is away, round the end of the counter if need be.    *)
Remaining == IF ticks <= busyUntil THEN busyUntil - ticks ELSE busyUntil - ticks + Word

(* Nothing is played before the table is built. *)
Quiet == ~probed \/ pc = "build" => left = 0

(* The card stops before that, and it is never half of the counter away.   *)
ClockInv ==
  /\ ticks \in Words /\ busyUntil \in Words /\ left \in Nat
  /\ DOMAIN length = Clip
  /\ \A c \in Clip : length[c] \in Nat /\ length[c] <= Samples(ClipMs[c])
  /\ clip \in Clip
  /\ Filled => left <= Remaining /\ (left > 0 => 2 * Remaining <= Word)

LEMMA InitClock == Init => ClockInv
<1> SUFFICES ASSUME Init PROVE ClockInv
  OBVIOUS
<1>1. 0 \in Words /\ 0 \in Clip
  BY ClockAssumption, ClipsAssumption DEF Words, Clip
<1>2. \A c \in Clip : length[c] = 0 /\ 0 <= Samples(ClipMs[c])
  BY SamplesNat, ClipsAssumption DEF Init, CardInit
<1> QED
  BY <1>1, <1>2 DEF Init, CardInit, ClockInv, Remaining, Filled

(* Nothing of the card or the clock changes but the thread's clip.         *)
LEMMA KeepsClock ==
  ASSUME ClockInv, UNCHANGED <<ticks, busyUntil, left, length>>, clip' \in Clip
  PROVE  ClockInv'
  BY DEF ClockInv, Remaining, Words, Clip, Filled

LEMMA PassesClock == ASSUME ClockInv, Passes PROVE ClockInv'
<1>1. ticks' = Plus(ticks, 1) /\ left' = AtLeast(left - 1, 0)
      /\ UNCHANGED <<busyUntil, length, clip>>
  BY DEF Passes, Tick, clipTable, playVars
<1>2. ticks' \in Words /\ ticks' = IF ticks + 1 < Word THEN ticks + 1 ELSE 0
  <2>1. ticks \in Words /\ 1 < Word /\ 1 \in Nat
    BY ClockAssumption DEF ClockInv
  <2>2. ticks' \in Words
        /\ ticks' = IF ticks + 1 < Word THEN ticks + 1 ELSE ticks + 1 - Word
    BY <1>1, <2>1, PlusFacts
  <2> QED
    BY <2>1, <2>2, ClockAssumption DEF Words
<1>3. left' \in Nat /\ left' = IF left > 0 THEN left - 1 ELSE 0
  BY <1>1 DEF ClockInv, AtLeast
<1>4. Remaining > 0 => Remaining' = Remaining - 1
  BY <1>1, <1>2, ClockAssumption DEF ClockInv, Remaining, Words
<1>5. Remaining \in Nat /\ Remaining' \in Nat
  BY <1>1, <1>2, ClockAssumption DEF ClockInv, Remaining, Words
<1>6. Filled' => left' <= Remaining' /\ (left' > 0 => 2 * Remaining' <= Word)
  <2> SUFFICES ASSUME Filled PROVE left' <= Remaining' /\ (left' > 0 => 2 * Remaining' <= Word)
    BY <1>1 DEF Filled, Clip
  <2>1. left \in Nat /\ left <= Remaining /\ (left > 0 => 2 * Remaining <= Word)
    BY DEF ClockInv
  <2>2. CASE left > 0
    <3>1. left' = left - 1 /\ Remaining' = Remaining - 1 /\ 2 * Remaining <= Word
      BY <1>3, <1>4, <1>5, <2>1, <2>2
    <3> QED
      BY <3>1, <2>1, <1>5, ClockAssumption
  <2>3. CASE ~(left > 0)
    <3>1. left' = 0
      BY <1>3, <2>3
    <3> QED
      BY <3>1, <1>5
  <2> QED
    BY <2>2, <2>3
<1> QED
  BY <1>1, <1>2, <1>3, <1>6 DEF ClockInv, Clip

(* Build gives a clip the samples its duration takes, or fewer. *)
LEMMA BuildClock == ASSUME IInv, ClockInv, Quiet, Build PROVE ClockInv'
<1>1. built \in Clip /\ ClipMs[built] \in Nat
  BY ClipsAssumption DEF IInv, Laid, Building, Build, Clip
<1>2. /\ length' = [length EXCEPT ![built] = Reserved(ClipMs[built])]
      /\ UNCHANGED <<ticks, busyUntil, left, clip>>
  BY DEF Build
<1>3. Reserved(ClipMs[built]) \in Nat /\ Reserved(ClipMs[built]) <= Samples(ClipMs[built])
  <2>1. Samples(ClipMs[built]) \in Nat /\ at \in Nat /\ DmaBytes \in Nat
    BY <1>1, SamplesNat, ClipsAssumption DEF IInv, Laid
  <2>2. Reserved(ClipMs[built]) \in Nat
    BY <1>1, ReservedFits DEF IInv, Laid
  <2> QED
    BY <2>1, <2>2 DEF Reserved, AtMost
<1>4. /\ DOMAIN length' = Clip
      /\ \A c \in Clip : length'[c] \in Nat /\ length'[c] <= Samples(ClipMs[c])
  BY <1>1, <1>2, <1>3 DEF ClockInv
<1>5. left' = 0 /\ Remaining' \in Nat
  BY <1>2, ClockAssumption DEF Build, Quiet, ClockInv, Remaining, Words
<1> QED
  BY <1>2, <1>4, <1>5 DEF ClockInv, Words, Clip

LEMMA OnCardClock == ASSUME ClockInv, OnCard PROVE ClockInv'
<1>1. UNCHANGED <<ticks, length>> /\ clip' = 0 /\ 0 \in Clip
  BY ClipsAssumption DEF OnCard, Returns, clipTable, Clip
<1>2. CASE Busy
  BY <1>1, <1>2, KeepsClock DEF OnCard
<1>3. CASE ~Busy
  <2> DEFINE n == length[clip]
             d == Lasts(n) + Slack
  <2>1. busyUntil' = Plus(ticks, d) /\ left' = LastsUp(Transferred(n)) + 1
    BY <1>3 DEF OnCard, FreeAgain
  <2>2. n \in Nat /\ Samples(ClipMs[clip]) \in Nat /\ n <= Samples(ClipMs[clip])
    BY SamplesNat, ClipsAssumption DEF ClockInv
  <2>3. /\ Lasts(n) \in Nat /\ LastsUp(n) \in Nat /\ LastsUp(n) <= Lasts(n) + 1
        /\ Lasts(Samples(ClipMs[clip])) \in Nat /\ Lasts(n) <= Lasts(Samples(ClipMs[clip]))
    BY <2>2, LastsFacts
  <2>4. Slack \in Nat /\ Slack >= 2
        /\ 2 * (Lasts(Samples(ClipMs[clip])) + Slack) <= Word
    BY ShortAssumption, ClipsAssumption DEF ClockInv
  <2>5. d \in Nat /\ 2 * d <= Word /\ d < Word
    BY <2>3, <2>4, ClockAssumption
  <2>6. left' \in Nat
    <3>1. Transferred(n) \in Nat
      BY <2>2, ClipsAssumption DEF Transferred
    <3>2. LastsUp(Transferred(n)) \in Nat
      <4> DEFINE t == Transferred(n)
      <4> HIDE DEF t
      <4> QED
        BY <3>1, LastsFacts DEF t
    <3> QED
      BY <2>1, <3>2
  <2>7. Filled => left' <= d
    <3>1. Filled => Transferred(n) = n
      BY <2>2 DEF Filled, Transferred, ClockInv
    <3>2. Filled => left' = LastsUp(n) + 1
      BY <2>1, <3>1
    <3> QED
      BY <2>3, <2>4, <3>2
  <2>8. busyUntil' \in Words
        /\ busyUntil' = IF ticks + d < Word THEN ticks + d ELSE ticks + d - Word
    <3> HIDE DEF d
    <3> QED
      BY <2>1, <2>5, PlusFacts DEF ClockInv
  <2>9. Remaining' = d
    <3> HIDE DEF d
    <3> QED
      BY <1>1, <2>5, <2>8, ClockAssumption DEF ClockInv, Remaining, Words
  <2>10. Filled' => Filled
    BY <1>1 DEF Filled, Clip
  <2>11. Filled' => left' <= Remaining' /\ (left' > 0 => 2 * Remaining' <= Word)
    BY <2>5, <2>7, <2>9, <2>10
  <2> QED
    BY <1>1, <2>6, <2>8, <2>11 DEF ClockInv, Words, Clip
<1> QED
  BY <1>2, <1>3

(* A card sounds only after a clip was played on it, which no call does    *)
(* before it was probed and the table was built.                           *)
LEMMA NextQuiet == Quiet /\ [Next]_vars => Quiet'
<1> SUFFICES ASSUME Quiet, [Next]_vars PROVE Quiet'
  OBVIOUS
<1> USE DEF Quiet, cardVars, playVars
<1>1. CASE Passes
  <2>1. UNCHANGED <<probed, pc>> /\ left' = AtLeast(left - 1, 0)
    BY <1>1 DEF Passes, Tick
  <2> QED
    BY <2>1 DEF AtLeast
<1>2. CASE MusicTick
  BY <1>2 DEF MusicTick, MusicMuted, MusicWaits, MusicRests, MusicStarts, vars
<1>3. ASSUME NEW t \in {0, 2}, Select(t) PROVE Quiet'
  BY <1>3 DEF Select
<1>4. CASE PlayFanfare
  BY <1>4 DEF PlayFanfare, Call
<1>5. ASSUME NEW c \in Effects, Beep(c) PROVE Quiet'
  BY <1>5 DEF Beep, Call
<1>6. ASSUME NEW c \in Clip, Play(c) PROVE Quiet'
  BY <1>6 DEF Play, Call
<1>7. CASE Prepares
  <2>1. CASE Probe
    BY <2>1 DEF Probe
  <2>2. CASE Build
    BY <2>2 DEF Build
  <2>3. CASE OnCard
    BY <2>3 DEF OnCard, Returns
  <2>4. CASE OnSpeaker
    BY <2>4 DEF OnSpeaker
  <2> QED
    BY <1>7, <2>1, <2>2, <2>3, <2>4 DEF Prepares, CardNext
<1>8. CASE ToneEnds
  BY <1>8 DEF ToneEnds, Returns
<1>9. ASSUME NEW on \in BOOLEAN, SetSound(on) PROVE Quiet'
  BY <1>9 DEF SetSound
<1>10. CASE Window
  BY <1>10 DEF Window
<1>11. CASE UNCHANGED vars
  BY <1>11 DEF vars
<1> QED
  BY <1>1, <1>2, <1>3, <1>4, <1>5, <1>6, <1>7, <1>8, <1>9, <1>10, <1>11 DEF Next

LEMMA NextClock == IInv /\ ClockInv /\ Quiet /\ [Next]_vars => ClockInv'
<1> SUFFICES ASSUME IInv, ClockInv, Quiet, [Next]_vars PROVE ClockInv'
  OBVIOUS
<1> USE DEF cardVars, playVars, clipTable
<1>1. clip \in Clip /\ 0 \in Clip
  BY ClipsAssumption DEF ClockInv, Clip
<1>2. CASE Passes
  BY <1>2, PassesClock
<1>3. CASE MusicTick
  <2>1. UNCHANGED <<ticks, cardVars, playVars>>
    BY <1>3 DEF MusicTick, MusicMuted, MusicWaits, MusicRests, MusicStarts, vars
  <2> QED
    BY <1>1, <2>1, KeepsClock
<1>4. ASSUME NEW t \in {0, 2}, Select(t) PROVE ClockInv'
  BY <1>1, <1>4, KeepsClock DEF Select
<1>5. CASE PlayFanfare
  BY <1>5, KeepsClock, TunesAssumption DEF PlayFanfare, Call
<1>6. ASSUME NEW c \in Effects, Beep(c) PROVE ClockInv'
  BY <1>6, KeepsClock, TunesAssumption DEF Beep, Call
<1>7. ASSUME NEW c \in Clip, Play(c) PROVE ClockInv'
  BY <1>7, KeepsClock DEF Play, Call
<1>8. CASE Prepares
  <2>1. CASE Probe
    BY <1>1, <2>1, KeepsClock DEF Probe
  <2>2. CASE Build
    BY <2>2, BuildClock
  <2>3. CASE OnCard
    BY <2>3, OnCardClock
  <2>4. CASE OnSpeaker
    BY <1>1, <2>4, KeepsClock DEF OnSpeaker
  <2> QED
    BY <1>8, <2>1, <2>2, <2>3, <2>4 DEF Prepares, CardNext
<1>9. CASE ToneEnds
  BY <1>1, <1>9, KeepsClock DEF ToneEnds, Returns
<1>10. ASSUME NEW on \in BOOLEAN, SetSound(on) PROVE ClockInv'
  BY <1>1, <1>10, KeepsClock DEF SetSound
<1>11. CASE Window
  BY <1>1, <1>11, KeepsClock DEF Window
<1>12. CASE UNCHANGED vars
  BY <1>1, <1>12, KeepsClock DEF vars
<1> QED
  BY <1>2, <1>3, <1>4, <1>5, <1>6, <1>7, <1>8, <1>9, <1>10, <1>11, <1>12 DEF Next

LEMMA ClockBusy == ClockInv => SoundingIsBusy
<1> SUFFICES ASSUME ClockInv, left > 0, Filled, 2 * ticks < Word <=> 2 * busyUntil < Word PROVE Busy
  BY DEF SoundingIsBusy
<1>1. /\ ticks \in Nat /\ busyUntil \in Nat /\ Word \in Nat
      /\ ticks < Word /\ busyUntil < Word /\ left \in Nat
  BY ClockAssumption DEF ClockInv, Words
<1>2. ticks < busyUntil
  BY <1>1 DEF ClockInv, Remaining
<1> QED
  BY <1>1, <1>2 DEF Busy, Signed

(* For any clips and any clock: while the card sounds, audio_play finds it *)
(* busy and drops the next sound, unless the counter and the end it is     *)
(* compared with lie on two sides of the largest int, or a clip is empty.  *)
THEOREM SoundingAlwaysBusy == Spec => []SoundingIsBusy
<1>1. Init => IInv /\ ClockInv /\ Quiet
  BY InitIInv, InitClock DEF Init, CardInit, Quiet
<1>2. IInv /\ ClockInv /\ Quiet /\ [Next]_vars => IInv' /\ ClockInv' /\ Quiet'
  BY NextIInv, NextClock, NextQuiet
<1>3. ClockInv => SoundingIsBusy
  BY ClockBusy
<1> QED
  BY <1>1, <1>2, <1>3, PTL DEF Spec
=============================================================================
