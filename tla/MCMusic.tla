------------------------------- MODULE MCMusic ------------------------------
(***************************************************************************)
(* A counter of three bits, so that it passes its largest int and zero     *)
(* often; notes and tones of a few milliseconds; four clips of one and two *)
(* milliseconds at three samples per two, the last one cut short by the    *)
(* end of the buffer.                                                      *)
(***************************************************************************)
EXTENDS Music

MCClipMs == [c \in 0 .. 3 |-> IF c \in {0, 3} THEN 2 ELSE 1]
MCFallbackMs == [c \in 0 .. 3 |-> IF c = 0 THEN 2 ELSE 1]
Voice(delay, ms) == [delay |-> delay, ms |-> ms]
MCVoices == [c \in 0 .. 3 |->
               IF c = 0 THEN {Voice(0, 1), Voice(1, 1)}
               ELSE IF c = 3 THEN {Voice(0, 2)} ELSE {Voice(0, 1)}]
MCFanfare == <<2>>
MCTheme == <<2, 3>>

----------------------------------------------------------------------------
(* The durations and voices build_clips has: every clip gets the samples   *)
(* it asks for, none is empty, and no voice outlasts its clip.             *)
RealClipMs == <<1000, 35, 150, 45, 95, 125, 520>>
RealVoices ==
  << {Voice(0, 950), Voice(140, 810), Voice(280, 670), Voice(420, 530)},
     {Voice(0, 30), Voice(0, 22)}, {Voice(0, 140)}, {Voice(0, 40)}, {Voice(0, 90)},
     {Voice(0, 120), Voice(0, 60)},
     {Voice(0, 300), Voice(110, 300), Voice(220, 300), Voice(330, 190)} >>
RealSamples(ms) == (22050 * ms) \div 1000
RealAt[i \in 0 .. 7] == IF i = 0 THEN 0 ELSE RealAt[i - 1] + RealSamples(RealClipMs[i])

ASSUME RealClipsFit == RealAt[7] <= 64 * 1024 /\ \A i \in 1 .. 7 : RealSamples(RealClipMs[i]) > 0
ASSUME RealVoicesFit ==
  \A i \in 1 .. 7 : \A v \in RealVoices[i] :
    RealSamples(v.delay) + RealSamples(v.ms) <= RealSamples(RealClipMs[i])
=============================================================================
