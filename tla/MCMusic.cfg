SPECIFICATION Spec
CONSTANTS
  Word = 8
  Clips = 4
  ClipMs <- MCClipMs
  Voices <- MCVoices
  FallbackMs <- MCFallbackMs
  Rate = 3
  Second = 2
  DmaBytes = 7
  MaxTransfer = 10
  Slack = 2
  Fanfare <- MCFanfare
  Theme <- MCTheme
  Gap = 1
  Effects = {1, 2}
  Win = 3
  MaxSince = 3
INVARIANTS
  ClipsWhole
  SoundingIsBusy
  SpeakerAnswered
PROPERTIES
  FallsSilent
  ThemeGoesRound
