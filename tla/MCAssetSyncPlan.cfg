SPECIFICATION AssetSpec
CONSTANTS
    tex = tex
    snd = snd
    fade = fade
    Assets = {tex, snd}
    Planned = {tex}
    Source = fade
    MaxChanges = 1
    MaxLaunches = 1
    MaxOthers = 1
    MaxTroubles = 0
INVARIANT MacroEditInvalidates
CHECK_DEADLOCK FALSE
