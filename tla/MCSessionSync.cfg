SPECIFICATION SyncSpec
CONSTANTS
    f = f
    g = g
    NoPath = NoPath
    Paths = {f, g}
    Present = {f}
    MaxStrokes = 1
    MaxSyncs = 1
    MaxLinks = 1
INVARIANTS StrokesSurvive
CHECK_DEADLOCK FALSE
