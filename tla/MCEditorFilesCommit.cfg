SPECIFICATION EditorSpec
CONSTANTS
    main = main
    alt = alt
    fade = fade
    Files = {main}
    Existing = {main}
    Manifest = {}
    MaxEdits = 2
    MaxTabs <- TabsOf
    SavesFail = FALSE
INVARIANTS CommitReflectsEditor
CHECK_DEADLOCK FALSE
