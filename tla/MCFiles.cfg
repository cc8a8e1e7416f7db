SPECIFICATION FilesSpec
CONSTANTS
    main = main
    alt = alt
    fade = fade
    png = png
    Texts = {main}
    Binaries = {png}
    MaxChanges = 4
    Resync = TRUE
    DiskFails = TRUE
    Files = {main, alt, fade}
    Existing = {main, fade}
    Manifest = {fade}
    MaxEdits = 2
    MaxTabs <- TabsOf
    SavesFail = TRUE
    MaxCommits = 3
    MaxSaves = 2
    MaxLoads = 1
    MaxRefreshes = 1
    Worlds <- PanelWorlds
INVARIANTS TypesOK SettledIsMirrored UnsavedIsScheduled FlushCoversDirtyTabs BadgeIsRight ChipIsRight
PROPERTIES EventuallyMirrored DeletedStaysDeleted EventuallySaved PullIsOffered
CHECK_DEADLOCK FALSE
