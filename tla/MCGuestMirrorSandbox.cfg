SPECIFICATION Spec
CONSTANTS
    main = main
    lib = lib
    png = png
    Texts = {main, lib}
    Binaries = {}
    MaxChanges = 2
    Resync = FALSE
    DiskFails = FALSE
INVARIANTS SandboxHolds
CHECK_DEADLOCK FALSE
