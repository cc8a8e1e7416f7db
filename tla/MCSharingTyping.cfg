SPECIFICATION Spec
CONSTANTS
    ann = ann
    bob = bob
    main = main
    png = png
    Users = {ann, bob}
    Paths = {main}
    Texts = {main}
    MaxEdits = 2
    MaxCommits = 3
    Worlds <- OnlyRestless
SYMMETRY Symmetry
PROPERTIES TypingKeepsHead
CHECK_DEADLOCK FALSE
