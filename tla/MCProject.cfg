SPECIFICATION ProjectSpec
CONSTANTS
    ann = ann
    bob = bob
    main = main
    png = png
    Users = {ann, bob}
    Paths = {main, png}
    Texts = {main}
    MaxEdits = 2
    MaxCommits = 3
    Worlds <- EachInTurn
    Peers = {"a", "b"}
    Hosts = {"a"}
    ClientID <- IDs
    NoOne = "no one"
    MaxClicks = 2
    MaxStarts = 1
    MaxStops = 1
    Assets = {"tex", "snd"}
    Planned = {"tex"}
    Source = "fade"
    MaxChanges = 2
    MaxLaunches = 2
    MaxOthers = 0
    MaxTroubles = 0
SYMMETRY Symmetry
INVARIANTS TypesOK EditsSurvive MergeKeepsBothEdits NoRegionNoMarker
INVARIANTS PanelMatchesProgram ObserverMatchesInitiator OneDriver EndIsSeen LaunchFindsItsAssets
PROPERTIES ImplementsSharedBranch
CHECK_DEADLOCK FALSE
