SPECIFICATION Spec
CONSTANTS
    c1 = c1
    c2 = c2
    Client <- TwoClients
    Pixel <- OnePixel
    Fresh <- OnePixel
    Black = 2
    MaxTiles = 2
    FirstScreens <- SmallScreen
    MaxChanges = 0
    MaxResizes = 1
    MaxPushes = 0
CHECK_DEADLOCK FALSE
INVARIANT RecordedSizeWasTold
