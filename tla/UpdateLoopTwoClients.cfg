SPECIFICATION Spec
CONSTANTS
    c1 = c1
    c2 = c2
    Client <- TwoClients
    Pixel <- TwoPixels
    Fresh <- OnePixel
    Black = 2
    MaxTiles = 2
    FirstScreens <- LargeScreen
    MaxChanges = 1
    MaxResizes = 0
    MaxPushes = 0
CHECK_DEADLOCK FALSE
INVARIANT AnswerIsComplete
