SPECIFICATION FairSpec
CONSTANTS
    c1 = c1
    c2 = c2
    Client <- OneClient
    Pixel <- TwoPixels
    Fresh <- OnePixel
    Black = 2
    MaxTiles = 2
    FirstScreens <- BothScreens
    MaxChanges = 1
    MaxResizes = 1
    MaxPushes = 1
CHECK_DEADLOCK FALSE
INVARIANT TypeOK
INVARIANT AnswerIsComplete
INVARIANT LoopNeverStalls
PROPERTY BrowserConverges
PROPERTY SizeConverges
