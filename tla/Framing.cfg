\* A screen whose size modulo 64 leaves a corner tile of 3 by 1 pixels.
SPECIFICATION FramingSpec
CONSTANTS
    NativeFormats = {"rgb32"}
    Widths = {3, 64}
    Heights = {1, 64}
    ScreenHeights = {64}
    DataLens = {128, 16384}
    MaxUpdates = 2
CHECK_DEADLOCK FALSE
INVARIANT MessagesAreAligned
