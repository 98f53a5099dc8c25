\* Three attempts of two addresses, with tiers of lockouts one failure apart; one browser
\* with two uploads, two connections and one mishap; three reconnection attempts with
\* two losses and two failures; three events of the user on every platform and kind of
\* injector; two frames of two sizes; one connection to the RFB server, whichever types
\* it offers; a message of every encoding around the boundaries of the compact length;
\* three changes of a screen of two tiles and four captures.
SPECIFICATION PartsSpec
CONSTANTS
    IP = {1, 2}
    Attempt = {1, 2, 3}
    Enabled = TRUE
    Window = 3
    MaxAttempts = 1
    LockoutDuration = 1
    Failures2 = 2
    Lockout2 = 2
    Failures3 = 3
    Lockout3 = 4
    MaxTime = 5
    Browser = {1}
    MaxConnects = 2
    MaxUploads = 2
    Sizes = {1}
    MaxUploadSize = 2
    MaxConcurrent = 1
    MaxMishaps = 1
    LastName = 2
    MaxReconnectAttempts = 3
    MaxLosses = 2
    MaxFailures = 2
    Text = {t1, t2}
    NoText = NoText
    MaxEvents = 3
    Size = {1, 2}
    MaxFrames = 2
    MaxHeld = 1
    MaxFaults = 2
    Conn = {1}
    Offers = {"none", "vncAuth"}
    MaxMessages = 2
    MaxBroadcasts = 1
    NativeFormats = {"rgb32", "deep32", "rgb16", "rgb8"}
    Widths = {3, 64}
    Heights = {1, 64}
    ScreenHeights = {32, 64}
    DataLens = {128, 16384}
    MaxUpdates = 1
    Tile = {1, 2}
    MaxChanges = 3
    MaxCaptures = 4
\* Every part is bounded and stops at its bounds.
CHECK_DEADLOCK FALSE
INVARIANT PartsTypeOK
INVARIANT PurgeIsInvisible
INVARIANT BurstIsLockedOut
INVARIANT NoDebris
INVARIANT OneConnectionUntilAFailure
INVARIANT ButtonsFollowMask
INVARIANT PasteIsFresh
INVARIANT DeltasFollowTheirReference
 
 
INVARIANT HandshakeAgrees
INVARIANT OnlyBroadcastsDisturb
INVARIANT MisreadsAreKnown
INVARIANT ResourcesBalanced
INVARIANT FrameIsCurrent
INVARIANT DirtyRectsCover
INVARIANT ReadyMeansGranted
INVARIANT AnswerReachesCall
INVARIANT NothingLeftOpen
PROPERTY ImplementsAuthLock
PROPERTY DisconnectStartsNothing
PROPERTY UploadsSettle
PROPERTY LostConnectionIsSettled
 
PROPERTY WriterEnds
PROPERTY PortalSetUpEnds
