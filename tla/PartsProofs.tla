----------------------------- MODULE PartsProofs -----------------------------
(***************************************************************************)
(* The specification that the run Parts checks, proved for every value of   *)
(* its constants: a step of the whole is, for each part, a step of that     *)
(* part or one that leaves its variables alone, so what the parts' own      *)
(* proofs establish holds of all of them together.                          *)
(***************************************************************************)
EXTENDS Parts, RateLimiterProofs, DesktopProofs, RfbServerProofs, BrowserProofs, TransferProofs

\* A state of the whole is, for each part, a state that part starts in.
LEMMA PartsStart ==
    PartsInit => /\ LimiterInit /\ UploadInit /\ ReconnectInit /\ InputInit /\ VideoInit
                 /\ RfbInit /\ FramingInit /\ WinInit /\ PortalInit
  BY DEF PartsInit

\* A step of the whole is a step of each part, or leaves that part alone.
LEMMA PartsStep ==
    [PartsNext]_partsVars =>
        /\ [LimiterNext]_limiterVars
        /\ [UploadNext]_uploadVars /\ [ReconnectNext]_reconnectVars
        /\ [InputNext]_inputVars /\ [VideoNext]_videoVars
        /\ [RfbNext]_rfbVars /\ [FramingNext]_framingVars
        /\ [WinNext]_winVars /\ [PortalNext]_portalVars
  BY DEF PartsNext, partsVars, Uploading, Connecting, Serving, SettingUp

\* For the limiter, which assumes no fairness, the whole is its specification.
LEMMA PartsLimiter == PartsSpec => LimiterSpec
<1>1. PartsSpec => PartsInit /\ [][PartsNext]_partsVars
  BY PTL DEF PartsSpec
<1> QED
  BY <1>1, PartsStart, PartsStep, PTL DEF LimiterSpec

-----------------------------------------------------------------------------
(* The invariants of the parts, together. *)

\* The inductive invariants of the parts: none of them mentions a variable of
\* another part.
PartsInv ==
    /\ UploadTypes /\ DirInv
    /\ RetryInv /\ BudgetInv
    /\ InputInv /\ VideoInv /\ RfbInv /\ FramingInv /\ WinInv /\ PortalInv

\* Every part starts in its invariant.
LEMMA PartsInitInv == PartsInit => PartsInv
  BY PartsStart, UploadInitTypes, DirInitInv, InitRetry, InitBudget, InitInput, InitVideo,
     RfbInitInv, FramingInitInv, WinInitInv, PortalInitInv DEF PartsInv

\* Every step of the whole keeps the invariants of all the parts.
LEMMA PartsNextInv == PartsInv /\ [PartsNext]_partsVars => PartsInv'
  BY PartsStep, UploadStepTypes, DirStep, NextRetry, NextBudget, NextInput, NextVideo,
     RfbStep, FramingStep, WinStep, PortalStep DEF PartsInv

LEMMA PartsInvHolds == PartsSpec => []PartsInv
<1>1. PartsSpec => PartsInit /\ [][PartsNext]_partsVars
  BY PTL DEF PartsSpec
<1> QED
  BY <1>1, PartsInitInv, PartsNextInv, PTL

\* In the specification that is model checked every variable of every part keeps its
\* type, for every value of the constants: no session has more uploads open than
\* maxConcurrentUploads, no channel takes more than it holds, and no attempt to
\* reconnect outnumbers its sockets.
THEOREM PartsTypeCorrect == PartsSpec => []PartsTypeOK
<1>1. PartsInv /\ LimiterTypeOK => PartsTypeOK
  BY UploadMeansTypes, BudgetMeansTypes, InputMeansTypes, VideoMeansTypes, RfbInvImplies,
     FramingMeansTypes, WinInvImplies, PortalInvImplies DEF PartsInv, PartsTypeOK
<1> QED
  BY <1>1, PartsInvHolds, PartsLimiter, LimiterTypeCorrect, PTL

\* The safety of the browser and of its session with the proxy, as the invariants
\* that the run checks of Upload, Reconnect, InputPath and VideoPipeline.
BrowserSafety ==
    /\ NoDebris
    /\ OneConnectionUntilAFailure
    /\ ButtonsFollowMask /\ PasteIsFresh
    /\ DeltasFollowTheirReference /\ IdleDecoderShowsLatest /\ PendingIsQueued

\* The safety of the server, as the invariants that the run checks of RfbServer,
\* Framing, WindowsCapture and Portal, and of the limiter in front of it.
ServerSafety ==
    /\ PurgeIsInvisible /\ BurstIsLockedOut
    /\ HandshakeAgrees /\ OnlyBroadcastsDisturb /\ MisreadsAreKnown
    /\ ResourcesBalanced /\ FrameIsCurrent /\ DirtyRectsCover
    /\ ReadyMeansGranted /\ AnswerReachesCall /\ NothingLeftOpen

\* Every invariant that the run checks of the parts holds of the specification that it
\* checks, for every value of the constants: any number of browsers, connections,
\* uploads, clients, tiles and addresses.
THEOREM PartsSafe == PartsSpec => [](BrowserSafety /\ ServerSafety)
<1>1. PartsInv => BrowserSafety
  <2>1. DirInv => NoDebris
    BY DEF DirInv
  <2> QED
    BY <2>1, RetryMeansOne, InputMeansButtons, InputMeansFresh,
       VideoMeansDeltas, VideoMeansNewest, VideoMeansPending DEF PartsInv, BrowserSafety
<1>2. PartsInv /\ PurgeIsInvisible /\ BurstIsLockedOut => ServerSafety
  BY RfbInvImplies, FramingMeansKnown, WinInvImplies, PortalInvImplies DEF PartsInv, ServerSafety
<1> QED
  BY <1>1, <1>2, PartsInvHolds, PartsLimiter, PurgeInvisible, BurstLockedOut, PTL

\* A deliberate disconnect adds no attempt to connect, and after it nothing does, in the
\* composition as in Reconnect alone: what the other parts do leaves the attempts alone.
THEOREM PartsDisconnect == PartsSpec => DisconnectStartsNothing
<1>1. PartsSpec => PartsInit /\ [][PartsNext]_partsVars
  BY PTL DEF PartsSpec
<1>2. PartsInv /\ [PartsNext]_partsVars
        => [intentionalDisconnect' => StillToConnect' <= StillToConnect]_reconnectVars
  BY PartsStep, NothingIsAdded DEF PartsInv, BudgetInv
<1> QED
  BY <1>1, <1>2, PartsInvHolds, PTL DEF DisconnectStartsNothing
=============================================================================
