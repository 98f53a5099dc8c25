-------------------------------- MODULE Parts --------------------------------
(***************************************************************************)
(* The parts of the system that are checked one at a time: the rate         *)
(* limiter, uploads, connecting and reconnecting, input, video, the         *)
(* connections of the RFB server, message boundaries, screen capture on     *)
(* Windows and the desktop portal.                                          *)
(*                                                                          *)
(* The modules share no variable.  Where the code has one part act on       *)
(* another, the module of the other has that as an event of its own, which  *)
(* may come at any time: a browser that reconnects makes a new upload       *)
(* handler and resets the decoder (Upload!PerformReconnect,                 *)
(* VideoReconnect), and the close event of an old socket reaches the        *)
(* handler of the new one (Upload!ConnectionLost).  InputPath ends with its *)
(* connection: the handlers a reconnection attaches beside the old ones are *)
(* not in it.  So a property of one part needs only that part's steps.  The *)
(* variable subject, chosen at the start, is the part that moves: the       *)
(* states are the sum and not the product of those of the parts.            *)
(***************************************************************************)
EXTENDS RateLimiter, Upload, Reconnect, InputPath, VideoPipeline, RfbServer, Framing,
        WindowsCapture, Portal

VARIABLE subject

partsVars == <<subject, limiterVars, uploadVars, reconnectVars, inputVars, videoVars, rfbVars,
               framingVars, winVars, portalVars>>

\* The inputs of a part that does not move are fixed.
PartsInit ==
    /\ subject \in {"limiter", "upload", "reconnect", "input", "video", "rfb", "framing",
                    "windows", "portal"}
    /\ UploadInit /\ WinInit
    /\ LimiterInit /\ (subject # "limiter" => ip = [k \in Attempt |-> CHOOSE a \in IP : TRUE])
    /\ ReconnectInit /\ (subject # "reconnect" => reconnectOption)
    /\ InputInit /\ (subject # "input" => ~isMac /\ injector = "direct")
    /\ VideoInit /\ (subject # "video" => screenSize = CHOOSE n \in Size : TRUE)
    /\ RfbInit /\ (subject # "rfb" => offered = <<"none">> /\ passwordOf = [c \in Conn |-> "none"])
    /\ FramingInit /\ (subject # "framing" => peer = "client" /\ native = "rgb32" /\ capturing)
    /\ PortalInit /\ (subject # "portal" => capture /\ input /\ samePath)

Uploading(A) ==
    /\ subject = "upload" /\ A
    /\ UNCHANGED <<subject, limiterVars, reconnectVars, inputVars, videoVars,
                    rfbVars, framingVars, winVars, portalVars>>
Connecting(A) ==
    /\ subject = "reconnect" /\ A
    /\ UNCHANGED <<subject, limiterVars, uploadVars, inputVars, videoVars,
                    rfbVars, framingVars, winVars, portalVars>>
Serving(A) ==
    /\ subject = "rfb" /\ A
    /\ UNCHANGED <<subject, limiterVars, uploadVars, reconnectVars, inputVars,
                    videoVars, framingVars, winVars, portalVars>>
SettingUp(A) ==
    /\ subject = "portal" /\ A
    /\ UNCHANGED <<subject, limiterVars, uploadVars, reconnectVars, inputVars,
                    videoVars, rfbVars, framingVars, winVars>>

PartsNext ==
    \/ Uploading(UploadNext) \/ Connecting(ReconnectNext) \/ Serving(RfbNext) \/ SettingUp(PortalNext)
    \/ /\ subject = "limiter" /\ LimiterNext
       /\ UNCHANGED <<subject, uploadVars, reconnectVars, inputVars, videoVars,
                       rfbVars, framingVars, winVars, portalVars>>
    \/ /\ subject = "input" /\ InputNext
       /\ UNCHANGED <<subject, limiterVars, uploadVars, reconnectVars, videoVars,
                       rfbVars, framingVars, winVars, portalVars>>
    \/ /\ subject = "video" /\ VideoNext
       /\ UNCHANGED <<subject, limiterVars, uploadVars, reconnectVars, inputVars,
                       rfbVars, framingVars, winVars, portalVars>>
    \/ /\ subject = "framing" /\ FramingNext
       /\ UNCHANGED <<subject, limiterVars, uploadVars, reconnectVars, inputVars,
                       videoVars, rfbVars, winVars, portalVars>>
    \/ /\ subject = "windows" /\ WinNext
       /\ UNCHANGED <<subject, limiterVars, uploadVars, reconnectVars, inputVars,
                       videoVars, rfbVars, framingVars, portalVars>>

\* The fairness of the parts that move of themselves.
PartsSpec ==
    /\ PartsInit /\ [][PartsNext]_partsVars
    /\ \A s \in UpSession : WF_partsVars(Uploading(UploadProgress(s)))
    /\ WF_partsVars(Connecting(ReconnectStep))
    /\ \A c \in Conn : /\ WF_partsVars(Serving(HandlerStep(c)))
                       /\ WF_partsVars(Serving(WriterStep(c)))
                       /\ WF_partsVars(Serving(ClientStep(c)))
    /\ WF_partsVars(SettingUp(NewStep)) /\ WF_partsVars(SettingUp(Listen))

\* ReconnectsOrGivesUp of the part that moves: a browser that lost its connection,
\* or whose attempts fail, is connected again, tells its user that it gave up, was
\* disconnected on purpose or told not to reconnect, or waits for a connection that
\* the network neither makes nor refuses, whichever timers and close events overlap.
LostConnectionIsSettled == <>[](subject = "reconnect" => ConnectedOrWaiting)

\* NewReturns of the part that moves: the set-up of a portal session ends, with a
\* session or an error, although the user may never answer the portal's dialog, unless
\* a method call on the bus never returns.
PortalSetUpEnds == <>[](subject = "portal" => ReturnedOrInCall)

\* Every variable of every part keeps its type; an upload session never has more
\* uploads open than maxConcurrentUploads, and no channel takes more than it holds.
PartsTypeOK ==
    /\ LimiterTypeOK /\ UploadTypeOK /\ ReconnectTypeOK /\ InputTypeOK /\ VideoTypeOK
    /\ RfbTypeOK /\ FramingTypeOK /\ WinTypeOK /\ PortalTypeOK

=============================================================================
