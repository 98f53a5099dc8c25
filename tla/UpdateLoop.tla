----------------------------- MODULE UpdateLoop -----------------------------
(***************************************************************************)
(* The framebuffer update loop, end to end: the browser client              *)
(* (web/src/index.ts) asks for an update, serveMessages hands the request   *)
(* to the connection's writer goroutine through a channel of capacity one   *)
(* (rfb/server.go), the writer captures, finds out what changed, encodes    *)
(* and sends, and the browser asks for the next update and paints.  The     *)
(* writers of all connections share one PipelinedCapturer and one record    *)
(* of the desktop size.                                                     *)
(*                                                                          *)
(* Encoded rectangles carry the pixel values of their tiles.  The clients   *)
(* are connected from the start, have sent their encodings (DesktopSize     *)
(* and Tight among them) and use the whole framebuffer as request region.   *)
(***************************************************************************)
EXTENDS PipelinedCapturer

CONSTANTS
    Black,       \* what a browser shows where nothing was painted
    MaxPushes    \* bound: how many cursors and resolutions are announced

ASSUME LoopAssumption == Black \notin Pixel /\ MaxPushes \in Nat

VARIABLES
    configSize,  \* server.config.Width and Height
    pushes, notices,
    notice,      \* the size NotifyDesktopResize announces
    noticeTo,    \* the clients it has still to tell
    writer,      \* [Client -> where the writer goroutine is]
    req,         \* [Client -> the request the writer serves]
    regions,     \* [Client -> the dirty rectangles the writer was given]
    fbReqCh,     \* [Client -> the channel, a sequence of at most one request]
    toServer,    \* [Client -> requests on their way]
    toClient,    \* [Client -> updates on their way]
    picture      \* [Client -> the browser's framebuffer]

noticeVars == <<notices, notice, noticeTo>>
connVars == <<configSize, pushes, noticeVars, writer, req, regions, fbReqCh, toServer, toClient, picture>>
vars == <<capturerVars, connVars>>

Request(inc, n) == [incremental |-> inc, size |-> n]
Requests == [incremental : BOOLEAN, size : AllTiles]

\* An update: a DesktopSize pseudo-rectangle (0: none) and painted tiles.
Update(n, tiles) == [resize |-> n, tiles |-> tiles]
NoTiles == <<>>

Init ==
    /\ CapturerInit
    /\ configSize = Bounds
    /\ pushes = 0
    /\ notices = 0 /\ notice = Bounds /\ noticeTo = {}
    /\ writer = [c \in Client |-> "idle"]
    /\ req = [c \in Client |-> Request(FALSE, Bounds)]
    /\ regions = [c \in Client |-> {}]
    /\ fbReqCh = [c \in Client |-> <<>>]
    /\ toServer = [c \in Client |-> <<Request(FALSE, Bounds)>>]
    /\ toClient = [c \in Client |-> <<>>]
    /\ picture = [c \in Client |-> [t \in 1..Bounds |-> Black]]

-----------------------------------------------------------------------------

\* Faulty variant: a request that finds the channel full is queued.
ServeRequestQueues(c) ==
    /\ ~crashed
    /\ toServer[c] # <<>>
    /\ toServer' = [toServer EXCEPT ![c] = Tail(@)]
    /\ fbReqCh' = [fbReqCh EXCEPT ![c] = Append(@, Head(toServer[c]))]
    /\ UNCHANGED <<capturerVars, configSize, pushes, noticeVars, writer, req, regions, toClient, picture>>

\* serveMessages: a request goes to the writer, or is dropped if another one is
\* already waiting for it.
ServeRequest(c) ==
    /\ ~crashed
    /\ toServer[c] # <<>>
    /\ toServer' = [toServer EXCEPT ![c] = Tail(@)]
    /\ fbReqCh' = [fbReqCh EXCEPT ![c] = IF @ = <<>> THEN <<Head(toServer[c])>> ELSE @]
    /\ UNCHANGED <<capturerVars, configSize, pushes, noticeVars, writer, req, regions, toClient, picture>>

-----------------------------------------------------------------------------
(* framebufferWriter: one step per point where another goroutine can run. *)

\* A panic ends the process, and with it every step of the server.
GoTo(c, label) == writer' = [writer EXCEPT ![c] = label]

TakeRequest(c) ==
    /\ ~crashed
    /\ writer[c] = "idle"
    /\ fbReqCh[c] # <<>>
    /\ req' = [req EXCEPT ![c] = Head(fbReqCh[c])]
    /\ fbReqCh' = [fbReqCh EXCEPT ![c] = <<>>]
    /\ GoTo(c, "capture")
    /\ UNCHANGED <<capturerVars, configSize, pushes, noticeVars, regions, toServer, toClient, picture>>

Capture(c) ==
    /\ ~crashed
    /\ writer[c] = "capture"
    /\ \/ CopyFrame(c) /\ GoTo(c, "diff")
       \/ ~HasFrame /\ GoTo(c, "wait") /\ UNCHANGED capturerVars
    /\ UNCHANGED <<configSize, pushes, noticeVars, req, regions, fbReqCh, toServer, toClient, picture>>

AwaitFirstFrame(c) ==
    /\ ~crashed
    /\ writer[c] = "wait"
    /\ TakeNotify
    /\ GoTo(c, "capture")
    /\ UNCHANGED <<configSize, pushes, noticeVars, req, regions, fbReqCh, toServer, toClient, picture>>

FrameDiff(c) ==
    /\ ~crashed
    /\ writer[c] = "diff"
    /\ Diff(c)
    /\ GoTo(c, "rects")
    /\ UNCHANGED <<configSize, pushes, noticeVars, req, regions, fbReqCh, toServer, toClient, picture>>

\* handleFramebufferRequestTimed: a full update ignores the dirty rectangles.
GetDirtyRects(c) ==
    /\ ~crashed
    /\ writer[c] = "rects"
    /\ \/ /\ ~req[c].incremental
          /\ regions' = [regions EXCEPT ![c] = AllTiles]
          /\ UNCHANGED capturerVars
       \/ /\ req[c].incremental
          /\ regions' = [regions EXCEPT ![c] = LastDirtyRects]
          /\ ConsumeDirtyRects
    /\ GoTo(c, "encode")
    /\ UNCHANGED <<configSize, pushes, noticeVars, req, fbReqCh, toServer, toClient, picture>>

\* encodeRegions: what changed, within the region that was asked for.
encodeRegions(c) == regions[c] \cap (1..req[c].size)

\* Faulty variant: nothing is sent when nothing changed.
EncodeAndSendSkipsEmpty(c) ==
    /\ ~crashed
    /\ writer[c] = "encode"
    /\ GoTo(c, "idle")
    /\ toClient' = [toClient EXCEPT ![c] =
          IF encodeRegions(c) = {} THEN @
          ELSE Append(@, Update(0, [t \in encodeRegions(c) \cap DOMAIN out[c] |-> out[c][t]]))]
    /\ UNCHANGED <<capturerVars, configSize, pushes, noticeVars, req, regions, fbReqCh, toServer, picture>>

\* Faulty variant: an empty update forgets the pseudo-rectangles.
EncodeAndSendDropsPseudo(c) ==
    /\ ~crashed
    /\ writer[c] = "encode"
    /\ configSize' = Bounds
    /\ GoTo(c, "idle")
    /\ toClient' = [toClient EXCEPT ![c] = Append(@,
          Update(0, [t \in encodeRegions(c) \cap DOMAIN out[c] |-> out[c][t]]))]
    /\ UNCHANGED <<capturerVars, pushes, noticeVars, req, regions, fbReqCh, toServer, picture>>

\* encodeAndSendFrame: Bounds, then everything under the connection's lock.
\* The Tight encoder fails on a tile the frame does not have: the writer
\* reports the error and ends.
EncodeAndSend(c) ==
    /\ ~crashed
    /\ writer[c] = "encode"
    /\ configSize' = Bounds
    /\ regions' = [regions EXCEPT ![c] = {}]
    /\ IF encodeRegions(c) \subseteq DOMAIN out[c]
       THEN /\ toClient' = [toClient EXCEPT ![c] = Append(@,
                  Update(IF Bounds # configSize THEN Bounds ELSE 0,
                         [t \in encodeRegions(c) |-> out[c][t]]))]
            /\ GoTo(c, "idle")
       ELSE /\ GoTo(c, "failed")
            /\ UNCHANGED toClient
    /\ UNCHANGED <<capturerVars, pushes, noticeVars, req, fbReqCh, toServer, picture>>

\* SendCursorUpdate: an update nobody asked for, under the connection's lock.
PushCursor(c) ==
    /\ ~crashed
    /\ pushes + notices < MaxPushes
    /\ pushes' = pushes + 1
    /\ toClient' = [toClient EXCEPT ![c] = Append(@, Update(0, NoTiles))]
    /\ UNCHANGED <<capturerVars, configSize, noticeVars, writer, req, regions, fbReqCh, toServer, picture>>

\* NotifyDesktopResize, which the program around the server calls when it sees
\* another resolution than before: the size is recorded at once, and the clients are told one by one,
\* each under its own lock.
NotifyDesktopResize ==
    /\ ~crashed
    /\ pushes + notices < MaxPushes
    /\ noticeTo = {} /\ notice # Bounds
    /\ notices' = notices + 1
    /\ notice' = Bounds
    /\ configSize' = Bounds
    /\ noticeTo' = Client
    /\ UNCHANGED <<capturerVars, pushes, writer, req, regions, fbReqCh, toServer, toClient, picture>>

SendNotice(c) ==
    /\ ~crashed
    /\ c \in noticeTo
    /\ noticeTo' = noticeTo \ {c}
    /\ toClient' = [toClient EXCEPT ![c] = Append(@, Update(notice, NoTiles))]
    /\ UNCHANGED <<capturerVars, configSize, pushes, notices, notice, writer, req, regions, fbReqCh,
                   toServer, picture>>

-----------------------------------------------------------------------------
(* The browser. *)

\* Framebuffer.resize clears a framebuffer whose size changes.
Resize(pic, n) == IF n \in {0, Len(pic)} THEN pic ELSE [t \in 1..n |-> Black]

Paint(pic, update) ==
    LET resized == Resize(pic, update.resize)
    IN  [t \in DOMAIN resized |->
            IF t \in DOMAIN update.tiles THEN update.tiles[t] ELSE resized[t]]

\* handleFramebufferUpdate: the next request goes out first, with the size the
\* browser has by then; a DesktopSize rectangle asks for a full update.
\* fbuQueue starts an update when the one before it has been painted, JPEG
\* tiles included, so request and painting are one step here.
HandleUpdate(c) ==
    /\ toClient[c] # <<>>
    /\ LET update == Head(toClient[c])
           next == <<Request(TRUE, Len(picture[c]))>>
           full == IF update.resize = 0 THEN <<>> ELSE <<Request(FALSE, update.resize)>>
       IN  /\ toServer' = [toServer EXCEPT ![c] = @ \o next \o full]
           /\ picture' = [picture EXCEPT ![c] = Paint(@, update)]
    /\ toClient' = [toClient EXCEPT ![c] = Tail(@)]
    /\ UNCHANGED <<capturerVars, configSize, pushes, noticeVars, writer, req, regions, fbReqCh>>

-----------------------------------------------------------------------------
Writer(c) ==
    \/ TakeRequest(c) \/ Capture(c) \/ AwaitFirstFrame(c) \/ FrameDiff(c)
    \/ GetDirtyRects(c) \/ EncodeAndSend(c)

CaptureLoop == ~crashed /\ (Grab \/ Publish) /\ UNCHANGED connVars
Environment == (ScreenChanges \/ ScreenResizes) /\ UNCHANGED connVars

Next ==
    \/ \E c \in Client :
          \/ ServeRequest(c) \/ TakeRequest(c) \/ Capture(c) \/ AwaitFirstFrame(c)
          \/ FrameDiff(c) \/ GetDirtyRects(c) \/ EncodeAndSend(c)
          \/ PushCursor(c) \/ SendNotice(c) \/ HandleUpdate(c)
    \/ NotifyDesktopResize
    \/ CaptureLoop
    \/ Environment

Spec == Init /\ [][Next]_vars

\* The goroutines run when they can, the connection delivers, the browser's
\* event loop runs.  Screen changes and pushed cursors may stop at any time.
Fairness ==
    /\ WF_vars(CaptureLoop)
    /\ \A c \in Client :
          /\ WF_vars(Writer(c)) /\ WF_vars(ServeRequest(c))
          /\ WF_vars(HandleUpdate(c))

FairSpec == Spec /\ Fairness

-----------------------------------------------------------------------------
(* Properties. *)

Pictures == UNION {[1..n -> Pixel \union {Black}] : n \in AllTiles}

\* The type of every variable; the channel never holds more than one request.
TypeOK ==
    /\ screen \in Frames
    /\ changes \in 0..MaxChanges /\ resizes \in 0..MaxResizes /\ pushes \in 0..MaxPushes
    /\ {grabbed, front, back, diffPrev} \subseteq Frames \union {NoFrame}
    /\ diffLen \in 0..Len(diffPrev) /\ diffW \in 0..MaxTiles
    /\ dirtyRects \subseteq AllTiles
    /\ {notify, dirtyComputed, crashed} \subseteq BOOLEAN
    /\ notices \in 0..MaxPushes /\ noticeTo \subseteq Client
    /\ configSize \in AllTiles /\ notice \in AllTiles
    /\ writer \in [Client -> {"idle", "capture", "wait", "diff", "rects", "encode", "failed"}]
    /\ \A c \in Client :
          /\ out[c] \in Frames \union {NoFrame}
          /\ req[c] \in Requests /\ regions[c] \subseteq AllTiles
          /\ fbReqCh[c] \in {<<>>} \union {<<r>> : r \in Requests}
          /\ \A i \in DOMAIN toServer[c] : toServer[c][i] \in Requests
          /\ \A i \in DOMAIN toClient[c] :
                /\ toClient[c][i].resize \in 0..MaxTiles
                /\ DOMAIN toClient[c][i].tiles \subseteq AllTiles
          /\ picture[c] \in Pictures

\* Tile t shows v once the browser has handled what was sent to it: the last
\* update that carries the tile has v, or none does and it already shows v.
WillShow(c, t, v) ==
    LET carrying == {k \in DOMAIN toClient[c] : t \in DOMAIN toClient[c][k].tiles}
    IN  \/ \E k \in carrying : toClient[c][k].tiles[t] = v /\ \A j \in carrying : j <= k
        \/ carrying = {} /\ picture[c][t] = v

\* At a fixed resolution, an answer leaves the browser with exactly the frame
\* it was made from, although it carries only the tiles that changed since an
\* earlier frame: no change is ever lost between two answers
\* (frameDiff, LastDirtyRects, encodeAndSendFrame).
AnswerIsComplete ==
    \A c \in Client :
        resizes = 0 /\ writer[c] = "idle" /\ out[c] # NoFrame =>
            /\ DOMAIN picture[c] = DOMAIN out[c]
            /\ \A t \in DOMAIN out[c] : WillShow(c, t, out[c][t])

\* The writer goroutine is making an answer: it has neither ended nor nothing to do.
Answering(c) == writer[c] \in {"capture", "wait", "diff", "rects", "encode"}

\* The loop never runs dry: although requests are dropped when one is already
\* waiting, while the process runs and the writer of a connection has not failed
\* the connection has an answer being made, or a request or update under way,
\* so the browser, which only asks when it is answered, will be answered again.  (After a
\* failure serveMessages sees errCh only when the browser sends something more, and
\* nobody answers.)  (serveMessages, framebufferWriter, handleFramebufferUpdate)
LoopNeverStalls ==
    \A c \in Client :
        ~crashed /\ writer[c] # "failed" =>
            \/ Answering(c)
            \/ <<fbReqCh[c], toServer[c], toClient[c]>> # <<<<>>, <<>>, <<>>>>

\* The browser's framebuffer has n tiles once it has handled what was sent to
\* it: the last DesktopSize on its way says n, or none is and it has n already.
WillHaveSize(c, n) ==
    LET resizing == {k \in DOMAIN toClient[c] : toClient[c][k].resize # 0}
    IN  \/ \E k \in resizing : toClient[c][k].resize = n /\ \A j \in resizing : j <= k
        \/ resizing = {} /\ Len(picture[c]) = n

\* What encodeAndSendFrame says of the size it compares the screen with, that it is
\* what the client was last told: by a rectangle still on its way, by one the
\* browser has applied, or by ServerInit.  (The record is one for all clients.)
RecordedSizeWasTold ==
    \A c \in Client : writer[c] # "failed" /\ noticeTo = {} => WillHaveSize(c, configSize)

\* At a fixed resolution, once the screen stops changing every browser comes to
\* show it and goes on showing it (captureLoop to handleFramebufferUpdate).
BrowserConverges ==
    \A c \in Client : <>[](resizes = 0 => picture[c] = screen)

\* A browser that is the only one connected learns of every change of the resolution
\* from its answers, unless its connection or the server fails (the DesktopSize part
\* of encodeAndSendFrame).  With a second one, or with an announcement that an answer
\* overtakes, the size on record may be one that this browser was never told.
SizeConverges ==
    \A c \in Client :
        <>[]((\A d \in Client : c = d) /\ notices = 0 =>
                crashed \/ writer[c] = "failed" \/ Len(picture[c]) = Len(screen))

\* What frameDiff says of a resolution change, that the frame is stored and
\* all of it reported: the frame it compares with is never too short
\* for the comparison.
DiffNeverOutOfRange == ~crashed

\* A browser that was told of a new resolution comes to show the screen again:
\* it asks for a full update, and a dropped request is made up for by the next
\* one (serveMessages, handleDesktopResize).
ResizeIsRepainted ==
    \A c \in Client :
        <>[](crashed \/ writer[c] = "failed" \/ picture[c] = screen)
=============================================================================
