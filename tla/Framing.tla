------------------------------- MODULE Framing -------------------------------
(***************************************************************************)
(* Message boundaries.  RFB messages have no common length field: every     *)
(* reader computes where a rectangle ends from its header, its contents and *)
(* the pixel format.  The writer is the server (encodeAndSendFrame and the  *)
(* Tight encoder); the readers are rfbReader of the proxy, the parser of    *)
(* the browser behind it, or rfb.Client.                                    *)
(*                                                                          *)
(* A rectangle records what the writer put on the wire: dimensions, Tight   *)
(* sub-encoding, data length n, bytes per pixel px, rows of pixels, and the *)
(* format pf of the connection.  Lengths are in bytes.  A Tight rectangle   *)
(* of this server is one tile.                                              *)
(*                                                                          *)
(* Formats: rgb32 has 32 bits, depth 24 and true colour; deep32 has 32 bits *)
(* and another depth or a colour map; rgb16 and rgb8 have 16 and 8 bits.    *)
(***************************************************************************)
EXTENDS Integers, Sequences

CONSTANTS
    NativeFormats,  \* pixel formats a VNC server may announce
    Widths, Heights,\* of rectangles
    ScreenHeights,  \* of screens, which a request may exceed
    DataLens,       \* lengths of compressed data
    MaxUpdates      \* bound: messages the server sends

Formats == {"rgb32", "deep32", "rgb16", "rgb8"}

ASSUME FramingAssumption ==
    /\ NativeFormats \subseteq Formats
    /\ Widths \subseteq Nat \ {0} /\ Heights \subseteq Nat \ {0} /\ Widths # {} /\ Heights # {}
    /\ ScreenHeights \subseteq Nat /\ DataLens \subseteq Nat /\ MaxUpdates \in Nat

VARIABLES
    peer,           \* "proxy" or "client": what the server talks to
    native,         \* the format of ServerInit: config.PixelFormat
    capturing,      \* the server has a Capturer
    fmt,            \* pixelFormat of the connection
    encodingsKnown, \* the server has read SetEncodings
    readerFmt,      \* bpp and tightCPixel of rfbReader
    snapshot,       \* what ReadMessage took of them before it blocks; "none" between calls
    wsUp, tcpUp,    \* messages to the proxy and to the server
    pending,        \* requests the writer has not answered
    tcpDown, wsDown,
    misread,        \* the first rectangle whose end was missed, and by whom
    written         \* messages the server has sent

framingVars == <<peer, native, capturing, fmt, encodingsKnown, readerFmt, snapshot, wsUp, tcpUp,
                 pending, tcpDown, wsDown, misread, written>>

Tiles == Widths \X Heights
BytesPerPixel(f) == CASE f = "rgb8" -> 1 [] f = "rgb16" -> 2 [] OTHER -> 4
\* TPIXEL: three bytes for 32 bits of depth 24 in true colour.
TightCPixel(f) == IF f = "rgb32" THEN 3 ELSE BytesPerPixel(f)
Area(r) == r.w * r.h
MaskLen(r) == ((r.w + 7) \div 8) * r.h

-----------------------------------------------------------------------------
(* Tight compact lengths, written and read. *)

\* Faulty variant: the second byte does not say that a third follows.
CompactLenShort(n) ==
    IF n < 128 THEN <<n>>
    ELSE IF n < 16384 THEN <<(n % 128) + 128, n \div 128>>
    ELSE <<(n % 128) + 128, (n \div 128) % 128, (n \div 16384) % 256>>

\* The largest length that three bytes tell: 22 bits.
MaxCompactLen == 4194303

CompactLen(n) ==
    IF n < 128 THEN <<n>>
    ELSE IF n < 16384 THEN <<(n % 128) + 128, n \div 128>>
    ELSE <<(n % 128) + 128, ((n \div 128) % 128) + 128, (n \div 16384) % 256>>

\* Bytes of the length, and the value they stand for.
CompactUsed(b) == IF b[1] < 128 THEN 1 ELSE IF b[2] < 128 THEN 2 ELSE 3
CompactValue(b) ==
    LET part(k) == IF k > CompactUsed(b) THEN 0 ELSE IF k = 3 THEN b[3] ELSE b[k] % 128
    IN  part(1) + 128 * part(2) + 16384 * part(3)

Prefixed(n) == LET b == CompactLen(n) IN CompactUsed(b) + CompactValue(b)

-----------------------------------------------------------------------------
(* The length of the data of a rectangle, as written and as read. *)

Tight == {"fill", "jpeg", "basic"}

\* encodeJPEG and encodeBasic always write the length.
WrittenTight(r) == 1 + IF r.enc = "fill" THEN 3 ELSE Len(CompactLen(r.n)) + r.n

Written(r) ==
    CASE r.enc = "raw" -> r.w * r.rows * r.px
      [] r.enc \in {"zlib", "zrle"} -> 4 + r.n
      [] r.enc = "h264" -> 8 + r.n
      [] r.enc \in Tight -> WrittenTight(r)
      [] r.enc = "cursor" -> Area(r) * r.px + MaskLen(r)
      [] r.enc = "desktopSize" -> 0

\* readTightBasic of the proxy: data of less than 12 bytes is taken to have no length.
ProxyReadsBasic(r, f) ==
    LET raw == Area(r) * TightCPixel(f) IN IF raw < 12 THEN raw ELSE Prefixed(r.n)

\* readTightData of the proxy.
ProxyReadsTight(r, f) ==
    1 + CASE r.enc = "fill" -> TightCPixel(f)
          [] r.enc = "jpeg" -> Prefixed(r.n)
          [] r.enc = "basic" -> ProxyReadsBasic(r, f)

\* readEncodingData of the proxy.
ProxyReads(r, f) ==
    CASE r.enc = "raw" -> Area(r) * BytesPerPixel(f)
      [] r.enc \in {"zlib", "zrle"} -> 4 + r.n
      [] r.enc = "h264" -> 8 + r.n
      [] r.enc \in Tight -> ProxyReadsTight(r, f)
      [] r.enc = "cursor" -> Area(r) * BytesPerPixel(f) + MaskLen(r)
      [] r.enc = "desktopSize" -> 0

\* getTightDataLength of the browser.
BrowserReadsTight(r) == 1 + IF r.enc = "fill" THEN 3 ELSE Prefixed(r.n)

\* getEncodingDataLength of the browser, which counts on SetPixelFormat.
BrowserReads(r) ==
    CASE r.enc = "raw" -> Area(r) * 4
      [] r.enc \in {"zlib", "zrle"} -> 4 + r.n
      [] r.enc = "h264" -> 8 + r.n
      [] r.enc \in Tight -> BrowserReadsTight(r)
      [] r.enc = "cursor" -> Area(r) * 4 + MaskLen(r)
      [] r.enc = "desktopSize" -> 0

\* Client.readTightTile.
ClientReadsTight(r) == 1 + IF r.enc = "fill" THEN 3 ELSE Prefixed(r.n)

\* Client.readFramebufferUpdate; it does not ask for H.264 and ZRLE.
ClientDecodes == {"raw", "zlib", "cursor", "desktopSize"} \cup Tight
ClientReadsRect(r) ==
    CASE r.enc = "raw" -> Area(r) * 4
      [] r.enc = "zlib" -> 4 + r.n
      [] r.enc \in Tight -> ClientReadsTight(r)
      [] r.enc = "cursor" -> Area(r) * BytesPerPixel(native) + MaskLen(r)
      [] r.enc = "desktopSize" -> 0

-----------------------------------------------------------------------------

FramingInit ==
    /\ peer \in {"proxy", "client"}
    /\ native \in NativeFormats
    /\ capturing \in BOOLEAN
    /\ fmt = native /\ readerFmt = native
    /\ encodingsKnown = FALSE
    /\ snapshot = "none"
    /\ wsUp = IF peer = "proxy" THEN <<"setPixelFormat", "setEncodings", "request">> ELSE <<>>
    /\ tcpUp = IF peer = "proxy" THEN <<>> ELSE <<"setEncodings", "request">>
    /\ pending = 0
    /\ tcpDown = <<>> /\ wsDown = <<>> /\ misread = <<>>
    /\ written = 0

\* relayBrowserToVNC: SetPixelFormat is noted before it is passed on.
RelayUp ==
    /\ wsUp # <<>>
    /\ readerFmt' = IF Head(wsUp) = "setPixelFormat" THEN "rgb32" ELSE readerFmt
    /\ tcpUp' = Append(tcpUp, Head(wsUp))
    /\ wsUp' = Tail(wsUp)
    /\ UNCHANGED <<peer, native, capturing, fmt, encodingsKnown, snapshot, pending, tcpDown,
                   wsDown, misread, written>>

\* serveMessages.
ServerReads ==
    /\ tcpUp # <<>>
    /\ tcpUp' = Tail(tcpUp)
    /\ fmt' = IF Head(tcpUp) = "setPixelFormat" THEN "rgb32" ELSE fmt
    /\ encodingsKnown' = (encodingsKnown \/ Head(tcpUp) = "setEncodings")
    /\ pending' = IF Head(tcpUp) = "request" THEN 1 ELSE pending
    /\ UNCHANGED <<peer, native, capturing, readerFmt, snapshot, wsUp, tcpDown, wsDown, misread,
                   written>>

Rect(enc, t, n) == [enc |-> enc, w |-> t[1], h |-> t[2], n |-> n,
                    px |-> BytesPerPixel(fmt), rows |-> t[2], pf |-> fmt]

AnyTile == CHOOSE t \in Tiles : TRUE

\* A tile of 64 by 64 pixels compresses to far less than three bytes can tell.
TileLens == DataLens \cap 0..MaxCompactLen

\* EncodeMulti of Tight: a tile of one pixel is solid, JPEG is for whole tiles.
TightPictures ==
    {Rect("fill", t, 0) : t \in Tiles}
    \cup {Rect("basic", t, n) : t \in {u \in Tiles : u[1] * u[2] > 1}, n \in TileLens}
    \cup {Rect("jpeg", t, n) : t \in {u \in Tiles : u[1] * u[2] >= 4096}, n \in TileLens}

\* The rows of a region that a screen of k rows has.
RawRect(t, k) == [Rect("raw", t, 0) EXCEPT !.px = 4, !.rows = IF k < t[2] THEN k ELSE t[2]]

\* ConvertPixels returns the capturer's pixels, of four bytes, to a client that kept the
\* format of the server.  Rows past the end of the frame are not written, when a request
\* is for more than the screen has; ConvertPixels would panic on the missing ones.
RawPictures ==
    IF fmt = native
    THEN {RawRect(t, k) : t \in Tiles, k \in ScreenHeights}
    ELSE {Rect("raw", t, 0) : t \in Tiles}

\* The length of what is compressed as a whole does not depend on its dimensions.
WholePictures == {Rect(enc, AnyTile, n) : enc \in {"zlib", "zrle", "h264"}, n \in DataLens}

\* What the branches of encodeAndSendFrame write.
Pictures == TightPictures \cup RawPictures \cup WholePictures
\* sendBlankFrame.
BlankPictures == {Rect("raw", t, 0) : t \in Tiles}
Decodable == IF peer = "client" THEN {r \in Pictures : r.enc \in ClientDecodes} ELSE Pictures
Pseudo == {Rect(enc, t, 0) : enc \in {"cursor", "desktopSize"}, t \in Tiles}

Sends(rects) ==
    /\ written < MaxUpdates
    /\ written' = written + 1
    /\ tcpDown' = Append(tcpDown, rects)

\* An update with at most one pseudo-rectangle before the picture; the picture may
\* be missing.  A server with nothing to capture sends a blank picture.
SendUpdate ==
    /\ pending > 0
    /\ pending' = 0
    /\ \/ /\ capturing
          /\ \E p \in Pseudo, r \in Decodable :
                Sends(<<r>>) \/ Sends(<<p, r>>) \/ Sends(<<p>>) \/ Sends(<<>>)
       \/ ~capturing /\ \E r \in BlankPictures : Sends(<<r>>)
    /\ UNCHANGED <<peer, native, capturing, fmt, encodingsKnown, readerFmt, snapshot, wsUp, tcpUp,
                   wsDown, misread>>

\* SendCursorUpdate and NotifyDesktopResize, for a client whose encodings say so.
Push ==
    /\ encodingsKnown
    /\ \E p \in Pseudo : Sends(<<p>>)
    /\ UNCHANGED <<peer, native, capturing, fmt, encodingsKnown, readerFmt, snapshot, wsUp, tcpUp,
                   pending, wsDown, misread>>

\* ReadMessage of the proxy up to its first read, which may block.
StartRead ==
    /\ peer = "proxy" /\ snapshot = "none" /\ misread = <<>>
    /\ snapshot' = readerFmt
    /\ UNCHANGED <<peer, native, capturing, fmt, encodingsKnown, readerFmt, wsUp, tcpUp, pending,
                   tcpDown,
                   wsDown, misread, written>>

\* Where the first rectangle is whose end the reader misses, if there is one.
Missed(rects, Reads(_)) ==
    {k \in 1..Len(rects) :
        /\ Reads(rects[k]) # Written(rects[k])
        /\ \A j \in 1..(k - 1) : Reads(rects[j]) = Written(rects[j])}
Note(by, rects, missed, f) ==
    IF missed = {} THEN <<>>
    ELSE <<[by |-> by, rect |-> rects[CHOOSE k \in missed : TRUE], fmt |-> f]>>

\* The rest of ReadMessage, and the write to the WebSocket.
FinishRead ==
    /\ snapshot # "none" /\ tcpDown # <<>> /\ misread = <<>>
    /\ LET Reads(r) == ProxyReads(r, snapshot)
           missed == Missed(Head(tcpDown), Reads)
       IN  /\ misread' = Note("proxy", Head(tcpDown), missed, snapshot)
           /\ wsDown' = IF missed = {} THEN Append(wsDown, Head(tcpDown)) ELSE wsDown
    /\ tcpDown' = Tail(tcpDown)
    /\ snapshot' = "none"
    /\ UNCHANGED <<peer, native, capturing, fmt, encodingsKnown, readerFmt, wsUp, tcpUp, pending,
                   written>>

\* parseFramebufferUpdate and the next request: the end of a rectangle is looked for
\* only if another follows.
BrowserParses ==
    /\ wsDown # <<>> /\ misread = <<>>
    /\ LET rects == SubSeq(Head(wsDown), 1, Len(Head(wsDown)) - 1)
       IN  misread' = Note("browser", rects, Missed(rects, BrowserReads), fmt)
    /\ wsDown' = Tail(wsDown)
    /\ wsUp' = Append(wsUp, "request")
    /\ UNCHANGED <<peer, native, capturing, fmt, encodingsKnown, readerFmt, snapshot, tcpUp,
                   pending, tcpDown, written>>

\* Client.ReadMessage, and the next request of its caller.
ClientReadsMessage ==
    /\ peer = "client" /\ tcpDown # <<>> /\ misread = <<>>
    /\ LET rects == Head(tcpDown)
       IN  misread' = Note("client", rects, Missed(rects, ClientReadsRect), native)
    /\ tcpDown' = Tail(tcpDown)
    /\ tcpUp' = Append(tcpUp, "request")
    /\ UNCHANGED <<peer, native, capturing, fmt, encodingsKnown, readerFmt, snapshot, wsUp,
                   pending, wsDown, written>>

-----------------------------------------------------------------------------

FramingNext ==
    \/ RelayUp \/ ServerReads \/ SendUpdate \/ Push \/ StartRead \/ FinishRead
    \/ BrowserParses \/ ClientReadsMessage

FramingSpec == FramingInit /\ [][FramingNext]_framingVars

-----------------------------------------------------------------------------

FramingTypeOK ==
    /\ {fmt, readerFmt} \subseteq Formats /\ snapshot \in Formats \cup {"none"}
    /\ pending \in 0..1 /\ written \in 0..MaxUpdates
    /\ Len(misread) <= 1

\* rfbReader returns exactly one complete message for every call of ReadMessage, and
\* browser and client find the end of every rectangle they look for: nothing is
\* misread.
MessagesAreAligned == misread = <<>>

\* A Basic tile whose pixels take less than 12 bytes.
Tiny(r, f) == r.enc = "basic" /\ Area(r) * TightCPixel(f) < 12

\* A picture with fewer rows than its header says.
Short(r) == r.enc = "raw" /\ r.rows < r.h

\* The readers agree with the writer on every rectangle of every encoding, whichever
\* side of the boundaries of the compact length its data falls and whatever format the
\* server announces, except where
\*  - the proxy reads a Basic tile of less than 12 bytes,
\*  - the proxy frames with the format it took before it blocked an update that
\*    follows SetPixelFormat,
\*  - a raw picture is short, since the request was for more than the screen, or
\*  - rfb.Client reads a blank picture, with pixels of four bytes whatever the format.
\* The browser never misses a boundary.
MisreadsAreKnown ==
    \A k \in 1..Len(misread) :
        LET m == misread[k]
        IN  \/ m.by = "proxy" /\ (Tiny(m.rect, m.fmt) \/ m.fmt # m.rect.pf \/ Short(m.rect))
            \/ m.by = "client" /\ (Short(m.rect) \/ (m.rect.enc = "raw" /\ ~capturing
                                                       /\ BytesPerPixel(native) # 4))

=============================================================================
