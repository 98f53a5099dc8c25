---------------------------- MODULE TransferProofs ----------------------------
(***************************************************************************)
(* Theorems about what crosses the proxy: where messages end (Framing) and  *)
(* the files of uploads (Upload).                                           *)
(***************************************************************************)
EXTENDS Framing, Upload, SequenceTheorems, FiniteSetTheorems, WellFoundedInduction, TLAPS

-----------------------------------------------------------------------------
(* Message boundaries. *)

\* What the server puts on the wire: in 32 bits to a proxy; to rfb.Client in the
\* format of the server, with raw pixels as the capturer has them.
WireRect ==
    {r \in [enc : Tight \cup {"raw", "zlib", "zrle", "h264", "cursor", "desktopSize"},
            w : Widths, h : Heights, n : Nat, px : {1, 2, 4}, rows : Nat, pf : Formats] :
        /\ r.enc \in {"jpeg", "basic"} => r.n <= MaxCompactLen
        /\ r.rows <= r.h
        /\ peer = "proxy" => r.pf = "rgb32" /\ r.px = 4
        /\ peer = "client" =>
              /\ r.enc \in ClientDecodes
              /\ r.enc = "raw" /\ (capturing \/ BytesPerPixel(native) = 4) => r.px = 4
              /\ r.enc = "cursor" => r.px = BytesPerPixel(native)}

\* The numbers of a rectangle are natural.
LEMMA WireNumbers ==
    ASSUME NEW r \in WireRect
    PROVE  r.w \in Nat /\ r.h \in Nat /\ r.n \in Nat /\ r.rows \in Nat /\ r.rows <= r.h
<1>1. r.w \in Widths /\ r.h \in Heights /\ r.n \in Nat /\ r.rows \in Nat /\ r.rows <= r.h
  BY DEF WireRect
<1> QED BY <1>1, FramingAssumption

\* Readers of compact lengths (readCompactLength of proxy, browser and client) find
\* the length compactLen wrote and use as many bytes as it wrote, for every length
\* three bytes can tell.
LEMMA CompactRoundTrip ==
    ASSUME NEW n \in Nat, n <= MaxCompactLen
    PROVE  Prefixed(n) = Len(CompactLen(n)) + n
<1>1. CASE n < 128
  BY <1>1, SMT DEF Prefixed, CompactLen, CompactUsed, CompactValue
<1>2. CASE ~(n < 128) /\ n < 16384
  BY <1>2, SMT DEF Prefixed, CompactLen, CompactUsed, CompactValue
<1>3. CASE ~(n < 128) /\ ~(n < 16384)
  <2> DEFINE b == <<(n % 128) + 128, ((n \div 128) % 128) + 128, (n \div 16384) % 256>>
  <2>1. CompactLen(n) = b /\ Len(b) = 3
    BY <1>3 DEF CompactLen
  <2>2. CompactUsed(b) = 3
    BY DEF CompactUsed
  <2>3. CompactValue(b) = (n % 128) + 128 * ((n \div 128) % 128) + 16384 * ((n \div 16384) % 256)
    BY <2>2 DEF CompactValue
  <2>4. (n % 128) + 128 * ((n \div 128) % 128) + 16384 * ((n \div 16384) % 256) = n
    BY SMT DEF MaxCompactLen
  <2> QED BY <2>1, <2>2, <2>3, <2>4 DEF Prefixed
<1> QED BY <1>1, <1>2, <1>3

\* The proxy's reader (readEncodingData) finds the end of every rectangle that is
\* written in the format it reads with, has all its rows and is not a tiny Basic tile.
LEMMA ProxyAgrees ==
    ASSUME NEW r \in WireRect, NEW f \in Formats, peer = "proxy",
           r.pf = f, ~Tiny(r, f), ~Short(r)
    PROVE  ProxyReads(r, f) = Written(r)
<1>1. f = "rgb32" /\ r.px = 4 /\ TightCPixel(f) = 3 /\ BytesPerPixel(f) = 4
  BY DEF WireRect, BytesPerPixel, TightCPixel
<1>r. /\ r.enc = "raw" => r.rows = r.h
      /\ r.w \in Nat /\ r.h \in Nat /\ r.n \in Nat
      /\ r.enc \in Tight \cup {"raw", "zlib", "zrle", "h264", "cursor", "desktopSize"}
  BY WireNumbers DEF WireRect, Short
<1>2. CASE r.enc \in {"jpeg", "basic"}
  <2>1. Prefixed(r.n) = Len(CompactLen(r.n)) + r.n
    BY <1>2, CompactRoundTrip DEF WireRect
  <2> QED BY <1>1, <1>2, <2>1 DEF ProxyReads, ProxyReadsTight, ProxyReadsBasic, Tiny, Written,
                                 WrittenTight, Tight
<1>3. CASE r.enc \notin {"jpeg", "basic"}
  BY <1>1, <1>r, <1>3 DEF ProxyReads, ProxyReadsTight, Written, WrittenTight, Tight, Area
<1> QED BY <1>2, <1>3

\* The browser's parser (getEncodingDataLength) finds the end of every rectangle that
\* has all its rows.
LEMMA BrowserAgrees ==
    ASSUME NEW r \in WireRect, peer = "proxy", ~Short(r)
    PROVE  BrowserReads(r) = Written(r)
<1>r. /\ r.enc = "raw" => r.rows = r.h
      /\ r.w \in Nat /\ r.h \in Nat /\ r.n \in Nat /\ r.px = 4
      /\ r.enc \in Tight \cup {"raw", "zlib", "zrle", "h264", "cursor", "desktopSize"}
  BY WireNumbers DEF WireRect, Short
<1>1. CASE r.enc \in {"jpeg", "basic"}
  <2>1. Prefixed(r.n) = Len(CompactLen(r.n)) + r.n
    BY <1>1, CompactRoundTrip DEF WireRect
  <2> QED BY <1>1, <2>1 DEF BrowserReads, BrowserReadsTight, Written, WrittenTight, Tight
<1>2. CASE r.enc \notin {"jpeg", "basic"}
  BY <1>r, <1>2 DEF BrowserReads, BrowserReadsTight, Written, WrittenTight, Tight, Area
<1> QED BY <1>1, <1>2

\* rfb.Client finds the end of every rectangle of an encoding it asks for, unless rows
\* are missing or a blank picture has pixels of another size than four bytes.
LEMMA ClientAgrees ==
    ASSUME NEW r \in WireRect, peer = "client", ~Short(r),
           r.enc = "raw" => capturing \/ BytesPerPixel(native) = 4
    PROVE  ClientReadsRect(r) = Written(r)
<1>r. /\ r.enc = "raw" => r.rows = r.h /\ r.px = 4
      /\ r.enc = "cursor" => r.px = BytesPerPixel(native)
      /\ r.w \in Nat /\ r.h \in Nat /\ r.n \in Nat
      /\ r.enc \in ClientDecodes
  BY WireNumbers DEF WireRect, Short
<1>1. CASE r.enc \in {"jpeg", "basic"}
  <2>1. Prefixed(r.n) = Len(CompactLen(r.n)) + r.n
    BY <1>1, CompactRoundTrip DEF WireRect
  <2> QED BY <1>1, <2>1 DEF ClientReadsRect, ClientReadsTight, Written, WrittenTight, Tight
<1>2. CASE r.enc \notin {"jpeg", "basic"}
  BY <1>r, <1>2 DEF ClientReadsRect, ClientReadsTight, Written, WrittenTight, Tight, ClientDecodes, Area
<1> QED BY <1>1, <1>2

\* The format of the connection when the server writes.
WritesIn == (peer = "proxy" /\ fmt = "rgb32") \/ (peer = "client" /\ fmt = native /\ native \in Formats)

\* What the server then writes is well-formed, and only a raw picture may be short.
LEMMA PicturesOnTheWire ==
    ASSUME WritesIn
    PROVE  /\ Pseudo \subseteq WireRect
           /\ \A r \in Pseudo : ~Short(r)
           /\ capturing => Decodable \subseteq WireRect
           /\ ~capturing => BlankPictures \subseteq WireRect
<1>0. fmt \in Formats /\ BytesPerPixel(fmt) \in {1, 2, 4} /\ (peer = "proxy" => BytesPerPixel(fmt) = 4)
  BY DEF WritesIn, Formats, BytesPerPixel
<1>1. ASSUME NEW enc \in Tight \cup {"raw", "zlib", "zrle", "h264", "cursor", "desktopSize"},
             NEW t \in Tiles, NEW n \in Nat, enc \in {"jpeg", "basic"} => n <= MaxCompactLen,
             peer = "client" => enc \in ClientDecodes,
             peer = "client" /\ enc = "raw" => ~capturing
      PROVE  Rect(enc, t, n) \in WireRect
  <2>1. t[1] \in Widths /\ t[2] \in Heights /\ t[2] \in Nat
    BY FramingAssumption DEF Tiles
  <2>2. peer = "client" => fmt = native
    BY DEF WritesIn
  <2>3. peer = "proxy" => fmt = "rgb32"
    BY DEF WritesIn
  <2> HIDE DEF Formats, BytesPerPixel, ClientDecodes, Tight
  <2> QED BY <1>0, <1>1, <2>1, <2>2, <2>3 DEF Rect, WireRect
<1>2. Pseudo \subseteq WireRect /\ \A r \in Pseudo : ~Short(r)
  BY <1>1 DEF Pseudo, ClientDecodes, Short, Rect
<1>3. AnyTile \in Tiles
  <2>1. \E t \in Tiles : TRUE
    <3>1. PICK w \in Widths, h \in Heights : TRUE
      BY FramingAssumption
    <3>2. <<w, h>> \in Tiles
      BY DEF Tiles
    <3> QED BY <3>2
  <2> QED BY <2>1 DEF AnyTile
<1>4. TightPictures \subseteq WireRect
  <2> SUFFICES ASSUME NEW r \in TightPictures PROVE r \in WireRect
    OBVIOUS
  <2>1. CASE \E t \in Tiles : r = Rect("fill", t, 0)
    BY <2>1, <1>1 DEF Tight, ClientDecodes
  <2>2. CASE \E t \in Tiles, n \in TileLens : r = Rect("basic", t, n)
    BY <2>2, <1>1 DEF Tight, TileLens, ClientDecodes
  <2>3. CASE \E t \in Tiles, n \in TileLens : r = Rect("jpeg", t, n)
    BY <2>3, <1>1 DEF Tight, TileLens, ClientDecodes
  <2> QED BY <2>1, <2>2, <2>3 DEF TightPictures
<1>5. capturing => RawPictures \subseteq WireRect
  <2> SUFFICES ASSUME capturing, NEW r \in RawPictures PROVE r \in WireRect
    OBVIOUS
  <2>1. CASE fmt = native
    <3>1. PICK t \in Tiles, k \in ScreenHeights : r = RawRect(t, k)
      BY <2>1 DEF RawPictures
    <3>2. t[1] \in Widths /\ t[2] \in Heights /\ t[2] \in Nat /\ k \in Nat
      BY FramingAssumption DEF Tiles
    <3>3. PICK j \in Nat : j <= t[2] /\ j = IF k < t[2] THEN k ELSE t[2]
      BY <3>2
    <3>4. r = [enc |-> "raw", w |-> t[1], h |-> t[2], n |-> 0, px |-> 4, rows |-> j, pf |-> fmt]
      BY <3>1, <3>3 DEF Rect, RawRect
    <3>5. peer = "proxy" => fmt = "rgb32"
      BY DEF WritesIn
    <3> HIDE DEF Formats, BytesPerPixel, Tight
    <3> QED BY <1>0, <3>2, <3>3, <3>4, <3>5 DEF WireRect, ClientDecodes
  <2>2. CASE fmt # native
    <3>1. peer # "client"
      BY <2>2 DEF WritesIn
    <3> QED BY <1>1, <2>2, <3>1 DEF RawPictures
  <2> QED BY <2>1, <2>2
<1>6. peer # "client" => WholePictures \subseteq WireRect
  <2> SUFFICES ASSUME peer # "client", NEW enc \in {"zlib", "zrle", "h264"}, NEW n \in DataLens
               PROVE  Rect(enc, AnyTile, n) \in WireRect
    BY DEF WholePictures
  <2> QED BY <1>1, <1>3, FramingAssumption
<1>7. peer = "client" => {r \in WholePictures : r.enc \in ClientDecodes} \subseteq WireRect
  <2> SUFFICES ASSUME peer = "client", NEW enc \in {"zlib", "zrle", "h264"}, NEW n \in DataLens,
                      Rect(enc, AnyTile, n).enc \in ClientDecodes
               PROVE  Rect(enc, AnyTile, n) \in WireRect
    BY DEF WholePictures
  <2>1. enc \in ClientDecodes
    BY DEF Rect
  <2> QED BY <1>1, <1>3, <2>1, FramingAssumption
<1>8. capturing => Decodable \subseteq WireRect
  BY <1>4, <1>5, <1>6, <1>7 DEF Decodable, Pictures
<1>9. ~capturing => BlankPictures \subseteq WireRect
  BY <1>1 DEF BlankPictures, ClientDecodes
<1> QED BY <1>2, <1>8, <1>9

\* The inductive invariant of Framing.  Until the server has read SetPixelFormat,
\* the browser's first message, that message is the next one it will read, and
\* nothing has been written; so whatever is under way to a proxy is in 32 bits.  Only
\* the last rectangle of an update may be short.
UpMessage == {"setPixelFormat", "setEncodings", "request"}
WireMessage == {q \in Seq(WireRect) : \A k \in 1..(Len(q) - 1) : ~Short(q[k])}

FormatsOK ==
    /\ peer \in {"proxy", "client"}
    /\ {native, fmt, readerFmt} \subseteq Formats
    /\ snapshot \in Formats \cup {"none"}
    /\ peer = "client" => /\ fmt = native /\ snapshot = "none" /\ wsUp = <<>> /\ wsDown = <<>>
                          /\ \A k \in 1..Len(tcpUp) : tcpUp[k] # "setPixelFormat"

QueuesOK ==
    /\ wsUp \in Seq(UpMessage) /\ tcpUp \in Seq(UpMessage)
    /\ tcpDown \in Seq(WireMessage) /\ wsDown \in Seq(WireMessage)
    /\ pending \in 0..1 /\ written \in 0..MaxUpdates /\ encodingsKnown \in BOOLEAN

FormatComesFirst ==
    peer = "proxy" /\ fmt # "rgb32" =>
        /\ pending = 0 /\ ~encodingsKnown /\ tcpDown = <<>> /\ wsDown = <<>>
        /\ \/ tcpUp # <<>> /\ Head(tcpUp) = "setPixelFormat"
           \/ tcpUp = <<>> /\ wsUp # <<>> /\ Head(wsUp) = "setPixelFormat"

MisreadOK ==
    /\ misread = <<>> \/ \E m : misread = <<m>>
    /\ MisreadsAreKnown

FramingInv == FormatsOK /\ QueuesOK /\ FormatComesFirst /\ MisreadOK

\* A misread that is noted is one of a rectangle of the message whose end the reader
\* does not find.
LEMMA NotedIsMissed ==
    ASSUME NEW rects, NEW by, NEW f, NEW missed \in SUBSET (1..Len(rects)), missed # {}
    PROVE  \E k \in missed : Note(by, rects, missed, f) = <<[by |-> by, rect |-> rects[k], fmt |-> f]>>
  BY DEF Note

\* One misread that is known keeps MisreadOK.
LEMMA OneMisread ==
    ASSUME NEW m, misread' = <<m>>, UNCHANGED <<native, capturing>>,
           \/ m.by = "proxy" /\ (Tiny(m.rect, m.fmt) \/ m.fmt # m.rect.pf \/ Short(m.rect))
           \/ m.by = "client" /\ (Short(m.rect) \/ (m.rect.enc = "raw" /\ ~capturing
                                                      /\ BytesPerPixel(native) # 4))
    PROVE  MisreadOK'
  BY DEF MisreadOK, MisreadsAreKnown

\* While no message is misread there is no misreading to know of.
LEMMA NoMisread ==
    ASSUME misread' = <<>>
    PROVE  MisreadOK'
  BY DEF MisreadOK, MisreadsAreKnown

\* What may be on the wire is settled when the connection is.
LEMMA SameWire ==
    ASSUME UNCHANGED <<peer, native, capturing>>
    PROVE  WireMessage' = WireMessage
<1>1. WireRect' = WireRect
  BY DEF WireRect, ClientDecodes
<1> QED BY <1>1 DEF WireMessage, Short

\* Initially a proxy's browser is about to send SetPixelFormat.
LEMMA FramingInitInv == FramingInit => FramingInv
<1> SUFFICES ASSUME FramingInit PROVE FramingInv
  OBVIOUS
<1>1. FormatsOK
  BY FramingAssumption DEF FramingInit, FormatsOK
<1>2. QueuesOK
  <2>1. <<"setPixelFormat", "setEncodings", "request">> \in Seq(UpMessage) /\ <<"setEncodings", "request">> \in Seq(UpMessage)
    BY DEF UpMessage
  <2>2. <<>> \in Seq(UpMessage) /\ <<>> \in Seq(WireMessage)
    OBVIOUS
  <2>3. 0 \in 0..MaxUpdates
    BY FramingAssumption
  <2>4. wsUp \in Seq(UpMessage) /\ tcpUp \in Seq(UpMessage)
    BY <2>1, <2>2 DEF FramingInit
  <2>5. tcpDown \in Seq(WireMessage) /\ wsDown \in Seq(WireMessage)
    BY <2>2 DEF FramingInit
  <2>6. pending \in 0..1 /\ written \in 0..MaxUpdates
    BY <2>3 DEF FramingInit
  <2>7. encodingsKnown \in BOOLEAN
    BY DEF FramingInit
  <2> QED BY <2>4, <2>5, <2>6, <2>7 DEF QueuesOK
<1>3. FormatComesFirst
  BY DEF FramingInit, FormatComesFirst
<1>4. MisreadOK
  BY DEF FramingInit, MisreadOK, MisreadsAreKnown
<1> QED BY <1>1, <1>2, <1>3, <1>4 DEF FramingInv

LEMMA RelayUpInv == FramingInv /\ RelayUp => FramingInv'
<1> SUFFICES ASSUME FramingInv, RelayUp PROVE FramingInv'
  OBVIOUS
<1> USE DEF FramingInv
<1>0. wsUp \in Seq(UpMessage) /\ tcpUp \in Seq(UpMessage) /\ wsUp # <<>>
  BY DEF RelayUp, QueuesOK
<1>q. WireMessage' = WireMessage
  BY SameWire DEF RelayUp
<1>1. FormatsOK'
  BY <1>0 DEF RelayUp, FormatsOK, Formats
<1>2. QueuesOK'
  <2>1. Head(wsUp) \in UpMessage /\ Tail(wsUp) \in Seq(UpMessage)
    BY <1>0
  <2>2. wsUp' \in Seq(UpMessage) /\ tcpUp' \in Seq(UpMessage)
    BY <1>0, <2>1 DEF RelayUp
  <2> QED BY <1>q, <2>2 DEF RelayUp, QueuesOK
<1>3. FormatComesFirst'
  <2> SUFFICES ASSUME peer = "proxy", fmt # "rgb32"
               PROVE  FormatComesFirst'
    BY DEF RelayUp, FormatComesFirst
  <2>1. CASE tcpUp # <<>> /\ Head(tcpUp) = "setPixelFormat"
    <3>1. tcpUp' # <<>> /\ Head(tcpUp') = Head(tcpUp)
      BY <1>0, <2>1 DEF RelayUp
    <3> QED BY <2>1, <3>1 DEF RelayUp, FormatComesFirst
  <2>2. CASE tcpUp = <<>> /\ Head(wsUp) = "setPixelFormat"
    <3>1. tcpUp' # <<>> /\ Head(tcpUp') = Head(wsUp)
      BY <1>0, <2>2 DEF RelayUp
    <3> QED BY <2>2, <3>1 DEF RelayUp, FormatComesFirst
  <2> QED BY <2>1, <2>2 DEF FormatComesFirst
<1>4. MisreadOK'
  BY DEF RelayUp, MisreadOK, MisreadsAreKnown
<1> QED BY <1>1, <1>2, <1>3, <1>4

LEMMA ServerReadsInv == FramingInv /\ ServerReads => FramingInv'
<1> SUFFICES ASSUME FramingInv, ServerReads PROVE FramingInv'
  OBVIOUS
<1> USE DEF FramingInv
<1>q. WireMessage' = WireMessage
  BY SameWire DEF ServerReads
<1>1. FormatsOK'
  <2>1. CASE peer = "client"
    <3>1. tcpUp \in Seq(UpMessage) /\ tcpUp # <<>> /\ tcpUp' = Tail(tcpUp)
      BY DEF ServerReads, QueuesOK
    <3>2. \A k \in 1..Len(tcpUp) : tcpUp[k] # "setPixelFormat"
      BY <2>1 DEF FormatsOK
    <3>3. Head(tcpUp) # "setPixelFormat"
      BY <3>1, <3>2
    <3>4. \A k \in 1..Len(tcpUp') : tcpUp'[k] # "setPixelFormat"
      BY <3>1, <3>2
    <3> QED BY <2>1, <3>3, <3>4 DEF ServerReads, FormatsOK
  <2>2. CASE peer = "proxy"
    BY <2>2 DEF ServerReads, FormatsOK, Formats
  <2> QED BY <2>1, <2>2 DEF FormatsOK
<1>2. QueuesOK'
  <2>1. tcpUp' \in Seq(UpMessage)
    BY DEF ServerReads, QueuesOK
  <2>2. encodingsKnown' \in BOOLEAN /\ pending' \in 0..1
    BY DEF ServerReads, QueuesOK
  <2> QED BY <1>q, <2>1, <2>2 DEF ServerReads, QueuesOK
<1>3. FormatComesFirst'
  BY DEF ServerReads, FormatComesFirst, FormatsOK
<1>4. MisreadOK'
  BY DEF ServerReads, MisreadOK, MisreadsAreKnown
<1> QED BY <1>1, <1>2, <1>3, <1>4

\* A message the server sends joins the queue.
LEMMA SendsInv ==
    ASSUME FramingInv, NEW q \in WireMessage, Sends(q), WritesIn, pending' \in 0..1,
           UNCHANGED <<peer, native, capturing, fmt, encodingsKnown, readerFmt, snapshot, wsUp, tcpUp, wsDown, misread>>
    PROVE  FramingInv'
<1> USE DEF FramingInv
<1>q. WireMessage' = WireMessage
  BY SameWire
<1>1. FormatsOK'
  BY DEF FormatsOK
<1>2. QueuesOK'
  <2>1. written' \in 0..MaxUpdates
    BY FramingAssumption DEF Sends, QueuesOK
  <2>2. tcpDown' \in Seq(WireMessage)
    BY DEF Sends, QueuesOK
  <2> QED BY <1>q, <2>1, <2>2 DEF QueuesOK
<1>3. FormatComesFirst'
  BY DEF FormatComesFirst, WritesIn
<1>4. MisreadOK'
  BY DEF MisreadOK, MisreadsAreKnown
<1> QED BY <1>1, <1>2, <1>3, <1>4

LEMMA SendUpdateInv == FramingInv /\ SendUpdate => FramingInv'
<1> SUFFICES ASSUME FramingInv, SendUpdate PROVE FramingInv'
  OBVIOUS
<1>1. WritesIn
  BY DEF FramingInv, QueuesOK, FormatComesFirst, FormatsOK, WritesIn, SendUpdate
<1>6. pending' \in 0..1 /\ UNCHANGED <<peer, native, capturing, fmt, encodingsKnown, readerFmt, snapshot, wsUp, tcpUp,
                                       wsDown, misread>>
  BY DEF SendUpdate
<1>7. CASE capturing
  <2>1. PICK p \in Pseudo, r \in Decodable : Sends(<<r>>) \/ Sends(<<p, r>>) \/ Sends(<<p>>) \/ Sends(<<>>)
    BY <1>7 DEF SendUpdate
  <2>2. p \in WireRect /\ ~Short(p) /\ r \in WireRect
    BY <1>1, <1>7, PicturesOnTheWire
  <2>3. <<r>> \in WireMessage /\ <<p>> \in WireMessage /\ <<>> \in WireMessage
    BY <2>2 DEF WireMessage
  <2>4. <<p, r>> \in WireMessage
    BY <2>2 DEF WireMessage
  <2> QED BY <1>1, <1>6, <2>1, <2>3, <2>4, SendsInv
<1>8. CASE ~capturing
  <2>1. PICK r \in BlankPictures : Sends(<<r>>)
    BY <1>8 DEF SendUpdate
  <2>2. <<r>> \in WireMessage
    BY <1>1, <1>8, PicturesOnTheWire DEF WireMessage
  <2> QED BY <1>1, <1>6, <2>1, <2>2, SendsInv
<1> QED BY <1>7, <1>8

LEMMA PushInv == FramingInv /\ Push => FramingInv'
<1> SUFFICES ASSUME FramingInv, Push PROVE FramingInv'
  OBVIOUS
<1>1. WritesIn
  BY DEF FramingInv, FormatComesFirst, FormatsOK, WritesIn, Push
<1>2. PICK p \in Pseudo : Sends(<<p>>)
  BY DEF Push
<1>3. p \in WireRect
  BY <1>1, PicturesOnTheWire
<1>4. <<p>> \in WireMessage
  BY <1>3 DEF WireMessage
<1>5. pending' \in 0..1 /\ UNCHANGED <<peer, native, capturing, fmt, encodingsKnown, readerFmt, snapshot, wsUp, tcpUp,
                                       wsDown, misread>>
  BY DEF Push, FramingInv, QueuesOK
<1> QED BY <1>1, <1>2, <1>4, <1>5, SendsInv

LEMMA StartReadInv == FramingInv /\ StartRead => FramingInv'
<1> SUFFICES ASSUME FramingInv, StartRead PROVE FramingInv'
  OBVIOUS
<1> USE DEF FramingInv
<1>q. WireMessage' = WireMessage
  BY SameWire DEF StartRead
<1>1. FormatsOK'
  BY DEF StartRead, FormatsOK
<1>2. QueuesOK'
  BY <1>q DEF StartRead, QueuesOK
<1>3. FormatComesFirst'
  BY DEF StartRead, FormatComesFirst
<1>4. MisreadOK'
  BY DEF StartRead, MisreadOK, MisreadsAreKnown
<1> QED BY <1>1, <1>2, <1>3, <1>4

\* The head of a queue of messages is a sequence of well-formed rectangles.
LEMMA HeadMessage ==
    ASSUME NEW q \in Seq(WireMessage), q # <<>>
    PROVE  /\ Head(q) \in Seq(WireRect) /\ Head(q) \in WireMessage
           /\ \A k \in 1..Len(Head(q)) : Head(q)[k] \in WireRect
           /\ \A k \in 1..(Len(Head(q)) - 1) : ~Short(Head(q)[k])
           /\ Tail(q) \in Seq(WireMessage)
<1>1. Head(q) \in WireMessage /\ Tail(q) \in Seq(WireMessage)
  OBVIOUS
<1> QED BY <1>1 DEF WireMessage

LEMMA FinishReadInv == FramingInv /\ FinishRead => FramingInv'
<1> SUFFICES ASSUME FramingInv, FinishRead PROVE FramingInv'
  OBVIOUS
<1> USE DEF FramingInv
<1> DEFINE msg == Head(tcpDown)
           Reads(r) == ProxyReads(r, snapshot)
           missed == Missed(msg, Reads)
<1>q. WireMessage' = WireMessage
  BY SameWire DEF FinishRead
<1>0. snapshot \in Formats /\ peer = "proxy"
  BY DEF FinishRead, FormatsOK
<1>h. /\ msg \in WireMessage
      /\ \A k \in 1..Len(msg) : msg[k] \in WireRect
      /\ Tail(tcpDown) \in Seq(WireMessage)
  BY HeadMessage DEF FinishRead, QueuesOK
<1>m. /\ misread' = Note("proxy", msg, missed, snapshot)
      /\ wsDown' = IF missed = {} THEN Append(wsDown, msg) ELSE wsDown
  BY DEF FinishRead
<1>1. FormatsOK'
  BY <1>0 DEF FinishRead, FormatsOK
<1>2. QueuesOK'
  <2>1. wsDown' \in Seq(WireMessage)
    <3>1. wsDown \in Seq(WireMessage)
      BY DEF QueuesOK
    <3>2. wsDown' = wsDown \/ wsDown' = Append(wsDown, msg)
      BY <1>m
    <3> HIDE DEF msg
    <3> QED BY <1>h, <3>1, <3>2
  <2>2. tcpDown' \in Seq(WireMessage)
    BY <1>h DEF FinishRead
  <2> QED BY <1>q, <2>1, <2>2 DEF FinishRead, QueuesOK
<1>3. FormatComesFirst'
  BY DEF FinishRead, FormatComesFirst
<1>4. MisreadOK'
  <2>1. CASE missed = {}
    <3>1. misread' = <<>>
      BY <1>m, <2>1 DEF Note
    <3> QED BY <3>1, NoMisread
  <2>2. CASE missed # {}
    <3>1. \A k \in missed : k \in 1..Len(msg) /\ ProxyReads(msg[k], snapshot) # Written(msg[k])
      BY DEF Missed
    <3>2. PICK k \in missed : misread' = <<[by |-> "proxy", rect |-> msg[k], fmt |-> snapshot]>>
      BY <1>m, <2>2, <3>1, NotedIsMissed
    <3>3. Tiny(msg[k], snapshot) \/ snapshot # msg[k].pf \/ Short(msg[k])
      BY <1>0, <1>h, <3>1, ProxyAgrees
    <3> DEFINE m == [by |-> "proxy", rect |-> msg[k], fmt |-> snapshot]
    <3>4. m.by = "proxy" /\ m.rect = msg[k] /\ m.fmt = snapshot /\ misread' = <<m>>
      BY <3>2
    <3>5. UNCHANGED <<native, capturing>>
      BY DEF FinishRead
    <3> HIDE DEF m, msg
    <3> QED BY <3>3, <3>4, <3>5, OneMisread
  <2> QED BY <2>1, <2>2
<1> QED BY <1>1, <1>2, <1>3, <1>4

LEMMA BrowserParsesInv == FramingInv /\ BrowserParses => FramingInv'
<1> SUFFICES ASSUME FramingInv, BrowserParses PROVE FramingInv'
  OBVIOUS
<1> USE DEF FramingInv
<1> DEFINE msg == Head(wsDown)
           rects == SubSeq(msg, 1, Len(msg) - 1)
           missed == Missed(rects, BrowserReads)
<1>q. WireMessage' = WireMessage
  BY SameWire DEF BrowserParses
<1>h. /\ msg \in Seq(WireRect) /\ Tail(wsDown) \in Seq(WireMessage)
      /\ \A k \in 1..(Len(msg) - 1) : ~Short(msg[k])
  BY HeadMessage DEF BrowserParses, QueuesOK
<1>p. peer = "proxy"
  BY DEF BrowserParses, FormatsOK
<1>1. FormatsOK'
  BY <1>p DEF BrowserParses, FormatsOK
<1>2. QueuesOK'
  <2>1. wsUp' \in Seq(UpMessage)
    <3>1. wsUp \in Seq(UpMessage) /\ "request" \in UpMessage /\ wsUp' = Append(wsUp, "request")
      BY DEF BrowserParses, QueuesOK, UpMessage
    <3> QED BY <3>1
  <2>2. wsDown' \in Seq(WireMessage)
    BY <1>h DEF BrowserParses
  <2> QED BY <1>q, <2>1, <2>2 DEF BrowserParses, QueuesOK
<1>3. FormatComesFirst'
  BY DEF BrowserParses, FormatComesFirst
<1>4. MisreadOK'
  <2>1. rects \in Seq(WireRect)
    <3> HIDE DEF msg
    <3> QED BY <1>h
  <2>2. missed = {}
    <3>1. \A k \in 1..Len(rects) : rects[k] \in WireRect
      <4> HIDE DEF rects
      <4> QED BY <2>1
    <3>s. \A k \in 1..Len(rects) : ~Short(rects[k])
      <4>1. Len(rects) = Len(msg) - 1 \/ Len(rects) = 0
        <5> HIDE DEF msg
        <5> QED BY <1>h
      <4>2. \A k \in 1..Len(rects) : rects[k] = msg[k]
        <5> HIDE DEF msg
        <5> QED BY <1>h
      <4> HIDE DEF rects, msg
      <4> QED BY <1>h, <4>1, <4>2
    <3>2. \A k \in 1..Len(rects) : BrowserReads(rects[k]) = Written(rects[k])
      <4> HIDE DEF rects
      <4> QED BY <1>p, <3>1, <3>s, BrowserAgrees
    <3> QED BY <3>2 DEF Missed
  <2>3. misread' = Note("browser", rects, missed, fmt)
    BY DEF BrowserParses
  <2>4. misread' = <<>>
    BY <2>2, <2>3 DEF Note
  <2> QED BY <2>4, NoMisread
<1> QED BY <1>1, <1>2, <1>3, <1>4

LEMMA ClientReadsMessageInv == FramingInv /\ ClientReadsMessage => FramingInv'
<1> SUFFICES ASSUME FramingInv, ClientReadsMessage PROVE FramingInv'
  OBVIOUS
<1> USE DEF FramingInv
<1> DEFINE msg == Head(tcpDown)
           missed == Missed(msg, ClientReadsRect)
<1>q. WireMessage' = WireMessage
  BY SameWire DEF ClientReadsMessage
<1>0. peer = "client"
  BY DEF ClientReadsMessage
<1>h. /\ \A k \in 1..Len(msg) : msg[k] \in WireRect
      /\ Tail(tcpDown) \in Seq(WireMessage)
  BY HeadMessage DEF ClientReadsMessage, QueuesOK
<1>t. tcpUp \in Seq(UpMessage) /\ "request" \in UpMessage /\ tcpUp' = Append(tcpUp, "request")
  BY DEF ClientReadsMessage, QueuesOK, UpMessage
<1>1. FormatsOK'
  <2>1. \A k \in 1..Len(tcpUp) : tcpUp[k] # "setPixelFormat"
    BY <1>0 DEF FormatsOK
  <2>2. \A k \in 1..Len(tcpUp') : tcpUp'[k] # "setPixelFormat"
    BY <1>t, <2>1
  <2> QED BY <2>2 DEF ClientReadsMessage, FormatsOK
<1>2. QueuesOK'
  <2>1. tcpUp' \in Seq(UpMessage)
    BY <1>t
  <2>2. tcpDown' \in Seq(WireMessage)
    BY <1>h DEF ClientReadsMessage
  <2> QED BY <1>q, <2>1, <2>2 DEF ClientReadsMessage, QueuesOK
<1>3. FormatComesFirst'
  BY <1>0 DEF ClientReadsMessage, FormatComesFirst
<1>4. MisreadOK'
  <2>1. misread' = Note("client", msg, missed, native)
    BY DEF ClientReadsMessage
  <2>2. CASE missed = {}
    <3>1. misread' = <<>>
      BY <2>1, <2>2 DEF Note
    <3> QED BY <3>1, NoMisread
  <2>3. CASE missed # {}
    <3>1. \A k \in missed : k \in 1..Len(msg) /\ ClientReadsRect(msg[k]) # Written(msg[k])
      BY DEF Missed
    <3>2. PICK k \in missed : misread' = <<[by |-> "client", rect |-> msg[k], fmt |-> native]>>
      BY <2>1, <2>3, <3>1, NotedIsMissed
    <3>3. Short(msg[k]) \/ (msg[k].enc = "raw" /\ ~capturing /\ BytesPerPixel(native) # 4)
      BY <1>0, <1>h, <3>1, ClientAgrees
    <3> DEFINE m == [by |-> "client", rect |-> msg[k], fmt |-> native]
    <3>4. m.by = "client" /\ m.rect = msg[k] /\ misread' = <<m>>
      BY <3>2
    <3>5. UNCHANGED <<native, capturing>>
      BY DEF ClientReadsMessage
    <3> HIDE DEF m, msg
    <3> QED BY <3>3, <3>4, <3>5, OneMisread
  <2> QED BY <2>2, <2>3
<1> QED BY <1>1, <1>2, <1>3, <1>4

\* Every step of the three parties keeps the invariant.
LEMMA FramingStep == FramingInv /\ [FramingNext]_framingVars => FramingInv'
<1> SUFFICES ASSUME FramingInv, [FramingNext]_framingVars PROVE FramingInv'
  OBVIOUS
<1>1. CASE FramingNext
  BY <1>1, RelayUpInv, ServerReadsInv, SendUpdateInv, PushInv, StartReadInv, FinishReadInv,
     BrowserParsesInv, ClientReadsMessageInv DEF FramingNext
<1>2. CASE UNCHANGED framingVars
  <2>1. WireMessage' = WireMessage
    BY <1>2, SameWire DEF framingVars
  <2> QED BY <1>2, <2>1 DEF framingVars, FramingInv, FormatsOK, QueuesOK, FormatComesFirst, MisreadOK,
                            MisreadsAreKnown
<1> QED BY <1>1, <1>2

\* FramingInv is an invariant of Framing.
THEOREM BoundariesInv == FramingSpec => []FramingInv
<1>1. FramingInit => FramingInv
  BY FramingInitInv
<1> QED BY <1>1, FramingStep, PTL DEF FramingSpec

\* The invariant of the message boundaries holds their types.
LEMMA FramingMeansTypes == FramingInv => FramingTypeOK
<1> SUFFICES ASSUME FramingInv PROVE FramingTypeOK
  OBVIOUS
<1>1. Len(misread) <= 1
  <2>1. misread = <<>> \/ \E m : misread = <<m>>
    BY DEF FramingInv, MisreadOK
  <2>2. CASE misread = <<>>
    BY <2>2
  <2>3. CASE \E m : misread = <<m>>
    <3>1. PICK m : misread = <<m>>
      BY <2>3
    <3> QED BY <3>1
  <2> QED BY <2>1, <2>2, <2>3
<1> QED BY <1>1 DEF FramingInv, FormatsOK, QueuesOK, FramingTypeOK

\* The formats, counters and the record of misreads keep their types.
THEOREM FramingTypeCorrect == FramingSpec => []FramingTypeOK
  BY FramingMeansTypes, BoundariesInv, PTL

\* A misread message is one of the known kinds.
LEMMA FramingMeansKnown == FramingInv => MisreadsAreKnown
  BY DEF FramingInv, MisreadOK

\* Whatever the tiles, the lengths of data, the screens and the formats: the only
\* rectangles whose end is missed are those the proxy's readTightBasic takes for
\* unprefixed, those it frames with the format it read before SetPixelFormat arrived,
\* raw pictures with missing rows, and blank pictures rfb.Client reads in four bytes.
THEOREM BoundariesKnown == FramingSpec => []MisreadsAreKnown
  BY FramingMeansKnown, BoundariesInv, PTL

-----------------------------------------------------------------------------
(* Uploads: types. *)

UpMsg ==
    {m \in [type : {"begin", "chunk", "end", "cancel"}, id : UploadId, arg : Nat, from : Upload] :
        (m.type = "begin" => m.arg \in Sizes) /\ (m.type = "chunk" => m.arg # 0)}
DownMsg == [id : UploadId, ok : BOOLEAN, written : Nat]
Beginning == [id : UploadId, size : Sizes \cap 0..MaxUploadSize, name : Names]

LinkTypes ==
    /\ mishaps \in 0..MaxMishaps
    /\ current \in [Browser -> 1..MaxConnects] /\ retries \in [Browser -> Nat]
    /\ sock \in [UpSession -> {"none", "open", "closed", "over"}]

BrowserTypes ==
    /\ sizeOf \in [Upload -> Sizes \cup {0}]
    /\ stage \in [Upload -> {"idle", "reading", "sent", "unreadable"}]
    /\ promise \in [Upload -> {"none", "pending", "success", "failed"}]
    /\ begun \subseteq Upload

UpTypes == uplink \in [UpSession -> Seq(UpMsg)]
DownTypes == downlink \in [UpSession -> Seq(DownMsg)]

ProxyTypes ==
    /\ beginning \in [UpSession -> Seq(Beginning)]
    /\ DOMAIN uploads = UpSession
    /\ \A s \in UpSession :
          /\ DOMAIN uploads[s] \subseteq UploadId
          /\ \A id \in DOMAIN uploads[s] :
                uploads[s][id] \in UploadState /\ uploads[s][id].size <= MaxUploadSize
          /\ Cardinality(DOMAIN uploads[s]) <= MaxConcurrent
          /\ beginning[s] # <<>> => Cardinality(DOMAIN uploads[s]) < MaxConcurrent

DirTypes ==
    /\ DOMAIN dir \subseteq Names /\ left \subseteq Names
    /\ \A n \in DOMAIN dir : dir[n] \in Upload
    /\ disk \in [Upload -> Contents]

UploadTypes == LinkTypes /\ BrowserTypes /\ UpTypes /\ DownTypes /\ ProxyTypes /\ DirTypes

-----------------------------------------------------------------------------
(* Uploads: what the directory holds. *)

\* The inode that upload id of session s would create does not exist yet.
Unborn(s, id) ==
    /\ id \notin DOMAIN uploads[s]
    /\ \A n \in DOMAIN dir : dir[n] # <<s, id>>
    /\ \A t \in UpSession : \A j \in DOMAIN uploads[t] : uploads[t][j].inode # <<s, id>>

\* Every id begins once: before it does, its inode does not exist.
IdleAt(s) ==
    \A id \in UploadId : stage[<<s, id>>] = "idle" =>
        /\ Unborn(s, id)
        /\ \A i \in 1..Len(uplink[s]) : uplink[s][i].type = "begin" => uplink[s][i].id # id
        /\ beginning[s] # <<>> => Head(beginning[s]).id # id
QueuedAt(s) ==
    \A i \in 1..Len(uplink[s]) : uplink[s][i].type = "begin" =>
        /\ Unborn(s, uplink[s][i].id)
        /\ beginning[s] # <<>> => Head(beginning[s]).id # uplink[s][i].id
        /\ \A j \in 1..Len(uplink[s]) :
              uplink[s][j].type = "begin" /\ uplink[s][j].id = uplink[s][i].id => j = i
BeginningAt(s) == beginning[s] # <<>> => Unborn(s, Head(beginning[s]).id)

BeginsOnce == \A s \in UpSession : IdleAt(s) /\ QueuedAt(s) /\ BeginningAt(s)

\* An inode has one name, and a handle to it was opened under that name.
OneName ==
    /\ \A n, k \in DOMAIN dir : dir[n] = dir[k] => n = k
    /\ \A s \in UpSession : \A id \in DOMAIN uploads[s] : \A n \in DOMAIN dir :
          dir[n] = uploads[s][id].inode => n = uploads[s][id].name

\* Only what was sent ends, over whichever connection.
EndIsSent ==
    \A s \in UpSession : \A i \in 1..Len(uplink[s]) :
        uplink[s][i].type = "end" => stage[uplink[s][i].from] = "sent"

DirInv == UploadTypes /\ BeginsOnce /\ OneName /\ EndIsSent /\ NoDebris

-----------------------------------------------------------------------------
(* Facts about queues, maps and files. *)

\* The rest of a queue is its elements but the first, each one place further on.
LEMMA RestOfQueue ==
    ASSUME NEW S, NEW q \in Seq(S), q # <<>>
    PROVE  /\ Tail(q) \in Seq(S) /\ Len(q) \in Nat /\ Len(Tail(q)) = Len(q) - 1
           /\ 1 \in 1..Len(q) /\ Head(q) = q[1] /\ Head(q) \in S
           /\ \A i \in 1..Len(Tail(q)) : i + 1 \in 1..Len(q) /\ Tail(q)[i] = q[i + 1]
           /\ \A i \in 1..Len(q) : i = 1 \/ (i - 1 \in 1..Len(Tail(q)) /\ q[i] = Tail(q)[i - 1])
  OBVIOUS

\* Every element of two queues in a row is an element of one of them.
LEMMA QueuesInARow ==
    ASSUME NEW S, NEW q \in Seq(S), NEW r \in Seq(S)
    PROVE  /\ q \o r \in Seq(S) /\ Len(q) \in Nat /\ Len(r) \in Nat /\ Len(q \o r) = Len(q) + Len(r)
           /\ \A i \in 1..Len(q) : i \in 1..Len(q \o r) /\ (q \o r)[i] = q[i]
           /\ \A i \in 1..Len(q \o r) : i \in 1..Len(q)
                 \/ (i - Len(q) \in 1..Len(r) /\ (q \o r)[i] = r[i - Len(q)])
  OBVIOUS

\* A file may be empty.
LEMMA EmptyContents == <<>> \in Contents
<1>1. <<>> \in [1..0 -> Upload \cup {Hole}] /\ 0 \in 0..MaxUploadSize
  BY UploadAssumption
<1> QED BY <1>1 DEF Contents

\* What a write leaves behind fits the limit that the size was checked against.
LEMMA WriteFits ==
    ASSUME NEW f \in Contents, NEW n \in 1..MaxUploadSize, NEW u \in Upload
    PROVE  WriteAt(f, n, u) \in Contents
<1>1. PICK k \in 0..MaxUploadSize : f \in [1..k -> Upload \cup {Hole}]
  BY DEF Contents
<1>2. Len(f) = k /\ k \in Nat /\ MaxUploadSize \in Nat
  BY <1>1, UploadAssumption
<1> DEFINE l == IF n > k THEN n ELSE k
<1>3. WriteAt(f, n, u) \in [1..l -> Upload \cup {Hole}] /\ l \in 0..MaxUploadSize
  BY <1>1, <1>2 DEF WriteAt
<1> QED BY <1>3 DEF Contents

\* Sets of ids are finite.
LEMMA IdsAreFinite ==
    ASSUME NEW D \in SUBSET UploadId
    PROVE  IsFiniteSet(D) /\ Cardinality(D) \in Nat
<1>1. IsFiniteSet(UploadId)
  BY FS_Interval, UploadAssumption DEF UploadId
<1> QED BY <1>1, FS_Subset, FS_CardinalityType

-----------------------------------------------------------------------------
(* Effects on the links. *)

\* Taking a message keeps the type of the link to the proxy.
LEMMA ConsumeUp ==
    ASSUME UpTypes, NEW s \in UpSession, uplink[s] # <<>>, Consume(s)
    PROVE  UpTypes'
<1>1. Tail(uplink[s]) \in Seq(UpMsg)
  BY DEF UpTypes
<1> QED BY <1>1 DEF UpTypes, Consume

\* So does sending.
LEMMA SendUp ==
    ASSUME UpTypes, NEW s \in UpSession, NEW msgs \in Seq(UpMsg), Send(s, msgs)
    PROVE  UpTypes'
<1>1. uplink[s] \in Seq(UpMsg) /\ uplink[s] \o msgs \in Seq(UpMsg)
  BY DEF UpTypes
<1> QED BY <1>1 DEF UpTypes, Send

\* A status keeps the type of the link to the browser.
LEMMA AnswerDown ==
    ASSUME DownTypes, NEW s \in UpSession, NEW m \in DownMsg, Answer(s, m)
    PROVE  DownTypes'
<1>1. downlink[s] \in Seq(DownMsg)
  BY DEF DownTypes
<1>2. Append(downlink[s], m) \in Seq(DownMsg)
  BY <1>1
<1> QED BY <1>1, <1>2 DEF DownTypes, Answer

\* A status is a message to the browser.
LEMMA StatusType ==
    ASSUME NEW id \in UploadId, NEW ok \in BOOLEAN, NEW n \in Nat
    PROVE  Status(id, ok, n) \in DownMsg
  BY DEF Status, DownMsg

\* The connection a browser has now.
LEMMA CurrentSession ==
    ASSUME LinkTypes, NEW s \in UpSession
    PROVE  Current(s) \in UpSession
  BY DEF LinkTypes, UpSession, Current

\* Mishaps are counted up to their bound.
LEMMA MishapType ==
    ASSUME LinkTypes, Mishap \/ UNCHANGED mishaps
    PROVE  mishaps' \in 0..MaxMishaps
  BY UploadAssumption DEF LinkTypes, Mishap

\* A step that leaves the connections alone.
LEMMA SameLinks ==
    ASSUME LinkTypes, Mishap \/ UNCHANGED mishaps, UNCHANGED linkVars
    PROVE  LinkTypes'
  BY MishapType DEF LinkTypes, linkVars

\* A step of the proxy that leaves the browser alone.
LEMMA SameBrowser ==
    ASSUME BrowserTypes, UNCHANGED browserVars
    PROVE  BrowserTypes'
  BY DEF BrowserTypes, browserVars

-----------------------------------------------------------------------------
(* Every step keeps the types. *)

\* <<s, id>> names an upload.
LEMMA InUpload ==
    ASSUME NEW s \in UpSession, NEW id \in UploadId
    PROVE  <<s, id>> \in Upload
  BY DEF Upload

\* The lemmas that end in Types: initially, and in every step, the types hold.
LEMMA UploadInitTypes == UploadInit => UploadTypes
<1> SUFFICES ASSUME UploadInit PROVE UploadTypes
  OBVIOUS
<1>0. LinkTypes
  BY UploadAssumption DEF UploadInit, LinkTypes
<1>1. BrowserTypes
  BY DEF UploadInit, BrowserTypes
<1>2. UpTypes /\ DownTypes
  BY DEF UploadInit, UpTypes, DownTypes
<1>3. ProxyTypes
  <2>1. \A s \in UpSession : DOMAIN uploads[s] = {} /\ beginning[s] = <<>>
    BY DEF UploadInit
  <2>2. Cardinality({}) = 0
    BY FS_EmptySet
  <2>3. beginning \in [UpSession -> Seq(Beginning)] /\ DOMAIN uploads = UpSession
    BY DEF UploadInit
  <2>4. \A s \in UpSession : Cardinality(DOMAIN uploads[s]) <= MaxConcurrent
    <3>1. Cardinality({}) <= MaxConcurrent
      BY <2>2, UploadAssumption
    <3> QED BY <2>1, <3>1
  <2> QED BY <2>1, <2>3, <2>4 DEF ProxyTypes
<1>4. DirTypes
  BY EmptyContents DEF UploadInit, DirTypes
<1> QED BY <1>0, <1>1, <1>2, <1>3, <1>4 DEF UploadTypes

LEMMA UploadFileTypes ==
    ASSUME UploadTypes, NEW s \in UpSession, NEW id \in UploadId, UploadFile(s, id)
    PROVE  UploadTypes'
<1> USE DEF UploadTypes
<1>0. <<s, id>> \in Upload
  BY InUpload
<1>1. PICK n \in Sizes : /\ sizeOf' = [sizeOf EXCEPT ![<<s, id>>] = n]
                         /\ Send(s, <<Msg("begin", id, n, <<s, id>>)>>)
  BY DEF UploadFile
<1>2. BrowserTypes'
  BY <1>0, <1>1 DEF UploadFile, BrowserTypes
<1>l. LinkTypes'
  BY SameLinks DEF UploadFile
<1>3. UpTypes'
  <2> DEFINE m == Msg("begin", id, n, <<s, id>>)
  <2>1. m \in UpMsg /\ m.arg = n
    BY <1>0, UploadAssumption DEF Msg, UpMsg
  <2> HIDE DEF m
  <2>2. <<m>> \in Seq(UpMsg)
    BY <2>1
  <2>3. Send(s, <<m>>)
    BY <1>1 DEF m
  <2> QED BY <2>1, <2>2, <2>3, SendUp
<1>4. DownTypes' /\ ProxyTypes' /\ DirTypes'
  BY DEF UploadFile, proxyVars, DownTypes, ProxyTypes, DirTypes
<1> QED BY <1>l, <1>2, <1>3, <1>4

\* Sizes are numbers.
LEMMA SizeIsNat ==
    ASSUME BrowserTypes
    PROVE  \A u \in Upload : sizeOf[u] \in Nat
<1>1. \A u \in Upload : sizeOf[u] \in Sizes \cup {0}
  BY DEF BrowserTypes
<1>2. Sizes \cup {0} \subseteq Nat
  <2>1. Sizes \subseteq Nat
    BY UploadAssumption
  <2> QED BY <2>1
<1> QED BY <1>1, <1>2

\* The messages SendFile puts on the link: the chunks in their order, then the end.
FileMsgs(s, id) ==
    [n \in 1..sizeOf[<<s, id>>] |-> Msg("chunk", id, n, <<s, id>>)] \o <<Msg("end", id, 0, <<s, id>>)>>

\* What is sent of a file: its chunks in order, then the end.
LEMMA FileMsgsFacts ==
    ASSUME BrowserTypes, NEW s \in UpSession, NEW id \in UploadId
    PROVE  LET q == FileMsgs(s, id)  n == sizeOf[<<s, id>>]
           IN  /\ n \in Nat /\ q \in Seq(UpMsg) /\ Len(q) = n + 1
               /\ \A i \in 1..n : q[i].type = "chunk" /\ q[i].from = <<s, id>>
               /\ q[n + 1].type = "end" /\ q[n + 1].from = <<s, id>>
               /\ \A i \in 1..Len(q) : i \in 1..n \/ i = n + 1
<1> DEFINE n == sizeOf[<<s, id>>]
           c == [k \in 1..n |-> Msg("chunk", id, k, <<s, id>>)]
           e == Msg("end", id, 0, <<s, id>>)
<1>1. n \in Nat
  <2>1. <<s, id>> \in Upload
    BY InUpload
  <2>2. \A u \in Upload : sizeOf[u] \in Nat
    BY SizeIsNat
  <2> QED BY <2>1, <2>2
<1>2. e \in UpMsg /\ \A k \in 1..n : Msg("chunk", id, k, <<s, id>>) \in UpMsg
  BY <1>1, InUpload DEF Msg, UpMsg
<1> HIDE DEF n
<1>3. c \in Seq(UpMsg) /\ Len(c) = n /\ \A k \in 1..n : c[k] = Msg("chunk", id, k, <<s, id>>)
  BY <1>1, <1>2
<1> HIDE DEF c, e
<1>4. LET q == c \o <<e>> IN q \in Seq(UpMsg) /\ Len(q) = n + 1 /\ (\A i \in 1..n : q[i] = c[i]) /\ q[n + 1] = e
  BY <1>1, <1>2, <1>3
<1>5. FileMsgs(s, id) = c \o <<e>>
  BY DEF FileMsgs, n, c, e
<1>6. \A i \in 1..(n + 1) : i \in 1..n \/ i = n + 1
  BY <1>1
<1>7. \A i \in 1..n : c[i].type = "chunk" /\ c[i].from = <<s, id>>
  BY <1>3 DEF Msg
<1>8. e.type = "end" /\ e.from = <<s, id>>
  BY DEF e, Msg
<1> DEFINE q == c \o <<e>>
<1>9. q \in Seq(UpMsg) /\ Len(q) = n + 1 /\ (\A i \in 1..n : q[i] = c[i]) /\ q[n + 1] = e /\ FileMsgs(s, id) = q
  BY <1>4, <1>5
<1> HIDE DEF q
<1>10. /\ \A i \in 1..n : q[i].type = "chunk" /\ q[i].from = <<s, id>>
       /\ q[n + 1].type = "end" /\ q[n + 1].from = <<s, id>>
  BY <1>7, <1>8, <1>9
<1> QED BY <1>1, <1>6, <1>9, <1>10, Zenon DEF n

LEMMA SendFileTypes ==
    ASSUME UploadTypes, NEW s \in UpSession, NEW id \in UploadId, SendFile(s, id)
    PROVE  UploadTypes'
<1> USE DEF UploadTypes
<1>0. <<s, id>> \in Upload
  BY InUpload
<1>1. Send(Current(s), FileMsgs(s, id))
  BY DEF SendFile, FileMsgs
<1>l. LinkTypes'
  BY SameLinks DEF SendFile
<1>2. BrowserTypes'
  BY <1>0 DEF SendFile, BrowserTypes
<1>3. UpTypes'
  <2>1. FileMsgs(s, id) \in Seq(UpMsg)
    BY FileMsgsFacts
  <2>2. Current(s) \in UpSession
    BY CurrentSession
  <2> QED BY <1>1, <2>1, <2>2, SendUp
<1>4. DownTypes' /\ ProxyTypes' /\ DirTypes'
  BY DEF SendFile, proxyVars, DownTypes, ProxyTypes, DirTypes
<1> QED BY <1>l, <1>2, <1>3, <1>4

LEMMA CancelUploadTypes ==
    ASSUME UploadTypes, NEW s \in UpSession, NEW id \in UploadId, CancelUpload(s, id)
    PROVE  UploadTypes'
<1> USE DEF UploadTypes
<1>0. <<s, id>> \in Upload
  BY InUpload
<1>l. LinkTypes'
  BY SameLinks DEF CancelUpload
<1>2. BrowserTypes'
  BY <1>0 DEF CancelUpload, BrowserTypes
<1>3. UpTypes'
  <2> DEFINE m == Msg("cancel", id, 0, <<s, id>>)
  <2>1. m \in UpMsg /\ m.type = "cancel"
    BY <1>0 DEF Msg, UpMsg
  <2> HIDE DEF m
  <2>2. <<m>> \in Seq(UpMsg)
    BY <2>1
  <2>3. Send(Current(s), <<m>>) /\ Current(s) \in UpSession
    BY CurrentSession DEF CancelUpload, m
  <2> QED BY <2>1, <2>2, <2>3, SendUp
<1>4. DownTypes' /\ ProxyTypes' /\ DirTypes'
  BY DEF CancelUpload, proxyVars, DownTypes, ProxyTypes, DirTypes
<1> QED BY <1>l, <1>2, <1>3, <1>4

\* handleUploadStatus settles a promise, if any.
LEMMA StatusSettles ==
    ASSUME UploadTypes, NEW s \in UpSession, HandleUploadStatus(s)
    PROVE  promise' \in [Upload -> {"none", "pending", "success", "failed"}]
<1> DEFINE m == Head(downlink[s])  u == <<Current(s), m.id>>
<1>1. m \in DownMsg
  BY DEF HandleUploadStatus, UploadTypes, DownTypes
<1>2. u \in Upload
  BY <1>1, InUpload, CurrentSession DEF DownMsg, UploadTypes
<1>3. promise' = IF promise[u] = "pending" /\ (~m.ok \/ m.written >= sizeOf[u])
                      THEN [promise EXCEPT ![u] = IF m.ok THEN "success" ELSE "failed"]
                      ELSE promise
  BY DEF HandleUploadStatus
<1>4. promise \in [Upload -> {"none", "pending", "success", "failed"}]
  BY DEF UploadTypes, BrowserTypes
<1> HIDE DEF u, m
<1> QED BY <1>2, <1>3, <1>4

LEMMA HandleUploadStatusTypes ==
    ASSUME UploadTypes, NEW s \in UpSession, HandleUploadStatus(s)
    PROVE  UploadTypes'
<1> USE DEF UploadTypes
<1>l. LinkTypes'
  BY SameLinks DEF HandleUploadStatus
<1>1. BrowserTypes'
  BY StatusSettles DEF HandleUploadStatus, BrowserTypes
<1>2. DownTypes'
  <2>1. Tail(downlink[s]) \in Seq(DownMsg)
    BY DEF HandleUploadStatus, DownTypes
  <2> QED BY <2>1 DEF HandleUploadStatus, DownTypes
<1>3. UpTypes' /\ ProxyTypes' /\ DirTypes'
  BY DEF HandleUploadStatus, proxyVars, UpTypes, ProxyTypes, DirTypes
<1> QED BY <1>l, <1>1, <1>2, <1>3

LEMMA FileUnreadableTypes ==
    ASSUME UploadTypes, NEW s \in UpSession, NEW id \in UploadId, FileUnreadable(s, id)
    PROVE  UploadTypes'
<1> USE DEF UploadTypes
<1>1. LinkTypes'
  BY SameLinks DEF FileUnreadable
<1>2. BrowserTypes'
  BY InUpload DEF FileUnreadable, BrowserTypes
<1>3. UpTypes' /\ DownTypes' /\ ProxyTypes' /\ DirTypes'
  BY DEF FileUnreadable, proxyVars, UpTypes, DownTypes, ProxyTypes, DirTypes
<1> QED BY <1>1, <1>2, <1>3

LEMMA SocketOpensTypes ==
    ASSUME UploadTypes, NEW s \in UpSession, SocketOpens(s)
    PROVE  UploadTypes'
<1> USE DEF UploadTypes
<1>1. LinkTypes'
  BY DEF SocketOpens, LinkTypes
<1>2. BrowserTypes'
  BY SameBrowser DEF SocketOpens
<1>3. UpTypes' /\ DownTypes' /\ ProxyTypes' /\ DirTypes'
  BY DEF SocketOpens, proxyVars, UpTypes, DownTypes, ProxyTypes, DirTypes
<1> QED BY <1>1, <1>2, <1>3

LEMMA PerformReconnectTypes ==
    ASSUME UploadTypes, NEW b \in Browser, PerformReconnect(b)
    PROVE  UploadTypes'
<1> USE DEF UploadTypes
<1>1. LinkTypes'
  <2>1. current[b] + 1 \in 1..MaxConnects /\ retries[b] - 1 \in Nat
    BY UploadAssumption DEF PerformReconnect, LinkTypes
  <2> QED BY <2>1 DEF PerformReconnect, LinkTypes
<1>2. BrowserTypes'
  BY SameBrowser DEF PerformReconnect
<1>3. UpTypes' /\ DownTypes' /\ ProxyTypes' /\ DirTypes'
  BY DEF PerformReconnect, proxyVars, UpTypes, DownTypes, ProxyTypes, DirTypes
<1> QED BY <1>1, <1>2, <1>3

LEMMA ConnectionLostTypes ==
    ASSUME UploadTypes, NEW s \in UpSession, ConnectionLost(s)
    PROVE  UploadTypes'
<1> USE DEF UploadTypes
<1>l. LinkTypes'
  <2>1. PICK n \in {1, 2} : retries' = [retries EXCEPT ![s[1]] = Least(@ + n, MaxConnects - current[s[1]])]
    BY DEF ConnectionLost, Closes
  <2>2. s[1] \in Browser
    BY DEF UpSession
  <2>3. Least(retries[s[1]] + n, MaxConnects - current[s[1]]) \in Nat
    BY <2>2, UploadAssumption DEF LinkTypes, Least
  <2>4. retries' \in [Browser -> Nat]
    BY <2>1, <2>2, <2>3 DEF LinkTypes
  <2> QED BY <2>4 DEF ConnectionLost, LinkTypes
<1>1. BrowserTypes'
  BY DEF ConnectionLost, Closes, CleanedUp, BrowserTypes
<1>2. DownTypes'
  BY DEF ConnectionLost, DownTypes
<1>3. UpTypes'
  BY DEF ConnectionLost, UpTypes
<1>4. ProxyTypes' /\ DirTypes'
  BY DEF ConnectionLost, proxyVars, ProxyTypes, DirTypes
<1> QED BY <1>l, <1>1, <1>2, <1>3, <1>4

\* The message a handler of the proxy takes.
LEMMA ArrivedMsg ==
    ASSUME UploadTypes, NEW s \in UpSession, NEW type, Arrived(s, type)
    PROVE  LET m == Head(uplink[s])
           IN  /\ m \in UpMsg /\ m.id \in UploadId /\ m.arg \in Nat /\ m.from \in Upload /\ m.type = type
               /\ uplink[s] \in Seq(UpMsg) /\ uplink[s] # <<>> /\ beginning[s] = <<>>
               /\ m = uplink[s][1] /\ 1 \in 1..Len(uplink[s])
               /\ (type = "begin" => m.arg \in Sizes) /\ (type = "chunk" => m.arg # 0)
<1> DEFINE m == Head(uplink[s])
<1>1. uplink[s] \in Seq(UpMsg) /\ uplink[s] # <<>> /\ beginning[s] = <<>> /\ m.type = type
  BY DEF UploadTypes, UpTypes, Arrived
<1>2. m \in UpMsg /\ m = uplink[s][1] /\ 1 \in 1..Len(uplink[s])
  BY <1>1
<1>3. m.id \in UploadId /\ m.arg \in Nat /\ m.from \in Upload
  BY <1>2 DEF UpMsg
<1>4. (type = "begin" => m.arg \in Sizes) /\ (type = "chunk" => m.arg # 0)
  BY <1>1, <1>2 DEF UpMsg
<1> QED BY <1>1, <1>2, <1>3, <1>4

\* UniqueFilePath returns a name it may use, a free one if there is one.
LEMMA UniqueName ==
    /\ UniqueFilePath \in Names
    /\ Names \ DOMAIN dir # {} => UniqueFilePath \notin DOMAIN dir
<1> DEFINE free == Names \ DOMAIN dir
<1>1. LastName \in Names
  BY UploadAssumption DEF Names
<1>2. CASE free = {}
  BY <1>1, <1>2 DEF UniqueFilePath
<1>3. CASE free # {}
  <2>1. free \subseteq Nat
    BY UploadAssumption DEF Names
  <2>2. PICK x \in free : \A y \in free : ~(<<y, x>> \in OpToRel(<, Nat))
    BY <1>3, <2>1, WFMin, NatLessThanWellFounded
  <2>3. \A y \in free : x <= y
    <3> SUFFICES ASSUME NEW y \in free PROVE x <= y
      OBVIOUS
    <3>1. x \in Nat /\ y \in Nat
      BY <2>1
    <3>2. y < x => <<y, x>> \in OpToRel(<, Nat)
      BY <3>1 DEF OpToRel
    <3>3. ~(y < x)
      BY <2>2, <3>2, Zenon
    <3> QED BY <3>1, <3>3
  <2>4. UniqueFilePath = CHOOSE n \in free : \A k \in free : n <= k
    BY <1>3 DEF UniqueFilePath
  <2> HIDE DEF free
  <2>5. UniqueFilePath \in free
    BY <2>3, <2>4
  <2> QED BY <2>5 DEF free
<1> QED BY <1>2, <1>3

LEMMA UploadBeginChecksTypes ==
    ASSUME UploadTypes, NEW s \in UpSession, UploadBeginChecks(s)
    PROVE  UploadTypes'
<1> USE DEF UploadTypes
<1> DEFINE m == Head(uplink[s])
           b == [id |-> m.id, size |-> m.arg, name |-> UniqueFilePath]
<1>1. m.id \in UploadId /\ m.arg \in Sizes /\ uplink[s] # <<>>
  BY ArrivedMsg DEF UploadBeginChecks
<1>l. LinkTypes'
  BY SameLinks DEF UploadBeginChecks
<1>2. BrowserTypes' /\ DirTypes'
  BY SameBrowser DEF UploadBeginChecks, DirTypes
<1>3. UpTypes'
  BY <1>1, ConsumeUp DEF UploadBeginChecks
<1>4. CASE Fail(s, m.id, 0) /\ UNCHANGED beginning
  <2>1. Status(m.id, FALSE, 0) \in DownMsg
    BY <1>1, StatusType
  <2>2. DownTypes'
    BY <1>4, <2>1, AnswerDown DEF Fail
  <2>3. ProxyTypes'
    BY <1>4 DEF UploadBeginChecks, ProxyTypes
  <2> QED BY <1>l, <1>2, <1>3, <2>2, <2>3
<1>5. CASE /\ Cardinality(DOMAIN uploads[s]) < MaxConcurrent /\ m.arg <= MaxUploadSize
           /\ beginning' = [beginning EXCEPT ![s] = <<b>>] /\ UNCHANGED downlink
  <2>1. m.arg \in Sizes \cap 0..MaxUploadSize
    <3>1. m.arg \in Nat /\ m.arg <= MaxUploadSize /\ MaxUploadSize \in Nat
      BY <1>1, <1>5, UploadAssumption
    <3> QED BY <1>1, <3>1
  <2>2. b \in Beginning
    BY <1>1, <2>1, UniqueName DEF Beginning
  <2> HIDE DEF b
  <2>3. beginning' \in [UpSession -> Seq(Beginning)] /\ \A t \in UpSession : t # s => beginning'[t] = beginning[t]
    BY <1>5, <2>2 DEF ProxyTypes
  <2>4. UNCHANGED uploads
    BY DEF UploadBeginChecks
  <2>5. ProxyTypes'
    BY <1>5, <2>3, <2>4 DEF ProxyTypes
  <2>6. DownTypes'
    BY <1>5 DEF DownTypes
  <2> QED BY <1>l, <1>2, <1>3, <2>5, <2>6
<1> QED BY <1>4, <1>5 DEF UploadBeginChecks

\* The effect of os.Create and AddUpload.
CreatesFile(s) ==
    LET b == Head(beginning[s])
        ino == IF b.name \in DOMAIN dir THEN dir[b.name] ELSE <<s, b.id>>
    IN  /\ b \in Beginning /\ b.id \in UploadId /\ b.name \in Names /\ ino \in Upload
        /\ DOMAIN dir' = DOMAIN dir \cup {b.name} /\ dir'[b.name] = ino
        /\ \A n \in DOMAIN dir : n # b.name => dir'[n] = dir[n]
        /\ disk' = [disk EXCEPT ![ino] = <<>>] /\ left' = left \ {b.name}
        /\ DOMAIN uploads' = UpSession /\ \A t \in UpSession : t # s => uploads'[t] = uploads[t]
        /\ DOMAIN uploads'[s] = DOMAIN uploads[s] \cup {b.id}
        /\ uploads'[s][b.id] = [name |-> b.name, inode |-> ino, size |-> b.size, written |-> 0]
        /\ \A id \in DOMAIN uploads[s] : id # b.id => uploads'[s][id] = uploads[s][id]
        /\ Answer(s, Status(b.id, TRUE, 0))
        /\ beginning' = [beginning EXCEPT ![s] = <<>>]

\* os.Create and the entry of the upload, without LET.
LEMMA UploadBeginCreatesEffect ==
    ASSUME UploadTypes, NEW s \in UpSession, UploadBeginCreates(s)
    PROVE  CreatesFile(s)
<1> DEFINE b == Head(beginning[s])
           ino == IF b.name \in DOMAIN dir THEN dir[b.name] ELSE <<s, b.id>>
           st == [name |-> b.name, inode |-> ino, size |-> b.size, written |-> 0]
<1>1. b \in Beginning
  BY DEF UploadBeginCreates, UploadTypes, ProxyTypes
<1>2. b.id \in UploadId /\ b.name \in Names
  BY <1>1 DEF Beginning
<1>3. ino \in Upload
  BY <1>2, InUpload DEF UploadTypes, DirTypes
<1>4. /\ dir' = Put(dir, b.name, ino) /\ disk' = [disk EXCEPT ![ino] = <<>>] /\ left' = left \ {b.name}
      /\ uploads' = [uploads EXCEPT ![s] = Put(uploads[s], b.id, st)]
      /\ Answer(s, Status(b.id, TRUE, 0)) /\ beginning' = [beginning EXCEPT ![s] = <<>>]
  BY DEF UploadBeginCreates
<1>5. DOMAIN uploads = UpSession
  BY DEF UploadTypes, ProxyTypes
<1> HIDE DEF b, ino, st
<1>6. /\ DOMAIN dir' = DOMAIN dir \cup {b.name} /\ dir'[b.name] = ino
      /\ \A n \in DOMAIN dir : n # b.name => dir'[n] = dir[n]
  BY <1>4 DEF Put
<1>7. /\ DOMAIN uploads' = UpSession /\ \A t \in UpSession : t # s => uploads'[t] = uploads[t]
      /\ uploads'[s] = Put(uploads[s], b.id, st)
  BY <1>4, <1>5
<1>8. /\ DOMAIN uploads'[s] = DOMAIN uploads[s] \cup {b.id}
      /\ uploads'[s][b.id] = st
      /\ \A id \in DOMAIN uploads[s] : id # b.id => uploads'[s][id] = uploads[s][id]
  BY <1>7 DEF Put
<1> QED BY <1>1, <1>2, <1>3, <1>4, <1>6, <1>7, <1>8 DEF CreatesFile, b, ino, st

LEMMA UploadBeginCreatesTypes ==
    ASSUME UploadTypes, NEW s \in UpSession, UploadBeginCreates(s)
    PROVE  UploadTypes'
<1> USE DEF UploadTypes
<1> DEFINE b == Head(beginning[s])
           ino == IF b.name \in DOMAIN dir THEN dir[b.name] ELSE <<s, b.id>>
<1>0. CreatesFile(s)
  BY UploadBeginCreatesEffect
<1>l. LinkTypes'
  BY SameLinks DEF UploadBeginCreates
<1>1. BrowserTypes' /\ UpTypes'
  BY SameBrowser DEF UploadBeginCreates, UpTypes
<1>2. DownTypes'
  <2>1. Status(b.id, TRUE, 0) \in DownMsg /\ Answer(s, Status(b.id, TRUE, 0))
    BY <1>0, StatusType DEF CreatesFile
  <2> QED BY <2>1, AnswerDown
<1>3. DirTypes'
  <2>1. DOMAIN dir' \subseteq Names /\ \A n \in DOMAIN dir' : dir'[n] \in Upload
    BY <1>0 DEF CreatesFile, DirTypes
  <2>2. disk' \in [Upload -> Contents]
    BY <1>0, EmptyContents DEF CreatesFile, DirTypes
  <2>3. left' \subseteq Names
    BY <1>0 DEF CreatesFile, DirTypes
  <2> QED BY <2>1, <2>2, <2>3 DEF DirTypes
<1>4. ProxyTypes'
  <2>1. beginning' \in [UpSession -> Seq(Beginning)] /\ beginning'[s] = <<>>
        /\ \A t \in UpSession : t # s => beginning'[t] = beginning[t]
    BY <1>0 DEF CreatesFile, ProxyTypes
  <2>2. /\ DOMAIN uploads' = UpSession /\ \A t \in UpSession : t # s => uploads'[t] = uploads[t]
        /\ DOMAIN uploads'[s] = DOMAIN uploads[s] \cup {b.id} /\ b.id \in UploadId
    BY <1>0 DEF CreatesFile
  <2>3. DOMAIN uploads'[s] \subseteq UploadId
    BY <2>2 DEF ProxyTypes
  <2>4. \A id \in DOMAIN uploads'[s] : uploads'[s][id] \in UploadState /\ uploads'[s][id].size <= MaxUploadSize
    <3>1. b.size \in Sizes /\ b.size <= MaxUploadSize /\ 0 \in 0..MaxUploadSize
      BY <1>0, UploadAssumption DEF CreatesFile, Beginning
    <3>2. uploads'[s][b.id] \in UploadState /\ uploads'[s][b.id].size <= MaxUploadSize
      BY <1>0, <3>1 DEF CreatesFile, UploadState
    <3>3. \A id \in DOMAIN uploads[s] : id # b.id => uploads'[s][id] = uploads[s][id]
      BY <1>0 DEF CreatesFile
    <3> QED BY <2>2, <3>2, <3>3 DEF ProxyTypes
  <2>5. Cardinality(DOMAIN uploads'[s]) <= MaxConcurrent
    <3>1. DOMAIN uploads[s] \in SUBSET UploadId /\ Cardinality(DOMAIN uploads[s]) < MaxConcurrent
      BY DEF UploadBeginCreates, ProxyTypes
    <3>2. IsFiniteSet(DOMAIN uploads[s]) /\ Cardinality(DOMAIN uploads[s]) \in Nat
      BY <3>1, IdsAreFinite
    <3>3. Cardinality(DOMAIN uploads'[s]) <= Cardinality(DOMAIN uploads[s]) + 1
      <4>1. Cardinality(DOMAIN uploads[s] \cup {b.id}) =
              IF b.id \in DOMAIN uploads[s] THEN Cardinality(DOMAIN uploads[s])
              ELSE Cardinality(DOMAIN uploads[s]) + 1
        BY <3>2, FS_AddElement
      <4> QED BY <2>2, <3>2, <4>1
    <3>4. IsFiniteSet(DOMAIN uploads'[s]) /\ Cardinality(DOMAIN uploads'[s]) \in Nat
      BY <2>3, IdsAreFinite
    <3> QED BY <3>1, <3>2, <3>3, <3>4, UploadAssumption
  <2> QED BY <2>1, <2>2, <2>3, <2>4, <2>5 DEF ProxyTypes
<1> QED BY <1>l, <1>1, <1>2, <1>3, <1>4

LEMMA UploadBeginFailsTypes ==
    ASSUME UploadTypes, NEW s \in UpSession, UploadBeginFails(s)
    PROVE  UploadTypes'
<1> USE DEF UploadTypes
<1> DEFINE b == Head(beginning[s])
<1>l. LinkTypes'
  BY SameLinks DEF UploadBeginFails
<1>1. BrowserTypes' /\ UpTypes' /\ DirTypes'
  BY SameBrowser DEF UploadBeginFails, UpTypes, DirTypes
<1>2. DownTypes'
  <2>1. b.id \in UploadId
    <3>1. b \in Beginning
      BY DEF UploadBeginFails, ProxyTypes
    <3> QED BY <3>1 DEF Beginning
  <2>2. Status(b.id, FALSE, 0) \in DownMsg /\ Answer(s, Status(b.id, FALSE, 0))
    BY <2>1, StatusType DEF UploadBeginFails, Fail
  <2> QED BY <2>2, AnswerDown
<1>3. ProxyTypes'
  <2>1. beginning' \in [UpSession -> Seq(Beginning)] /\ beginning'[s] = <<>>
        /\ \A t \in UpSession : t # s => beginning'[t] = beginning[t]
    BY DEF UploadBeginFails, ProxyTypes
  <2> QED BY <2>1 DEF UploadBeginFails, ProxyTypes
<1> QED BY <1>l, <1>1, <1>2, <1>3

\* Counts are numbers.
LEMMA WrittenIsNat ==
    ASSUME UploadTypes, NEW s \in UpSession, NEW id \in DOMAIN uploads[s]
    PROVE  uploads[s][id].written \in Nat
<1>1. uploads[s][id] \in UploadState
  BY DEF UploadTypes, ProxyTypes
<1>2. uploads[s][id].written \in 0..MaxUploadSize
  BY <1>1 DEF UploadState
<1> QED BY <1>2, UploadAssumption

\* The effect of the write of a chunk.
Writes(s) ==
    LET m == Head(uplink[s])  up == uploads[s][m.id]
    IN  /\ m.id \in DOMAIN uploads[s] /\ m.arg <= up.size /\ up.written + 1 <= MaxUploadSize
        /\ disk' = [disk EXCEPT ![up.inode] = WriteAt(disk[up.inode], m.arg, m.from)]
        /\ DOMAIN uploads' = UpSession /\ \A t \in UpSession : t # s => uploads'[t] = uploads[t]
        /\ DOMAIN uploads'[s] = DOMAIN uploads[s]
        /\ uploads'[s][m.id] = [up EXCEPT !.written = up.written + 1]
        /\ \A id \in DOMAIN uploads[s] : id # m.id => uploads'[s][id] = uploads[s][id]
        /\ Answer(s, Status(m.id, TRUE, up.written + 1))

\* The chunk is refused; the answer says how much is written.
RefusesChunk(s) ==
    /\ \E n \in Nat : Fail(s, Head(uplink[s]).id, n)
    /\ UNCHANGED <<uploads, disk>>

\* A chunk is written or refused.
LEMMA UploadChunkEffect ==
    ASSUME UploadTypes, NEW s \in UpSession, UploadChunk(s)
    PROVE  Writes(s) \/ RefusesChunk(s)
<1> DEFINE m == Head(uplink[s])  up == uploads[s][m.id]
<1>1. CASE Fail(s, m.id, IF m.id \in DOMAIN uploads[s] THEN up.written ELSE 0) /\ UNCHANGED <<uploads, disk>>
  <2>1. (IF m.id \in DOMAIN uploads[s] THEN up.written ELSE 0) \in Nat
    BY WrittenIsNat
  <2> QED BY <1>1, <2>1 DEF RefusesChunk
<1>3. CASE /\ m.id \in DOMAIN uploads[s] /\ m.arg <= up.size /\ up.written + 1 <= MaxUploadSize
           /\ disk' = [disk EXCEPT ![up.inode] = WriteAt(disk[up.inode], m.arg, m.from)]
           /\ uploads' = [uploads EXCEPT ![s][m.id].written = up.written + 1]
           /\ Answer(s, Status(m.id, TRUE, up.written + 1))
  <2>1. DOMAIN uploads = UpSession
    BY DEF UploadTypes, ProxyTypes
  <2> HIDE DEF m
  <2>2. /\ DOMAIN uploads' = UpSession /\ \A t \in UpSession : t # s => uploads'[t] = uploads[t]
        /\ DOMAIN uploads'[s] = DOMAIN uploads[s]
        /\ uploads'[s][m.id] = [up EXCEPT !.written = up.written + 1]
        /\ \A id \in DOMAIN uploads[s] : id # m.id => uploads'[s][id] = uploads[s][id]
    BY <1>3, <2>1
  <2> QED BY <1>3, <2>2 DEF Writes, m
<1> QED BY <1>1, <1>3 DEF UploadChunk

LEMMA UploadChunkTypes ==
    ASSUME UploadTypes, NEW s \in UpSession, UploadChunk(s)
    PROVE  UploadTypes'
<1> USE DEF UploadTypes
<1> DEFINE m == Head(uplink[s])  up == uploads[s][m.id]
<1>0. m.id \in UploadId /\ m.arg \in Nat \ {0} /\ m.from \in Upload /\ uplink[s] # <<>>
  BY ArrivedMsg DEF UploadChunk
<1>l. LinkTypes'
  BY SameLinks DEF UploadChunk
<1>1. BrowserTypes'
  BY SameBrowser DEF UploadChunk
<1>2. UpTypes'
  BY <1>0, ConsumeUp DEF UploadChunk
<1>3. UNCHANGED <<beginning, dir, left>>
  BY DEF UploadChunk
<1>4. CASE RefusesChunk(s)
  <2>1. PICK n \in Nat : Answer(s, Status(m.id, FALSE, n))
    BY <1>4 DEF RefusesChunk, Fail
  <2>2. DownTypes'
    BY <1>0, <2>1, StatusType, AnswerDown
  <2>3. ProxyTypes' /\ DirTypes'
    BY <1>3, <1>4 DEF RefusesChunk, ProxyTypes, DirTypes
  <2> QED BY <1>l, <1>1, <1>2, <2>2, <2>3
<1>5. CASE Writes(s)
  <2>1. /\ m.id \in DOMAIN uploads[s] /\ m.arg <= up.size /\ up.written + 1 <= MaxUploadSize
        /\ up \in UploadState /\ up.size <= MaxUploadSize
    BY <1>5 DEF Writes, ProxyTypes
  <2>2. /\ up.written \in Nat /\ up.size \in Nat /\ up.inode \in Upload /\ up.name \in Names
        /\ MaxUploadSize \in Nat
    <3>1. up.written \in 0..MaxUploadSize /\ up.size \in Sizes /\ up.inode \in Upload /\ up.name \in Names
      BY <2>1 DEF UploadState
    <3>2. MaxUploadSize \in Nat /\ Sizes \subseteq Nat
      BY UploadAssumption
    <3>3. up.written \in Nat
      BY <3>1, <3>2
    <3>4. up.size \in Nat
      BY <3>1, <3>2
    <3> QED BY <3>1, <3>2, <3>3, <3>4
  <2>3. DownTypes'
    <3>1. up.written + 1 \in Nat
      BY <2>2
    <3>2. Status(m.id, TRUE, up.written + 1) \in DownMsg
      BY <1>0, <3>1, StatusType
    <3> QED BY <1>5, <3>2, AnswerDown DEF Writes
  <2>4. ProxyTypes'
    <3>1. [up EXCEPT !.written = up.written + 1] \in UploadState
          /\ [up EXCEPT !.written = up.written + 1].size <= MaxUploadSize
      <4> DEFINE n == up.written + 1
      <4>1. n \in 0..MaxUploadSize
        BY <2>1, <2>2
      <4> HIDE DEF n, up
      <4>2. [up EXCEPT !.written = n] \in UploadState /\ [up EXCEPT !.written = n].size = up.size
        BY <2>1, <4>1 DEF UploadState
      <4> QED BY <2>1, <4>2 DEF n
    <3>2. \A id \in DOMAIN uploads[s] : uploads'[s][id] \in UploadState /\ uploads'[s][id].size <= MaxUploadSize
      BY <1>5, <3>1 DEF Writes, ProxyTypes
    <3>3. /\ DOMAIN uploads' = UpSession /\ \A t \in UpSession : t # s => uploads'[t] = uploads[t]
          /\ DOMAIN uploads'[s] = DOMAIN uploads[s]
      BY <1>5 DEF Writes
    <3> QED BY <1>3, <3>2, <3>3 DEF ProxyTypes
  <2>5. DirTypes'
    <3> DEFINE f == WriteAt(disk[up.inode], m.arg, m.from)
    <3>1. disk[up.inode] \in Contents
      BY <2>2 DEF DirTypes
    <3>2. m.arg \in 1..MaxUploadSize
      BY <1>0, <2>1, <2>2
    <3>3. f \in Contents
      BY <1>0, <3>1, <3>2, WriteFits
    <3>4. disk' = [disk EXCEPT ![up.inode] = f]
      BY <1>5 DEF Writes
    <3> HIDE DEF f
    <3>5. disk' \in [Upload -> Contents]
      BY <3>3, <3>4 DEF DirTypes
    <3> QED BY <1>3, <3>5 DEF DirTypes
  <2> QED BY <1>l, <1>1, <1>2, <2>3, <2>4, <2>5
<1> QED BY <1>4, <1>5, UploadChunkEffect

\* The entry of an upload is removed from session.uploads.
LEMMA RemoveUpload ==
    ASSUME UploadTypes, NEW s \in UpSession, NEW id,
           uploads' = [uploads EXCEPT ![s] = Drop(uploads[s], id)]
    PROVE  /\ DOMAIN uploads' = UpSession /\ \A t \in UpSession : t # s => uploads'[t] = uploads[t]
           /\ DOMAIN uploads'[s] = DOMAIN uploads[s] \ {id}
           /\ \A j \in DOMAIN uploads[s] : j # id => uploads'[s][j] = uploads[s][j]
<1>1. DOMAIN uploads = UpSession
  BY DEF UploadTypes, ProxyTypes
<1>2. /\ DOMAIN uploads' = UpSession /\ \A t \in UpSession : t # s => uploads'[t] = uploads[t]
      /\ uploads'[s] = Drop(uploads[s], id)
  BY <1>1
<1>3. /\ DOMAIN uploads'[s] = DOMAIN uploads[s] \ {id}
      /\ \A j \in DOMAIN uploads[s] : j # id => uploads'[s][j] = uploads[s][j]
  BY <1>2 DEF Drop
<1> QED BY <1>2, <1>3

\* Removing uploads of a session keeps the types of the proxy.
LEMMA FewerUploads ==
    ASSUME UploadTypes, NEW s \in UpSession, beginning' = beginning,
           DOMAIN uploads' = UpSession, \A t \in UpSession : t # s => uploads'[t] = uploads[t],
           beginning[s] = <<>>, DOMAIN uploads'[s] \subseteq DOMAIN uploads[s],
           \A id \in DOMAIN uploads'[s] : uploads'[s][id] = uploads[s][id]
    PROVE  ProxyTypes'
<1> USE DEF UploadTypes, ProxyTypes
<1>1. DOMAIN uploads[s] \in SUBSET UploadId
  OBVIOUS
<1>2. IsFiniteSet(DOMAIN uploads[s]) /\ Cardinality(DOMAIN uploads[s]) \in Nat
  BY <1>1, IdsAreFinite
<1>3. DOMAIN uploads'[s] \in SUBSET UploadId
  BY <1>1
<1>4. Cardinality(DOMAIN uploads'[s]) \in Nat
  BY <1>3, IdsAreFinite
<1>5. Cardinality(DOMAIN uploads'[s]) <= Cardinality(DOMAIN uploads[s])
  BY <1>2, FS_Subset
<1>6. Cardinality(DOMAIN uploads[s]) <= MaxConcurrent
  OBVIOUS
<1>7. Cardinality(DOMAIN uploads'[s]) <= MaxConcurrent
  BY <1>2, <1>4, <1>5, <1>6, UploadAssumption
<1>8. \A id \in DOMAIN uploads'[s] : uploads'[s][id] \in UploadState /\ uploads'[s][id].size <= MaxUploadSize
  OBVIOUS
<1> QED BY <1>3, <1>7, <1>8

\* os.Remove takes the name away, or leaves it and the file is left.
LEMMA RemoveEffect ==
    ASSUME NEW name, Remove(name)
    PROVE  /\ DOMAIN dir' \subseteq DOMAIN dir /\ \A n \in DOMAIN dir' : dir'[n] = dir[n]
           /\ left' \subseteq left \cup {name} /\ \A n \in DOMAIN dir' : n \in left => n \in left'
           /\ name \notin DOMAIN dir' \/ name \in left'
           /\ Mishap \/ UNCHANGED mishaps
<1>1. CASE dir' = Drop(dir, name) /\ left' = left \ {name} /\ UNCHANGED mishaps
  <2>1. DOMAIN dir' = DOMAIN dir \ {name} /\ \A n \in DOMAIN dir' : dir'[n] = dir[n]
    BY <1>1 DEF Drop
  <2> QED BY <1>1, <2>1
<1>2. CASE name \in DOMAIN dir /\ left' = left \cup {name} /\ Mishap /\ UNCHANGED dir
  BY <1>2
<1> QED BY <1>1, <1>2 DEF Remove

\* The effect of handleUploadEnd and handleUploadCancel on an upload that is open: its
\* entry goes; its name goes, or is left, or holds the file that was sent.
EndsUpload(s) ==
    LET m == Head(uplink[s])  up == uploads[s][m.id]
    IN  /\ m.id \in DOMAIN uploads[s]
        /\ DOMAIN uploads' = UpSession /\ \A t \in UpSession : t # s => uploads'[t] = uploads[t]
        /\ DOMAIN uploads'[s] = DOMAIN uploads[s] \ {m.id}
        /\ \A id \in DOMAIN uploads[s] : id # m.id => uploads'[s][id] = uploads[s][id]
        /\ DOMAIN dir' \subseteq DOMAIN dir /\ \A n \in DOMAIN dir' : dir'[n] = dir[n]
        /\ left' \subseteq left \cup {up.name} /\ \A n \in DOMAIN dir' : n \in left => n \in left'
        /\ \/ up.name \notin DOMAIN dir' \/ up.name \in left'
           \/ m.type = "end" /\ disk[dir[up.name]] = Whole(m.from)
        /\ \E ok \in BOOLEAN : \E k \in Nat : Answer(s, Status(m.id, ok, k))
        /\ Mishap \/ UNCHANGED mishaps
        /\ disk' = disk /\ beginning' = beginning

\* Their effect on one that is not.
IgnoresUpload(s) ==
    /\ UNCHANGED <<uploads, dir, left, disk, beginning, mishaps>>
    /\ UNCHANGED downlink \/ \E k \in Nat : Fail(s, Head(uplink[s]).id, k)

\* handleUploadEnd, without LET.
LEMMA UploadEndEffect ==
    ASSUME UploadTypes, NEW s \in UpSession, UploadEnd(s)
    PROVE  EndsUpload(s) \/ IgnoresUpload(s)
<1> DEFINE m == Head(uplink[s])  up == uploads[s][m.id]
<1>0. disk' = disk /\ beginning' = beginning /\ m.type = "end"
  BY DEF UploadEnd, Arrived
<1>1. CASE m.id \notin DOMAIN uploads[s] /\ Fail(s, m.id, 0) /\ UNCHANGED <<uploads, dir, left, mishaps>>
  BY <1>0, <1>1 DEF IgnoresUpload
<1>2. CASE m.id \in DOMAIN uploads[s] /\ uploads' = [uploads EXCEPT ![s] = Drop(uploads[s], m.id)] /\ Verify(s, m)
  <2>1. /\ DOMAIN uploads' = UpSession /\ \A t \in UpSession : t # s => uploads'[t] = uploads[t]
        /\ DOMAIN uploads'[s] = DOMAIN uploads[s] \ {m.id}
        /\ \A id \in DOMAIN uploads[s] : id # m.id => uploads'[s][id] = uploads[s][id]
    <3> DEFINE i == m.id
    <3>1. uploads' = [uploads EXCEPT ![s] = Drop(uploads[s], i)]
      BY <1>2
    <3> HIDE DEF i
    <3>2. /\ DOMAIN uploads' = UpSession /\ \A t \in UpSession : t # s => uploads'[t] = uploads[t]
          /\ DOMAIN uploads'[s] = DOMAIN uploads[s] \ {i}
          /\ \A id \in DOMAIN uploads[s] : id # i => uploads'[s][id] = uploads[s][id]
      BY <3>1, RemoveUpload
    <3> QED BY <3>2 DEF i
  <2>2. up.written \in Nat
    BY <1>2, WrittenIsNat
  <2>3. \E ok \in BOOLEAN : \E k \in Nat : Answer(s, Status(m.id, ok, k))
    BY <1>2, <2>2 DEF Verify, Fail
  <2>4. /\ DOMAIN dir' \subseteq DOMAIN dir /\ \A n \in DOMAIN dir' : dir'[n] = dir[n]
        /\ left' \subseteq left \cup {up.name} /\ \A n \in DOMAIN dir' : n \in left => n \in left'
        /\ \/ up.name \notin DOMAIN dir' \/ up.name \in left'
           \/ disk[dir[up.name]] = Whole(m.from)
        /\ Mishap \/ UNCHANGED mishaps
    <3>1. CASE Remove(up.name)
      BY <3>1, RemoveEffect
    <3>2. CASE UNCHANGED <<dir, left, mishaps>> /\ disk[dir[up.name]] = Whole(m.from)
      BY <3>2
    <3>3. CASE UNCHANGED <<dir, left, mishaps>> /\ up.name \notin DOMAIN dir
      BY <3>3
    <3>4. CASE Mishap /\ left' = left \cup {up.name} /\ UNCHANGED dir
      BY <3>4
    <3> QED BY <1>2, <3>1, <3>2, <3>3, <3>4 DEF Verify
  <2> QED BY <1>0, <1>2, <2>1, <2>3, <2>4 DEF EndsUpload
<1> QED BY <1>1, <1>2 DEF UploadEnd

\* handleUploadCancel, without LET.
LEMMA UploadCancelEffect ==
    ASSUME UploadTypes, NEW s \in UpSession, UploadCancel(s)
    PROVE  EndsUpload(s) \/ IgnoresUpload(s)
<1> DEFINE m == Head(uplink[s])  up == uploads[s][m.id]
<1>0. disk' = disk /\ beginning' = beginning
  BY DEF UploadCancel
<1>1. CASE UNCHANGED <<uploads, dir, left, downlink, mishaps>>
  BY <1>0, <1>1 DEF IgnoresUpload
<1>2. CASE /\ m.id \in DOMAIN uploads[s] /\ uploads' = [uploads EXCEPT ![s] = Drop(uploads[s], m.id)]
           /\ Remove(up.name) /\ Fail(s, m.id, up.written)
  <2>1. /\ DOMAIN uploads' = UpSession /\ \A t \in UpSession : t # s => uploads'[t] = uploads[t]
        /\ DOMAIN uploads'[s] = DOMAIN uploads[s] \ {m.id}
        /\ \A id \in DOMAIN uploads[s] : id # m.id => uploads'[s][id] = uploads[s][id]
    <3> DEFINE i == m.id
    <3>1. uploads' = [uploads EXCEPT ![s] = Drop(uploads[s], i)]
      BY <1>2
    <3> HIDE DEF i
    <3>2. /\ DOMAIN uploads' = UpSession /\ \A t \in UpSession : t # s => uploads'[t] = uploads[t]
          /\ DOMAIN uploads'[s] = DOMAIN uploads[s] \ {i}
          /\ \A id \in DOMAIN uploads[s] : id # i => uploads'[s][id] = uploads[s][id]
      BY <3>1, RemoveUpload
    <3> QED BY <3>2 DEF i
  <2>2. up.written \in Nat
    BY <1>2, WrittenIsNat
  <2>3. \E ok \in BOOLEAN : \E k \in Nat : Answer(s, Status(m.id, ok, k))
    BY <1>2, <2>2 DEF Fail
  <2>4. /\ DOMAIN dir' \subseteq DOMAIN dir /\ \A n \in DOMAIN dir' : dir'[n] = dir[n]
        /\ left' \subseteq left \cup {up.name} /\ \A n \in DOMAIN dir' : n \in left => n \in left'
        /\ up.name \notin DOMAIN dir' \/ up.name \in left'
        /\ Mishap \/ UNCHANGED mishaps
    BY <1>2, RemoveEffect
  <2> QED BY <1>0, <1>2, <2>1, <2>3, <2>4 DEF EndsUpload
<1> QED BY <1>1, <1>2 DEF UploadCancel

\* A handler that ends uploads keeps the types.
LEMMA EndsTypes ==
    ASSUME UploadTypes, NEW s \in UpSession, NEW type, Arrived(s, type), Consume(s),
           UNCHANGED <<linkVars, browserVars>>, EndsUpload(s) \/ IgnoresUpload(s)
    PROVE  UploadTypes'
<1> USE DEF UploadTypes
<1> DEFINE m == Head(uplink[s])  up == uploads[s][m.id]
<1>0. m.id \in UploadId /\ uplink[s] # <<>> /\ beginning[s] = <<>>
  BY ArrivedMsg
<1>1. LinkTypes'
  BY SameLinks DEF EndsUpload, IgnoresUpload
<1>2. BrowserTypes'
  BY SameBrowser
<1>3. UpTypes'
  BY <1>0, ConsumeUp
<1>4. DownTypes'
  <2>1. CASE UNCHANGED downlink
    BY <2>1 DEF DownTypes
  <2>2. CASE \E ok \in BOOLEAN : \E k \in Nat : Answer(s, Status(m.id, ok, k))
    <3>1. PICK ok \in BOOLEAN, k \in Nat : Answer(s, Status(m.id, ok, k))
      BY <2>2
    <3>2. Status(m.id, ok, k) \in DownMsg
      BY <1>0, StatusType
    <3> QED BY <3>1, <3>2, AnswerDown
  <2> QED BY <2>1, <2>2 DEF EndsUpload, IgnoresUpload, Fail
<1>5. CASE IgnoresUpload(s)
  <2>1. ProxyTypes' /\ DirTypes'
    BY <1>5 DEF IgnoresUpload, ProxyTypes, DirTypes
  <2> QED BY <1>1, <1>2, <1>3, <1>4, <2>1
<1>6. CASE EndsUpload(s)
  <2>1. ProxyTypes'
    <3>1. /\ DOMAIN uploads' = UpSession /\ \A t \in UpSession : t # s => uploads'[t] = uploads[t]
          /\ DOMAIN uploads'[s] \subseteq DOMAIN uploads[s] /\ beginning' = beginning
          /\ \A id \in DOMAIN uploads'[s] : uploads'[s][id] = uploads[s][id]
      BY <1>6 DEF EndsUpload
    <3> QED BY <1>0, <3>1, FewerUploads
  <2>2. DirTypes'
    <3>1. disk' = disk /\ DOMAIN dir' \subseteq DOMAIN dir /\ \A n \in DOMAIN dir' : dir'[n] = dir[n]
      BY <1>6 DEF EndsUpload
    <3>2. up.name \in Names /\ left' \subseteq left \cup {up.name}
      <4>1. m.id \in DOMAIN uploads[s] /\ left' \subseteq left \cup {up.name}
        BY <1>6 DEF EndsUpload
      <4>2. up \in UploadState
        BY <4>1 DEF ProxyTypes
      <4> QED BY <4>1, <4>2 DEF UploadState
    <3> QED BY <3>1, <3>2 DEF DirTypes
  <2> QED BY <1>1, <1>2, <1>3, <1>4, <2>1, <2>2
<1> QED BY <1>5, <1>6

LEMMA UploadEndTypes ==
    ASSUME UploadTypes, NEW s \in UpSession, UploadEnd(s)
    PROVE  UploadTypes'
  BY UploadEndEffect, EndsTypes DEF UploadEnd

LEMMA UploadCancelTypes ==
    ASSUME UploadTypes, NEW s \in UpSession, UploadCancel(s)
    PROVE  UploadTypes'
  BY UploadCancelEffect, EndsTypes DEF UploadCancel

LEMMA CleanupUploadsTypes ==
    ASSUME UploadTypes, NEW s \in UpSession, CleanupUploads(s)
    PROVE  UploadTypes'
<1> USE DEF UploadTypes
<1>l. LinkTypes' /\ BrowserTypes'
  BY SameBrowser DEF CleanupUploads, LinkTypes
<1>1. UpTypes' /\ DownTypes'
  BY DEF CleanupUploads, UpTypes, DownTypes
<1>d. DirTypes'
  <2>1. \A id \in DOMAIN uploads[s] : uploads[s][id].name \in Names
    BY DEF ProxyTypes, UploadState
  <2> QED BY <2>1 DEF CleanupUploads, DirTypes
<1>2. DOMAIN uploads = UpSession
  BY DEF ProxyTypes
<1>3. /\ DOMAIN uploads' = UpSession /\ \A t \in UpSession : t # s => uploads'[t] = uploads[t]
      /\ uploads'[s] = <<>> /\ beginning' = beginning /\ beginning[s] = <<>>
  BY <1>2 DEF CleanupUploads
<1>4. DOMAIN uploads'[s] = {}
  BY <1>3
<1>5. ProxyTypes'
  BY <1>3, <1>4, FewerUploads
<1> QED BY <1>l, <1>d, <1>1, <1>5

\* UploadTypes is an invariant of Upload.
LEMMA UploadStepTypes == UploadTypes /\ [UploadNext]_uploadVars => UploadTypes'
<1> SUFFICES ASSUME UploadTypes, [UploadNext]_uploadVars PROVE UploadTypes'
  OBVIOUS
<1>1. CASE UNCHANGED uploadVars
  BY <1>1 DEF uploadVars, linkVars, browserVars, proxyVars, UploadTypes, LinkTypes, BrowserTypes, UpTypes, DownTypes,
              ProxyTypes, DirTypes
<1>2. ASSUME NEW s \in UpSession, ProxyStep(s) PROVE UploadTypes'
  BY <1>2, UploadBeginChecksTypes, UploadBeginCreatesTypes, UploadBeginFailsTypes, UploadChunkTypes,
     UploadEndTypes, UploadCancelTypes, CleanupUploadsTypes DEF ProxyStep
<1>3. ASSUME NEW s \in UpSession, HandleUploadStatus(s) \/ SocketOpens(s) \/ ConnectionLost(s) PROVE UploadTypes'
  BY <1>3, HandleUploadStatusTypes, SocketOpensTypes, ConnectionLostTypes
<1>4. ASSUME NEW s \in UpSession, NEW id \in UploadId,
             UploadFile(s, id) \/ SendFile(s, id) \/ FileUnreadable(s, id) \/ CancelUpload(s, id)
      PROVE  UploadTypes'
  BY <1>4, UploadFileTypes, SendFileTypes, FileUnreadableTypes, CancelUploadTypes
<1>5. ASSUME NEW b \in Browser, PerformReconnect(b) PROVE UploadTypes'
  BY <1>5, PerformReconnectTypes
<1> QED BY <1>1, <1>2, <1>3, <1>4, <1>5 DEF UploadNext

\* The types of the proof are those of the specification.
LEMMA UploadMeansTypes == UploadTypes => UploadTypeOK
  BY DEF UploadTypes, LinkTypes, BrowserTypes, ProxyTypes, DirTypes, UploadTypeOK

\* Every part of the upload state keeps its type; in particular no session has
\* more uploads open than maxConcurrentUploads, although the count is taken before
\* the file is created, and no file outgrows MaxUploadSize.
THEOREM UploadTypeCorrect == UploadSpec => []UploadTypeOK
  BY UploadMeansTypes, UploadInitTypes, UploadStepTypes, PTL DEF UploadSpec

-----------------------------------------------------------------------------
(* Begins happen once, and inodes have one name. *)

\* No step but os.Create makes a name or a handle refer to another inode.
Shrinks ==
    /\ DOMAIN dir' \subseteq DOMAIN dir /\ \A n \in DOMAIN dir' : dir'[n] = dir[n]
    /\ \A t \in UpSession :
          /\ DOMAIN uploads'[t] \subseteq DOMAIN uploads[t]
          /\ \A j \in DOMAIN uploads'[t] :
                uploads'[t][j].inode = uploads[t][j].inode /\ uploads'[t][j].name = uploads[t][j].name

\* While handles and names only go, an inode that does not exist is not made.
LEMMA UnbornStays ==
    ASSUME Shrinks, NEW s \in UpSession, NEW id, Unborn(s, id)
    PROVE  Unborn(s, id)'
  BY DEF Shrinks, Unborn

\* Nor does an inode get a second name.
LEMMA OneNameStays ==
    ASSUME Shrinks, OneName
    PROVE  OneName'
  BY DEF Shrinks, OneName

\* What is known of a session in which nothing happens.
LEMMA OtherSession ==
    ASSUME NEW t \in UpSession, IdleAt(t), QueuedAt(t), BeginningAt(t), uplink'[t] = uplink[t],
           beginning'[t] = beginning[t], \A id \in UploadId : stage'[<<t, id>>] = stage[<<t, id>>],
           \A id : Unborn(t, id) => Unborn(t, id)'
    PROVE  IdleAt(t)' /\ QueuedAt(t)' /\ BeginningAt(t)'
<1>1. IdleAt(t)'
  BY DEF IdleAt
<1>2. QueuedAt(t)'
  BY DEF QueuedAt
<1>3. BeginningAt(t)'
  BY DEF BeginningAt
<1> QED BY <1>1, <1>2, <1>3

\* The proxy takes a message; a begin may become the one that is beginning.
LEMMA ConsumeBegins ==
    ASSUME UploadTypes, BeginsOnce, Shrinks, NEW s \in UpSession, uplink[s] # <<>>, Consume(s),
           stage' = stage, beginning[s] = <<>>,
           \A t \in UpSession : t # s => beginning'[t] = beginning[t],
           \/ beginning'[s] = <<>>
           \/ uplink[s][1].type = "begin" /\ Head(beginning'[s]).id = uplink[s][1].id
    PROVE  BeginsOnce'
<1> DEFINE q == uplink[s]
<1>1. q \in Seq(UpMsg)
  BY DEF UploadTypes, UpTypes
<1>2. uplink'[s] = Tail(q) /\ \A t \in UpSession : t # s => uplink'[t] = uplink[t]
  BY DEF UploadTypes, UpTypes, Consume
<1>3. /\ 1 \in 1..Len(q) /\ Len(q) \in Nat
      /\ \A i \in 1..Len(Tail(q)) : i + 1 \in 1..Len(q) /\ Tail(q)[i] = q[i + 1] /\ i \in Nat
  BY <1>1, RestOfQueue
<1>u. \A t \in UpSession : \A id : Unborn(t, id) => Unborn(t, id)'
  BY UnbornStays
<1>4. ASSUME NEW t \in UpSession, t # s PROVE IdleAt(t)' /\ QueuedAt(t)' /\ BeginningAt(t)'
  <2>1. IdleAt(t) /\ QueuedAt(t) /\ BeginningAt(t) /\ uplink'[t] = uplink[t] /\ beginning'[t] = beginning[t]
    BY <1>2, <1>4 DEF BeginsOnce
  <2> QED BY <1>u, <2>1, OtherSession
<1> HIDE DEF q
<1>5. IdleAt(s)'
  <2> SUFFICES ASSUME NEW id \in UploadId, stage[<<s, id>>] = "idle"
               PROVE  /\ Unborn(s, id)'
                      /\ \A i \in 1..Len(uplink'[s]) : uplink'[s][i].type = "begin" => uplink'[s][i].id # id
                      /\ beginning'[s] # <<>> => Head(beginning'[s]).id # id
    BY DEF IdleAt
  <2>1. Unborn(s, id) /\ \A i \in 1..Len(q) : q[i].type = "begin" => q[i].id # id
    BY DEF BeginsOnce, IdleAt, q
  <2>2. \A i \in 1..Len(Tail(q)) : Tail(q)[i].type = "begin" => Tail(q)[i].id # id
    BY <1>3, <2>1
  <2>3. q[1].type = "begin" => q[1].id # id
    BY <1>3, <2>1
  <2> QED BY <1>2, <1>u, <2>1, <2>2, <2>3 DEF q
<1>6. \A i \in 1..Len(q) : q[i].type = "begin" =>
         /\ Unborn(s, q[i].id)
         /\ \A j \in 1..Len(q) : q[j].type = "begin" /\ q[j].id = q[i].id => j = i
  BY DEF BeginsOnce, QueuedAt, q
<1>7. QueuedAt(s)'
  <2>1. ASSUME NEW i \in 1..Len(Tail(q)), Tail(q)[i].type = "begin", NEW id, id = Tail(q)[i].id
        PROVE  /\ Unborn(s, id)'
               /\ beginning'[s] # <<>> => Head(beginning'[s]).id # id
               /\ \A j \in 1..Len(Tail(q)) : Tail(q)[j].type = "begin" /\ Tail(q)[j].id = id => j = i
    <3>1. i + 1 \in 1..Len(q) /\ Tail(q)[i] = q[i + 1] /\ i \in Nat /\ i + 1 # 1
      BY <1>3
    <3>2. Unborn(s, id)
      BY <1>6, <2>1, <3>1
    <3>3. \A j \in 1..Len(Tail(q)) : Tail(q)[j].type = "begin" /\ Tail(q)[j].id = id => j = i
      BY <1>3, <1>6, <2>1, <3>1
    <3>4. q[1].type = "begin" => q[1].id # id
      BY <1>3, <1>6, <2>1, <3>1
    <3>5. beginning'[s] # <<>> => Head(beginning'[s]).id # id
      BY <3>4 DEF q
    <3> QED BY <1>u, <3>2, <3>3, <3>5
  <2>2. \A i \in 1..Len(Tail(q)) : Tail(q)[i].type = "begin" => \A id : id = Tail(q)[i].id =>
            /\ Unborn(s, id)'
            /\ beginning'[s] # <<>> => Head(beginning'[s]).id # id
            /\ \A j \in 1..Len(Tail(q)) : Tail(q)[j].type = "begin" /\ Tail(q)[j].id = id => j = i
    BY <2>1, Zenon
  <2> DEFINE r == Tail(q)
  <2>3. uplink'[s] = r
    BY <1>2
  <2> HIDE DEF r
  <2>4. \A i \in 1..Len(r) : r[i].type = "begin" => \A id : id = r[i].id =>
            /\ Unborn(s, id)'
            /\ beginning'[s] # <<>> => Head(beginning'[s]).id # id
            /\ \A j \in 1..Len(r) : r[j].type = "begin" /\ r[j].id = id => j = i
    BY <2>2, Zenon DEF r
  <2> QED BY <2>3, <2>4 DEF QueuedAt
<1>8. BeginningAt(s)'
  <2>1. q[1].type = "begin" => Unborn(s, q[1].id)
    BY <1>3, <1>6
  <2> QED BY <1>u, <2>1 DEF BeginningAt, q
<1> QED BY <1>4, <1>5, <1>7, <1>8 DEF BeginsOnce

\* Steps that send nothing to the proxy: the link stays or is lost, a begin ends.
LEMMA QuietBegins ==
    ASSUME BeginsOnce, Shrinks, stage' = stage,
           \A t \in UpSession : uplink'[t] = uplink[t] \/ uplink'[t] = <<>>,
           \A t \in UpSession : beginning'[t] = beginning[t] \/ beginning'[t] = <<>>
    PROVE  BeginsOnce'
<1> SUFFICES ASSUME NEW t \in UpSession PROVE IdleAt(t)' /\ QueuedAt(t)' /\ BeginningAt(t)'
  BY DEF BeginsOnce
<1>u. \A id : Unborn(t, id) => Unborn(t, id)'
  BY UnbornStays
<1>1. IdleAt(t) /\ QueuedAt(t) /\ BeginningAt(t)
  BY DEF BeginsOnce
<1>2. uplink'[t] = uplink[t] \/ (uplink'[t] = <<>> /\ \A i \in 1..Len(uplink'[t]) : FALSE)
  <2>1. \A i \in 1..Len(<<>>) : FALSE
    OBVIOUS
  <2> QED BY <2>1
<1>3. IdleAt(t)'
  BY <1>u, <1>1, <1>2 DEF IdleAt
<1>4. QueuedAt(t)'
  BY <1>u, <1>1, <1>2 DEF QueuedAt
<1>5. BeginningAt(t)'
  BY <1>u, <1>1 DEF BeginningAt
<1> QED BY <1>3, <1>4, <1>5

\* The browser sends messages other than a begin, over a connection that need not be
\* the one the upload began on.
LEMMA SendBegins ==
    ASSUME UploadTypes, BeginsOnce, NEW s \in UpSession, NEW msgs \in Seq(UpMsg),
           Send(s, msgs), \A i \in 1..Len(msgs) : msgs[i].type # "begin",
           \A t \in UpSession : \A j \in UploadId : stage'[<<t, j>>] = "idle" <=> stage[<<t, j>>] = "idle",
           beginning' = beginning, uploads' = uploads, dir' = dir
    PROVE  BeginsOnce'
<1> DEFINE q == uplink[s]
<1>1. q \in Seq(UpMsg)
  BY DEF UploadTypes, UpTypes
<1>2. /\ uplink'[s] = q \/ uplink'[s] = q \o msgs
      /\ \A t \in UpSession : t # s => uplink'[t] = uplink[t]
  BY DEF UploadTypes, UpTypes, Send
<1>u. \A t \in UpSession : \A j : Unborn(t, j) => Unborn(t, j)'
  BY DEF Unborn
<1> HIDE DEF q
<1>3. \A i \in 1..Len(uplink'[s]) :
        \/ i \in 1..Len(q) /\ uplink'[s][i] = q[i]
        \/ uplink'[s][i].type # "begin"
  <2>1. CASE uplink'[s] = q
    BY <2>1
  <2>2. CASE uplink'[s] = q \o msgs
    BY <1>1, <2>2, QueuesInARow
  <2> QED BY <1>2, <2>1, <2>2
<1>4. ASSUME NEW t \in UpSession, t # s PROVE IdleAt(t)' /\ QueuedAt(t)' /\ BeginningAt(t)'
  BY <1>2, <1>4, <1>u DEF BeginsOnce, IdleAt, QueuedAt, BeginningAt
<1>5. IdleAt(s)'
  <2>1. IdleAt(s)
    BY DEF BeginsOnce
  <2> SUFFICES ASSUME NEW j \in UploadId, stage'[<<s, j>>] = "idle"
               PROVE  /\ Unborn(s, j)'
                      /\ \A i \in 1..Len(uplink'[s]) : uplink'[s][i].type = "begin" => uplink'[s][i].id # j
                      /\ beginning'[s] # <<>> => Head(beginning'[s]).id # j
    BY DEF IdleAt
  <2>2. stage[<<s, j>>] = "idle"
    OBVIOUS
  <2>3. /\ Unborn(s, j) /\ (\A i \in 1..Len(q) : q[i].type = "begin" => q[i].id # j)
        /\ beginning[s] # <<>> => Head(beginning[s]).id # j
    BY <2>1, <2>2 DEF IdleAt, q
  <2> QED BY <1>3, <1>u, <2>2, <2>3
<1>6. QueuedAt(s)'
  <2>1. QueuedAt(s)
    BY DEF BeginsOnce
  <2> QED BY <1>3, <1>u, <2>1 DEF QueuedAt, q
<1>7. BeginningAt(s)'
  BY <1>u DEF BeginsOnce, BeginningAt
<1> QED BY <1>4, <1>5, <1>6, <1>7 DEF BeginsOnce

\* os.Create makes the inode of the upload that begins, and no other.
LEMMA CreatesUnborn ==
    ASSUME NEW s \in UpSession, CreatesFile(s), NEW t \in UpSession, NEW id, Unborn(t, id),
           t # s \/ id # Head(beginning[s]).id
    PROVE  Unborn(t, id)'
<1> DEFINE b == Head(beginning[s])
           ino == IF b.name \in DOMAIN dir THEN dir[b.name] ELSE <<s, b.id>>
<1>1. ino # <<t, id>>
  <2>1. <<s, b.id>> # <<t, id>>
    OBVIOUS
  <2> QED BY <2>1 DEF Unborn
<1>2. \A n \in DOMAIN dir' : dir'[n] # <<t, id>>
  <2>1. /\ DOMAIN dir' = DOMAIN dir \cup {b.name} /\ dir'[b.name] = ino
        /\ \A n \in DOMAIN dir : n # b.name => dir'[n] = dir[n]
    BY DEF CreatesFile
  <2> HIDE DEF ino
  <2> QED BY <1>1, <2>1 DEF Unborn
<1>3. uploads'[s][b.id].inode = ino
  BY DEF CreatesFile
<1>4. \A k \in UpSession : \A j \in DOMAIN uploads'[k] : uploads'[k][j].inode # <<t, id>>
  <2> HIDE DEF ino
  <2>1. /\ \A k \in UpSession : k # s => uploads'[k] = uploads[k]
        /\ DOMAIN uploads'[s] = DOMAIN uploads[s] \cup {b.id}
        /\ \A j \in DOMAIN uploads[s] : j # b.id => uploads'[s][j] = uploads[s][j]
    BY DEF CreatesFile
  <2>2. \A k \in UpSession : \A j \in DOMAIN uploads[k] : uploads[k][j].inode # <<t, id>>
    BY DEF Unborn
  <2> HIDE DEF b
  <2>3. \A j \in DOMAIN uploads'[s] : uploads'[s][j].inode # <<t, id>>
    <3>1. ASSUME NEW j \in DOMAIN uploads'[s] PROVE uploads'[s][j].inode # <<t, id>>
      <4>1. CASE j = b.id
        BY <1>1, <1>3, <4>1
      <4>2. CASE j # b.id
        <5>1. j \in DOMAIN uploads[s] /\ uploads'[s][j] = uploads[s][j]
          BY <2>1, <4>2
        <5> QED BY <2>2, <5>1
      <4> QED BY <4>1, <4>2
    <3> QED BY <3>1
  <2>4. \A k \in UpSession : k # s => \A j \in DOMAIN uploads'[k] : uploads'[k][j].inode # <<t, id>>
    BY <2>1, <2>2
  <2> QED BY <2>3, <2>4
<1>5. id \notin DOMAIN uploads'[t]
  BY DEF CreatesFile, Unborn
<1> QED BY <1>2, <1>4, <1>5 DEF Unborn

\* os.Create uses up the begin it serves.
LEMMA CreatesBegins ==
    ASSUME UploadTypes, BeginsOnce, NEW s \in UpSession, UploadBeginCreates(s), CreatesFile(s)
    PROVE  BeginsOnce'
<1> DEFINE b == Head(beginning[s])
<1>1. uplink' = uplink /\ stage' = stage /\ beginning[s] # <<>>
  BY DEF UploadBeginCreates, browserVars
<1>2. beginning'[s] = <<>> /\ \A t \in UpSession : t # s => beginning'[t] = beginning[t]
  BY DEF CreatesFile, UploadTypes, ProxyTypes
<1>3. ASSUME NEW t \in UpSession, t # s PROVE IdleAt(t)' /\ QueuedAt(t)' /\ BeginningAt(t)'
  <2>1. \A id : Unborn(t, id) => Unborn(t, id)'
    BY <1>3, CreatesUnborn
  <2>2. IdleAt(t) /\ QueuedAt(t) /\ BeginningAt(t) /\ beginning'[t] = beginning[t] /\ uplink'[t] = uplink[t]
    BY <1>1, <1>2, <1>3 DEF BeginsOnce
  <2> QED BY <1>1, <2>1, <2>2, OtherSession
<1>u. \A id : Unborn(s, id) /\ id # b.id => Unborn(s, id)'
  BY CreatesUnborn
<1>4. IdleAt(s) /\ QueuedAt(s)
  BY DEF BeginsOnce
<1>5. IdleAt(s)'
  BY <1>1, <1>2, <1>4, <1>u DEF IdleAt
<1>6. QueuedAt(s)'
  BY <1>1, <1>2, <1>4, <1>u DEF QueuedAt
<1>7. BeginningAt(s)'
  BY <1>2 DEF BeginningAt
<1> QED BY <1>3, <1>5, <1>6, <1>7 DEF BeginsOnce

\* A new inode gets one name; one that is truncated keeps its name.
LEMMA CreatesOneName ==
    ASSUME UploadTypes, BeginsOnce, OneName, NEW s \in UpSession, UploadBeginCreates(s), CreatesFile(s)
    PROVE  OneName'
<1> DEFINE b == Head(beginning[s])
           ino == IF b.name \in DOMAIN dir THEN dir[b.name] ELSE <<s, b.id>>
<1>1. Unborn(s, b.id)
  BY DEF UploadBeginCreates, BeginsOnce, BeginningAt
<1>2. /\ DOMAIN dir' = DOMAIN dir \cup {b.name} /\ dir'[b.name] = ino
      /\ \A n \in DOMAIN dir : n # b.name => dir'[n] = dir[n]
      /\ \A k \in UpSession : k # s => uploads'[k] = uploads[k]
      /\ DOMAIN uploads'[s] = DOMAIN uploads[s] \cup {b.id}
      /\ \A j \in DOMAIN uploads[s] : j # b.id => uploads'[s][j] = uploads[s][j]
  BY DEF CreatesFile
<1>3. uploads'[s][b.id].inode = ino /\ uploads'[s][b.id].name = b.name
  BY DEF CreatesFile
<1>4. \A n \in DOMAIN dir : dir[n] = ino => n = b.name
  BY <1>1 DEF OneName, Unborn
<1>5. \A k \in UpSession : \A j \in DOMAIN uploads[k] : uploads[k][j].inode = ino => uploads[k][j].name = b.name
  BY <1>1 DEF OneName, Unborn
<1> HIDE DEF b, ino
<1>6. \A n, k \in DOMAIN dir' : dir'[n] = dir'[k] => n = k
  BY <1>2, <1>4 DEF OneName
<1>7. ASSUME NEW t \in UpSession, NEW j \in DOMAIN uploads'[t], NEW n \in DOMAIN dir', dir'[n] = uploads'[t][j].inode
      PROVE  n = uploads'[t][j].name
  <2>1. CASE t = s /\ j = b.id
    BY <1>2, <1>3, <1>4, <1>7, <2>1
  <2>2. CASE ~(t = s /\ j = b.id)
    <3>1. j \in DOMAIN uploads[t] /\ uploads'[t][j] = uploads[t][j]
      BY <1>2, <2>2
    <3>2. CASE n = b.name
      BY <1>2, <1>5, <1>7, <3>1, <3>2
    <3>3. CASE n # b.name
      BY <1>2, <1>7, <3>1, <3>3 DEF OneName
    <3> QED BY <3>2, <3>3
  <2> QED BY <2>1, <2>2
<1> QED BY <1>6, <1>7 DEF OneName

\* Taking a message, or sending none of an end, leaves the ends that are under way.
LEMMA ConsumeEnds ==
    ASSUME UploadTypes, EndIsSent, NEW s \in UpSession, uplink[s] # <<>>, Consume(s), stage' = stage
    PROVE  EndIsSent'
<1> DEFINE q == uplink[s]
<1>1. q \in Seq(UpMsg)
  BY DEF UploadTypes, UpTypes
<1>2. uplink'[s] = Tail(q) /\ \A t \in UpSession : t # s => uplink'[t] = uplink[t]
  BY DEF UploadTypes, UpTypes, Consume
<1>3. \A i \in 1..Len(Tail(q)) : i + 1 \in 1..Len(q) /\ Tail(q)[i] = q[i + 1]
  BY <1>1, RestOfQueue
<1>4. \A i \in 1..Len(q) : q[i].type = "end" => stage[q[i].from] = "sent"
  BY DEF EndIsSent
<1> HIDE DEF q
<1>5. \A i \in 1..Len(uplink'[s]) : uplink'[s][i].type = "end" => stage'[uplink'[s][i].from] = "sent"
  BY <1>2, <1>3, <1>4
<1>6. \A t \in UpSession : t # s => \A i \in 1..Len(uplink'[t]) :
         uplink'[t][i].type = "end" => stage'[uplink'[t][i].from] = "sent"
  BY <1>2 DEF EndIsSent
<1> QED BY <1>5, <1>6 DEF EndIsSent

\* The link to the proxy is left alone or lost.
LEMMA QuietEnds ==
    ASSUME EndIsSent, \A t \in UpSession : uplink'[t] = uplink[t] \/ uplink'[t] = <<>>, stage' = stage
    PROVE  EndIsSent'
<1> SUFFICES ASSUME NEW t \in UpSession
             PROVE  \A i \in 1..Len(uplink'[t]) : uplink'[t][i].type = "end" => stage'[uplink'[t][i].from] = "sent"
  BY DEF EndIsSent
<1>1. CASE uplink'[t] = uplink[t]
  BY <1>1 DEF EndIsSent
<1>2. CASE uplink'[t] = <<>>
  <2>1. \A i \in 1..Len(<<>>) : FALSE
    OBVIOUS
  <2> QED BY <1>2, <2>1
<1> QED BY <1>1, <1>2

\* An end is sent for a file that was sent.
LEMMA SendEnds ==
    ASSUME UploadTypes, EndIsSent, NEW s \in UpSession, NEW msgs \in Seq(UpMsg), Send(s, msgs),
           \A i \in 1..Len(msgs) : msgs[i].type = "end" => stage'[msgs[i].from] = "sent",
           \A u \in Upload : stage[u] = "sent" => stage'[u] = "sent"
    PROVE  EndIsSent'
<1> DEFINE q == uplink[s]
<1>1. q \in Seq(UpMsg)
  BY DEF UploadTypes, UpTypes
<1>2. /\ uplink'[s] = q \/ uplink'[s] = q \o msgs
      /\ \A t \in UpSession : t # s => uplink'[t] = uplink[t]
  BY DEF UploadTypes, UpTypes, Send
<1>3. \A t \in UpSession : \A i \in 1..Len(uplink[t]) : uplink[t][i].from \in Upload
  BY DEF UploadTypes, UpTypes, UpMsg
<1>4. \A t \in UpSession : \A i \in 1..Len(uplink[t]) :
         uplink[t][i].type = "end" => stage'[uplink[t][i].from] = "sent"
  BY <1>3 DEF EndIsSent
<1>5. \A i \in 1..Len(q) : q[i].type = "end" => stage'[q[i].from] = "sent"
  BY <1>4
<1> HIDE DEF q
<1>6. \A i \in 1..Len(uplink'[s]) : uplink'[s][i].type = "end" => stage'[uplink'[s][i].from] = "sent"
  <2>1. CASE uplink'[s] = q
    BY <1>5, <2>1
  <2>2. CASE uplink'[s] = q \o msgs
    <3>1. \A i \in 1..Len(q \o msgs) : (i \in 1..Len(q) /\ (q \o msgs)[i] = q[i])
             \/ (i - Len(q) \in 1..Len(msgs) /\ (q \o msgs)[i] = msgs[i - Len(q)])
      BY <1>1, QueuesInARow
    <3> QED BY <1>5, <2>2, <3>1
  <2> QED BY <1>2, <2>1, <2>2
<1> QED BY <1>2, <1>4, <1>6 DEF EndIsSent

-----------------------------------------------------------------------------
(* The directory: every step keeps DirInv. *)

\* What is in the directory stays accounted for while the directory is left alone.
LEMMA DebrisQuiet ==
    ASSUME NoDebris, dir' = dir, disk' = disk, uploads' = uploads, left' = left,
           \A u \in Upload : stage[u] = "sent" => stage'[u] = "sent" /\ sizeOf'[u] = sizeOf[u]
    PROVE  NoDebris'
<1> SUFFICES ASSUME NEW n \in DOMAIN dir
             PROVE  \/ n \in left
                    \/ \E s \in UpSession : \E id \in DOMAIN uploads[s] : uploads[s][id].name = n
                    \/ \E u \in Upload : stage'[u] = "sent" /\ disk[dir[n]] = Whole(u)'
  BY DEF NoDebris
<1>1. \A u \in Upload : stage[u] = "sent" => Whole(u)' = Whole(u)
  BY DEF Whole
<1> QED BY <1>1 DEF NoDebris

\* The lemmas that end in Dir: initially, and in every step, the directory is tidy.
LEMMA DirInitInv == UploadInit => DirInv
<1> SUFFICES ASSUME UploadInit PROVE DirInv
  OBVIOUS
<1>1. UploadTypes
  BY UploadInitTypes
<1>2. DOMAIN dir = {} /\ \A s \in UpSession : /\ DOMAIN uploads[s] = {} /\ beginning[s] = <<>>
                                              /\ \A i \in 1..Len(uplink[s]) : FALSE
  BY DEF UploadInit
<1>3. BeginsOnce
  BY <1>2 DEF BeginsOnce, IdleAt, QueuedAt, BeginningAt, Unborn
<1>4. OneName /\ EndIsSent /\ NoDebris
  BY <1>2 DEF OneName, EndIsSent, NoDebris
<1> QED BY <1>1, <1>3, <1>4 DEF DirInv

\* uploadFile begins an upload that did not begin before.
LEMMA UploadFileBegins ==
    ASSUME DirInv, NEW s \in UpSession, NEW id \in UploadId, UploadFile(s, id)
    PROVE  BeginsOnce'
<1> USE DEF DirInv
<1> DEFINE q == uplink[s]
<1>0. <<s, id>> \in Upload
  BY InUpload
<1>1. q \in Seq(UpMsg)
  BY DEF UploadTypes, UpTypes
<1>2. PICK n \in Sizes : Send(s, <<Msg("begin", id, n, <<s, id>>)>>)
  BY DEF UploadFile
<1> DEFINE m == Msg("begin", id, n, <<s, id>>)
<1>3. m \in UpMsg /\ m.id = id /\ m.type = "begin"
  BY <1>0, UploadAssumption DEF Msg, UpMsg
<1>4. uplink'[s] \in {q, q \o <<m>>} /\ \A t \in UpSession : t # s => uplink'[t] = uplink[t]
  BY <1>2 DEF UploadFile, UploadTypes, UpTypes, Send
<1> HIDE DEF m, q
<1>5. /\ Len(q) \in Nat
      /\ \A i \in 1..Len(uplink'[s]) :
            \/ i \in 1..Len(q) /\ uplink'[s][i] = q[i]
            \/ i = Len(q) + 1 /\ uplink'[s][i] = m
  <2>1. CASE uplink'[s] = q
    BY <1>1, <2>1
  <2>2. CASE uplink'[s] = q \o <<m>>
    BY <1>1, <1>3, <2>2
  <2> QED BY <1>4, <2>1, <2>2
<1>6. UNCHANGED <<beginning, uploads, dir>>
  BY DEF UploadFile, proxyVars
<1>u. \A t \in UpSession : \A j : Unborn(t, j) => Unborn(t, j)'
  BY <1>6 DEF Unborn
<1>7. /\ \A u \in Upload : u # <<s, id>> => stage'[u] = stage[u]
      /\ stage'[<<s, id>>] = "reading"
  BY <1>0 DEF UploadFile, UploadTypes, BrowserTypes
<1>8. IdleAt(s) /\ QueuedAt(s) /\ BeginningAt(s)
  BY DEF BeginsOnce
<1>9. /\ Unborn(s, id) /\ (\A i \in 1..Len(q) : q[i].type = "begin" => q[i].id # id)
      /\ (beginning[s] # <<>> => Head(beginning[s]).id # id)
  BY <1>8 DEF UploadFile, IdleAt, q
<1>10. ASSUME NEW t \in UpSession, t # s PROVE IdleAt(t)' /\ QueuedAt(t)' /\ BeginningAt(t)'
  <2>1. \A j \in UploadId : stage'[<<t, j>>] = stage[<<t, j>>]
    <3> SUFFICES ASSUME NEW j \in UploadId PROVE stage'[<<t, j>>] = stage[<<t, j>>]
      OBVIOUS
    <3>1. <<t, j>> \in Upload /\ <<t, j>> # <<s, id>>
      BY <1>10, InUpload
    <3> QED BY <1>7, <3>1
  <2>2. IdleAt(t) /\ QueuedAt(t) /\ BeginningAt(t) /\ uplink'[t] = uplink[t] /\ beginning'[t] = beginning[t]
    BY <1>4, <1>6, <1>10 DEF BeginsOnce
  <2> QED BY <1>u, <2>1, <2>2, OtherSession
<1>11. IdleAt(s)'
  <2> SUFFICES ASSUME NEW j \in UploadId, stage'[<<s, j>>] = "idle"
               PROVE  /\ Unborn(s, j)'
                      /\ \A i \in 1..Len(uplink'[s]) : uplink'[s][i].type = "begin" => uplink'[s][i].id # j
                      /\ beginning'[s] # <<>> => Head(beginning'[s]).id # j
    BY DEF IdleAt
  <2>1. j # id
    BY <1>7
  <2>2. <<s, j>> \in Upload /\ <<s, j>> # <<s, id>>
    BY <2>1, InUpload
  <2>3. stage[<<s, j>>] = "idle"
    BY <1>7, <2>2
  <2>4. /\ Unborn(s, j) /\ (\A i \in 1..Len(q) : q[i].type = "begin" => q[i].id # j)
        /\ (beginning[s] # <<>> => Head(beginning[s]).id # j)
    BY <1>8, <2>3 DEF IdleAt, q
  <2>5. \A i \in 1..Len(uplink'[s]) : uplink'[s][i].type = "begin" => uplink'[s][i].id # j
    BY <1>3, <1>5, <2>1, <2>4
  <2> QED BY <1>6, <1>u, <2>4, <2>5
<1>12. QueuedAt(s)'
  <2>1. \A i \in 1..Len(q) : q[i].type = "begin" =>
           /\ Unborn(s, q[i].id)
           /\ beginning[s] # <<>> => Head(beginning[s]).id # q[i].id
           /\ \A j \in 1..Len(q) : q[j].type = "begin" /\ q[j].id = q[i].id => j = i
    BY <1>8 DEF QueuedAt, q
  <2> DEFINE r == uplink'[s]
  <2> HIDE DEF r
  <2>2. \A i \in 1..Len(r) : r[i].type = "begin" => \A j : j = r[i].id =>
            Unborn(s, j) /\ (beginning[s] # <<>> => Head(beginning[s]).id # j)
    BY <1>3, <1>5, <1>9, <2>1 DEF r
  <2>3. \A i \in 1..Len(r) : r[i].type = "begin" =>
            \A j \in 1..Len(r) : r[j].type = "begin" /\ r[j].id = r[i].id => j = i
    BY <1>3, <1>5, <1>9, <2>1 DEF r
  <2> QED BY <1>6, <1>u, <2>2, <2>3 DEF QueuedAt, r
<1>13. BeginningAt(s)'
  BY <1>6, <1>8, <1>u DEF BeginningAt
<1> QED BY <1>10, <1>11, <1>12, <1>13 DEF BeginsOnce

LEMMA UploadFileDir ==
    ASSUME DirInv, NEW s \in UpSession, NEW id \in UploadId, UploadFile(s, id)
    PROVE  DirInv'
<1> USE DEF DirInv
<1>0. <<s, id>> \in Upload
  BY InUpload
<1>1. PICK n \in Sizes : Send(s, <<Msg("begin", id, n, <<s, id>>)>>) /\ sizeOf' = [sizeOf EXCEPT ![<<s, id>>] = n]
  BY DEF UploadFile
<1>2. /\ stage[<<s, id>>] = "idle"
      /\ \A u \in Upload : u # <<s, id>> => stage'[u] = stage[u] /\ sizeOf'[u] = sizeOf[u]
  BY <1>0, <1>1 DEF UploadFile, UploadTypes, BrowserTypes
<1>3. UNCHANGED <<beginning, uploads, dir, disk, left>>
  BY DEF UploadFile, proxyVars
<1>4. UploadTypes'
  BY UploadFileTypes
<1>5. BeginsOnce'
  BY UploadFileBegins
<1>6. OneName'
  BY <1>3 DEF OneName
<1>7. EndIsSent'
  <2> DEFINE m == Msg("begin", id, n, <<s, id>>)
  <2>1. m \in UpMsg /\ m.type = "begin"
    BY <1>0, UploadAssumption DEF Msg, UpMsg
  <2>2. Send(s, <<m>>)
    BY <1>1
  <2> HIDE DEF m
  <2>3. <<m>> \in Seq(UpMsg) /\ \A i \in 1..Len(<<m>>) : <<m>>[i].type # "end"
    BY <2>1
  <2>4. \A u \in Upload : stage[u] = "sent" => stage'[u] = "sent"
    BY <1>2
  <2> QED BY <2>2, <2>3, <2>4, SendEnds
<1>8. NoDebris'
  <2>1. \A u \in Upload : stage[u] = "sent" => stage'[u] = "sent" /\ sizeOf'[u] = sizeOf[u]
    BY <1>2
  <2> QED BY <1>3, <2>1, DebrisQuiet
<1> QED BY <1>4, <1>5, <1>6, <1>7, <1>8

LEMMA SendFileDir ==
    ASSUME DirInv, NEW s \in UpSession, NEW id \in UploadId, SendFile(s, id)
    PROVE  DirInv'
<1> USE DEF DirInv
<1> DEFINE c == Current(s)  q == FileMsgs(s, id)  n == sizeOf[<<s, id>>]
<1>0. <<s, id>> \in Upload /\ c \in UpSession
  BY InUpload, CurrentSession DEF UploadTypes
<1>1. Send(c, q)
  BY DEF SendFile, FileMsgs
<1>2. /\ stage[<<s, id>>] = "reading" /\ stage'[<<s, id>>] = "sent"
      /\ \A u \in Upload : u # <<s, id>> => stage'[u] = stage[u]
      /\ UNCHANGED <<sizeOf, beginning, uploads, dir, disk, left>>
  BY <1>0 DEF SendFile, UploadTypes, BrowserTypes, proxyVars
<1>3. /\ q \in Seq(UpMsg)
      /\ \A i \in 1..Len(q) : q[i].from = <<s, id>> /\ q[i].type \in {"chunk", "end"}
  <2>1. /\ \A k \in 1..n : q[k].type = "chunk" /\ q[k].from = <<s, id>>
        /\ q[n + 1].type = "end" /\ q[n + 1].from = <<s, id>> /\ q \in Seq(UpMsg)
        /\ \A i \in 1..Len(q) : i \in 1..n \/ i = n + 1
    <3>1. BrowserTypes
      BY DEF UploadTypes
    <3>2. LET f == FileMsgs(s, id)  k == sizeOf[<<s, id>>]
          IN  /\ k \in Nat /\ f \in Seq(UpMsg) /\ Len(f) = k + 1
              /\ \A i \in 1..k : f[i].type = "chunk" /\ f[i].from = <<s, id>>
              /\ f[k + 1].type = "end" /\ f[k + 1].from = <<s, id>>
              /\ \A i \in 1..Len(f) : i \in 1..k \/ i = k + 1
      BY <3>1, FileMsgsFacts
    <3> QED BY <3>2, Zenon
  <2> HIDE DEF q, n
  <2> QED BY <2>1
<1> HIDE DEF c, q, n
<1>4. UploadTypes'
  BY SendFileTypes
<1>5. BeginsOnce'
  <2>1. \A t \in UpSession : \A j \in UploadId : stage'[<<t, j>>] = "idle" <=> stage[<<t, j>>] = "idle"
    BY <1>2, InUpload
  <2>2. \A i \in 1..Len(q) : q[i].type # "begin"
    BY <1>3
  <2> QED BY <1>0, <1>1, <1>2, <1>3, <2>1, <2>2, SendBegins
<1>6. OneName'
  BY <1>2 DEF OneName
<1>7. EndIsSent'
  <2>1. \A u \in Upload : stage[u] = "sent" => stage'[u] = "sent"
    BY <1>2
  <2>2. \A i \in 1..Len(q) : q[i].type = "end" => stage'[q[i].from] = "sent"
    BY <1>2, <1>3
  <2> QED BY <1>0, <1>1, <1>3, <2>1, <2>2, SendEnds
<1>8. NoDebris'
  <2>1. \A u \in Upload : stage[u] = "sent" => stage'[u] = "sent" /\ sizeOf'[u] = sizeOf[u]
    BY <1>2
  <2> QED BY <1>2, <2>1, DebrisQuiet
<1> QED BY <1>4, <1>5, <1>6, <1>7, <1>8

LEMMA CancelUploadDir ==
    ASSUME DirInv, NEW s \in UpSession, NEW id \in UploadId, CancelUpload(s, id)
    PROVE  DirInv'
<1> USE DEF DirInv
<1> DEFINE c == Current(s)  m == Msg("cancel", id, 0, <<s, id>>)
<1>0. c \in UpSession /\ Send(c, <<m>>)
  BY CurrentSession DEF UploadTypes, CancelUpload
<1>1. UNCHANGED <<stage, sizeOf, beginning, uploads, dir, disk, left>>
  BY DEF CancelUpload, proxyVars
<1>2. m \in UpMsg /\ m.type = "cancel"
  BY InUpload DEF Msg, UpMsg
<1> HIDE DEF c, m
<1>3. <<m>> \in Seq(UpMsg) /\ \A i \in 1..Len(<<m>>) : <<m>>[i].type = "cancel"
  BY <1>2
<1>4. UploadTypes'
  BY CancelUploadTypes
<1>5. BeginsOnce'
  BY <1>0, <1>1, <1>3, SendBegins
<1>6. OneName'
  BY <1>1 DEF OneName
<1>7. EndIsSent'
  BY <1>0, <1>1, <1>3, SendEnds
<1>8. NoDebris'
  BY <1>1, DebrisQuiet
<1> QED BY <1>4, <1>5, <1>6, <1>7, <1>8

\* A step that leaves handles and names alone is one in which they only go.
LEMMA SameShrinks ==
    ASSUME dir' = dir, uploads' = uploads
    PROVE  Shrinks
  BY DEF Shrinks

\* A step that leaves the proxies and what is on its way to them alone.
LEMMA QuietDir ==
    ASSUME DirInv, UploadTypes', UNCHANGED <<uplink, beginning, uploads, dir, disk, left, sizeOf>>,
           \A u \in Upload : (stage'[u] = "idle" <=> stage[u] = "idle") /\ (stage[u] = "sent" => stage'[u] = "sent")
    PROVE  DirInv'
<1> USE DEF DirInv
<1>1. BeginsOnce'
  <2> SUFFICES ASSUME NEW t \in UpSession PROVE IdleAt(t)' /\ QueuedAt(t)' /\ BeginningAt(t)'
    BY DEF BeginsOnce
  <2>2. \A id \in UploadId : stage'[<<t, id>>] = "idle" <=> stage[<<t, id>>] = "idle"
    BY InUpload
  <2>3. \A id : Unborn(t, id) => Unborn(t, id)'
    BY DEF Unborn
  <2>4. IdleAt(t) /\ QueuedAt(t) /\ BeginningAt(t)
    BY DEF BeginsOnce
  <2>5. IdleAt(t)'
    BY <2>2, <2>3, <2>4 DEF IdleAt
  <2>6. QueuedAt(t)' /\ BeginningAt(t)'
    BY <2>3, <2>4 DEF QueuedAt, BeginningAt
  <2> QED BY <2>5, <2>6
<1>2. OneName'
  BY DEF OneName
<1>3. EndIsSent'
  <2>1. \A t \in UpSession : \A i \in 1..Len(uplink[t]) : uplink[t][i].from \in Upload
    <3>1. UpTypes
      BY DEF UploadTypes
    <3>2. \A t \in UpSession : \A i \in 1..Len(uplink[t]) : uplink[t][i] \in UpMsg
      BY <3>1 DEF UpTypes
    <3> QED BY <3>2 DEF UpMsg
  <2> QED BY <2>1 DEF EndIsSent
<1>4. NoDebris'
  BY DebrisQuiet
<1> QED BY <1>1, <1>2, <1>3, <1>4

LEMMA FileUnreadableDir ==
    ASSUME DirInv, NEW s \in UpSession, NEW id \in UploadId, FileUnreadable(s, id)
    PROVE  DirInv'
<1>1. UploadTypes'
  BY FileUnreadableTypes DEF DirInv
<1>2. UNCHANGED <<uplink, beginning, uploads, dir, disk, left, sizeOf>>
  BY DEF FileUnreadable, proxyVars
<1>3. \A u \in Upload : (stage'[u] = "idle" <=> stage[u] = "idle") /\ (stage[u] = "sent" => stage'[u] = "sent")
  BY InUpload DEF FileUnreadable, DirInv, UploadTypes, BrowserTypes
<1> QED BY <1>1, <1>2, <1>3, QuietDir

LEMMA HandleUploadStatusDir ==
    ASSUME DirInv, NEW s \in UpSession, HandleUploadStatus(s)
    PROVE  DirInv'
<1>1. UploadTypes'
  BY HandleUploadStatusTypes DEF DirInv
<1>2. UNCHANGED <<stage, uplink, beginning, uploads, dir, disk, left, sizeOf>>
  BY DEF HandleUploadStatus, proxyVars
<1> QED BY <1>1, <1>2, QuietDir

LEMMA SocketOpensDir ==
    ASSUME DirInv, NEW s \in UpSession, SocketOpens(s)
    PROVE  DirInv'
<1>1. UploadTypes'
  BY SocketOpensTypes DEF DirInv
<1>2. UNCHANGED <<stage, uplink, beginning, uploads, dir, disk, left, sizeOf>>
  BY DEF SocketOpens, browserVars, proxyVars
<1> QED BY <1>1, <1>2, QuietDir

LEMMA ConnectionLostDir ==
    ASSUME DirInv, NEW s \in UpSession, ConnectionLost(s)
    PROVE  DirInv'
<1>1. UploadTypes'
  BY ConnectionLostTypes DEF DirInv
<1>2. UNCHANGED <<stage, uplink, beginning, uploads, dir, disk, left, sizeOf>>
  BY DEF ConnectionLost, proxyVars
<1> QED BY <1>1, <1>2, QuietDir

LEMMA PerformReconnectDir ==
    ASSUME DirInv, NEW b \in Browser, PerformReconnect(b)
    PROVE  DirInv'
<1>1. UploadTypes'
  BY PerformReconnectTypes DEF DirInv
<1>2. UNCHANGED <<stage, uplink, beginning, uploads, dir, disk, left, sizeOf>>
  BY DEF PerformReconnect, browserVars, proxyVars
<1> QED BY <1>1, <1>2, QuietDir

LEMMA UploadBeginChecksDir ==
    ASSUME DirInv, NEW s \in UpSession, UploadBeginChecks(s)
    PROVE  DirInv'
<1> USE DEF DirInv
<1> DEFINE m == Head(uplink[s])
<1>1. /\ Consume(s) /\ UNCHANGED <<stage, sizeOf, uploads, dir, disk, left>>
      /\ uplink[s] # <<>> /\ beginning[s] = <<>> /\ m = uplink[s][1] /\ m.type = "begin"
  BY ArrivedMsg DEF UploadBeginChecks, browserVars
<1>2. /\ \A t \in UpSession : t # s => beginning'[t] = beginning[t]
      /\ beginning'[s] = <<>> \/ Head(beginning'[s]).id = m.id
  BY <1>1 DEF UploadBeginChecks, UploadTypes, ProxyTypes
<1>3. UploadTypes'
  BY UploadBeginChecksTypes
<1>4. BeginsOnce'
  BY <1>1, <1>2, SameShrinks, ConsumeBegins
<1>5. OneName'
  BY <1>1 DEF OneName
<1>6. EndIsSent'
  BY <1>1, ConsumeEnds
<1>7. NoDebris'
  BY <1>1, DebrisQuiet
<1> QED BY <1>3, <1>4, <1>5, <1>6, <1>7

LEMMA UploadBeginFailsDir ==
    ASSUME DirInv, NEW s \in UpSession, UploadBeginFails(s)
    PROVE  DirInv'
<1> USE DEF DirInv
<1>1. UNCHANGED <<stage, sizeOf, uplink, uploads, dir, disk, left>>
  BY DEF UploadBeginFails, browserVars
<1>2. \A t \in UpSession : beginning'[t] = beginning[t] \/ beginning'[t] = <<>>
  BY DEF UploadBeginFails, UploadTypes, ProxyTypes
<1>3. UploadTypes'
  BY UploadBeginFailsTypes
<1>4. BeginsOnce'
  BY <1>1, <1>2, SameShrinks, QuietBegins
<1>5. OneName'
  BY <1>1 DEF OneName
<1>6. EndIsSent'
  BY <1>1, QuietEnds
<1>7. NoDebris'
  BY <1>1, DebrisQuiet
<1> QED BY <1>3, <1>4, <1>5, <1>6, <1>7

LEMMA UploadBeginCreatesDir ==
    ASSUME DirInv, NEW s \in UpSession, UploadBeginCreates(s)
    PROVE  DirInv'
<1> USE DEF DirInv
<1> DEFINE b == Head(beginning[s])
           ino == IF b.name \in DOMAIN dir THEN dir[b.name] ELSE <<s, b.id>>
<1>1. UNCHANGED <<stage, sizeOf, uplink>>
  BY DEF UploadBeginCreates, browserVars
<1>2. CreatesFile(s)
  BY UploadBeginCreatesEffect
<1>3. UploadTypes'
  BY UploadBeginCreatesTypes
<1>4. BeginsOnce'
  BY <1>2, CreatesBegins
<1>5. OneName'
  BY <1>2, CreatesOneName
<1>6. EndIsSent'
  BY <1>1, QuietEnds
<1>7. NoDebris'
  <2>1. /\ DOMAIN dir' = DOMAIN dir \cup {b.name} /\ left' = left \ {b.name}
        /\ \A n \in DOMAIN dir : n # b.name => dir'[n] = dir[n]
        /\ b.id \in DOMAIN uploads'[s]
    BY <1>2 DEF CreatesFile
  <2>2. uploads'[s][b.id].name = b.name
    BY <1>2 DEF CreatesFile
  <2>3. ASSUME NEW n \in DOMAIN dir, n # b.name
        PROVE  \/ n \in left'
               \/ \E t \in UpSession : \E id \in DOMAIN uploads'[t] : uploads'[t][id].name = n
               \/ \E u \in Upload : stage'[u] = "sent" /\ disk'[dir'[n]] = Whole(u)'
    <3>1. CASE n \in left
      BY <2>1, <2>3, <3>1
    <3>2. CASE \E t \in UpSession : \E id \in DOMAIN uploads[t] : uploads[t][id].name = n
      <4>0. PICK t \in UpSession : \E id \in DOMAIN uploads[t] : uploads[t][id].name = n
        BY <3>2
      <4>1. PICK id \in DOMAIN uploads[t] : uploads[t][id].name = n
        BY <4>0
      <4>2. ~(t = s /\ id = b.id)
        BY DEF UploadBeginCreates, BeginsOnce, BeginningAt, Unborn
      <4>3. id \in DOMAIN uploads'[t] /\ uploads'[t][id] = uploads[t][id]
        BY <1>2, <4>2 DEF CreatesFile
      <4> QED BY <4>1, <4>3
    <3>3. CASE \E u \in Upload : stage[u] = "sent" /\ disk[dir[n]] = Whole(u)
      <4>1. dir[n] # ino
        BY <2>3 DEF OneName, UploadBeginCreates, BeginsOnce, BeginningAt, Unborn
      <4>2. disk'[dir[n]] = disk[dir[n]]
        <5>1. disk' = [disk EXCEPT ![ino] = <<>>] /\ disk \in [Upload -> Contents] /\ dir[n] \in Upload
          BY <1>2 DEF CreatesFile, UploadTypes, DirTypes
        <5> HIDE DEF ino
        <5> QED BY <4>1, <5>1
      <4>3. \A u \in Upload : Whole(u)' = Whole(u)
        BY <1>1 DEF Whole
      <4> QED BY <1>1, <2>1, <2>3, <3>3, <4>2, <4>3
    <3> QED BY <3>1, <3>2, <3>3 DEF NoDebris
  <2> QED BY <2>1, <2>2, <2>3 DEF NoDebris
<1> QED BY <1>3, <1>4, <1>5, <1>6, <1>7

LEMMA UploadChunkDir ==
    ASSUME DirInv, NEW s \in UpSession, UploadChunk(s)
    PROVE  DirInv'
<1> USE DEF DirInv
<1> DEFINE m == Head(uplink[s])  up == uploads[s][m.id]
<1>1. /\ Consume(s) /\ UNCHANGED <<stage, sizeOf, beginning, dir, left>>
      /\ uplink[s] # <<>> /\ beginning[s] = <<>>
  BY ArrivedMsg DEF UploadChunk, browserVars
<1>2. Shrinks
  <2>1. CASE RefusesChunk(s)
    BY <1>1, <2>1, SameShrinks DEF RefusesChunk
  <2>2. CASE Writes(s)
    <3>1. up \in UploadState
      BY <2>2 DEF Writes, UploadTypes, ProxyTypes
    <3>2. uploads'[s][m.id].inode = up.inode /\ uploads'[s][m.id].name = up.name
      BY <2>2, <3>1 DEF Writes, UploadState
    <3>3. /\ \A t \in UpSession : t # s => uploads'[t] = uploads[t]
          /\ DOMAIN uploads'[s] = DOMAIN uploads[s]
          /\ \A id \in DOMAIN uploads[s] : id # m.id => uploads'[s][id] = uploads[s][id]
      BY <2>2 DEF Writes
    <3> QED BY <1>1, <3>2, <3>3 DEF Shrinks
  <2> QED BY <2>1, <2>2, UploadChunkEffect
<1>3. UploadTypes'
  BY UploadChunkTypes
<1>4. BeginsOnce'
  BY <1>1, <1>2, ConsumeBegins
<1>5. OneName'
  BY <1>2, OneNameStays
<1>6. EndIsSent'
  BY <1>1, ConsumeEnds
<1>7. NoDebris'
  <2>1. CASE RefusesChunk(s)
    BY <1>1, <2>1, DebrisQuiet DEF RefusesChunk
  <2>2. CASE Writes(s)
    <3> SUFFICES ASSUME NEW n \in DOMAIN dir
                 PROVE  \/ n \in left
                        \/ \E t \in UpSession : \E id \in DOMAIN uploads'[t] : uploads'[t][id].name = n
                        \/ \E u \in Upload : stage'[u] = "sent" /\ disk'[dir[n]] = Whole(u)'
      BY <1>1 DEF NoDebris
    <3>1. \A t \in UpSession : \A id \in DOMAIN uploads[t] :
             id \in DOMAIN uploads'[t] /\ uploads'[t][id].name = uploads[t][id].name
      <4>1. \A t \in UpSession : DOMAIN uploads'[t] = DOMAIN uploads[t]
        BY <2>2 DEF Writes
      <4> QED BY <1>2, <4>1 DEF Shrinks
    <3>2. CASE dir[n] = up.inode
      <4>1. m.id \in DOMAIN uploads[s]
        BY <2>2 DEF Writes
      <4>2. up.name = n
        BY <3>2, <4>1 DEF OneName
      <4> QED BY <3>1, <4>1, <4>2
    <3>3. CASE dir[n] # up.inode
      <4>1. disk'[dir[n]] = disk[dir[n]]
        <5> DEFINE f == WriteAt(disk[up.inode], m.arg, m.from)
        <5>1. disk' = [disk EXCEPT ![up.inode] = f] /\ disk \in [Upload -> Contents] /\ dir[n] \in Upload
          BY <2>2 DEF Writes, UploadTypes, DirTypes
        <5> HIDE DEF f
        <5> QED BY <3>3, <5>1
      <4>2. \A u \in Upload : Whole(u)' = Whole(u)
        BY <1>1 DEF Whole
      <4> QED BY <1>1, <3>1, <4>1, <4>2 DEF NoDebris
    <3> QED BY <3>2, <3>3
  <2> QED BY <2>1, <2>2, UploadChunkEffect
<1> QED BY <1>3, <1>4, <1>5, <1>6, <1>7

\* Handles are closed; a name whose handle was closed goes, or is left, or holds a
\* complete file.
LEMMA ClosesDebris ==
    ASSUME NoDebris, Shrinks, disk' = disk, stage' = stage, sizeOf' = sizeOf,
           \A n \in DOMAIN dir' : n \in left => n \in left',
           \A t \in UpSession : \A i \in DOMAIN uploads[t] :
              \/ i \in DOMAIN uploads'[t]
              \/ uploads[t][i].name \notin DOMAIN dir' \/ uploads[t][i].name \in left'
              \/ \E u \in Upload : stage[u] = "sent" /\ disk[dir[uploads[t][i].name]] = Whole(u)
    PROVE  NoDebris'
<1> SUFFICES ASSUME NEW n \in DOMAIN dir'
             PROVE  \/ n \in left'
                    \/ \E t \in UpSession : \E id \in DOMAIN uploads'[t] : uploads'[t][id].name = n
                    \/ \E u \in Upload : stage[u] = "sent" /\ disk[dir'[n]] = Whole(u)'
  BY DEF NoDebris
<1>1. n \in DOMAIN dir /\ dir'[n] = dir[n]
  BY DEF Shrinks
<1>2. \A u \in Upload : Whole(u)' = Whole(u)
  BY DEF Whole
<1>3. CASE \E t \in UpSession : \E id \in DOMAIN uploads[t] : uploads[t][id].name = n
  <2>0. PICK t \in UpSession : \E id \in DOMAIN uploads[t] : uploads[t][id].name = n
    BY <1>3
  <2>1. PICK id \in DOMAIN uploads[t] : uploads[t][id].name = n
    BY <2>0
  <2>2. CASE id \notin DOMAIN uploads'[t]
    BY <1>1, <1>2, <2>1, <2>2
  <2>3. CASE id \in DOMAIN uploads'[t]
    <3>1. uploads'[t][id].name = n
      BY <2>1, <2>3 DEF Shrinks
    <3> QED BY <2>3, <3>1
  <2> QED BY <2>2, <2>3
<1> QED BY <1>1, <1>2, <1>3 DEF NoDebris

\* A handler that ends uploads keeps the directory tidy.
LEMMA EndsDir ==
    ASSUME DirInv, NEW s \in UpSession, NEW type, Arrived(s, type), Consume(s),
           UNCHANGED <<linkVars, browserVars>>, EndsUpload(s) \/ IgnoresUpload(s)
    PROVE  DirInv'
<1> USE DEF DirInv
<1> DEFINE m == Head(uplink[s])  up == uploads[s][m.id]
<1>1. /\ UNCHANGED <<stage, sizeOf>> /\ uplink[s] # <<>> /\ beginning[s] = <<>>
      /\ m = uplink[s][1] /\ 1 \in 1..Len(uplink[s]) /\ m.from \in Upload
  BY ArrivedMsg DEF browserVars
<1>2. beginning' = beginning /\ disk' = disk
  BY DEF EndsUpload, IgnoresUpload
<1>3. UploadTypes'
  BY EndsTypes
<1>4. Shrinks
  <2>1. CASE IgnoresUpload(s)
    BY <2>1, SameShrinks DEF IgnoresUpload
  <2>2. CASE EndsUpload(s)
    <3>1. DOMAIN dir' \subseteq DOMAIN dir /\ \A n \in DOMAIN dir' : dir'[n] = dir[n]
      BY <2>2 DEF EndsUpload
    <3>2. /\ \A t \in UpSession : t # s => uploads'[t] = uploads[t]
          /\ DOMAIN uploads'[s] = DOMAIN uploads[s] \ {m.id}
          /\ \A id \in DOMAIN uploads[s] : id # m.id => uploads'[s][id] = uploads[s][id]
      BY <2>2 DEF EndsUpload
    <3> HIDE DEF m
    <3>3. \A t \in UpSession : DOMAIN uploads'[t] \subseteq DOMAIN uploads[t]
              /\ \A j \in DOMAIN uploads'[t] : uploads'[t][j] = uploads[t][j]
      BY <3>2
    <3> QED BY <3>1, <3>3 DEF Shrinks
  <2> QED BY <2>1, <2>2
<1>5. BeginsOnce'
  BY <1>1, <1>2, <1>4, ConsumeBegins
<1>6. OneName'
  BY <1>4, OneNameStays
<1>7. EndIsSent'
  BY <1>1, ConsumeEnds
<1>8. NoDebris'
  <2>1. CASE IgnoresUpload(s)
    BY <1>1, <2>1, DebrisQuiet DEF IgnoresUpload
  <2>2. CASE EndsUpload(s)
    <3>1. /\ m.id \in DOMAIN uploads[s] /\ \A n \in DOMAIN dir' : n \in left => n \in left'
          /\ \A t \in UpSession : t # s => uploads'[t] = uploads[t]
          /\ DOMAIN uploads'[s] = DOMAIN uploads[s] \ {m.id}
          /\ \/ up.name \notin DOMAIN dir' \/ up.name \in left'
             \/ m.type = "end" /\ disk[dir[up.name]] = Whole(m.from)
      BY <2>2 DEF EndsUpload
    <3>2. m.type = "end" => stage[m.from] = "sent"
      BY <1>1 DEF EndIsSent
    <3>3. \A t \in UpSession : \A i \in DOMAIN uploads[t] :
              \/ i \in DOMAIN uploads'[t]
              \/ uploads[t][i].name \notin DOMAIN dir' \/ uploads[t][i].name \in left'
              \/ \E u \in Upload : stage[u] = "sent" /\ disk[dir[uploads[t][i].name]] = Whole(u)
      <4> SUFFICES ASSUME NEW t \in UpSession, NEW i \in DOMAIN uploads[t], i \notin DOMAIN uploads'[t]
                   PROVE  \/ uploads[t][i].name \notin DOMAIN dir' \/ uploads[t][i].name \in left'
                          \/ \E u \in Upload : stage[u] = "sent" /\ disk[dir[uploads[t][i].name]] = Whole(u)
        OBVIOUS
      <4>1. t = s /\ i = m.id
        BY <3>1
      <4> QED BY <1>1, <3>1, <3>2, <4>1
    <3> QED BY <1>1, <1>2, <1>4, <3>1, <3>3, ClosesDebris
  <2> QED BY <2>1, <2>2
<1> QED BY <1>3, <1>5, <1>6, <1>7, <1>8

LEMMA UploadEndDir ==
    ASSUME DirInv, NEW s \in UpSession, UploadEnd(s)
    PROVE  DirInv'
  BY UploadEndEffect, EndsDir DEF UploadEnd, DirInv

LEMMA UploadCancelDir ==
    ASSUME DirInv, NEW s \in UpSession, UploadCancel(s)
    PROVE  DirInv'
  BY UploadCancelEffect, EndsDir DEF UploadCancel, DirInv

LEMMA CleanupUploadsDir ==
    ASSUME DirInv, NEW s \in UpSession, CleanupUploads(s)
    PROVE  DirInv'
<1> USE DEF DirInv
<1>1. /\ UNCHANGED <<stage, sizeOf, beginning, dir, disk>>
      /\ left' = left \cup {uploads[s][id].name : id \in DOMAIN uploads[s]}
      /\ \A t \in UpSession : uplink'[t] = uplink[t] \/ uplink'[t] = <<>>
  BY DEF CleanupUploads, browserVars, UploadTypes, UpTypes
<1>2. uploads'[s] = <<>> /\ \A t \in UpSession : t # s => uploads'[t] = uploads[t]
  BY DEF CleanupUploads, UploadTypes, ProxyTypes
<1>3. Shrinks
  <2>1. DOMAIN uploads'[s] = {}
    BY <1>2
  <2> QED BY <1>1, <1>2, <2>1 DEF Shrinks
<1>4. UploadTypes'
  BY CleanupUploadsTypes
<1>5. BeginsOnce'
  BY <1>1, <1>3, QuietBegins
<1>6. OneName'
  BY <1>3, OneNameStays
<1>7. EndIsSent'
  BY <1>1, QuietEnds
<1>8. NoDebris'
  <2>1. \A t \in UpSession : \A i \in DOMAIN uploads[t] :
            i \in DOMAIN uploads'[t] \/ uploads[t][i].name \in left'
    BY <1>1, <1>2
  <2>2. \A n \in DOMAIN dir' : n \in left => n \in left'
    BY <1>1
  <2> QED BY <1>1, <1>3, <2>1, <2>2, ClosesDebris
<1> QED BY <1>4, <1>5, <1>6, <1>7, <1>8

LEMMA DirStep == DirInv /\ [UploadNext]_uploadVars => DirInv'
<1> SUFFICES ASSUME DirInv, [UploadNext]_uploadVars PROVE DirInv'
  OBVIOUS
<1>1. CASE UNCHANGED uploadVars
  <2>1. UNCHANGED <<stage, uplink, beginning, uploads, dir, disk, left, sizeOf>>
    BY <1>1 DEF uploadVars, browserVars, proxyVars
  <2>2. UploadTypes'
    BY <1>1, UploadStepTypes DEF DirInv
  <2> QED BY <2>1, <2>2, QuietDir
<1>2. ASSUME NEW s \in UpSession, ProxyStep(s) PROVE DirInv'
  BY <1>2, UploadBeginChecksDir, UploadBeginCreatesDir, UploadBeginFailsDir, UploadChunkDir,
     UploadEndDir, UploadCancelDir, CleanupUploadsDir DEF ProxyStep
<1>3. ASSUME NEW s \in UpSession, HandleUploadStatus(s) \/ SocketOpens(s) \/ ConnectionLost(s) PROVE DirInv'
  BY <1>3, HandleUploadStatusDir, SocketOpensDir, ConnectionLostDir
<1>4. ASSUME NEW s \in UpSession, NEW id \in UploadId,
             UploadFile(s, id) \/ SendFile(s, id) \/ FileUnreadable(s, id) \/ CancelUpload(s, id)
      PROVE  DirInv'
  BY <1>4, UploadFileDir, SendFileDir, FileUnreadableDir, CancelUploadDir
<1>5. ASSUME NEW b \in Browser, PerformReconnect(b) PROVE DirInv'
  BY <1>5, PerformReconnectDir
<1> QED BY <1>1, <1>2, <1>3, <1>4, <1>5 DEF UploadNext

\* For any number of browsers and connections that share the directory, whatever names
\* they race for, even when the names run out and when an earlier handler's messages reach
\* a later session under the same id: a name belongs to an upload that is open, or to the
\* complete file of one that was sent, or to one that was cut off, could not be read back
\* or could not be deleted; handleUploadEnd and handleUploadCancel remove the rest.
THEOREM DirectoryIsTidy == UploadSpec => []NoDebris
<1>1. DirInv => NoDebris
  BY DEF DirInv
<1> QED BY <1>1, DirInitInv, DirStep, PTL DEF UploadSpec

=============================================================================
