-------------------------- MODULE UpdateLoopProofs --------------------------
(***************************************************************************)
(* Theorems about the framebuffer update loop, for any screens, tiles and   *)
(* numbers of changes: the loop of requests and updates never runs dry,     *)
(* whoever is connected, and with one client no change is lost between two  *)
(* answers as long as the resolution stays, and no change of the            *)
(* resolution is taken for one the client knows.                            *)
(***************************************************************************)
EXTENDS UpdateLoop, SequenceTheorems, TLAPS

Buffer == Frames \cup {NoFrame}
Tiling == UNION {[S -> Pixel] : S \in SUBSET AllTiles}
Updates == [resize : 0..MaxTiles, tiles : Tiling]
WriterAt == {"idle", "capture", "wait", "diff", "rects", "encode", "failed"}

\* TypeOK, with the contents of the queues.
LoopTypes ==
    /\ screen \in Frames
    /\ changes \in 0..MaxChanges /\ resizes \in 0..MaxResizes /\ pushes \in 0..MaxPushes
    /\ grabbed \in Buffer /\ front \in Buffer /\ back \in Buffer /\ diffPrev \in Buffer
    /\ diffLen \in 0..Len(diffPrev) /\ diffW \in 0..MaxTiles
    /\ dirtyRects \subseteq AllTiles
    /\ notify \in BOOLEAN /\ dirtyComputed \in BOOLEAN /\ crashed \in BOOLEAN
    /\ notices \in 0..MaxPushes /\ noticeTo \subseteq Client
    /\ configSize \in AllTiles /\ notice \in AllTiles
    /\ writer \in [Client -> WriterAt]
    /\ out \in [Client -> Buffer] /\ req \in [Client -> Requests]
    /\ regions \in [Client -> SUBSET AllTiles]
    /\ fbReqCh \in [Client -> {<<>>} \cup {<<r>> : r \in Requests}]
    /\ toServer \in [Client -> Seq(Requests)] /\ toClient \in [Client -> Seq(Updates)]
    /\ picture \in [Client -> Pictures]

-----------------------------------------------------------------------------
(* Frames and buffers. *)

\* A frame is a sequence of one to MaxTiles pixels, a buffer one of at most so many.
LEMMA FrameIsSeq ==
    /\ \A f \in Frames : f \in Seq(Pixel) /\ Len(f) \in AllTiles /\ f # NoFrame /\ DOMAIN f = 1..Len(f)
    /\ \A f \in Seq(Pixel) : Len(f) \in AllTiles => f \in Frames
    /\ \A f \in Buffer : f \in Seq(Pixel) /\ Len(f) \in 0..MaxTiles /\ DOMAIN f = 1..Len(f)
    /\ \A f \in Seq(Pixel) : Len(f) \in 0..MaxTiles => f \in Buffer
    /\ \A f \in Buffer : f = NoFrame <=> Len(f) = 0
<1>1. \A n \in AllTiles : n \in Nat
  BY CapturerAssumption DEF AllTiles
<1>2. ASSUME NEW f \in Frames
      PROVE  f \in Seq(Pixel) /\ Len(f) \in AllTiles /\ f # NoFrame /\ DOMAIN f = 1..Len(f)
  <2>1. PICK n \in AllTiles : f \in [1..n -> Pixel]
    BY DEF Frames
  <2>2. f \in Seq(Pixel) /\ Len(f) = n /\ DOMAIN f = 1..n
    BY <1>1, <2>1, SeqDef
  <2>3. n # 0
    BY CapturerAssumption DEF AllTiles
  <2>. QED
    BY <2>2, <2>3, EmptySeq DEF NoFrame
<1>3. ASSUME NEW f \in Seq(Pixel), Len(f) \in AllTiles PROVE f \in Frames
  <2>1. f \in [1..Len(f) -> Pixel]
    BY LenProperties
  <2>. QED
    BY <1>3, <2>1 DEF Frames
<1>4. NoFrame \in Seq(Pixel) /\ Len(NoFrame) = 0 /\ DOMAIN NoFrame = 1..0
  BY EmptySeq, LenProperties DEF NoFrame
<1>5. 0..MaxTiles = AllTiles \cup {0}
  BY CapturerAssumption DEF AllTiles
<1>6. ASSUME NEW f \in Seq(Pixel), Len(f) = 0 PROVE f = NoFrame
  BY <1>6, EmptySeq DEF NoFrame
<1>7. 0 \notin AllTiles
  BY CapturerAssumption DEF AllTiles
<1>. QED
  BY <1>2, <1>3, <1>4, <1>5, <1>6, <1>7 DEF Buffer

\* What is left in a buffer that a frame is copied to: the longer of the two lengths,
\* and the frame alone where it is not the shorter one.
LEMMA OverlayIsBuffer ==
    ASSUME NEW f \in Buffer, NEW b \in Buffer
    PROVE  /\ Overlay(f, b) \in Buffer
           /\ Len(Overlay(f, b)) = IF Len(f) < Len(b) THEN Len(b) ELSE Len(f)
           /\ Len(b) <= Len(f) => Overlay(f, b) = f
<1>. DEFINE rest == SubSeq(b, Len(f) + 1, Len(b))
<1>1. f \in Seq(Pixel) /\ b \in Seq(Pixel) /\ Len(f) \in 0..MaxTiles /\ Len(b) \in 0..MaxTiles
  BY FrameIsSeq
<1>2. MaxTiles \in Nat
  BY CapturerAssumption
<1>3. rest \in Seq(Pixel) /\ Len(rest) = IF Len(f) < Len(b) THEN Len(b) - Len(f) ELSE 0
  BY <1>1, <1>2
<1>. HIDE DEF rest
<1>4. f \o rest \in Seq(Pixel) /\ Len(f \o rest) = Len(f) + Len(rest)
  BY <1>1, <1>3
<1>5. Len(f \o rest) = IF Len(f) < Len(b) THEN Len(b) ELSE Len(f)
  BY <1>1, <1>2, <1>3, <1>4
<1>6. Len(f \o rest) \in 0..MaxTiles
  BY <1>1, <1>2, <1>5
<1>7. ASSUME Len(b) <= Len(f) PROVE f \o rest = f
  <2>1. rest = <<>>
    BY <1>1, <1>2, <1>3, <1>7
  <2>. QED
    BY <1>1, <2>1
<1>. QED
  BY <1>4, <1>5, <1>6, <1>7, FrameIsSeq DEF Overlay, rest

\* The beginning of a frame.
LEMMA PrefixIsBuffer ==
    ASSUME NEW f \in Buffer, NEW n \in 0..Len(f)
    PROVE  /\ SubSeq(f, 1, n) \in Buffer /\ Len(SubSeq(f, 1, n)) = n
           /\ n = Len(f) => SubSeq(f, 1, n) = f
<1>1. f \in Seq(Pixel) /\ Len(f) \in 0..MaxTiles /\ MaxTiles \in Nat
  BY FrameIsSeq, CapturerAssumption
<1>2. SubSeq(f, 1, n) \in Seq(Pixel) /\ Len(SubSeq(f, 1, n)) = n
  BY <1>1
<1>3. n \in 0..MaxTiles
  BY <1>1
<1>4. ASSUME n = Len(f) PROVE SubSeq(f, 1, n) = f
  <2>1. \A i \in 1..Len(f) : SubSeq(f, 1, n)[i] = f[i]
    BY <1>1, <1>4
  <2>. QED
    BY <1>1, <1>2, <1>4, <2>1, SeqEqual
<1>. QED
  BY <1>2, <1>3, <1>4, FrameIsSeq

-----------------------------------------------------------------------------
(* Types. *)

LEMMA TypesImplyTypeOK == LoopTypes => TypeOK
<1>. SUFFICES ASSUME LoopTypes PROVE TypeOK
  OBVIOUS
<1>1. ASSUME NEW c \in Client
      PROVE  /\ out[c] \in Frames \union {NoFrame}
             /\ req[c] \in Requests /\ regions[c] \subseteq AllTiles
             /\ fbReqCh[c] \in {<<>>} \union {<<r>> : r \in Requests}
             /\ \A i \in DOMAIN toServer[c] : toServer[c][i] \in Requests
             /\ \A i \in DOMAIN toClient[c] :
                   /\ toClient[c][i].resize \in 0..MaxTiles
                   /\ DOMAIN toClient[c][i].tiles \subseteq AllTiles
             /\ picture[c] \in Pictures
  <2>1. toServer[c] \in Seq(Requests) /\ toClient[c] \in Seq(Updates)
    BY DEF LoopTypes
  <2>2. \A i \in DOMAIN toServer[c] : toServer[c][i] \in Requests
    BY <2>1
  <2>3. \A i \in DOMAIN toClient[c] : toClient[c][i] \in Updates
    BY <2>1
  <2>4. \A u \in Updates : u.resize \in 0..MaxTiles /\ DOMAIN u.tiles \subseteq AllTiles
    BY DEF Updates, Tiling
  <2>. QED
    BY <2>2, <2>3, <2>4 DEF LoopTypes, Buffer
<1>2. /\ {grabbed, front, back, diffPrev} \subseteq Frames \union {NoFrame}
      /\ {notify, dirtyComputed, crashed} \subseteq BOOLEAN
      /\ writer \in [Client -> {"idle", "capture", "wait", "diff", "rects", "encode", "failed"}]
  BY DEF LoopTypes, Buffer, WriterAt
<1>. QED
  BY <1>1, <1>2 DEF LoopTypes, TypeOK

\* A request alone in the queue.
LEMMA OneRequest == \A r \in Requests : <<r>> \in Seq(Requests) /\ <<r>> # <<>>
OBVIOUS

LEMMA InitTypes == Init => LoopTypes
<1>. SUFFICES ASSUME Init PROVE LoopTypes
  OBVIOUS
<1>1. screen \in Frames /\ Bounds \in AllTiles /\ NoFrame \in Buffer /\ Len(NoFrame) = 0
  BY CapturerAssumption, FrameIsSeq, EmptySeq DEF Init, CapturerInit, Bounds, Buffer, NoFrame
<1>2. Request(FALSE, Bounds) \in Requests
  BY <1>1 DEF Request, Requests
<1>3. <<Request(FALSE, Bounds)>> \in Seq(Requests) /\ <<>> \in Seq(Updates)
  BY <1>2, OneRequest, EmptySeq
<1>4. [t \in 1..Bounds |-> Black] \in Pictures
  BY <1>1 DEF Pictures
<1>5. MaxTiles \in Nat /\ MaxChanges \in Nat /\ MaxResizes \in Nat /\ MaxPushes \in Nat
  BY CapturerAssumption, LoopAssumption
<1>6. /\ writer \in [Client -> WriterAt] /\ out \in [Client -> Buffer] /\ req \in [Client -> Requests]
      /\ regions \in [Client -> SUBSET AllTiles]
      /\ fbReqCh \in [Client -> {<<>>} \cup {<<r>> : r \in Requests}]
      /\ toServer \in [Client -> Seq(Requests)] /\ toClient \in [Client -> Seq(Updates)]
      /\ picture \in [Client -> Pictures]
  BY <1>1, <1>2, <1>3, <1>4 DEF Init, CapturerInit, WriterAt
<1>7. /\ diffLen \in 0..Len(diffPrev) /\ diffW \in 0..MaxTiles
      /\ changes \in 0..MaxChanges /\ resizes \in 0..MaxResizes /\ pushes \in 0..MaxPushes
  BY <1>1, <1>5 DEF Init, CapturerInit
<1>. QED
  BY <1>1, <1>6, <1>7 DEF Init, CapturerInit, LoopTypes

\* A request that is first in a queue, and the queue after it.
LEMMA ServeRequestTypes == ASSUME LoopTypes, NEW c \in Client, ServeRequest(c) PROVE LoopTypes'
<1>1. toServer[c] \in Seq(Requests) /\ toServer[c] # <<>>
  BY DEF LoopTypes, ServeRequest
<1>2. Tail(toServer[c]) \in Seq(Requests) /\ Head(toServer[c]) \in Requests
  BY <1>1
<1>3. /\ toServer' \in [Client -> Seq(Requests)]
      /\ fbReqCh' \in [Client -> {<<>>} \cup {<<r>> : r \in Requests}]
  BY <1>2 DEF LoopTypes, ServeRequest
<1>. QED
  BY <1>3 DEF LoopTypes, ServeRequest, capturerVars, noticeVars, screenVars, loopVars, diffVars

LEMMA TakeRequestTypes == ASSUME LoopTypes, NEW c \in Client, TakeRequest(c) PROVE LoopTypes'
<1>1. PICK first \in Requests : fbReqCh[c] = <<first>>
  BY DEF LoopTypes, TakeRequest
<1>2. Head(fbReqCh[c]) \in Requests
  BY <1>1
<1>3. /\ req' \in [Client -> Requests] /\ writer' \in [Client -> WriterAt]
      /\ fbReqCh' \in [Client -> {<<>>} \cup {<<r>> : r \in Requests}]
  BY <1>2 DEF LoopTypes, TakeRequest, GoTo, WriterAt
<1>. QED
  BY <1>3 DEF LoopTypes, TakeRequest, capturerVars, noticeVars, screenVars, loopVars, diffVars

LEMMA CaptureTypes == ASSUME LoopTypes, NEW c \in Client, Capture(c) \/ AwaitFirstFrame(c) PROVE LoopTypes'
<1>1. writer' \in [Client -> WriterAt] /\ out' \in [Client -> Buffer] /\ notify' \in BOOLEAN
  <2>1. writer' \in [Client -> WriterAt]
    BY DEF LoopTypes, Capture, AwaitFirstFrame, GoTo, WriterAt
  <2>2. CASE Capture(c)
    BY <2>1, <2>2 DEF LoopTypes, Capture, CopyFrame, capturerVars, noticeVars, screenVars, loopVars, diffVars
  <2>3. CASE AwaitFirstFrame(c)
    BY <2>1, <2>3 DEF LoopTypes, AwaitFirstFrame, TakeNotify
  <2>. QED
    BY <2>2, <2>3
<1>. QED
  BY <1>1 DEF LoopTypes, Capture, AwaitFirstFrame, CopyFrame, TakeNotify,
         capturerVars, noticeVars, screenVars, loopVars, diffVars

LEMMA FrameDiffTypes == ASSUME LoopTypes, NEW c \in Client, FrameDiff(c) PROVE LoopTypes'
<1>1. /\ out[c] \in Buffer /\ diffPrev \in Buffer /\ NoFrame \in Buffer
      /\ Len(out[c]) \in 0..MaxTiles /\ Len(diffPrev) \in 0..MaxTiles /\ Len(NoFrame) = 0
      /\ diffLen \in 0..Len(diffPrev) /\ MaxTiles \in Nat
      /\ Bounds \in AllTiles
  BY FrameIsSeq, CapturerAssumption, EmptySeq DEF LoopTypes, Buffer, Bounds, NoFrame
<1>2. Bounds \in 0..MaxTiles /\ 1..Bounds \subseteq AllTiles
  BY <1>1 DEF AllTiles
<1>3. /\ diffPrev' \in Buffer /\ diffLen' \in 0..Len(diffPrev') /\ diffW' \in 0..MaxTiles
      /\ dirtyRects' \subseteq AllTiles /\ dirtyComputed' \in BOOLEAN /\ crashed' \in BOOLEAN
  <2>1. CASE StoreFrame(out[c], Bounds)
    <3>. DEFINE b == IF diffLen < Len(out[c]) THEN NoFrame ELSE diffPrev
    <3>1. b \in Buffer
      BY <1>1
    <3>2. Overlay(out[c], b) \in Buffer /\ Len(out[c]) <= Len(Overlay(out[c], b))
      <4>1. /\ Overlay(out[c], b) \in Buffer
            /\ Len(Overlay(out[c], b)) = IF Len(out[c]) < Len(b) THEN Len(b) ELSE Len(out[c])
        BY <1>1, <3>1, OverlayIsBuffer
      <4>. QED
        BY <1>1, <3>1, <4>1, FrameIsSeq
    <3>3. diffPrev' \in Buffer /\ diffLen' = Len(out[c]) /\ Len(out[c]) <= Len(diffPrev')
      BY <2>1, <3>2 DEF StoreFrame
    <3>4. Len(diffPrev') \in Nat
      BY <3>3, FrameIsSeq, <1>1
    <3>. QED
      BY <2>1, <3>3, <3>4, <1>1, <1>2 DEF StoreFrame, LoopTypes
  <2>2. CASE CompareFrame(out[c], Bounds)
    <3>. DEFINE kept == IF diffLen < Len(out[c]) THEN diffLen ELSE Len(out[c])
    <3>1. kept \in 0..Len(out[c]) /\ kept \in 0..Len(diffPrev)
      BY <1>1
    <3>. HIDE DEF kept
    <3>2. SubSeq(out[c], 1, kept) \in Buffer /\ Len(SubSeq(out[c], 1, kept)) = kept
      BY <1>1, <3>1, PrefixIsBuffer
    <3>3. /\ Overlay(SubSeq(out[c], 1, kept), diffPrev) \in Buffer
          /\ Len(Overlay(SubSeq(out[c], 1, kept), diffPrev)) = Len(diffPrev)
      <4>1. /\ Overlay(SubSeq(out[c], 1, kept), diffPrev) \in Buffer
            /\ Len(Overlay(SubSeq(out[c], 1, kept), diffPrev)) =
                  IF Len(SubSeq(out[c], 1, kept)) < Len(diffPrev) THEN Len(diffPrev)
                  ELSE Len(SubSeq(out[c], 1, kept))
        BY <1>1, <3>2, OverlayIsBuffer
      <4>. QED
        BY <4>1, <1>1, <3>1, <3>2
    <3>4. /\ diffPrev' = diffPrev \/ diffPrev' = Overlay(SubSeq(out[c], 1, kept), diffPrev)
          /\ diffLen' = diffLen /\ diffW' = diffW
          /\ dirtyRects' = dirtyRects \/ dirtyRects' \subseteq 1..Bounds
          /\ dirtyComputed' \in BOOLEAN /\ crashed' \in BOOLEAN
      BY <2>2 DEF CompareFrame, LoopTypes, kept
    <3>5. diffPrev' \in Buffer /\ Len(diffPrev') = Len(diffPrev)
      BY <1>1, <3>3, <3>4
    <3>. QED
      BY <1>1, <1>2, <3>4, <3>5 DEF LoopTypes
  <2>. QED
    BY <2>1, <2>2 DEF FrameDiff, Diff
<1>4. writer' \in [Client -> WriterAt]
  BY DEF LoopTypes, FrameDiff, GoTo, WriterAt
<1>. QED
  BY <1>3, <1>4 DEF LoopTypes, FrameDiff, Diff, screenVars, loopVars, noticeVars

LEMMA GetDirtyRectsTypes == ASSUME LoopTypes, NEW c \in Client, GetDirtyRects(c) PROVE LoopTypes'
<1>1. /\ regions' \in [Client -> SUBSET AllTiles] /\ writer' \in [Client -> WriterAt]
      /\ dirtyComputed' \in BOOLEAN
  BY DEF LoopTypes, GetDirtyRects, LastDirtyRects, ConsumeDirtyRects, GoTo, WriterAt,
         capturerVars, diffVars
<1>. QED
  BY <1>1 DEF LoopTypes, GetDirtyRects, ConsumeDirtyRects, capturerVars, noticeVars, screenVars, loopVars, diffVars

\* What is sent is an update.
LEMMA UpdateIsUpdate ==
    ASSUME NEW n \in 0..MaxTiles, NEW tiles \in Tiling
    PROVE  Update(n, tiles) \in Updates
BY DEF Update, Updates

\* What an answer to c carries: its resolution if it is new, and the tiles of the
\* regions, which the copy of the frame has.
LEMMA AnswerIsUpdate ==
    ASSUME LoopTypes, NEW c \in Client, encodeRegions(c) \subseteq DOMAIN out[c]
    PROVE  Update(IF Bounds # configSize THEN Bounds ELSE 0,
                  [t \in encodeRegions(c) |-> out[c][t]]) \in Updates
<1>. DEFINE tiles == [t \in encodeRegions(c) |-> out[c][t]]
<1>1. out[c] \in Seq(Pixel) /\ DOMAIN out[c] = 1..Len(out[c])
  BY FrameIsSeq DEF LoopTypes
<1>2. \A t \in encodeRegions(c) : out[c][t] \in Pixel
  BY <1>1
<1>3. encodeRegions(c) \in SUBSET AllTiles
  BY DEF LoopTypes, encodeRegions
<1>4. tiles \in Tiling
  BY <1>2, <1>3 DEF Tiling
<1>5. Bounds \in 0..MaxTiles /\ 0 \in 0..MaxTiles
  BY FrameIsSeq, CapturerAssumption DEF LoopTypes, Bounds, AllTiles
<1>. QED
  BY <1>4, <1>5, UpdateIsUpdate

LEMMA EncodeAndSendTypes == ASSUME LoopTypes, NEW c \in Client, EncodeAndSend(c) PROVE LoopTypes'
<1>1. configSize' \in AllTiles
  BY FrameIsSeq DEF LoopTypes, EncodeAndSend, Bounds
<1>2. writer' \in [Client -> WriterAt] /\ regions' \in [Client -> SUBSET AllTiles]
  BY DEF LoopTypes, EncodeAndSend, GoTo, WriterAt
<1>3. toClient' \in [Client -> Seq(Updates)]
  <2>1. CASE encodeRegions(c) \subseteq DOMAIN out[c]
    <3>. DEFINE u == Update(IF Bounds # configSize THEN Bounds ELSE 0,
                            [t \in encodeRegions(c) |-> out[c][t]])
    <3>1. u \in Updates
      BY <2>1, AnswerIsUpdate
    <3>2. toClient' = [toClient EXCEPT ![c] = Append(toClient[c], u)]
      BY <2>1 DEF EncodeAndSend, LoopTypes
    <3>. HIDE DEF u
    <3>3. Append(toClient[c], u) \in Seq(Updates)
      BY <3>1 DEF LoopTypes
    <3>. QED
      BY <3>2, <3>3 DEF LoopTypes
  <2>2. CASE ~(encodeRegions(c) \subseteq DOMAIN out[c])
    BY <2>2 DEF EncodeAndSend, LoopTypes
  <2>. QED
    BY <2>1, <2>2
<1>. QED
  BY <1>1, <1>2, <1>3 DEF LoopTypes, EncodeAndSend, capturerVars, noticeVars, screenVars, loopVars, diffVars

\* An update may be empty.
LEMMA NoTilesIsTiling == NoTiles \in Tiling /\ DOMAIN NoTiles = {}
<1>1. NoTiles \in Seq(Pixel) /\ Len(NoTiles) = 0
  BY EmptySeq DEF NoTiles
<1>2. NoTiles \in [1..0 -> Pixel] /\ 1..0 = {}
  BY <1>1, LenProperties
<1>. QED
  BY <1>2 DEF Tiling

LEMMA PushCursorTypes == ASSUME LoopTypes, NEW c \in Client, PushCursor(c) PROVE LoopTypes'
<1>1. 0 \in 0..MaxTiles
  BY CapturerAssumption
<1>2. Update(0, NoTiles) \in Updates
  BY <1>1, NoTilesIsTiling, UpdateIsUpdate
<1>3. Append(toClient[c], Update(0, NoTiles)) \in Seq(Updates)
  BY <1>2 DEF LoopTypes
<1>4. toClient' \in [Client -> Seq(Updates)]
  BY <1>3 DEF LoopTypes, PushCursor
<1>5. pushes' \in 0..MaxPushes
  BY LoopAssumption DEF LoopTypes, PushCursor
<1>. QED
  BY <1>4, <1>5 DEF LoopTypes, PushCursor, noticeVars, capturerVars, screenVars, loopVars, diffVars

LEMMA NotifyTypes == ASSUME LoopTypes, NotifyDesktopResize PROVE LoopTypes'
<1>1. Bounds \in AllTiles
  BY FrameIsSeq DEF LoopTypes, Bounds
<1>2. notices' \in 0..MaxPushes
  BY LoopAssumption DEF LoopTypes, NotifyDesktopResize
<1>. QED
  BY <1>1, <1>2 DEF LoopTypes, NotifyDesktopResize, capturerVars, noticeVars, screenVars, loopVars, diffVars

LEMMA SendNoticeTypes == ASSUME LoopTypes, NEW c \in Client, SendNotice(c) PROVE LoopTypes'
<1>1. notice \in 0..MaxTiles
  BY CapturerAssumption DEF LoopTypes, AllTiles
<1>2. Update(notice, NoTiles) \in Updates
  BY <1>1, NoTilesIsTiling, UpdateIsUpdate
<1>3. Append(toClient[c], Update(notice, NoTiles)) \in Seq(Updates)
  BY <1>2 DEF LoopTypes
<1>4. toClient' \in [Client -> Seq(Updates)]
  BY <1>3 DEF LoopTypes, SendNotice
<1>. QED
  BY <1>4 DEF LoopTypes, SendNotice, capturerVars, noticeVars, screenVars, loopVars, diffVars

\* Painting keeps a picture a picture, of the new size if there is one.
LEMMA PaintIsPicture ==
    ASSUME NEW pic \in Pictures, NEW u \in Updates
    PROVE  /\ Paint(pic, u) \in Pictures /\ Len(pic) \in AllTiles /\ DOMAIN pic = 1..Len(pic)
           /\ u.resize = 0 =>
                /\ DOMAIN Paint(pic, u) = DOMAIN pic
                /\ \A t \in DOMAIN pic :
                      Paint(pic, u)[t] = IF t \in DOMAIN u.tiles THEN u.tiles[t] ELSE pic[t]
<1>1. PICK n \in AllTiles : pic \in [1..n -> Pixel \union {Black}]
  BY DEF Pictures
<1>2. n \in Nat /\ Len(pic) = n /\ DOMAIN pic = 1..n
  <2>1. n \in Nat
    BY CapturerAssumption DEF AllTiles
  <2>2. pic \in Seq(Pixel \union {Black})
    BY <1>1, <2>1, SeqDef
  <2>. QED
    BY <1>1, <2>1, <2>2
<1>. DEFINE res == Resize(pic, u.resize)
<1>3. u.resize \in 0..MaxTiles /\ u.tiles \in Tiling
  BY DEF Updates
<1>4. PICK m \in AllTiles : res \in [1..m -> Pixel \union {Black}]
  <2>1. CASE u.resize \in {0, Len(pic)}
    BY <1>1, <2>1 DEF Resize
  <2>2. CASE u.resize \notin {0, Len(pic)}
    <3>1. u.resize \in AllTiles
      BY <2>2, <1>3, CapturerAssumption DEF AllTiles
    <3>. QED
      BY <2>2, <3>1 DEF Resize
  <2>. QED
    BY <2>1, <2>2
<1>5. \A t \in DOMAIN u.tiles : u.tiles[t] \in Pixel
  BY <1>3 DEF Tiling
<1>6. u.resize = 0 => res = pic
  BY DEF Resize
<1>7. Paint(pic, u) = [t \in DOMAIN res |-> IF t \in DOMAIN u.tiles THEN u.tiles[t] ELSE res[t]]
  BY DEF Paint
<1>. HIDE DEF res
<1>8. Paint(pic, u) \in [1..m -> Pixel \union {Black}]
  BY <1>4, <1>5, <1>7
<1>. QED
  BY <1>2, <1>6, <1>7, <1>8 DEF Pictures

LEMMA HandleUpdateTypes == ASSUME LoopTypes, NEW c \in Client, HandleUpdate(c) PROVE LoopTypes'
<1>. DEFINE u == Head(toClient[c])
            next == <<Request(TRUE, Len(picture[c]))>>
            full == IF u.resize = 0 THEN <<>> ELSE <<Request(FALSE, u.resize)>>
<1>1. toClient[c] \in Seq(Updates) /\ toClient[c] # <<>>
  BY DEF LoopTypes, HandleUpdate
<1>2. u \in Updates /\ Tail(toClient[c]) \in Seq(Updates)
  BY <1>1
<1>3. picture[c] \in Pictures
  BY DEF LoopTypes
<1>4. Paint(picture[c], u) \in Pictures /\ Len(picture[c]) \in AllTiles
  BY <1>2, <1>3, PaintIsPicture
<1>5. next \in Seq(Requests)
  <2>1. Request(TRUE, Len(picture[c])) \in Requests
    BY <1>4 DEF Request, Requests
  <2>. QED
    BY <2>1, OneRequest
<1>6. full \in Seq(Requests)
  <2>1. CASE u.resize = 0
    BY <2>1, EmptySeq
  <2>2. CASE u.resize # 0
    <3>1. u.resize \in AllTiles
      BY <1>2, <2>2, CapturerAssumption DEF Updates, AllTiles
    <3>2. Request(FALSE, u.resize) \in Requests
      BY <3>1 DEF Request, Requests
    <3>. QED
      BY <2>2, <3>2, OneRequest
  <2>. QED
    BY <2>1, <2>2
<1>7. /\ toServer' = [toServer EXCEPT ![c] = toServer[c] \o next \o full]
      /\ picture' = [picture EXCEPT ![c] = Paint(picture[c], u)]
      /\ toClient' = [toClient EXCEPT ![c] = Tail(toClient[c])]
  BY DEF HandleUpdate, LoopTypes
<1>. HIDE DEF u, next, full
<1>8. toServer[c] \o next \o full \in Seq(Requests)
  BY <1>5, <1>6 DEF LoopTypes
<1>9. /\ toServer' \in [Client -> Seq(Requests)] /\ toClient' \in [Client -> Seq(Updates)]
      /\ picture' \in [Client -> Pictures]
  BY <1>2, <1>4, <1>7, <1>8 DEF LoopTypes
<1>. QED
  BY <1>9 DEF LoopTypes, HandleUpdate, capturerVars, noticeVars, screenVars, loopVars, diffVars

LEMMA CaptureLoopTypes == ASSUME LoopTypes, CaptureLoop PROVE LoopTypes'
<1>1. grabbed' \in Buffer /\ front' \in Buffer /\ back' \in Buffer /\ notify' \in BOOLEAN
  BY OverlayIsBuffer DEF LoopTypes, CaptureLoop, Grab, Publish, Buffer
<1>. QED
  BY <1>1 DEF LoopTypes, CaptureLoop, Grab, Publish, screenVars, diffVars, connVars, noticeVars

LEMMA EnvironmentTypes == ASSUME LoopTypes, Environment PROVE LoopTypes'
<1>1. screen' \in Frames
  <2>1. CASE ScreenChanges
    <3>1. PICK n \in AllTiles : screen \in [1..n -> Pixel]
      BY DEF LoopTypes, Frames
    <3>2. screen' \in [1..n -> Pixel]
      BY <2>1, <3>1 DEF ScreenChanges
    <3>. QED
      BY <3>2 DEF Frames
  <2>2. CASE ScreenResizes
    <3>1. PICK n \in AllTiles, p \in Pixel :
            screen' = [t \in 1..n |-> IF t <= Len(screen) THEN screen[t] ELSE p]
      BY <2>2, CapturerAssumption DEF ScreenResizes
    <3>2. screen \in Seq(Pixel) /\ n \in Nat
      BY FrameIsSeq, CapturerAssumption DEF LoopTypes, AllTiles
    <3>3. screen' \in [1..n -> Pixel]
      BY <3>1, <3>2
    <3>. QED
      BY <3>3 DEF Frames
  <2>. QED
    BY <2>1, <2>2 DEF Environment
<1>2. changes' \in 0..MaxChanges /\ resizes' \in 0..MaxResizes
  BY CapturerAssumption DEF LoopTypes, Environment, ScreenChanges, ScreenResizes
<1>. QED
  BY <1>1, <1>2 DEF LoopTypes, Environment, ScreenChanges, ScreenResizes, loopVars, diffVars, connVars,
     noticeVars

LEMMA NextTypes == LoopTypes /\ [Next]_vars => LoopTypes'
<1>. SUFFICES ASSUME LoopTypes, [Next]_vars PROVE LoopTypes'
  OBVIOUS
<1>1. CASE UNCHANGED vars
  BY <1>1 DEF LoopTypes, vars, capturerVars, connVars, noticeVars, screenVars, loopVars, diffVars
<1>. QED
  BY <1>1, ServeRequestTypes, TakeRequestTypes, CaptureTypes, FrameDiffTypes, GetDirtyRectsTypes,
     EncodeAndSendTypes, PushCursorTypes, NotifyTypes, SendNoticeTypes, HandleUpdateTypes,
     CaptureLoopTypes, EnvironmentTypes
     DEF Next

LEMMA TypesHold == Spec => []LoopTypes
BY InitTypes, NextTypes, PTL DEF Spec

\* Every variable keeps its type, whatever the resolution changes to: the channel of
\* a connection holds one request at most, and the stored frame is at least as long as
\* its recorded length (serveMessages, frameDiff).
THEOREM TypeCorrect == Spec => []TypeOK
BY TypesHold, TypesImplyTypeOK, PTL

-----------------------------------------------------------------------------
(* The loop never runs dry. *)

LEMMA NextStalls == LoopTypes /\ LoopNeverStalls /\ [Next]_vars => LoopNeverStalls'
<1>. DEFINE Waiting(c) == <<fbReqCh[c], toServer[c], toClient[c]>> # <<<<>>, <<>>, <<>>>>
<1>. SUFFICES ASSUME LoopTypes, LoopNeverStalls, [Next]_vars, NEW c \in Client,
                     ~crashed', writer'[c] # "failed"
     PROVE  Answering(c)' \/ Waiting(c)'
  BY DEF LoopNeverStalls
<1>0. writer'[c] \in WriterAt
  BY NextTypes DEF LoopTypes
<1>1. CASE writer'[c] = writer[c] /\ fbReqCh'[c] = fbReqCh[c] /\ toServer'[c] = toServer[c]
           /\ toClient'[c] = toClient[c] /\ crashed' = crashed
  BY <1>1 DEF LoopNeverStalls, Answering
<1>2. ASSUME NEW d \in Client, ServeRequest(d), d = c PROVE fbReqCh'[c] # <<>>
  BY <1>2 DEF ServeRequest, LoopTypes
<1>3. ASSUME NEW d \in Client, d = c,
             TakeRequest(d) \/ Capture(d) \/ AwaitFirstFrame(d) \/ FrameDiff(d) \/ GetDirtyRects(d)
      PROVE  Answering(c)'
  BY <1>3 DEF TakeRequest, Capture, AwaitFirstFrame, FrameDiff, GetDirtyRects, GoTo, LoopTypes, Answering
<1>4. ASSUME NEW s \in Seq(Updates), NEW u PROVE Append(s, u) # <<>>
  <2>1. s \in Seq(Updates \cup {u})
    BY SeqMonotonic
  <2>. QED
    BY <2>1, AppendProperties
<1>5. ASSUME NEW d \in Client, EncodeAndSend(d), d = c PROVE toClient'[c] # <<>>
  BY <1>4, <1>5 DEF EncodeAndSend, GoTo, LoopTypes
<1>6. ASSUME NEW d \in Client, PushCursor(d) \/ SendNotice(d), d = c PROVE toClient'[c] # <<>>
  BY <1>4, <1>6 DEF PushCursor, SendNotice, LoopTypes
<1>7. ASSUME NEW d \in Client, HandleUpdate(d), d = c PROVE toServer'[c] # <<>>
  <2>. DEFINE full == IF Head(toClient[c]).resize = 0 THEN <<>>
                      ELSE <<Request(FALSE, Head(toClient[c]).resize)>>
  <2>1. toServer'[c] = toServer[c] \o <<Request(TRUE, Len(picture[c]))>> \o full
    BY <1>7 DEF HandleUpdate, LoopTypes
  <2>2. toServer[c] \in Seq(Requests) /\ toServer'[c] \in Seq(Requests)
    BY <1>7, HandleUpdateTypes DEF LoopTypes
  <2>. QED
    BY <2>1, <2>2
<1>8. ASSUME NEW d \in Client, d # c,
             ServeRequest(d) \/ TakeRequest(d) \/ Capture(d) \/ AwaitFirstFrame(d) \/ FrameDiff(d)
             \/ GetDirtyRects(d) \/ EncodeAndSend(d) \/ PushCursor(d) \/ SendNotice(d) \/ HandleUpdate(d)
      PROVE  /\ writer'[c] = writer[c] /\ fbReqCh'[c] = fbReqCh[c] /\ toServer'[c] = toServer[c]
             /\ toClient'[c] = toClient[c]
             /\ ~crashed \/ HandleUpdate(d)
  BY <1>8 DEF ServeRequest, TakeRequest, Capture, AwaitFirstFrame, FrameDiff, GetDirtyRects,
              EncodeAndSend, PushCursor, SendNotice, HandleUpdate, GoTo, LoopTypes
<1>9. CASE CaptureLoop \/ Environment \/ NotifyDesktopResize \/ UNCHANGED vars
  <2>1. /\ writer' = writer /\ fbReqCh' = fbReqCh /\ toServer' = toServer /\ toClient' = toClient
        /\ crashed' = crashed
    BY <1>9 DEF CaptureLoop, Environment, Grab, Publish, ScreenChanges, ScreenResizes,
       NotifyDesktopResize, vars, connVars, capturerVars, diffVars
  <2>. QED
    BY <1>1, <2>1
<1>10. ASSUME NEW d \in Client, d # c,
              ServeRequest(d) \/ TakeRequest(d) \/ Capture(d) \/ AwaitFirstFrame(d) \/ FrameDiff(d)
              \/ GetDirtyRects(d) \/ EncodeAndSend(d) \/ PushCursor(d) \/ SendNotice(d) \/ HandleUpdate(d)
       PROVE  Answering(c)' \/ Waiting(c)'
  <2>1. HandleUpdate(d) => crashed' = crashed
    BY DEF HandleUpdate, capturerVars, diffVars
  <2>2. ~crashed
    BY <1>8, <1>10, <2>1 DEF LoopTypes
  <2>. QED
    BY <1>8, <1>10, <2>2 DEF LoopNeverStalls, Answering
<1>. QED
  BY <1>2, <1>3, <1>5, <1>6, <1>7, <1>9, <1>10 DEF Next

\* However many requests are dropped because another one is waiting, and whoever else is
\* connected, every client whose writer has not failed has a request or an update under
\* way or an answer being made (serveMessages, framebufferWriter, handleFramebufferUpdate).
THEOREM NeverStalls == Spec => []LoopNeverStalls
<1>1. Init => LoopNeverStalls
  <2>1. \A r : <<r>> # <<>>
    OBVIOUS
  <2>2. ASSUME Init, NEW c \in Client PROVE toServer[c] # <<>>
    <3>1. toServer[c] = <<Request(FALSE, Bounds)>>
      BY <2>2 DEF Init
    <3>. QED
      BY <2>1, <3>1, Zenon
  <2>. QED
    BY <2>2 DEF LoopNeverStalls
<1>. QED
  BY <1>1, TypesHold, NextStalls, PTL DEF Spec

-----------------------------------------------------------------------------
(* One client at a fixed resolution. *)

\* While the resolution stays, everything has its size.
Steady(c) ==
    /\ ~crashed /\ configSize = Len(screen) /\ notice = Len(screen) /\ noticeTo = {} /\ writer[c] # "failed"
    /\ \A f \in {grabbed, front, back, diffPrev, out[c]} : f = NoFrame \/ Len(f) = Len(screen)
    /\ diffLen = Len(diffPrev) /\ (diffPrev # NoFrame => diffW = Len(screen))
    /\ Len(picture[c]) = Len(screen)
    /\ req[c].size = Len(screen)
    /\ \A k \in 1..Len(fbReqCh[c]) : fbReqCh[c][k].size = Len(screen)
    /\ \A k \in 1..Len(toServer[c]) : toServer[c][k].size = Len(screen)
    /\ \A k \in 1..Len(toClient[c]) : toClient[c][k].resize = 0

\* The browser will show tile t of the frame.
ShowsAll(c, frame) == \A t \in 1..Len(screen) : WillShow(c, t, frame[t])

\* Between two answers the stored frame is the one the client was last answered
\* with; during an answer, what the browser lacks is still to be compared or is in the
\* rectangles on their way to it.
Complete(c) ==
    /\ writer[c] \in {"idle", "capture", "wait"} =>
         out[c] = diffPrev /\ (out[c] # NoFrame => ShowsAll(c, out[c]))
    /\ writer[c] = "diff" => out[c] # NoFrame /\ (diffPrev # NoFrame => ShowsAll(c, diffPrev))
    /\ writer[c] = "rects" =>
         /\ out[c] = diffPrev /\ out[c] # NoFrame
         /\ \A t \in 1..Len(screen) : t \in LastDirtyRects \/ WillShow(c, t, out[c][t])
    /\ writer[c] = "encode" =>
         /\ out[c] = diffPrev /\ out[c] # NoFrame
         /\ \A t \in 1..Len(screen) : t \in regions[c] \/ WillShow(c, t, out[c][t])

OneClientInv ==
    (\A c, d \in Client : c = d) /\ resizes = 0 => \A c \in Client : Steady(c) /\ Complete(c)

-----------------------------------------------------------------------------
(* What the browser will show, as updates are sent and painted. *)

\* What the client will show depends on what it shows and what is under way.
LEMMA SameView ==
    ASSUME NEW c, toClient'[c] = toClient[c], picture'[c] = picture[c]
    PROVE  \A t, v : WillShow(c, t, v)' <=> WillShow(c, t, v)
BY DEF WillShow

\* What it will show once an update was sent.
LEMMA ViewAfterSend ==
    ASSUME NEW c, toClient[c] \in Seq(Updates), NEW u \in Updates,
           toClient'[c] = Append(toClient[c], u), picture'[c] = picture[c], NEW t, NEW v
    PROVE  /\ t \in DOMAIN u.tiles /\ u.tiles[t] = v => WillShow(c, t, v)'
           /\ t \notin DOMAIN u.tiles /\ WillShow(c, t, v) => WillShow(c, t, v)'
<1>. DEFINE q == toClient[c]
            r == toClient'[c]
            cq == {k \in DOMAIN q : t \in DOMAIN q[k].tiles}
            cr == {k \in DOMAIN r : t \in DOMAIN r[k].tiles}
<1>1. /\ Len(q) \in Nat /\ DOMAIN q = 1..Len(q) /\ DOMAIN r = 1..(Len(q) + 1)
      /\ \A k \in 1..Len(q) : r[k] = q[k]
      /\ r[Len(q) + 1] = u
  BY AppendProperties
<1>2. /\ WillShow(c, t, v) <=> \/ \E k \in cq : q[k].tiles[t] = v /\ \A j \in cq : j <= k
                               \/ cq = {} /\ picture[c][t] = v
      /\ WillShow(c, t, v)' <=> \/ \E k \in cr : r[k].tiles[t] = v /\ \A j \in cr : j <= k
                                \/ cr = {} /\ picture[c][t] = v
  BY DEF WillShow
<1>. HIDE DEF q, r
<1>3. ASSUME t \in DOMAIN u.tiles, u.tiles[t] = v PROVE WillShow(c, t, v)'
  <2>1. Len(q) + 1 \in cr /\ \A j \in cr : j <= Len(q) + 1
    BY <1>1, <1>3
  <2>. QED
    BY <1>1, <1>2, <1>3, <2>1
<1>4. ASSUME t \notin DOMAIN u.tiles, WillShow(c, t, v) PROVE WillShow(c, t, v)'
  <2>1. cr = cq
    <3>1. \A k \in DOMAIN r : k \in DOMAIN q \/ k = Len(q) + 1
      BY <1>1
    <3>2. \A k \in DOMAIN q : k \in DOMAIN r
      BY <1>1
    <3>. QED
      BY <1>1, <1>4, <3>1, <3>2
  <2>2. \A k \in cq : r[k] = q[k]
    BY <1>1
  <2>. QED
    BY <1>2, <1>4, <2>1, <2>2
<1>. QED
  BY <1>3, <1>4

\* Painting the first update under way changes nothing of that.
LEMMA ViewAfterPaint ==
    ASSUME NEW c, toClient[c] \in Seq(Updates), toClient[c] # <<>>, picture[c] \in Pictures,
           Head(toClient[c]).resize = 0, toClient'[c] = Tail(toClient[c]),
           picture'[c] = Paint(picture[c], Head(toClient[c])),
           NEW t \in DOMAIN picture[c], NEW v, WillShow(c, t, v)
    PROVE  WillShow(c, t, v)'
<1>. DEFINE q == toClient[c]
            r == toClient'[c]
            cq == {k \in DOMAIN q : t \in DOMAIN q[k].tiles}
            cr == {k \in DOMAIN r : t \in DOMAIN r[k].tiles}
<1>1. /\ Len(q) \in Nat \ {0} /\ DOMAIN q = 1..Len(q) /\ DOMAIN r = 1..(Len(q) - 1)
      /\ \A k \in 1..(Len(q) - 1) : r[k] = q[k + 1]
      /\ Head(q) = q[1] /\ Head(q) \in Updates
  BY HeadTailProperties, EmptySeq, LenProperties
<1>2. picture'[c][t] = IF t \in DOMAIN q[1].tiles THEN q[1].tiles[t] ELSE picture[c][t]
  <2>1. q[1] \in Updates /\ q[1].resize = 0 /\ picture'[c] = Paint(picture[c], q[1])
    BY <1>1
  <2>. HIDE DEF q
  <2>2. \A pic \in Pictures, u \in Updates : u.resize = 0 =>
           \A s \in DOMAIN pic : Paint(pic, u)[s] = IF s \in DOMAIN u.tiles THEN u.tiles[s] ELSE pic[s]
    BY PaintIsPicture, ZenonT(30)
  <2>3. Paint(picture[c], q[1])[t] = IF t \in DOMAIN q[1].tiles THEN q[1].tiles[t] ELSE picture[c][t]
    BY <2>1, <2>2, Zenon
  <2>. QED
    BY <2>1, <2>3
<1>3. /\ \/ \E k \in cq : q[k].tiles[t] = v /\ \A j \in cq : j <= k
         \/ cq = {} /\ picture[c][t] = v
      /\ WillShow(c, t, v)' <=> \/ \E k \in cr : r[k].tiles[t] = v /\ \A j \in cr : j <= k
                                \/ cr = {} /\ picture'[c][t] = v
  BY DEF WillShow
<1>. HIDE DEF q, r
<1>4. \A j \in cr : j \in Int /\ j >= 1 /\ j + 1 \in cq
  BY <1>1
<1>5. CASE \E k \in cq : q[k].tiles[t] = v /\ \A j \in cq : j <= k
  <2>1. PICK k \in cq : q[k].tiles[t] = v /\ \A j \in cq : j <= k
    BY <1>5
  <2>2. CASE k = 1
    <3>1. cr = {}
      BY <1>4, <2>1, <2>2
    <3>2. picture'[c][t] = v
      BY <1>2, <2>1, <2>2
    <3>. QED
      BY <1>3, <3>1, <3>2
  <2>3. CASE k # 1
    <3>1. k \in Int /\ k - 1 \in 1..(Len(q) - 1) /\ r[k - 1] = q[k]
      BY <1>1, <2>1, <2>3
    <3>2. k - 1 \in cr
      BY <1>1, <2>1, <3>1
    <3>3. \A j \in cr : j <= k - 1
      BY <1>4, <2>1, <3>1
    <3>. QED
      BY <1>3, <2>1, <3>1, <3>2, <3>3
  <2>. QED
    BY <2>2, <2>3
<1>6. CASE cq = {} /\ picture[c][t] = v
  <2>1. cr = {}
    BY <1>4, <1>6
  <2>2. 1 \notin cq /\ 1 \in DOMAIN q
    <3>1. 1 \in 1..Len(q)
      BY <1>1
    <3>2. 1 \in DOMAIN q
      BY <1>1, <3>1, Zenon
    <3>. QED
      BY <1>6, <3>2, Zenon
  <2>3. picture'[c][t] = v
    BY <1>2, <1>6, <2>2
  <2>. QED
    BY <1>3, <2>1, <2>3
<1>. QED
  BY <1>3, <1>5, <1>6

-----------------------------------------------------------------------------
(* The steps of one client at a fixed resolution. *)

\* What a step has to leave alone for the view of the browser to stay.
LEMMA SameShows ==
    ASSUME NEW c, screen' = screen, toClient'[c] = toClient[c], picture'[c] = picture[c]
    PROVE  /\ \A f : ShowsAll(c, f)' <=> ShowsAll(c, f)
           /\ \A t, v : WillShow(c, t, v)' <=> WillShow(c, t, v)
BY SameView DEF ShowsAll

\* The lemmas that end in Complete: every step of the one client keeps what is under way complete.
LEMMA ServeRequestComplete ==
    ASSUME LoopTypes, NEW c \in Client, Steady(c), Complete(c), ServeRequest(c)
    PROVE  Steady(c)' /\ Complete(c)'
<1>1. /\ UNCHANGED <<screen, grabbed, front, back, out, diffPrev, diffLen, diffW, dirtyRects,
                     dirtyComputed, crashed, notice, noticeTo, configSize, writer, req, regions, toClient, picture>>
      /\ toServer[c] \in Seq(Requests) /\ toServer[c] # <<>>
      /\ toServer'[c] = Tail(toServer[c])
      /\ fbReqCh'[c] = IF fbReqCh[c] = <<>> THEN <<Head(toServer[c])>> ELSE fbReqCh[c]
  BY DEF LoopTypes, ServeRequest, capturerVars, noticeVars, screenVars, loopVars, diffVars
<1>2. Complete(c)'
  BY <1>1, SameShows DEF Complete, LastDirtyRects
<1>3. \A k \in 1..Len(toServer'[c]) : toServer'[c][k].size = Len(screen)
  <2>. DEFINE q == toServer[c]
  <2>1. q \in Seq(Requests) /\ q # <<>> /\ toServer'[c] = Tail(q)
    BY <1>1
  <2>2. \A k \in 1..Len(q) : q[k].size = Len(screen)
    BY DEF Steady
  <2>. HIDE DEF q
  <2>3. /\ Len(q) \in Nat /\ Len(Tail(q)) = Len(q) - 1
        /\ \A k \in 1..Len(Tail(q)) : Tail(q)[k] = q[k + 1]
    BY <2>1
  <2>. QED
    BY <2>1, <2>2, <2>3
<1>4. \A k \in 1..Len(fbReqCh'[c]) : fbReqCh'[c][k].size = Len(screen)
  <2>1. Head(toServer[c]).size = Len(screen)
    BY <1>1 DEF Steady
  <2>2. CASE fbReqCh[c] = <<>>
    <3>1. fbReqCh'[c] = <<Head(toServer[c])>>
      BY <1>1, <2>2
    <3>2. Len(<<Head(toServer[c])>>) = 1 /\ <<Head(toServer[c])>>[1] = Head(toServer[c])
      OBVIOUS
    <3>. QED
      BY <2>1, <3>1, <3>2
  <2>3. CASE fbReqCh[c] # <<>>
    BY <1>1, <2>3 DEF Steady
  <2>. QED
    BY <2>2, <2>3
<1>5. Steady(c)'
  BY <1>1, <1>3, <1>4 DEF Steady
<1>. QED
  BY <1>2, <1>5

LEMMA TakeRequestComplete ==
    ASSUME LoopTypes, NEW c \in Client, Steady(c), Complete(c), TakeRequest(c)
    PROVE  Steady(c)' /\ Complete(c)'
<1>1. /\ UNCHANGED <<screen, grabbed, front, back, out, diffPrev, diffLen, diffW, dirtyRects,
                     dirtyComputed, crashed, notice, noticeTo, configSize, regions, toServer, toClient, picture>>
      /\ writer[c] = "idle" /\ writer'[c] = "capture"
      /\ req'[c] = Head(fbReqCh[c]) /\ fbReqCh'[c] = <<>>
  BY DEF LoopTypes, TakeRequest, GoTo, capturerVars, noticeVars, screenVars, loopVars, diffVars
<1>2. PICK first \in Requests : fbReqCh[c] = <<first>>
  BY DEF LoopTypes, TakeRequest
<1>3. req'[c].size = Len(screen)
  BY <1>1, <1>2 DEF Steady
<1>4. Complete(c)'
  BY <1>1, SameShows DEF Complete
<1>5. \A k \in 1..Len(fbReqCh'[c]) : fbReqCh'[c][k].size = Len(screen)
  BY <1>1
<1>6. Steady(c)'
  BY <1>1, <1>3, <1>5 DEF Steady
<1>. QED
  BY <1>4, <1>6

LEMMA CaptureComplete ==
    ASSUME LoopTypes, NEW c \in Client, Steady(c), Complete(c), Capture(c) \/ AwaitFirstFrame(c)
    PROVE  Steady(c)' /\ Complete(c)'
<1>1. /\ UNCHANGED <<screen, grabbed, front, back, diffPrev, diffLen, diffW, dirtyRects,
                     dirtyComputed, crashed, notice, noticeTo, configSize, req, regions, fbReqCh, toServer, toClient, picture>>
      /\ writer[c] \in {"capture", "wait"}
      /\ \/ writer'[c] \in {"capture", "wait"} /\ out'[c] = out[c]
         \/ writer'[c] = "diff" /\ out'[c] = front /\ front # NoFrame
  BY DEF LoopTypes, Capture, AwaitFirstFrame, TakeNotify, CopyFrame, HasFrame, GoTo,
         capturerVars, noticeVars, screenVars, loopVars, diffVars
<1>2. Complete(c)'
  BY <1>1, SameShows DEF Complete
<1>3. Steady(c)'
  BY <1>1 DEF Steady
<1>. QED
  BY <1>2, <1>3

LEMMA FrameDiffComplete ==
    ASSUME LoopTypes, NEW c \in Client, Steady(c), Complete(c), FrameDiff(c)
    PROVE  Steady(c)' /\ Complete(c)'
<1>1. /\ UNCHANGED <<screen, grabbed, front, back, out, notice, noticeTo, configSize, req, regions,
                     fbReqCh, toServer, toClient, picture>>
      /\ writer[c] = "diff" /\ writer'[c] = "rects"
      /\ IF diffPrev = NoFrame \/ diffW # Bounds
         THEN StoreFrame(out[c], Bounds) ELSE CompareFrame(out[c], Bounds)
  BY DEF LoopTypes, FrameDiff, Diff, GoTo, screenVars, loopVars, noticeVars
<1>2. /\ out[c] \in Buffer /\ diffPrev \in Buffer /\ out[c] # NoFrame /\ Len(out[c]) = Len(screen)
      /\ Bounds = Len(screen) /\ Len(screen) \in AllTiles /\ Len(NoFrame) = 0
      /\ DOMAIN out[c] = 1..Len(screen) /\ diffLen = Len(diffPrev) /\ NoFrame \in Buffer
      /\ 1..Len(screen) \subseteq AllTiles /\ Len(screen) \in Nat
      /\ writer[c] = "diff" => (diffPrev # NoFrame => ShowsAll(c, diffPrev))
  <2>1. out[c] # NoFrame /\ (diffPrev # NoFrame => ShowsAll(c, diffPrev))
    BY <1>1 DEF Complete
  <2>2. Len(out[c]) = Len(screen)
    BY <2>1 DEF Steady
  <2>3. 1..Len(screen) \subseteq AllTiles /\ Len(screen) \in AllTiles /\ Len(screen) \in Nat
    BY FrameIsSeq, CapturerAssumption DEF LoopTypes, AllTiles
  <2>. QED
    BY <2>1, <2>2, <2>3, FrameIsSeq, EmptySeq DEF LoopTypes, Steady, Bounds, Buffer, NoFrame
<1>3. /\ diffPrev' = out[c] /\ diffLen' = Len(out[c]) /\ diffW' = Len(screen) /\ crashed' = crashed
      /\ dirtyComputed' = TRUE
      /\ \A t \in 1..Len(screen) :
            t \in dirtyRects' \/ (diffPrev # NoFrame /\ out[c][t] = diffPrev[t])
  <2>1. CASE diffPrev = NoFrame
    <3>1. StoreFrame(out[c], Bounds) /\ diffLen = 0
      BY <1>1, <1>2, <2>1
    <3>2. Overlay(out[c], IF diffLen < Len(out[c]) THEN NoFrame ELSE diffPrev) = Overlay(out[c], NoFrame)
      BY <2>1
    <3>3. Overlay(out[c], NoFrame) = out[c]
      <4>1. Len(NoFrame) <= Len(out[c])
        BY <1>2
      <4>. QED
        BY <1>2, <4>1, OverlayIsBuffer, Zenon
    <3>. QED
      BY <1>2, <3>1, <3>2, <3>3 DEF StoreFrame
  <2>2. CASE diffPrev # NoFrame
    <3>1. diffW = Len(screen) /\ Len(diffPrev) = Len(screen) /\ DOMAIN diffPrev = 1..Len(screen)
      BY <1>2, <2>2, FrameIsSeq DEF Steady
    <3>2. CompareFrame(out[c], Len(screen))
      BY <1>1, <1>2, <2>2, <3>1
    <3>3. SubSeq(out[c], 1, Len(out[c])) = out[c] /\ Overlay(out[c], diffPrev) = out[c]
      <4>1. Len(diffPrev) <= Len(out[c]) /\ Len(out[c]) \in 0..Len(out[c])
        BY <1>2, <3>1
      <4>. QED
        BY <1>2, <4>1, PrefixIsBuffer, OverlayIsBuffer, Zenon
    <3>4. /\ dirtyRects' = {t \in 1..Len(screen) : t \in 1..Len(screen) => out[c][t] # diffPrev[t]}
          /\ dirtyComputed' = TRUE
          /\ diffPrev' = Overlay(SubSeq(out[c], 1, Len(out[c])), diffPrev)
          /\ UNCHANGED <<diffLen, diffW, crashed>>
      BY <1>2, <3>1, <3>2 DEF CompareFrame
    <3>. QED
      BY <1>2, <2>2, <3>1, <3>3, <3>4
  <2>. QED
    BY <2>1, <2>2
<1>4. Complete(c)'
  <2>1. out'[c] = diffPrev' /\ out'[c] # NoFrame
    BY <1>1, <1>2, <1>3
  <2>2. ASSUME NEW t \in 1..Len(screen) PROVE t \in LastDirtyRects' \/ WillShow(c, t, out[c][t])
    <3>1. CASE t \in dirtyRects'
      BY <3>1, <1>3 DEF LastDirtyRects
    <3>2. CASE diffPrev # NoFrame /\ out[c][t] = diffPrev[t]
      BY <3>2, <1>1, <1>2 DEF ShowsAll
    <3>. QED
      BY <3>1, <3>2, <1>3
  <2>. QED
    BY <1>1, <2>1, <2>2, SameShows DEF Complete
<1>5. Steady(c)'
  BY <1>1, <1>2, <1>3 DEF Steady
<1>. QED
  BY <1>4, <1>5

LEMMA GetDirtyRectsComplete ==
    ASSUME LoopTypes, NEW c \in Client, Steady(c), Complete(c), GetDirtyRects(c)
    PROVE  Steady(c)' /\ Complete(c)'
<1>1. /\ UNCHANGED <<screen, grabbed, front, back, out, diffPrev, diffLen, diffW, dirtyRects,
                     crashed, notice, noticeTo, configSize, req, fbReqCh, toServer, toClient, picture>>
      /\ writer[c] = "rects" /\ writer'[c] = "encode"
      /\ regions'[c] = AllTiles \/ regions'[c] = LastDirtyRects
  BY DEF LoopTypes, GetDirtyRects, ConsumeDirtyRects, GoTo, capturerVars, noticeVars, screenVars, loopVars, diffVars
<1>2. 1..Len(screen) \subseteq AllTiles
  BY FrameIsSeq, CapturerAssumption DEF LoopTypes, AllTiles
<1>3. Complete(c)'
  BY <1>1, <1>2, SameShows DEF Complete
<1>4. Steady(c)'
  BY <1>1 DEF Steady
<1>. QED
  BY <1>3, <1>4

LEMMA EncodeAndSendComplete ==
    ASSUME LoopTypes, NEW c \in Client, Steady(c), Complete(c), EncodeAndSend(c)
    PROVE  Steady(c)' /\ Complete(c)'
<1>1. /\ UNCHANGED <<screen, grabbed, front, back, out, diffPrev, diffLen, diffW, dirtyRects,
                     dirtyComputed, crashed, notice, noticeTo, req, fbReqCh, toServer, picture>>
      /\ writer[c] = "encode" /\ configSize' = Bounds
  BY DEF LoopTypes, EncodeAndSend, capturerVars, noticeVars, screenVars, loopVars, diffVars
<1>2. /\ out[c] = diffPrev /\ out[c] # NoFrame /\ req[c].size = Len(screen)
      /\ Bounds = Len(screen) /\ configSize = Len(screen)
      /\ \A t \in 1..Len(screen) : t \in regions[c] \/ WillShow(c, t, out[c][t])
  BY <1>1 DEF Complete, Steady, Bounds
<1>3. DOMAIN out[c] = 1..Len(screen) /\ Len(out[c]) = Len(screen)
  BY <1>2, FrameIsSeq DEF LoopTypes, Steady
<1>4. encodeRegions(c) = regions[c] \cap (1..Len(screen)) /\ encodeRegions(c) \subseteq DOMAIN out[c]
  BY <1>2, <1>3 DEF encodeRegions
<1>. DEFINE u == Update(IF Bounds # configSize THEN Bounds ELSE 0, [t \in encodeRegions(c) |-> out[c][t]])
<1>5. u \in Updates
  BY <1>4, AnswerIsUpdate
<1>6. /\ u.resize = 0 /\ DOMAIN u.tiles = encodeRegions(c)
      /\ \A t \in encodeRegions(c) : u.tiles[t] = out[c][t]
  BY <1>2 DEF Update
<1>7. toClient'[c] = Append(toClient[c], u) /\ writer'[c] = "idle"
  BY <1>4 DEF EncodeAndSend, GoTo, LoopTypes
<1>. HIDE DEF u
<1>8. toClient[c] \in Seq(Updates)
  BY DEF LoopTypes
<1>9. ASSUME NEW t \in 1..Len(screen), NEW v, v = out[c][t] PROVE WillShow(c, t, v)'
  <2>1. picture'[c] = picture[c]
    BY <1>1
  <2>2. /\ t \in DOMAIN u.tiles /\ u.tiles[t] = v => WillShow(c, t, v)'
        /\ t \notin DOMAIN u.tiles /\ WillShow(c, t, v) => WillShow(c, t, v)'
    BY <1>5, <1>7, <1>8, <2>1, ViewAfterSend, Zenon
  <2>3. t \in encodeRegions(c) => u.tiles[t] = v
    BY <1>6, <1>9
  <2>4. t \notin encodeRegions(c) => WillShow(c, t, v)
    BY <1>2, <1>4, <1>9
  <2>. QED
    BY <1>6, <2>2, <2>3, <2>4
<1>10. Complete(c)'
  BY <1>1, <1>2, <1>7, <1>9 DEF Complete, ShowsAll
<1>11. \A k \in 1..Len(toClient'[c]) : toClient'[c][k].resize = 0
  <2>1. /\ Len(toClient[c]) \in Nat /\ Len(toClient'[c]) = Len(toClient[c]) + 1
        /\ \A k \in 1..Len(toClient[c]) : toClient'[c][k] = toClient[c][k]
        /\ toClient'[c][Len(toClient[c]) + 1] = u
    BY <1>5, <1>7, <1>8, AppendProperties
  <2>. QED
    BY <1>6, <2>1 DEF Steady
<1>12. Steady(c)'
  BY <1>1, <1>2, <1>7, <1>11 DEF Steady
<1>. QED
  BY <1>10, <1>12

LEMMA PushCursorComplete ==
    ASSUME LoopTypes, NEW c \in Client, Steady(c), Complete(c), PushCursor(c)
    PROVE  Steady(c)' /\ Complete(c)'
<1>. DEFINE u == Update(0, NoTiles)
<1>1. /\ UNCHANGED <<screen, grabbed, front, back, out, diffPrev, diffLen, diffW, dirtyRects,
                     dirtyComputed, crashed, notice, noticeTo, configSize, writer, req, regions, fbReqCh, toServer, picture>>
      /\ toClient'[c] = Append(toClient[c], u) /\ toClient[c] \in Seq(Updates)
  BY DEF LoopTypes, PushCursor, capturerVars, noticeVars, screenVars, loopVars, diffVars
<1>2. u \in Updates
  <2>1. 0 \in 0..MaxTiles
    BY CapturerAssumption
  <2>. QED
    BY <2>1, NoTilesIsTiling, UpdateIsUpdate
<1>3. u.resize = 0 /\ DOMAIN u.tiles = {}
  BY NoTilesIsTiling DEF Update
<1>. HIDE DEF u
<1>4. \A t, v : WillShow(c, t, v) => WillShow(c, t, v)'
  BY <1>1, <1>2, <1>3, ViewAfterSend
<1>5. Complete(c)'
  BY <1>1, <1>4 DEF Complete, ShowsAll, LastDirtyRects
<1>6. \A k \in 1..Len(toClient'[c]) : toClient'[c][k].resize = 0
  <2>1. /\ Len(toClient[c]) \in Nat /\ Len(toClient'[c]) = Len(toClient[c]) + 1
        /\ \A k \in 1..Len(toClient[c]) : toClient'[c][k] = toClient[c][k]
        /\ toClient'[c][Len(toClient[c]) + 1] = u
    <3>. DEFINE q == toClient[c]
    <3>1. q \in Seq(Updates) /\ u \in Updates /\ toClient'[c] = Append(q, u)
      BY <1>1, <1>2
    <3>. HIDE DEF q
    <3>2. /\ Len(q) \in Nat /\ Len(Append(q, u)) = Len(q) + 1
          /\ \A k \in 1..Len(q) : Append(q, u)[k] = q[k]
          /\ Append(q, u)[Len(q) + 1] = u
      BY <3>1, AppendProperties
    <3>. QED
      BY <3>1, <3>2 DEF q
  <2>2. \A k \in 1..(Len(toClient[c]) + 1) : k \in 1..Len(toClient[c]) \/ k = Len(toClient[c]) + 1
    BY <2>1
  <2>3. \A k \in 1..Len(toClient[c]) : toClient[c][k].resize = 0
    BY DEF Steady
  <2>. QED
    BY <1>3, <2>1, <2>2, <2>3, Zenon
<1>7. Steady(c)'
  BY <1>1, <1>6 DEF Steady
<1>. QED
  BY <1>5, <1>7

LEMMA HandleUpdateComplete ==
    ASSUME LoopTypes, NEW c \in Client, Steady(c), Complete(c), HandleUpdate(c)
    PROVE  Steady(c)' /\ Complete(c)'
<1>. DEFINE u == Head(toClient[c])
<1>1. /\ UNCHANGED <<screen, grabbed, front, back, out, diffPrev, diffLen, diffW, dirtyRects,
                     dirtyComputed, crashed, notice, noticeTo, configSize, writer, req, regions, fbReqCh>>
      /\ toClient[c] \in Seq(Updates) /\ toClient[c] # <<>> /\ picture[c] \in Pictures
      /\ toClient'[c] = Tail(toClient[c]) /\ picture'[c] = Paint(picture[c], u)
  BY DEF LoopTypes, HandleUpdate, capturerVars, noticeVars, screenVars, loopVars, diffVars
<1>2. u = toClient[c][1] /\ u \in Updates /\ Len(toClient[c]) >= 1
  BY <1>1
<1>3. u.resize = 0
  BY <1>1, <1>2 DEF Steady
<1>4. /\ Len(picture[c]) = Len(screen) /\ DOMAIN picture[c] = 1..Len(screen)
      /\ Paint(picture[c], u) \in Pictures /\ DOMAIN Paint(picture[c], u) = 1..Len(screen)
  <2>1. /\ Paint(picture[c], u) \in Pictures /\ DOMAIN picture[c] = 1..Len(picture[c])
        /\ u.resize = 0 => DOMAIN Paint(picture[c], u) = DOMAIN picture[c]
    BY <1>1, <1>2, PaintIsPicture, Zenon
  <2>2. Len(picture[c]) = Len(screen)
    BY DEF Steady
  <2>. QED
    BY <1>3, <2>1, <2>2, Zenon
<1>5. \A t \in 1..Len(screen) : \A v : WillShow(c, t, v) => WillShow(c, t, v)'
  BY <1>1, <1>3, <1>4, ViewAfterPaint
<1>6. Complete(c)'
  BY <1>1, <1>5 DEF Complete, ShowsAll, LastDirtyRects
<1>7. \A k \in 1..Len(toClient'[c]) : toClient'[c][k].resize = 0
  BY <1>1 DEF Steady
<1>8. Len(picture'[c]) = Len(screen)
  <2>1. \A p \in Pictures : Len(p) \in AllTiles /\ DOMAIN p = 1..Len(p)
    BY <1>2, PaintIsPicture
  <2>2. \A i, j \in AllTiles : 1..i = 1..j => i = j
    <3>1. \A i, j \in Nat : i >= 1 /\ j >= 1 /\ 1..i = 1..j => i = j
      <4>. SUFFICES ASSUME NEW i \in Nat, NEW j \in Nat, i >= 1, j >= 1, 1..i = 1..j PROVE i = j
        OBVIOUS
      <4>1. i \in 1..j /\ j \in 1..i
        OBVIOUS
      <4>. QED
        BY <4>1
    <3>. QED
      BY <3>1, CapturerAssumption DEF AllTiles
  <2>. QED
    BY <1>1, <1>4, <2>1, <2>2
<1>9. \A k \in 1..Len(toServer'[c]) : toServer'[c][k].size = Len(screen)
  <2>. DEFINE r == Request(TRUE, Len(picture[c]))
  <2>1. toServer'[c] = toServer[c] \o <<r>> \o <<>>
    BY <1>3 DEF HandleUpdate, LoopTypes
  <2>2. r \in Requests /\ r.size = Len(screen)
    BY <1>1, <1>2, <1>4, PaintIsPicture DEF Request, Requests
  <2>. HIDE DEF r
  <2>3. /\ toServer[c] \in Seq(Requests) /\ toServer'[c] = Append(toServer[c], r)
    BY <2>1, <2>2 DEF LoopTypes
  <2>4. /\ Len(toServer[c]) \in Nat /\ Len(toServer'[c]) = Len(toServer[c]) + 1
        /\ \A k \in 1..Len(toServer[c]) : toServer'[c][k] = toServer[c][k]
        /\ toServer'[c][Len(toServer[c]) + 1] = r
    BY <2>2, <2>3, AppendProperties
  <2>5. \A k \in 1..Len(toServer[c]) : toServer[c][k].size = Len(screen)
    BY DEF Steady
  <2>6. \A k \in 1..Len(toServer'[c]) : k \in 1..Len(toServer[c]) \/ k = Len(toServer[c]) + 1
    BY <2>4
  <2>. QED
    BY <2>2, <2>4, <2>5, <2>6, Zenon
<1>10. Steady(c)'
  BY <1>1, <1>7, <1>8, <1>9 DEF Steady
<1>. QED
  BY <1>6, <1>10

LEMMA CaptureLoopComplete ==
    ASSUME LoopTypes, NEW c \in Client, Steady(c), Complete(c), CaptureLoop
    PROVE  Steady(c)' /\ Complete(c)'
<1>1. /\ UNCHANGED <<screen, out, diffPrev, diffLen, diffW, dirtyRects, dirtyComputed, crashed, notice, noticeTo, configSize,
                     writer, req, regions, fbReqCh, toServer, toClient, picture>>
      /\ \/ grabbed' = screen /\ front' = front /\ back' = back
         \/ grabbed # NoFrame /\ grabbed' = NoFrame /\ front' = Overlay(grabbed, back) /\ back' = front
  BY DEF CaptureLoop, Grab, Publish, screenVars, diffVars, connVars, noticeVars
<1>2. grabbed # NoFrame => Overlay(grabbed, back) = grabbed
  <2>. SUFFICES ASSUME grabbed # NoFrame PROVE Overlay(grabbed, back) = grabbed
    OBVIOUS
  <2>1. grabbed \in Buffer /\ back \in Buffer /\ Len(grabbed) = Len(screen) /\ Len(screen) \in Nat
        /\ (Len(back) = 0 \/ Len(back) = Len(screen))
    BY FrameIsSeq, CapturerAssumption DEF LoopTypes, Steady, AllTiles
  <2>2. Len(back) <= Len(grabbed)
    BY <2>1
  <2>. QED
    BY <2>1, <2>2, OverlayIsBuffer, Zenon
<1>3. Steady(c)'
  BY <1>1, <1>2 DEF Steady
<1>4. Complete(c)'
  BY <1>1, SameShows DEF Complete, LastDirtyRects
<1>. QED
  BY <1>3, <1>4

LEMMA ScreenChangesComplete ==
    ASSUME LoopTypes, NEW c \in Client, Steady(c), Complete(c), ScreenChanges, UNCHANGED connVars
    PROVE  Steady(c)' /\ Complete(c)'
<1>1. UNCHANGED <<grabbed, front, back, out, diffPrev, diffLen, diffW, dirtyRects, dirtyComputed, crashed,
                  notice, noticeTo, configSize, writer, req, regions, fbReqCh, toServer, toClient, picture>>
  BY DEF ScreenChanges, loopVars, diffVars, connVars, noticeVars
<1>2. Len(screen') = Len(screen)
  <2>1. screen \in Seq(Pixel)
    BY FrameIsSeq DEF LoopTypes
  <2>2. PICK t \in DOMAIN screen, p \in Pixel : screen' = [screen EXCEPT ![t] = p]
    BY DEF ScreenChanges
  <2>. QED
    BY <2>1, <2>2, ExceptSeq
<1>3. \A t, v : WillShow(c, t, v)' <=> WillShow(c, t, v)
  BY <1>1, SameView
<1>4. Steady(c)'
  BY <1>1, <1>2 DEF Steady
<1>5. Complete(c)'
  BY <1>1, <1>2, <1>3 DEF Complete, ShowsAll, LastDirtyRects
<1>. QED
  BY <1>4, <1>5

LEMMA InitOneClient == Init => OneClientInv
<1>. SUFFICES ASSUME Init, NEW c \in Client PROVE Steady(c) /\ Complete(c)
  BY DEF OneClientInv
<1>1. LoopTypes
  BY InitTypes
<1>2. /\ toServer[c] = <<Request(FALSE, Bounds)>> /\ fbReqCh[c] = <<>> /\ toClient[c] = <<>>
      /\ out[c] = NoFrame /\ diffPrev = NoFrame /\ Bounds = Len(screen) /\ writer[c] = "idle"
  BY DEF Init, CapturerInit, Bounds
<1>3. /\ Len(toServer[c]) = 1 /\ toServer[c][1].size = Len(screen)
      /\ Len(fbReqCh[c]) = 0 /\ Len(toClient[c]) = 0 /\ Len(NoFrame) = 0
  BY <1>2 DEF Request, NoFrame
<1>4. Len(picture[c]) = Len(screen)
  <2>1. picture[c] = [t \in 1..Len(screen) |-> Black] /\ Len(screen) \in Nat
    BY <1>1, FrameIsSeq, CapturerAssumption DEF Init, Bounds, LoopTypes, AllTiles
  <2>. QED
    BY <2>1
<1>5. req[c].size = Len(screen)
  BY DEF Init, Request, Bounds
<1>6. /\ ~crashed /\ configSize = Len(screen) /\ notice = Len(screen) /\ noticeTo = {} /\ writer[c] # "failed" /\ diffLen = 0
      /\ \A f \in {grabbed, front, back, diffPrev, out[c]} : f = NoFrame
  BY <1>2 DEF Init, CapturerInit, Bounds
<1>7. /\ \A k \in 1..Len(fbReqCh[c]) : fbReqCh[c][k].size = Len(screen)
      /\ \A k \in 1..Len(toClient[c]) : toClient[c][k].resize = 0
      /\ \A k \in 1..Len(toServer[c]) : k = 1
  BY <1>3
<1>8. Steady(c)
  BY <1>2, <1>3, <1>4, <1>5, <1>6, <1>7 DEF Steady
<1>. QED
  BY <1>2, <1>8 DEF Complete

LEMMA NextOneClient == LoopTypes /\ OneClientInv /\ [Next]_vars => OneClientInv'
<1>. SUFFICES ASSUME LoopTypes, OneClientInv, [Next]_vars, \A c, d \in Client : c = d, resizes' = 0,
                     NEW c \in Client
     PROVE  Steady(c)' /\ Complete(c)'
  BY DEF OneClientInv
<1>1. resizes' = resizes \/ resizes' = resizes + 1
  <2>1. ASSUME NEW d \in Client,
               ServeRequest(d) \/ TakeRequest(d) \/ Capture(d) \/ AwaitFirstFrame(d) \/ FrameDiff(d)
               \/ GetDirtyRects(d) \/ EncodeAndSend(d) \/ PushCursor(d) \/ SendNotice(d) \/ HandleUpdate(d)
        PROVE  UNCHANGED screenVars
    BY <2>1 DEF ServeRequest, TakeRequest, Capture, CopyFrame, AwaitFirstFrame, TakeNotify, FrameDiff,
       Diff, GetDirtyRects, ConsumeDirtyRects, EncodeAndSend, PushCursor, SendNotice, HandleUpdate, capturerVars
  <2>2. CaptureLoop \/ NotifyDesktopResize \/ UNCHANGED vars => UNCHANGED screenVars
    BY DEF CaptureLoop, Grab, Publish, NotifyDesktopResize, vars, capturerVars
  <2>3. UNCHANGED screenVars => resizes' = resizes
    BY DEF screenVars
  <2>4. Environment => resizes' = resizes \/ resizes' = resizes + 1
    BY DEF Environment, ScreenChanges, ScreenResizes
  <2>. QED
    BY <2>1, <2>2, <2>3, <2>4 DEF Next
<1>2. resizes = 0
  BY <1>1, CapturerAssumption DEF LoopTypes
<1>3. Steady(c) /\ Complete(c)
  BY <1>2 DEF OneClientInv
<1>4. ASSUME NEW d \in Client,
             ServeRequest(d) \/ TakeRequest(d) \/ Capture(d) \/ AwaitFirstFrame(d) \/ FrameDiff(d)
             \/ GetDirtyRects(d) \/ EncodeAndSend(d) \/ PushCursor(d) \/ HandleUpdate(d)
      PROVE  Steady(c)' /\ Complete(c)'
  <2>1. d = c
    OBVIOUS
  <2>. QED
    BY <1>3, <1>4, <2>1, ServeRequestComplete, TakeRequestComplete, CaptureComplete, FrameDiffComplete,
       GetDirtyRectsComplete, EncodeAndSendComplete, PushCursorComplete, HandleUpdateComplete
<1>n. ~NotifyDesktopResize /\ \A d \in Client : ~SendNotice(d)
  BY <1>3 DEF Steady, NotifyDesktopResize, SendNotice, Bounds
<1>5. CASE CaptureLoop
  BY <1>3, <1>5, CaptureLoopComplete
<1>6. CASE Environment
  <2>1. ~ScreenResizes
    BY <1>2 DEF ScreenResizes
  <2>. QED
    BY <1>3, <1>6, <2>1, ScreenChangesComplete DEF Environment
<1>7. CASE UNCHANGED vars
  BY <1>3, <1>7, SameShows DEF vars, capturerVars, connVars, noticeVars, screenVars, loopVars, diffVars,
     Steady, Complete, LastDirtyRects
<1>. QED
  BY <1>4, <1>5, <1>6, <1>7, <1>n DEF Next

\* With one client, at a fixed resolution, an answer that carries only what changed since
\* the answer before leaves the browser with the whole frame it was made from, for any
\* screen, any number of changes and however captures, comparisons and paintings
\* interleave (frameDiff, LastDirtyRects, encodeAndSendFrame).
THEOREM AnswersComplete == Spec => []((\A c, d \in Client : c = d) => AnswerIsComplete)
<1>1. LoopTypes /\ OneClientInv => ((\A c, d \in Client : c = d) => AnswerIsComplete)
  <2>. SUFFICES ASSUME LoopTypes, OneClientInv, \A c, d \in Client : c = d, NEW c \in Client,
                       resizes = 0, writer[c] = "idle", out[c] # NoFrame
       PROVE  /\ DOMAIN picture[c] = DOMAIN out[c]
              /\ \A t \in DOMAIN out[c] : WillShow(c, t, out[c][t])
    BY DEF AnswerIsComplete
  <2>1. Steady(c) /\ Complete(c)
    BY DEF OneClientInv
  <2>2. DOMAIN out[c] = 1..Len(screen)
    BY <2>1, FrameIsSeq DEF LoopTypes, Steady
  <2>3. DOMAIN picture[c] = 1..Len(screen)
    <3>1. Update(0, NoTiles) \in Updates /\ picture[c] \in Pictures
      <4>1. 0 \in 0..MaxTiles
        BY CapturerAssumption
      <4>. QED
        BY <4>1, NoTilesIsTiling, UpdateIsUpdate DEF LoopTypes
    <3>. QED
      BY <3>1, <2>1, PaintIsPicture DEF Steady
  <2>. QED
    BY <2>1, <2>2, <2>3 DEF Complete, ShowsAll
<1>. QED
  BY <1>1, TypesHold, InitOneClient, NextOneClient, PTL DEF Spec

=============================================================================
