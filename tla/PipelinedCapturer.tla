------------------------- MODULE PipelinedCapturer -------------------------
(***************************************************************************)
(* rfb/pipelined_capturer.go: a background goroutine grabs the screen into  *)
(* two alternating buffers; each connection's writer goroutine copies the   *)
(* current one and compares it with the last frame any of them copied, to   *)
(* find what changed.                                                       *)
(*                                                                          *)
(* A frame is a sequence of diff tiles, each holding one pixel value; the   *)
(* resolution is the number of tiles (one column of them, so the stride is  *)
(* always the same).  A nil list of dirty rectangles, "everything changed", is the  *)
(* set of all tiles a screen may have.                                      *)
(***************************************************************************)
EXTENDS Integers, Sequences

CONSTANTS
    Client,       \* the connections served
    Pixel,        \* the values a tile may show
    Fresh,        \* the ones among them that a tile new to the screen may show
    MaxTiles,     \* no screen is larger
    FirstScreens, \* what the screen may show when the server starts
    MaxChanges,   \* bound: how often the screen's contents change
    MaxResizes    \* bound: how often its resolution changes

AllTiles == 1..MaxTiles
Frames == UNION {[1..n -> Pixel] : n \in AllTiles}

ASSUME CapturerAssumption ==
    /\ MaxTiles \in Nat \ {0}
    /\ Fresh \subseteq Pixel
    /\ FirstScreens \subseteq Frames
    /\ MaxChanges \in Nat
    /\ MaxResizes \in Nat

VARIABLES
    screen,         \* what the inner capturer would see now
    changes, resizes,
    grabbed,        \* captureLoop's pixels, between Capture and the lock
    front, back,    \* bufs[cur] and bufs[next]; next is always 1 - cur
    notify,         \* the channel of capacity one holds a token
    out,            \* [Client -> the copy its last Capture returned]
    diffPrev,       \* the backing array of p.diffPrev, all of its capacity
    diffLen,        \* len(p.diffPrev)
    diffW,          \* p.diffPrevW and p.diffPrevH
    dirtyRects,     \* p.dirtyRects
    dirtyComputed,  \* p.dirtyComputed
    crashed         \* an index was out of range: the process has panicked

screenVars == <<screen, changes, resizes>>
loopVars   == <<grabbed, front, back, notify>>
diffVars   == <<diffPrev, diffLen, diffW, dirtyRects, dirtyComputed, crashed>>
capturerVars == <<screenVars, loopVars, out, diffVars>>

NoFrame == <<>>

\* Copying a frame over the front of a buffer leaves the buffer's tail alone.
Overlay(frame, buf) == frame \o SubSeq(buf, Len(frame) + 1, Len(buf))

CapturerInit ==
    /\ screen \in FirstScreens
    /\ changes = 0 /\ resizes = 0
    /\ grabbed = NoFrame
    /\ front = NoFrame /\ back = NoFrame
    /\ notify = FALSE
    /\ out = [c \in Client |-> NoFrame]
    /\ diffPrev = NoFrame /\ diffLen = 0 /\ diffW = 0
    /\ dirtyRects = {} /\ dirtyComputed = FALSE
    /\ crashed = FALSE

-----------------------------------------------------------------------------
(* The screen. *)

ScreenChanges ==
    /\ changes < MaxChanges
    /\ \E t \in DOMAIN screen, p \in Pixel :
          p # screen[t] /\ screen' = [screen EXCEPT ![t] = p]
    /\ changes' = changes + 1
    /\ UNCHANGED <<resizes, loopVars, out, diffVars>>

\* A new resolution: what fits of the old contents stays.
ScreenResizes ==
    /\ resizes < MaxResizes
    /\ \E n \in AllTiles \ {Len(screen)}, p \in Fresh :
          screen' = [t \in 1..n |-> IF t <= Len(screen) THEN screen[t] ELSE p]
    /\ resizes' = resizes + 1
    /\ UNCHANGED <<changes, loopVars, out, diffVars>>

\* Bounds: asked of the inner capturer, at the moment of the call.
Bounds == Len(screen)

-----------------------------------------------------------------------------
(* captureLoop. *)

\* p.inner.Capture(), without the lock.
Grab ==
    /\ grabbed = NoFrame
    /\ grabbed' = screen
    /\ UNCHANGED <<screenVars, front, back, notify, out, diffVars>>

\* Faulty variant: after the first frame the index is no longer swapped.
PublishForgetsSwap ==
    /\ grabbed # NoFrame
    /\ IF front = NoFrame
       THEN front' = grabbed /\ UNCHANGED back
       ELSE back' = Overlay(grabbed, back) /\ UNCHANGED front
    /\ grabbed' = NoFrame
    /\ notify' = TRUE
    /\ UNCHANGED <<screenVars, out, diffVars>>

\* Under the lock: the other buffer takes the frame and becomes the current
\* one.  A buffer grows and never shrinks.
Publish ==
    /\ grabbed # NoFrame
    /\ front' = Overlay(grabbed, back)
    /\ back' = front
    /\ grabbed' = NoFrame
    /\ notify' = TRUE
    /\ UNCHANGED <<screenVars, out, diffVars>>

-----------------------------------------------------------------------------
(* Capture and LastDirtyRects, as a connection's writer c calls them. *)

HasFrame == front # NoFrame

\* The wait for the first frame takes the one token.
TakeNotify ==
    /\ notify
    /\ notify' = FALSE
    /\ UNCHANGED <<screenVars, grabbed, front, back, out, diffVars>>

\* Under the lock: the current buffer, all of its length.
CopyFrame(c) ==
    /\ HasFrame
    /\ out' = [out EXCEPT ![c] = front]
    /\ UNCHANGED <<screenVars, loopVars, diffVars>>

\* frameDiff on a first frame or a changed resolution: keep it, report nil.
StoreFrame(pixels, w) ==
    /\ diffPrev' = Overlay(pixels, IF diffLen < Len(pixels) THEN NoFrame ELSE diffPrev)
    /\ diffLen' = Len(pixels)
    /\ diffW' = w
    /\ dirtyRects' = AllTiles
    /\ dirtyComputed' = TRUE
    /\ UNCHANGED crashed

\* Faulty variant: the stored frame is updated before the comparison.
CompareFrameUpdatesFirst(pixels, w) ==
    /\ dirtyRects' = (1..w) \ DOMAIN pixels
    /\ dirtyComputed' = TRUE
    /\ diffPrev' = Overlay(pixels, diffPrev)
    /\ UNCHANGED <<diffLen, diffW, crashed>>

\* frameDiff otherwise: the tiles that differ, or that the frame does not
\* have.  A tile beyond the stored array's capacity is out of range.
CompareFrame(pixels, w) ==
    LET compared == 1..(IF w < Len(pixels) THEN w ELSE Len(pixels))
        kept == IF diffLen < Len(pixels) THEN diffLen ELSE Len(pixels)
    IN  IF compared \subseteq DOMAIN diffPrev
        THEN /\ dirtyRects' = {t \in 1..w : t \in compared => pixels[t] # diffPrev[t]}
             /\ dirtyComputed' = TRUE
             /\ diffPrev' = Overlay(SubSeq(pixels, 1, kept), diffPrev)
             /\ UNCHANGED <<diffLen, diffW, crashed>>
        ELSE /\ crashed' = TRUE
             /\ UNCHANGED <<diffPrev, diffLen, diffW, dirtyRects, dirtyComputed>>

\* After the unlock: Bounds, then the comparison, which writes fields that all
\* connections share and no lock guards.
Diff(c) ==
    /\ IF diffPrev = NoFrame \/ diffW # Bounds
       THEN StoreFrame(out[c], Bounds)
       ELSE CompareFrame(out[c], Bounds)
    /\ UNCHANGED <<screenVars, loopVars, out>>

\* What LastDirtyRects returns, and its effect.
LastDirtyRects == IF dirtyComputed THEN dirtyRects ELSE AllTiles
ConsumeDirtyRects ==
    /\ dirtyComputed' = FALSE
    /\ UNCHANGED <<screenVars, loopVars, out, diffPrev, diffLen, diffW, dirtyRects, crashed>>
=============================================================================
