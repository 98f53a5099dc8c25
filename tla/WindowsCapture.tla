---------------------------- MODULE WindowsCapture ----------------------------
(***************************************************************************)
(* Screen capture on Windows: DXGICapture (capture/capture_windows_dxgi.go) *)
(* over DXGI desktop duplication, and GDICapture                            *)
(* (capture/capture_windows.go), to which Init falls back.                  *)
(*                                                                          *)
(* The screen is a function from tiles to versions.  DXGI, which is         *)
(* external, collects the tiles that changed since a frame was acquired, as *)
(* dirty regions or as moved ones, of which this code asks only for the     *)
(* dirty ones; a new duplication starts with all tiles.  COM objects and    *)
(* GDI handles are named; an object is alive from its creation to its       *)
(* release.                                                                 *)
(***************************************************************************)
EXTENDS Naturals, Sequences

CONSTANTS
    Tile,
    MaxChanges,     \* bound: changes of the screen
    MaxCaptures     \* bound: calls of Capture

ASSUME WindowsCaptureAssumption == MaxChanges \in Nat /\ MaxCaptures \in Nat

VARIABLES
    state,          \* "new", "dxgi", "gdi", "failed" or "closed"
    live,           \* objects that were created and not released
    field,          \* objects the structs refer to
    desk,           \* the screen
    owed,           \* tiles the duplication has collected as dirty
    moves,          \* tiles it has collected as the target of a move
    staging, pixels,
    returned,       \* pixels before the last Capture
    dirty,          \* lastDirtyRects; all tiles for nil
    missed,         \* tiles of frames whose Capture failed, since one succeeded
    unreported,     \* tiles of the last frame that its rectangles cannot name
    changes, captures

winVars == <<state, live, field, desk, owed, moves, staging, pixels, returned, dirty,
             missed, unreported, changes, captures>>
picture == <<owed, moves, staging, pixels, returned, dirty, missed, unreported>>

Black == [t \in Tile |-> 0]
Kept == {"device", "ctx", "dupl", "staging"}
GdiCreates == <<"screenDC", "memDC", "hBitmap">>
Gdi == {GdiCreates[i] : i \in 1..3}

\* initDXGI creates these one after the other ("size" creates nothing); the ones
\* in Deferred are released when it returns.
Creates == <<{"device", "ctx"}, {"dxgiDev"}, {"adapter"}, {"output"}, {"output1"}, {"dupl"}, {}, {"staging"}>>
Deferred == {"dxgiDev", "adapter", "output", "output1"}
CreatedBefore(k) == UNION {Creates[i] : i \in 1..(k - 1)}

WinInit ==
    /\ state = "new" /\ live = {} /\ field = {}
    /\ desk = Black /\ staging = Black /\ pixels = Black /\ returned = Black
    /\ owed = Tile /\ moves = {} /\ dirty = Tile /\ missed = {} /\ unreported = {}
    /\ changes = 0 /\ captures = 0

ScreenChange ==
    /\ changes < MaxChanges
    /\ changes' = changes + 1
    /\ \E t \in Tile :
          /\ desk' = [desk EXCEPT ![t] = @ + 1]
          /\ \/ owed' = owed \cup {t} /\ UNCHANGED moves
             \/ moves' = moves \cup {t} /\ UNCHANGED owed
    /\ UNCHANGED <<state, live, field, staging, pixels, returned, dirty, missed, unreported, captures>>

-----------------------------------------------------------------------------

\* Faulty variant: the duplication is forgotten when the staging texture fails.
ReleasedOnFailureShort(k) == Deferred \cup {"ctx", "device"}

\* What initDXGI releases by itself when its k-th step fails.
ReleasedOnFailure(k) == Deferred \cup {"ctx", "device"} \cup (IF k > 6 THEN {"dupl"} ELSE {})

\* Init with initDXGI.
InitDXGI ==
    /\ state = "new"
    /\ state' = "dxgi"
    /\ live' = live \cup (CreatedBefore(Len(Creates) + 1) \ Deferred)
    /\ field' = Kept
    /\ UNCHANGED <<desk, picture, changes, captures>>

\* What GDICapture.Init releases when its j-th call fails.
GdiReleased(j) == (IF j > 1 THEN {"screenDC"} ELSE {}) \cup (IF j > 2 THEN {"memDC"} ELSE {})

\* initDXGI fails at its k-th step and GDICapture.Init follows, which may fail at its
\* j-th call.
InitGDI(k) ==
    /\ state = "new"
    /\ LET rest == live \cup (CreatedBefore(k) \ ReleasedOnFailure(k))
       IN  \/ state' = "gdi" /\ live' = rest \cup Gdi /\ field' = Gdi
           \/ \E j \in 1..3 :
                 /\ state' = "failed"
                 /\ live' = rest \cup ({GdiCreates[i] : i \in 1..(j - 1)} \ GdiReleased(j))
                 /\ UNCHANGED field
    /\ UNCHANGED <<desk, picture, changes, captures>>

Capturing(s) == state = s /\ captures < MaxCaptures /\ captures' = captures + 1

\* GDICapture.Capture copies the whole screen, or BitBlt fails.
CaptureGDI ==
    /\ Capturing("gdi")
    /\ \/ pixels' = desk /\ returned' = pixels /\ dirty' = Tile
       \/ UNCHANGED <<pixels, returned, dirty>>
    /\ UNCHANGED <<state, live, field, desk, owed, moves, staging, missed, unreported, changes>>

\* lastDirtyRects[:0], which says that nothing changed; but a nil slice stays nil.
Emptied == {{}} \cup ({dirty} \cap {Tile})

\* AcquireNextFrame times out: the pixels of the last frame, nothing is dirty.
CaptureTimeout ==
    /\ Capturing("dxgi") /\ "dupl" \in field /\ owed \cup moves = {}
    /\ returned' = pixels
    /\ dirty' \in Emptied
    /\ unreported' = {}
    /\ UNCHANGED <<state, live, field, desk, owed, moves, staging, pixels, missed, changes>>

\* ACCESS_LOST: recreateDuplication releases the duplication and walks from the
\* device to another one, by the steps of initDXGI from the second on.  It fails at
\* step k, or at none (k = 7); its temporaries are released when it returns.  The
\* pixels and rectangles of the last frame.
CaptureAccessLost ==
    /\ Capturing("dxgi") /\ "dupl" \in field
    /\ \E k \in 2..7 :
          /\ live' = (live \ {"dupl"}) \cup ((UNION {Creates[i] : i \in 2..(k - 1)}) \ Deferred)
          /\ field' = IF k = 7 THEN field ELSE field \ {"dupl"}
          /\ owed' = IF k = 7 THEN Tile ELSE owed
          /\ moves' = IF k = 7 THEN {} ELSE moves
    /\ returned' = pixels
    /\ unreported' = {}
    /\ UNCHANGED <<state, desk, staging, pixels, dirty, missed, changes>>

\* Without a duplication, or when AcquireNextFrame fails, Capture returns an error.
CaptureFails ==
    /\ Capturing("dxgi")
    /\ UNCHANGED <<state, live, field, desk, picture, changes>>

\* Faulty variant: the texture is read before the frame is copied to it.
CaptureFrameEarly ==
    /\ Capturing("dxgi") /\ "dupl" \in field /\ owed \cup moves # {}
    /\ staging' = desk
    /\ pixels' = staging
    /\ returned' = pixels
    /\ dirty' = owed
    /\ unreported' = (moves \cup missed) \ owed
    /\ owed' = {} /\ moves' = {} /\ missed' = {}
    /\ UNCHANGED <<state, live, field, desk, changes>>

\* Faulty variant: the rectangles are asked for after the frame was released.
CaptureFrameLateRects ==
    /\ Capturing("dxgi") /\ "dupl" \in field /\ owed \cup moves # {}
    /\ staging' = desk
    /\ pixels' = desk
    /\ returned' = pixels
    /\ dirty' = {}
    /\ unreported' = (moves \cup missed) \ owed
    /\ owed' = {} /\ moves' = {} /\ missed' = {}
    /\ UNCHANGED <<state, live, field, desk, changes>>

\* queryDirtyRects, while the frame is acquired: nil, for everything, if there is no
\* metadata or the query fails; otherwise the dirty regions, of which there may be
\* none.  GetFrameMoveRects is never called.
QueryDirtyRects == {Tile} \cup (IF owed = {} THEN Emptied ELSE {owed})

\* A frame: copied to the staging texture, its rectangles queried, released,
\* and the texture read.
CaptureFrame ==
    /\ Capturing("dxgi") /\ "dupl" \in field /\ owed \cup moves # {}
    /\ staging' = desk
    /\ pixels' = desk
    /\ returned' = pixels
    /\ dirty' \in QueryDirtyRects
    /\ unreported' = (moves \cup missed) \ owed
    /\ owed' = {} /\ moves' = {} /\ missed' = {}
    /\ UNCHANGED <<state, live, field, desk, changes>>

\* The frame was acquired, but it is no texture, or the staging texture cannot be
\* mapped after the frame was released: its changes are not owed any more.
CaptureFrameFails ==
    /\ Capturing("dxgi") /\ "dupl" \in field /\ owed \cup moves # {}
    /\ \/ UNCHANGED <<staging, dirty>>
       \/ staging' = desk /\ dirty' \in QueryDirtyRects
    /\ owed' = {} /\ moves' = {}
    /\ missed' = missed \cup owed \cup moves
    /\ returned' = pixels
    /\ unreported' = {}
    /\ UNCHANGED <<state, live, field, desk, pixels, changes>>

\* Close releases what the fields refer to; a second call finds them empty.
CloseCapture ==
    /\ state \in {"dxgi", "gdi", "closed"}
    /\ state' = "closed"
    /\ live' = live \ field
    /\ field' = {}
    /\ UNCHANGED <<desk, picture, changes, captures>>

-----------------------------------------------------------------------------

WinNext ==
    \/ ScreenChange \/ InitDXGI
    \/ \E k \in 1..Len(Creates) : InitGDI(k)
    \/ CaptureGDI \/ CaptureTimeout \/ CaptureAccessLost \/ CaptureFails
    \/ CaptureFrame \/ CaptureFrameFails \/ CloseCapture

WinSpec == WinInit /\ [][WinNext]_winVars

-----------------------------------------------------------------------------

WinTypeOK ==
    /\ state \in {"new", "dxgi", "gdi", "failed", "closed"}
    /\ live \subseteq Kept \cup Deferred \cup Gdi /\ field \subseteq Kept \cup Gdi
    /\ {desk, staging, pixels, returned} \subseteq [Tile -> 0..MaxChanges]
    /\ owed \subseteq Tile /\ moves \subseteq Tile /\ dirty \subseteq Tile
    /\ missed \subseteq Tile /\ unreported \subseteq Tile
    /\ changes \in 0..MaxChanges /\ captures \in 0..MaxCaptures

\* No COM object and no GDI handle is leaked or released while it is referred to:
\* between calls exactly those the structs refer to are alive, whichever step of
\* initDXGI, GDICapture.Init or recreateDuplication failed, and none after Close.
ResourcesBalanced == live = field

\* What the pixels lack of the screen is owed by the duplication and comes with the
\* next frame, through timeouts and lost access.  Only the tiles of a frame whose
\* Capture failed after it was acquired wait for another change.
FrameIsCurrent ==
    state = "dxgi" /\ "dupl" \in field =>
        \A t \in Tile : pixels[t] # desk[t] => t \in owed \cup moves \cup missed

\* LastDirtyRects covers what a Capture changed in the pixels, also after timeouts,
\* failures, lost access and frames without a dirty region, with two gaps: what only
\* moved, for which the code never asks, and what an earlier, failed Capture lost.
DirtyRectsCover == \A t \in Tile : pixels[t] # returned[t] => t \in dirty \cup unreported

=============================================================================
