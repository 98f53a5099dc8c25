---------------------------- MODULE DesktopProofs ----------------------------
(***************************************************************************)
(* Theorems about how the server reaches the desktop: screen capture on     *)
(* Windows, for every set of tiles and every number of changes and          *)
(* captures, and the set-up of a desktop portal session: whatever the       *)
(* order of replies, signals and timeouts, a session that New returns was   *)
(* granted, one that it gives up is closed, and answers are not lost.       *)
(***************************************************************************)
EXTENDS WindowsCapture, Portal, TLAPS

(* Screen capture on Windows. *)

Picture == [Tile -> 0..MaxChanges]

\* WinTypeOK, and that the version of a tile counts changes of the screen.
Typed ==
    /\ WinTypeOK
    /\ \A t \in Tile : desk[t] <= changes

\* Before Init nothing was created and a duplication would start with every tile.
Fresh == state = "new" => live = {} /\ owed = Tile

WinInv == Typed /\ Fresh /\ ResourcesBalanced /\ FrameIsCurrent /\ DirtyRectsCover

-----------------------------------------------------------------------------

\* What initDXGI has created before its k-th step is released when that step fails.
LEMMA FailureReleasesAll ==
    ASSUME NEW k \in 1..Len(Creates)
    PROVE  CreatedBefore(k) \subseteq ReleasedOnFailure(k)
<1>1. Len(Creates) = 8
  BY DEF Creates
<1>2. k \in 1..8
  BY <1>1
<1>. SUFFICES ASSUME NEW i \in 1..(k - 1), NEW o \in Creates[i]
     PROVE  o \in ReleasedOnFailure(k)
  BY DEF CreatedBefore
<1>3. i \in 1..7 /\ (i >= 6 => k > 6)
  BY <1>2
<1>4. Creates[1] = {"device", "ctx"} /\ Creates[2] = {"dxgiDev"} /\ Creates[3] = {"adapter"}
      /\ Creates[4] = {"output"} /\ Creates[5] = {"output1"} /\ Creates[6] = {"dupl"} /\ Creates[7] = {}
  BY DEF Creates
<1>5. CASE i \in 1..5
  <2>1. i = 1 \/ i = 2 \/ i = 3 \/ i = 4 \/ i = 5
    BY <1>5
  <2>2. o \in Deferred \cup {"ctx", "device"}
    BY <2>1, <1>4 DEF Deferred
  <2>. QED
    BY <2>2 DEF ReleasedOnFailure
<1>6. CASE i = 6
  BY <1>3, <1>4, <1>6 DEF ReleasedOnFailure
<1>7. CASE i = 7
  BY <1>4, <1>7
<1>. QED
  BY <1>3, <1>5, <1>6, <1>7

\* When initDXGI succeeds, what it has not released is what the struct refers to.
LEMMA SuccessKeeps == CreatedBefore(Len(Creates) + 1) \ Deferred = Kept
<1>1. Len(Creates) = 8
  BY DEF Creates
<1>2. Creates[1] = {"device", "ctx"} /\ Creates[2] = {"dxgiDev"} /\ Creates[3] = {"adapter"}
      /\ Creates[4] = {"output"} /\ Creates[5] = {"output1"} /\ Creates[6] = {"dupl"}
      /\ Creates[7] = {} /\ Creates[8] = {"staging"}
  BY DEF Creates
<1>3. CreatedBefore(Len(Creates) + 1) = UNION {Creates[i] : i \in 1..8}
  BY <1>1 DEF CreatedBefore
<1>4. ASSUME NEW o \in CreatedBefore(Len(Creates) + 1) \ Deferred
      PROVE  o \in Kept
  <2>1. PICK i \in 1..8 : o \in Creates[i]
    BY <1>3
  <2>2. i = 1 \/ i = 2 \/ i = 3 \/ i = 4 \/ i = 5 \/ i = 6 \/ i = 7 \/ i = 8
    OBVIOUS
  <2>. QED
    BY <2>1, <2>2, <1>2 DEF Deferred, Kept
<1>5. ASSUME NEW o \in Kept
      PROVE  o \in CreatedBefore(Len(Creates) + 1) \ Deferred
  <2>1. o \in Creates[1] \/ o \in Creates[6] \/ o \in Creates[8]
    BY <1>2 DEF Kept
  <2>2. o \in UNION {Creates[i] : i \in 1..8}
    BY <2>1
  <2>3. o \notin Deferred
    BY DEF Kept, Deferred
  <2>. QED
    BY <2>2, <2>3, <1>3
<1>. QED
  BY <1>4, <1>5

\* What GDICapture.Init has created before its j-th call is released when that fails.
LEMMA GdiFailureReleasesAll ==
    ASSUME NEW j \in 1..3
    PROVE  {GdiCreates[i] : i \in 1..(j - 1)} \subseteq GdiReleased(j)
<1>. SUFFICES ASSUME NEW i \in 1..(j - 1) PROVE GdiCreates[i] \in GdiReleased(j)
  OBVIOUS
<1>1. (i = 1 /\ j > 1) \/ (i = 2 /\ j > 2)
  OBVIOUS
<1>2. GdiCreates[1] = "screenDC" /\ GdiCreates[2] = "memDC"
  BY DEF GdiCreates
<1>. QED
  BY <1>1, <1>2 DEF GdiReleased

\* The objects recreateDuplication has made by the k-th step, without its temporaries.
LEMMA RecreateKeeps ==
    ASSUME NEW k \in 2..7
    PROVE  (UNION {Creates[i] : i \in 2..(k - 1)}) \ Deferred = IF k = 7 THEN {"dupl"} ELSE {}
<1>1. Creates[2] = {"dxgiDev"} /\ Creates[3] = {"adapter"} /\ Creates[4] = {"output"}
      /\ Creates[5] = {"output1"} /\ Creates[6] = {"dupl"}
  BY DEF Creates
<1>. DEFINE Made2 == UNION {Creates[i] : i \in 2..(k - 1)}
<1>2. ASSUME NEW o \in Made2 \ Deferred PROVE k = 7 /\ o = "dupl"
  <2>1. PICK i \in 2..(k - 1) : o \in Creates[i]
    OBVIOUS
  <2>2. i = 2 \/ i = 3 \/ i = 4 \/ i = 5 \/ (i = 6 /\ k = 7)
    OBVIOUS
  <2>. QED
    BY <2>1, <2>2, <1>1 DEF Deferred
<1>3. ASSUME k = 7 PROVE "dupl" \in Made2 \ Deferred
  <2>1. 6 \in 2..(k - 1) /\ "dupl" \in Creates[6]
    BY <1>1, <1>3
  <2>. QED
    BY <2>1 DEF Deferred
<1>. HIDE DEF Made2
<1>4. Made2 \ Deferred = IF k = 7 THEN {"dupl"} ELSE {}
  BY <1>2, <1>3
<1>. QED
  BY <1>4 DEF Made2

\* A lost access leaves the struct with a new duplication or without one, and nothing
\* else is created.
LEMMA LostAccess ==
    ASSUME CaptureAccessLost, ResourcesBalanced
    PROVE  /\ live' = field' /\ field' \subseteq field
           /\ \/ owed' = Tile /\ moves' = {}
              \/ UNCHANGED <<owed, moves>> /\ "dupl" \notin field'
<1>1. PICK k \in 2..7 :
        /\ live' = (live \ {"dupl"}) \cup ((UNION {Creates[i] : i \in 2..(k - 1)}) \ Deferred)
        /\ field' = IF k = 7 THEN field ELSE field \ {"dupl"}
        /\ owed' = IF k = 7 THEN Tile ELSE owed
        /\ moves' = IF k = 7 THEN {} ELSE moves
  BY DEF CaptureAccessLost
<1>2. live = field /\ "dupl" \in field
  BY DEF CaptureAccessLost, ResourcesBalanced
<1>3. live' = (live \ {"dupl"}) \cup (IF k = 7 THEN {"dupl"} ELSE {})
  BY <1>1, RecreateKeeps
<1>. QED
  BY <1>1, <1>2, <1>3

LEMMA WinInitInv == WinInit => WinInv
<1>. SUFFICES ASSUME WinInit PROVE WinInv
  OBVIOUS
<1>1. Black \in Picture /\ \A t \in Tile : Black[t] = 0
  BY WindowsCaptureAssumption DEF Black, Picture
<1>2. Typed
  BY <1>1, WindowsCaptureAssumption DEF WinInit, Typed, WinTypeOK, Picture
<1>3. Fresh /\ ResourcesBalanced /\ FrameIsCurrent /\ DirtyRectsCover
  BY DEF WinInit, Fresh, ResourcesBalanced, FrameIsCurrent, DirtyRectsCover
<1>. QED
  BY <1>2, <1>3 DEF WinInv

\* Every step keeps the types.
LEMMA StepKeepsTypes == WinInv /\ [WinNext]_winVars => Typed'
<1>. SUFFICES ASSUME WinInv, [WinNext]_winVars PROVE Typed'
  OBVIOUS
<1>. USE WindowsCaptureAssumption
<1>0. /\ Typed /\ ResourcesBalanced
      /\ desk \in Picture /\ staging \in Picture /\ pixels \in Picture /\ returned \in Picture
  BY DEF WinInv, Typed, WinTypeOK, Picture
<1>1. CASE ScreenChange
  <2>1. PICK t \in Tile : /\ desk' = [desk EXCEPT ![t] = @ + 1]
                          /\ \/ owed' = owed \cup {t} /\ UNCHANGED moves
                             \/ moves' = moves \cup {t} /\ UNCHANGED owed
    BY <1>1 DEF ScreenChange
  <2>2. desk[t] + 1 \in 0..MaxChanges /\ desk[t] + 1 <= changes'
    BY <1>0, <1>1 DEF ScreenChange, Typed, WinTypeOK, Picture
  <2>3. desk' \in Picture /\ \A u \in Tile : desk'[u] <= changes'
    BY <1>0, <1>1, <2>1, <2>2 DEF ScreenChange, Typed, WinTypeOK, Picture
  <2>4. changes' \in 0..MaxChanges
    BY <1>0, <1>1 DEF ScreenChange, Typed, WinTypeOK
  <2>. QED
    BY <1>0, <1>1, <2>1, <2>3, <2>4 DEF ScreenChange, Typed, WinTypeOK, Picture
<1>2. CASE InitDXGI
  <2>1. live' = live \cup Kept
    BY <1>2, SuccessKeeps DEF InitDXGI
  <2>. QED
    BY <1>0, <1>2, <2>1 DEF InitDXGI, Typed, WinTypeOK, picture
<1>3. ASSUME NEW k \in 1..Len(Creates), InitGDI(k) PROVE Typed'
  <2>1. live \cup (CreatedBefore(k) \ ReleasedOnFailure(k)) = live
    BY FailureReleasesAll
  <2>2. \A j \in 1..3 : live \cup ({GdiCreates[i] : i \in 1..(j - 1)} \ GdiReleased(j)) = live
    BY GdiFailureReleasesAll
  <2>3. \/ live' = live \cup Gdi /\ field' = Gdi /\ state' = "gdi"
        \/ live' = live /\ field' = field /\ state' = "failed"
    BY <1>3, <2>1, <2>2 DEF InitGDI
  <2>. QED
    BY <1>0, <1>3, <2>3 DEF InitGDI, Typed, WinTypeOK, picture
<1>4. ASSUME NEW s, Capturing(s) PROVE captures' \in 0..MaxCaptures
  BY <1>0, <1>4 DEF Capturing, Typed, WinTypeOK
<1>5. CASE CaptureGDI
  BY <1>0, <1>4, <1>5 DEF CaptureGDI, Capturing, Typed, WinTypeOK, Picture
<1>6. CASE CaptureTimeout
  BY <1>0, <1>4, <1>6 DEF CaptureTimeout, Emptied, Capturing, Typed, WinTypeOK, Picture
<1>7. CASE CaptureAccessLost
  <2>1. field' \subseteq field /\ live' = field' /\ owed' \subseteq Tile /\ moves' \subseteq Tile
    BY <1>0, <1>7, LostAccess DEF Typed, WinTypeOK
  <2>. QED
    BY <1>0, <1>4, <1>7, <2>1 DEF CaptureAccessLost, Capturing, Typed, WinTypeOK, Picture
<1>8. CASE CaptureFails
  BY <1>0, <1>4, <1>8 DEF CaptureFails, Capturing, Typed, WinTypeOK, picture
<1>9. CASE CaptureFrame
  BY <1>0, <1>4, <1>9 DEF CaptureFrame, Capturing, QueryDirtyRects, Emptied, Typed, WinTypeOK, Picture
<1>10. CASE CaptureFrameFails
  BY <1>0, <1>4, <1>10 DEF CaptureFrameFails, Capturing, QueryDirtyRects, Emptied, Typed, WinTypeOK, Picture
<1>11. CASE CloseCapture
  BY <1>0, <1>11 DEF CloseCapture, Typed, WinTypeOK, picture
<1>12. CASE UNCHANGED winVars
  BY <1>0, <1>12 DEF winVars, Typed, WinTypeOK
<1>. QED
  BY <1>1, <1>2, <1>3, <1>5, <1>6, <1>7, <1>8, <1>9, <1>10, <1>11, <1>12 DEF WinNext

\* Every step keeps created and referred-to objects the same.
LEMMA StepKeepsBalance == WinInv /\ [WinNext]_winVars => Fresh' /\ ResourcesBalanced'
<1>. SUFFICES ASSUME WinInv, [WinNext]_winVars PROVE Fresh' /\ ResourcesBalanced'
  OBVIOUS
<1>0. Fresh /\ ResourcesBalanced /\ owed \subseteq Tile
  BY DEF WinInv, Typed, WinTypeOK
<1>1. CASE ScreenChange
  BY <1>0, <1>1 DEF ScreenChange, Fresh, ResourcesBalanced
<1>2. CASE InitDXGI
  <2>1. live' = live \cup Kept
    BY <1>2, SuccessKeeps DEF InitDXGI
  <2>. QED
    BY <1>0, <1>2, <2>1 DEF InitDXGI, Fresh, ResourcesBalanced
<1>3. ASSUME NEW k \in 1..Len(Creates), InitGDI(k) PROVE Fresh' /\ ResourcesBalanced'
  <2>1. live \cup (CreatedBefore(k) \ ReleasedOnFailure(k)) = live
    BY FailureReleasesAll
  <2>2. \A j \in 1..3 : live \cup ({GdiCreates[i] : i \in 1..(j - 1)} \ GdiReleased(j)) = live
    BY GdiFailureReleasesAll
  <2>3. \/ live' = live \cup Gdi /\ field' = Gdi /\ state' = "gdi"
        \/ live' = live /\ field' = field /\ state' = "failed"
    BY <1>3, <2>1, <2>2 DEF InitGDI
  <2>4. live = {} /\ field = {}
    BY <1>0, <1>3 DEF InitGDI, Fresh, ResourcesBalanced
  <2>. QED
    BY <1>0, <2>3, <2>4 DEF Fresh, ResourcesBalanced
<1>4. CASE CaptureAccessLost
  BY <1>0, <1>4, LostAccess DEF CaptureAccessLost, Capturing, Fresh, ResourcesBalanced
<1>5. CASE CaptureGDI \/ CaptureTimeout \/ CaptureFails \/ CaptureFrame \/ CaptureFrameFails
  <2>1. UNCHANGED <<live, field, state>> /\ state # "new"
    BY <1>5 DEF CaptureGDI, CaptureTimeout, CaptureFails, CaptureFrame, CaptureFrameFails, Capturing
  <2>. QED
    BY <1>0, <2>1 DEF Fresh, ResourcesBalanced
<1>6. CASE CloseCapture
  BY <1>0, <1>6 DEF CloseCapture, Fresh, ResourcesBalanced
<1>7. CASE UNCHANGED winVars
  BY <1>0, <1>7 DEF winVars, Fresh, ResourcesBalanced
<1>. QED
  BY <1>1, <1>2, <1>3, <1>4, <1>5, <1>6, <1>7 DEF WinNext

\* Every step keeps the pixels up to date but for what is owed or was lost, and the
\* rectangles cover what it changed in the pixels.
LEMMA StepKeepsPicture == WinInv /\ [WinNext]_winVars => FrameIsCurrent' /\ DirtyRectsCover'
<1>. SUFFICES ASSUME WinInv, [WinNext]_winVars PROVE FrameIsCurrent' /\ DirtyRectsCover'
  OBVIOUS
<1>0. Typed /\ Fresh /\ FrameIsCurrent /\ DirtyRectsCover /\ desk \in Picture
  BY DEF WinInv, Typed, WinTypeOK, Picture
<1>1. CASE ScreenChange
  <2>1. PICK t \in Tile : /\ desk' = [desk EXCEPT ![t] = @ + 1]
                          /\ \/ owed' = owed \cup {t} /\ UNCHANGED moves
                             \/ moves' = moves \cup {t} /\ UNCHANGED owed
    BY <1>1 DEF ScreenChange
  <2>2. \A u \in Tile : u # t => desk'[u] = desk[u]
    BY <1>0, <2>1 DEF Picture
  <2>3. UNCHANGED <<state, field, pixels, returned, dirty, missed, unreported>>
    BY <1>1 DEF ScreenChange
  <2>4. FrameIsCurrent'
    BY <1>0, <2>1, <2>2, <2>3 DEF FrameIsCurrent
  <2>5. DirtyRectsCover'
    BY <1>0, <2>3 DEF DirtyRectsCover
  <2>. QED
    BY <2>4, <2>5
<1>2. CASE InitDXGI
  <2>1. owed = Tile /\ UNCHANGED picture
    BY <1>0, <1>2 DEF InitDXGI, Fresh
  <2>. QED
    BY <1>0, <2>1 DEF picture, FrameIsCurrent, DirtyRectsCover
<1>3. ASSUME NEW k \in 1..Len(Creates), InitGDI(k) PROVE FrameIsCurrent' /\ DirtyRectsCover'
  BY <1>0, <1>3 DEF InitGDI, picture, FrameIsCurrent, DirtyRectsCover
<1>4. CASE CaptureGDI
  BY <1>0, <1>4 DEF CaptureGDI, Capturing, FrameIsCurrent, DirtyRectsCover
<1>5. CASE CaptureTimeout
  BY <1>0, <1>5 DEF CaptureTimeout, FrameIsCurrent, DirtyRectsCover
<1>6. CASE CaptureAccessLost
  <2>1. ResourcesBalanced
    BY DEF WinInv
  <2>. QED
    BY <1>0, <1>6, <2>1, LostAccess DEF CaptureAccessLost, FrameIsCurrent, DirtyRectsCover
<1>7. CASE CaptureFails
  BY <1>0, <1>7 DEF CaptureFails, picture, FrameIsCurrent, DirtyRectsCover
<1>8. CASE CaptureFrame
  <2>1. FrameIsCurrent'
    BY <1>8 DEF CaptureFrame, FrameIsCurrent
  <2>2. \A t \in Tile : pixels[t] # desk[t] => t \in owed \cup moves \cup missed
    BY <1>0, <1>8 DEF CaptureFrame, Capturing, FrameIsCurrent
  <2>3. owed \subseteq dirty'
    BY <1>0, <1>8 DEF CaptureFrame, QueryDirtyRects, Typed, WinTypeOK
  <2>4. ASSUME NEW t \in Tile, desk[t] # pixels[t] PROVE t \in dirty' \cup unreported'
    BY <1>8, <2>2, <2>3, <2>4 DEF CaptureFrame
  <2>. QED
    BY <1>8, <2>1, <2>4 DEF CaptureFrame, DirtyRectsCover
<1>9. CASE CaptureFrameFails
  BY <1>0, <1>9 DEF CaptureFrameFails, Capturing, FrameIsCurrent, DirtyRectsCover
<1>10. CASE CloseCapture
  BY <1>0, <1>10 DEF CloseCapture, picture, FrameIsCurrent, DirtyRectsCover
<1>11. CASE UNCHANGED winVars
  BY <1>0, <1>11 DEF winVars, FrameIsCurrent, DirtyRectsCover
<1>. QED
  BY <1>1, <1>2, <1>3, <1>4, <1>5, <1>6, <1>7, <1>8, <1>9, <1>10, <1>11 DEF WinNext

LEMMA WinStep == WinInv /\ [WinNext]_winVars => WinInv'
  BY StepKeepsTypes, StepKeepsBalance, StepKeepsPicture DEF WinInv

LEMMA WinInductive == WinSpec => []WinInv
  BY WinInitInv, WinStep, PTL DEF WinSpec

\* What the runs check of the capture back end follows from its invariant.
LEMMA WinInvImplies ==
    WinInv => WinTypeOK /\ ResourcesBalanced /\ FrameIsCurrent /\ DirtyRectsCover
  BY DEF WinInv, Typed

-----------------------------------------------------------------------------

\* The state of the capture back end keeps its types, also when a step of its
\* set-up, of a capture or of recreateDuplication fails.
THEOREM WinTypeCorrect == WinSpec => []WinTypeOK
  BY WinInductive, WinInvImplies, PTL

\* initDXGI, recreateDuplication, the fallback to GDI and Close leak no object and
\* release none that is in use, whichever call fails.
THEOREM NothingLeaks == WinSpec => []ResourcesBalanced
  BY WinInductive, WinInvImplies, PTL

\* What Capture has not shown of the screen the duplication still owes, but for
\* frames whose capture failed.
THEOREM PixelsCatchUp == WinSpec => []FrameIsCurrent
  BY WinInductive, WinInvImplies, PTL

\* A region LastDirtyRects leaves out did not change in the pixels, unless it was only
\* moved on the screen or belongs to a frame whose Capture failed.
THEOREM RectsAreEnough == WinSpec => []DirtyRectsCover
  BY WinInductive, WinInvImplies, PTL

-----------------------------------------------------------------------------
(* The desktop portal. *)

Code == {"ok", "refused"}
Signal == [call : 1..4, code : Code]

\* The shape of the queues, and of what the properties do not speak of.
Shape ==
    /\ capture \in BOOLEAN /\ input \in BOOLEAN /\ samePath \in BOOLEAN
    /\ closedFlag \in BOOLEAN /\ sessionHandle \in BOOLEAN
    /\ signals \in Seq(Signal)
    /\ channel \in [Path -> Seq(Code)]

\* The portal has had call k, or refused it: New is past it, or it was accepted.
Made(k) == k < call \/ (k = call /\ at \notin {"calling", "called"})

Signalled(k) == \E i \in 1..Len(signals) : signals[i].call = k

\* A request is open, its answer is under way, or the answer was delivered or
\* dropped: at most one of them, and only for calls that were made.
AnsweredOnce ==
    /\ \A k \in 1..4 :
          /\ k \in requested \/ Signalled(k) \/ k \in granted => Made(k)
          /\ ~Made(k) => channel[Actual(k)] = <<>>
          /\ k \in requested => ~Signalled(k) /\ k \notin granted
          /\ k \in requested \/ Signalled(k) => channel[Actual(k)] = <<>>
    /\ \A i, j \in 1..Len(signals) : signals[i].call = signals[j].call => i = j
    /\ \A p \in Path : Len(channel[p]) <= 1

\* An answer that says so was given when the portal had granted the call.
OkMeansGranted ==
    /\ \A i \in 1..Len(signals) : signals[i].code = "ok" => signals[i].call \in granted
    /\ \A k \in 1..4 : channel[Actual(k)] = <<"ok">> => k \in granted

\* New goes on only when a call was granted, and has the handle after the first.
StepByStep ==
    /\ \A k \in 1..4 : k < call => k \in granted
    /\ at = "ready" => call = Len(Calls) /\ call \in granted
    /\ sessionHandle <=> (call > 1 \/ at = "ready")

\* The session of the portal opens with the first grant, and only Close ends it.
SessionState ==
    /\ desktopSession = "none" <=> 1 \notin granted
    /\ desktopSession = "closed" => closedFlag
    /\ closedFlag => at \in {"ready", "failed"}

\* The call is registered before it is made, and until its answer is in its channel.
Registered ==
    /\ at = "called" => Expected(call) \in resps
    /\ samePath /\ at \in {"accepted", "waiting"} =>
        /\ channel[Actual(call)] = <<>> => Actual(call) \in resps
        /\ call \in requested \/ Signalled(call) \/ channel[Actual(call)] # <<>>

PortalInv ==
    /\ PortalTypeOK /\ Shape /\ AnsweredOnce /\ OkMeansGranted /\ StepByStep
    /\ SessionState /\ Registered /\ NothingLeftOpen

-----------------------------------------------------------------------------

\* Two calls, one more to ask for input and one more to ask for the screen.
LEMMA CallsLength ==
    ASSUME capture \in BOOLEAN, input \in BOOLEAN
    PROVE  Len(Calls) = 2 + (IF input THEN 1 ELSE 0) + (IF capture THEN 1 ELSE 0)
BY DEF Calls

\* Every call has a request path of its own; where the portal ignores the token none is expected.
LEMMA Paths ==
    ASSUME samePath \in BOOLEAN
    PROVE  /\ \A k \in 1..4 : Expected(k) \in Path /\ Actual(k) \in Path
           /\ \A j, k \in 1..4 : (Actual(j) = Actual(k) \/ Expected(j) = Expected(k)) => j = k
           /\ samePath => \A k \in 1..4 : Actual(k) = Expected(k)
           /\ ~samePath => \A j, k \in 1..4 : Actual(j) # Expected(k)
BY DEF Expected, Actual, Path

\* The empty queue is a queue of anything.
LEMMA EmptySeqs == \A S : <<>> \in Seq(S)
OBVIOUS

\* A list of one answer tells which one it is.
LEMMA OneCode == \A a, b : Len(<<a>>) = 1 /\ (<<a>> = <<b>> => a = b) /\ <<a>> # <<>>
OBVIOUS

\* What stays as it is when the options do.
LEMMA SameOptions ==
    ASSUME UNCHANGED portalOpts
    PROVE  /\ Calls' = Calls /\ capture' = capture /\ input' = input /\ samePath' = samePath
           /\ \A k : Actual(k)' = Actual(k)
BY DEF portalOpts, Calls, Actual, Expected

LEMMA PortalInitInv == PortalInit => PortalInv
<1>. SUFFICES ASSUME PortalInit PROVE PortalInv
  OBVIOUS
<1>1. Len(Calls) \in 2..4
  BY CallsLength DEF PortalInit
<1>2. \A k \in 1..4 : Actual(k) \in Path
  BY Paths DEF PortalInit
<1>3. Shape
  <2>1. channel \in [Path -> Seq(Code)] /\ signals \in Seq(Signal)
    BY EmptySeqs DEF PortalInit
  <2>. QED
    BY <2>1 DEF PortalInit, Shape
<1>4. PortalTypeOK
  BY <1>1 DEF PortalInit, PortalTypeOK
<1>5. AnsweredOnce /\ OkMeansGranted
  BY <1>2 DEF PortalInit, AnsweredOnce, OkMeansGranted, Signalled
<1>6. StepByStep /\ SessionState /\ Registered /\ NothingLeftOpen
  BY DEF PortalInit, StepByStep, SessionState, Registered, NothingLeftOpen
<1>. QED
  BY <1>3, <1>4, <1>5, <1>6 DEF PortalInv

-----------------------------------------------------------------------------
(* One lemma per action. *)

LEMMA CallKeeps == ASSUME PortalInv, PortalCall PROVE PortalInv'
<1>0. /\ PortalTypeOK /\ Shape /\ AnsweredOnce /\ OkMeansGranted /\ StepByStep
      /\ SessionState /\ Registered /\ NothingLeftOpen
  BY DEF PortalInv
<1>1. /\ UNCHANGED <<portalOpts, call, channel, closedFlag, sessionHandle, requested, signals, granted, desktopSession>>
      /\ at = "calling" /\ at' = "called" /\ resps' = resps \cup {Expected(call)}
  BY DEF PortalCall
<1>2. call \in 1..4 /\ Len(Calls) \in 2..4
  BY <1>0, CallsLength DEF Shape, PortalTypeOK
<1>. USE <1>0, <1>1, <1>2, SameOptions
<1>a. Expected(call) \in Path /\ Expected(call)' = Expected(call)
  BY Paths DEF Shape, Expected
<1>3. Shape' /\ OkMeansGranted' /\ StepByStep' /\ SessionState' /\ NothingLeftOpen'
  BY DEF Shape, portalOpts, OkMeansGranted, StepByStep, SessionState, NothingLeftOpen
<1>4. PortalTypeOK'
  BY <1>a DEF PortalTypeOK
<1>5. AnsweredOnce'
  BY DEF AnsweredOnce, Made, Signalled
<1>6. Registered'
  BY <1>a DEF Registered
<1>. QED
  BY <1>3, <1>4, <1>5, <1>6 DEF PortalInv

LEMMA PortalAcceptKeeps == ASSUME PortalInv, PortalAccepts PROVE PortalInv'
<1>0. /\ PortalTypeOK /\ Shape /\ AnsweredOnce /\ OkMeansGranted /\ StepByStep
      /\ SessionState /\ Registered /\ NothingLeftOpen
  BY DEF PortalInv
<1>1. /\ UNCHANGED <<portalOpts, call, resps, channel, closedFlag, sessionHandle, signals, granted, desktopSession>>
      /\ at = "called" /\ at' = "accepted" /\ requested' = requested \cup {call}
  BY DEF PortalAccepts
<1>2. call \in 1..4 /\ Len(Calls) \in 2..4
  BY <1>0, CallsLength DEF Shape, PortalTypeOK
<1>. USE <1>0, <1>1, <1>2, SameOptions
<1>a. samePath => Actual(call) = Expected(call)
  BY Paths DEF Shape
<1>3. Shape' /\ OkMeansGranted' /\ StepByStep' /\ SessionState' /\ NothingLeftOpen'
  BY DEF Shape, portalOpts, OkMeansGranted, StepByStep, SessionState, NothingLeftOpen
<1>4. PortalTypeOK'
  BY DEF PortalTypeOK
<1>5. AnsweredOnce'
  BY DEF AnsweredOnce, Made, Signalled
<1>6. Registered'
  BY <1>a DEF Registered
<1>. QED
  BY <1>3, <1>4, <1>5, <1>6 DEF PortalInv

LEMMA ReturnKeeps == ASSUME PortalInv, CallReturns PROVE PortalInv'
<1>0. /\ PortalTypeOK /\ Shape /\ AnsweredOnce /\ OkMeansGranted /\ StepByStep
      /\ SessionState /\ Registered /\ NothingLeftOpen
  BY DEF PortalInv
<1>1. /\ UNCHANGED <<portalOpts, call, channel, closedFlag, sessionHandle, requested, signals, granted, desktopSession>>
      /\ at = "accepted" /\ at' = "waiting"
  BY DEF CallReturns
<1>2. call \in 1..4
  BY <1>0, CallsLength DEF Shape, PortalTypeOK
<1>. USE <1>0, <1>1, <1>2, SameOptions
<1>a. Expected(call) \in Path /\ Actual(call) \in Path
  BY Paths DEF Shape
<1>3. Shape' /\ OkMeansGranted' /\ StepByStep' /\ SessionState' /\ NothingLeftOpen'
  BY DEF Shape, portalOpts, OkMeansGranted, StepByStep, SessionState, NothingLeftOpen
<1>4. PortalTypeOK'
  BY <1>a DEF CallReturns, PortalTypeOK
<1>5. AnsweredOnce'
  BY DEF AnsweredOnce, Made, Signalled
<1>6. Registered'
  BY DEF CallReturns, Registered, Signalled
<1>. QED
  BY <1>3, <1>4, <1>5, <1>6 DEF PortalInv

\* The failure of the call New has made, whatever made it fail.
LEMMA FailureKeeps ==
    ASSUME PortalInv, PortalFails, at \in {"called", "waiting"},
           UNCHANGED <<portalOpts, channel, requested, signals, granted>>
    PROVE  PortalInv'
<1>0. /\ PortalTypeOK /\ Shape /\ AnsweredOnce /\ OkMeansGranted /\ StepByStep
      /\ SessionState /\ Registered /\ NothingLeftOpen
  BY DEF PortalInv
<1>1. call' = call /\ at' = "failed" /\ sessionHandle' = sessionHandle
  BY DEF PortalFails
<1>2. call \in 1..4
  BY <1>0, CallsLength DEF Shape, PortalTypeOK
<1>. USE <1>0, <1>1, <1>2, SameOptions
<1>3. Shape'
  BY DEF PortalFails, Close, Shape, portalOpts
<1>4. PortalTypeOK'
  BY DEF PortalFails, Close, PortalTypeOK
<1>5. AnsweredOnce' /\ OkMeansGranted'
  BY DEF AnsweredOnce, OkMeansGranted, Made, Signalled
<1>6. StepByStep' /\ SessionState' /\ Registered'
  BY DEF PortalFails, Close, StepByStep, SessionState, Registered
<1>7. NothingLeftOpen'
  BY DEF PortalFails, Close, NothingLeftOpen, SessionState, StepByStep
<1>. QED
  BY <1>3, <1>4, <1>5, <1>6, <1>7 DEF PortalInv

LEMMA ReceiveKeeps == ASSUME PortalInv, Receive PROVE PortalInv'
<1>0. /\ PortalTypeOK /\ Shape /\ AnsweredOnce /\ OkMeansGranted /\ StepByStep
      /\ SessionState /\ Registered /\ NothingLeftOpen
  BY DEF PortalInv
<1>1. at = "waiting" /\ UNCHANGED <<portalOpts, channel, requested, signals, granted>>
  BY DEF Receive
<1>2. CASE PortalFails
  BY <1>1, <1>2, FailureKeeps
<1>3. CASE ~PortalFails
  <2>1. /\ channel[Actual(call)] = <<"ok">>
        /\ resps' = resps \ {Expected(call)}
        /\ at' = IF call = Len(Calls) THEN "ready" ELSE "calling"
        /\ call' = IF call = Len(Calls) THEN call ELSE call + 1
        /\ sessionHandle' = TRUE
        /\ UNCHANGED <<closedFlag, desktopSession>>
    BY <1>3 DEF Receive
  <2>2. call \in 1..4 /\ Len(Calls) \in 2..4 /\ call <= Len(Calls)
    BY <1>0, CallsLength DEF Shape, PortalTypeOK
  <2>3. call \in granted
    BY <1>0, <2>1, <2>2 DEF OkMeansGranted
  <2>. USE <1>0, <1>1, <2>1, <2>2, <2>3, SameOptions
  <2>4. Shape'
    BY DEF Shape, portalOpts
  <2>5. PortalTypeOK'
    BY DEF PortalTypeOK
  <2>6. AnsweredOnce'
    BY DEF AnsweredOnce, Made, Signalled
  <2>7. OkMeansGranted'
    BY DEF OkMeansGranted, Made, Signalled
  <2>8. StepByStep'
    BY DEF StepByStep
  <2>9. SessionState' /\ Registered' /\ NothingLeftOpen'
    BY DEF SessionState, Registered, NothingLeftOpen
  <2>. QED
    BY <2>4, <2>5, <2>6, <2>7, <2>8, <2>9 DEF PortalInv
<1>. QED
  BY <1>2, <1>3

LEMMA OwnerKeeps == ASSUME PortalInv, OwnerCloses PROVE PortalInv'
<1>0. /\ PortalTypeOK /\ Shape /\ AnsweredOnce /\ OkMeansGranted /\ StepByStep
      /\ SessionState /\ Registered /\ NothingLeftOpen
  BY DEF PortalInv
<1>. USE <1>0, SameOptions
<1>1. Shape' /\ PortalTypeOK'
  BY DEF OwnerCloses, Close, Shape, PortalTypeOK, portalOpts
<1>2. AnsweredOnce' /\ OkMeansGranted' /\ StepByStep'
  BY DEF OwnerCloses, AnsweredOnce, OkMeansGranted, StepByStep, Made, Signalled
<1>3. SessionState' /\ Registered' /\ NothingLeftOpen'
  BY DEF OwnerCloses, Close, SessionState, Registered, NothingLeftOpen
<1>. QED
  BY <1>1, <1>2, <1>3 DEF PortalInv

LEMMA ListenKeeps == ASSUME PortalInv, Listen PROVE PortalInv'
<1>0. /\ PortalTypeOK /\ Shape /\ AnsweredOnce /\ OkMeansGranted /\ StepByStep
      /\ SessionState /\ Registered /\ NothingLeftOpen
  BY DEF PortalInv
<1>. DEFINE s == Head(signals)
            p == Actual(s.call)
<1>1. /\ signals # <<>> /\ signals' = Tail(signals)
      /\ resps' = resps \ {p}
      /\ channel' = IF p \in resps THEN [channel EXCEPT ![p] = Append(@, s.code)] ELSE channel
      /\ UNCHANGED <<portalOpts, call, at, closedFlag, sessionHandle, requested, granted, desktopSession>>
  BY DEF Listen
<1>2. s \in Signal /\ Len(signals) >= 1 /\ s = signals[1]
  BY <1>0, <1>1 DEF Shape
<1>3. /\ signals' \in Seq(Signal) /\ Len(signals') = Len(signals) - 1
      /\ \A i \in 1..Len(signals') : signals'[i] = signals[i + 1]
  <2>1. signals \in Seq(Signal) /\ signals # <<>> /\ signals' = Tail(signals)
    BY <1>0, <1>1 DEF Shape
  <2>. QED
    BY <2>1
<1>4. /\ s.call \in 1..4 /\ s.code \in Code /\ p \in Path
      /\ \A k \in 1..4 : Actual(k) \in Path /\ (Actual(k) = p => k = s.call)
      /\ call \in 1..4
  <2>1. s.call \in 1..4 /\ s.code \in Code
    BY <1>2 DEF Signal
  <2>2. call \in 1..4
    BY <1>0, CallsLength DEF Shape, PortalTypeOK
  <2>3. \A k, l \in 1..4 : Actual(k) \in Path /\ (Actual(k) = Actual(l) => k = l)
    <3>1. samePath \in BOOLEAN
      BY <1>0 DEF Shape, PortalTypeOK
    <3>. QED
      BY <3>1, Paths
  <2>. DEFINE l == s.call
  <2>4. l \in 1..4 /\ p = Actual(l)
    BY <2>1
  <2>. HIDE DEF l
  <2>5. p \in Path /\ \A k \in 1..4 : Actual(k) \in Path /\ (Actual(k) = p => k = l)
    BY <2>3, <2>4, Zenon
  <2>. QED
    BY <2>1, <2>2, <2>5 DEF l
<1>5. channel[p] = <<>> /\ ~(s.call \in requested)
  BY <1>0, <1>2, <1>4 DEF AnsweredOnce, Signalled
<1>6. /\ channel' \in [Path -> Seq(Code)]
      /\ \A q \in Path : q # p => channel'[q] = channel[q]
      /\ channel'[p] = IF p \in resps THEN <<s.code>> ELSE <<>>
  BY <1>0, <1>1, <1>4, <1>5 DEF Shape
<1>a. Len(channel'[p]) <= 1
  <2>1. Len(<<s.code>>) = 1 /\ Len(<<>>) = 0
    BY OneCode
  <2>2. channel'[p] = <<s.code>> \/ channel'[p] = <<>>
    BY <1>6
  <2>3. Len(channel'[p]) = 1 \/ Len(channel'[p]) = 0
    BY <2>1, <2>2, Zenon
  <2>4. 0 <= 1 /\ 1 <= 1
    OBVIOUS
  <2>. QED
    BY <2>3, <2>4, Zenon
<1>7. \A k \in 1..4 : /\ Signalled(k)' => Signalled(k) /\ k # s.call
                      /\ Signalled(k) /\ k # s.call => Signalled(k)'
  <2>. SUFFICES ASSUME NEW k \in 1..4
       PROVE  /\ Signalled(k)' => Signalled(k) /\ k # s.call
              /\ Signalled(k) /\ k # s.call => Signalled(k)'
    OBVIOUS
  <2>1. ASSUME Signalled(k)' PROVE Signalled(k) /\ k # s.call
    <3>1. PICK i \in 1..Len(signals') : signals'[i].call = k
      BY <2>1 DEF Signalled
    <3>2. i + 1 \in 1..Len(signals) /\ signals[i + 1].call = k /\ 1 \in 1..Len(signals)
      BY <3>1, <1>0, <1>2, <1>3 DEF Shape
    <3>3. k # s.call
      BY <3>2, <1>0, <1>2 DEF AnsweredOnce
    <3>. QED
      BY <3>2, <3>3 DEF Signalled
  <2>2. ASSUME Signalled(k), k # s.call PROVE Signalled(k)'
    <3>1. PICK i \in 1..Len(signals) : signals[i].call = k
      BY <2>2 DEF Signalled
    <3>2. i # 1
      BY <3>1, <2>2, <1>2
    <3>3. i - 1 \in 1..Len(signals') /\ signals'[i - 1] = signals[i]
      BY <3>1, <3>2, <1>0, <1>3 DEF Shape
    <3>. QED
      BY <3>1, <3>3 DEF Signalled
  <2>. QED
    BY <2>1, <2>2
<1>. HIDE DEF s, p
<1>. USE SameOptions, <1>1, <1>4
<1>8. Shape'
  BY <1>0, <1>3, <1>6 DEF Shape, portalOpts
<1>9. PortalTypeOK'
  <2>1. \A q \in Path : Len(channel'[q]) <= 1
    BY <1>0, <1>6, <1>a DEF PortalTypeOK
  <2>. QED
    BY <1>0, <2>1 DEF PortalTypeOK
<1>10. AnsweredOnce'
  <2>1. \A k \in 1..4 : Made(k)' = Made(k)
    BY DEF Made
  <2>2. s.call \in 1..4 /\ Signalled(s.call)
    BY <1>0, <1>2 DEF Signalled, s, Shape
  <2>3. Made(s.call)
    BY <1>0, <2>2 DEF AnsweredOnce
  <2>4. ASSUME NEW k \in 1..4
        PROVE  /\ k \in requested' \/ Signalled(k)' \/ k \in granted' => Made(k)'
               /\ ~Made(k)' => channel'[Actual(k)'] = <<>>
               /\ k \in requested' => ~Signalled(k)' /\ k \notin granted'
               /\ k \in requested' \/ Signalled(k)' => channel'[Actual(k)'] = <<>>
    <3>1. CASE k = s.call
      BY <3>1, <1>0, <1>5, <1>7, <2>1, <2>3 DEF AnsweredOnce
    <3>2. CASE k # s.call
      <4>1. channel'[Actual(k)'] = channel[Actual(k)]
        BY <3>2, <1>6
      <4>. QED
        BY <3>2, <4>1, <1>0, <1>7, <2>1 DEF AnsweredOnce
    <3>. QED
      BY <3>1, <3>2
  <2>5. \A i, j \in 1..Len(signals') : signals'[i].call = signals'[j].call => i = j
    <3>. SUFFICES ASSUME NEW i \in 1..Len(signals'), NEW j \in 1..Len(signals'),
                         signals'[i].call = signals'[j].call
         PROVE  i = j
      OBVIOUS
    <3>1. i + 1 \in 1..Len(signals) /\ j + 1 \in 1..Len(signals)
      BY <1>0, <1>3 DEF Shape
    <3>2. i + 1 = j + 1
      BY <1>0, <1>3, <3>1 DEF AnsweredOnce
    <3>. QED
      BY <3>2
  <2>6. \A q \in Path : Len(channel'[q]) <= 1
    BY <1>9 DEF PortalTypeOK
  <2>. QED
    BY <2>4, <2>5, <2>6 DEF AnsweredOnce
<1>11. OkMeansGranted'
  <2>1. ASSUME NEW i \in 1..Len(signals'), signals'[i].code = "ok"
        PROVE  signals'[i].call \in granted
    <3>1. i + 1 \in 1..Len(signals)
      BY <1>0, <1>3 DEF Shape
    <3>. QED
      BY <1>0, <1>3, <2>1, <3>1 DEF OkMeansGranted
  <2>2. s.code = "ok" => s.call \in granted
    BY <1>0, <1>2 DEF OkMeansGranted, Shape
  <2>3. ASSUME NEW k \in 1..4, channel'[Actual(k)] = <<"ok">> PROVE k \in granted
    <3>1. CASE k = s.call
      <4>1. channel'[p] = <<"ok">>
        BY <2>3, <3>1 DEF p
      <4>2. s.code = "ok"
        BY <4>1, <1>6, OneCode
      <4>. QED
        BY <4>2, <2>2, <3>1
    <3>2. CASE k # s.call
      BY <2>3, <3>2, <1>0, <1>6 DEF OkMeansGranted
    <3>. QED
      BY <3>1, <3>2
  <2>. QED
    BY <2>1, <2>3 DEF OkMeansGranted
<1>12. StepByStep' /\ SessionState' /\ NothingLeftOpen'
  BY <1>0 DEF StepByStep, SessionState, NothingLeftOpen
<1>13. Registered'
  <2>0. at = "called" => Expected(call) \in resps'
    <3>. SUFFICES ASSUME at = "called" PROVE Expected(call) \in resps'
      OBVIOUS
    <3>1. Signalled(s.call)
      BY <1>0, <1>2 DEF Signalled, s, Shape
    <3>2. Made(s.call)
      BY <3>1, <1>0 DEF AnsweredOnce
    <3>3. s.call # call
      BY <3>2, <1>0 DEF Made, PortalTypeOK
    <3>4. Expected(call) # p
      BY <3>3, <1>0, Paths DEF p, Shape
    <3>. QED
      BY <3>4, <1>0 DEF Registered
  <2>. SUFFICES ASSUME samePath, at \in {"accepted", "waiting"}
       PROVE  /\ channel'[Actual(call)] = <<>> => Actual(call) \in resps'
              /\ call \in requested \/ Signalled(call)' \/ channel'[Actual(call)] # <<>>
    BY <2>0 DEF Registered, Expected
  <2>1. CASE call = s.call
    <3>1. p = Actual(call)
      BY <2>1 DEF p
    <3>2. p \in resps
      BY <3>1, <1>0, <1>5 DEF Registered
    <3>3. channel'[p] # <<>>
      BY <3>2, <1>6
    <3>. QED
      BY <3>1, <3>3
  <2>2. CASE call # s.call
    <3>1. Actual(call) # p /\ channel'[Actual(call)] = channel[Actual(call)]
      BY <2>2, <1>6
    <3>. QED
      BY <2>2, <3>1, <1>0, <1>7 DEF Registered
  <2>. QED
    BY <2>1, <2>2
<1>. QED
  BY <1>8, <1>9, <1>10, <1>11, <1>12, <1>13 DEF PortalInv

LEMMA AnswerKeeps == ASSUME PortalInv, NEW k \in 1..4, PortalAnswers(k) PROVE PortalInv'
<1>0. /\ PortalTypeOK /\ Shape /\ AnsweredOnce /\ OkMeansGranted /\ StepByStep
      /\ SessionState /\ Registered /\ NothingLeftOpen
  BY DEF PortalInv
<1>1. PICK code \in Code :
        /\ signals' = Append(signals, [call |-> k, code |-> code])
        /\ granted' = IF code = "ok" THEN granted \cup {k} ELSE granted
        /\ desktopSession' = IF code = "ok" /\ k = 1 THEN "open" ELSE desktopSession
  BY DEF PortalAnswers, Code
<1>2. /\ k \in requested /\ requested' = requested \ {k}
      /\ UNCHANGED <<portalOpts, call, at, resps, channel, closedFlag, sessionHandle>>
  BY DEF PortalAnswers
<1>3. /\ signals' \in Seq(Signal) /\ Len(signals') = Len(signals) + 1 /\ Len(signals) \in Nat
      /\ \A i \in 1..Len(signals) : signals'[i] = signals[i]
      /\ signals'[Len(signals')] = [call |-> k, code |-> code]
      /\ \A i \in 1..Len(signals') : i \in 1..Len(signals) \/ i = Len(signals')
  BY <1>0, <1>1 DEF Shape, Signal
<1>4. Made(k) /\ ~Signalled(k) /\ k \notin granted /\ channel[Actual(k)] = <<>>
  BY <1>0, <1>2 DEF AnsweredOnce
<1>5. \A j \in 1..4 : Signalled(j)' <=> (Signalled(j) \/ j = k)
  <2>. SUFFICES ASSUME NEW j \in 1..4 PROVE Signalled(j)' <=> (Signalled(j) \/ j = k)
    OBVIOUS
  <2>1. ASSUME Signalled(j)' PROVE Signalled(j) \/ j = k
    <3>1. PICK i \in 1..Len(signals') : signals'[i].call = j
      BY <2>1 DEF Signalled
    <3>. QED
      BY <3>1, <1>3 DEF Signalled
  <2>2. ASSUME Signalled(j) PROVE Signalled(j)'
    <3>1. PICK i \in 1..Len(signals) : signals[i].call = j
      BY <2>2 DEF Signalled
    <3>. QED
      BY <3>1, <1>3 DEF Signalled
  <2>3. Signalled(k)'
    <3>1. Len(signals') \in 1..Len(signals')
      BY <1>3
    <3>. QED
      BY <3>1, <1>3 DEF Signalled
  <2>. QED
    BY <2>1, <2>2, <2>3
<1>6. call \in 1..4 /\ call' = call
  BY <1>0, <1>2, CallsLength DEF Shape, PortalTypeOK
<1>. USE SameOptions, <1>2, <1>6
<1>7. Shape'
  BY <1>0, <1>3 DEF Shape, portalOpts
<1>8. PortalTypeOK'
  BY <1>0, <1>1 DEF PortalTypeOK
<1>9. AnsweredOnce'
  <2>1. \A j \in 1..4 : Made(j)' = Made(j)
    BY DEF Made
  <2>2. \A j \in 1..4 : /\ j \in requested' \/ Signalled(j)' \/ j \in granted' => Made(j)'
                        /\ ~Made(j)' => channel'[Actual(j)'] = <<>>
                        /\ j \in requested' => ~Signalled(j)' /\ j \notin granted'
                        /\ j \in requested' \/ Signalled(j)' => channel'[Actual(j)'] = <<>>
    BY <1>0, <1>1, <1>4, <1>5, <2>1 DEF AnsweredOnce
  <2>3. \A i \in 1..Len(signals) : signals[i].call # k
    BY <1>4 DEF Signalled
  <2>4. \A i, j \in 1..Len(signals') : signals'[i].call = signals'[j].call => i = j
    BY <1>0, <1>3, <2>3 DEF AnsweredOnce
  <2>. QED
    BY <2>2, <2>4, <1>0 DEF AnsweredOnce
<1>10. OkMeansGranted'
  BY <1>0, <1>1, <1>3, <1>4 DEF OkMeansGranted
<1>11. StepByStep'
  BY <1>0, <1>1 DEF StepByStep
<1>12. SessionState'
  BY <1>0, <1>1, <1>4 DEF SessionState
<1>13. NothingLeftOpen'
  BY <1>0, <1>1, <1>4 DEF NothingLeftOpen, Made, StepByStep
<1>14. Registered'
  BY <1>0, <1>5 DEF Registered
<1>. QED
  BY <1>7, <1>8, <1>9, <1>10, <1>11, <1>12, <1>13, <1>14 DEF PortalInv

LEMMA PortalStutterKeeps == ASSUME PortalInv, UNCHANGED portalVars PROVE PortalInv'
<1>. Calls' = Calls
  BY DEF portalVars, Calls
<1>1. PortalTypeOK'
  BY DEF PortalInv, portalVars, PortalTypeOK
<1>2. Shape'
  BY DEF PortalInv, portalVars, Shape
<1>3. AnsweredOnce'
  BY DEF PortalInv, portalVars, AnsweredOnce, Made, Signalled, Actual, Expected
<1>4. OkMeansGranted'
  BY DEF PortalInv, portalVars, OkMeansGranted, Actual, Expected
<1>5. StepByStep' /\ SessionState' /\ NothingLeftOpen'
  BY DEF PortalInv, portalVars, StepByStep, SessionState, NothingLeftOpen
<1>6. Registered'
  BY DEF PortalInv, portalVars, Registered, Signalled, Actual, Expected
<1>. QED
  BY <1>1, <1>2, <1>3, <1>4, <1>5, <1>6 DEF PortalInv

LEMMA PortalStep == PortalInv /\ [PortalNext]_portalVars => PortalInv'
<1>. SUFFICES ASSUME PortalInv, [PortalNext]_portalVars PROVE PortalInv'
  OBVIOUS
<1>1. CASE Timeout
  BY <1>1, FailureKeeps DEF Timeout
<1>2. CASE CallRefused
  BY <1>2, FailureKeeps DEF CallRefused
<1>. QED
  BY <1>1, <1>2, CallKeeps, PortalAcceptKeeps, ReturnKeeps, ReceiveKeeps, OwnerKeeps, ListenKeeps, AnswerKeeps,
     PortalStutterKeeps
     DEF PortalNext, NewStep, BusStep

LEMMA PortalInductive == PortalSpec => []PortalInv
  BY PortalInitInv, PortalStep, PTL DEF PortalSpec

\* A session that New returns was granted call by call.
LEMMA InvMeansGranted == PortalInv => ReadyMeansGranted
<1>. SUFFICES ASSUME PortalInv, at = "ready"
     PROVE  granted = 1..Len(Calls) /\ (closedFlag \/ desktopSession = "open")
  BY DEF ReadyMeansGranted
<1>1. Len(Calls) \in 2..4 /\ call = Len(Calls)
  BY CallsLength DEF PortalInv, Shape, StepByStep
<1>2. \A k \in 1..4 : k \in granted <=> k <= call
  BY <1>1 DEF PortalInv, StepByStep, AnsweredOnce, Made
<1>3. granted = 1..Len(Calls)
  <2>1. granted \subseteq 1..4
    BY DEF PortalInv, PortalTypeOK
  <2>2. \A k \in granted : k \in 1..Len(Calls)
    BY <2>1, <1>1, <1>2
  <2>3. \A k \in 1..Len(Calls) : k \in granted
    BY <1>1, <1>2
  <2>. QED
    BY <2>2, <2>3
<1>4. closedFlag \/ desktopSession = "open"
  BY <1>1, <1>3 DEF PortalInv, SessionState, PortalTypeOK
<1>. QED
  BY <1>3, <1>4

\* What the runs check of the set-up follows from its invariant.
LEMMA PortalInvImplies ==
    PortalInv => PortalTypeOK /\ ReadyMeansGranted /\ AnswerReachesCall /\ NothingLeftOpen
  BY InvMeansGranted DEF PortalInv, Registered, AnswerReachesCall, Signalled

-----------------------------------------------------------------------------

\* Every variable of the set-up keeps its type, and a channel of capacity one never
\* takes a second answer, so that the listener does not block (portal.go, listener).
THEOREM PortalTypeCorrect == PortalSpec => []PortalTypeOK
  BY PortalInductive, PortalInvImplies, PTL

\* A session that New returns was granted call by call, and is open until its owner
\* closes it, whichever answers came late or under another path (New, portalCall).
THEOREM ReadyGranted == PortalSpec => []ReadyMeansGranted
  BY PortalInductive, PortalInvImplies, PTL

\* The answer to the call that waits is on its way or in its channel: registering the
\* path before the call is made loses none (portalCall, listener).
THEOREM AnswersArrive == PortalSpec => []AnswerReachesCall
  BY PortalInductive, PortalInvImplies, PTL

\* A set-up that fails after CreateSession was answered leaves no session behind
\* (New, Close).
THEOREM FailureCloses == PortalSpec => []NothingLeftOpen
  BY PortalInductive, PortalInvImplies, PTL

=============================================================================
