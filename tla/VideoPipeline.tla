---------------------------- MODULE VideoPipeline ----------------------------
(***************************************************************************)
(* The H.264 path of one connection: the request loop, H264Encoder over     *)
(* x264 or Media Foundation (h264/), the H.264 branch of                    *)
(* encodeAndSendFrame (rfb/server.go), and H264Decoder over WebCodecs       *)
(* (web/src/encodings/h264.ts), which decodes asynchronously.               *)
(*                                                                          *)
(* A frame is the number of its capture.  A coded frame is a key frame or   *)
(* refers to the frame coded before it; Media Foundation holds frames back  *)
(* and then hands out several, which travel as one chunk.                   *)
(***************************************************************************)
EXTENDS Naturals, Sequences

CONSTANTS
    Size,           \* desktop sizes
    MaxFrames,      \* bound: frames captured
    MaxHeld,        \* frames the encoder may hold back, 0 for x264
    MaxFaults       \* bound: decoder errors, lost connections and stray updates

ASSUME VideoAssumption == MaxFrames \in Nat /\ MaxHeld \in Nat /\ MaxFaults \in Nat

VARIABLES
    screenSize,     \* what the capturer's Bounds returns
    captured,       \* frames captured
    configSize,     \* config.Width and Height, as last told to the client
    backend,        \* [size, held, last]: frames held back, last frame handed out
    asked,          \* update requests on their way
    answers,        \* updates on their way
    decoder,        \* "none", "open" or "closed" (after an error)
    configured,     \* configuredWidth and Height
    queue,          \* chunks in the VideoDecoder
    submitted,      \* last frame of the last chunk this VideoDecoder was given
    clock, latestSubmitTimeMicros, pendingFrames,
    shown,          \* the frame on the canvas, 0: it is blank
    wiped,          \* the canvas was resized since the last chunk came
    superseded,     \* a socket that this.connection has left is still open
    faults

videoVars == <<screenSize, captured, configSize, backend, asked, answers, decoder, configured,
               queue, submitted, clock, latestSubmitTimeMicros, pendingFrames, shown, wiped,
               superseded, faults>>
serverVideo == <<screenSize, captured, configSize, backend>>
decoderVars == <<decoder, configured, queue, submitted, clock, latestSubmitTimeMicros, pendingFrames>>

NewBackend(size) == [size |-> size, held |-> <<>>, last |-> 0]

VideoInit ==
    /\ screenSize \in Size
    /\ captured = 0
    /\ configSize = screenSize
    /\ backend = NewBackend(screenSize)
    /\ asked = 1
    /\ answers = <<>>
    /\ decoder = "none" /\ configured = 0 /\ queue = <<>> /\ submitted = 0
    /\ clock = 0 /\ latestSubmitTimeMicros = 0 /\ pendingFrames = {}
    /\ shown = 0 /\ wiped = FALSE
    /\ superseded = FALSE
    /\ faults = 0

ScreenIsResized ==
    /\ screenSize' \in Size \ {screenSize}
    /\ UNCHANGED <<captured, configSize, backend, asked, answers, decoderVars, shown, wiped,
                   superseded, faults>>

-----------------------------------------------------------------------------
(* The server. *)

\* Faulty variant: the backend is configured anew and goes on with its stream.
ReinitKeepsStream == [backend EXCEPT !.size = screenSize]

\* The backend after a resolution change: a new one, whose first frame is an IDR.
Reinit == IF backend.size = screenSize THEN backend ELSE NewBackend(screenSize)

\* EncodeMulti gives the frame to the backend.
EncodeMulti == [Reinit EXCEPT !.held = Append(@, captured + 1)]

\* Encode hands out the first n frames it holds.
Encode(b, n) ==
    [b EXCEPT !.held = SubSeq(@, n + 1, Len(@)), !.last = IF n = 0 THEN @ ELSE b.held[n]]

\* What one Encode hands out: n frames, the first a key frame if the backend has
\* handed out none.
Chunk(b, n) ==
    [size |-> b.size, key |-> b.last = 0, ref |-> b.last,
     first |-> b.held[1], last |-> b.held[n]]

\* A request is answered: capture, EncodeMulti, DesktopSize before the picture.  A
\* request that came while the writer was busy with another may have been dropped.
\* The answer has no picture while the encoder holds everything back.
EncodeAndSendVideo ==
    /\ asked > 0 /\ captured < MaxFrames
    /\ asked' \in 0..(asked - 1)
    /\ captured' = captured + 1
    /\ configSize' = screenSize
    /\ LET b == EncodeMulti
           resize == IF configSize # screenSize THEN <<screenSize>> ELSE <<>>
       IN  \E n \in 0..Len(b.held) :
             /\ Len(b.held) - n <= MaxHeld
             /\ answers' = Append(answers,
                   [resize |-> resize, picture |-> IF n = 0 THEN <<>> ELSE <<Chunk(b, n)>>])
             /\ backend' = Encode(b, n)
    /\ UNCHANGED <<screenSize, decoderVars, shown, wiped, superseded, faults>>

-----------------------------------------------------------------------------
(* The browser. *)

\* H264Decoder.reset: the VideoDecoder is closed and drops what it has.
Reset(state, size) ==
    /\ decoder' = state
    /\ configured' = size

\* decode: the decoder is made anew for another size; the chunk is stamped with a
\* clock that may not have advanced.  A VideoDecoder that failed refuses it.
Decode(c) ==
    LET fresh == decoder = "none" \/ configured # c.size
        works == fresh \/ decoder = "open"
    IN  /\ clock' \in {clock, clock + 1}
        /\ latestSubmitTimeMicros' = clock'
        /\ pendingFrames' = (IF fresh THEN {} ELSE pendingFrames) \cup {clock'}
        /\ Reset(IF fresh THEN "open" ELSE decoder, c.size)
        /\ queue' = (IF fresh THEN <<>> ELSE queue)
                    \o IF works THEN <<[frame |-> c.last, time |-> clock']>> ELSE <<>>
        /\ submitted' = IF works THEN c.last ELSE submitted

\* handleDesktopResize blanks the canvas; the picture of the update comes after it.
ResizeCanvas(resizes, pictures) ==
    /\ shown' = IF resizes > 0 THEN 0 ELSE shown
    /\ wiped' = (pictures = 0 /\ (wiped \/ resizes > 0))

\* handleFramebufferUpdate: the next request first, one more after a resize.
HandleVideoUpdate ==
    /\ answers # <<>>
    /\ LET a == Head(answers)
       IN  /\ asked' = asked + 1 + Len(a.resize)
           /\ ResizeCanvas(Len(a.resize), Len(a.picture))
           /\ IF a.picture = <<>> THEN UNCHANGED decoderVars ELSE Decode(Head(a.picture))
    /\ answers' = Tail(answers)
    /\ UNCHANGED <<serverVideo, superseded, faults>>

\* The same for an update from a socket that this.connection has left: every socket
\* has the same message handler.  It is a picture of another stream, which its server
\* was asked for before; the next request goes to the new socket.
HandleStrayUpdate ==
    /\ superseded /\ faults < MaxFaults
    /\ faults' = faults + 1
    /\ \E resizes \in 0..1, c \in [size : Size, last : 1..captured] :
          /\ asked' = asked + 1 + resizes
          /\ ResizeCanvas(resizes, 1)
          /\ Decode(c)
    /\ UNCHANGED <<serverVideo, answers, superseded>>

\* Faulty variant: the newest frame is dropped too while others are pending.
HandleFrameLate ==
    /\ decoder = "open" /\ queue # <<>>
    /\ LET f == Head(queue)
           stale == f.time # latestSubmitTimeMicros \/ pendingFrames # {f.time}
       IN  /\ pendingFrames' = IF stale THEN pendingFrames
                               ELSE {t \in pendingFrames : t > f.time}
           /\ shown' = IF stale THEN shown ELSE f.frame
    /\ queue' = Tail(queue)
    /\ UNCHANGED <<serverVideo, asked, answers, decoder, configured, submitted, clock,
                   latestSubmitTimeMicros, wiped, superseded, faults>>

\* The output callback and handleFrame: a frame that is not the newest is dropped.
HandleFrame ==
    /\ decoder = "open" /\ queue # <<>>
    /\ LET f == Head(queue)
           stale == f.time # latestSubmitTimeMicros
       IN  /\ pendingFrames' = IF stale THEN pendingFrames \ {f.time}
                               ELSE {t \in pendingFrames : t > f.time}
           /\ shown' = IF stale THEN shown ELSE f.frame
    /\ queue' = Tail(queue)
    /\ UNCHANGED <<serverVideo, asked, answers, decoder, configured, submitted, clock,
                   latestSubmitTimeMicros, wiped, superseded, faults>>

\* The error callback only logs; the VideoDecoder is closed by now.
DecoderFails ==
    /\ faults < MaxFaults /\ decoder = "open"
    /\ faults' = faults + 1
    /\ decoder' = "closed" /\ queue' = <<>>
    /\ UNCHANGED <<serverVideo, asked, answers, configured, submitted, clock,
                   latestSubmitTimeMicros, pendingFrames, shown, wiped, superseded>>

\* The connection is made anew: performReconnect resets the decoder and makes a new
\* framebuffer; the server has an encoder per connection.  The old socket was lost, or
\* is open still, if it came of another retry after a failed attempt.
VideoReconnect ==
    /\ faults < MaxFaults
    /\ faults' = faults + 1
    /\ Reset("none", 0)
    /\ queue' = <<>> /\ submitted' = 0
    /\ latestSubmitTimeMicros' = 0 /\ pendingFrames' = {}
    /\ backend' = NewBackend(screenSize)
    /\ asked' = 1 /\ answers' = <<>>
    /\ shown' = 0 /\ wiped' = FALSE
    /\ superseded' \in BOOLEAN
    /\ UNCHANGED <<screenSize, captured, configSize, clock>>

-----------------------------------------------------------------------------

VideoNext ==
    \/ ScreenIsResized \/ EncodeAndSendVideo \/ HandleVideoUpdate \/ HandleStrayUpdate
    \/ HandleFrame \/ DecoderFails \/ VideoReconnect

VideoSpec == VideoInit /\ [][VideoNext]_videoVars

-----------------------------------------------------------------------------

VideoTypeOK ==
    /\ {screenSize, configSize, backend.size} \subseteq Size
    /\ configured \in Size \cup {0}
    /\ {captured, backend.last, submitted, shown} \subseteq 0..MaxFrames
    /\ Len(backend.held) <= MaxHeld
    /\ decoder \in {"none", "open", "closed"}
    /\ pendingFrames \subseteq 0..clock /\ latestSubmitTimeMicros \in 0..clock

\* The last frame of the stream before the k-th answer, as the VideoDecoder of the
\* browser will have seen it, and the size it was coded for.
Before(k) ==
    LET earlier == {j \in 1..(k - 1) : answers[j].picture # <<>>}
    IN  IF earlier = {} THEN <<submitted, configured>>
        ELSE LET j == CHOOSE i \in earlier : \A o \in earlier : o <= i
             IN  <<Head(answers[j].picture).last, Head(answers[j].picture).size>>

\* A delta frame reaches a VideoDecoder that was given the frame it refers to, of
\* the same size, just before it: server and browser start anew at the same frames,
\* through resizes, reconnections, frames held back and several in one chunk.
\* (WebCodecs refuses a stream that starts with a delta frame.  A VideoDecoder that
\* failed is not replaced until the size changes or the connection is made anew; one
\* that a second socket feeds as well gets two streams mixed.)
DeltasFollowTheirReference ==
    decoder # "closed" /\ ~superseded =>
        \A k \in 1..Len(answers) : answers[k].picture # <<>> =>
            LET c == Head(answers[k].picture)
            IN  ~c.key => Before(k) = <<c.ref, c.size>>

\* When the VideoDecoder has nothing left to do, the canvas shows the newest frame
\* it was given: dropping stale frames never drops the last one.  The canvas is blank
\* only if it was resized after that frame was given, and never shows an older one.
IdleDecoderShowsLatest ==
    decoder = "open" /\ queue = <<>> => shown = submitted \/ (wiped /\ shown = 0)

\* pendingFrames has an entry only for a chunk that is being decoded, and does not
\* grow with the frames that are dropped.  (After a decoder error it does.)
PendingIsQueued ==
    decoder = "open" => pendingFrames \subseteq {queue[k].time : k \in 1..Len(queue)}

=============================================================================
