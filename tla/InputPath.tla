----------------------------- MODULE InputPath -----------------------------
(***************************************************************************)
(* Input and clipboard from the browser to the desktop: InputHandler        *)
(* (web/src/input.ts) and ClipboardHandler (web/src/clipboard.ts), the      *)
(* proxy, which turns ClipboardSet into ClientCutText                       *)
(* (wsproxy/clipboard.go), serveMessages (rfb/server.go) and the injectors  *)
(* of input/, for one client.                                               *)
(*                                                                          *)
(* Positions are left out; a button mask is the set of buttons whose bit is *)
(* set.  Keys are the modifier of the paste shortcut and v; the user's      *)
(* release of v, which is sent too, finds it released.                      *)
(***************************************************************************)
EXTENDS Naturals, Sequences

CONSTANTS
    Text,           \* clipboard texts
    NoText,
    MaxEvents       \* bound: events of the user

ASSUME InputAssumption == NoText \notin Text /\ MaxEvents \in Nat

VARIABLES
    isMac,          \* the browser runs on macOS: the shortcut is Cmd+V
    injector,       \* the back end of input/; "direct": X11 and macOS
    modHeld,        \* the user holds the modifier of the shortcut
    buttonMask,     \* InputHandler.buttonMask
    reads,          \* navigator.clipboard.readText calls that have not settled
    localClip,      \* the clipboard of the browser's machine
    toProxy, toVnc, \* messages on the WebSocket and on the TCP connection
    lastButtonMask, \* of the injector
    carriedOut,     \* the last PointerEvent was neither ignored nor ended by an error
    astray,         \* buttons whose last injection and lastButtonMask came apart
    osButtons, osKeys, osClip,
    lastCut,        \* the text of the last ClientCutText the server read
    clipFromClient, \* what is on the desktop's clipboard came from it
    pasted,         \* the last v pressed: what was asked for, what was there
    events

inputVars == <<isMac, injector, modHeld, buttonMask, reads, localClip, toProxy, toVnc,
               lastButtonMask, carriedOut, astray, osButtons, osKeys, osClip, lastCut, clipFromClient,
               pasted, events>>
inputBrowserVars == <<modHeld, buttonMask, reads, localClip, toProxy>>
desktopVars == <<lastButtonMask, carriedOut, astray, osButtons, osKeys, osClip, lastCut, clipFromClient, pasted>>

Button == {"left", "right"}
\* The buttons whose bits are looked at before that of a button.
EarlierBits == [left |-> {}, right |-> {"left"}]
Clip == Text \cup {NoText}

\* A v sent by sendPaste carries, for the properties, the text that was read for it.
Key(down, key) == [type |-> "key", down |-> down, key |-> key, text |-> NoText]
PasteKey(down, text) == [type |-> "key", down |-> down, key |-> "v", text |-> text]
Pointer(mask) == [type |-> "pointer", mask |-> mask]
Cut(text) == [type |-> "cut", text |-> text]

InputInit ==
    /\ isMac \in BOOLEAN
    /\ injector \in {"windows", "wayland", "direct"}
    /\ modHeld = FALSE /\ buttonMask = {} /\ reads = 0
    /\ localClip = NoText
    /\ toProxy = <<>> /\ toVnc = <<>>
    /\ lastButtonMask = {} /\ carriedOut = TRUE /\ astray = {}
    /\ osButtons = {} /\ osKeys = {} /\ osClip = NoText
    /\ lastCut = NoText /\ clipFromClient = FALSE
    /\ pasted = [want |-> NoText, cut |-> NoText, got |-> NoText, fromClient |-> FALSE]
    /\ events = 0

UserEvent == events < MaxEvents /\ events' = events + 1
SendFn(msgs) == toProxy' = toProxy \o msgs
Modifier == IF isMac THEN "Meta" ELSE "Control"

-----------------------------------------------------------------------------
(* The browser. *)

\* handleKeyDown and handleKeyUp of the modifier.
HandleModifier(down) ==
    /\ UserEvent /\ modHeld = ~down
    /\ modHeld' = down
    /\ SendFn(<<Key(down, Modifier)>>)
    /\ UNCHANGED <<isMac, injector, buttonMask, reads, localClip, toVnc, desktopVars>>

\* handleKeyDown of v with the modifier: Meta is released on the remote and the
\* clipboard is asked for.
HandlePasteShortcut ==
    /\ UserEvent /\ modHeld
    /\ reads' = reads + 1
    /\ SendFn(IF isMac THEN <<Key(FALSE, "Meta")>> ELSE <<>>)
    /\ UNCHANGED <<isMac, injector, modHeld, buttonMask, localClip, toVnc, desktopVars>>

\* sendPaste: on macOS a whole chord, elsewhere only v, the Control of the user
\* is taken to be held.
SendPaste(text) ==
    IF isMac
    THEN <<Key(TRUE, "Control"), PasteKey(TRUE, text), PasteKey(FALSE, text), Key(FALSE, "Control")>>
    ELSE <<PasteKey(TRUE, text), PasteKey(FALSE, text)>>

\* Faulty variant: the key is sent before the text.
ReadTextSettlesKeyFirst ==
    /\ reads > 0
    /\ reads' = reads - 1
    /\ SendFn(SendPaste(localClip) \o IF localClip # NoText THEN <<Cut(localClip)>> ELSE <<>>)
    /\ UNCHANGED <<isMac, injector, modHeld, buttonMask, localClip, toVnc, desktopVars, events>>

\* The promise of readText settles; it may be denied, then the key goes alone.
ReadTextSettles ==
    /\ reads > 0
    /\ reads' = reads - 1
    /\ \/ SendFn((IF localClip # NoText THEN <<Cut(localClip)>> ELSE <<>>) \o SendPaste(localClip))
       \/ SendFn(SendPaste(NoText))
    /\ UNCHANGED <<isMac, injector, modHeld, buttonMask, localClip, toVnc, desktopVars, events>>

\* handleMouseDown, handleMouseUp, handleTouchStart and handleTouchEnd.
HandleButtons ==
    /\ UserEvent
    /\ buttonMask' \in {buttonMask \cup {b} : b \in Button} \cup {buttonMask \ {b} : b \in Button}
                       \cup {{"left"}, {}}
    /\ SendFn(<<Pointer(buttonMask')>>)
    /\ UNCHANGED <<isMac, injector, modHeld, reads, localClip, toVnc, desktopVars>>

\* handleWheel: the scroll button is pressed and released.
HandleWheel ==
    /\ UserEvent
    /\ SendFn(<<Pointer(buttonMask \cup {"scroll"}), Pointer(buttonMask)>>)
    /\ UNCHANGED <<isMac, injector, modHeld, buttonMask, reads, localClip, toVnc, desktopVars>>

\* handlePaste, the paste event of the canvas.
HandlePasteEvent ==
    /\ UserEvent /\ localClip # NoText
    /\ SendFn(<<Cut(localClip)>>)
    /\ UNCHANGED <<isMac, injector, modHeld, buttonMask, reads, localClip, toVnc, desktopVars>>

\* The user copies a text locally, or handleClipboardUpdate writes one that was
\* copied on the desktop.
LocalCopy ==
    /\ UserEvent
    /\ \E t \in Text :
          /\ localClip' = t
          /\ \/ UNCHANGED <<osClip, clipFromClient>>
             \/ osClip' = t /\ clipFromClient' = FALSE
    /\ UNCHANGED <<isMac, injector, modHeld, buttonMask, reads, toProxy, toVnc,
                   lastButtonMask, carriedOut, astray, osButtons, osKeys, lastCut, pasted>>

-----------------------------------------------------------------------------
(* The proxy and the server. *)

\* relayBrowserToVNC with handleClipboardSet: one message after the other.
Relay ==
    /\ toProxy # <<>>
    /\ toProxy' = Tail(toProxy)
    /\ toVnc' = Append(toVnc, Head(toProxy))
    /\ UNCHANGED <<isMac, injector, modHeld, buttonMask, reads, localClip, desktopVars, events>>

Served(type) ==
    /\ toVnc # <<>> /\ Head(toVnc).type = type
    /\ toVnc' = Tail(toVnc)
    /\ UNCHANGED <<isMac, injector, inputBrowserVars, events>>

InjectKey(m) ==
    /\ osKeys' = IF m.down THEN osKeys \cup {m.key} ELSE osKeys \ {m.key}
    /\ pasted' = IF m.down /\ m.key = "v"
                 THEN [want |-> m.text, cut |-> lastCut, got |-> osClip, fromClient |-> clipFromClient]
                 ELSE pasted

\* KeyEvent of the injectors: the portal may refuse the key (its error is dropped), and
\* of SendInput, XTest and CGEventPost nobody asks whether it was injected.
KeyEvent ==
    /\ Served("key")
    /\ InjectKey(Head(toVnc)) \/ UNCHANGED <<osKeys, pasted>>
    /\ UNCHANGED <<lastButtonMask, carriedOut, astray, osButtons, osClip, lastCut, clipFromClient>>

\* The buttons whose bit differs from the recorded mask, and the buttons of the desktop
\* after some of them were injected.
Changed(mask) == {b \in Button : (b \in mask) # (b \in lastButtonMask)}
Injected(mask, done) == (osButtons \ done) \cup (mask \cap done)

\* What changed since lastButtonMask is injected, button by button, and the mask is
\* recorded; the desktop may have swallowed some.
Inject(mask, swallowed) ==
    /\ osButtons' = Injected(mask, Changed(mask) \ swallowed)
    /\ lastButtonMask' = mask
    /\ carriedOut' = TRUE
    /\ astray' = (astray \ Changed(mask)) \cup swallowed

\* PointerEvent of X11 and macOS; XTest and CGEventPost report nothing.
DirectPointerEvent(mask) == \E swallowed \in SUBSET Changed(mask) : Inject(mask, swallowed)

Ignore ==
    /\ carriedOut' = FALSE
    /\ UNCHANGED <<lastButtonMask, astray, osButtons>>

\* On Windows the result of SendInput is not looked at either, and an unknown screen
\* size ends the event at once, without an error.
WindowsPointerEvent(mask) ==
    \/ \E swallowed \in SUBSET Changed(mask) : Inject(mask, swallowed)
    \/ Ignore

\* Faulty variant: the mask is recorded although nothing was injected.
WaylandPointerEventRecordsFirst(mask) ==
    \/ Inject(mask, {})
    \/ /\ lastButtonMask' = mask
       /\ carriedOut' = FALSE
       /\ UNCHANGED <<astray, osButtons>>

\* On Wayland the call for the motion or for any button may fail, which ends the
\* event before the mask is recorded.
WaylandPointerEvent(mask) ==
    \/ Inject(mask, {})
    \/ Ignore
    \/ /\ \E b \in Changed(mask) :
             LET done == Changed(mask) \cap EarlierBits[b]
             IN  /\ done # {}
                 /\ osButtons' = Injected(mask, done)
                 /\ astray' = astray \cup done
       /\ carriedOut' = FALSE
       /\ UNCHANGED lastButtonMask

PointerEvent ==
    /\ Served("pointer")
    /\ LET mask == Head(toVnc).mask
       IN  CASE injector = "direct" -> DirectPointerEvent(mask)
             [] injector = "windows" -> WindowsPointerEvent(mask)
             [] injector = "wayland" -> WaylandPointerEvent(mask)
    /\ UNCHANGED <<osKeys, osClip, lastCut, clipFromClient, pasted>>

\* ClientCutText: only the Windows injector is a ClipboardSetter.  It may fail
\* before the clipboard was emptied, or after.
SetClipboard ==
    /\ Served("cut")
    /\ lastCut' = Head(toVnc).text
    /\ LET text == Head(toVnc).text
       IN  \/ injector = "windows" /\ osClip' = text /\ clipFromClient' = TRUE
           \/ osClip' = osClip /\ clipFromClient' = FALSE
           \/ injector = "windows" /\ osClip' = NoText /\ clipFromClient' = FALSE
    /\ UNCHANGED <<lastButtonMask, carriedOut, astray, osButtons, osKeys, pasted>>

-----------------------------------------------------------------------------

InputNext ==
    \/ \E down \in BOOLEAN : HandleModifier(down)
    \/ HandlePasteShortcut \/ ReadTextSettles
    \/ HandleButtons \/ HandleWheel \/ HandlePasteEvent \/ LocalCopy
    \/ Relay \/ KeyEvent \/ PointerEvent \/ SetClipboard

InputSpec == InputInit /\ [][InputNext]_inputVars

-----------------------------------------------------------------------------

InputTypeOK ==
    /\ {isMac, modHeld, carriedOut, clipFromClient} \subseteq BOOLEAN
    /\ buttonMask \subseteq Button /\ osButtons \subseteq Button /\ astray \subseteq Button
    /\ lastButtonMask \subseteq Button \cup {"scroll"}
    /\ osKeys \subseteq {"Control", "Meta", "v"}
    /\ {localClip, osClip, lastCut} \subseteq Clip
    /\ reads \in 0..MaxEvents /\ events \in 0..MaxEvents

Pending(type) == \E k \in 1..Len(toProxy \o toVnc) : (toProxy \o toVnc)[k].type = type

\* Whenever no pointer event is under way and the last one was carried out, a button of
\* the desktop is as in the browser, unless the injection of its last change was swallowed
\* by the desktop, or was done by an event that then failed.  So an event that fails before
\* a button loses nothing, the next one makes up for it; and a button that went astray is
\* right again with the next change of it that is injected.
ButtonsFollowMask ==
    carriedOut /\ ~Pending("pointer") =>
        \A b \in Button \ astray : b \in osButtons <=> b \in buttonMask

\* The v of a paste meets the text that was read for it: ClipboardSet and the keys
\* keep their order through proxy and server, so the last text the server was given
\* is that one, and it is what is pasted unless the desktop's clipboard could not be
\* set or a program there changed it.
PasteIsFresh ==
    pasted.want # NoText =>
        pasted.cut = pasted.want /\ (pasted.fromClient => pasted.got = pasted.want)

=============================================================================
