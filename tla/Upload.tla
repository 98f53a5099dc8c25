------------------------------- MODULE Upload -------------------------------
(***************************************************************************)
(* File upload, both ends: FileUploadHandler in the browser                 *)
(* (web/src/file-upload.ts), the extension-message handlers of a proxy      *)
(* session (wsproxy/fileupload.go) and the directory they write to, which   *)
(* all sessions share.  Every upload asks for the same file name.           *)
(*                                                                          *)
(* A browser goes through connections, each with its proxy session and its  *)
(* FileUploadHandler, which numbers its uploads from 1.  A handler sends     *)
(* over the connection the browser has by then, whichever it was made for,  *)
(* and what any connection brings goes to the handler the browser has by    *)
(* then.                                                                    *)
(*                                                                          *)
(* A file is a sequence of blocks (one block is one chunk); a block holds   *)
(* the upload that wrote it, or Hole where nothing was written.  The        *)
(* directory maps names to inodes: name 0 is the name asked for, name n is  *)
(* name(n).ext.  An inode is identified by the upload that created it; a    *)
(* handle keeps writing to its inode after the name was removed.  CRC-32 is *)
(* taken to tell files of different contents apart.                         *)
(***************************************************************************)
EXTENDS Naturals, Sequences, FiniteSets

CONSTANTS
    Browser,            \* the browsers
    MaxConnects,        \* bound: connections a browser makes
    MaxUploads,         \* bound: uploads a browser starts
    Sizes,              \* file sizes, in blocks
    MaxUploadSize,      \* config.MaxUploadSize, in blocks
    MaxConcurrent,      \* maxConcurrentUploads (4 in the code)
    MaxMishaps,         \* bound: cancelled uploads and operations that fail of themselves
    LastName            \* the last name UniqueFilePath tries (9999 in the code)

ASSUME UploadAssumption ==
    /\ MaxConnects \in Nat \ {0} /\ MaxUploads \in Nat /\ Sizes \subseteq Nat
    /\ MaxUploadSize \in Nat /\ MaxConcurrent \in Nat /\ LastName \in Nat
    /\ MaxMishaps \in Nat

VARIABLES
    current,    \* [Browser -> the connection and handler it has now]
    mishaps,    \* how many there have been
    retries,    \* [Browser -> reconnection timers that are set]
    sock,       \* [UpSession -> the WebSocket, "over" once its proxy session ended too]
    sizeOf,     \* [Upload -> size of the File object, once uploadFile was called]
    stage,      \* [Upload -> where the coroutine of uploadFile is]
    promise,    \* [Upload -> what its promise was settled with]
    begun,      \* the uploads whose UploadBegin found an open socket
    uplink,     \* [UpSession -> messages to the proxy]
    downlink,   \* [UpSession -> UploadStatus messages to the browser]
    beginning,  \* [UpSession -> handleUploadBegin between its choice of a name and os.Create]
    uploads,    \* [UpSession -> session.uploads: id -> uploadState]
    dir,        \* the directory: name -> inode
    disk,       \* [Upload -> the blocks of the inode it created]
    left        \* names whose upload ended where the proxy does not, or could not, delete the file

proxyVars == <<beginning, uploads, dir, disk, left>>
linkVars == <<current, retries, sock>>
browserVars == <<sizeOf, stage, promise, begun>>
uploadVars == <<mishaps, linkVars, browserVars, uplink, downlink, proxyVars>>

UpSession == Browser \X (1..MaxConnects)
UploadId == 1..MaxUploads
Upload == UpSession \X UploadId
Hole == <<>>
Names == 0..LastName
Contents == UNION {[1..n -> Upload \cup {Hole}] : n \in 0..MaxUploadSize}

\* A message about upload id of a session: a size or the number of a block, and the
\* upload whose blocks it carries or whose checksum it is.
Msg(type, id, n, u) == [type |-> type, id |-> id, arg |-> n, from |-> u]
Status(id, ok, written) == [id |-> id, ok |-> ok, written |-> written]
UploadState == [name : Names, inode : Upload, size : Sizes, written : 0..MaxUploadSize]

\* Every browser is connected; a timer that an earlier failed attempt set may still fire.
UploadInit ==
    /\ mishaps = 0
    /\ current = [b \in Browser |-> 1]
    /\ retries = [b \in Browser |-> 1]
    /\ sock = [s \in UpSession |-> IF s[2] = 1 THEN "open" ELSE "none"]
    /\ sizeOf = [u \in Upload |-> 0]
    /\ stage = [u \in Upload |-> "idle"]
    /\ promise = [u \in Upload |-> "none"]
    /\ begun = {}
    /\ uplink = [s \in UpSession |-> <<>>]
    /\ downlink = [s \in UpSession |-> <<>>]
    /\ beginning = [s \in UpSession |-> <<>>]
    /\ uploads = [s \in UpSession |-> <<>>]
    /\ dir = <<>>
    /\ disk = [u \in Upload |-> <<>>]
    /\ left = {}

-----------------------------------------------------------------------------
(* The browser. *)

Mishap == mishaps < MaxMishaps /\ mishaps' = mishaps + 1

Open(s) == sock[s] = "open"

\* this.connection and this.fileUploadHandler of the browser of s, as they are now.
Current(s) == <<s[1], current[s[1]]>>

\* VncConnection.send drops what finds no open socket.
Send(s, msgs) == uplink' = [uplink EXCEPT ![s] = IF Open(s) THEN @ \o msgs ELSE @]

\* uploadFile up to its await: the id, the pending entry and UploadBegin.
UploadFile(s, id) ==
    /\ s = Current(s)
    /\ Cardinality({u \in Upload : u[1][1] = s[1] /\ stage[u] # "idle"}) < MaxUploads
    /\ stage[<<s, id>>] = "idle"
    /\ \A earlier \in 1..(id - 1) : stage[<<s, earlier>>] # "idle"
    /\ \E n \in Sizes :
          /\ sizeOf' = [sizeOf EXCEPT ![<<s, id>>] = n]
          /\ Send(s, <<Msg("begin", id, n, <<s, id>>)>>)
    /\ stage' = [stage EXCEPT ![<<s, id>>] = "reading"]
    /\ promise' = [promise EXCEPT ![<<s, id>>] = "pending"]
    /\ begun' = IF Open(s) THEN begun \cup {<<s, id>>} ELSE begun
    /\ UNCHANGED <<mishaps, linkVars, downlink, proxyVars>>

\* file.arrayBuffer resolved: all chunks and UploadEnd are sent in one turn.
SendFile(s, id) ==
    /\ stage[<<s, id>>] = "reading"
    /\ stage' = [stage EXCEPT ![<<s, id>>] = "sent"]
    /\ Send(Current(s), [n \in 1..sizeOf[<<s, id>>] |-> Msg("chunk", id, n, <<s, id>>)]
                           \o <<Msg("end", id, 0, <<s, id>>)>>)
    /\ UNCHANGED <<mishaps, linkVars, sizeOf, promise, begun, downlink, proxyVars>>

\* file.arrayBuffer rejected: nothing catches it, the promise stays as it is.
FileUnreadable(s, id) ==
    /\ stage[<<s, id>>] = "reading"
    /\ stage' = [stage EXCEPT ![<<s, id>>] = "unreadable"]
    /\ Mishap
    /\ UNCHANGED <<linkVars, sizeOf, promise, begun, uplink, downlink, proxyVars>>

\* cancelUpload, of an upload in progress.
CancelUpload(s, id) ==
    /\ promise[<<s, id>>] = "pending"
    /\ promise' = [promise EXCEPT ![<<s, id>>] = "failed"]
    /\ Mishap
    /\ Send(Current(s), <<Msg("cancel", id, 0, <<s, id>>)>>)
    /\ UNCHANGED <<linkVars, sizeOf, stage, begun, downlink, proxyVars>>

\* Faulty variant: the last status is taken for an intermediate one.
HandleUploadStatusWaits(s) ==
    /\ Open(s) /\ downlink[s] # <<>>
    /\ downlink' = [downlink EXCEPT ![s] = Tail(@)]
    /\ LET m == Head(downlink[s])  u == <<Current(s), m.id>>
           final == ~m.ok \/ m.written > sizeOf[u]
       IN  promise' = IF promise[u] = "pending" /\ final
                      THEN [promise EXCEPT ![u] = IF m.ok THEN "success" ELSE "failed"]
                      ELSE promise
    /\ UNCHANGED <<mishaps, linkVars, sizeOf, stage, begun, uplink, proxyVars>>

\* handleUploadStatus.
HandleUploadStatus(s) ==
    /\ Open(s) /\ downlink[s] # <<>>
    /\ downlink' = [downlink EXCEPT ![s] = Tail(@)]
    /\ LET m == Head(downlink[s])  u == <<Current(s), m.id>>
           final == ~m.ok \/ m.written >= sizeOf[u]
       IN  promise' = IF promise[u] = "pending" /\ final
                      THEN [promise EXCEPT ![u] = IF m.ok THEN "success" ELSE "failed"]
                      ELSE promise
    /\ UNCHANGED <<mishaps, linkVars, sizeOf, stage, begun, uplink, proxyVars>>

\* cleanup of a handler settles every promise it still has.
CleanedUp(h) ==
    [u \in Upload |-> IF u[1] = h /\ promise[u] = "pending" THEN "failed" ELSE promise[u]]

Least(a, b) == IF a < b THEN a ELSE b

\* A close event, of any connection the browser has made: cleanup of the handler it
\* has now, and a timer for the next attempt; if connect was still waiting for
\* SessionInit its rejection sets another one.  (Timers beyond the bound on
\* connections are not counted.)
Closes(s) ==
    /\ promise' = CleanedUp(Current(s))
    /\ \E n \in {1, 2} : retries' = [retries EXCEPT ![s[1]] = Least(@ + n, MaxConnects - current[s[1]])]

SocketOpens(s) ==
    /\ sock[s] = "none" /\ s[2] <= current[s[1]]
    /\ sock' = [sock EXCEPT ![s] = "open"]
    /\ UNCHANGED <<mishaps, current, retries, browserVars, uplink, downlink, proxyVars>>

\* The attempt fails, or the socket closes; the proxy may still have messages to read.
ConnectionLost(s) ==
    /\ sock[s] \in {"none", "open"} /\ s[2] <= current[s[1]]
    /\ sock' = [sock EXCEPT ![s] = IF Open(s) THEN "closed" ELSE "over"]
    /\ downlink' = [downlink EXCEPT ![s] = <<>>]
    /\ Closes(s)
    /\ UNCHANGED <<mishaps, current, sizeOf, stage, begun, uplink, proxyVars>>

\* performReconnect up to connect: another connection and another handler.
PerformReconnect(b) ==
    /\ retries[b] > 0 /\ current[b] < MaxConnects
    /\ retries' = [retries EXCEPT ![b] = @ - 1]
    /\ current' = [current EXCEPT ![b] = @ + 1]
    /\ UNCHANGED <<mishaps, sock, browserVars, uplink, downlink, proxyVars>>

-----------------------------------------------------------------------------
(* The proxy: one message after the other in the relay of the session. *)

Answer(s, status) == downlink' = [downlink EXCEPT ![s] = IF Open(s) THEN Append(@, status) ELSE @]

Arrived(s, type) == uplink[s] # <<>> /\ beginning[s] = <<>> /\ Head(uplink[s]).type = type
Consume(s) == uplink' = [uplink EXCEPT ![s] = Tail(@)]
Fail(s, id, written) == Answer(s, Status(id, FALSE, written))
Put(f, k, v) == [x \in DOMAIN f \cup {k} |-> IF x = k THEN v ELSE f[x]]
Drop(f, k) == [x \in DOMAIN f \ {k} |-> f[x]]

\* UniqueFilePath: the first free name, or the last one tried.
UniqueFilePath ==
    LET free == Names \ DOMAIN dir
    IN  IF free = {} THEN LastName ELSE CHOOSE n \in free : \A k \in free : n <= k

\* Faulty variant: the open uploads are not counted.
UploadBeginChecksUnlimited(s) ==
    /\ Arrived(s, "begin")
    /\ Consume(s)
    /\ LET m == Head(uplink[s])
       IN  /\ m.arg <= MaxUploadSize
           /\ beginning' = [beginning EXCEPT ![s] = <<[id |-> m.id, size |-> m.arg, name |-> UniqueFilePath]>>]
    /\ UNCHANGED <<mishaps, linkVars, browserVars, downlink, uploads, dir, disk, left>>

\* handleUploadBegin up to the choice of a name.  The size and the number of
\* uploads are checked; the directory, the name and mkdir may refuse too.
UploadBeginChecks(s) ==
    /\ Arrived(s, "begin")
    /\ Consume(s)
    /\ LET m == Head(uplink[s])
           within == Cardinality(DOMAIN uploads[s]) < MaxConcurrent /\ m.arg <= MaxUploadSize
       IN  \/ /\ IF within THEN Mishap ELSE UNCHANGED mishaps
              /\ Fail(s, m.id, 0)
              /\ UNCHANGED beginning
           \/ /\ within
              /\ UNCHANGED mishaps
              /\ beginning' = [beginning EXCEPT ![s] = <<[id |-> m.id, size |-> m.arg, name |-> UniqueFilePath]>>]
              /\ UNCHANGED downlink
    /\ UNCHANGED <<linkVars, browserVars, uploads, dir, disk, left>>

\* os.Create truncates the file another session has put there meanwhile.
UploadBeginCreates(s) ==
    /\ beginning[s] # <<>>
    /\ LET b == Head(beginning[s])
           ino == IF b.name \in DOMAIN dir THEN dir[b.name] ELSE <<s, b.id>>
       IN  /\ dir' = Put(dir, b.name, ino)
           /\ disk' = [disk EXCEPT ![ino] = <<>>]
           /\ left' = left \ {b.name}
           /\ uploads' = [uploads EXCEPT ![s] = Put(@, b.id,
                 [name |-> b.name, inode |-> ino, size |-> b.size, written |-> 0])]
           /\ Answer(s, Status(b.id, TRUE, 0))
    /\ beginning' = [beginning EXCEPT ![s] = <<>>]
    /\ UNCHANGED <<mishaps, linkVars, browserVars, uplink>>

\* os.Create fails.
UploadBeginFails(s) ==
    /\ beginning[s] # <<>>
    /\ Mishap
    /\ Fail(s, Head(beginning[s]).id, 0)
    /\ beginning' = [beginning EXCEPT ![s] = <<>>]
    /\ UNCHANGED <<linkVars, browserVars, uplink, uploads, dir, disk, left>>

\* File.WriteAt: one block, a gap before it reads as zeros.
WriteAt(f, n, u) ==
    [k \in 1..(IF n > Len(f) THEN n ELSE Len(f)) |->
        IF k = n THEN u ELSE IF k <= Len(f) THEN f[k] ELSE Hole]

\* handleUploadChunk; a write that fails leaves the count as it was.
UploadChunk(s) ==
    /\ Arrived(s, "chunk")
    /\ Consume(s)
    /\ LET m == Head(uplink[s])
           known == m.id \in DOMAIN uploads[s]
           up == uploads[s][m.id]
           fits == known /\ m.arg <= up.size /\ up.written + 1 <= MaxUploadSize
       IN  \/ /\ IF fits THEN Mishap ELSE UNCHANGED mishaps
              /\ Fail(s, m.id, IF known THEN up.written ELSE 0)
              /\ UNCHANGED <<uploads, disk>>
           \/ /\ fits
              /\ UNCHANGED mishaps
              /\ disk' = [disk EXCEPT ![up.inode] = WriteAt(@, m.arg, m.from)]
              /\ uploads' = [uploads EXCEPT ![s][m.id].written = @ + 1]
              /\ Answer(s, Status(m.id, TRUE, up.written + 1))
    /\ UNCHANGED <<linkVars, browserVars, beginning, dir, left>>

\* What the browser computed the checksum of.
Whole(u) == [n \in 1..sizeOf[u] |-> u]

\* os.Remove, whose error nobody looks at: the file may stay.
Remove(name) ==
    \/ dir' = Drop(dir, name) /\ left' = left \ {name} /\ UNCHANGED mishaps
    \/ name \in DOMAIN dir /\ left' = left \cup {name} /\ Mishap /\ UNCHANGED dir

\* handleUploadEnd of an upload the session knows: the file is read again by its name.
\* One that does not have the checksum is deleted, one that cannot be read stays.
Verify(s, m) ==
    LET up == uploads[s][m.id]
        there == up.name \in DOMAIN dir
    IN  \/ /\ there /\ disk[dir[up.name]] = Whole(m.from)
           /\ Answer(s, Status(m.id, TRUE, up.written))
           /\ UNCHANGED <<dir, left, mishaps>>
        \/ /\ there /\ disk[dir[up.name]] # Whole(m.from)
           /\ Remove(up.name)
           /\ Fail(s, m.id, up.written)
        \/ /\ ~there
           /\ Fail(s, m.id, up.written)
           /\ UNCHANGED <<dir, left, mishaps>>
        \/ /\ there /\ Mishap
           /\ left' = left \cup {up.name}
           /\ Fail(s, m.id, up.written)
           /\ UNCHANGED dir

UploadEnd(s) ==
    /\ Arrived(s, "end")
    /\ Consume(s)
    /\ LET m == Head(uplink[s])
       IN  \/ /\ m.id \notin DOMAIN uploads[s]
              /\ Fail(s, m.id, 0)
              /\ UNCHANGED <<uploads, dir, left, mishaps>>
           \/ /\ m.id \in DOMAIN uploads[s]
              /\ uploads' = [uploads EXCEPT ![s] = Drop(@, m.id)]
              /\ Verify(s, m)
    /\ UNCHANGED <<linkVars, browserVars, beginning, disk>>

\* Faulty variant: the cancelled file stays in the directory.
UploadCancelKeepsFile(s) ==
    /\ Arrived(s, "cancel")
    /\ Consume(s)
    /\ LET m == Head(uplink[s])
       IN  IF m.id \in DOMAIN uploads[s]
           THEN /\ uploads' = [uploads EXCEPT ![s] = Drop(@, m.id)]
                /\ Fail(s, m.id, uploads[s][m.id].written)
           ELSE UNCHANGED <<uploads, downlink>>
    /\ UNCHANGED <<mishaps, linkVars, browserVars, beginning, dir, disk, left>>

\* handleUploadCancel: the handle is closed and the file deleted.
UploadCancel(s) ==
    /\ Arrived(s, "cancel")
    /\ Consume(s)
    /\ LET m == Head(uplink[s])
       IN  \/ /\ m.id \notin DOMAIN uploads[s]
              /\ UNCHANGED <<uploads, dir, left, downlink, mishaps>>
           \/ /\ m.id \in DOMAIN uploads[s]
              /\ uploads' = [uploads EXCEPT ![s] = Drop(@, m.id)]
              /\ Remove(uploads[s][m.id].name)
              /\ Fail(s, m.id, uploads[s][m.id].written)
    /\ UNCHANGED <<linkVars, browserVars, beginning, disk>>

\* CleanupUploads when the session ends: handles are closed, partial files stay.
CleanupUploads(s) ==
    /\ sock[s] = "closed" /\ beginning[s] = <<>>
    /\ sock' = [sock EXCEPT ![s] = "over"]
    /\ uplink' = [uplink EXCEPT ![s] = <<>>]
    /\ uploads' = [uploads EXCEPT ![s] = <<>>]
    /\ left' = left \cup {uploads[s][id].name : id \in DOMAIN uploads[s]}
    /\ UNCHANGED <<mishaps, current, retries, browserVars, downlink, beginning, dir, disk>>

-----------------------------------------------------------------------------

ProxyStep(s) ==
    \/ UploadBeginChecks(s) \/ UploadBeginCreates(s) \/ UploadBeginFails(s)
    \/ UploadChunk(s) \/ UploadEnd(s) \/ UploadCancel(s) \/ CleanupUploads(s)

UploadNext ==
    \/ \E s \in UpSession :
          \/ ProxyStep(s)
          \/ HandleUploadStatus(s)
          \/ SocketOpens(s) \/ ConnectionLost(s)
          \/ \E id \in UploadId :
                \/ UploadFile(s, id) \/ CancelUpload(s, id)
                \/ SendFile(s, id) \/ FileUnreadable(s, id)
    \/ \E b \in Browser : PerformReconnect(b)

\* The relay comes to its messages (nothing it sends to the VNC server holds it up for
\* ever), the browser to its events, and reading a local file ends, one way or the
\* other.  Nobody has to connect, lose or cancel anything.
UploadProgress(s) ==
    \/ ProxyStep(s) \/ HandleUploadStatus(s)
    \/ \E id \in UploadId : SendFile(s, id) \/ FileUnreadable(s, id)

UploadSpec ==
    /\ UploadInit /\ [][UploadNext]_uploadVars
    /\ \A s \in UpSession : WF_uploadVars(UploadProgress(s))

-----------------------------------------------------------------------------

UploadTypeOK ==
    /\ mishaps \in 0..MaxMishaps
    /\ current \in [Browser -> 1..MaxConnects] /\ retries \in [Browser -> Nat]
    /\ sock \in [UpSession -> {"none", "open", "closed", "over"}]
    /\ sizeOf \in [Upload -> Sizes \cup {0}]
    /\ stage \in [Upload -> {"idle", "reading", "sent", "unreadable"}]
    /\ promise \in [Upload -> {"none", "pending", "success", "failed"}]
    /\ begun \subseteq Upload
    /\ \A s \in UpSession :
          /\ DOMAIN uploads[s] \subseteq UploadId
          /\ Cardinality(DOMAIN uploads[s]) <= MaxConcurrent
          /\ \A id \in DOMAIN uploads[s] : uploads[s][id] \in UploadState
    /\ DOMAIN dir \subseteq Names /\ left \subseteq Names
    /\ \A n \in DOMAIN dir : dir[n] \in Upload
    /\ \A u \in Upload : disk[u] \in Contents

\* When uploadFile tells its caller that the file was uploaded (a promise that
\* resolves with success, at the latest acknowledgement of the last chunk, before
\* UploadEnd was verified), the directory holds a file with exactly its contents.
SuccessMeansStored ==
    \A u \in Upload : promise[u] = "success" =>
        \E n \in DOMAIN dir : disk[dir[n]] = Whole(u)

\* Every file in the directory is accounted for, however sessions race for its name and
\* late messages of an earlier connection mix with those of the next: some upload is still
\* writing under that name, or it has exactly the contents of a file somebody sent, or an
\* upload of that name was cut off by the end of its session, could not be read back or
\* could not be deleted.  A cancelled upload, or one of the wrong checksum, leaves none.
NoDebris ==
    \A n \in DOMAIN dir :
        \/ \E s \in UpSession : \E id \in DOMAIN uploads[s] : uploads[s][id].name = n
        \/ \E u \in Upload : stage[u] = "sent" /\ disk[dir[n]] = Whole(u)
        \/ n \in left

\* An upload that was announced over an open connection is settled in the end, whatever the
\* proxy refuses and wherever the connection is lost, if its file can be read and until the
\* browser takes another handler.  (No one settles an upload that was started without a
\* connection, whose file cannot be read, or whose handler was replaced while it was
\* pending: its promise may stay pending for ever.)  Only so many uploads are begun, so
\* from some moment on no such promise is pending.
UploadsSettle ==
    <>[](\A u \in begun :
            \/ promise[u] # "pending"
            \/ stage[u] = "unreadable"
            \/ u[1] # Current(u[1]))

=============================================================================
