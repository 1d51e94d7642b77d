--------------------------- MODULE HTTPTransport ---------------------------
(***************************************************************************)
(* The client's HTTP transport (transport/axis3): one Call object makes    *)
(* its calls one after the other over a connection that is kept open       *)
(* between them.  A call buffers its envelope (sendBytes), opens the       *)
(* connection if there is none, flushes the request and lets the parser    *)
(* pull the answer with getBytes, whose states follow the three ways a     *)
(* body may be framed.  The answer arrives in pieces of any size.          *)
(*                                                                         *)
(* A byte string is a sequence of symbols: the status line and fields of a *)
(* header are one symbol, so is a chunk's size line without its CRLF; CR,  *)
(* LF and the bytes of a body are symbols of their own, because the code   *)
(* counts them.  The peer and the network are part of the environment.     *)
(***************************************************************************)
EXTENDS Integers, Sequences, FiniteSets

CONSTANTS
  Answers,        \* the answers a peer may give, see Answer
  Urls,           \* endpoints
  ReadSizes,      \* the sizes of the buffers the parser passes to getBytes
  MaxRedirects,   \* m_iMaximumAutoRedirects; 0 is the same as redirects off
  Timeouts,       \* whether a read timeout is set (m_lTimeoutSeconds > 0)
  MaxCalls        \* bound on the calls made in one behaviour

\* An answer: its status, how its body is framed, the sizes of its chunks
\* (one, when it is not chunked), and what else the header says.
Answer ==
  [status : {"continue", "ok", "error", "moved"}, \* 100; 2xx, 5xx; other; 30x
   frame  : {"length", "chunked", "none"}, \* Content-Length; chunked; neither
   chunks : Seq(Nat \ {0}),
   close  : BOOLEAN,                       \* Connection: close
   ext    : BOOLEAN]                       \* chunk sizes carry an extension

ASSUME HTTPAssumption ==
  /\ Answers \subseteq Answer
  /\ \A a \in Answers : a.frame # "chunked" => Len(a.chunks) <= 1
  /\ ReadSizes \subseteq Nat \ {0}
  /\ MaxRedirects \in Nat
  /\ Timeouts \in BOOLEAN
  /\ MaxCalls \in Nat

VARIABLES
  \* the input state machine (resetInputStateMachine)
  state,          \* m_GetBytesState
  received,       \* m_strReceived
  bytesLeft,      \* m_iBytesLeft
  contentLength,  \* m_iContentLength
  chunkLeft,      \* m_iChunkedDataLeftToConsume
  nextSize,       \* m_iNextChunkedDataSize
  \* the output state machine and the connection
  toSend,         \* m_strBytesToSend, as the calls whose envelopes, whole or broken
                  \* off, it holds one behind the other
  saved,          \* m_strBytesToSendRedirect
  attempts,       \* m_iNbrOfRedirectAttempts
  reopen,         \* m_bReopenConnection
  url,            \* the channel's URL
  sock,           \* the channel's socket is valid
  quiet,          \* bNoExceptionOnForceClose
  \* the caller: ClientAxisEngine and the parser
  pc,             \* what the client is doing
  call,           \* the number of the call
  oneWay,         \* the call expects no response
  size,           \* *piSize of the getBytes in progress; 0 in isThereResponseData
  got,            \* the bytes this call's parser has received
  status,         \* what the last getBytes of this call returned
  \* the peer of the connection
  at,             \* the endpoint it was opened to
  wire,           \* bytes on their way to the client
  inbox,          \* requests it has not answered
  end,            \* whether it has closed or reset the connection
  \* history
  sends,          \* requests sent for this call
  unsent,         \* calls that ended before their request could be sent
  torn,           \* those of them whose envelope was broken off
  past            \* what happened on the connection or the one that led to it by a
                  \* redirect, see Events

inputVars == <<state, received, bytesLeft, contentLength, chunkLeft, nextSize>>
bufferVars == <<toSend, saved, attempts>>
peerVars == <<wire, inbox, end>>
sendVars == <<sends, unsent, torn>>
callVars == <<call, oneWay>>
vars == <<inputVars, bufferVars, reopen, url, sock, quiet, pc, callVars, size, got, status, at,
          peerVars, sendVars, past>>

States == {"waiting", "length", "chunked", "none"}

\* Where the client can be: "idle" between calls; opening a connection and
\* flushing, for the call or for a redirect; "probe" and "ready" before
\* isThereResponseData and getBytes; in the loops of readHTTPHeader
\* ("header") and of getBytes' three states; "done" when the call is over.
Opening == {"open", "reopen"}
Flushing == {"flush", "reflush"}
InGetBytes == {"header", "body", "length", "none", "size", "fill", "peek", "trailer", "chunk"}
Places == {"idle", "probe", "ready", "done"} \cup Opening \cup Flushing \cup InGetBytes

\* What can leave a connection out of step with the calls: a read that timed
\* out, a status that is no SOAP answer, bytes counted twice against the
\* content length, a call that ended with a part of its answer unread.  "close"
\* is the peer's announcement that it will close.
Events == {"timeout", "status", "recount", "unread", "close"}

(***************************************************************************)
(* Bytes                                                                   *)
(***************************************************************************)
Symbol(kind, id, of) == [kind |-> kind, id |-> id, of |-> of]
CRLF == <<Symbol("cr", 0, 0), Symbol("lf", 0, 0)>>

Drop(s, n) == SubSeq(s, n + 1, Len(s))
Erase(s, p, n) == SubSeq(s, 1, p) \o Drop(s, p + n)

\* Where find() can succeed from offset p on: the first symbol of the match.
Crlfs(s, p) == {i \in (p + 1) .. (Len(s) - 1) : s[i].kind = "cr" /\ s[i + 1].kind = "lf"}
Blanks(s, p) == {i \in Crlfs(s, p) : i + 2 \in Crlfs(s, p)}
Heads(s) == {i \in DOMAIN s : s[i].kind = "http"}
First(S) == CHOOSE i \in S : \A j \in S : i <= j

\* Content of the body: byte k of n, for the call id.
Data(id, n, from, k) == [i \in 1 .. k |-> Symbol("data", id, <<from + i, n>>)]

\* How much of the body the first i chunks hold.
Sums(a) ==
  LET sum[i \in 0 .. Len(a.chunks)] == IF i = 0 THEN 0 ELSE sum[i - 1] + a.chunks[i]
  IN sum
BodySize(a) == Sums(a)[Len(a.chunks)]

\* A size line, and the first i chunks of an answer to the call id.
Line(id, k, ext) == <<Symbol("size", id, <<k, ext>>)>> \o CRLF
Chunks(id, a) ==
  LET chunk[i \in 0 .. Len(a.chunks)] ==
        IF i = 0 THEN <<>>
        ELSE chunk[i - 1] \o Line(id, a.chunks[i], a.ext)
               \o Data(id, BodySize(a), Sums(a)[i - 1], a.chunks[i]) \o CRLF
  IN chunk

\* The bytes of an answer to the call id.
Wire(id, a) ==
  <<Symbol("http", id, a)>> \o CRLF \o CRLF
    \o IF a.frame = "chunked"
       THEN Chunks(id, a)[Len(a.chunks)] \o Line(id, 0, a.ext) \o CRLF
       ELSE Data(id, BodySize(a), 0, BodySize(a))

\* HTTP 100: a header without body.
Continue == [status |-> "continue", frame |-> "none", chunks |-> <<>>, close |-> FALSE, ext |-> FALSE]

-----------------------------------------------------------------------------

Init ==
  /\ state = "waiting" /\ received = <<>> /\ bytesLeft = 0
  /\ contentLength = 0 /\ chunkLeft = 0 /\ nextSize = 0
  /\ toSend = <<>> /\ saved = <<>> /\ attempts = 0
  /\ reopen = TRUE /\ sock = FALSE /\ quiet = FALSE
  /\ url \in Urls /\ at = url
  /\ pc = "idle" /\ call = 0 /\ oneWay = FALSE /\ size = 0 /\ got = <<>> /\ status = "progress"
  /\ wire = <<>> /\ inbox = <<>> /\ end = "open"
  /\ sends = 0 /\ unsent = {} /\ torn = {} /\ past = {}

ResetInput ==
  /\ state' = "waiting" /\ received' = <<>> /\ bytesLeft' = 0
  /\ contentLength' = 0 /\ chunkLeft' = 0 /\ nextSize' = 0

\* The socket is closed: whatever was under way on it is lost.
CloseChannel ==
  /\ sock' = FALSE
  /\ wire' = <<>> /\ inbox' = <<>> /\ end' = "open"

\* An exception leaves the transport; the stub's catch block ends the call.
Throw == pc' = "done" /\ status' = "failed"

(***************************************************************************)
(* Between calls: the application may set another endpoint.                *)
(***************************************************************************)
\* Mutant: the next call keeps the connection to the old endpoint.
SetEndpointUri_NoReopen(u) ==
  /\ pc = "idle" /\ call < MaxCalls
  /\ url # u
  /\ url' = u /\ UNCHANGED reopen
  /\ UNCHANGED <<inputVars, bufferVars, sock, quiet, pc, callVars, size, got, status, at, peerVars,
                 sendVars, past>>

SetEndpointUri(u) ==
  /\ pc = "idle" /\ call < MaxCalls
  /\ url # u
  /\ url' = u /\ reopen' = TRUE
  /\ UNCHANGED <<inputVars, bufferVars, sock, quiet, pc, callVars, size, got, status, at, peerVars,
                 sendVars, past>>

\* setOutputStream begins to write the envelope of another call (sendBytes)
\* behind what the buffer still holds.
BeginCall(way) ==
  /\ pc = "idle" /\ call < MaxCalls
  /\ call' = call + 1 /\ oneWay' = way
  /\ toSend' = Append(toSend, call + 1)
  /\ IF saved # <<>> THEN saved' = <<>> /\ attempts' = 0 ELSE UNCHANGED <<saved, attempts>>
  /\ got' = <<>> /\ sends' = 0
  /\ UNCHANGED <<inputVars, reopen, url, sock, quiet, size, at, peerVars, past>>

\* The envelope has been written whole.
SendBytes(way) ==
  /\ BeginCall(way)
  /\ status' = "progress" /\ pc' = "open"
  /\ UNCHANGED <<unsent, torn>>

\* Mutant: what serialize returns is ignored.
SerializeFails_Ignored(way) ==
  /\ BeginCall(way)
  /\ status' = "progress" /\ pc' = "open"
  /\ unsent' = unsent \cup {call'} /\ torn' = torn \cup {call'}

\* A serializer throws after some of the envelope has been written; nobody
\* takes it out of the buffer.
SerializeFails(way) ==
  /\ BeginCall(way)
  /\ Throw
  /\ unsent' = unsent \cup {call'} /\ torn' = torn \cup {call'}

\* A connection that is closed or must be reopened is closed by force, with
\* the input state, and opened to the channel's URL; connecting may fail.
OpenConnection(here, next) ==
  /\ pc = here
  /\ IF ~sock \/ reopen
     THEN /\ ResetInput
          /\ reopen' = FALSE
          /\ wire' = <<>> /\ inbox' = <<>> /\ end' = "open"
          /\ past' = IF here = "open" THEN {} ELSE past \ {"close"}
          /\ \/ sock' = TRUE /\ at' = url /\ pc' = next /\ UNCHANGED <<status, unsent>>
             \/ sock' = FALSE /\ Throw /\ unsent' = unsent \cup {call} /\ UNCHANGED at
     ELSE pc' = next /\ UNCHANGED <<inputVars, reopen, sock, status, at, peerVars, unsent, past>>
  /\ UNCHANGED <<bufferVars, url, quiet, callVars, size, got, sends, torn>>

\* What flushOutput sends: the buffer, or the saved copy when it is empty.
Payload == IF toSend = <<>> /\ MaxRedirects > 0 THEN saved ELSE toSend

\* The copy is kept for a redirect, the buffer emptied.
ResetOutput ==
  /\ saved' = IF MaxRedirects > 0 /\ toSend # <<>> THEN toSend ELSE saved
  /\ toSend' = <<>>

\* The request is written; a peer that has closed resets the connection, or
\* the write itself fails and the channel closes.  m_bHasReadBeenDone is reset
\* here and read by isThereResponseData only, which a one-way call runs next.
FlushOutput(here, next) ==
  /\ pc = here
  /\ ResetOutput
  /\ \/ /\ sends' = sends + 1
        /\ IF end = "open" THEN inbox' = Append(inbox, Payload) /\ UNCHANGED <<wire, end>>
                           ELSE wire' = <<>> /\ inbox' = <<>> /\ end' = "reset"
        /\ pc' = next
        /\ UNCHANGED <<sock, status, past>>
     \/ /\ end # "open"
        /\ CloseChannel /\ Throw
        /\ UNCHANGED <<sends, past>>
  /\ UNCHANGED <<inputVars, attempts, reopen, url, callVars, size, got, at, unsent, torn>>

\* process(): openConnection and markEndOfStream; only a one-way call asks
\* first whether there is an answer.
Open == OpenConnection("open", "flush")
Flush == FlushOutput("flush", IF oneWay THEN "probe" ELSE "ready") /\ UNCHANGED quiet

(***************************************************************************)
(* Reading from the channel                                                *)
(***************************************************************************)
\* Some of the bytes that have arrived.
Arrives(next) ==
  /\ sock /\ wire # <<>>
  /\ \E n \in 1 .. Len(wire) :
       /\ received' = received \o SubSeq(wire, 1, n)
       /\ wire' = Drop(wire, n)
  /\ bytesLeft' = Len(received')
  /\ pc' = next
  /\ UNCHANGED <<sock, status, inbox, end, reopen, past>>

\* The peer has closed: recv returns 0.
AtEnd == sock /\ wire = <<>> /\ end = "closed"

\* recv fails: the channel closes and throws, or says -1 when it is quiet.
Broken == sock /\ end = "reset"

\* The socket is gone, or select says the time is up: the connection stays.
ReadThrows ==
  /\ \/ ~sock /\ UNCHANGED past
     \/ sock /\ Timeouts /\ wire = <<>> /\ end = "open" /\ past' = past \cup {"timeout"}
  /\ Throw
  /\ UNCHANGED <<received, bytesLeft, sock, peerVars, reopen>>

\* A read of no bytes is an exception only when nothing has been received.
NothingRead(next) ==
  /\ IF received = <<>> THEN reopen' = TRUE /\ Throw
                        ELSE pc' = next /\ UNCHANGED <<reopen, status>>
  /\ UNCHANGED <<received, bytesLeft>>

GetNextDataPacket(next) ==
  \/ Arrives(next)
  \/ AtEnd /\ NothingRead(next) /\ UNCHANGED <<sock, peerVars, past>>
  \/ Broken /\ quiet /\ CloseChannel /\ NothingRead(next) /\ UNCHANGED past
  \/ Broken /\ ~quiet /\ CloseChannel /\ Throw /\ UNCHANGED <<received, bytesLeft, reopen, past>>
  \/ ReadThrows

\* What a read leaves alone.
ReadFrame == <<state, contentLength, chunkLeft, nextSize, bufferVars, url, quiet, callVars, size, got,
               at, sendVars>>

-----------------------------------------------------------------------------

(***************************************************************************)
(* readHTTPHeader                                                          *)
(***************************************************************************)
HeaderArrived == Heads(received) # {} /\ Blanks(received, 0) # {}

\* Mutant: the end of the connection is looked for as it is in a chunk.
ReadHeader_OnlyIfEmpty ==
  /\ pc = "header" /\ ~HeaderArrived
  /\ GetNextDataPacket("header")
  /\ UNCHANGED ReadFrame

\* Unlike elsewhere, a read of no bytes is always an exception here.
ReadHeader ==
  /\ pc = "header" /\ ~HeaderArrived
  /\ \/ Arrives("header")
     \/ AtEnd /\ reopen' = TRUE /\ Throw /\ UNCHANGED <<received, bytesLeft, sock, peerVars, past>>
     \/ Broken /\ CloseChannel /\ Throw /\ UNCHANGED <<received, bytesLeft, reopen, past>>
     \/ ReadThrows
  /\ UNCHANGED ReadFrame

\* The header that has arrived first; what precedes it is skipped.  The end
\* is looked for after its start: when the only blank line precedes it, the
\* code adds 4 to npos and cuts 3 bytes.
Header == received[First(Heads(received))].of
AfterHeader ==
  LET ends == Blanks(received, First(Heads(received)))
  IN Drop(received, IF ends = {} THEN 3 ELSE First(ends) + 3)

\* Mutant: the header of a status of 100 is the answer's.
ProcessHeader_TakesContinue ==
  /\ pc = "header" /\ HeaderArrived /\ Header.status # "moved"
  /\ received' = AfterHeader /\ bytesLeft' = Len(AfterHeader)
  /\ contentLength' = IF Header.frame = "length" THEN BodySize(Header) ELSE contentLength
  /\ reopen' = (reopen \/ Header.close)
  /\ quiet' = (quiet \/ Header.close)
  /\ state' = IF Header.status = "ok" THEN Header.frame ELSE "waiting"
  /\ past' = past \cup (IF Header.close THEN {"close"} ELSE {})
                  \cup (IF Header.status = "error" THEN {"status"} ELSE {})
  /\ \/ Header.status # "error" /\ pc' = "body" /\ saved' = <<>> /\ attempts' = 0 /\ UNCHANGED status
     \/ Header.status = "error" /\ Throw /\ saved' = <<>> /\ attempts' = 0
  /\ UNCHANGED <<chunkLeft, nextSize, toSend, url, sock, callVars, size, got, at, peerVars, sendVars>>

\* processHTTPHeader, then the loop of readHTTPHeader for a status of 100, its
\* exits for 2xx and 5xx and for the statuses that are no answer.
ProcessHeader ==
  /\ pc = "header" /\ HeaderArrived /\ Header.status # "moved"
  /\ received' = AfterHeader /\ bytesLeft' = Len(AfterHeader)
  /\ contentLength' = IF Header.frame = "length" THEN BodySize(Header) ELSE contentLength
  /\ reopen' = (reopen \/ Header.close)
  /\ quiet' = (quiet \/ Header.close)
  /\ state' = IF Header.status = "ok" THEN Header.frame ELSE "waiting"
  /\ past' = past \cup (IF Header.close THEN {"close"} ELSE {})
                  \cup (IF Header.status = "error" THEN {"status"} ELSE {})
  /\ \/ Header.status = "continue" /\ UNCHANGED <<pc, status, saved, attempts>>
     \/ Header.status = "ok" /\ pc' = "body" /\ saved' = <<>> /\ attempts' = 0 /\ UNCHANGED status
     \/ Header.status = "error" /\ Throw /\ saved' = <<>> /\ attempts' = 0
  /\ UNCHANGED <<chunkLeft, nextSize, toSend, url, sock, callVars, size, got, at, peerVars, sendVars>>

\* Mutant: the attempts are not counted.
HandleRedirect_NotCounted ==
  /\ pc = "header" /\ HeaderArrived /\ Header.status = "moved"
  /\ attempts < MaxRedirects
  /\ ResetInput /\ CloseChannel
  /\ quiet' = (quiet \/ Header.close)
  /\ \E u \in Urls : url' = u /\ reopen' = (u # url)
  /\ pc' = "reopen"
  /\ UNCHANGED <<toSend, saved, attempts, status, callVars, size, got, at, sendVars, past>>

\* handleRedirect: the connection is closed; the saved copy of the request is
\* sent to the new location.  It throws instead when the redirects are used up
\* and when the location is of another scheme.
HandleRedirect ==
  /\ pc = "header" /\ HeaderArrived /\ Header.status = "moved"
  /\ ResetInput /\ CloseChannel
  /\ quiet' = (quiet \/ Header.close)
  /\ \/ /\ attempts < MaxRedirects
        /\ attempts' = attempts + 1
        /\ \E u \in Urls : url' = u /\ reopen' = (u # url)
        /\ pc' = "reopen"
        /\ UNCHANGED <<saved, status>>
     \/ /\ attempts' = 0 /\ saved' = <<>> /\ reopen' = FALSE
        /\ Throw
        /\ UNCHANGED url
  /\ UNCHANGED <<toSend, callVars, size, got, at, sendVars, past>>

\* The redirected request, and the readHTTPHeader that follows it.
Reopen == OpenConnection("reopen", "reflush")
Reflush ==
  FlushOutput("reflush", "header") /\ quiet' = IF pc' = "header" THEN FALSE ELSE quiet

(***************************************************************************)
(* getBytes                                                                *)
(***************************************************************************)
\* Only an empty buffer makes it wait for another header.
GetBytes(n) ==
  /\ size' = n
  /\ IF state = "waiting" /\ bytesLeft = 0
     THEN ResetInput /\ quiet' = FALSE /\ pc' = "header"
     ELSE pc' = "body" /\ UNCHANGED <<inputVars, quiet>>
  /\ UNCHANGED <<bufferVars, reopen, url, sock, callVars, got, status, at, peerVars, sendVars, past>>

IsThereResponseData == pc = "probe" /\ GetBytes(0)

\* The pull parser asks for bytes when the deserializer wants an element that
\* it has not got, whatever getBytes has returned, but none behind the end of
\* the envelope; no bytes at all are the end of its input.
DocumentRead == \E i \in DOMAIN got : got[i].kind = "data" /\ got[i].of[1] = got[i].of[2]
Parse == pc = "ready" /\ ~DocumentRead /\ \E n \in ReadSizes : GetBytes(n)

\* Mutant: the status does not look at the bytes left in the buffer.
Give_StateOnly(k, s) ==
  LET n == IF size <= k THEN size ELSE k
  IN /\ got' = got \o SubSeq(received, 1, n)
     /\ received' = Drop(received, n) /\ bytesLeft' = bytesLeft - n
     /\ state' = s
     /\ status' = IF s # "waiting" THEN "progress" ELSE "finished"
     /\ pc' = IF (size = 0 /\ s # "waiting") \/ n > 0 THEN "ready" ELSE "done"
     /\ UNCHANGED <<bufferVars, reopen, url, sock, quiet, callVars, size, at, peerVars, sendVars>>

\* Mutant: what the parser's buffer cannot take is erased with the rest.
Give_ErasesAll(k, s) ==
  LET n == IF size <= k THEN size ELSE k
  IN /\ got' = got \o SubSeq(received, 1, n)
     /\ received' = <<>> /\ bytesLeft' = 0
     /\ state' = s
     /\ status' = IF s # "waiting" THEN "progress" ELSE "finished"
     /\ pc' = IF (size = 0 /\ s # "waiting") \/ n > 0 THEN "ready" ELSE "done"
     /\ UNCHANGED <<bufferVars, reopen, url, sock, quiet, callVars, size, at, peerVars, sendVars>>

\* The end of getBytes: at most k bytes are copied, the state is s.
Give(k, s) ==
  LET n == IF size <= k THEN size ELSE k
      left == bytesLeft - n
      there == s # "waiting" \/ left # 0
  IN /\ got' = got \o SubSeq(received, 1, n)
     /\ received' = Drop(received, n) /\ bytesLeft' = left
     /\ state' = s
     /\ status' = IF there THEN "progress" ELSE "finished"
     /\ pc' = IF (size = 0 /\ there) \/ n > 0 THEN "ready" ELSE "done"
     /\ UNCHANGED <<bufferVars, reopen, url, sock, quiet, callVars, size, at, peerVars, sendVars>>

\* The rest of the buffer, after the state has been reset.
GiveRest ==
  /\ pc = "body" /\ state = "waiting"
  /\ Give(bytesLeft, state)
  /\ UNCHANGED <<contentLength, chunkLeft, nextSize, past>>

\* getBytes_MessageHasContentLength: reads when the buffer is empty, and takes
\* what the buffer holds, old or new, from the length still to come.
ReadLength ==
  /\ pc = "body" /\ state = "length" /\ contentLength > 0 /\ bytesLeft = 0
  /\ GetNextDataPacket("length")
  /\ UNCHANGED ReadFrame

\* Mutant: the content length goes below zero.
GiveLength_Unclamped ==
  /\ \/ pc = "body" /\ state = "length" /\ ~(contentLength > 0 /\ bytesLeft = 0)
     \/ pc = "length"
  /\ contentLength' = contentLength - bytesLeft
  /\ Give(bytesLeft, IF contentLength' = 0 THEN "waiting" ELSE state)
  /\ UNCHANGED <<chunkLeft, nextSize, past>>

GiveLength ==
  /\ \/ pc = "body" /\ state = "length" /\ ~(contentLength > 0 /\ bytesLeft = 0)
     \/ pc = "length"
  /\ LET left == IF contentLength >= bytesLeft THEN contentLength - bytesLeft ELSE 0
     IN /\ contentLength' = left
        /\ Give(bytesLeft, IF left = 0 THEN "waiting" ELSE state)
        /\ past' = IF left > 0 /\ bytesLeft' > 0 THEN past \cup {"recount"} ELSE past
  /\ UNCHANGED <<chunkLeft, nextSize>>

\* getBytes_MessageIsNotChunked: reads every time.
ReadNotChunked ==
  /\ pc = "body" /\ state = "none"
  /\ GetNextDataPacket("none")
  /\ UNCHANGED ReadFrame
GiveNotChunked ==
  /\ pc = "none"
  /\ Give(bytesLeft, state)
  /\ UNCHANGED <<contentLength, chunkLeft, nextSize, past>>

(***************************************************************************)
(* getBytes_MessageIsChunked and getChunkSize.  The size of the next chunk *)
(* is read ahead, behind the data of the current one and its CRLF.         *)
(***************************************************************************)
Offset == IF chunkLeft = 0 THEN 0 ELSE chunkLeft + 2

\* A chunk is begun: the CRLF of the one before it goes, and its size line
\* when the size is known already.
NextChunk ==
  /\ pc = "body" /\ state = "chunked" /\ chunkLeft = 0
  /\ LET rest == IF 1 \in Crlfs(received, 0) THEN Drop(received, 2) ELSE received
         lines == Crlfs(rest, 0)
     IN IF nextSize > 0
        THEN /\ received' = IF lines = {} THEN rest ELSE Drop(rest, First(lines) + 1)
             /\ chunkLeft' = nextSize /\ nextSize' = 0
             /\ pc' = "fill"
        ELSE received' = rest /\ pc' = "size" /\ UNCHANGED <<chunkLeft, nextSize>>
  /\ bytesLeft' = Len(received')
  /\ UNCHANGED <<state, contentLength, bufferVars, reopen, url, sock, quiet, callVars, size, got,
                 status, at, peerVars, sendVars, past>>

\* The three loops that read: until a size line is complete, until the chunk,
\* its CRLF and a byte more are there, until the trailer has ended.
Incomplete ==
  \/ pc \in {"size", "peek"} /\ Crlfs(received, Offset) = {}
  \/ pc = "fill" /\ chunkLeft + 2 >= bytesLeft
  \/ pc = "trailer" /\ Blanks(received, Offset) = {}

ReadChunk == Incomplete /\ GetNextDataPacket(pc) /\ UNCHANGED ReadFrame

\* axtoi: -1 for a line that is no hexadecimal number.
Axtoi(line) ==
  IF Len(line) = 1 /\ line[1].kind = "size" /\ ~line[1].of[2] THEN line[1].of[1] ELSE -1

\* The line is complete; a size other than zero ends getChunkSize.
GetChunkSize ==
  /\ pc \in {"size", "peek"} /\ ~Incomplete
  /\ LET eol == First(Crlfs(received, Offset))
         n == Axtoi(SubSeq(received, Offset + 1, eol - 1))
     IN \/ /\ n = -1
           /\ reopen' = TRUE /\ Throw
           /\ UNCHANGED <<received, bytesLeft, chunkLeft, nextSize>>
        \/ /\ n = 0
           /\ pc' = "trailer"
           /\ UNCHANGED <<received, bytesLeft, chunkLeft, nextSize, reopen, status>>
        \/ /\ n > 0 /\ pc = "size"
           /\ received' = Drop(received, eol + 1) /\ bytesLeft' = Len(received')
           /\ chunkLeft' = n
           /\ pc' = "fill"
           /\ UNCHANGED <<nextSize, reopen, status>>
        \/ /\ n > 0 /\ pc = "peek"
           /\ nextSize' = n
           /\ pc' = "chunk"
           /\ UNCHANGED <<received, bytesLeft, chunkLeft, reopen, status>>
  /\ UNCHANGED <<state, contentLength, bufferVars, url, sock, quiet, callVars, size, got, at, peerVars,
                 sendVars, past>>

ChunkFilled ==
  /\ pc = "fill" /\ ~Incomplete
  /\ pc' = "peek"
  /\ UNCHANGED <<inputVars, bufferVars, reopen, url, sock, quiet, callVars, size, got, status, at,
                 peerVars, sendVars, past>>

\* Mutant: m_iBytesLeft is not set anew when the trailer has gone.
EndChunks_KeepsCount ==
  /\ pc = "trailer" /\ ~Incomplete
  /\ received' = Erase(received, Offset, First(Blanks(received, Offset)) + 3)
  /\ nextSize' = 0
  /\ state' = "waiting"
  /\ pc' = "chunk"
  /\ UNCHANGED <<bytesLeft, contentLength, chunkLeft, bufferVars, reopen, url, sock, quiet, callVars,
                 size, got, status, at, peerVars, sendVars, past>>

\* A size of zero ends the answer.  The number of bytes to erase is the
\* position of the blank line, which erases more than the trailer.
EndChunks ==
  /\ pc = "trailer" /\ ~Incomplete
  /\ received' = Erase(received, Offset, First(Blanks(received, Offset)) + 3)
  /\ bytesLeft' = Len(received')
  /\ nextSize' = 0
  /\ state' = "waiting"
  /\ pc' = "chunk"
  /\ UNCHANGED <<contentLength, chunkLeft, bufferVars, reopen, url, sock, quiet, callVars, size, got,
                 status, at, peerVars, sendVars, past>>

GiveChunk ==
  /\ pc = "chunk" \/ (pc = "body" /\ state = "chunked" /\ chunkLeft > 0)
  /\ LET n == IF size >= chunkLeft THEN chunkLeft ELSE size
     IN Give(n, state) /\ chunkLeft' = chunkLeft - n
  /\ UNCHANGED <<contentLength, nextSize, past>>

\* The call ends before getBytes has taken the whole answer from the channel.
Unread == pc = "ready" /\ ~DocumentRead /\ (state # "waiting" \/ bytesLeft = 0)

\* Mutant: closeConnection(true).
EndCall_Forced ==
  /\ pc \in {"ready", "done"}
  /\ pc' = "idle"
  /\ ResetInput
  /\ past' = IF Unread THEN past \cup {"unread"} ELSE past
  /\ reopen' = FALSE /\ CloseChannel
  /\ UNCHANGED <<bufferVars, url, quiet, callVars, size, got, status, at, sendVars>>

\* Mutant: the input state machine is reset only when the connection is closed.
EndCall_KeepsInput ==
  /\ pc \in {"ready", "done"}
  /\ pc' = "idle"
  /\ past' = IF Unread THEN past \cup {"unread"} ELSE past
  /\ IF reopen THEN reopen' = FALSE /\ ResetInput /\ CloseChannel
               ELSE UNCHANGED <<inputVars, reopen, sock, peerVars>>
  /\ UNCHANGED <<bufferVars, url, quiet, callVars, size, got, status, at, sendVars>>

\* Call::unInitialize: closeConnection(false), when the stub has the elements
\* it asked for or the deserializer has found an error, whatever has been read.
EndCall ==
  /\ pc \in {"ready", "done"}
  /\ pc' = "idle"
  /\ ResetInput
  /\ past' = IF Unread THEN past \cup {"unread"} ELSE past
  /\ IF reopen THEN reopen' = FALSE /\ CloseChannel
               ELSE UNCHANGED <<reopen, sock, peerVars>>
  /\ UNCHANGED <<bufferVars, url, quiet, callVars, size, got, status, at, sendVars>>

(***************************************************************************)
(* The peer                                                                *)
(***************************************************************************)
clientVars == <<inputVars, bufferVars, reopen, url, sock, quiet, pc, callVars, size, got, status, at,
                sendVars, past>>

\* The call a request is taken for; an empty one is nobody's.
Caller(payload) == IF payload = <<>> THEN 0 ELSE payload[Len(payload)]

PeerContinues ==
  /\ end = "open" /\ inbox # <<>> /\ wire = <<>>
  /\ wire' = Wire(Caller(Head(inbox)), Continue)
  /\ UNCHANGED <<inbox, end, clientVars>>

\* Only the connection's end marks the end of an answer without a length.
PeerAnswers(a) ==
  /\ end = "open" /\ inbox # <<>>
  /\ wire' = wire \o Wire(Caller(Head(inbox)), a)
  /\ IF a.close \/ a.frame = "none" THEN inbox' = <<>> /\ end' = "closed"
                                    ELSE inbox' = Tail(inbox) /\ UNCHANGED end
  /\ UNCHANGED clientVars

\* The peer closes, at any time: between calls, before an answer, or in the
\* middle of one, of which n bytes still arrive; or resets the connection.
PeerCloses ==
  /\ sock /\ end = "open"
  /\ \E n \in 0 .. Len(wire) : wire' = SubSeq(wire, 1, n)
  /\ inbox' = <<>> /\ end' = "closed"
  /\ UNCHANGED clientVars
PeerResets ==
  /\ sock /\ end # "reset"
  /\ wire' = <<>> /\ inbox' = <<>> /\ end' = "reset"
  /\ UNCHANGED clientVars

-----------------------------------------------------------------------------
Between == \/ \E u \in Urls : SetEndpointUri(u)
           \/ \E way \in BOOLEAN : SendBytes(way) \/ SerializeFails(way)

Client ==
  \/ Open \/ Flush \/ Reopen \/ Reflush
  \/ IsThereResponseData \/ Parse
  \/ ReadHeader \/ ProcessHeader \/ HandleRedirect
  \/ GiveRest \/ ReadLength \/ GiveLength \/ ReadNotChunked \/ GiveNotChunked
  \/ NextChunk \/ ReadChunk \/ GetChunkSize \/ ChunkFilled \/ EndChunks \/ GiveChunk
  \/ EndCall

Peer == \/ PeerContinues \/ PeerCloses \/ PeerResets
        \/ \E a \in Answers : PeerAnswers(a)

Next == Between \/ Client \/ Peer

\* The caller's thread runs, and a peer that has a request answers it some
\* time.  Nothing obliges it to close a connection.
Fairness == WF_vars(Client) /\ WF_vars(\E a \in Answers : PeerAnswers(a))

Spec == Init /\ [][Next]_vars /\ Fairness

-----------------------------------------------------------------------------
Kinds == {"http", "cr", "lf", "size", "data"}
Symbols(s) == \A i \in DOMAIN s : s[i].kind \in Kinds /\ s[i].id \in 0 .. MaxCalls

\* Types of the transport, its channel, the caller and the peer.
TypeOK ==
  /\ state \in States /\ pc \in Places /\ end \in {"open", "closed", "reset"}
  /\ Symbols(received) /\ Symbols(wire) /\ Symbols(got)
  /\ {bytesLeft, contentLength, chunkLeft, nextSize, size, sends} \subseteq Nat
  /\ call \in 0 .. MaxCalls /\ attempts \in 0 .. MaxRedirects
  /\ toSend \in Seq(1 .. MaxCalls) /\ saved \in Seq(1 .. MaxCalls)
  /\ inbox \in Seq(Seq(1 .. MaxCalls))
  /\ {url, at} \subseteq Urls
  /\ {reopen, sock, quiet, oneWay} \subseteq BOOLEAN
  /\ status \in {"progress", "finished", "failed"}
  /\ torn \subseteq unsent /\ unsent \subseteq 1 .. MaxCalls
  /\ past \subseteq Events

\* m_iBytesLeft, kept apart from m_strReceived, is always its length.
BufferCounted == bytesLeft = Len(received)

\* Nothing has happened on the connection that may leave bytes unread.
InStep == past \subseteq {"close"}

\* However the answer is split and whatever buffers the parser passes, it gets
\* the bytes of one body in order, without a header, a chunk's size line or a
\* byte lost; only the CRLF of the last chunk may follow the body.
InOrder ==
  InStep => \A i \in DOMAIN got :
    \/ got[i].kind = "data" /\ got[i].id = got[1].id /\ got[i].of = <<i, got[1].of[2]>>
    \/ got[i].kind \in {"cr", "lf"} /\ i > got[1].of[2]

\* The parser's bytes come from the answer to its own call, unless an earlier
\* exchange on this connection left its answer, or a part of it, unread.
OwnAnswer == InStep => \A i \in DOMAIN got : got[i].kind = "data" => got[i].id = call

\* getBytes says that it has finished only when the body has been handed out,
\* unless its bytes were taken twice from the content length.
WholeAnswer == InStep /\ status = "finished" /\ got # <<>> => DocumentRead

\* A request goes to the endpoint set last, never on a connection whose peer
\* has announced its end, and no byte of an earlier answer is kept for its own.
FreshConnection ==
  pc \in Flushing =>
    /\ sock /\ at = url
    /\ "close" \notin past
    /\ received = <<>> /\ state = "waiting"

\* A connection that owes the answer to an earlier request, or a part of one,
\* is written to only when it is out of step.
NothingOwed == pc \in Flushing /\ InStep => wire = <<>> /\ inbox = <<>>

\* Redirects end: a call sends its request at most once more per redirect.
RedirectsBounded == sends <= 1 + MaxRedirects

\* What is sent is the call's own envelope, whole, on a redirect too unless the
\* redirect was out of step; what else may go with it was left by calls that
\* ended before they could send it: those that found no connection, and those
\* whose serialization was broken off.
RequestIsWhole ==
  pc = "flush" \/ (pc = "reflush" /\ InStep) =>
    /\ Payload # <<>> /\ Payload[Len(Payload)] = call /\ call \notin torn
    /\ \A i \in 1 .. Len(Payload) - 1 : Payload[i] \in unsent

\* The connection survives a call unless an end was announced or a read failed.
KeepAlive == [][pc' = "idle" /\ sock /\ ~sock' => "close" \in past \/ status = "failed"]_vars

\* The client waits for bytes that nobody will send.
Starved ==
  /\ sock /\ wire = <<>> /\ inbox = <<>> /\ end = "open"
  /\ \/ pc = "header" /\ ~HeaderArrived
     \/ Incomplete
     \/ pc = "body" /\ state \in {"length", "none"}

\* The peer has closed in the middle of a chunk: the loops of the chunked
\* state read no bytes for ever.
Spinning == AtEnd /\ Incomplete /\ received # <<>>

\* The transmitting side closes: the read throws, which ends the call.
CloseIsThrown == pc # "idle" /\ AtEnd ~> pc = "idle"

\* Every call ends, but for a peer that closes in the middle of a chunk and
\* for a connection that was out of step before.
CallEndsUnless == pc # "idle" ~> pc = "idle" \/ Spinning \/ (Starved /\ ~InStep)
=============================================================================
