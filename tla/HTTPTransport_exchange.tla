----------------------- MODULE HTTPTransport_exchange -----------------------
(* Theorems about one exchange of HTTPTransport: where the bytes that have   *)
(* not been handed out stand in the answer, for any answers, pieces they     *)
(* arrive in and sizes of the parser's buffers.                              *)
EXTENDS HTTPTransport_proofs

USE DEF inputVars, bufferVars, peerVars, sendVars, callVars, clientVars, ReadFrame, Throw,
        ResetInput, CloseChannel, Quiescent, Opening, Flushing

-----------------------------------------------------------------------------
(***************************************************************************)
(* The exchange: where the bytes that have not been handed out stand in    *)
(* the answer, while the connection is in step.                            *)
(***************************************************************************)
\* s is what w has from offset p on, as far as s goes.
Follows(s, w, p) == \A k \in 1 .. Len(s) : p + k <= Len(w) /\ s[k] = w[p + k]

\* The i-th symbol that the parser may get of a body of n bytes.
BodySymbol(x, i, n) ==
  IF i <= n THEN x = Symbol("data", call, <<i, n>>) ELSE x.kind \in {"cr", "lf"}

Taken(n) ==
  /\ \A i \in 1 .. Len(got) : BodySymbol(got[i], i, n)
  /\ got # <<>> => n > 0
  /\ got # <<>> /\ status = "finished" => n <= Len(got)

\* The request has been sent and no answer has been read.
Expecting ==
  /\ Awaiting(call) \/ Headless
  /\ MaxRedirects > 0 => Whole(saved)
  /\ got = <<>>

\* A body that is not chunked comes from the stream, byte after byte.
Plain(a) ==
  /\ a.frame = state /\ state \in {"length", "none"} /\ pc \in {"ready", "body", state}
  /\ Len(got) + Len(Stream) <= BodySize(a)
  /\ \A k \in 1 .. Len(Stream) : Stream[k] = Symbol("data", call, <<Len(got) + k, BodySize(a)>>)
  /\ state = "length" => contentLength + Len(got) = BodySize(a)

\* The size line of the first chunk comes next.
Starting(a) ==
  /\ chunkLeft = 0 /\ got = <<>> /\ Follows(Stream, Wire(call, a), 5)
  /\ pc \in {"body", "size", "trailer"}
  /\ pc = "body" => nextSize = 0
  /\ pc = "trailer" => Len(a.chunks) = 0

\* What is left of chunk i comes next; in getBytes' loops that is all of it.
InChunk(a, i) ==
  /\ chunkLeft <= a.chunks[i]
  /\ Len(got) + chunkLeft = Sums(a)[i]
  /\ Follows(Stream, Wire(call, a), Mark(a, i) - 2 - chunkLeft)
  /\ pc \in {"ready", "body", "fill", "peek", "trailer", "chunk"}
  /\ pc \in {"ready", "body", "chunk"} =>
       i < Len(a.chunks) /\ nextSize = a.chunks[i + 1] /\ chunkLeft + 5 <= Len(received)
  /\ pc \in {"fill", "peek", "trailer", "chunk"} => chunkLeft = a.chunks[i]
  /\ pc = "peek" => chunkLeft + 2 < Len(received)
  /\ pc = "trailer" => i = Len(a.chunks)

Chunked(a) ==
  /\ a.frame = "chunked" /\ state = "chunked"
  /\ Starting(a) \/ \E i \in 1 .. Len(a.chunks) : InChunk(a, i)

\* The end of the answer is in the buffer.
Rest(a) ==
  /\ state = "waiting" /\ pc \in {"ready", "body", "chunk"} /\ wire = <<>>
  /\ \A k \in 1 .. Len(received) : BodySymbol(received[k], Len(got) + k, BodySize(a))
  /\ BodySize(a) <= Len(got) + Len(received)
  /\ BodySize(a) = 0 => pc = "chunk" /\ received = <<>> /\ got = <<>>
  /\ pc = "chunk" => chunkLeft <= Len(received) /\ (BodySize(a) > 0 => chunkLeft > 0)

Serves(a) ==
  /\ a.status = "ok" /\ Taken(BodySize(a))
  /\ Plain(a) \/ Chunked(a) \/ Rest(a)

Serving == inbox = <<>> /\ \E a \in Answers : Serves(a)

Exchange ==
  /\ pc \in Quiescent => Silent
  /\ pc = "done" /\ ~reopen => Silent
  /\ pc \in {"reopen", "reflush"} => got = <<>> /\ (MaxRedirects > 0 => Whole(saved))
  /\ pc \in {"probe", "header"} => Expecting
  /\ pc = "probe" => received = <<>>
  /\ pc = "ready" => Serving \/ (Expecting /\ received = <<>> /\ state = "waiting")
  /\ pc \in InGetBytes \ {"header"} => Serving
  /\ \E n \in Nat : Taken(n)

ExchangeInv == InStep => Exchange

LEMMA FollowsTrimmed ==
  ASSUME NEW s \in Seq(SymbolSet), NEW t \in Seq(SymbolSet), NEW w, NEW p \in Int,
         Follows(s, w, p), Prefix(t, s)
  PROVE  Follows(t, w, p)
<1>1. Len(t) \in Nat /\ Len(s) \in Nat /\ Len(t) <= Len(s) /\ \A i \in 1 .. Len(t) : t[i] = s[i]
  BY DEF Prefix
<1>2. ASSUME NEW k \in 1 .. Len(t)
      PROVE  p + k <= Len(w) /\ t[k] = w[p + k]
  <2>1. k \in 1 .. Len(s)
    BY <1>1
  <2> QED BY <1>1, <2>1 DEF Follows
<1> QED BY <1>2 DEF Follows

LEMMA FollowsDropped ==
  ASSUME NEW s \in Seq(SymbolSet), NEW t \in Seq(SymbolSet), NEW w, NEW p \in Int, NEW n \in Nat,
         Follows(s, w, p), Dropped(t, s, n)
  PROVE  Follows(t, w, p + n)
<1>1. /\ Len(t) \in Nat /\ Len(s) \in Nat /\ Len(t) = Len(s) - n
      /\ \A i \in 1 .. Len(s) - n : t[i] = s[n + i]
  BY DEF Dropped
<1>2. ASSUME NEW k \in 1 .. Len(t)
      PROVE  (p + n) + k <= Len(w) /\ t[k] = w[(p + n) + k]
  <2>1. k \in 1 .. Len(s) - n /\ n + k \in 1 .. Len(s) /\ p + (n + k) = (p + n) + k
    BY <1>1
  <2>2. p + (n + k) <= Len(w) /\ s[n + k] = w[p + (n + k)]
    BY <2>1 DEF Follows
  <2> QED BY <1>1, <2>1, <2>2
<1> QED BY <1>2 DEF Follows

LEMMA WithinFollows ==
  ASSUME NEW s \in Seq(SymbolSet), NEW w, Within(s, 0, w, 0)
  PROVE  Follows(s, w, 0)
<1>1. \A k \in 1 .. Len(s) - 0 : 0 + k <= Len(w) /\ s[0 + k] = w[0 + k]
  BY DEF Within
<1>2. ASSUME NEW k \in 1 .. Len(s)
      PROVE  0 + k <= Len(w) /\ s[k] = w[0 + k]
  <2>1. k \in 1 .. Len(s) - 0 /\ 0 + k = k
    OBVIOUS
  <2>2. 0 + k <= Len(w) /\ s[0 + k] = w[0 + k]
    BY <1>1, <2>1
  <2> QED BY <2>1, <2>2
<1> QED BY <1>2 DEF Follows

\* What there is to follow bounds what follows.
LEMMA FollowsLength ==
  ASSUME NEW s \in Seq(SymbolSet), NEW w \in Seq(SymbolSet), NEW p \in Nat, Follows(s, w, p), p <= Len(w)
  PROVE  Len(s) <= Len(w) - p
<1>1. Len(s) \in Nat /\ Len(w) \in Nat
  OBVIOUS
<1>2. CASE Len(s) = 0
  BY <1>1, <1>2
<1>3. CASE Len(s) # 0
  <2>1. Len(s) \in 1 .. Len(s)
    BY <1>1, <1>3
  <2>2. p + Len(s) <= Len(w)
    BY <2>1 DEF Follows
  <2> QED BY <1>1, <2>2
<1> QED BY <1>2, <1>3

(***************************************************************************)
(* The places of a chunked answer.                                         *)
(***************************************************************************)
LineSize(a, i) == IF i < Len(a.chunks) THEN a.chunks[i + 1] ELSE 0

LEMMA MarkFacts ==
  ASSUME NEW a \in Answer
  PROVE  /\ Mark(a, 0) = 5
         /\ \A i \in 0 .. Len(a.chunks) : Mark(a, i) \in Nat /\ Mark(a, i) >= 5
         /\ \A i \in 1 .. Len(a.chunks) : Mark(a, i) = Mark(a, i - 1) + a.chunks[i] + 5
<1>1. /\ Sums(a)[0] = 0
      /\ \A i \in 1 .. Len(a.chunks) : Sums(a)[i] = Sums(a)[i - 1] + a.chunks[i]
      /\ \A i \in 0 .. Len(a.chunks) : Sums(a)[i] \in Nat
  BY SumsFacts
<1>2. Len(a.chunks) \in Nat /\ \A i \in 1 .. Len(a.chunks) : a.chunks[i] \in Nat
  BY AnswerChunks
<1>3. Mark(a, 0) = 5
  BY <1>1 DEF Mark
<1>4. ASSUME NEW i \in 0 .. Len(a.chunks)
      PROVE  Mark(a, i) \in Nat /\ Mark(a, i) >= 5
  <2>1. Sums(a)[i] \in Nat
    BY <1>1
  <2> QED BY <2>1 DEF Mark
<1>5. ASSUME NEW i \in 1 .. Len(a.chunks)
      PROVE  Mark(a, i) = Mark(a, i - 1) + a.chunks[i] + 5
  <2>1. i - 1 \in 0 .. Len(a.chunks)
    BY <1>2
  <2>2. Sums(a)[i] = Sums(a)[i - 1] + a.chunks[i] /\ Sums(a)[i - 1] \in Nat /\ a.chunks[i] \in Nat
    BY <1>1, <1>2, <2>1
  <2> QED BY <2>2 DEF Mark
<1> QED BY <1>3, <1>4, <1>5

\* After i chunks comes the size line of the next one, or that of zero.
LEMMA SizeLineAt ==
  ASSUME NEW id \in 0 .. MaxCalls, NEW a \in Answers, a.frame = "chunked",
         NEW i \in 0 .. Len(a.chunks), NEW w, w = Wire(id, a)
  PROVE  /\ w[Mark(a, i) + 1] = Symbol("size", id, <<LineSize(a, i), a.ext>>)
         /\ w[Mark(a, i) + 2].kind = "cr" /\ w[Mark(a, i) + 3].kind = "lf"
<1>1. a \in Answer /\ Len(a.chunks) \in Nat /\ \A j \in 1 .. Len(a.chunks) : a.chunks[j] \in Nat
  BY ContinueIsAnswer, AnswerChunks
<1>2. /\ \A j \in 1 .. Len(a.chunks) : ChunkAt(w, Mark(a, j - 1), id, a, j)
      /\ \A k \in 1 .. 5 : TrailByte(w[Mark(a, Len(a.chunks)) + k], k, id, a)
  BY WireFacts
<1>3. CASE i < Len(a.chunks)
  <2>1. i + 1 \in 1 .. Len(a.chunks) /\ (i + 1) - 1 = i
    BY <1>1, <1>3
  <2>2. ChunkAt(w, Mark(a, i), id, a, i + 1)
    BY <1>2, <2>1
  <2> DEFINE c == a.chunks[i + 1]
  <2>3. c \in Nat
    BY <1>1, <2>1
  <2>4. \A k \in 1 .. c + 5 : ChunkByte(w[Mark(a, i) + k], k, id, a, i + 1)
    BY <2>2 DEF ChunkAt
  <2> HIDE DEF c
  <2>5. 1 \in 1 .. c + 5 /\ 2 \in 1 .. c + 5 /\ 3 \in 1 .. c + 5
    BY <2>3
  <2>6. /\ ChunkByte(w[Mark(a, i) + 1], 1, id, a, i + 1)
        /\ ChunkByte(w[Mark(a, i) + 2], 2, id, a, i + 1)
        /\ ChunkByte(w[Mark(a, i) + 3], 3, id, a, i + 1)
    BY <2>4, <2>5
  <2>7. LineSize(a, i) = a.chunks[i + 1]
    BY <1>3 DEF LineSize
  <2> QED BY <2>6, <2>7 DEF ChunkByte
<1>4. CASE i = Len(a.chunks)
  <2>1. /\ TrailByte(w[Mark(a, i) + 1], 1, id, a)
        /\ TrailByte(w[Mark(a, i) + 2], 2, id, a)
        /\ TrailByte(w[Mark(a, i) + 3], 3, id, a)
    BY <1>2, <1>4
  <2>2. LineSize(a, i) = 0
    BY <1>1, <1>4 DEF LineSize
  <2> QED BY <2>1, <2>2 DEF TrailByte
<1> QED BY <1>1, <1>3, <1>4

\* The data of a chunk, and the CRLF that ends it, before its end.
LEMMA ChunkDataAt ==
  ASSUME NEW id \in 0 .. MaxCalls, NEW a \in Answers, a.frame = "chunked",
         NEW i \in 1 .. Len(a.chunks), NEW w, w = Wire(id, a), NEW l \in 0 .. a.chunks[i]
  PROVE  /\ \A k \in 1 .. l : w[Mark(a, i) - 2 - l + k] = Symbol("data", id, <<Sums(a)[i] - l + k, BodySize(a)>>)
         /\ w[Mark(a, i) - 2 - l + (l + 1)].kind = "cr" /\ w[Mark(a, i) - 2 - l + (l + 2)].kind = "lf"
<1>1. a \in Answer /\ Len(a.chunks) \in Nat
  BY ContinueIsAnswer, AnswerChunks
<1> DEFINE c == a.chunks[i]
           b == Mark(a, i - 1)
           m == Mark(a, i)
<1>2. c \in Nat /\ l \in Nat /\ l <= c
  BY <1>1, AnswerChunks
<1>3. b \in Nat /\ m = b + c + 5
  <2>1. i - 1 \in 0 .. Len(a.chunks)
    BY <1>1
  <2> QED BY <1>1, <2>1, MarkFacts
<1>4. \A k \in 1 .. c + 5 : ChunkByte(w[b + k], k, id, a, i)
  BY WireFacts DEF ChunkAt
<1>5. Sums(a)[i] = Sums(a)[i - 1] + c /\ Sums(a)[i - 1] \in Nat
  <2>1. i - 1 \in 0 .. Len(a.chunks)
    BY <1>1
  <2> QED BY <1>1, <2>1, SumsFacts
<1>c. c = a.chunks[i]
  OBVIOUS
<1>h. b = Mark(a, i - 1) /\ m = Mark(a, i)
  OBVIOUS
<1> HIDE DEF b, m, c
<1>6. ASSUME NEW k \in 1 .. l
      PROVE  w[m - 2 - l + k] = Symbol("data", id, <<Sums(a)[i] - l + k, BodySize(a)>>)
  <2> DEFINE j == (c + 3) - l + k
  <2>1. j \in 4 .. c + 3 /\ j \in 1 .. c + 5 /\ b + j = m - 2 - l + k
    BY <1>2, <1>3
  <2>2. Sums(a)[i - 1] + (j - 3) = Sums(a)[i] - l + k
    BY <1>2, <1>5
  <2> HIDE DEF j
  <2>3. ChunkByte(w[b + j], j, id, a, i)
    BY <1>4, <2>1
  <2>4. w[b + j] = Symbol("data", id, <<Sums(a)[i - 1] + (j - 3), BodySize(a)>>)
    BY <1>c, <2>1, <2>3, Zenon DEF ChunkByte
  <2> QED BY <2>1, <2>2, <2>4
<1>7. w[m - 2 - l + (l + 1)].kind = "cr" /\ w[m - 2 - l + (l + 2)].kind = "lf"
  <2>1. /\ c + 4 \in 1 .. c + 5 /\ c + 5 \in 1 .. c + 5
        /\ b + (c + 4) = m - 2 - l + (l + 1) /\ b + (c + 5) = m - 2 - l + (l + 2)
    BY <1>2, <1>3
  <2>2. ChunkByte(w[b + (c + 4)], c + 4, id, a, i) /\ ChunkByte(w[b + (c + 5)], c + 5, id, a, i)
    BY <1>4, <2>1
  <2>3. w[b + (c + 4)].kind = "cr" /\ w[b + (c + 5)].kind = "lf"
    BY <1>c, <2>2 DEF ChunkByte
  <2> QED BY <2>1, <2>3
<1> QED BY <1>6, <1>7, <1>h

-----------------------------------------------------------------------------
(***************************************************************************)
(* How an exchange goes on, and how it ends, action by action.             *)
(***************************************************************************)
\* While nothing has been handed out, the answer may be of any size.
LEMMA NothingTaken == got = <<>> => Taken(0) /\ Len(got) = 0
BY DEF Taken

LEMMA AnswerSize == \A a \in Answers : a \in Answer /\ BodySize(a) \in Nat
BY ContinueIsAnswer, BodySizeType

LEMMA ServesOn ==
  ASSUME Serving, pc \in InGetBytes \cup {"ready"}, pc # "header"
  PROVE  Exchange
<1>1. \E n \in Nat : Taken(n)
  BY AnswerSize DEF Serving, Serves
<1>2. pc \notin Quiescent \cup {"done", "probe", "header"}
  BY DEF InGetBytes
<1> QED BY <1>1, <1>2 DEF Exchange

LEMMA ExpectsOn ==
  ASSUME Expecting, pc = "header" \/ (pc \in {"probe", "ready"} /\ received = <<>> /\ state = "waiting")
  PROVE  Exchange
<1>1. Taken(0) /\ 0 \in Nat
  BY NothingTaken DEF Expecting
<1> QED BY <1>1 DEF Exchange, InGetBytes

LEMMA EndsCall ==
  ASSUME pc = "done", reopen = TRUE \/ Silent, \E n \in Nat : Taken(n)
  PROVE  Exchange
BY DEF Exchange, InGetBytes

LEMMA IsQuiescent ==
  ASSUME pc \in Quiescent, Silent, \E n \in Nat : Taken(n),
         pc \in {"reopen", "reflush"} => got = <<>> /\ (MaxRedirects > 0 => Whole(saved))
  PROVE  Exchange
BY DEF Exchange, InGetBytes

LEMMA TakenStays ==
  ASSUME NEW n, Taken(n), got' = got, call' = call, status' = status \/ status' = "failed"
  PROVE  Taken(n)'
BY DEF Taken, BodySymbol

LEMMA InitExchange == Init => Exchange
<1> SUFFICES ASSUME Init PROVE Exchange
  OBVIOUS
<1>1. pc = "idle" /\ Silent /\ got = <<>>
  BY DEF Init, Silent
<1>2. Taken(0) /\ 0 \in Nat
  BY <1>1, NothingTaken
<1> QED BY <1>1, <1>2, IsQuiescent

\* The lemmas above for the state after a step.
LEMMA NextExchange ==
  /\ got' = <<>> => Taken(0)'
  /\ (Serving /\ pc \in InGetBytes \cup {"ready"} /\ pc # "header")' => Exchange'
  /\ (Expecting /\ (pc = "header" \/ (pc \in {"probe", "ready"} /\ received = <<>> /\ state = "waiting")))'
       => Exchange'
  /\ (pc = "done" /\ (reopen = TRUE \/ Silent) /\ \E n \in Nat : Taken(n))' => Exchange'
  /\ (/\ pc \in Quiescent /\ Silent /\ (\E n \in Nat : Taken(n))
      /\ pc \in {"reopen", "reflush"} => got = <<>> /\ (MaxRedirects > 0 => Whole(saved)))' => Exchange'
<1>1. got = <<>> => Taken(0)
  BY NothingTaken
<1>2. Serving /\ pc \in InGetBytes \cup {"ready"} /\ pc # "header" => Exchange
  BY ServesOn
<1>3. Expecting /\ (pc = "header" \/ (pc \in {"probe", "ready"} /\ received = <<>> /\ state = "waiting"))
        => Exchange
  BY ExpectsOn
<1>4. pc = "done" /\ (reopen = TRUE \/ Silent) /\ (\E n \in Nat : Taken(n)) => Exchange
  BY EndsCall
<1>5. (/\ pc \in Quiescent /\ Silent /\ (\E n \in Nat : Taken(n))
       /\ pc \in {"reopen", "reflush"} => got = <<>> /\ (MaxRedirects > 0 => Whole(saved))) => Exchange
  BY IsQuiescent
<1>6. (got = <<>> => Taken(0))'
  BY <1>1, PTL
<1>7. (Serving /\ pc \in InGetBytes \cup {"ready"} /\ pc # "header" => Exchange)'
  BY <1>2, PTL
<1>8. (Expecting /\ (pc = "header" \/ (pc \in {"probe", "ready"} /\ received = <<>> /\ state = "waiting"))
        => Exchange)'
  BY <1>3, PTL
<1>9. (pc = "done" /\ (reopen = TRUE \/ Silent) /\ (\E n \in Nat : Taken(n)) => Exchange)'
  BY <1>4, PTL
<1>10. ((/\ pc \in Quiescent /\ Silent /\ (\E n \in Nat : Taken(n))
         /\ pc \in {"reopen", "reflush"} => got = <<>> /\ (MaxRedirects > 0 => Whole(saved))) => Exchange)'
  BY <1>5, PTL
<1>11. /\ got' = <<>> => Taken(0)'
       /\ (Serving /\ pc \in InGetBytes \cup {"ready"} /\ pc # "header")' => Exchange'
  BY <1>6, <1>7
<1>12. (Expecting /\ (pc = "header" \/ (pc \in {"probe", "ready"} /\ received = <<>> /\ state = "waiting")))'
         => Exchange'
  BY <1>8
<1>13. (pc = "done" /\ (reopen = TRUE \/ Silent) /\ \E n \in Nat : Taken(n))' => Exchange'
  BY <1>9
<1>14. (/\ pc \in Quiescent /\ Silent /\ (\E n \in Nat : Taken(n))
        /\ pc \in {"reopen", "reflush"} => got = <<>> /\ (MaxRedirects > 0 => Whole(saved)))' => Exchange'
  BY <1>10
<1> QED BY <1>11, <1>12, <1>13, <1>14

LEMMA BetweenKeepsExchange == ExchangeInv /\ Between => ExchangeInv'
<1> SUFFICES ASSUME ExchangeInv, Between, InStep' PROVE Exchange'
  BY DEF ExchangeInv
<1>1. /\ pc = "idle" /\ past' = past /\ wire' = wire /\ inbox' = inbox
      /\ pc' \in {"idle", "open", "done"}
  BY DEF Between, SetEndpointUri, SendBytes, SerializeFails, BeginCall
<1>2. Exchange
  BY <1>1 DEF ExchangeInv, InStep
<1>3. Silent'
  BY <1>1, <1>2 DEF Exchange, Silent
<1>4. (\E n \in Nat : Taken(n))'
  <2>1. CASE \E u \in Urls : SetEndpointUri(u)
    <3>1. got' = got /\ call' = call /\ status' = status
      BY <2>1 DEF SetEndpointUri
    <3>2. \E n \in Nat : Taken(n)'
      BY <1>2, <3>1, TakenStays DEF Exchange
    <3> QED BY <3>2
  <2>2. CASE \E way \in BOOLEAN : SendBytes(way) \/ SerializeFails(way)
    <3>1. got' = <<>>
      BY <2>2 DEF SendBytes, SerializeFails, BeginCall
    <3>2. Taken(0)'
      BY <3>1, NextExchange
    <3> QED BY <3>2
  <2> QED BY <2>1, <2>2 DEF Between
<1> QED BY <1>1, <1>3, <1>4, NextExchange

LEMMA OpeningKeepsExchange ==
  ASSUME TypeInv, CallInv, ExchangeInv, Open \/ Reopen, InStep'
  PROVE  Exchange'
<1>1. ASSUME NEW here \in Opening, NEW next \in Flushing, OpenConnection(here, next),
             here = "open" <=> next = "flush"
      PROVE  Exchange'
  <2>0. /\ pc = here /\ UNCHANGED <<saved, call, got>>
        /\ pc = "open" => got = <<>>
        /\ pc = "reopen" => ~sock
    BY <1>1 DEF OpenConnection, CallInv, Linked, Buffered
  <2>1. CASE ~sock \/ reopen
    <3>1. /\ wire' = <<>> /\ inbox' = <<>>
          /\ \/ pc' = next /\ unsent' = unsent
             \/ pc' = "done" /\ unsent' = unsent \cup {call}
          /\ pc = "reopen" => past' = past \ {"close"}
      BY <1>1, <2>0, <2>1 DEF OpenConnection
    <3>2. pc = "reopen" => got = <<>> /\ (MaxRedirects > 0 => Whole(saved))
      <4>1. pc = "reopen" => InStep
        BY <3>1 DEF InStep
      <4> QED BY <4>1 DEF ExchangeInv, Exchange
    <3>3. got' = <<>> /\ Taken(0)'
      <4>1. got' = <<>>
        BY <1>1, <2>0, <3>2
      <4> QED BY <4>1, NextExchange
    <3>4. Silent' /\ (\E n \in Nat : Taken(n))'
      BY <3>1, <3>3 DEF Silent
    <3>5. pc = "reopen" => (MaxRedirects > 0 => Whole(saved)')
      BY <2>0, <3>1, <3>2 DEF Whole
    <3>6. CASE pc' = "done"
      BY <3>4, <3>6, NextExchange
    <3>7. CASE pc' = next
      <4>1. (/\ pc \in Quiescent /\ Silent /\ (\E n \in Nat : Taken(n))
             /\ pc \in {"reopen", "reflush"} => got = <<>> /\ (MaxRedirects > 0 => Whole(saved)))'
        BY <1>1, <2>0, <3>3, <3>4, <3>5, <3>7
      <4> QED BY <4>1, NextExchange
    <3> QED BY <3>1, <3>6, <3>7
  <2>2. CASE ~(~sock \/ reopen)
    <3>1. /\ pc = "open" /\ pc' = "flush" /\ UNCHANGED <<wire, inbox, past>>
      BY <1>1, <2>0, <2>2 DEF OpenConnection
    <3>2. Silent
      BY <3>1 DEF ExchangeInv, Exchange, InStep
    <3>3. got' = <<>> /\ Taken(0)'
      <4>1. got' = <<>>
        BY <2>0, <3>1
      <4> QED BY <4>1, NextExchange
    <3>4. Silent' /\ (\E n \in Nat : Taken(n))'
      BY <3>1, <3>2, <3>3 DEF Silent
    <3> QED BY <3>1, <3>4, NextExchange
  <2> QED BY <2>1, <2>2
<1> QED BY <1>1 DEF Open, Reopen

LEMMA FlushingKeepsExchange ==
  ASSUME TypeInv, ConnectionInv, CallInv, ExchangeInv, Flush \/ Reflush, InStep'
  PROVE  Exchange'
<1>1. ASSUME NEW here \in Flushing, NEW next \in {"probe", "ready", "header"},
             FlushOutput(here, next), here = "reflush" <=> next = "header"
      PROVE  Exchange'
  <2>0. /\ pc = here /\ UNCHANGED <<call, got, unsent, state, received>>
        /\ received = <<>> /\ state = "waiting"
        /\ past' = past
        /\ saved' = IF MaxRedirects > 0 /\ toSend # <<>> THEN toSend ELSE saved
    BY <1>1 DEF FlushOutput, ResetOutput, ConnectionInv, Ready
  <2>1. Exchange
    BY <2>0 DEF ExchangeInv, InStep
  <2>2. Silent
    BY <1>1, <2>0, <2>1 DEF Exchange
  <2>3. got = <<>> /\ Whole(Payload) /\ (MaxRedirects > 0 => saved' = Payload)
    <3>1. CASE here = "flush"
      <4>1. Whole(toSend) /\ got = <<>>
        BY <2>0, <3>1 DEF CallInv, Buffered
      <4>2. toSend # <<>>
        BY <4>1 DEF Whole
      <4>3. Payload = toSend
        BY <4>2 DEF Payload
      <4> QED BY <2>0, <4>1, <4>2, <4>3
    <3>2. CASE here = "reflush"
      <4>1. MaxRedirects > 0
        <5>1. attempts \in 0 .. MaxRedirects /\ MaxRedirects \in Nat /\ attempts > 0
          BY <2>0, <3>2, HTTPAssumption DEF TypeInv, Scalars, CallInv, Redirected
        <5> QED BY <5>1
      <4>2. toSend = <<>> /\ got = <<>> /\ Whole(saved)
        BY <2>0, <2>1, <3>2, <4>1 DEF CallInv, Buffered, Exchange
      <4>3. Payload = saved
        BY <4>1, <4>2 DEF Payload
      <4> QED BY <2>0, <4>1, <4>2, <4>3
    <3> QED BY <1>1, <3>1, <3>2
  <2>4. got' = <<>> /\ Taken(0)'
    <3>1. got' = <<>>
      BY <2>0, <2>3
    <3> QED BY <3>1, NextExchange
  <2>5. CASE pc' = "done"
    <3>1. wire' = <<>> /\ inbox' = <<>>
      BY <1>1, <2>5 DEF FlushOutput
    <3>2. (pc = "done" /\ (reopen = TRUE \/ Silent) /\ \E n \in Nat : Taken(n))'
      BY <2>4, <2>5, <3>1 DEF Silent
    <3> QED BY <3>2, NextExchange
  <2>6. CASE pc' # "done"
    <3>1. pc' = next
      BY <1>1, <2>6 DEF FlushOutput
    <3>2. Awaits(Stream', inbox', Caller(Payload))
      BY <1>1, <2>0, <2>2, <2>6, RequestIsAwaited
    <3>3. Caller(Payload) = call
      BY <2>3 DEF Whole, Caller
    <3>4. Awaiting(call)'
      BY <2>0, <3>2, <3>3 DEF Awaiting
    <3>5. MaxRedirects > 0 => Whole(saved)'
      BY <2>0, <2>3 DEF Whole
    <3>6. Expecting'
      BY <2>4, <3>4, <3>5 DEF Expecting
    <3>7. (Expecting /\ (pc = "header" \/ (pc \in {"probe", "ready"} /\ received = <<>> /\ state = "waiting")))'
      BY <2>0, <3>1, <3>6
    <3> QED BY <3>7, NextExchange
  <2> QED BY <2>5, <2>6
<1> QED BY <1>1 DEF Flush, Reflush

\* The header of the answer has been read.
LEMMA HeaderKeepsExchange ==
  ASSUME TypeInv, TypeInv', ExchangeInv, ProcessHeader \/ HandleRedirect, InStep'
  PROVE  Exchange'
<1>0. Bytes /\ Bytes' /\ call \in 0 .. MaxCalls
  BY DEF TypeInv, Scalars
<1>1. pc = "header" /\ HeaderArrived /\ past \subseteq past' /\ UNCHANGED <<call, got, unsent>>
  BY DEF ProcessHeader, HandleRedirect
<1>2. Expecting
  BY <1>1 DEF ExchangeInv, Exchange, InStep
<1>3. Awaiting(call) /\ got = <<>> /\ (MaxRedirects > 0 => Whole(saved))
  <2>1. ~Headless
    BY <1>1, HeadlessHasNoHeads DEF HeaderArrived
  <2> QED BY <1>2, <2>1 DEF Expecting
<1>4. got' = <<>> /\ Taken(0)'
  <2>1. got' = <<>>
    BY <1>1, <1>3
  <2> QED BY <2>1, NextExchange
<1>5. CASE HandleRedirect
  <2>1. /\ wire' = <<>> /\ inbox' = <<>>
        /\ (pc' = "reopen" /\ saved' = saved) \/ pc' = "done"
    BY <1>5 DEF HandleRedirect
  <2>2. Silent' /\ (\E n \in Nat : Taken(n))'
    BY <1>4, <2>1 DEF Silent
  <2>3. CASE pc' = "done"
    BY <2>2, <2>3, NextExchange
  <2>4. CASE pc' = "reopen" /\ saved' = saved
    <3>1. MaxRedirects > 0 => Whole(saved)'
      BY <1>1, <1>3, <2>4 DEF Whole
    <3> QED BY <1>4, <2>2, <2>4, <3>1, NextExchange
  <2> QED BY <2>1, <2>3, <2>4
<1>6. CASE ProcessHeader
  <2>1. /\ received' = AfterHeader /\ UNCHANGED <<wire, inbox, chunkLeft, nextSize>>
        /\ \/ Header.status = "continue" /\ UNCHANGED <<pc, saved>>
           \/ Header.status = "ok" /\ pc' = "body"
    <3>1. Header.status # "error"
      BY <1>6 DEF ProcessHeader, InStep
    <3> QED BY <1>6, <3>1 DEF ProcessHeader
  <2>2. CASE Header.status = "continue" /\ Awaiting(call)'
    <3>1. pc' = "header" /\ saved' = saved
      BY <1>1, <2>1, <2>2
    <3>2. MaxRedirects > 0 => Whole(saved)'
      BY <1>1, <1>3, <3>1 DEF Whole
    <3>3. Expecting'
      BY <1>4, <2>2, <3>2 DEF Expecting
    <3> QED BY <3>1, <3>3, NextExchange
  <2>3. ASSUME NEW a \in Answers, inbox = <<>>, Dropped(Stream', Stream, 5), Header = a,
               Within(Stream, 0, Wire(call, a), 0)
        PROVE  Exchange'
    <3>s. Stream \in Seq(SymbolSet) /\ Len(Stream) \in Nat /\ Stream' \in Seq(SymbolSet)
      <4>1. Stream \in Seq(SymbolSet)
        BY <1>0, StreamType
      <4>2. (Stream \in Seq(SymbolSet))'
        BY <1>0, StreamType, PTL
      <4> QED BY <4>1, <4>2
    <3>1. CASE Header.status = "continue"
      <4>1. pc' = "header" /\ saved' = saved
        BY <1>1, <2>1, <3>1
      <4>2. Headless'
        <5>1. PICK id \in 0 .. MaxCalls : id = call
          BY <1>0
        <5>2. Within(Stream, 0, Wire(id, a), 0)
          BY <2>3, <5>1
        <5> QED BY <1>0, <2>1, <2>3, <3>s, <5>2, AnswerHasNoHeads
      <4>3. MaxRedirects > 0 => Whole(saved)'
        BY <1>1, <1>3, <4>1 DEF Whole
      <4>4. Expecting'
        BY <1>4, <4>2, <4>3 DEF Expecting
      <4> QED BY <4>1, <4>4, NextExchange
    <3>2. CASE Header.status = "ok" /\ pc' = "body"
      <4> DEFINE w == Wire(call, a)
                 n == BodySize(a)
      <4>1. /\ state' = a.frame /\ contentLength' = IF a.frame = "length" THEN n ELSE contentLength
        BY <1>6, <2>3, <3>2 DEF ProcessHeader
      <4>2. n \in Nat /\ a.frame \in {"length", "none", "chunked"}
        BY AnswerSize DEF Answer
      <4>3. chunkLeft' = 0 /\ nextSize' = 0
        BY <1>1, <2>1 DEF TypeInv, Counts
      <4>4. Follows(Stream', w, 5)
        <5>1. Follows(Stream, w, 0) /\ 0 \in Int /\ 5 \in Nat /\ 0 + 5 = 5
          BY <2>3, <3>s, WithinFollows
        <5> HIDE DEF w
        <5>2. Follows(Stream', w, 0 + 5)
          BY <2>3, <3>s, <5>1, FollowsDropped
        <5> QED BY <5>1, <5>2
      <4>5. /\ w \in Seq(SymbolSet) /\ 5 <= Len(w) /\ Len(w) \in Nat
            /\ a.frame # "chunked" =>
                 /\ Len(w) = 5 + n
                 /\ \A k \in 1 .. n : w[5 + k] = Symbol("data", call, <<k, n>>)
        BY <1>0, WireFacts
      <4>6. Len(Stream') <= Len(w) - 5
        <5> HIDE DEF w
        <5> QED BY <3>s, <4>4, <4>5, FollowsLength
      <4>7. Len(got') = 0 /\ Len(Stream') \in Nat
        BY <1>4, <3>s
      <4> HIDE DEF w, n
      <4>8. CASE a.frame # "chunked"
        <5>1. Len(got') + Len(Stream') <= n
          BY <4>2, <4>5, <4>6, <4>7, <4>8
        <5>2. ASSUME NEW k \in 1 .. Len(Stream')
              PROVE  Stream'[k] = Symbol("data", call', <<Len(got') + k, n>>)
          <6>1. Stream'[k] = w[5 + k]
            BY <4>4 DEF Follows
          <6>2. k \in 1 .. n /\ Len(got') + k = k
            BY <4>2, <4>7, <5>1
          <6> QED BY <1>1, <4>5, <4>8, <6>1, <6>2
        <5>3. state' = "length" => contentLength' + Len(got') = n
          BY <4>1, <4>2, <4>7
        <5>4. Plain(a)'
          BY <3>2, <4>1, <4>2, <4>8, <5>1, <5>2, <5>3 DEF Plain, n
        <5> QED BY <5>4, <1>4, <2>1, <2>3, <3>2, NextExchange DEF Serving, Serves, InGetBytes, Taken
      <4>9. CASE a.frame = "chunked"
        <5>1. Starting(a)'
          BY <1>1, <1>4, <3>2, <4>3, <4>4 DEF Starting, w
        <5>2. Chunked(a)'
          BY <4>1, <4>9, <5>1 DEF Chunked
        <5> QED BY <5>2, <1>4, <2>1, <2>3, <3>2, NextExchange DEF Serving, Serves, InGetBytes, Taken
      <4> QED BY <4>8, <4>9
    <3> QED BY <2>1, <3>1, <3>2
  <2> QED BY <1>0, <1>1, <1>3, <2>1, <2>2, <2>3, AwaitedHeader
<1> QED BY <1>5, <1>6

\* The parser has the last byte of the body exactly when it has them all.
LEMMA AllTaken ==
  ASSUME NEW n \in Nat, Taken(n), Bytes
  PROVE  /\ 0 < n /\ n <= Len(got) => DocumentRead
         /\ DocumentRead => n <= Len(got) /\ got # <<>>
<1>0. got \in Seq(SymbolSet) /\ Len(got) \in Nat
  BY DEF Bytes
<1>1. ASSUME 0 < n, n <= Len(got)
      PROVE  DocumentRead
  <2>1. n \in 1 .. Len(got) /\ n \in DOMAIN got
    BY <1>0, <1>1
  <2>2. got[n] = Symbol("data", call, <<n, n>>)
    BY <2>1 DEF Taken, BodySymbol
  <2> QED BY <2>1, <2>2 DEF DocumentRead, Symbol
<1>2. ASSUME DocumentRead
      PROVE  n <= Len(got) /\ got # <<>>
  <2>1. PICK i \in DOMAIN got : got[i].kind = "data" /\ got[i].of[1] = got[i].of[2]
    BY <1>2 DEF DocumentRead
  <2>2. i \in 1 .. Len(got) /\ got # <<>>
    BY <1>0
  <2>3. CASE i <= n
    <3>1. got[i] = Symbol("data", call, <<i, n>>)
      BY <2>2, <2>3 DEF Taken, BodySymbol
    <3>2. i = n
      BY <2>1, <3>1 DEF Symbol
    <3> QED BY <2>2, <3>2
  <2>4. CASE ~(i <= n)
    BY <1>0, <2>2, <2>4
  <2> QED BY <2>3, <2>4
<1> QED BY <1>1, <1>2

\* Bytes arrive, or some of those on their way are lost.
LEMMA TrimKeepsServes ==
  ASSUME TypeInv, TypeInv', NEW a \in Answers, Serves(a), Prefix(Stream', Stream),
         Len(received') >= Len(received),
         UNCHANGED <<got, call, status, state, contentLength, chunkLeft, nextSize>>,
         pc' = pc \/ (pc = "body" /\ pc' = state /\ state \in {"length", "none"}),
         Rest(a) => wire' = wire /\ received' = received /\ pc' = pc
  PROVE  Serves(a)'
<1>0. /\ Stream \in Seq(SymbolSet) /\ Stream' \in Seq(SymbolSet)
      /\ Len(received) \in Nat /\ Len(received') \in Nat /\ Len(got) \in Nat
      /\ chunkLeft \in Nat /\ a \in Answer /\ call \in 0 .. MaxCalls
  <2>1. Bytes /\ Bytes' /\ chunkLeft \in Nat /\ call \in 0 .. MaxCalls
    BY DEF TypeInv, Scalars
  <2>2. Stream \in Seq(SymbolSet)
    BY <2>1, StreamType
  <2>3. (Stream \in Seq(SymbolSet))'
    <3>1. Bytes => Stream \in Seq(SymbolSet)
      BY StreamType
    <3>2. (Bytes => Stream \in Seq(SymbolSet))'
      BY StreamType, PTL
    <3> QED BY <2>1, <3>2
  <2> QED BY <2>1, <2>2, <2>3, ContinueIsAnswer DEF Bytes
<1>1. Taken(BodySize(a))'
  BY TakenStays DEF Serves
<1>2. CASE Plain(a)
  <2>1. /\ Len(Stream') \in Nat /\ Len(Stream) \in Nat /\ Len(Stream') <= Len(Stream)
        /\ \A i \in 1 .. Len(Stream') : Stream'[i] = Stream[i]
    BY <1>0 DEF Prefix
  <2>2. Len(got') + Len(Stream') <= BodySize(a)
    <3>1. Len(got) + Len(Stream) <= BodySize(a) /\ BodySize(a) \in Nat
      BY <1>2, AnswerSize DEF Plain
    <3> HIDE DEF Prefix
    <3> QED BY <1>0, <2>1, <3>1
  <2>3. ASSUME NEW k \in 1 .. Len(Stream')
        PROVE  Stream'[k] = Symbol("data", call', <<Len(got') + k, BodySize(a)>>)
    <3>1. k \in 1 .. Len(Stream)
      BY <2>1
    <3> QED BY <1>2, <2>1, <3>1 DEF Plain
  <2>4. /\ a.frame = state' /\ state' \in {"length", "none"} /\ pc' \in {"ready", "body", state'}
        /\ state' = "length" => contentLength' + Len(got') = BodySize(a)
    BY <1>2 DEF Plain
  <2>5. Plain(a)'
    BY <2>2, <2>3, <2>4 DEF Plain
  <2> QED BY <1>1, <2>5 DEF Serves
<1>3. CASE Chunked(a)
  <2>0. pc' = pc /\ a.frame = "chunked" /\ state = "chunked"
    BY <1>3 DEF Chunked
  <2>1. CASE Starting(a)
    <3>1. Follows(Stream, Wire(call, a), 5)
      BY <2>1 DEF Starting
    <3>2. Follows(Stream', Wire(call, a), 5)
      <4> DEFINE w == Wire(call, a)
      <4> HIDE DEF w
      <4>1. Follows(Stream, w, 5) /\ 5 \in Int
        BY <3>1 DEF w
      <4>2. Follows(Stream', w, 5)
        BY <1>0, <4>1, FollowsTrimmed
      <4> QED BY <4>2 DEF w
    <3>3. Starting(a)'
      BY <2>0, <2>1, <3>2 DEF Starting
    <3> QED BY <1>1, <2>0, <3>3 DEF Serves, Chunked
  <2>2. ASSUME NEW i \in 1 .. Len(a.chunks), InChunk(a, i)
        PROVE  Serves(a)'
    <3> DEFINE p == Mark(a, i) - 2 - chunkLeft
    <3>1. Follows(Stream, Wire(call, a), p)
      BY <2>2 DEF InChunk
    <3>2. p \in Int
      <4>1. Mark(a, i) \in Nat
        BY <1>0, AnswerChunks, MarkFacts
      <4> QED BY <1>0, <4>1
    <3> HIDE DEF p
    <3>3. Follows(Stream', Wire(call, a), p)
      BY <1>0, <3>1, <3>2, FollowsTrimmed
    <3>4. Follows(Stream', Wire(call', a), Mark(a, i) - 2 - chunkLeft')
      BY <3>3 DEF p
    <3>5. a.chunks[i] \in Nat
      BY <1>0, AnswerChunks
    <3>6. InChunk(a, i)'
      BY <1>0, <2>0, <2>2, <3>4, <3>5 DEF InChunk
    <3> QED BY <1>1, <2>0, <3>6 DEF Serves, Chunked
  <2> QED BY <1>3, <2>1, <2>2 DEF Chunked
<1>4. CASE Rest(a)
  <2>1. Rest(a)'
    BY <1>4 DEF Rest, BodySymbol
  <2> QED BY <1>1, <2>1 DEF Serves
<1> QED BY <1>2, <1>3, <1>4 DEF Serves

LEMMA SameIsPrefix ==
  ASSUME NEW s \in Seq(SymbolSet), NEW t, t = s
  PROVE  Prefix(t, s)
BY DEF Prefix

LEMMA ReadingKeepsExchange ==
  ASSUME TypeInv, TypeInv', CallInv, ExchangeInv, ReadStep, InStep'
  PROVE  Exchange'
<1>0. Bytes /\ call \in 0 .. MaxCalls /\ Stream \in Seq(SymbolSet)
  <2>1. Bytes /\ call \in 0 .. MaxCalls
    BY DEF TypeInv, Scalars
  <2> QED BY <2>1, StreamType
<1>1. PICK next \in InGetBytes : ReadFor(next) /\ Reading(next) /\ UNCHANGED ReadFrame
  BY DEF ReadStep
<1>2. /\ pc \in InGetBytes
      /\ UNCHANGED <<state, contentLength, chunkLeft, nextSize, saved, call, got, unsent>>
      /\ (pc' = next /\ status' = status) \/ (pc' = "done" /\ status' = "failed")
      /\ past \subseteq past'
  <2>1. pc \in InGetBytes
    BY <1>1 DEF ReadFor, InGetBytes
  <2>2. UNCHANGED <<state, contentLength, chunkLeft, nextSize, saved, call, got, unsent>>
    BY <1>1
  <2>3. CASE Arrives(next)
    <3>1. pc' = next /\ status' = status /\ past' = past
      BY <2>3 DEF Arrives
    <3> QED BY <2>1, <2>2, <3>1
  <2>4. CASE ~Arrives(next)
    <3>1. \/ pc' = next /\ status' = status /\ past' = past
          \/ pc' = "done" /\ status' = "failed" /\ past' \in {past, past \cup {"timeout"}}
      BY <1>1, <2>4 DEF Reading
    <3> QED BY <2>1, <2>2, <3>1
  <2> QED BY <2>3, <2>4
<1>3. Exchange
  BY <1>2 DEF ExchangeInv, InStep
<1>4. (\E n \in Nat : Taken(n))'
  <2>1. \E n \in Nat : Taken(n)'
    BY <1>2, <1>3, TakenStays DEF Exchange
  <2> QED BY <2>1
<1>5. CASE pc' = "done"
  <2>1. reopen' = TRUE \/ Silent'
    <3>1. /\ \/ reopen' = TRUE \/ CloseChannel \/ (~sock /\ UNCHANGED <<sock, peerVars>>)
             \/ "timeout" \in past'
      BY <1>1, <1>5 DEF Reading, Arrives, InGetBytes
    <3>2. "timeout" \notin past'
      BY DEF InStep
    <3> QED BY <3>1, <3>2 DEF CallInv, Linked, Silent
  <2> QED BY <1>4, <1>5, <2>1, NextExchange
<1>6. CASE pc' = next /\ status' = status
  <2>1. CASE pc = "header"
    <3>0. pc' = "header"
      BY <1>1, <1>6, <2>1 DEF ReadFor
    <3>1. Expecting
      BY <1>3, <2>1 DEF Exchange
    <3>2. Awaiting(call) => Awaiting(call)'
      <4>1. PICK id \in 0 .. MaxCalls : id = call
        BY <1>0
      <4>2. Awaiting(id) => Awaiting(id)'
        BY <1>1, ReadingKeepsAwaiting
      <4>3. call' = id
        BY <1>2, <4>1
      <4> QED BY <4>1, <4>2, <4>3
    <3>3. Headless => Headless'
      BY <1>1, ReadingKeepsHeadless
    <3>4. MaxRedirects > 0 => Whole(saved)'
      BY <1>2, <3>1 DEF Expecting, Whole
    <3>5. Expecting'
      BY <1>2, <3>1, <3>2, <3>3, <3>4 DEF Expecting
    <3> QED BY <3>0, <3>5, NextExchange
  <2>2. CASE pc # "header"
    <3>1. Serving
      BY <1>2, <1>3, <2>2 DEF Exchange
    <3>2. PICK a \in Answers : Serves(a)
      BY <3>1 DEF Serving
    <3>3. Prefix(Stream', Stream) /\ inbox' = <<>> /\ Len(received') >= Len(received)
      <4>1. /\ \/ Stream' = Stream /\ inbox' = inbox
               \/ Prefix(Stream', Stream) /\ inbox' = <<>>
            /\ Len(received') >= Len(received)
        BY <1>1, ReadingTrims
      <4>2. Stream' = Stream => Prefix(Stream', Stream)
        BY <1>0, SameIsPrefix
      <4> QED BY <3>1, <4>1, <4>2 DEF Serving
    <3>4. ~Rest(a)
      BY <1>1, <2>2 DEF ReadFor, Rest
    <3>5. pc' = pc \/ (pc = "body" /\ pc' = state /\ state \in {"length", "none"})
      BY <1>1, <1>6 DEF ReadFor
    <3>6. Serves(a)'
      BY <1>2, <1>6, <3>2, <3>3, <3>4, <3>5, TrimKeepsServes
    <3>7. Serving' /\ pc' # "header" /\ pc' \in InGetBytes
      <4>1. pc' # "header"
        BY <2>2, <3>5
      <4> QED BY <1>6, <3>3, <3>6, <4>1 DEF Serving
    <3> QED BY <3>7, NextExchange
  <2> QED BY <2>1, <2>2
<1> QED BY <1>2, <1>5, <1>6

LEMMA GetBytesKeepsExchange ==
  ASSUME TypeInv, ExchangeInv, IsThereResponseData \/ Parse, InStep'
  PROVE  Exchange'
<1>0. Bytes /\ Counts /\ received \in Seq(SymbolSet) /\ bytesLeft = Len(received) /\ Len(received) \in Nat
  BY DEF TypeInv, Bytes
<1>1. PICK n : GetBytes(n)
  BY DEF IsThereResponseData, Parse
<1>2. /\ UNCHANGED <<saved, call, got, status, wire, inbox, unsent, past>>
      /\ \/ /\ state = "waiting" /\ bytesLeft = 0 /\ received' = <<>> /\ pc' = "header"
         \/ /\ ~(state = "waiting" /\ bytesLeft = 0) /\ pc' = "body" /\ UNCHANGED inputVars
  BY <1>1 DEF GetBytes
<1>3. Exchange
  BY <1>2 DEF ExchangeInv, InStep
<1>4. CASE Expecting /\ received = <<>> /\ state = "waiting"
  <2>1. bytesLeft = 0
    BY <1>0, <1>4
  <2>2. received' = <<>> /\ pc' = "header"
    BY <1>2, <1>4, <2>1
  <2>3. received' = received
    BY <1>4, <2>2
  <2>4. Awaiting(call) => Awaiting(call)'
    BY <1>2, <2>3 DEF Awaiting, Stream
  <2>5. Headless => Headless'
    BY <1>2, <2>3 DEF Headless
  <2>6. Expecting'
    BY <1>2, <1>4, <2>4, <2>5 DEF Expecting, Whole
  <2> QED BY <2>2, <2>6, NextExchange
<1>5. CASE ~(Expecting /\ received = <<>> /\ state = "waiting")
  <2>1. Parse /\ pc = "ready" /\ ~DocumentRead
    <3>1. pc # "probe"
      BY <1>0, <1>3, <1>5 DEF Exchange, Counts
    <3> QED BY <3>1 DEF IsThereResponseData, Parse
  <2>2. Serving
    BY <1>3, <1>5, <2>1 DEF Exchange
  <2>3. PICK a \in Answers : Serves(a)
    BY <2>2 DEF Serving
  <2>4. ~(state = "waiting" /\ bytesLeft = 0)
    <3> SUFFICES ASSUME state = "waiting", bytesLeft = 0 PROVE FALSE
      OBVIOUS
    <3>1. Rest(a) /\ Taken(BodySize(a)) /\ BodySize(a) \in Nat
      BY <2>3, AnswerSize DEF Serves, Plain, Chunked
    <3>2. BodySize(a) # 0 /\ BodySize(a) <= Len(got) + 0 /\ Len(got) \in Nat
      BY <1>0, <2>1, <3>1 DEF Rest, Bytes
    <3>3. 0 < BodySize(a) /\ BodySize(a) <= Len(got)
      BY <3>1, <3>2
    <3> QED BY <1>0, <2>1, <3>1, <3>3, AllTaken
  <2>5. pc' = "body" /\ UNCHANGED inputVars
    BY <1>2, <2>4
  <2>6. Serves(a)'
    <3>1. Taken(BodySize(a))'
      BY <1>2, <2>3, TakenStays DEF Serves
    <3>2. Stream' = Stream
      BY <1>2, <2>5 DEF Stream
    <3>3. Plain(a) => Plain(a)'
      BY <1>2, <2>1, <2>5, <3>2 DEF Plain
    <3>4. Chunked(a) => Chunked(a)'
      BY <1>2, <2>1, <2>5, <3>2 DEF Chunked, Starting, InChunk
    <3>5. Rest(a) => Rest(a)'
      BY <1>2, <2>1, <2>5 DEF Rest, BodySymbol
    <3> QED BY <2>3, <3>1, <3>3, <3>4, <3>5 DEF Serves
  <2>7. Serving'
    BY <1>2, <2>2, <2>6 DEF Serving
  <2> QED BY <2>5, <2>7, NextExchange DEF InGetBytes
<1> QED BY <1>4, <1>5

LEMMA EndKeepsExchange ==
  ASSUME TypeInv, ExchangeInv, EndCall, InStep'
  PROVE  Exchange'
<1>0. Bytes
  BY DEF TypeInv
<1>1. /\ pc \in {"done", "ready"} /\ pc' = "idle" /\ UNCHANGED <<call, got, status>>
      /\ past' = past /\ ~Unread
      /\ (reopen /\ wire' = <<>> /\ inbox' = <<>>) \/ (~reopen /\ UNCHANGED <<wire, inbox>>)
  BY DEF EndCall, InStep
<1>2. Exchange
  BY <1>1 DEF ExchangeInv, InStep
<1>3. (\E n \in Nat : Taken(n))'
  <2>1. \E n \in Nat : Taken(n)'
    BY <1>1, <1>2, TakenStays DEF Exchange
  <2> QED BY <2>1
<1>4. ~reopen => Silent
  <2>1. CASE pc = "done"
    BY <1>2, <2>1 DEF Exchange
  <2>2. CASE pc = "ready" /\ DocumentRead
    <3>1. got # <<>>
      BY <2>2, <1>0 DEF DocumentRead, Bytes
    <3>2. Serving
      BY <1>2, <2>2, <3>1 DEF Exchange, Expecting
    <3>3. PICK a \in Answers : Serves(a)
      BY <3>2 DEF Serving
    <3> DEFINE n == BodySize(a)
    <3>4. n \in Nat /\ n <= Len(got) /\ a \in Answer
      BY <1>0, <2>2, <3>3, AnswerSize, AllTaken DEF Serves
    <3>5. wire = <<>>
      <4>0. /\ wire \in Seq(SymbolSet) /\ Len(got) \in Nat /\ Len(received) \in Nat /\ Len(wire) \in Nat
            /\ Len(Stream) = Len(received) + Len(wire) /\ chunkLeft \in Nat
        BY <1>0, StreamFacts DEF Bytes, TypeInv, Scalars
      <4>1. CASE Plain(a)
        <5>1. Len(got) + Len(Stream) <= n
          BY <4>1 DEF Plain
        <5> HIDE DEF n
        <5>2. Len(wire) = 0
          BY <3>4, <4>0, <5>1
        <5> QED BY <4>0, <5>2, EmptySeq
      <4>2. CASE Chunked(a)
        <5>1. PICK i \in 1 .. Len(a.chunks) : InChunk(a, i)
          BY <3>1, <4>2 DEF Chunked, Starting
        <5>2. i < Len(a.chunks) /\ Len(got) + chunkLeft = Sums(a)[i]
          BY <2>2, <5>1 DEF InChunk
        <5>3. Len(a.chunks) \in Nat
          BY <3>4, AnswerChunks
        <5>4. i \in 0 .. Len(a.chunks) /\ Len(a.chunks) \in 0 .. Len(a.chunks)
          BY <5>3
        <5>5. Sums(a)[i] < n /\ Sums(a)[i] \in Nat
          BY <3>4, <5>2, <5>4, SumsGrow, SumsFacts DEF BodySize
        <5> HIDE DEF n
        <5> QED BY <3>4, <4>0, <5>2, <5>5
      <4>3. CASE Rest(a)
        BY <4>3 DEF Rest
      <4> QED BY <3>3, <4>1, <4>2, <4>3 DEF Serves
    <3> QED BY <3>2, <3>5 DEF Serving, Silent
  \* The parser has not got all of the body, but the buffer holds the rest.
  <2>3. CASE pc = "ready" /\ ~DocumentRead
    <3>1. state = "waiting" /\ received # <<>>
      BY <1>0, <1>1, <2>3 DEF Unread, Bytes
    <3>2. Serving
      BY <1>2, <2>3, <3>1 DEF Exchange
    <3>3. PICK a \in Answers : Serves(a)
      BY <3>2 DEF Serving
    <3>4. Rest(a)
      BY <3>1, <3>3 DEF Serves, Plain, Chunked
    <3> QED BY <3>2, <3>4 DEF Rest, Serving, Silent
  <2> QED BY <1>1, <2>1, <2>2, <2>3
<1>5. Silent'
  BY <1>1, <1>4 DEF Silent
<1> QED BY <1>1, <1>3, <1>5, NextExchange

LEMMA PeerKeepsExchange ==
  ASSUME TypeInv, TypeInv', ExchangeInv, Peer, InStep'
  PROVE  Exchange'
<1>0. Bytes /\ Bytes' /\ call \in 0 .. MaxCalls /\ Stream \in Seq(SymbolSet)
  <2>1. Bytes /\ Bytes' /\ call \in 0 .. MaxCalls
    BY DEF TypeInv, Scalars
  <2> QED BY <2>1, StreamType
<1>1. UNCHANGED clientVars
  BY DEF Peer, PeerContinues, PeerCloses, PeerResets, PeerAnswers
<1>2. Exchange
  BY <1>1 DEF ExchangeInv, InStep
<1>3. Silent => Silent'
  BY PeerKeepsSilence
<1>4. (\E n \in Nat : Taken(n))'
  <2>1. \E n \in Nat : Taken(n)'
    BY <1>1, <1>2, TakenStays DEF Exchange
  <2> QED BY <2>1
<1>5. Expecting => Expecting'
  <2>1. Awaiting(call) => Awaiting(call)'
    <3>1. PICK id \in 0 .. MaxCalls : id = call
      BY <1>0
    <3>2. Awaiting(id) => Awaiting(id)'
      BY PeerKeepsAwaiting
    <3>3. call' = id
      BY <1>1, <3>1
    <3> QED BY <3>1, <3>2, <3>3
  <2>2. Headless => Headless'
    BY PeerKeepsHeadless
  <2> QED BY <1>1, <2>1, <2>2 DEF Expecting, Whole
<1>6. Serving => Serving'
  <2> SUFFICES ASSUME Serving PROVE Serving'
    OBVIOUS
  <2>1. PICK a \in Answers : Serves(a)
    BY DEF Serving
  <2>2. /\ inbox' = <<>>
        /\ wire' = <<>> \/ \E n \in 0 .. Len(wire) : wire' = SubSeq(wire, 1, n)
    BY DEF Serving, Peer, PeerContinues, PeerCloses, PeerResets, PeerAnswers
  <2>3. received' = received /\ Len(received) \in Nat
    BY <1>0, <1>1 DEF Bytes
  <2>4. Prefix(Stream', Stream)
    BY <1>0, <2>2, <2>3, PrefixCases, TrimmedStream
  <2>5. Rest(a) => wire' = wire
    BY <1>3 DEF Rest, Serving, Silent
  <2>6. Len(received') >= Len(received)
    BY <2>3
  <2>7. Serves(a)'
    BY <1>1, <2>1, <2>3, <2>4, <2>5, <2>6, TrimKeepsServes
  <2> QED BY <2>2, <2>7 DEF Serving
<1>7. pc' = pc /\ reopen' = reopen /\ got' = got /\ received' = received /\ state' = state
      /\ (Whole(saved)' <=> Whole(saved))
  BY <1>1 DEF Whole
<1> QED BY <1>2, <1>3, <1>4, <1>5, <1>6, <1>7 DEF Exchange

-----------------------------------------------------------------------------
(***************************************************************************)
(* What getBytes hands out: the first m bytes of the buffer.               *)
(***************************************************************************)
Handed(m) ==
  /\ m \in Nat /\ m <= Len(received) /\ Len(received') = Len(received) - m
  /\ Len(got') = Len(got) + m
  /\ \A i \in 1 .. Len(received) - m : received'[i] = received[m + i]
  /\ Dropped(Stream', Stream, m)
  /\ UNCHANGED <<wire, inbox, call>>

LEMMA GiveTakes ==
  ASSUME TypeInv, NEW k \in 0 .. Len(received), NEW s, Give(k, s), NEW n \in Nat, Taken(n),
         \A j \in 1 .. k : BodySymbol(received[j], Len(got) + j, n),
         k > 0 => n > 0,
         s = "waiting" => n <= Len(got) + Len(received)
  PROVE  \E m \in 0 .. k :
           /\ m = IF size <= k THEN size ELSE k
           /\ Handed(m) /\ Taken(n)' /\ state' = s
           /\ pc' = IF (size = 0 /\ (s # "waiting" \/ bytesLeft - m # 0)) \/ m > 0
                    THEN "ready" ELSE "done"
<1>0. Bytes /\ size \in Nat /\ Len(received) \in Nat /\ Len(got) \in Nat /\ bytesLeft = Len(received)
      /\ got \in Seq(SymbolSet) /\ received \in Seq(SymbolSet) /\ k \in Nat /\ k <= Len(received)
  BY DEF TypeInv, Scalars, Bytes
<1>1. PICK m \in 0 .. k :
        /\ m = IF size <= k THEN size ELSE k
        /\ Bytes' /\ received' = Drop(received, m) /\ wire' = wire
        /\ Len(got') = Len(got) + m
        /\ \A i \in 1 .. Len(got) : got'[i] = got[i]
        /\ \A i \in 1 .. m : got'[Len(got) + i] = received[i]
        /\ bytesLeft' = bytesLeft - m
        /\ state' = s
        /\ status' = IF s # "waiting" \/ bytesLeft - m # 0 THEN "progress" ELSE "finished"
        /\ pc' = IF (size = 0 /\ (s # "waiting" \/ bytesLeft - m # 0)) \/ m > 0
                 THEN "ready" ELSE "done"
  BY <1>0, GiveFacts
<1>2. UNCHANGED <<inbox, call>>
  BY DEF Give
<1>3. m \in Nat /\ m <= k /\ m \in 0 .. Len(received)
  BY <1>0, <1>1
<1>4. /\ Len(received') = Len(received) - m
      /\ \A i \in 1 .. Len(received) - m : received'[i] = received[m + i]
      /\ Len(Stream') = Len(Stream) - m
      /\ \A i \in 1 .. Len(Stream) - m : Stream'[i] = Stream[m + i]
  BY <1>0, <1>1, <1>3, DroppedFacts
<1>5. m <= Len(Stream)
  <2>1. Len(Stream) = Len(received) + Len(wire) /\ Len(wire) \in Nat
    BY <1>0, StreamFacts DEF Bytes
  <2> QED BY <1>0, <1>3, <2>1
<1>6. Handed(m)
  BY <1>0, <1>1, <1>2, <1>3, <1>4, <1>5 DEF Handed, Dropped
<1>7. ASSUME NEW i \in 1 .. Len(got')
      PROVE  BodySymbol(got[i], i, n)'
  <2>1. CASE i <= Len(got)
    <3>1. i \in 1 .. Len(got)
      BY <1>0, <2>1
    <3>2. got'[i] = got[i] /\ BodySymbol(got[i], i, n)
      BY <1>1, <3>1 DEF Taken
    <3> QED BY <1>2, <3>2 DEF BodySymbol
  <2>2. CASE ~(i <= Len(got))
    <3> DEFINE j == i - Len(got)
    <3>1. j \in 1 .. m /\ j \in 1 .. k /\ Len(got) + j = i
      BY <1>0, <1>1, <1>3, <2>2
    <3> HIDE DEF j
    <3>2. got'[Len(got) + j] = received[j] /\ BodySymbol(received[j], Len(got) + j, n)
      BY <1>1, <3>1
    <3> QED BY <1>2, <3>1, <3>2 DEF BodySymbol
  <2> QED BY <2>1, <2>2
<1>8. got' # <<>> => n > 0
  <2>1. got' # <<>> => Len(got') # 0
    <3>1. got' \in Seq(SymbolSet)
      BY <1>1 DEF Bytes
    <3> QED BY <3>1, EmptySeq
  <2>2. got # <<>> => n > 0
    BY DEF Taken
  <2>3. got = <<>> => Len(got) = 0
    OBVIOUS
  <2> QED BY <1>0, <1>1, <1>3, <2>1, <2>2, <2>3
<1>9. status' = "finished" => n <= Len(got')
  <2>1. status' = "finished" => s = "waiting" /\ bytesLeft - m = 0
    BY <1>1
  <2> QED BY <1>0, <1>1, <1>3, <2>1
<1>10. Taken(n)'
  BY <1>7, <1>8, <1>9 DEF Taken
<1> QED BY <1>1, <1>6, <1>10

\* What has to be shown of the bytes that have not been handed out.
LEMMA ServesStill ==
  ASSUME NEW a \in Answers, a.status = "ok", inbox = <<>>, inbox' = <<>>, wire' = wire, Taken(BodySize(a))',
         \/ pc' = "ready" /\ (Plain(a)' \/ Chunked(a)' \/ Rest(a)')
         \/ pc' = "done" /\ wire = <<>>
  PROVE  Exchange'
<1>1. CASE pc' = "ready" /\ (Plain(a)' \/ Chunked(a)' \/ Rest(a)')
  <2>1. Serving'
    BY <1>1 DEF Serving, Serves
  <2> QED BY <1>1, <2>1, NextExchange
<1>2. CASE pc' = "done" /\ wire = <<>>
  <2>1. BodySize(a) \in Nat
    BY AnswerSize
  <2>2. (\E n \in Nat : Taken(n))' /\ Silent'
    BY <1>2, <2>1 DEF Silent
  <2> QED BY <1>2, <2>2, NextExchange
<1> QED BY <1>1, <1>2

LEMMA HandedRest ==
  ASSUME TypeInv, NEW a \in Answers, Rest(a), NEW m, Handed(m), state' = "waiting", pc' = "ready",
         m > 0 \/ bytesLeft - m # 0
  PROVE  Rest(a)'
<1>0. /\ Len(received) \in Nat /\ Len(got) \in Nat /\ bytesLeft = Len(received) /\ BodySize(a) \in Nat
      /\ received = <<>> => Len(received) = 0
  BY AnswerSize DEF TypeInv, Bytes
<1>1. BodySize(a) # 0
  BY <1>0 DEF Rest, Handed
<1>2. ASSUME NEW j \in 1 .. Len(received')
      PROVE  BodySymbol(received[j], Len(got) + j, BodySize(a))'
  <2>1. j \in 1 .. Len(received) - m /\ m + j \in 1 .. Len(received)
        /\ Len(got) + (m + j) = Len(got') + j
    BY <1>0 DEF Handed
  <2>2. received'[j] = received[m + j] /\ call' = call
    BY <2>1 DEF Handed
  <2>3. BodySymbol(received[m + j], Len(got) + (m + j), BodySize(a))
    BY <2>1 DEF Rest
  <2> QED BY <2>1, <2>2, <2>3 DEF BodySymbol
<1>3. BodySize(a) <= Len(got') + Len(received')
  <2>1. BodySize(a) <= Len(got) + Len(received)
    BY DEF Rest
  <2> QED BY <1>0, <2>1 DEF Handed
<1>4. wire' = <<>>
  BY DEF Rest, Handed
<1> QED BY <1>1, <1>2, <1>3, <1>4 DEF Rest

LEMMA GiveRestKeepsExchange ==
  ASSUME TypeInv, ExchangeInv, GiveRest, InStep'
  PROVE  Exchange'
<1>0. /\ received \in Seq(SymbolSet) /\ bytesLeft = Len(received) /\ Len(received) \in Nat
      /\ Len(got) \in Nat
  BY DEF TypeInv, Bytes
<1>1. pc = "body" /\ state = "waiting" /\ Give(bytesLeft, "waiting") /\ past' = past
  BY DEF GiveRest
<1>2. PICK a \in Answers : Serves(a) /\ inbox = <<>>
  BY <1>1 DEF ExchangeInv, InStep, Exchange, InGetBytes, Serving
<1>3. Rest(a) /\ Taken(BodySize(a)) /\ a.status = "ok" /\ BodySize(a) \in Nat
  BY <1>1, <1>2, AnswerSize DEF Serves, Plain, Chunked
<1>4. /\ \A j \in 1 .. Len(received) : BodySymbol(received[j], Len(got) + j, BodySize(a))
      /\ Len(received) > 0 => BodySize(a) > 0
      /\ BodySize(a) <= Len(got) + Len(received)
  <2>1. received = <<>> => Len(received) = 0
    OBVIOUS
  <2> QED BY <1>0, <1>3, <2>1 DEF Rest
<1>5. PICK m \in 0 .. Len(received) :
        /\ Handed(m) /\ Taken(BodySize(a))' /\ state' = "waiting"
        /\ pc' = IF (size = 0 /\ bytesLeft - m # 0) \/ m > 0 THEN "ready" ELSE "done"
  <2> DEFINE k == Len(received)
  <2>1. k \in 0 .. Len(received) /\ Give(k, "waiting") /\ (k > 0 => BodySize(a) > 0)
    BY <1>0, <1>1, <1>4
  <2>2. \A j \in 1 .. k : BodySymbol(received[j], Len(got) + j, BodySize(a))
    BY <1>4
  <2> HIDE DEF k
  <2>3. \E m \in 0 .. k :
           /\ m = IF size <= k THEN size ELSE k
           /\ Handed(m) /\ Taken(BodySize(a))' /\ state' = "waiting"
           /\ pc' = IF (size = 0 /\ ("waiting" # "waiting" \/ bytesLeft - m # 0)) \/ m > 0
                    THEN "ready" ELSE "done"
    BY <1>3, <1>4, <2>1, <2>2, GiveTakes
  <2> QED BY <2>3 DEF k
<1>6. wire = <<>> /\ wire' = wire /\ inbox' = inbox
  BY <1>3, <1>5 DEF Rest, Handed
<1>7. CASE pc' = "ready"
  <2>1. m > 0 \/ bytesLeft - m # 0
    BY <1>5, <1>7
  <2>2. Rest(a)'
    BY <1>3, <1>5, <1>7, <2>1, HandedRest
  <2> QED BY <1>2, <1>3, <1>5, <1>6, <1>7, <2>2, ServesStill
<1>8. CASE pc' # "ready"
  BY <1>2, <1>3, <1>5, <1>6, <1>8, ServesStill
<1> QED BY <1>7, <1>8

LEMMA HandedPlain ==
  ASSUME TypeInv, NEW a \in Answers, Plain(a), NEW m, Handed(m), state' = state, pc' = "ready",
         state = "length" => contentLength' + Len(got') = BodySize(a)
  PROVE  Plain(a)'
<1>0. /\ Stream \in Seq(SymbolSet) /\ Len(Stream) \in Nat /\ Len(got) \in Nat /\ BodySize(a) \in Nat
      /\ m \in Nat /\ Len(got') = Len(got) + m /\ call' = call
      /\ m <= Len(Stream) /\ Len(Stream') = Len(Stream) - m
      /\ \A i \in 1 .. Len(Stream) - m : Stream'[i] = Stream[m + i]
  BY StreamType, AnswerSize DEF TypeInv, Bytes, Handed, Dropped
<1>1. Len(got') + Len(Stream') <= BodySize(a)
  <2>1. Len(got) + Len(Stream) <= BodySize(a)
    BY DEF Plain
  <2> QED BY <1>0, <2>1
<1>2. ASSUME NEW j \in 1 .. Len(Stream')
      PROVE  Stream'[j] = Symbol("data", call', <<Len(got') + j, BodySize(a)>>)
  <2>1. j \in 1 .. Len(Stream) - m /\ m + j \in 1 .. Len(Stream)
        /\ Len(got) + (m + j) = Len(got') + j
    BY <1>0
  <2>2. Stream'[j] = Stream[m + j]
    BY <1>0, <2>1
  <2>3. Stream[m + j] = Symbol("data", call, <<Len(got) + (m + j), BodySize(a)>>)
    BY <2>1 DEF Plain
  <2> QED BY <1>0, <2>1, <2>2, <2>3
<1>3. a.frame = state' /\ state' \in {"length", "none"}
  BY DEF Plain
<1> QED BY <1>1, <1>2, <1>3 DEF Plain

\* The buffer of a body that is not chunked holds the next bytes of it.
LEMMA PlainBuffer ==
  ASSUME TypeInv, NEW a \in Answers, Plain(a)
  PROVE  /\ \A j \in 1 .. Len(received) : /\ received[j] = Symbol("data", call, <<Len(got) + j, BodySize(a)>>)
                                          /\ BodySymbol(received[j], Len(got) + j, BodySize(a))
         /\ Len(received) > 0 => BodySize(a) > 0
         /\ Len(got) + Len(received) + Len(wire) <= BodySize(a)
         /\ {Len(got), Len(received), Len(wire), BodySize(a)} \subseteq Nat
<1>0. /\ Len(Stream) = Len(received) + Len(wire) /\ Len(received) \in Nat /\ Len(wire) \in Nat
      /\ Len(got) \in Nat /\ BodySize(a) \in Nat
      /\ \A i \in 1 .. Len(received) : Stream[i] = received[i]
  BY StreamFacts, AnswerSize DEF TypeInv, Bytes
<1>1. Len(got) + Len(Stream) <= BodySize(a)
  BY DEF Plain
<1>2. ASSUME NEW j \in 1 .. Len(received)
      PROVE  /\ received[j] = Symbol("data", call, <<Len(got) + j, BodySize(a)>>)
             /\ BodySymbol(received[j], Len(got) + j, BodySize(a))
  <2>1. j \in 1 .. Len(Stream) /\ Len(got) + j <= BodySize(a)
    BY <1>0, <1>1
  <2>2. received[j] = Symbol("data", call, <<Len(got) + j, BodySize(a)>>)
    BY <1>0, <2>1 DEF Plain
  <2> QED BY <2>1, <2>2 DEF BodySymbol
<1>3. Len(got) + Len(received) + Len(wire) <= BodySize(a)
  BY <1>0, <1>1
<1>4. Len(received) > 0 => BodySize(a) > 0
  BY <1>0, <1>3
<1> QED BY <1>0, <1>2, <1>3, <1>4

LEMMA GivePlainTakes ==
  ASSUME TypeInv, NEW a \in Answers, Plain(a), Taken(BodySize(a)), NEW s, Give(bytesLeft, s),
         s = "waiting" => BodySize(a) <= Len(got) + Len(received)
  PROVE  \E m \in 0 .. Len(received) :
           /\ m = IF size <= Len(received) THEN size ELSE Len(received)
           /\ Handed(m) /\ Taken(BodySize(a))' /\ state' = s
           /\ pc' = IF (size = 0 /\ (s # "waiting" \/ Len(received) - m # 0)) \/ m > 0
                    THEN "ready" ELSE "done"
<1>0. bytesLeft = Len(received) /\ Len(received) \in Nat /\ BodySize(a) \in Nat
  BY AnswerSize DEF TypeInv, Bytes
<1> DEFINE k == Len(received)
<1>1. k \in 0 .. Len(received) /\ Give(k, s) /\ (k > 0 => BodySize(a) > 0)
  BY <1>0, PlainBuffer
<1>2. \A j \in 1 .. k : BodySymbol(received[j], Len(got) + j, BodySize(a))
  BY PlainBuffer
<1> HIDE DEF k
<1>3. \E m \in 0 .. k :
        /\ m = IF size <= k THEN size ELSE k
        /\ Handed(m) /\ Taken(BodySize(a))' /\ state' = s
        /\ pc' = IF (size = 0 /\ (s # "waiting" \/ bytesLeft - m # 0)) \/ m > 0
                 THEN "ready" ELSE "done"
  BY <1>0, <1>1, <1>2, GiveTakes
<1> QED BY <1>0, <1>3 DEF k

LEMMA GiveLengthKeepsExchange ==
  ASSUME TypeInv, ExchangeInv, GiveLength, InStep'
  PROVE  Exchange'
<1> DEFINE left == IF contentLength >= bytesLeft THEN contentLength - bytesLeft ELSE 0
           s == IF left = 0 THEN "waiting" ELSE state
<1>1. /\ \/ pc = "body" /\ state = "length" /\ ~(contentLength > 0 /\ bytesLeft = 0)
         \/ pc = "length"
      /\ Give(bytesLeft, s) /\ contentLength' = left
      /\ past' = IF left > 0 /\ bytesLeft' > 0 THEN past \cup {"recount"} ELSE past
  BY DEF GiveLength
<1>s. (left = 0 => s = "waiting") /\ (left # 0 => s = state)
  OBVIOUS
<1>l. left = IF contentLength >= bytesLeft THEN contentLength - bytesLeft ELSE 0
  OBVIOUS
<1> HIDE DEF left, s
<1>2. past \subseteq past'
  BY <1>1
<1>3. PICK a \in Answers : Serves(a) /\ inbox = <<>>
  BY <1>1, <1>2 DEF ExchangeInv, InStep, Exchange, InGetBytes, Serving
<1>4. state = "length"
  BY <1>1 DEF TypeInv, Counts
<1>5. Plain(a) /\ Taken(BodySize(a)) /\ a.status = "ok"
  BY <1>1, <1>3, <1>4 DEF Serves, Chunked, Rest
<1> DEFINE N == BodySize(a)
           r == Len(received)
<1>6. /\ contentLength + Len(got) = N /\ Len(got) + r + Len(wire) <= N
      /\ {Len(got), r, Len(wire), N, contentLength} \subseteq Nat /\ bytesLeft = r
  BY <1>4, <1>5, PlainBuffer DEF Plain, TypeInv, Bytes, Scalars
<1>7. left = contentLength - r
  <2> HIDE DEF N, r
  <2>1. contentLength >= r
    BY <1>6
  <2> QED BY <1>6, <1>l, <2>1
<1>8. s = "waiting" => N <= Len(got) + r
  <2>1. s = "waiting" => left = 0
    BY <1>4, <1>s
  <2> HIDE DEF N, r
  <2> QED BY <1>6, <1>7, <2>1
<1>9. PICK m \in 0 .. r :
        /\ m = IF size <= r THEN size ELSE r
        /\ Handed(m) /\ Taken(N)' /\ state' = s
        /\ pc' = IF (size = 0 /\ (s # "waiting" \/ r - m # 0)) \/ m > 0 THEN "ready" ELSE "done"
  BY <1>1, <1>5, <1>8, GivePlainTakes
<1>10. m \in Nat /\ Len(got') = Len(got) + m /\ wire' = wire /\ inbox' = <<>>
  BY <1>3, <1>9 DEF Handed
<1>11. CASE left = 0
  <2>1. s = "waiting" /\ Len(wire) = 0
    <3> HIDE DEF N, r
    <3> QED BY <1>6, <1>7, <1>11, <1>s
  <2>2. wire = <<>>
    <3>1. wire \in Seq(SymbolSet)
      BY DEF TypeInv, Bytes
    <3> QED BY <2>1, <3>1, EmptySeq
  <2>3. CASE pc' = "ready"
    <3>1. N # 0
      <4>1. m > 0 \/ r - m # 0
        BY <1>9, <2>1, <2>3
      <4>2. m \in 0 .. r
        BY <1>9
      <4> HIDE DEF N, r
      <4> QED BY <1>6, <4>1, <4>2
    <3>2. ASSUME NEW j \in 1 .. Len(received')
          PROVE  BodySymbol(received[j], Len(got) + j, N)'
      <4>1. j \in 1 .. r - m /\ m + j \in 1 .. r /\ Len(got) + (m + j) = Len(got') + j
            /\ received'[j] = received[m + j] /\ call' = call
        BY <1>6, <1>9 DEF Handed
      <4>2. BodySymbol(received[m + j], Len(got) + (m + j), N)
        BY <1>5, <4>1, PlainBuffer
      <4> HIDE DEF N, r
      <4> QED BY <4>1, <4>2 DEF BodySymbol
    <3>3. N <= Len(got') + Len(received')
      <4>1. Len(received') = r - m
        BY <1>9 DEF Handed
      <4>2. N <= Len(got) + r
        BY <1>8, <2>1
      <4> HIDE DEF N, r
      <4> QED BY <1>6, <1>10, <4>1, <4>2
    <3>4. Rest(a)'
      BY <1>9, <1>10, <2>1, <2>2, <2>3, <3>1, <3>2, <3>3 DEF Rest
    <3> QED BY <1>3, <1>5, <1>9, <1>10, <2>3, <3>4, ServesStill
  <2>4. CASE pc' = "done"
    BY <1>3, <1>5, <1>9, <1>10, <2>2, <2>4, ServesStill
  <2> QED BY <1>9, <2>3, <2>4
<1>12. CASE left # 0
  <2>0. left > 0
    <3> HIDE DEF N, r
    <3> QED BY <1>6, <1>7, <1>12, <1>l
  <2>1. r - m = 0
    <3>1. "recount" \notin past'
      BY DEF InStep
    <3>2. ~(bytesLeft' > 0)
      BY <1>1, <2>0, <3>1
    <3>3. bytesLeft' = bytesLeft - m
      <4>1. Give(bytesLeft, s)
        BY <1>1
      <4>2. bytesLeft' = bytesLeft - (IF size <= bytesLeft THEN size ELSE bytesLeft)
        BY <4>1 DEF Give
      <4> QED BY <1>6, <1>9, <4>2
    <3> HIDE DEF N, r
    <3> QED BY <1>6, <1>9, <3>2, <3>3
  <2>2. r > 0
    <3>1. CASE pc = "length"
      <4>1. received # <<>> /\ received \in Seq(SymbolSet)
        BY <3>1 DEF TypeInv, Counts, Bytes
      <4>2. r # 0
        BY <4>1, EmptySeq
      <4> HIDE DEF N, r
      <4> QED BY <1>6, <4>2
    <3>2. CASE pc # "length"
      <4>1. ~(contentLength > 0 /\ bytesLeft = 0)
        BY <1>1, <3>2
      <4> HIDE DEF N, r
      <4> QED BY <1>6, <1>7, <2>0, <4>1
    <3> QED BY <3>1, <3>2
  <2>3. m > 0 /\ pc' = "ready"
    <3> HIDE DEF N, r
    <3> QED BY <1>6, <1>9, <2>1, <2>2
  <2>4. contentLength' + Len(got') = N
    <3>1. contentLength' = left
      BY <1>1
    <3> HIDE DEF N, r
    <3> QED BY <1>6, <1>7, <1>9, <1>10, <2>1, <3>1
  <2>5. state' = state
    BY <1>9, <1>12, <1>s
  <2>6. Plain(a)'
    BY <1>5, <1>9, <2>3, <2>4, <2>5, HandedPlain
  <2> QED BY <1>3, <1>5, <1>9, <1>10, <2>3, <2>6, ServesStill
<1> QED BY <1>11, <1>12

LEMMA GiveNotChunkedKeepsExchange ==
  ASSUME TypeInv, ExchangeInv, GiveNotChunked, InStep'
  PROVE  Exchange'
<1>1. pc = "none" /\ state = "none" /\ received # <<>> /\ Give(bytesLeft, "none")
      /\ UNCHANGED <<past, contentLength>>
  BY DEF GiveNotChunked, TypeInv, Counts
<1>2. PICK a \in Answers : Serves(a) /\ inbox = <<>>
  BY <1>1 DEF ExchangeInv, InStep, Exchange, InGetBytes, Serving
<1>3. Plain(a) /\ Taken(BodySize(a)) /\ a.status = "ok"
  BY <1>1, <1>2 DEF Serves, Chunked, Rest
<1>4. PICK m \in 0 .. Len(received) :
        /\ m = IF size <= Len(received) THEN size ELSE Len(received)
        /\ Handed(m) /\ Taken(BodySize(a))' /\ state' = "none"
        /\ pc' = IF (size = 0 /\ ("none" # "waiting" \/ Len(received) - m # 0)) \/ m > 0
                 THEN "ready" ELSE "done"
  BY <1>1, <1>3, GivePlainTakes
<1>5. pc' = "ready"
  <2>1. received \in Seq(SymbolSet) /\ Len(received) \in Nat /\ size \in Nat
    BY DEF TypeInv, Bytes, Scalars
  <2>2. Len(received) # 0
    BY <1>1, <2>1, EmptySeq
  <2>3. size = 0 \/ m > 0
    BY <1>4, <2>1, <2>2
  <2> QED BY <1>4, <2>3
<1>6. Plain(a)'
  BY <1>1, <1>3, <1>4, <1>5, HandedPlain
<1>7. wire' = wire /\ inbox' = <<>>
  BY <1>2, <1>4 DEF Handed
<1> QED BY <1>2, <1>3, <1>4, <1>5, <1>6, <1>7, ServesStill

\* The types of what the place in a chunk is made of.
LEMMA ChunkTypes ==
  ASSUME TypeInv, NEW a \in Answers, NEW i \in 1 .. Len(a.chunks)
  PROVE  /\ a \in Answer /\ Len(a.chunks) \in Nat /\ i \in Nat /\ i <= Len(a.chunks)
         /\ a.chunks[i] \in Nat /\ a.chunks[i] > 0
         /\ Mark(a, i) \in Nat /\ Mark(a, i) >= 10 + a.chunks[i]
         /\ Sums(a)[i] \in Nat /\ BodySize(a) \in Nat /\ Sums(a)[i] <= BodySize(a)
         /\ chunkLeft \in Nat /\ Len(received) \in Nat /\ Len(got) \in Nat /\ Len(wire) \in Nat
         /\ bytesLeft = Len(received) /\ call \in 0 .. MaxCalls
         /\ Stream \in Seq(SymbolSet) /\ Len(Stream) = Len(received) + Len(wire)
         /\ \A j \in 1 .. Len(received) : Stream[j] = received[j]
<1>1. a \in Answer /\ BodySize(a) \in Nat
  BY AnswerSize
<1>2. Len(a.chunks) \in Nat /\ i \in Nat /\ i <= Len(a.chunks) /\ a.chunks[i] \in Nat /\ a.chunks[i] > 0
  BY <1>1, AnswerChunks
<1>3. i \in 0 .. Len(a.chunks) /\ i - 1 \in 0 .. Len(a.chunks) /\ Len(a.chunks) \in 0 .. Len(a.chunks)
  BY <1>2
<1>4. Mark(a, i) \in Nat /\ Mark(a, i) >= 10 + a.chunks[i]
  <2>1. Mark(a, i) = Mark(a, i - 1) + a.chunks[i] + 5 /\ Mark(a, i - 1) >= 5
        /\ Mark(a, i) \in Nat /\ Mark(a, i - 1) \in Nat
    BY <1>1, <1>3, MarkFacts
  <2> QED BY <1>2, <2>1
<1>5. Sums(a)[i] \in Nat /\ Sums(a)[i] <= BodySize(a)
  BY <1>1, <1>2, <1>3, SumsFacts, SumsGrow DEF BodySize
<1>6. /\ chunkLeft \in Nat /\ Len(received) \in Nat /\ Len(got) \in Nat /\ Len(wire) \in Nat
      /\ bytesLeft = Len(received) /\ call \in 0 .. MaxCalls
  BY DEF TypeInv, Scalars, Bytes
<1>7. /\ Stream \in Seq(SymbolSet) /\ Len(Stream) = Len(received) + Len(wire)
      /\ \A j \in 1 .. Len(received) : Stream[j] = received[j]
  BY StreamFacts DEF TypeInv
<1> QED BY <1>1, <1>2, <1>4, <1>5, <1>6, <1>7

\* What the buffer holds of the current chunk is body.
LEMMA ChunkBuffer ==
  ASSUME TypeInv, NEW a \in Answers, a.frame = "chunked", NEW i \in 1 .. Len(a.chunks), InChunk(a, i)
  PROVE  \A j \in 1 .. Len(received) : j <= chunkLeft =>
           BodySymbol(received[j], Len(got) + j, BodySize(a))
<1> DEFINE w == Wire(call, a)
           l == chunkLeft
           p == Mark(a, i) - 2 - l
<1>1. /\ l \in 0 .. a.chunks[i] /\ Len(got) + l = Sums(a)[i] /\ Sums(a)[i] <= BodySize(a)
      /\ {Len(got), l, Sums(a)[i], BodySize(a), Len(received)} \subseteq Nat
  BY ChunkTypes DEF InChunk
<1>2. \A k \in 1 .. l : w[p + k] = Symbol("data", call, <<Sums(a)[i] - l + k, BodySize(a)>>)
  <2>1. call \in 0 .. MaxCalls
    BY ChunkTypes
  <2> QED BY <1>1, <2>1, ChunkDataAt
<1>3. ASSUME NEW j \in 1 .. Len(received), j <= l
      PROVE  BodySymbol(received[j], Len(got) + j, BodySize(a))
  <2>1. received[j] = Stream[j] /\ j \in 1 .. Len(Stream)
    BY ChunkTypes
  <2>2. Stream[j] = w[p + j]
    BY <2>1 DEF InChunk, Follows
  <2> HIDE DEF w, p, l
  <2>3. j \in 1 .. l /\ Sums(a)[i] - l + j = Len(got) + j /\ Len(got) + j <= BodySize(a)
    BY <1>1, <1>3
  <2>4. received[j] = Symbol("data", call, <<Len(got) + j, BodySize(a)>>)
    BY <1>2, <2>1, <2>2, <2>3
  <2> QED BY <2>3, <2>4 DEF BodySymbol
<1> QED BY <1>3

LEMMA NextStreamType == Bytes' => Stream' \in Seq(SymbolSet) /\ Len(Stream') \in Nat
<1>1. Bytes => Stream \in Seq(SymbolSet)
  BY StreamType
<1>2. (Bytes => Stream \in Seq(SymbolSet))'
  BY <1>1, PTL
<1> QED BY <1>2

LEMMA HandedChunk ==
  ASSUME TypeInv, TypeInv', NEW a \in Answers, NEW i \in 1 .. Len(a.chunks), InChunk(a, i),
         pc \in {"body", "chunk"}, NEW m, Handed(m), m <= chunkLeft, chunkLeft' = chunkLeft - m,
         nextSize' = nextSize, pc' = "ready"
  PROVE  InChunk(a, i)'
<1> DEFINE p == Mark(a, i) - 2 - chunkLeft
           w == Wire(call, a)
<1>0. /\ Len(got') = Len(got) + m /\ Len(received') = Len(received) - m /\ m \in Nat
      /\ Dropped(Stream', Stream, m) /\ call' = call
      /\ {Len(got), Len(received), chunkLeft, Mark(a, i), a.chunks[i], Sums(a)[i]} \subseteq Nat
      /\ Stream \in Seq(SymbolSet) /\ Stream' \in Seq(SymbolSet)
  BY ChunkTypes, NextStreamType DEF Handed, TypeInv
<1>1. /\ chunkLeft <= a.chunks[i] /\ Len(got) + chunkLeft = Sums(a)[i]
      /\ i < Len(a.chunks) /\ nextSize = a.chunks[i + 1] /\ chunkLeft + 5 <= Len(received)
      /\ Follows(Stream, w, p)
  BY DEF InChunk
<1>2. Follows(Stream', w, p + m)
  <2>1. p \in Int
    BY <1>0
  <2> HIDE DEF p, w
  <2> QED BY <1>0, <1>1, <2>1, FollowsDropped
<1>3. p + m = Mark(a, i) - 2 - chunkLeft'
  BY <1>0
<1>4. Follows(Stream', Wire(call', a), Mark(a, i) - 2 - chunkLeft')
  BY <1>0, <1>2, <1>3
<1>5. /\ chunkLeft' <= a.chunks[i] /\ Len(got') + chunkLeft' = Sums(a)[i]
      /\ chunkLeft' + 5 <= Len(received')
  <2>1. /\ Len(got) \in Nat /\ Len(received) \in Nat /\ chunkLeft \in Nat /\ a.chunks[i] \in Nat
        /\ chunkLeft <= a.chunks[i] /\ Len(got) + chunkLeft = Sums(a)[i]
        /\ chunkLeft + 5 <= Len(received)
        /\ Len(got') = Len(got) + m /\ Len(received') = Len(received) - m /\ m \in Nat
    BY <1>0, <1>1
  <2> HIDE DEF p, w
  <2>2. chunkLeft - m <= a.chunks[i]
    BY <2>1
  <2>3. (Len(got) + m) + (chunkLeft - m) = Sums(a)[i]
    BY <2>1
  <2>4. (chunkLeft - m) + 5 <= Len(received) - m
    BY <2>1
  <2>5. chunkLeft' = chunkLeft - m
    OBVIOUS
  <2>6. chunkLeft' <= a.chunks[i]
    BY <2>2, <2>5
  <2>7. Len(got') + chunkLeft' = Sums(a)[i]
    BY <2>1, <2>3, <2>5
  <2>8. chunkLeft' + 5 <= Len(received')
    BY <2>1, <2>4, <2>5
  <2> QED BY <2>6, <2>7, <2>8
<1> QED BY <1>1, <1>4, <1>5 DEF InChunk

LEMMA GiveChunkKeepsExchange ==
  ASSUME TypeInv, TypeInv', ExchangeInv, GiveChunk, InStep'
  PROVE  Exchange'
<1> DEFINE k == IF size >= chunkLeft THEN chunkLeft ELSE size
<1>1. /\ pc = "chunk" \/ (pc = "body" /\ state = "chunked" /\ chunkLeft > 0)
      /\ Give(k, state) /\ chunkLeft' = chunkLeft - k /\ nextSize' = nextSize /\ past' = past
  BY DEF GiveChunk
<1>2. PICK a \in Answers : Serves(a) /\ inbox = <<>>
  BY <1>1 DEF ExchangeInv, InStep, Exchange, InGetBytes, Serving
<1>3. /\ Taken(BodySize(a)) /\ a.status = "ok" /\ BodySize(a) \in Nat
      /\ Len(received) \in Nat /\ Len(got) \in Nat /\ bytesLeft = Len(received) /\ chunkLeft \in Nat
      /\ size \in Nat /\ chunkLeft <= Len(received)
  <2>1. /\ Len(received) \in Nat /\ Len(got) \in Nat /\ bytesLeft = Len(received) /\ chunkLeft \in Nat
        /\ size \in Nat
    <3>1. Bytes /\ Scalars
      BY DEF TypeInv
    <3>2. chunkLeft \in Nat /\ size \in Nat
      BY <3>1 DEF Scalars
    <3> QED BY <3>1, <3>2 DEF Bytes
  <2>2. chunkLeft <= bytesLeft
    BY <1>1 DEF TypeInv, Counts
  <2> QED BY <1>2, <2>1, <2>2, AnswerSize DEF Serves
<1>4. k \in 0 .. Len(received) /\ k <= chunkLeft /\ k <= size /\ (size # 0 /\ chunkLeft # 0 => k # 0)
  BY <1>3
<1> HIDE DEF k
<1>5. CASE Chunked(a)
  <2>1. a.frame = "chunked" /\ state = "chunked"
    BY <1>5 DEF Chunked
  <2>2. ~Starting(a)
    BY <1>1 DEF Starting
  <2>3. PICK i \in 1 .. Len(a.chunks) : InChunk(a, i)
    BY <1>5, <2>2 DEF Chunked
  <2>4. \A j \in 1 .. k : BodySymbol(received[j], Len(got) + j, BodySize(a))
    <3>1. \A j \in 1 .. k : j \in 1 .. Len(received) /\ j <= chunkLeft
      BY <1>3, <1>4
    <3> QED BY <2>1, <2>3, <3>1, ChunkBuffer
  <2>5. k > 0 => BodySize(a) > 0
    <3>1. Len(got) + chunkLeft = Sums(a)[i] /\ Sums(a)[i] \in Nat /\ Sums(a)[i] <= BodySize(a)
      BY <2>3, ChunkTypes DEF InChunk
    <3> QED BY <1>3, <1>4, <3>1
  <2>6. PICK m \in 0 .. k :
          /\ m = IF size <= k THEN size ELSE k
          /\ Handed(m) /\ Taken(BodySize(a))' /\ state' = state
          /\ pc' = IF (size = 0 /\ (state # "waiting" \/ bytesLeft - m # 0)) \/ m > 0
                   THEN "ready" ELSE "done"
    BY <1>1, <1>3, <1>4, <2>1, <2>4, <2>5, GiveTakes
  <2>7. m = k
    BY <1>3, <1>4, <2>6
  <2>8. chunkLeft # 0
    <3>1. pc = "chunk" => chunkLeft = a.chunks[i] /\ a.chunks[i] > 0
      BY <2>3, ChunkTypes DEF InChunk
    <3> QED BY <1>1, <1>3, <3>1
  <2>9. pc' = "ready"
    <3>1. size = 0 \/ m > 0
      BY <1>3, <1>4, <2>7, <2>8
    <3> QED BY <2>1, <2>6, <3>1
  <2>10. InChunk(a, i)'
    BY <1>1, <1>4, <2>3, <2>6, <2>7, <2>9, HandedChunk
  <2>11. Chunked(a)'
    BY <2>1, <2>6, <2>10 DEF Chunked
  <2>12. wire' = wire /\ inbox' = <<>>
    BY <1>2, <2>6 DEF Handed
  <2> QED BY <1>2, <1>3, <2>6, <2>9, <2>11, <2>12, ServesStill
<1>6. CASE Rest(a)
  <2>1. state = "waiting" /\ wire = <<>>
    BY <1>6 DEF Rest
  <2>2. \A j \in 1 .. k : BodySymbol(received[j], Len(got) + j, BodySize(a))
    BY <1>3, <1>4, <1>6 DEF Rest
  <2>3. k > 0 => BodySize(a) > 0
    <3>1. BodySize(a) = 0 => received = <<>>
      BY <1>6 DEF Rest
    <3>2. received = <<>> => Len(received) = 0
      OBVIOUS
    <3> QED BY <1>3, <1>4, <3>1, <3>2
  <2>4. BodySize(a) <= Len(got) + Len(received)
    BY <1>6 DEF Rest
  <2>5. PICK m \in 0 .. k :
          /\ m = IF size <= k THEN size ELSE k
          /\ Handed(m) /\ Taken(BodySize(a))' /\ state' = state
          /\ pc' = IF (size = 0 /\ (state # "waiting" \/ bytesLeft - m # 0)) \/ m > 0
                   THEN "ready" ELSE "done"
    BY <1>1, <1>3, <1>4, <2>2, <2>3, <2>4, GiveTakes
  <2>6. wire' = wire /\ inbox' = <<>>
    BY <1>2, <2>5 DEF Handed
  <2>7. CASE pc' = "ready"
    <3>1. m > 0 \/ bytesLeft - m # 0
      BY <2>1, <2>5, <2>7
    <3>2. Rest(a)'
      BY <1>6, <2>1, <2>5, <2>7, <3>1, HandedRest
    <3> QED BY <1>2, <1>3, <2>5, <2>6, <2>7, <3>2, ServesStill
  <2>8. CASE pc' = "done"
    BY <1>2, <1>3, <2>1, <2>5, <2>6, <2>8, ServesStill
  <2> QED BY <2>5, <2>7, <2>8
<1>7. ~Plain(a)
  BY <1>1 DEF Plain
<1> QED BY <1>2, <1>5, <1>6, <1>7 DEF Serves

-----------------------------------------------------------------------------
(***************************************************************************)
(* The loops of the chunked state, which look for the size line that comes *)
(* next.                                                                   *)
(***************************************************************************)
LEMMA DropTwice ==
  ASSUME NEW s \in Seq(SymbolSet), NEW m \in Nat, NEW n \in Nat, m + n <= Len(s)
  PROVE  Drop(Drop(s, m), n) = Drop(s, m + n)
<1> DEFINE t == Drop(s, m)
           u == Drop(t, n)
           v == Drop(s, m + n)
<1>1. Len(s) \in Nat /\ m <= Len(s) /\ m + n \in Nat
  OBVIOUS
<1>2. t \in Seq(SymbolSet) /\ Len(t) = Len(s) - m /\ \A i \in 1 .. Len(s) - m : t[i] = s[m + i]
  BY <1>1, DropFacts
<1> HIDE DEF t
<1>3. n <= Len(t) /\ Len(t) \in Nat
  BY <1>1, <1>2
<1>4. u \in Seq(SymbolSet) /\ Len(u) = Len(t) - n /\ \A i \in 1 .. Len(t) - n : u[i] = t[n + i]
  BY <1>2, <1>3, DropFacts
<1>5. /\ v \in Seq(SymbolSet) /\ Len(v) = Len(s) - (m + n)
      /\ \A i \in 1 .. Len(s) - (m + n) : v[i] = s[(m + n) + i]
  BY <1>1, DropFacts
<1> HIDE DEF u, v
<1>6. Len(u) = Len(v) /\ Len(u) \in Nat
  BY <1>1, <1>2, <1>3, <1>4, <1>5
<1>7. ASSUME NEW i \in 1 .. Len(u)
      PROVE  u[i] = v[i]
  <2>1. /\ i \in 1 .. Len(t) - n /\ n + i \in 1 .. Len(s) - m /\ i \in 1 .. Len(s) - (m + n)
        /\ m + (n + i) = (m + n) + i
    BY <1>1, <1>2, <1>3, <1>4
  <2>2. u[i] = t[n + i] /\ t[n + i] = s[m + (n + i)] /\ v[i] = s[(m + n) + i]
    BY <1>2, <1>4, <1>5, <2>1
  <2> QED BY <2>1, <2>2
<1>8. u = v
  BY <1>4, <1>5, <1>6, <1>7, SeqEqual
<1> QED BY <1>8 DEF u, v, t

\* What the buffer holds behind the first o bytes, where a size line comes.
LEMMA LineInBuffer ==
  ASSUME TypeInv, NEW a \in Answers, a.frame = "chunked", NEW i \in 0 .. Len(a.chunks), NEW o \in Nat,
         Follows(Stream, Wire(call, a), Mark(a, i) - o)
  PROVE  /\ o + 1 <= Len(received) => received[o + 1] = Symbol("size", call, <<LineSize(a, i), a.ext>>)
         /\ o + 2 <= Len(received) => received[o + 2].kind = "cr"
         /\ o + 3 <= Len(received) => received[o + 3].kind = "lf"
         /\ i = Len(a.chunks) /\ o + 4 <= Len(received) => received[o + 4].kind = "cr"
         /\ i = Len(a.chunks) /\ o + 5 <= Len(received) => received[o + 5].kind = "lf"
<1> DEFINE w == Wire(call, a)
           b == Mark(a, i)
           R == Len(received)
<1>1. /\ R \in Nat /\ Len(Stream) \in Nat /\ R <= Len(Stream) /\ call \in 0 .. MaxCalls
      /\ \A j \in 1 .. R : Stream[j] = received[j]
  <2>1. /\ Len(Stream) = Len(received) + Len(wire) /\ \A j \in 1 .. Len(received) : Stream[j] = received[j]
    BY StreamFacts DEF TypeInv
  <2>2. Len(received) \in Nat /\ Len(wire) \in Nat /\ call \in 0 .. MaxCalls
    BY DEF TypeInv, Bytes, Scalars
  <2> QED BY <2>1, <2>2
<1>2. a \in Answer /\ b \in Nat
  <2>1. a \in Answer
    BY AnswerSize
  <2> QED BY <2>1, MarkFacts
<1>3. /\ w[b + 1] = Symbol("size", call, <<LineSize(a, i), a.ext>>)
      /\ w[b + 2].kind = "cr" /\ w[b + 3].kind = "lf"
  BY <1>1, SizeLineAt
<1>4. i = Len(a.chunks) => w[b + 4].kind = "cr" /\ w[b + 5].kind = "lf"
  <2>1. \A k \in 1 .. 5 : TrailByte(w[Mark(a, Len(a.chunks)) + k], k, call, a)
    BY <1>1, WireFacts
  <2>2. i = Len(a.chunks) => TrailByte(w[b + 4], 4, call, a) /\ TrailByte(w[b + 5], 5, call, a)
    BY <2>1
  <2> QED BY <2>2 DEF TrailByte
<1>5. ASSUME NEW k \in 1 .. 5, o + k <= R
      PROVE  received[o + k] = w[b + k]
  <2>1. o + k \in 1 .. R /\ o + k \in 1 .. Len(Stream) /\ (b - o) + (o + k) = b + k
    <3> HIDE DEF w, b, R
    <3>1. k \in Nat /\ k >= 1 /\ o + k >= 1 /\ o + k \in Nat /\ o + k <= Len(Stream)
      BY <1>1, <1>5
    <3>2. o + k \in 1 .. R /\ o + k \in 1 .. Len(Stream)
      BY <1>1, <1>5, <3>1
    <3>3. (b - o) + (o + k) = b + k
      BY <1>2, <3>1
    <3> QED BY <3>2, <3>3
  <2>2. Stream[o + k] = w[(b - o) + (o + k)]
    BY <2>1 DEF Follows
  <2>3. received[o + k] = Stream[o + k]
    BY <1>1, <2>1
  <2> QED BY <2>1, <2>2, <2>3
<1>6. /\ o + 1 <= R => received[o + 1] = w[b + 1]
      /\ o + 2 <= R => received[o + 2] = w[b + 2]
      /\ o + 3 <= R => received[o + 3] = w[b + 3]
      /\ o + 4 <= R => received[o + 4] = w[b + 4]
      /\ o + 5 <= R => received[o + 5] = w[b + 5]
  BY <1>5
<1> HIDE DEF w, b
<1> QED BY <1>3, <1>4, <1>6

\* The size line that the loops of the chunked state look for.
AtLine(a, i) ==
  /\ Offset \in Nat /\ Offset <= Mark(a, i) /\ Follows(Stream, Wire(call, a), Mark(a, i) - Offset)
  /\ (i = 0 /\ Starting(a) /\ Offset = 0) \/ (i > 0 /\ InChunk(a, i) /\ Offset = chunkLeft + 2)

LEMMA LineAhead ==
  ASSUME TypeInv, NEW a \in Answers, Chunked(a), pc \in {"size", "peek", "trailer"}
  PROVE  \E i \in 0 .. Len(a.chunks) : AtLine(a, i)
<1>1. a \in Answer /\ Len(a.chunks) \in Nat
  BY AnswerSize, AnswerChunks
<1>2. CASE Starting(a)
  <2>1. Mark(a, 0) = 5 /\ 0 \in 0 .. Len(a.chunks)
    BY <1>1, MarkFacts
  <2>2. Offset = 0
    BY <1>2 DEF Starting, Offset
  <2>3. Mark(a, 0) - Offset = 5
    BY <2>1, <2>2
  <2>4. AtLine(a, 0)
    BY <1>2, <2>1, <2>2, <2>3 DEF AtLine, Starting
  <2> QED BY <2>1, <2>4
<1>3. ASSUME NEW i \in 1 .. Len(a.chunks), InChunk(a, i)
      PROVE  \E j \in 0 .. Len(a.chunks) : AtLine(a, j)
  <2>1. /\ chunkLeft \in Nat /\ Mark(a, i) \in Nat /\ Mark(a, i) >= 10 + a.chunks[i]
        /\ a.chunks[i] \in Nat /\ a.chunks[i] > 0 /\ i > 0 /\ i \in 0 .. Len(a.chunks)
    BY <1>1, ChunkTypes
  <2>2. chunkLeft = a.chunks[i]
    BY <1>3 DEF InChunk, Starting
  <2>3. Offset = chunkLeft + 2
    BY <2>1, <2>2 DEF Offset
  <2>4. Offset \in Nat /\ Offset <= Mark(a, i) /\ Mark(a, i) - Offset = Mark(a, i) - 2 - chunkLeft
    <3>1. Mark(a, i) - (chunkLeft + 2) = Mark(a, i) - 2 - chunkLeft
      BY <2>1
    <3>2. chunkLeft + 2 \in Nat /\ chunkLeft + 2 <= Mark(a, i)
      BY <2>1, <2>2
    <3> QED BY <2>3, <3>1, <3>2
  <2>5. Follows(Stream, Wire(call, a), Mark(a, i) - Offset)
    BY <1>3, <2>4 DEF InChunk
  <2>6. AtLine(a, i)
    BY <1>3, <2>1, <2>3, <2>4, <2>5 DEF AtLine
  <2> QED BY <2>1, <2>6
<1> QED BY <1>2, <1>3 DEF Chunked

LEMMA ChunkedServes ==
  ASSUME TypeInv, ExchangeInv, InStep', past' = past, state = "chunked",
         pc \in {"body", "size", "fill", "peek", "trailer"}
  PROVE  \E a \in Answers : Chunked(a) /\ a.status = "ok" /\ inbox = <<>> /\ Taken(BodySize(a))
<1>1. PICK a \in Answers : Serves(a) /\ inbox = <<>>
  BY DEF ExchangeInv, InStep, Exchange, InGetBytes, Serving
<1> QED BY <1>1 DEF Serves, Plain, Rest

LEMMA ChunkServed ==
  ASSUME NEW a \in Answers, a.status = "ok", Taken(BodySize(a)),
         inbox = <<>>, UNCHANGED <<got, call, inbox, status>>,
         pc' \in {"size", "fill", "peek", "trailer", "chunk"}, Chunked(a)' \/ Rest(a)'
  PROVE  Exchange'
<1>1. Taken(BodySize(a))'
  BY TakenStays
<1>2. Serving'
  BY <1>1 DEF Serving, Serves
<1> QED BY <1>2, NextExchange DEF InGetBytes

\* A chunk begins behind its size line.
LEMMA ChunkBegins ==
  ASSUME TypeInv, TypeInv', NEW a \in Answers, a.frame = "chunked", NEW i \in 0 .. Len(a.chunks) - 1,
         NEW o \in Nat, Follows(Stream, Wire(call, a), Mark(a, i) - o), o <= Mark(a, i),
         Len(got) = Sums(a)[i], o + 3 <= Len(received), received' = Drop(received, o + 3),
         chunkLeft' = a.chunks[i + 1], pc' = "fill", state' = "chunked", UNCHANGED <<got, call, wire>>
  PROVE  Chunked(a)'
<1> DEFINE w == Wire(call, a)
           n == o + 3
           p == Mark(a, i) - o
           j == i + 1
<1>1. /\ a \in Answer /\ Len(a.chunks) \in Nat /\ j \in 1 .. Len(a.chunks) /\ j - 1 = i
      /\ i \in 0 .. Len(a.chunks)
  BY AnswerSize, AnswerChunks
<1>2. /\ Mark(a, i) \in Nat /\ Mark(a, j) = Mark(a, i) + a.chunks[j] + 5 /\ a.chunks[j] \in Nat
      /\ Sums(a)[j] = Sums(a)[i] + a.chunks[j]
  BY <1>1, MarkFacts, SumsFacts, AnswerChunks
<1>3. Bytes /\ Bytes' /\ n \in 0 .. Len(received) /\ n \in Nat /\ p \in Int
      /\ Stream \in Seq(SymbolSet) /\ Stream' \in Seq(SymbolSet)
  <2>1. Bytes /\ Bytes'
    BY DEF TypeInv
  <2>2. Len(received) \in Nat
    BY <2>1 DEF Bytes
  <2> QED BY <1>2, <2>1, <2>2, StreamType, NextStreamType
<1>4. Dropped(Stream', Stream, n)
  <2> HIDE DEF n
  <2>1. received' = Drop(received, n)
    BY DEF n
  <2>2. /\ Len(Stream') = Len(Stream) - n /\ \A k \in 1 .. Len(Stream) - n : Stream'[k] = Stream[n + k]
    BY <1>3, <2>1, DroppedFacts
  <2>3. n <= Len(Stream)
    <3>1. Len(Stream) = Len(received) + Len(wire) /\ Len(wire) \in Nat /\ Len(received) \in Nat
      BY <1>3, StreamFacts DEF Bytes
    <3> QED BY <1>3, <3>1
  <2> QED BY <2>2, <2>3 DEF Dropped
<1>5. Follows(Stream', w, p + n)
  <2>1. Follows(Stream, w, p)
    OBVIOUS
  <2> HIDE DEF w, p, n
  <2> QED BY <1>3, <1>4, <2>1, FollowsDropped
<1>6. p + n = Mark(a, j) - 2 - chunkLeft'
  <2>1. \A c \in Nat, m \in Nat : (m - o) + (o + 3) = (m + c + 5) - 2 - c
    OBVIOUS
  <2>2. chunkLeft' = a.chunks[j]
    OBVIOUS
  <2> QED BY <1>2, <2>1, <2>2
<1>7. Follows(Stream', Wire(call', a), Mark(a, j) - 2 - chunkLeft')
  BY <1>5, <1>6
<1>8. chunkLeft' <= a.chunks[j] /\ Len(got') + chunkLeft' = Sums(a)[j] /\ chunkLeft' = a.chunks[j]
  BY <1>2
<1>9. InChunk(a, j)'
  BY <1>7, <1>8 DEF InChunk
<1> QED BY <1>1, <1>9 DEF Chunked

LEMMA NextChunkKeepsExchange ==
  ASSUME TypeInv, TypeInv', ExchangeInv, NextChunk, InStep'
  PROVE  Exchange'
<1> DEFINE rest == IF 1 \in Crlfs(received, 0) THEN Drop(received, 2) ELSE received
           lines == Crlfs(rest, 0)
<1>1. /\ pc = "body" /\ state = "chunked" /\ chunkLeft = 0
      /\ \/ /\ nextSize > 0
            /\ received' = IF lines = {} THEN rest ELSE Drop(rest, First(lines) + 1)
            /\ chunkLeft' = nextSize /\ nextSize' = 0 /\ pc' = "fill"
         \/ ~(nextSize > 0) /\ received' = rest /\ pc' = "size" /\ UNCHANGED <<chunkLeft, nextSize>>
      /\ UNCHANGED <<state, past, got, call, status, inbox, wire>>
  BY DEF NextChunk
<1>2. PICK a \in Answers : Chunked(a) /\ a.status = "ok" /\ inbox = <<>> /\ Taken(BodySize(a))
  BY <1>1, ChunkedServes
<1>3. /\ a \in Answer /\ Len(a.chunks) \in Nat /\ a.frame = "chunked"
      /\ received \in Seq(SymbolSet) /\ Len(received) \in Nat /\ Len(got) \in Nat
  BY <1>2, AnswerSize, AnswerChunks DEF Chunked, TypeInv, Bytes
<1>4. CASE Starting(a)
  <2>1. nextSize = 0 /\ Follows(Stream, Wire(call, a), 5)
    BY <1>1, <1>4 DEF Starting
  <2>2. Mark(a, 0) - 0 = 5 /\ 0 \in 0 .. Len(a.chunks) /\ 0 \in Nat
    BY <1>3, MarkFacts
  <2>3. 0 + 1 <= Len(received) => received[0 + 1] = Symbol("size", call, <<LineSize(a, 0), a.ext>>)
    BY <1>3, <2>1, <2>2, LineInBuffer
  <2>4. 1 \notin Crlfs(received, 0)
    <3> SUFFICES ASSUME 1 \in Crlfs(received, 0) PROVE FALSE
      OBVIOUS
    <3>1. 1 <= Len(received) - 1 /\ received[1].kind = "cr"
      BY DEF Crlfs
    <3>2. received[1].kind = "size"
      BY <1>3, <2>3, <3>1 DEF Symbol
    <3> QED BY <3>1, <3>2
  <2>5. received' = received /\ pc' = "size" /\ UNCHANGED <<chunkLeft, nextSize>>
    BY <1>1, <2>1, <2>4
  <2>6. Stream' = Stream
    BY <1>1, <2>5 DEF Stream
  <2>7. Starting(a)'
    BY <1>1, <1>4, <2>5, <2>6 DEF Starting
  <2>8. Chunked(a)'
    BY <1>1, <1>3, <2>7 DEF Chunked
  <2> QED BY <1>1, <1>2, <2>5, <2>8, ChunkServed
<1>5. ASSUME NEW i \in 1 .. Len(a.chunks), InChunk(a, i)
      PROVE  Exchange'
  <2>1. /\ i < Len(a.chunks) /\ nextSize = a.chunks[i + 1] /\ 5 <= Len(received)
        /\ Len(got) = Sums(a)[i] /\ Follows(Stream, Wire(call, a), Mark(a, i) - 2 - 0)
    <3>1. /\ i < Len(a.chunks) /\ nextSize = a.chunks[i + 1] /\ 0 + 5 <= Len(received)
          /\ Len(got) + 0 = Sums(a)[i] /\ Follows(Stream, Wire(call, a), Mark(a, i) - 2 - 0)
      BY <1>1, <1>5 DEF InChunk
    <3> QED BY <1>3, <3>1
  <2>2. /\ i \in 0 .. Len(a.chunks) - 1 /\ i \in 0 .. Len(a.chunks) /\ i + 1 \in 1 .. Len(a.chunks)
        /\ Mark(a, i) \in Nat /\ Mark(a, i) >= 5 /\ Mark(a, i) - 2 - 0 = Mark(a, i) - 2
        /\ a.chunks[i + 1] \in Nat /\ a.chunks[i + 1] > 0
    <3>1. i \in 0 .. Len(a.chunks) - 1 /\ i \in 0 .. Len(a.chunks) /\ i + 1 \in 1 .. Len(a.chunks)
      BY <1>3, <2>1
    <3>2. Mark(a, i) \in Nat /\ Mark(a, i) >= 5
      BY <1>3, <3>1, MarkFacts
    <3> QED BY <1>3, <3>1, <3>2, AnswerChunks
  <2>3. /\ 2 + 1 <= Len(received) => received[2 + 1] = Symbol("size", call, <<LineSize(a, i), a.ext>>)
        /\ 2 + 2 <= Len(received) => received[2 + 2].kind = "cr"
        /\ 2 + 3 <= Len(received) => received[2 + 3].kind = "lf"
    <3>1. 2 \in Nat /\ Follows(Stream, Wire(call, a), Mark(a, i) - 2)
      BY <2>1, <2>2
    <3> QED BY <1>3, <2>2, <3>1, LineInBuffer
  <2>4. received[3].kind = "size" /\ received[4].kind = "cr" /\ received[5].kind = "lf"
    <3>1. 2 + 1 = 3 /\ 2 + 2 = 4 /\ 2 + 3 = 5 /\ 3 <= Len(received) /\ 4 <= Len(received)
      BY <1>3, <2>1
    <3> QED BY <2>1, <2>3, <3>1 DEF Symbol
  <2>5. received[1].kind = "cr" /\ received[2].kind = "lf"
    <3> DEFINE w == Wire(call, a)
               m == Mark(a, i)
    <3>1. /\ 0 \in 0 .. a.chunks[i] /\ call \in 0 .. MaxCalls
          /\ Stream[1] = received[1] /\ Stream[2] = received[2] /\ 1 \in 1 .. Len(Stream) /\ 2 \in 1 .. Len(Stream)
      <4>1. /\ a.chunks[i] \in Nat /\ call \in 0 .. MaxCalls /\ Len(Stream) = Len(received) + Len(wire)
            /\ Len(wire) \in Nat /\ \A k \in 1 .. Len(received) : Stream[k] = received[k]
        BY ChunkTypes
      <4>2. 1 \in 1 .. Len(received) /\ 2 \in 1 .. Len(received)
        BY <1>3, <2>1
      <4> QED BY <1>3, <2>1, <4>1, <4>2
    <3>2. w[m - 2 - 0 + (0 + 1)].kind = "cr" /\ w[m - 2 - 0 + (0 + 2)].kind = "lf"
      BY <1>3, <3>1, ChunkDataAt
    <3>3. Stream[1] = w[m - 2 - 0 + 1] /\ Stream[2] = w[m - 2 - 0 + 2]
      BY <2>1, <3>1 DEF Follows
    <3> HIDE DEF w, m
    <3>4. 0 + 1 = 1 /\ 0 + 2 = 2
      OBVIOUS
    <3> QED BY <3>1, <3>2, <3>3, <3>4
  <2>6. rest = Drop(received, 2)
    <3>1. 1 \in Crlfs(received, 0)
      BY <1>3, <2>1, <2>5 DEF Crlfs
    <3> QED BY <3>1
  <2>7. /\ rest \in Seq(SymbolSet) /\ Len(rest) = Len(received) - 2 /\ Len(rest) >= 3 /\ Len(rest) \in Nat
        /\ rest[1].kind = "size" /\ rest[2].kind = "cr" /\ rest[3].kind = "lf"
    <3> DEFINE d == Drop(received, 2)
    <3>1. /\ d \in Seq(SymbolSet) /\ Len(d) = Len(received) - 2
          /\ \A k \in 1 .. Len(received) - 2 : d[k] = received[2 + k]
      <4>1. 2 \in Nat /\ 2 <= Len(received)
        BY <1>3, <2>1
      <4> QED BY <1>3, <4>1, DropFacts
    <3> HIDE DEF d
    <3>2. 1 \in 1 .. Len(received) - 2 /\ 2 \in 1 .. Len(received) - 2 /\ 3 \in 1 .. Len(received) - 2
      BY <1>3, <2>1
    <3>3. d[1] = received[2 + 1] /\ d[2] = received[2 + 2] /\ d[3] = received[2 + 3]
      BY <3>1, <3>2
    <3>4. 2 + 1 = 3 /\ 2 + 2 = 4 /\ 2 + 3 = 5
      OBVIOUS
    <3>5. Len(d) >= 3 /\ Len(d) \in Nat
      BY <1>3, <2>1, <3>1
    <3>6. rest = d
      BY <2>6 DEF d
    <3> HIDE DEF rest
    <3> QED BY <2>4, <3>1, <3>3, <3>4, <3>5, <3>6
  <2> HIDE DEF rest
  <2>8. lines # {} /\ First(lines) = 2
    <3>1. 2 \in Crlfs(rest, 0)
      BY <2>7 DEF Crlfs
    <3>2. 0 \in Nat /\ rest[0 + 1].kind = "size" /\ rest[0 + 2].kind = "cr" /\ rest[0 + 3].kind = "lf"
      BY <2>7
    <3>3. First(Crlfs(rest, 0)) = 0 + 2
      BY <2>7, <3>1, <3>2, LineFound
    <3> QED BY <3>1, <3>3
  <2>9. received' = Drop(received, 2 + 3) /\ chunkLeft' = a.chunks[i + 1] /\ pc' = "fill"
    <3>1. nextSize > 0
      BY <2>1, <2>2
    <3> HIDE DEF lines
    <3>2. received' = Drop(rest, 3)
      BY <1>1, <2>8, <3>1
    <3>3. Drop(Drop(received, 2), 3) = Drop(received, 2 + 3)
      BY <1>3, <2>1, DropTwice
    <3> QED BY <1>1, <2>1, <2>6, <3>1, <3>2, <3>3
  <2>10. Chunked(a)'
    <3>1. /\ 2 \in Nat /\ Follows(Stream, Wire(call, a), Mark(a, i) - 2) /\ 2 <= Mark(a, i)
          /\ 2 + 3 <= Len(received)
      BY <2>1, <2>2
    <3>2. state' = "chunked" /\ UNCHANGED <<got, call, wire>>
      BY <1>1
    <3> QED BY <1>3, <2>1, <2>2, <2>9, <3>1, <3>2, ChunkBegins
  <2> QED BY <1>1, <1>2, <2>9, <2>10, ChunkServed
<1> QED BY <1>2, <1>4, <1>5 DEF Chunked

\* What getChunkSize makes of the line that comes next.
LEMMA LineRead ==
  ASSUME TypeInv, NEW a \in Answers, a.frame = "chunked", NEW i \in 0 .. Len(a.chunks), AtLine(a, i),
         Crlfs(received, Offset) # {}
  PROVE  /\ First(Crlfs(received, Offset)) = Offset + 2 /\ Offset + 3 <= Len(received)
         /\ Axtoi(SubSeq(received, Offset + 1, First(Crlfs(received, Offset)) - 1))
              = IF a.ext THEN -1 ELSE LineSize(a, i)
<1> DEFINE line == SubSeq(received, Offset + 1, First(Crlfs(received, Offset)) - 1)
<1>1. /\ received \in Seq(SymbolSet) /\ Len(received) \in Nat /\ Offset \in Nat /\ a \in Answer
  BY AnswerSize DEF TypeInv, Bytes, AtLine
<1>2. First(Crlfs(received, Offset)) \in (Offset + 1) .. (Len(received) - 1)
  BY <1>1, CrlfFound
<1>3. Offset + 1 <= Len(received)
  BY <1>1, <1>2
<1>4. /\ received[Offset + 1] = Symbol("size", call, <<LineSize(a, i), a.ext>>)
      /\ Offset + 2 <= Len(received) => received[Offset + 2].kind = "cr"
      /\ Offset + 3 <= Len(received) => received[Offset + 3].kind = "lf"
  <2>1. Follows(Stream, Wire(call, a), Mark(a, i) - Offset)
    BY DEF AtLine
  <2> HIDE DEF AtLine
  <2> QED BY <1>1, <1>3, <2>1, LineInBuffer
<1>5. First(Crlfs(received, Offset)) = Offset + 2 /\ Offset + 3 <= Len(received)
  <2>1. received[Offset + 1].kind = "size"
    BY <1>4 DEF Symbol
  <2> QED BY <1>1, <1>4, <2>1, LineFound
<1>6. Len(line) = 1 /\ line[1] = received[Offset + 1]
  <2> DEFINE o == Offset + 1
  <2>1. First(Crlfs(received, Offset)) - 1 = o /\ o \in 1 .. Len(received) + 1 /\ o \in 1 .. Len(received)
    BY <1>1, <1>3, <1>5
  <2>2. line = SubSeq(received, o, o)
    BY <2>1
  <2> HIDE DEF line, o
  <2>3. Len(SubSeq(received, o, o)) = 1 /\ SubSeq(received, o, o)[1] = received[o]
    <3>1. o - o + 1 = 1 /\ o + 1 - 1 = o /\ o <= o /\ o \in Int
      BY <2>1
    <3> QED BY <1>1, <2>1, <3>1, SubSeqProperties
  <2> QED BY <2>2, <2>3 DEF o
<1>7. a.ext \in BOOLEAN
  BY <1>1 DEF Answer
<1>8. Axtoi(line) = IF a.ext THEN -1 ELSE LineSize(a, i)
  <2> HIDE DEF line
  <2> QED BY <1>4, <1>6, <1>7 DEF Axtoi, Symbol
<1> QED BY <1>5, <1>8

LEMMA GetChunkSizeKeepsExchange ==
  ASSUME TypeInv, TypeInv', ExchangeInv, GetChunkSize, InStep'
  PROVE  Exchange'
<1> DEFINE eol == First(Crlfs(received, Offset))
           n == Axtoi(SubSeq(received, Offset + 1, eol - 1))
<1>1. /\ pc \in {"size", "peek"} /\ Crlfs(received, Offset) # {}
      /\ \/ n = -1 /\ reopen' = TRUE /\ pc' = "done" /\ status' = "failed"
         \/ /\ n = 0 /\ pc' = "trailer" /\ UNCHANGED <<received, chunkLeft, nextSize, status>>
         \/ /\ n > 0 /\ pc = "size" /\ received' = Drop(received, eol + 1)
            /\ chunkLeft' = n /\ pc' = "fill" /\ status' = status
         \/ /\ n > 0 /\ pc = "peek" /\ nextSize' = n /\ pc' = "chunk"
            /\ UNCHANGED <<received, chunkLeft, status>>
      /\ UNCHANGED <<state, past, got, call, inbox, wire>>
  BY DEF GetChunkSize, Incomplete
<1>2. state = "chunked"
  BY <1>1 DEF TypeInv, Counts
<1>3. PICK a \in Answers : Chunked(a) /\ a.status = "ok" /\ inbox = <<>> /\ Taken(BodySize(a))
  BY <1>1, <1>2, ChunkedServes
<1>4. PICK i \in 0 .. Len(a.chunks) : AtLine(a, i)
  BY <1>1, <1>3, LineAhead
<1>5. /\ a \in Answer /\ Len(a.chunks) \in Nat /\ a.frame = "chunked" /\ BodySize(a) \in Nat
      /\ Len(received) \in Nat /\ Len(got) \in Nat /\ Offset \in Nat
      /\ \A k \in 1 .. Len(a.chunks) : a.chunks[k] \in Nat /\ a.chunks[k] > 0
  BY <1>3, <1>4, AnswerSize, AnswerChunks DEF Chunked, TypeInv, Bytes, AtLine
<1>6. eol = Offset + 2 /\ Offset + 3 <= Len(received) /\ n = IF a.ext THEN -1 ELSE LineSize(a, i)
  BY <1>1, <1>4, <1>5, LineRead
<1>7. LineSize(a, i) = IF i < Len(a.chunks) THEN a.chunks[i + 1] ELSE 0
  BY DEF LineSize
<1>8. i < Len(a.chunks) => i + 1 \in 1 .. Len(a.chunks)
  BY <1>5
<1>9. LineSize(a, i) \in Nat /\ (LineSize(a, i) = 0 <=> i = Len(a.chunks))
  BY <1>5, <1>7, <1>8
<1> HIDE DEF n
<1>10. CASE n = -1
  <2>1. reopen' = TRUE /\ pc' = "done" /\ status' = "failed"
    BY <1>1, <1>10
  <2>2. Taken(BodySize(a))'
    BY <1>1, <1>3, <2>1, TakenStays
  <2>3. (pc = "done" /\ (reopen = TRUE \/ Silent) /\ \E k \in Nat : Taken(k))'
    BY <1>5, <2>1, <2>2
  <2> QED BY <2>3, NextExchange
<1>11. CASE n # -1
  <2>1. n = LineSize(a, i)
    BY <1>6, <1>11
  <2>2. CASE n = 0
    <3>1. pc' = "trailer" /\ UNCHANGED <<received, chunkLeft, nextSize, status>> /\ i = Len(a.chunks)
      BY <1>1, <1>9, <2>1, <2>2
    <3>2. Stream' = Stream
      BY <1>1, <3>1 DEF Stream
    <3>3. Starting(a) /\ i = 0 => Starting(a)'
      BY <1>1, <3>1, <3>2 DEF Starting
    <3>4. i > 0 /\ InChunk(a, i) => InChunk(a, i)'
      BY <1>1, <3>1, <3>2 DEF InChunk
    <3>5. Chunked(a)'
      <4>1. Starting(a)' \/ (i > 0 /\ InChunk(a, i)')
        BY <1>4, <3>3, <3>4 DEF AtLine
      <4>2. i > 0 => i \in 1 .. Len(a.chunks)
        BY <1>5
      <4> QED BY <1>1, <1>2, <1>5, <4>1, <4>2 DEF Chunked
    <3> QED BY <1>1, <1>3, <3>1, <3>5, ChunkServed
  <2>3. CASE n # 0 /\ pc = "size"
    <3>1. n > 0 /\ i < Len(a.chunks)
      BY <1>5, <1>9, <2>1, <2>3
    <3>2. /\ received' = Drop(received, eol + 1) /\ chunkLeft' = n /\ pc' = "fill" /\ status' = status
      BY <1>1, <2>2, <2>3, <3>1
    <3>3. i = 0 /\ Starting(a) /\ Offset = 0
      BY <1>4, <2>3 DEF AtLine, InChunk
    <3>4. /\ i \in 0 .. Len(a.chunks) - 1 /\ 0 \in Nat /\ Follows(Stream, Wire(call, a), Mark(a, i) - 0)
          /\ 0 <= Mark(a, i) /\ Len(got) = Sums(a)[i] /\ 0 + 3 <= Len(received)
          /\ received' = Drop(received, 0 + 3) /\ chunkLeft' = a.chunks[i + 1]
      <4>1. got = <<>> /\ Sums(a)[0] = 0 /\ Mark(a, 0) = 5
        BY <1>5, <3>3, MarkFacts, SumsFacts DEF Starting
      <4>2. Len(got) = Sums(a)[i]
        BY <3>3, <4>1
      <4>3. Follows(Stream, Wire(call, a), Mark(a, i) - 0) /\ 0 <= Mark(a, i)
        BY <1>4, <3>3 DEF AtLine
      <4>4. eol + 1 = 0 + 3 /\ 0 + 3 <= Len(received) /\ i \in 0 .. Len(a.chunks) - 1
        BY <1>5, <1>6, <3>1, <3>3
      <4>5. received' = Drop(received, 0 + 3)
        BY <3>2, <4>4
      <4>6. chunkLeft' = a.chunks[i + 1]
        BY <1>7, <2>1, <3>1, <3>2
      <4> QED BY <4>2, <4>3, <4>4, <4>5, <4>6
    <3>5. Chunked(a)'
      <4>1. state' = "chunked" /\ UNCHANGED <<got, call, wire>> /\ pc' = "fill"
        BY <1>1, <1>2, <3>2
      <4> QED BY <1>5, <3>4, <4>1, ChunkBegins
    <3> QED BY <1>1, <1>3, <3>2, <3>5, ChunkServed
  <2>4. CASE n # 0 /\ pc = "peek"
    <3>1. n > 0 /\ i < Len(a.chunks)
      BY <1>5, <1>9, <2>1, <2>4
    <3>2. nextSize' = n /\ pc' = "chunk" /\ UNCHANGED <<received, chunkLeft, status>>
      BY <1>1, <2>2, <2>4, <3>1
    <3>3. i > 0 /\ InChunk(a, i) /\ Offset = chunkLeft + 2
      BY <1>4, <2>4 DEF AtLine, Starting
    <3>4. Stream' = Stream
      BY <1>1, <3>2 DEF Stream
    <3>5. nextSize' = a.chunks[i + 1] /\ chunkLeft + 5 <= Len(received)
      <4>1. chunkLeft \in Nat
        BY DEF TypeInv, Scalars
      <4>2. (chunkLeft + 2) + 3 <= Len(received)
        BY <1>6, <3>3
      <4>3. chunkLeft + 5 <= Len(received)
        BY <1>5, <4>1, <4>2
      <4> QED BY <1>7, <2>1, <3>1, <3>2, <4>3
    <3>6. InChunk(a, i)'
      BY <1>1, <2>4, <3>1, <3>2, <3>3, <3>4, <3>5 DEF InChunk
    <3>7. i \in 1 .. Len(a.chunks)
      BY <1>5, <3>3
    <3>8. Chunked(a)'
      BY <1>1, <1>2, <1>5, <3>6, <3>7 DEF Chunked
    <3> QED BY <1>1, <1>3, <3>2, <3>8, ChunkServed
  <2> QED BY <1>1, <2>2, <2>3, <2>4
<1> QED BY <1>10, <1>11

LEMMA FilledKeepsExchange ==
  ASSUME TypeInv, ExchangeInv, ChunkFilled, InStep'
  PROVE  Exchange'
<1>1. /\ pc = "fill" /\ ~(chunkLeft + 2 >= bytesLeft) /\ pc' = "peek"
      /\ UNCHANGED <<inputVars, past, got, call, status, inbox, wire>>
  BY DEF ChunkFilled, Incomplete
<1>2. state = "chunked" /\ chunkLeft \in Nat /\ bytesLeft = Len(received) /\ Len(received) \in Nat
  BY <1>1 DEF TypeInv, Counts, Scalars, Bytes
<1>3. PICK a \in Answers : Chunked(a) /\ a.status = "ok" /\ inbox = <<>> /\ Taken(BodySize(a))
  BY <1>1, <1>2, ChunkedServes
<1>4. PICK i \in 1 .. Len(a.chunks) : InChunk(a, i)
  BY <1>1, <1>3 DEF Chunked, Starting
<1>5. Stream' = Stream /\ chunkLeft + 2 < Len(received)
  BY <1>1, <1>2 DEF Stream
<1>6. InChunk(a, i)'
  BY <1>1, <1>4, <1>5 DEF InChunk
<1>7. Chunked(a)'
  BY <1>1, <1>3, <1>6 DEF Chunked
<1> QED BY <1>1, <1>3, <1>7, ChunkServed

LEMMA EndChunksKeepsExchange ==
  ASSUME TypeInv, ExchangeInv, EndChunks, InStep'
  PROVE  Exchange'
<1>1. /\ pc = "trailer" /\ Blanks(received, Offset) # {} /\ pc' = "chunk" /\ state' = "waiting"
      /\ received' = Erase(received, Offset, First(Blanks(received, Offset)) + 3)
      /\ UNCHANGED <<chunkLeft, past, got, call, status, inbox, wire>>
  BY DEF EndChunks, Incomplete
<1>2. state = "chunked"
  BY <1>1 DEF TypeInv, Counts
<1>3. PICK a \in Answers : Chunked(a) /\ a.status = "ok" /\ inbox = <<>> /\ Taken(BodySize(a))
  BY <1>1, <1>2, ChunkedServes
<1>4. PICK i \in 0 .. Len(a.chunks) : AtLine(a, i)
  BY <1>1, <1>3, LineAhead
<1> DEFINE N == BodySize(a)
<1>5. /\ a \in Answer /\ Len(a.chunks) \in Nat /\ a.frame = "chunked" /\ N \in Nat
      /\ received \in Seq(SymbolSet) /\ wire \in Seq(SymbolSet) /\ Len(wire) \in Nat
      /\ Len(received) \in Nat /\ Len(got) \in Nat /\ Offset \in Nat /\ call \in 0 .. MaxCalls
      /\ Stream \in Seq(SymbolSet) /\ Len(Stream) = Len(received) + Len(wire)
  <2>1. Bytes /\ call \in 0 .. MaxCalls
    BY DEF TypeInv, Scalars
  <2>2. Offset \in Nat
    BY <1>4 DEF AtLine
  <2> QED BY <1>3, <2>1, <2>2, AnswerSize, AnswerChunks, StreamFacts DEF Chunked, Bytes
<1>6. i = Len(a.chunks)
  <2>1. Starting(a) /\ i = 0 => i = Len(a.chunks)
    BY <1>1 DEF Starting
  <2>2. InChunk(a, i) => i = Len(a.chunks)
    BY <1>1 DEF InChunk
  <2> QED BY <1>4, <2>1, <2>2 DEF AtLine
<1>7. /\ Offset + 1 <= Len(received) =>
           received[Offset + 1] = Symbol("size", call, <<LineSize(a, i), a.ext>>)
      /\ Offset + 2 <= Len(received) => received[Offset + 2].kind = "cr"
      /\ Offset + 3 <= Len(received) => received[Offset + 3].kind = "lf"
      /\ i = Len(a.chunks) /\ Offset + 4 <= Len(received) => received[Offset + 4].kind = "cr"
      /\ i = Len(a.chunks) /\ Offset + 5 <= Len(received) => received[Offset + 5].kind = "lf"
  <2>1. Follows(Stream, Wire(call, a), Mark(a, i) - Offset)
    BY <1>4 DEF AtLine
  <2> QED BY <1>3, <1>5, <2>1, LineInBuffer
<1>8. First(Blanks(received, Offset)) = Offset + 2 /\ Offset + 5 <= Len(received)
  <2>1. First(Blanks(received, Offset)) \in (Offset + 1) .. (Len(received) - 3)
    BY <1>1, <1>5, BlankFound
  <2>2. Offset + 1 <= Len(received)
    BY <1>5, <2>1
  <2>3. received[Offset + 1].kind # "cr"
    BY <1>7, <2>2 DEF Symbol
  <2> QED BY <1>1, <1>5, <1>6, <1>7, <2>3, BlankLine
<1>9. Len(received) = Offset + 5 /\ wire = <<>>
  <2> DEFINE w == Wire(call, a)
             p == Mark(a, i) - Offset
  <2>1. w \in Seq(SymbolSet) /\ Len(w) = Mark(a, i) + 5 /\ Mark(a, i) \in Nat
    BY <1>5, <1>6, WireFacts, MarkFacts
  <2>2. Follows(Stream, w, p) /\ Offset <= Mark(a, i)
    BY <1>4 DEF AtLine
  <2>3. p \in Nat /\ p <= Len(w) /\ Len(w) - p = Offset + 5
    <3> HIDE DEF w
    <3> QED BY <1>5, <2>1, <2>2
  <2>4. Len(Stream) <= Offset + 5
    <3> HIDE DEF w, p
    <3>1. Len(Stream) <= Len(w) - p
      BY <1>5, <2>1, <2>2, <2>3, FollowsLength
    <3> QED BY <2>3, <3>1
  <2>5. Len(received) = Offset + 5 /\ Len(wire) = 0
    <3>1. /\ Len(received) + Len(wire) <= Offset + 5 /\ Offset + 5 <= Len(received)
          /\ Len(received) \in Nat /\ Len(wire) \in Nat /\ Offset \in Nat
      BY <1>5, <1>8, <2>4
    <3> QED BY <3>1
  <2> QED BY <1>5, <2>5, EmptySeq
<1>10. /\ Len(received') = Offset /\ received' \in Seq(SymbolSet)
       /\ \A k \in 1 .. Offset : received'[k] = received[k]
  <2> DEFINE n == First(Blanks(received, Offset)) + 3
  <2>1. n = Offset + 5 /\ n \in Nat /\ Offset \in 0 .. Len(received) /\ Offset + n >= Len(received)
    BY <1>5, <1>8, <1>9
  <2>2. received' = Erase(received, Offset, n)
    BY <1>1
  <2> HIDE DEF n
  <2> QED BY <1>5, <2>1, <2>2, EraseFacts
<1>11. CASE i = 0
  <2>1. Starting(a) /\ Offset = 0 /\ got = <<>> /\ chunkLeft = 0
    BY <1>4, <1>11 DEF AtLine, Starting
  <2>2. N = 0
    BY <1>5, <1>6, <1>11, SumsFacts DEF BodySize
  <2>3. received' = <<>> /\ Len(received') = 0
    BY <1>10, <2>1, EmptySeq
  <2>4. /\ wire' = <<>> /\ got' = <<>> /\ chunkLeft' <= Len(received') /\ Len(got') = 0
    BY <1>1, <1>9, <2>1, <2>3
  <2>5. /\ \A k \in 1 .. Len(received') : BodySymbol(received[k], Len(got) + k, N)'
        /\ N <= Len(got') + Len(received')
    BY <2>2, <2>3, <2>4
  <2>6. Rest(a)'
    BY <1>1, <2>2, <2>3, <2>4, <2>5 DEF Rest
  <2> QED BY <1>1, <1>3, <2>6, ChunkServed
<1>12. CASE i # 0
  <2>1. InChunk(a, i) /\ Offset = chunkLeft + 2 /\ i \in 1 .. Len(a.chunks)
    <3>1. i \in 1 .. Len(a.chunks)
      BY <1>5, <1>12
    <3> QED BY <1>4, <1>12, <3>1 DEF AtLine
  <2>2. /\ chunkLeft = a.chunks[i] /\ chunkLeft \in Nat /\ chunkLeft > 0 /\ Len(got) + chunkLeft = N
    <3>1. chunkLeft = a.chunks[i] /\ Len(got) + chunkLeft = Sums(a)[i]
      BY <1>1, <2>1 DEF InChunk
    <3>2. a.chunks[i] \in Nat /\ a.chunks[i] > 0
      BY <2>1, ChunkTypes
    <3> QED BY <1>6, <3>1, <3>2 DEF BodySize
  <2>3. ASSUME NEW k \in 1 .. Len(received')
        PROVE  BodySymbol(received[k], Len(got) + k, N)'
    <3>1. /\ k \in 1 .. Offset /\ k \in 1 .. Len(received) /\ received'[k] = received[k]
      <4>1. k \in 1 .. Offset
        BY <1>10
      <4>2. k \in 1 .. Len(received)
        BY <1>5, <1>9, <4>1
      <4> QED BY <1>10, <4>1, <4>2
    <3>2. BodySymbol(received[k], Len(got) + k, N)
      <4>1. CASE k <= chunkLeft
        BY <1>5, <2>1, <3>1, <4>1, ChunkBuffer
      <4>2. CASE ~(k <= chunkLeft)
        <5> HIDE DEF N
        <5>1. ~(Len(got) + k <= N)
          <6>1. /\ Len(got) \in Nat /\ N \in Nat /\ chunkLeft \in Nat /\ Len(got) + chunkLeft = N
                /\ k \in 1 .. Offset /\ Offset \in Nat
            BY <1>5, <2>2, <3>1
          <6>2. k \in Nat
            BY <6>1
          <6> QED BY <4>2, <6>1, <6>2
        <5> DEFINE w == Wire(call, a)
                   m == Mark(a, i)
                   l == chunkLeft
        <5>2. w[m - 2 - l + (l + 1)].kind = "cr" /\ w[m - 2 - l + (l + 2)].kind = "lf"
          <6>1. l \in 0 .. a.chunks[i]
            BY <2>2
          <6> QED BY <1>5, <2>1, <6>1, ChunkDataAt
        <5>3. received[k] = w[m - 2 - l + k]
          <6>1. Stream[k] = received[k] /\ k \in 1 .. Len(Stream)
            <7>1. \A j \in 1 .. Len(received) : Stream[j] = received[j]
              BY StreamFacts DEF TypeInv
            <7>2. k \in 1 .. Len(Stream)
              BY <1>5, <3>1
            <7> QED BY <3>1, <7>1, <7>2
          <6>2. Follows(Stream, w, m - 2 - l)
            BY <2>1 DEF InChunk
          <6> QED BY <6>1, <6>2 DEF Follows
        <5> HIDE DEF w, m
        <5>4. k = l + 1 \/ k = l + 2
          BY <2>1, <2>2, <3>1, <4>2
        <5>5. received[k].kind \in {"cr", "lf"}
          BY <5>2, <5>3, <5>4
        <5> QED BY <5>1, <5>5 DEF BodySymbol
      <4> QED BY <4>1, <4>2
    <3> QED BY <1>1, <3>1, <3>2 DEF BodySymbol
  <2>4. N <= Len(got') + Len(received') /\ N # 0 /\ chunkLeft' <= Len(received') /\ chunkLeft' > 0
    <3>1. got' = got /\ chunkLeft' = chunkLeft /\ Len(received') = chunkLeft + 2
      BY <1>1, <1>10, <2>1
    <3> HIDE DEF N
    <3>2. Len(got) \in Nat /\ N \in Nat /\ chunkLeft \in Nat /\ chunkLeft > 0 /\ Len(got) + chunkLeft = N
      BY <1>5, <2>2
    <3>3. N <= Len(got) + (chunkLeft + 2) /\ N # 0 /\ chunkLeft <= chunkLeft + 2
      BY <3>2
    <3>4. Len(got') = Len(got)
      BY <3>1
    <3> QED BY <3>1, <3>2, <3>3, <3>4
  <2>5. Rest(a)'
    BY <1>1, <1>9, <2>3, <2>4 DEF Rest
  <2> QED BY <1>1, <1>3, <2>5, ChunkServed
<1> QED BY <1>11, <1>12

-----------------------------------------------------------------------------
(***************************************************************************)
(* Every step together, and what follows from it.                          *)
(***************************************************************************)
LEMMA StutterKeepsExchange == ExchangeInv /\ UNCHANGED vars => ExchangeInv'
<1> SUFFICES ASSUME ExchangeInv, UNCHANGED vars PROVE ExchangeInv'
  OBVIOUS
<1>1. /\ UNCHANGED <<state, received, bytesLeft, contentLength, chunkLeft, nextSize, saved, reopen, pc,
                     call, got, status, wire, inbox, unsent, past>>
      /\ Stream' = Stream
  BY DEF vars, Stream
<1>2. /\ InStep' <=> InStep
      /\ Silent' <=> Silent
      /\ Whole(saved)' <=> Whole(saved)
      /\ Headless' <=> Headless
      /\ Awaiting(call)' <=> Awaiting(call)
  BY <1>1 DEF InStep, Silent, Whole, Headless, Awaiting
<1>3. Expecting' <=> Expecting
  BY <1>1, <1>2 DEF Expecting
<1>4. \A n : Taken(n)' <=> Taken(n)
  BY <1>1 DEF Taken, BodySymbol
<1>5. ASSUME NEW a \in Answers, Serves(a)
      PROVE  Serves(a)'
  <2>1. Plain(a) => Plain(a)'
    BY <1>1 DEF Plain
  <2>2. Starting(a) => Starting(a)'
    BY <1>1 DEF Starting
  <2>3. \A i \in 1 .. Len(a.chunks) : InChunk(a, i) => InChunk(a, i)'
    BY <1>1 DEF InChunk
  <2>4. Chunked(a) => Chunked(a)'
    BY <1>1, <2>2, <2>3 DEF Chunked
  <2>5. Rest(a) => Rest(a)'
    BY <1>1 DEF Rest, BodySymbol
  <2>6. Taken(BodySize(a))'
    BY <1>5, <1>4 DEF Serves
  <2> QED BY <1>5, <2>1, <2>4, <2>5, <2>6 DEF Serves
<1>6. Serving => Serving'
  BY <1>1, <1>5 DEF Serving
<1>7. Exchange => Exchange'
  BY <1>1, <1>2, <1>3, <1>4, <1>6 DEF Exchange
<1> QED BY <1>2, <1>7 DEF ExchangeInv

LEMMA NextKeepsExchange ==
  TypeInv /\ TypeInv' /\ ConnectionInv /\ CallInv /\ ExchangeInv /\ [Next]_vars => ExchangeInv'
<1> SUFFICES ASSUME TypeInv, TypeInv', ConnectionInv, CallInv, ExchangeInv, [Next]_vars
             PROVE  ExchangeInv'
  OBVIOUS
<1>1. CASE UNCHANGED vars
  BY <1>1, StutterKeepsExchange
<1>2. CASE Between
  BY <1>2, BetweenKeepsExchange
<1>3. ASSUME Client \/ Peer, InStep'
      PROVE  Exchange'
  <2>1. CASE Open \/ Reopen
    BY <1>3, <2>1, OpeningKeepsExchange
  <2>2. CASE Flush \/ Reflush
    BY <1>3, <2>2, FlushingKeepsExchange
  <2>3. CASE IsThereResponseData \/ Parse
    BY <1>3, <2>3, GetBytesKeepsExchange
  <2>4. CASE ReadHeader \/ ReadLength \/ ReadNotChunked \/ ReadChunk
    BY <1>3, <2>4, ReadsAreSteps, ReadingKeepsExchange
  <2>5. CASE ProcessHeader \/ HandleRedirect
    BY <1>3, <2>5, HeaderKeepsExchange
  <2>6. CASE GiveRest \/ GiveLength \/ GiveNotChunked \/ GiveChunk
    BY <1>3, <2>6, GiveRestKeepsExchange, GiveLengthKeepsExchange, GiveNotChunkedKeepsExchange,
       GiveChunkKeepsExchange
  <2>7. CASE NextChunk \/ GetChunkSize \/ ChunkFilled \/ EndChunks
    BY <1>3, <2>7, NextChunkKeepsExchange, GetChunkSizeKeepsExchange, FilledKeepsExchange,
       EndChunksKeepsExchange
  <2>8. CASE EndCall
    BY <1>3, <2>8, EndKeepsExchange
  <2>9. CASE Peer
    BY <1>3, <2>9, PeerKeepsExchange
  <2> QED BY <1>3, <2>1, <2>2, <2>3, <2>4, <2>5, <2>6, <2>7, <2>8, <2>9 DEF Client
<1> QED BY <1>1, <1>2, <1>3 DEF Next, ExchangeInv

LEMMA ExchangeInvariant == Spec => []ExchangeInv
<1>1. Init => ExchangeInv
  BY InitExchange DEF ExchangeInv
<1> QED BY <1>1, NextKeepsExchange, TypeInvariant, ConnectionInvariant, CallInvariant, PTL DEF Spec

\* A request is never written to a connection that owes the answer to an
\* earlier one, or a part of it, while the connection is in step.  A parser that
\* stops early takes it out of step only if getBytes has not read the answer to
\* its end: what is left in the transport's own buffer is owed by nobody.
THEOREM NothingIsOwed == Spec => []NothingOwed
<1>1. ExchangeInv => NothingOwed
  BY DEF ExchangeInv, Exchange, NothingOwed, Silent
<1> QED BY <1>1, ExchangeInvariant, PTL

LEMMA InStepTaken ==
  ASSUME TypeInv, ExchangeInv, InStep
  PROVE  /\ got \in Seq(SymbolSet) /\ Len(got) \in Nat /\ DOMAIN got = 1 .. Len(got)
         /\ got # <<>> <=> Len(got) > 0
         /\ \E n \in Nat : Taken(n)
<1>1. got \in Seq(SymbolSet) /\ \E n \in Nat : Taken(n)
  BY DEF TypeInv, Bytes, ExchangeInv, Exchange
<1>2. got # <<>> <=> Len(got) > 0
  BY <1>1, EmptySeq
<1> QED BY <1>1, <1>2

\* The bytes that the parser gets in a call belong to the answer to that call,
\* as long as the connection is in step.
THEOREM AnswersAreOwn == Spec => []OwnAnswer
<1>1. TypeInv /\ ExchangeInv => OwnAnswer
  <2> SUFFICES ASSUME TypeInv, ExchangeInv, InStep, NEW i \in DOMAIN got, got[i].kind = "data"
               PROVE  got[i].id = call
    BY DEF OwnAnswer
  <2>1. PICK n \in Nat : Taken(n)
    BY InStepTaken
  <2>2. BodySymbol(got[i], i, n)
    BY <2>1, InStepTaken DEF Taken
  <2> QED BY <2>2 DEF BodySymbol, Symbol
<1> QED BY <1>1, TypeInvariant, ExchangeInvariant, PTL

\* However the answer is framed, split and read, the parser gets the bytes of
\* its body one after the other: no size line, no byte twice, none left out.
THEOREM BytesAreInOrder == Spec => []InOrder
<1>1. TypeInv /\ ExchangeInv => InOrder
  <2> SUFFICES ASSUME TypeInv, ExchangeInv, InStep, NEW i \in DOMAIN got
               PROVE  \/ got[i].kind = "data" /\ got[i].id = got[1].id /\ got[i].of = <<i, got[1].of[2]>>
                      \/ got[i].kind \in {"cr", "lf"} /\ i > got[1].of[2]
    BY DEF InOrder
  <2>1. PICK n \in Nat : Taken(n)
    BY InStepTaken
  <2>2. i \in 1 .. Len(got) /\ 1 \in 1 .. Len(got) /\ n > 0
    BY <2>1, InStepTaken DEF Taken
  <2>3. BodySymbol(got[i], i, n) /\ BodySymbol(got[1], 1, n)
    BY <2>1, <2>2 DEF Taken
  <2>4. got[1] = Symbol("data", call, <<1, n>>)
    BY <2>2, <2>3 DEF BodySymbol
  <2>5. got[1].id = call /\ got[1].of[2] = n
    BY <2>4 DEF Symbol
  <2>6. CASE i <= n
    BY <2>3, <2>5, <2>6 DEF BodySymbol, Symbol
  <2>7. CASE ~(i <= n)
    <3>1. got[i].kind \in {"cr", "lf"}
      BY <2>3, <2>7 DEF BodySymbol
    <3>2. i > n
      BY <2>2, <2>7
    <3> QED BY <2>5, <3>1, <3>2
  <2> QED BY <2>6, <2>7
<1> QED BY <1>1, TypeInvariant, ExchangeInvariant, PTL

\* getBytes says that the answer has been read only when its last byte has been
\* handed out.
THEOREM AnswersAreWhole == Spec => []WholeAnswer
<1>1. TypeInv /\ ExchangeInv => WholeAnswer
  <2> SUFFICES ASSUME TypeInv, ExchangeInv, InStep, status = "finished", got # <<>>
               PROVE  DocumentRead
    BY DEF WholeAnswer
  <2>1. PICK n \in Nat : Taken(n)
    BY InStepTaken
  <2>2. n > 0 /\ n <= Len(got) /\ Bytes
    BY <2>1 DEF Taken, TypeInv
  <2> QED BY <2>1, <2>2, AllTaken
<1> QED BY <1>1, TypeInvariant, ExchangeInvariant, PTL

\* What flushOutput sends ends with the envelope of the call itself, not broken
\* off, for a redirect too; what precedes it, whole envelopes and beginnings of
\* some, was left by calls that ended before they could send it.
THEOREM RequestsAreWhole == Spec => []RequestIsWhole
<1>1. TypeInv /\ LeftBehind /\ CallInv /\ ExchangeInv => RequestIsWhole
  <2> SUFFICES ASSUME TypeInv, LeftBehind, CallInv, ExchangeInv,
                      pc = "flush" \/ (pc = "reflush" /\ InStep)
               PROVE  Whole(Payload)
    BY DEF RequestIsWhole, Whole, LeftBehind
  <2>1. CASE pc = "flush"
    <3>1. Whole(toSend)
      BY <2>1 DEF CallInv, Buffered
    <3>2. Payload = toSend
      BY <3>1 DEF Whole, Payload
    <3> QED BY <3>1, <3>2
  <2>2. CASE pc = "reflush" /\ InStep
    <3>1. MaxRedirects > 0
      <4>1. attempts \in 0 .. MaxRedirects /\ MaxRedirects \in Nat /\ attempts > 0
        BY <2>2, HTTPAssumption DEF TypeInv, Scalars, CallInv, Redirected
      <4> QED BY <4>1
    <3>2. toSend = <<>> /\ Whole(saved)
      BY <2>2, <3>1 DEF CallInv, Buffered, ExchangeInv, Exchange
    <3> QED BY <3>1, <3>2 DEF Payload
  <2> QED BY <2>1, <2>2
<1> QED BY <1>1, TypeInvariant, LeftBehindInvariant, CallInvariant, ExchangeInvariant, PTL
=============================================================================
