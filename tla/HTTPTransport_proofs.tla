------------------------ MODULE HTTPTransport_proofs ------------------------
(* Theorems about the connection of HTTPTransport, its bytes and its calls,  *)
(* for any answers, any endpoints, any number of redirects and calls, with   *)
(* and without timeouts.                                                     *)
EXTENDS HTTPTransport, SequenceTheorems, FiniteSetTheorems, TLAPS

\* A connection that may be used again goes to the endpoint set last and its
\* end has not been announced.
Reusable == sock /\ ~reopen => at = url /\ "close" \notin past

\* A request is written to such a connection, with nothing received before.
Quiescent == {"idle"} \cup Opening \cup Flushing
Ready ==
  /\ pc \in Flushing => sock /\ ~reopen
  /\ pc \in Quiescent => received = <<>> /\ state = "waiting"

\* Between the opening of a connection and the end of the call the connection
\* is given up for two reasons only.
GivenUp ==
  pc \notin {"idle"} \cup Opening /\ reopen =>
    "close" \in past \/ (pc = "done" /\ status = "failed")

ConnectionInv ==
  /\ sock \in BOOLEAN /\ reopen \in BOOLEAN
  /\ Reusable /\ Ready /\ GivenUp

LEMMA InitConnection == Init => ConnectionInv
BY DEF Init, ConnectionInv, Reusable, Ready, GivenUp, Quiescent, Opening, Flushing

USE DEF inputVars, bufferVars, peerVars, sendVars, callVars, clientVars, ReadFrame, Throw,
        ResetInput, CloseChannel, Quiescent, Opening, Flushing

LEMMA BetweenKeepsConnection == ConnectionInv /\ Between => ConnectionInv'
<1>1. ASSUME ConnectionInv, NEW u \in Urls, SetEndpointUri(u)
      PROVE  ConnectionInv'
  BY <1>1 DEF SetEndpointUri, ConnectionInv, Reusable, Ready, GivenUp
<1>2. ASSUME ConnectionInv, NEW way \in BOOLEAN, SendBytes(way) \/ SerializeFails(way)
      PROVE  ConnectionInv'
  BY <1>2 DEF SendBytes, SerializeFails, BeginCall, ConnectionInv, Reusable, Ready, GivenUp
<1> QED BY <1>1, <1>2 DEF Between

LEMMA OpeningKeepsConnection ==
  ASSUME ConnectionInv, Open \/ Reopen
  PROVE  ConnectionInv'
<1>1. ASSUME NEW here \in Opening, NEW next \in Flushing, OpenConnection(here, next)
      PROVE  ConnectionInv'
  <2>1. CASE ~sock \/ reopen
    BY <1>1, <2>1 DEF OpenConnection, ConnectionInv, Reusable, Ready, GivenUp
  <2>2. CASE ~(~sock \/ reopen)
    BY <1>1, <2>2 DEF OpenConnection, ConnectionInv, Reusable, Ready, GivenUp
  <2> QED BY <2>1, <2>2
<1> QED BY <1>1 DEF Open, Reopen

LEMMA FlushingKeepsConnection ==
  ASSUME ConnectionInv, Flush \/ Reflush
  PROVE  ConnectionInv'
<1>1. ASSUME NEW here \in Flushing, NEW next \in {"probe", "ready", "header"},
             FlushOutput(here, next)
      PROVE  ConnectionInv'
  BY <1>1 DEF FlushOutput, ConnectionInv, Reusable, Ready, GivenUp
<1> QED BY <1>1 DEF Flush, Reflush

\* A read, wherever it is made: bytes arrive, nothing is read, or it throws.
LEMMA ReadingKeepsConnection ==
  ASSUME ConnectionInv, NEW next \in InGetBytes, pc \in InGetBytes,
         GetNextDataPacket(next), UNCHANGED ReadFrame
  PROVE  ConnectionInv'
<1>1. CASE Arrives(next)
  BY <1>1 DEF Arrives, InGetBytes, ConnectionInv, Reusable, Ready, GivenUp
<1>2. CASE AtEnd /\ NothingRead(next) /\ UNCHANGED <<sock, peerVars, past>>
  BY <1>2 DEF NothingRead, InGetBytes, ConnectionInv, Reusable, Ready, GivenUp
<1>3. CASE Broken /\ quiet /\ CloseChannel /\ NothingRead(next) /\ UNCHANGED past
  BY <1>3 DEF NothingRead, InGetBytes, ConnectionInv, Reusable, Ready, GivenUp
<1>4. CASE Broken /\ ~quiet /\ CloseChannel /\ Throw
             /\ UNCHANGED <<received, bytesLeft, reopen, past>>
  BY <1>4 DEF InGetBytes, ConnectionInv, Reusable, Ready, GivenUp
<1>5. CASE ReadThrows
  BY <1>5 DEF ReadThrows, InGetBytes, ConnectionInv, Reusable, Ready, GivenUp
<1> QED BY <1>1, <1>2, <1>3, <1>4, <1>5 DEF GetNextDataPacket

LEMMA HeaderKeepsConnection ==
  ASSUME ConnectionInv, ReadHeader \/ ProcessHeader \/ HandleRedirect
  PROVE  ConnectionInv'
<1>1. CASE ReadHeader
  <2>1. CASE Arrives("header") /\ UNCHANGED ReadFrame
    BY <1>1, <2>1 DEF ReadHeader, Arrives, ConnectionInv, Reusable, Ready, GivenUp
  <2>2. CASE AtEnd /\ reopen' = TRUE /\ Throw
              /\ UNCHANGED <<received, bytesLeft, sock, peerVars, past, ReadFrame>>
    BY <1>1, <2>2 DEF ReadHeader, ConnectionInv, Reusable, Ready, GivenUp
  <2>3. CASE Broken /\ CloseChannel /\ Throw
              /\ UNCHANGED <<received, bytesLeft, reopen, past, ReadFrame>>
    BY <1>1, <2>3 DEF ReadHeader, ConnectionInv, Reusable, Ready, GivenUp
  <2>4. CASE ReadThrows /\ UNCHANGED ReadFrame
    BY <1>1, <2>4 DEF ReadHeader, ReadThrows, ConnectionInv, Reusable, Ready, GivenUp
  <2> QED BY <1>1, <2>1, <2>2, <2>3, <2>4 DEF ReadHeader
<1>2. CASE ProcessHeader
  <2>1. pc' \notin Quiescent
    BY <1>2 DEF ProcessHeader
  <2>2. Reusable'
    <3>1. CASE Header.close
      BY <1>2, <3>1 DEF ProcessHeader, Reusable
    <3>2. CASE ~Header.close
      BY <1>2, <3>2 DEF ProcessHeader, ConnectionInv, Reusable
    <3> QED BY <3>1, <3>2
  <2>3. GivenUp'
    <3>1. CASE Header.close
      BY <1>2, <3>1 DEF ProcessHeader, GivenUp
    <3>2. CASE ~Header.close
      BY <1>2, <3>2 DEF ProcessHeader, ConnectionInv, GivenUp
    <3> QED BY <3>1, <3>2
  <2>4. sock' \in BOOLEAN /\ reopen' \in BOOLEAN
    BY <1>2 DEF ProcessHeader, ConnectionInv
  <2> QED BY <2>1, <2>2, <2>3, <2>4 DEF ConnectionInv, Ready
<1>3. CASE HandleRedirect
  BY <1>3 DEF HandleRedirect, ConnectionInv, Reusable, Ready, GivenUp
<1> QED BY <1>1, <1>2, <1>3

\* What getBytes does with what has been read disturbs neither the connection
\* nor the reasons to give it up.
LEMMA ServingKeepsConnection ==
  ASSUME ConnectionInv,
         UNCHANGED <<reopen, url, sock, at, past>>,
         pc \notin Quiescent, pc # "done", pc' \notin Quiescent
  PROVE  ConnectionInv'
BY DEF ConnectionInv, Reusable, Ready, GivenUp

LEMMA GetBytesKeepsConnection ==
  ASSUME ConnectionInv, IsThereResponseData \/ Parse
  PROVE  ConnectionInv'
<1>1. ASSUME NEW n, GetBytes(n), pc \in {"probe", "ready"}
      PROVE  ConnectionInv'
  <2>1. pc' \in {"header", "body"}
    BY <1>1 DEF GetBytes
  <2>2. UNCHANGED <<reopen, url, sock, at, past>>
    BY <1>1 DEF GetBytes
  <2> QED BY <1>1, <2>1, <2>2, ServingKeepsConnection
<1> QED BY <1>1 DEF IsThereResponseData, Parse

LEMMA GivingKeepsConnection ==
  ASSUME ConnectionInv, GiveRest \/ GiveLength \/ GiveNotChunked \/ GiveChunk
  PROVE  ConnectionInv'
<1>1. ASSUME NEW k, NEW s, Give(k, s), pc \in {"body", "length", "none", "chunk"}
      PROVE  /\ pc' \in {"ready", "done"} /\ pc \notin Quiescent /\ pc # "done"
             /\ UNCHANGED <<reopen, url, sock, at>>
  BY <1>1 DEF Give
<1>2. CASE GiveRest
  BY <1>1, <1>2, ServingKeepsConnection DEF GiveRest
<1>3. CASE GiveNotChunked
  BY <1>1, <1>3, ServingKeepsConnection DEF GiveNotChunked
<1>4. CASE GiveChunk
  BY <1>1, <1>4, ServingKeepsConnection DEF GiveChunk
<1>5. CASE GiveLength
  <2>1. /\ pc' \in {"ready", "done"} /\ pc \notin Quiescent /\ pc # "done"
        /\ UNCHANGED <<reopen, url, sock, at>>
    BY <1>1, <1>5 DEF GiveLength
  <2>2. past' = past \cup {"recount"} \/ past' = past
    BY <1>5 DEF GiveLength
  <2> QED BY <2>1, <2>2 DEF ConnectionInv, Reusable, Ready, GivenUp
<1> QED BY <1>2, <1>3, <1>4, <1>5

LEMMA ChunksKeepConnection ==
  ASSUME ConnectionInv, NextChunk \/ GetChunkSize \/ ChunkFilled \/ EndChunks
  PROVE  ConnectionInv'
<1>1. CASE NextChunk
  <2>1. pc = "body" /\ pc' \in {"fill", "size"} /\ UNCHANGED <<reopen, url, sock, at, past>>
    BY <1>1 DEF NextChunk
  <2> QED BY <2>1, ServingKeepsConnection
<1>2. CASE ChunkFilled \/ EndChunks
  <2>1. /\ pc \in {"fill", "trailer"} /\ pc' \in {"peek", "chunk"}
        /\ UNCHANGED <<reopen, url, sock, at, past>>
    <3>1. CASE ChunkFilled
      BY <3>1 DEF ChunkFilled
    <3>2. CASE EndChunks
      BY <3>2 DEF EndChunks
    <3> QED BY <1>2, <3>1, <3>2
  <2> QED BY <2>1, ServingKeepsConnection
<1>3. CASE GetChunkSize
  <2>1. \/ reopen' = TRUE /\ Throw
        \/ pc' \in {"trailer", "fill", "chunk"} /\ reopen' = reopen /\ status' = status
    BY <1>3 DEF GetChunkSize
  <2>2. pc \in {"size", "peek"} /\ UNCHANGED <<url, sock, at, past>>
    BY <1>3 DEF GetChunkSize
  <2>3. CASE reopen' = TRUE /\ Throw
    BY <2>2, <2>3 DEF ConnectionInv, Reusable, Ready, GivenUp
  <2>4. CASE pc' \in {"trailer", "fill", "chunk"} /\ reopen' = reopen
    BY <2>2, <2>4, ServingKeepsConnection
  <2> QED BY <2>1, <2>3, <2>4
<1> QED BY <1>1, <1>2, <1>3

LEMMA EndKeepsConnection == ConnectionInv /\ EndCall => ConnectionInv'
BY DEF EndCall, ConnectionInv, Reusable, Ready, GivenUp

LEMMA PeerKeepsConnection == ConnectionInv /\ Peer => ConnectionInv'
<1> SUFFICES ASSUME ConnectionInv, Peer PROVE ConnectionInv'
  OBVIOUS
<1>1. UNCHANGED clientVars
  BY DEF Peer, PeerContinues, PeerCloses, PeerResets, PeerAnswers
<1> QED BY <1>1 DEF ConnectionInv, Reusable, Ready, GivenUp

LEMMA NextKeepsConnection == ConnectionInv /\ [Next]_vars => ConnectionInv'
<1> SUFFICES ASSUME ConnectionInv, [Next]_vars PROVE ConnectionInv'
  OBVIOUS
<1>1. CASE UNCHANGED vars
  BY <1>1 DEF vars, ConnectionInv, Reusable, Ready, GivenUp
<1>2. CASE Between
  BY <1>2, BetweenKeepsConnection
<1>3. CASE Client
  <2>1. CASE ReadLength \/ ReadNotChunked
    BY <2>1, ReadingKeepsConnection DEF ReadLength, ReadNotChunked, InGetBytes
  <2>2. CASE ReadChunk
    <3>1. pc \in InGetBytes
      BY <2>2 DEF ReadChunk, Incomplete, InGetBytes
    <3> QED BY <2>2, <3>1, ReadingKeepsConnection DEF ReadChunk
  <2> QED BY <1>3, <2>1, <2>2, OpeningKeepsConnection, FlushingKeepsConnection,
             HeaderKeepsConnection, GetBytesKeepsConnection, GivingKeepsConnection,
             ChunksKeepConnection, EndKeepsConnection DEF Client
<1>4. CASE Peer
  BY <1>4, PeerKeepsConnection
<1> QED BY <1>1, <1>2, <1>3, <1>4 DEF Next

LEMMA ConnectionInvariant == Spec => []ConnectionInv
<1> QED BY InitConnection, NextKeepsConnection, PTL DEF Spec

\* Whatever happened in the calls before, openConnection leaves a connection to
\* the endpoint set last whose end was not announced, and an input state
\* machine with nothing of an earlier answer in it.
THEOREM ConnectionIsFresh == Spec => []FreshConnection
<1>1. ConnectionInv => FreshConnection
  BY DEF ConnectionInv, Reusable, Ready, FreshConnection
<1> QED BY <1>1, ConnectionInvariant, PTL

\* closeConnection(false) at the end of a call closes the socket only after an
\* announcement or a failure.
THEOREM ConnectionSurvives == Spec => KeepAlive
<1> DEFINE Survives == pc' = "idle" /\ sock /\ ~sock' => "close" \in past \/ status = "failed"
<1>1. ConnectionInv /\ [Next]_vars => [Survives]_vars
  <2> SUFFICES ASSUME ConnectionInv, Next, pc' = "idle", sock, ~sock'
               PROVE  "close" \in past \/ status = "failed"
    OBVIOUS
  <2>1. CASE EndCall
    BY <2>1 DEF EndCall, ConnectionInv, GivenUp
  <2>2. CASE Between
    BY <2>2 DEF Between, SetEndpointUri, SendBytes, SerializeFails, BeginCall
  <2>3. CASE Peer
    BY <2>3 DEF Peer, PeerContinues, PeerCloses, PeerResets, PeerAnswers
  <2>4. CASE Client /\ ~EndCall
    <3>1. pc' # "idle"
      BY <2>4 DEF Client, Open, Flush, Reopen, Reflush, OpenConnection, FlushOutput,
           IsThereResponseData, Parse, GetBytes, ReadHeader, ReadThrows, Arrives, NothingRead,
           ProcessHeader, HandleRedirect, GiveRest, ReadLength, GiveLength, ReadNotChunked,
           GiveNotChunked, Give, NextChunk, ReadChunk, Incomplete, GetNextDataPacket,
           GetChunkSize, ChunkFilled, EndChunks, GiveChunk
    <3> QED BY <3>1
  <2> QED BY <2>1, <2>2, <2>3, <2>4 DEF Next
<1> QED BY <1>1, ConnectionInvariant, PTL DEF Spec, KeepAlive

\* Every nonempty set of naturals has a least element.
LEMMA LeastNatural ==
  ASSUME NEW S \in SUBSET Nat, S # {}
  PROVE  First(S) \in S /\ \A j \in S : First(S) <= j
<1> DEFINE Below(n) == 0 .. n - 1
           T == {Below(n) : n \in S}
           R == StrictSubsetOrdering(Nat)
<1>1. T \subseteq FiniteSubsetsOf(Nat) /\ T # {}
  <2>1. \A n \in S : IsFiniteSet(Below(n)) /\ Below(n) \subseteq Nat
    BY FS_Interval
  <2> QED BY <2>1 DEF FiniteSubsetsOf
<1>2. IsWellFoundedOn(R, FiniteSubsetsOf(Nat))
  BY FS_StrictSubsetOrderingWellFounded
<1>3. PICK t \in T : \A u \in T : <<u, t>> \notin R
  <2> HIDE DEF R, T
  <2> QED BY <1>1, <1>2, WFMin
<1>4. PICK i \in S : t = Below(i)
  OBVIOUS
<1>5. ASSUME NEW j \in S, j < i
      PROVE  FALSE
  <2>1. Below(j) \subseteq Below(i) /\ j \in Below(i) /\ j \notin Below(j)
    BY <1>5
  <2>2. <<Below(j), t>> \in R
    BY <2>1, <1>4 DEF StrictSubsetOrdering
  <2> QED BY <1>3, <2>2
<1>6. \A j \in S : i <= j
  BY <1>5
<1> QED BY <1>6 DEF First

\* Induction over the naturals, for a property given as a set.
LEMMA SetInduction ==
  ASSUME NEW T, 0 \in T, \A n \in Nat : n \in T => n + 1 \in T
  PROVE  \A n \in Nat : n \in T
<1> DEFINE S == Nat \ T
<1>1. CASE S = {}
  BY <1>1
<1>2. CASE S # {}
  <2>1. First(S) \in S /\ \A j \in S : First(S) <= j
    BY <1>2, LeastNatural
  <2>2. First(S) - 1 \in Nat /\ First(S) - 1 \notin S
    BY <2>1
  <2> QED BY <2>1, <2>2
<1> QED BY <1>1, <1>2

\* The partial sums of the chunks.
LEMMA SumsAreRecursive ==
  ASSUME NEW a, Len(a.chunks) \in Nat, \A i \in 1 .. Len(a.chunks) : a.chunks[i] \in Nat
  PROVE  Sums(a) = [i \in 0 .. Len(a.chunks) |->
                      IF i = 0 THEN 0 ELSE Sums(a)[i - 1] + a.chunks[i]]
<1> DEFINE n == Len(a.chunks)
           Def(g, m) == [i \in 0 .. m |-> IF i = 0 THEN 0 ELSE g[i - 1] + a.chunks[i]]
           T == {m \in Nat : \E g : g = Def(g, m)}
<1>1. 0 \in T
  <2>1. [i \in 0 .. 0 |-> 0] = Def([i \in 0 .. 0 |-> 0], 0)
    OBVIOUS
  <2> QED BY <2>1
<1>2. ASSUME NEW m \in Nat, m \in T
      PROVE  m + 1 \in T
  <2>1. PICK g : g = Def(g, m)
    BY <1>2
  <2> DEFINE h == [i \in 0 .. m + 1 |-> IF i = m + 1 THEN g[m] + a.chunks[m + 1] ELSE g[i]]
  <2>2. h = Def(h, m + 1)
    <3>1. \A i \in 0 .. m : g[i] = IF i = 0 THEN 0 ELSE g[i - 1] + a.chunks[i]
      BY <2>1, Zenon
    <3>2. ASSUME NEW i \in 0 .. m + 1
          PROVE  h[i] = IF i = 0 THEN 0 ELSE h[i - 1] + a.chunks[i]
      <4>1. CASE i = m + 1
        <5>1. m \in 0 .. m + 1 /\ m # m + 1
          OBVIOUS
        <5>2. h[m] = g[m]
          BY <5>1
        <5>3. i - 1 = m /\ i # 0
          BY <4>1
        <5>4. h[i] = g[m] + a.chunks[m + 1]
          BY <4>1
        <5> QED BY <5>2, <5>3, <5>4, <4>1
      <4>2. CASE i # m + 1
        <5>1. i \in 0 .. m
          BY <4>2
        <5>2. h[i] = g[i]
          BY <4>2
        <5>3. i # 0 => h[i - 1] = g[i - 1]
          BY <5>1
        <5> QED BY <5>1, <5>2, <5>3, <3>1
      <4> QED BY <4>1, <4>2
    <3> HIDE DEF h
    <3>3. h = [i \in 0 .. m + 1 |-> h[i]]
      BY DEF h
    <3> QED BY <3>2, <3>3, Zenon
  <2>3. \E f : f = Def(f, m + 1)
    <3> HIDE DEF h, Def
    <3> QED BY <2>2
  <2> QED BY <2>3
<1>3. n \in T
  <2> HIDE DEF T
  <2> QED BY <1>1, <1>2, SetInduction
<1>4. PICK g : g = Def(g, n)
  BY <1>3
<1>5. Sums(a) = CHOOSE sum : sum = Def(sum, n)
  BY DEF Sums
<1> HIDE DEF Def
<1>6. Sums(a) = Def(Sums(a), n)
  BY <1>4, <1>5
<1> QED BY <1>6 DEF Def

LEMMA AnswerChunks ==
  ASSUME NEW a \in Answer
  PROVE  /\ Len(a.chunks) \in Nat
         /\ \A i \in 1 .. Len(a.chunks) : a.chunks[i] \in Nat \ {0}
<1>1. a.chunks \in Seq(Nat \ {0})
  BY DEF Answer
<1> QED BY <1>1

\* What the partial sums are.
LEMMA SumsFacts ==
  ASSUME NEW a \in Answer
  PROVE  /\ Sums(a)[0] = 0
         /\ \A i \in 1 .. Len(a.chunks) : Sums(a)[i] = Sums(a)[i - 1] + a.chunks[i]
         /\ \A i \in 0 .. Len(a.chunks) : Sums(a)[i] \in Nat
<1> DEFINE n == Len(a.chunks)
           T == {i \in Nat : i <= n => Sums(a)[i] \in Nat}
<1> USE AnswerChunks
<1>1. Sums(a) = [i \in 0 .. n |-> IF i = 0 THEN 0 ELSE Sums(a)[i - 1] + a.chunks[i]]
  BY SumsAreRecursive
<1> HIDE DEF n
<1>2. n \in Nat /\ \A i \in 1 .. n : a.chunks[i] \in Nat
  BY DEF n
<1>3. \A i \in 0 .. n : Sums(a)[i] = IF i = 0 THEN 0 ELSE Sums(a)[i - 1] + a.chunks[i]
  BY <1>1, Zenon
<1>4. Sums(a)[0] = 0
  BY <1>2, <1>3
<1>5. \A i \in 1 .. n : Sums(a)[i] = Sums(a)[i - 1] + a.chunks[i]
  BY <1>2, <1>3
<1>6. \A i \in Nat : i \in T
  <2>1. 0 \in T
    BY <1>4
  <2>2. \A i \in Nat : i \in T => i + 1 \in T
    BY <1>2, <1>5
  <2> HIDE DEF T
  <2> QED BY <2>1, <2>2, SetInduction
<1>7. \A i \in 0 .. n : Sums(a)[i] \in Nat
  BY <1>2, <1>6
<1> QED BY <1>4, <1>5, <1>7 DEF n

\* They grow with every chunk.
LEMMA SumsGrow ==
  ASSUME NEW a \in Answer, NEW i \in 0 .. Len(a.chunks), NEW j \in 0 .. Len(a.chunks)
  PROVE  /\ i <= j => Sums(a)[i] <= Sums(a)[j]
         /\ i < j => Sums(a)[i] < Sums(a)[j]
<1> DEFINE n == Len(a.chunks)
           T == {d \in Nat : i + d <= n => Sums(a)[i] + d <= Sums(a)[i + d]}
<1>1. n \in Nat /\ \A k \in 1 .. n : a.chunks[k] \in Nat \ {0}
  BY AnswerChunks
<1>2. /\ \A k \in 1 .. n : Sums(a)[k] = Sums(a)[k - 1] + a.chunks[k]
      /\ \A k \in 0 .. n : Sums(a)[k] \in Nat
  BY SumsFacts
<1>3. i \in 0 .. n /\ j \in 0 .. n
  OBVIOUS
<1> HIDE DEF n
<1>4. \A d \in Nat : d \in T
  <2>1. 0 \in T
    BY <1>1, <1>2, <1>3
  <2>2. ASSUME NEW d \in Nat, d \in T
        PROVE  d + 1 \in T
    <3>1. CASE i + (d + 1) <= n
      <4>1. i + d + 1 \in 1 .. n /\ i + d \in 0 .. n /\ i \in 0 .. n
        BY <1>1, <1>3, <3>1
      <4>2. Sums(a)[i + d + 1] = Sums(a)[i + d] + a.chunks[i + d + 1]
        BY <1>2, <4>1
      <4>3. Sums(a)[i] + d <= Sums(a)[i + d]
        BY <2>2, <4>1
      <4>4. a.chunks[i + d + 1] \in Nat \ {0}
        BY <1>1, <4>1
      <4>5. Sums(a)[i] \in Nat /\ Sums(a)[i + d] \in Nat
        BY <1>2, <4>1
      <4>6. Sums(a)[i] + (d + 1) <= Sums(a)[i + (d + 1)]
        <5>1. i + d + 1 = i + (d + 1)
          OBVIOUS
        <5> QED BY <4>2, <4>3, <4>4, <4>5, <5>1
      <4> QED BY <4>6
    <3>2. CASE ~(i + (d + 1) <= n)
      <4>1. i + (d + 1) <= n => Sums(a)[i] + (d + 1) <= Sums(a)[i + (d + 1)]
        BY <3>2, Zenon
      <4>2. d + 1 \in Nat
        OBVIOUS
      <4> QED BY <4>1, <4>2, Zenon
    <3> QED BY <3>1, <3>2
  <2> HIDE DEF T
  <2> QED BY <2>1, <2>2, SetInduction
<1>5. CASE i <= j
  <2>1. j - i \in T /\ i + (j - i) = j
    BY <1>1, <1>3, <1>4, <1>5
  <2>2. Sums(a)[i] + (j - i) <= Sums(a)[j]
    BY <2>1, <1>1, <1>3
  <2> QED BY <2>2, <1>1, <1>2, <1>3
<1>6. CASE ~(i <= j)
  BY <1>1, <1>3, <1>6
<1> QED BY <1>5, <1>6

LEMMA BodySizeType == ASSUME NEW a \in Answer PROVE BodySize(a) \in Nat
BY AnswerChunks, SumsFacts DEF BodySize

-----------------------------------------------------------------------------
(***************************************************************************)
(* The bytes of an answer.                                                 *)
(***************************************************************************)
BodySet ==
  [kind : {"cr", "lf"}, id : {0}, of : {0}]
    \cup [kind : {"size"}, id : 0 .. MaxCalls, of : Nat \X BOOLEAN]
    \cup [kind : {"data"}, id : 0 .. MaxCalls, of : Nat \X Nat]
SymbolSet == BodySet \cup [kind : {"http"}, id : 0 .. MaxCalls, of : Answers \cup {Continue}]

LEMMA ContinueIsAnswer == Continue \in Answer /\ Answers \subseteq Answer
BY HTTPAssumption DEF Continue, Answer

LEMMA CRLFProperties ==
  /\ CRLF \in Seq(BodySet) /\ Len(CRLF) = 2
  /\ CRLF[1].kind = "cr" /\ CRLF[2].kind = "lf"
BY DEF CRLF, Symbol, BodySet

LEMMA LineProperties ==
  ASSUME NEW id \in 0 .. MaxCalls, NEW k \in Nat, NEW ext \in BOOLEAN
  PROVE  /\ Line(id, k, ext) \in Seq(BodySet) /\ Len(Line(id, k, ext)) = 3
         /\ Line(id, k, ext)[1] = Symbol("size", id, <<k, ext>>)
         /\ Line(id, k, ext)[2].kind = "cr" /\ Line(id, k, ext)[3].kind = "lf"
<1>1. Symbol("size", id, <<k, ext>>) \in BodySet
  BY DEF Symbol, BodySet
<1>2. <<Symbol("size", id, <<k, ext>>)>> \in Seq(BodySet)
  BY <1>1
<1>3. Len(<<Symbol("size", id, <<k, ext>>)>>) = 1
  OBVIOUS
<1>4. <<Symbol("size", id, <<k, ext>>)>>[1] = Symbol("size", id, <<k, ext>>)
  OBVIOUS
<1> DEFINE l == <<Symbol("size", id, <<k, ext>>)>>
<1> HIDE DEF l
<1>5. /\ l \o CRLF \in Seq(BodySet)
      /\ Len(l \o CRLF) = Len(l) + Len(CRLF)
      /\ \A i \in 1 .. Len(l) + Len(CRLF) :
           (l \o CRLF)[i] = IF i <= Len(l) THEN l[i] ELSE CRLF[i - Len(l)]
  BY <1>2, CRLFProperties, ConcatProperties DEF l
<1>6. Line(id, k, ext) = l \o CRLF
  BY DEF Line, l
<1>7. Len(l) = 1 /\ l[1] = Symbol("size", id, <<k, ext>>)
  BY <1>3, <1>4 DEF l
<1> QED BY <1>5, <1>6, <1>7, CRLFProperties

LEMMA DataProperties ==
  ASSUME NEW id \in 0 .. MaxCalls, NEW n \in Nat, NEW from \in Nat, NEW k \in Nat
  PROVE  /\ Data(id, n, from, k) \in Seq(BodySet) /\ Len(Data(id, n, from, k)) = k
         /\ \A i \in 1 .. k : Data(id, n, from, k)[i] = Symbol("data", id, <<from + i, n>>)
<1>1. \A i \in 1 .. k : Symbol("data", id, <<from + i, n>>) \in BodySet
  BY DEF Symbol, BodySet
<1> DEFINE d == [i \in 1 .. k |-> Symbol("data", id, <<from + i, n>>)]
<1>2. d \in [1 .. k -> BodySet]
  BY <1>1
<1>3. d \in Seq(BodySet)
  BY <1>2, SeqDef
<1>4. Len(d) = k
  OBVIOUS
<1>5. \A i \in 1 .. k : d[i] = Symbol("data", id, <<from + i, n>>)
  OBVIOUS
<1> QED BY <1>3, <1>4, <1>5 DEF Data

\* The sequence r is s, of length k, and t, of length l, in a row.
InARow(S, s, t, k, l, r) ==
  /\ s \in Seq(S) /\ Len(s) = k
  /\ t \in Seq(S) /\ Len(t) = l
  /\ r = s \o t

Joined(S, s, t, k, l, r) ==
  /\ r \in Seq(S) /\ Len(r) = k + l
  /\ \A i \in 1 .. k : r[i] = s[i]
  /\ \A i \in 1 .. l : r[k + i] = t[i]

LEMMA ConcatTwo ==
  ASSUME NEW S, NEW s, NEW t, NEW k, NEW l, NEW r, InARow(S, s, t, k, l, r)
  PROVE  Joined(S, s, t, k, l, r)
<1>0. s \in Seq(S) /\ Len(s) = k /\ t \in Seq(S) /\ Len(t) = l /\ r = s \o t
  BY DEF InARow
<1>1. /\ r \in Seq(S) /\ Len(r) = k + l
      /\ \A i \in 1 .. k + l : r[i] = IF i <= k THEN s[i] ELSE t[i - k]
  BY <1>0, ConcatProperties
<1>2. k \in Nat /\ l \in Nat
  BY <1>0
<1>3. \A i \in 1 .. k : r[i] = s[i]
  BY <1>1, <1>2
<1>4. ASSUME NEW i \in 1 .. l
      PROVE  r[k + i] = t[i]
  <2>1. k + i \in 1 .. k + l /\ ~(k + i <= k) /\ k + i - k = i
    BY <1>2
  <2> QED BY <2>1, <1>1, <1>2
<1> QED BY <1>1, <1>3, <1>4 DEF Joined

\* Four pieces in a row.
FourInARow(S, s, t, u, v, k, l, m, n, r) ==
  /\ s \in Seq(S) /\ Len(s) = k
  /\ t \in Seq(S) /\ Len(t) = l
  /\ u \in Seq(S) /\ Len(u) = m
  /\ v \in Seq(S) /\ Len(v) = n
  /\ r = s \o t \o u \o v

FourJoined(S, s, t, u, v, k, l, m, n, r) ==
  /\ r \in Seq(S)
  /\ Len(r) = k + l + m + n
  /\ \A i \in 1 .. k : r[i] = s[i]
  /\ \A i \in 1 .. l : r[k + i] = t[i]
  /\ \A i \in 1 .. m : r[k + l + i] = u[i]
  /\ \A i \in 1 .. n : r[k + l + m + i] = v[i]

LEMMA ConcatFour ==
  ASSUME NEW S, NEW s, NEW t, NEW u, NEW v, NEW k, NEW l, NEW m, NEW n, NEW r,
         FourInARow(S, s, t, u, v, k, l, m, n, r)
  PROVE  FourJoined(S, s, t, u, v, k, l, m, n, r)
<1>0. /\ s \in Seq(S) /\ Len(s) = k
      /\ t \in Seq(S) /\ Len(t) = l
      /\ u \in Seq(S) /\ Len(u) = m
      /\ v \in Seq(S) /\ Len(v) = n
      /\ r = s \o t \o u \o v
  BY DEF FourInARow
<1> DEFINE st == s \o t
           stu == st \o u
<1>a. r = stu \o v
  BY <1>0
<1>1. /\ st \in Seq(S) /\ Len(st) = k + l
      /\ \A i \in 1 .. k : st[i] = s[i]
      /\ \A i \in 1 .. l : st[k + i] = t[i]
  <2>1. InARow(S, s, t, k, l, st)
    BY <1>0 DEF InARow
  <2> HIDE DEF st
  <2>2. Joined(S, s, t, k, l, st)
    BY <2>1, ConcatTwo, Zenon
  <2> QED BY <2>2, Zenon DEF Joined
<1> HIDE DEF st
<1>2. /\ stu \in Seq(S) /\ Len(stu) = k + l + m
      /\ \A i \in 1 .. k + l : stu[i] = st[i]
      /\ \A i \in 1 .. m : stu[k + l + i] = u[i]
  <2>1. InARow(S, st, u, k + l, m, stu)
    BY <1>0, <1>1 DEF InARow
  <2> HIDE DEF stu
  <2>2. Joined(S, st, u, k + l, m, stu)
    BY <2>1, ConcatTwo, Zenon
  <2> QED BY <2>2, Zenon DEF Joined
<1> HIDE DEF stu
<1>4. /\ r \in Seq(S) /\ Len(r) = k + l + m + n
      /\ \A i \in 1 .. k + l + m : r[i] = stu[i]
      /\ \A i \in 1 .. n : r[k + l + m + i] = v[i]
  <2>1. InARow(S, stu, v, k + l + m, n, r)
    BY <1>0, <1>a, <1>2, Zenon DEF InARow
  <2>2. Joined(S, stu, v, k + l + m, n, r)
    BY <2>1, ConcatTwo, Zenon
  <2> QED BY <2>2, Zenon DEF Joined
<1>5. k \in Nat /\ l \in Nat /\ m \in Nat /\ n \in Nat
  BY <1>0
<1>6. \A i \in 1 .. k : r[i] = s[i]
  <2> TAKE i \in 1 .. k
  <2>1. i \in 1 .. k + l /\ i \in 1 .. k + l + m
    BY <1>5
  <2> QED BY <2>1, <1>1, <1>2, <1>4, Zenon
<1>7. ASSUME NEW i \in 1 .. l
      PROVE  r[k + i] = t[i]
  <2>1. k + i \in 1 .. k + l /\ k + i \in 1 .. k + l + m
    BY <1>5
  <2> QED BY <2>1, <1>1, <1>2, <1>4, Zenon
<1>8. ASSUME NEW i \in 1 .. m
      PROVE  r[k + l + i] = u[i]
  <2>1. k + l + i \in 1 .. k + l + m
    BY <1>5
  <2> QED BY <2>1, <1>2, <1>4, Zenon
<1> QED BY <1>4, <1>6, <1>7, <1>8, Zenon DEF FourJoined

\* Byte k of chunk i of the answer a to the call id, with its size line and CRLF.
ChunkByte(x, k, id, a, i) ==
  LET c == a.chunks[i] IN
  /\ k = 1 => x = Symbol("size", id, <<c, a.ext>>)
  /\ k = 2 => x.kind = "cr"
  /\ k = 3 => x.kind = "lf"
  /\ k \in 4 .. c + 3 => x = Symbol("data", id, <<Sums(a)[i - 1] + (k - 3), BodySize(a)>>)
  /\ k = c + 4 => x.kind = "cr"
  /\ k = c + 5 => x.kind = "lf"

\* The chunk is at offset b of w.
ChunkAt(w, b, id, a, i) ==
  /\ b + (a.chunks[i] + 5) <= Len(w)
  /\ \A k \in 1 .. a.chunks[i] + 5 : ChunkByte(w[b + k], k, id, a, i)

\* What the first i chunks are followed by.
NextPiece(s, id, a, i) ==
  s \o Line(id, a.chunks[i], a.ext)
    \o Data(id, BodySize(a), Sums(a)[i - 1], a.chunks[i]) \o CRLF

LEMMA ChunksAreRecursive ==
  ASSUME NEW id, NEW a, Len(a.chunks) \in Nat
  PROVE  Chunks(id, a) = [i \in 0 .. Len(a.chunks) |->
                            IF i = 0 THEN <<>> ELSE NextPiece(Chunks(id, a)[i - 1], id, a, i)]
<1> DEFINE n == Len(a.chunks)
           Def(g, m) == [i \in 0 .. m |-> IF i = 0 THEN <<>> ELSE NextPiece(g[i - 1], id, a, i)]
           T == {m \in Nat : \E g : g = Def(g, m)}
<1>1. 0 \in T
  <2>1. [i \in 0 .. 0 |-> <<>>] = Def([i \in 0 .. 0 |-> <<>>], 0)
    OBVIOUS
  <2> QED BY <2>1
<1>2. ASSUME NEW m \in Nat, m \in T
      PROVE  m + 1 \in T
  <2>1. PICK g : g = Def(g, m)
    BY <1>2
  <2> DEFINE h == [i \in 0 .. m + 1 |-> IF i = m + 1 THEN NextPiece(g[m], id, a, m + 1) ELSE g[i]]
  <2>2. h = Def(h, m + 1)
    <3>1. \A i \in 0 .. m : g[i] = IF i = 0 THEN <<>> ELSE NextPiece(g[i - 1], id, a, i)
      BY <2>1, Zenon
    <3>2. ASSUME NEW i \in 0 .. m + 1
          PROVE  h[i] = IF i = 0 THEN <<>> ELSE NextPiece(h[i - 1], id, a, i)
      <4>1. CASE i = m + 1
        <5>1. m \in 0 .. m + 1 /\ m # m + 1
          OBVIOUS
        <5>2. h[m] = g[m]
          BY <5>1
        <5>3. i - 1 = m /\ i # 0
          BY <4>1
        <5>4. h[i] = NextPiece(g[m], id, a, m + 1)
          BY <4>1
        <5> QED BY <5>2, <5>3, <5>4, <4>1
      <4>2. CASE i # m + 1
        <5>1. i \in 0 .. m
          BY <4>2
        <5>2. h[i] = g[i]
          BY <4>2
        <5>3. i # 0 => h[i - 1] = g[i - 1]
          BY <5>1
        <5> QED BY <5>1, <5>2, <5>3, <3>1
      <4> QED BY <4>1, <4>2
    <3> HIDE DEF h
    <3>3. h = [i \in 0 .. m + 1 |-> h[i]]
      BY DEF h
    <3> QED BY <3>2, <3>3, Zenon
  <2>3. \E f : f = Def(f, m + 1)
    <3> HIDE DEF h, Def
    <3> QED BY <2>2
  <2> QED BY <2>3
<1>3. n \in T
  <2> HIDE DEF T
  <2> QED BY <1>1, <1>2, SetInduction
<1>4. PICK g : g = Def(g, n)
  BY <1>3
<1>5. Chunks(id, a) = CHOOSE chunk : chunk = Def(chunk, n)
  BY DEF Chunks, NextPiece
<1> HIDE DEF Def
<1>6. Chunks(id, a) = Def(Chunks(id, a), n)
  BY <1>4, <1>5
<1> QED BY <1>6 DEF Def

\* One chunk more.
LEMMA PieceProperties ==
  ASSUME NEW id \in 0 .. MaxCalls, NEW a \in Answer, NEW i \in 1 .. Len(a.chunks),
         NEW s \in Seq(BodySet), NEW w, w = NextPiece(s, id, a, i)
  PROVE  /\ w \in Seq(BodySet)
         /\ Len(w) = Len(s) + (a.chunks[i] + 5)
         /\ \A k \in 1 .. Len(s) : w[k] = s[k]
         /\ ChunkAt(w, Len(s), id, a, i)
<1> DEFINE c == a.chunks[i]
           l == Line(id, c, a.ext)
           d == Data(id, BodySize(a), Sums(a)[i - 1], c)
<1>1. c \in Nat /\ c > 0 /\ a.ext \in BOOLEAN
  BY AnswerChunks DEF Answer
<1>2. Sums(a)[i - 1] \in Nat
  BY AnswerChunks, SumsFacts
<1>3. /\ l \in Seq(BodySet) /\ Len(l) = 3
      /\ l[1] = Symbol("size", id, <<c, a.ext>>)
      /\ l[2].kind = "cr" /\ l[3].kind = "lf"
  BY <1>1, LineProperties
<1>4. /\ d \in Seq(BodySet) /\ Len(d) = c
      /\ \A k \in 1 .. c : d[k] = Symbol("data", id, <<Sums(a)[i - 1] + k, BodySize(a)>>)
  BY <1>1, <1>2, BodySizeType, DataProperties
<1>5. w = s \o l \o d \o CRLF
  BY DEF NextPiece
<1> HIDE DEF l, d, c
<1>a. CRLF \in Seq(BodySet) /\ Len(CRLF) = 2
  BY CRLFProperties
<1>6. /\ w \in Seq(BodySet)
      /\ Len(w) = Len(s) + 3 + c + 2
      /\ \A k \in 1 .. Len(s) : w[k] = s[k]
      /\ \A k \in 1 .. 3 : w[Len(s) + k] = l[k]
      /\ \A k \in 1 .. c : w[Len(s) + 3 + k] = d[k]
      /\ \A k \in 1 .. 2 : w[Len(s) + 3 + c + k] = CRLF[k]
  <2>1. FourInARow(BodySet, s, l, d, CRLF, Len(s), 3, c, 2, w)
    BY <1>3, <1>4, <1>5, <1>a DEF FourInARow
  <2>2. FourJoined(BodySet, s, l, d, CRLF, Len(s), 3, c, 2, w)
    BY <2>1, ConcatFour, Zenon
  <2> QED BY <2>2, Zenon DEF FourJoined
<1>7. Len(s) \in Nat
  OBVIOUS
<1>8. Len(w) = Len(s) + (c + 5)
  BY <1>1, <1>3, <1>4, <1>6, <1>7, CRLFProperties
<1>9. ASSUME NEW k \in 1 .. c + 5
      PROVE  ChunkByte(w[Len(s) + k], k, id, a, i)
  <2>1. CASE k \in 1 .. 3
    <3>1. w[Len(s) + k] = l[k]
      BY <2>1, <1>3, <1>6
    <3>2. k = 1 \/ k = 2 \/ k = 3
      BY <2>1
    <3>3. k \notin 4 .. c + 3 /\ k # c + 4 /\ k # c + 5
      BY <2>1, <1>1
    <3>4. /\ k = 1 => w[Len(s) + k] = Symbol("size", id, <<c, a.ext>>)
          /\ k = 2 => w[Len(s) + k].kind = "cr"
          /\ k = 3 => w[Len(s) + k].kind = "lf"
      BY <3>1, <1>3
    <3> QED BY <3>3, <3>4, Zenon DEF ChunkByte, c
  <2>2. CASE k \in 4 .. c + 3
    <3>1. k - 3 \in 1 .. c /\ Len(s) + 3 + (k - 3) = Len(s) + k
      BY <2>2, <1>1, <1>7
    <3>2. w[Len(s) + k] = d[k - 3]
      BY <3>1, <1>4, <1>6
    <3>3. d[k - 3] = Symbol("data", id, <<Sums(a)[i - 1] + (k - 3), BodySize(a)>>)
      BY <3>1, <1>4
    <3>4. k # 1 /\ k # 2 /\ k # 3 /\ k # c + 4 /\ k # c + 5
      BY <2>2, <1>1
    <3> QED BY <3>2, <3>3, <3>4, Zenon DEF ChunkByte, c
  <2>3. CASE k \in {c + 4, c + 5}
    <3> DEFINE e == k - (c + 3)
    <3>1. e \in 1 .. 2 /\ Len(s) + 3 + c + e = Len(s) + k
      BY <2>3, <1>1, <1>7
    <3>2. w[Len(s) + k] = CRLF[k - (c + 3)]
      BY <3>1, <1>6, CRLFProperties
    <3>3. k = c + 4 => k - (c + 3) = 1
      BY <1>1
    <3>4. k = c + 5 => k - (c + 3) = 2
      BY <1>1
    <3>5. k # 1 /\ k # 2 /\ k # 3 /\ k \notin 4 .. c + 3
      BY <2>3, <1>1
    <3>6. /\ k = c + 4 => w[Len(s) + k].kind = "cr"
          /\ k = c + 5 => w[Len(s) + k].kind = "lf"
      BY <3>2, <3>3, <3>4, CRLFProperties
    <3> QED BY <3>5, <3>6, Zenon DEF ChunkByte, c
  <2> QED BY <2>1, <2>2, <2>3, <1>1
<1>10. ChunkAt(w, Len(s), id, a, i)
  BY <1>7, <1>8, <1>9 DEF ChunkAt, c
<1> QED BY <1>6, <1>8, <1>10 DEF c

\* A chunk stays where it is when bytes follow.
LEMMA ChunkStays ==
  ASSUME NEW s, NEW w, NEW b \in Nat, NEW id, NEW a \in Answer, NEW i \in 1 .. Len(a.chunks),
         NEW e \in Nat, Len(s) \in Nat, Len(w) \in Nat,
         ChunkAt(s, b, id, a, i), Len(s) + e <= Len(w), \A k \in 1 .. Len(s) : w[e + k] = s[k]
  PROVE  ChunkAt(w, e + b, id, a, i)
<1> DEFINE c == a.chunks[i]
<1>1. c \in Nat
  BY AnswerChunks
<1> HIDE DEF c
<1>2. b + (c + 5) <= Len(s)
  BY DEF ChunkAt, c
<1>3. ASSUME NEW k \in 1 .. c + 5
      PROVE  w[e + b + k] = s[b + k]
  <2>1. b + k \in 1 .. Len(s) /\ e + b + k = e + (b + k)
    BY <1>1, <1>2
  <2> QED BY <2>1
<1>4. e + b + (c + 5) <= Len(w)
  BY <1>1, <1>2
<1> QED BY <1>3, <1>4 DEF ChunkAt, c

\* The first i chunks, one after the other.
LEMMA ChunksFacts ==
  ASSUME NEW id \in 0 .. MaxCalls, NEW a \in Answer, NEW i \in 0 .. Len(a.chunks)
  PROVE  /\ Chunks(id, a)[i] \in Seq(BodySet)
         /\ Len(Chunks(id, a)[i]) = Sums(a)[i] + 5 * i
         /\ \A j \in 1 .. i : ChunkAt(Chunks(id, a)[i], Sums(a)[j - 1] + 5 * (j - 1), id, a, j)
<1> DEFINE n == Len(a.chunks)
           ch(m) == Chunks(id, a)[m]
           Good(m) == /\ ch(m) \in Seq(BodySet)
                      /\ Len(ch(m)) = Sums(a)[m] + 5 * m
                      /\ \A j \in 1 .. m : ChunkAt(ch(m), Sums(a)[j - 1] + 5 * (j - 1), id, a, j)
           T == {m \in Nat : m <= n => Good(m)}
<1>1. n \in Nat /\ \A m \in 1 .. n : a.chunks[m] \in Nat \ {0}
  BY AnswerChunks
<1>2. Chunks(id, a) = [m \in 0 .. n |-> IF m = 0 THEN <<>> ELSE NextPiece(ch(m - 1), id, a, m)]
  BY <1>1, ChunksAreRecursive
<1>3. \A m \in 0 .. n : ch(m) = IF m = 0 THEN <<>> ELSE NextPiece(ch(m - 1), id, a, m)
  <2> HIDE DEF n
  <2> QED BY <1>2, Zenon
<1>s. /\ \A m \in 1 .. n : Sums(a)[m] = Sums(a)[m - 1] + a.chunks[m]
      /\ \A m \in 0 .. n : Sums(a)[m] \in Nat
  BY SumsFacts
<1>4. 0 \in T
  <2>1. ch(0) = <<>>
    BY <1>1, <1>3
  <2>2. Len(<<>>) = 0 /\ <<>> \in Seq(BodySet)
    OBVIOUS
  <2>3. Len(ch(0)) = Sums(a)[0] + 5 * 0
    BY <2>1, <2>2, SumsFacts
  <2>4. \A j \in 1 .. 0 : FALSE
    OBVIOUS
  <2>5. Good(0)
    BY <2>1, <2>2, <2>3, <2>4, Zenon
  <2> HIDE DEF Good
  <2> QED BY <2>5
<1>5. ASSUME NEW m \in Nat, m \in T
      PROVE  m + 1 \in T
  <2>1. CASE m + 1 <= n
    <3>1. m \in 0 .. n /\ m + 1 \in 1 .. n /\ m + 1 \in 0 .. n /\ m + 1 # 0 /\ m + 1 - 1 = m
      BY <2>1, <1>1
    <3>2. Good(m)
      BY <1>5, <3>1
    <3>3. ch(m + 1) = NextPiece(ch(m), id, a, m + 1)
      BY <1>3, <3>1
    <3>4. /\ ch(m + 1) \in Seq(BodySet)
          /\ Len(ch(m + 1)) = Len(ch(m)) + (a.chunks[m + 1] + 5)
          /\ \A k \in 1 .. Len(ch(m)) : ch(m + 1)[k] = ch(m)[k]
          /\ ChunkAt(ch(m + 1), Len(ch(m)), id, a, m + 1)
      BY <3>1, <3>2, <3>3, PieceProperties, Zenon
    <3>5. Sums(a)[m + 1] = Sums(a)[m] + a.chunks[m + 1]
      <4> HIDE DEF n
      <4> QED BY <3>1, <1>s
    <3>6. Sums(a)[m] \in Nat /\ a.chunks[m + 1] \in Nat /\ Len(ch(m)) \in Nat
      BY <3>1, <3>2, <1>1, SumsFacts
    <3>7. Len(ch(m + 1)) = Sums(a)[m + 1] + 5 * (m + 1)
      <4>1. 5 * (m + 1) = 5 * m + 5
        OBVIOUS
      <4>2. Len(ch(m)) = Sums(a)[m] + 5 * m
        BY <3>2
      <4>3. Len(ch(m + 1)) = Len(ch(m)) + (a.chunks[m + 1] + 5)
        BY <3>4
      <4> DEFINE x == Sums(a)[m]
                 y == a.chunks[m + 1]
                 z == 5 * m
      <4>4. x \in Nat /\ y \in Nat /\ z \in Nat
        BY <3>6
      <4> HIDE DEF ch, x, y, z
      <4>5. x + z + (y + 5) = x + y + (z + 5)
        BY <4>4
      <4>6. Len(ch(m + 1)) = x + z + (y + 5)
        BY <4>2, <4>3 DEF x, y, z
      <4>7. Sums(a)[m + 1] + 5 * (m + 1) = x + y + (z + 5)
        BY <3>5, <4>1 DEF x, y, z
      <4> QED BY <4>5, <4>6, <4>7
    <3>8. ASSUME NEW j \in 1 .. m + 1
          PROVE  ChunkAt(ch(m + 1), Sums(a)[j - 1] + 5 * (j - 1), id, a, j)
      <4>1. CASE j = m + 1
        <5>1. Sums(a)[j - 1] + 5 * (j - 1) = Len(ch(m))
          BY <4>1, <3>1, <3>2, <3>6
        <5> QED BY <4>1, <5>1, <3>4
      <4>2. CASE j # m + 1
        <5>1. j \in 1 .. m /\ j \in 1 .. n /\ j - 1 \in 0 .. n
          BY <4>2, <3>1
        <5>2. ChunkAt(ch(m), Sums(a)[j - 1] + 5 * (j - 1), id, a, j)
          BY <3>2, <5>1
        <5> DEFINE b == Sums(a)[j - 1] + 5 * (j - 1)
        <5>3. b \in Nat
          BY <5>1, SumsFacts
        <5>4. \A k \in 1 .. Len(ch(m)) : ch(m + 1)[0 + k] = ch(m)[k]
          BY <3>4
        <5>5. Len(ch(m)) + 0 <= Len(ch(m + 1)) /\ Len(ch(m + 1)) \in Nat
          <6>1. Len(ch(m + 1)) = Len(ch(m)) + (a.chunks[m + 1] + 5)
            BY <3>4
          <6> HIDE DEF ch
          <6> QED BY <6>1, <3>6
        <5>6. 0 + b = b
          BY <5>3
        <5> HIDE DEF b, ch
        <5>7. ChunkAt(ch(m + 1), 0 + b, id, a, j)
          BY <5>1, <5>2, <5>3, <5>4, <5>5, <3>6, ChunkStays DEF b
        <5> QED BY <5>6, <5>7 DEF b
      <4> QED BY <4>1, <4>2
    <3> QED BY <3>4, <3>7, <3>8
  <2>2. CASE ~(m + 1 <= n)
    BY <2>2
  <2> QED BY <2>1, <2>2
<1>6. i \in T /\ i <= n
  <2> HIDE DEF T
  <2>1. i \in Nat /\ i <= n
    BY <1>1
  <2> QED BY <1>4, <1>5, <2>1, SetInduction
<1> HIDE DEF Good
<1>7. Good(i)
  BY <1>6
<1> QED BY <1>7 DEF Good

\* The five symbols of a header, at offset b of s as far as s goes.
HeadByte(x, k) ==
  /\ k = 1 => x.kind = "http"
  /\ k \in {2, 4} => x.kind = "cr"
  /\ k \in {3, 5} => x.kind = "lf"
HeaderAt(s, b) == \A k \in 1 .. 5 : b + k <= Len(s) => HeadByte(s[b + k], k)

\* The five symbols that end a chunked body.
TrailByte(x, k, id, a) ==
  /\ k = 1 => x = Symbol("size", id, <<0, a.ext>>)
  /\ k \in {2, 4} => x.kind = "cr"
  /\ k \in {3, 5} => x.kind = "lf"

\* The offset of what follows the first i chunks.
Mark(a, i) == 5 + (Sums(a)[i] + 5 * i)

LEMMA BodyHasNoHeads == \A x \in BodySet : x \in SymbolSet /\ x.kind # "http"
BY DEF BodySet, SymbolSet

\* A header and what follows it.
Headed(id, a, b, w) ==
  /\ w \in Seq(SymbolSet) /\ Len(w) = 5 + Len(b)
  /\ HeaderAt(w, 0) /\ w[1] = Symbol("http", id, a)
  /\ \A k \in 1 .. Len(b) : w[5 + k] = b[k]
  /\ \A k \in 2 .. Len(w) : w[k].kind # "http"

LEMMA HeadedBy ==
  ASSUME NEW id \in 0 .. MaxCalls, NEW a \in Answers \cup {Continue}, NEW b \in Seq(BodySet),
         NEW w, w = <<Symbol("http", id, a)>> \o CRLF \o CRLF \o b
  PROVE  Headed(id, a, b, w)
<1> DEFINE h == <<Symbol("http", id, a)>>
<1>1. Symbol("http", id, a) \in SymbolSet
  BY DEF Symbol, SymbolSet
<1>2. h \in Seq(SymbolSet) /\ Len(h) = 1 /\ h[1] = Symbol("http", id, a)
  BY <1>1
<1>3. CRLF \in Seq(SymbolSet) /\ b \in Seq(SymbolSet)
  BY CRLFProperties, BodyHasNoHeads, SeqMonotonic
<1>4. w = h \o CRLF \o CRLF \o b
  OBVIOUS
<1> HIDE DEF h
<1>5. /\ w \in Seq(SymbolSet)
      /\ Len(w) = 1 + 2 + 2 + Len(b)
      /\ \A k \in 1 .. 1 : w[k] = h[k]
      /\ \A k \in 1 .. 2 : w[1 + k] = CRLF[k]
      /\ \A k \in 1 .. 2 : w[1 + 2 + k] = CRLF[k]
      /\ \A k \in 1 .. Len(b) : w[1 + 2 + 2 + k] = b[k]
  <2>1. b \in Seq(SymbolSet) /\ Len(b) = Len(b)
    BY <1>3
  <2>2. CRLF \in Seq(SymbolSet) /\ Len(CRLF) = 2
    BY <1>3, CRLFProperties
  <2>3. FourInARow(SymbolSet, h, CRLF, CRLF, b, 1, 2, 2, Len(b), w)
    BY <1>2, <1>4, <2>1, <2>2 DEF FourInARow
  <2>4. FourJoined(SymbolSet, h, CRLF, CRLF, b, 1, 2, 2, Len(b), w)
    BY <2>3, ConcatFour, Zenon
  <2> QED BY <2>4, Zenon DEF FourJoined
<1>6. Len(b) \in Nat /\ Len(w) = 5 + Len(b)
  BY <1>5
<1>7. w[1] = Symbol("http", id, a) /\ w[1].kind = "http"
  BY <1>2, <1>5 DEF Symbol
<1>8. w[2] = CRLF[1] /\ w[3] = CRLF[2] /\ w[4] = CRLF[1] /\ w[5] = CRLF[2]
  BY <1>2, <1>5, CRLFProperties
<1>9. \A k \in 1 .. Len(b) : w[5 + k] = b[k]
  BY <1>2, <1>5, CRLFProperties
<1>10. HeaderAt(w, 0)
  <2>1. /\ w[1].kind = "http" /\ w[2].kind = "cr" /\ w[3].kind = "lf" /\ w[4].kind = "cr"
        /\ w[5].kind = "lf"
    BY <1>7, <1>8, CRLFProperties
  <2> SUFFICES ASSUME NEW k \in 1 .. 5 PROVE HeadByte(w[k], k)
    BY DEF HeaderAt
  <2> QED BY <2>1 DEF HeadByte
<1>11. \A k \in 2 .. Len(w) : w[k].kind # "http"
  <2> TAKE k \in 2 .. Len(w)
  <2>1. CASE k \in 2 .. 5
    <3>1. k = 2 \/ k = 3 \/ k = 4 \/ k = 5
      BY <2>1
    <3>2. w[2].kind = "cr" /\ w[3].kind = "lf" /\ w[4].kind = "cr" /\ w[5].kind = "lf"
      BY <1>8, CRLFProperties, Zenon
    <3>3. w[k].kind = "cr" \/ w[k].kind = "lf"
      BY <3>1, <3>2, Zenon
    <3> QED BY <3>3
  <2>2. CASE k > 5
    <3>1. k - 5 \in 1 .. Len(b) /\ 5 + (k - 5) = k
      BY <2>2, <1>6
    <3>2. w[k] = b[k - 5] /\ b[k - 5] \in BodySet
      <4>1. \A j \in 1 .. Len(b) : w[5 + j] = b[j] /\ b[j] \in BodySet
        <5>1. \A j \in 1 .. Len(b) : b[j] \in BodySet
          OBVIOUS
        <5> QED BY <5>1, <1>9, Zenon
      <4> QED BY <3>1, <4>1, Zenon
    <3> QED BY <3>2, BodyHasNoHeads, Zenon
  <2> QED BY <2>1, <2>2
<1> QED BY <1>5, <1>6, <1>7, <1>9, <1>10, <1>11, Zenon DEF Headed

\* What follows the header of a chunked answer.
ChunkedTail(id, a) == Chunks(id, a)[Len(a.chunks)] \o Line(id, 0, a.ext) \o CRLF

LEMMA ChunkedBody ==
  ASSUME NEW id \in 0 .. MaxCalls, NEW a \in Answer, NEW b,
         b = ChunkedTail(id, a)
  PROVE  LET n == Len(a.chunks) e == Sums(a)[n] + 5 * n IN
         /\ b \in Seq(BodySet) /\ Len(b) = e + 5
         /\ \A i \in 1 .. n : ChunkAt(b, Sums(a)[i - 1] + 5 * (i - 1), id, a, i)
         /\ \A k \in 1 .. 5 : TrailByte(b[e + k], k, id, a)
<1> DEFINE n == Len(a.chunks)
           e == Sums(a)[n] + 5 * n
           c == Chunks(id, a)[n]
           l == Line(id, 0, a.ext)
<1>1. n \in Nat /\ Sums(a)[n] \in Nat
  BY AnswerChunks, SumsFacts
<1>2. e \in Nat
  BY <1>1
<1>3. /\ c \in Seq(BodySet) /\ Len(c) = e
      /\ \A i \in 1 .. n : ChunkAt(c, Sums(a)[i - 1] + 5 * (i - 1), id, a, i)
  <2>1. n \in 0 .. Len(a.chunks)
    BY <1>1
  <2> QED BY <2>1, ChunksFacts
<1>4. /\ l \in Seq(BodySet) /\ Len(l) = 3 /\ l[1] = Symbol("size", id, <<0, a.ext>>)
      /\ l[2].kind = "cr" /\ l[3].kind = "lf"
  <2>1. a.ext \in BOOLEAN
    BY DEF Answer
  <2> QED BY <2>1, LineProperties
<1>5. b = c \o l \o CRLF
  BY DEF ChunkedTail
<1> HIDE DEF e, c, l
<1>6. /\ c \o l \in Seq(BodySet) /\ Len(c \o l) = e + 3
      /\ \A k \in 1 .. e : (c \o l)[k] = c[k]
      /\ \A k \in 1 .. 3 : (c \o l)[e + k] = l[k]
  <2> DEFINE r == c \o l
  <2>1. InARow(BodySet, c, l, e, 3, r)
    BY <1>3, <1>4 DEF InARow
  <2> HIDE DEF r
  <2>2. /\ r \in Seq(BodySet) /\ Len(r) = e + 3
        /\ \A k \in 1 .. e : r[k] = c[k]
        /\ \A k \in 1 .. 3 : r[e + k] = l[k]
    <3>1. Joined(BodySet, c, l, e, 3, r)
      BY <2>1, ConcatTwo, Zenon
    <3> QED BY <3>1, Zenon DEF Joined
  <2> QED BY <2>2, Zenon DEF r
<1>7. /\ b \in Seq(BodySet) /\ Len(b) = e + 5
      /\ \A k \in 1 .. e + 3 : b[k] = (c \o l)[k]
      /\ \A k \in 1 .. 2 : b[e + 3 + k] = CRLF[k]
  <2>1. /\ b \in Seq(BodySet) /\ Len(b) = e + 3 + 2
        /\ \A k \in 1 .. e + 3 : b[k] = (c \o l)[k]
        /\ \A k \in 1 .. 2 : b[e + 3 + k] = CRLF[k]
    <3>1. CRLF \in Seq(BodySet) /\ Len(CRLF) = 2
      BY CRLFProperties
    <3>2. InARow(BodySet, c \o l, CRLF, e + 3, 2, b)
      BY <1>5, <1>6, <3>1, Zenon DEF InARow
    <3>3. Joined(BodySet, c \o l, CRLF, e + 3, 2, b)
      BY <3>2, ConcatTwo, Zenon
    <3> QED BY <3>3, Zenon DEF Joined
  <2>2. e + 3 + 2 = e + 5
    BY <1>2
  <2> QED BY <2>1, <2>2, Zenon
<1>8. ASSUME NEW i \in 1 .. n
      PROVE  ChunkAt(b, Sums(a)[i - 1] + 5 * (i - 1), id, a, i)
  <2> DEFINE m == Sums(a)[i - 1] + 5 * (i - 1)
  <2>1. m \in Nat /\ 0 + m = m
    <3>1. Sums(a)[i - 1] \in Nat
      BY <1>1, SumsFacts
    <3> QED BY <3>1, <1>1
  <2>2. ChunkAt(c, m, id, a, i)
    BY <1>3
  <2>3. Len(c) \in Nat /\ Len(b) \in Nat /\ Len(c) + 0 <= Len(b)
    <3>1. Len(c) = e /\ Len(b) = e + 5
      BY <1>3, <1>7, Zenon
    <3> QED BY <3>1, <1>2
  <2>4. \A k \in 1 .. Len(c) : b[0 + k] = c[k]
    <3> TAKE k \in 1 .. Len(c)
    <3>1. k \in 1 .. e /\ k \in 1 .. e + 3 /\ 0 + k = k
      <4>1. Len(c) = e
        BY <1>3
      <4> QED BY <4>1, <1>2
    <3>2. b[k] = (c \o l)[k] /\ (c \o l)[k] = c[k]
      BY <3>1, <1>6, <1>7, Zenon
    <3> QED BY <3>1, <3>2, Zenon
  <2> HIDE DEF m
  <2>5. ChunkAt(b, 0 + m, id, a, i)
    BY <2>1, <2>2, <2>3, <2>4, ChunkStays
  <2> QED BY <2>1, <2>5 DEF m
<1>9. ASSUME NEW k \in 1 .. 5
      PROVE  TrailByte(b[e + k], k, id, a)
  <2>1. b[e + 1] = l[1] /\ b[e + 2] = l[2] /\ b[e + 3] = l[3]
    <3>1. ASSUME NEW j \in 1 .. 3
          PROVE  b[e + j] = l[j]
      <4>1. e + j \in 1 .. e + 3
        BY <1>2
      <4> QED BY <4>1, <1>6, <1>7, Zenon
    <3> QED BY <3>1
  <2>2. b[e + 4] = CRLF[1] /\ b[e + 5] = CRLF[2]
    <3>1. ASSUME NEW j \in 1 .. 2
          PROVE  b[e + 3 + j] = CRLF[j]
      BY <1>7, Zenon
    <3>2. b[e + 3 + 1] = CRLF[1] /\ b[e + 3 + 2] = CRLF[2]
      BY <3>1
    <3>3. e + 3 + 1 = e + 4 /\ e + 3 + 2 = e + 5
      BY <1>2
    <3> QED BY <3>2, <3>3, Zenon
  <2>3. /\ b[e + 1] = Symbol("size", id, <<0, a.ext>>)
        /\ b[e + 2].kind = "cr" /\ b[e + 3].kind = "lf"
        /\ b[e + 4].kind = "cr" /\ b[e + 5].kind = "lf"
    BY <2>1, <2>2, <1>4, CRLFProperties
  <2>4. k = 1 \/ k = 2 \/ k = 3 \/ k = 4 \/ k = 5
    OBVIOUS
  <2> QED BY <2>3, <2>4 DEF TrailByte
<1> QED BY <1>7, <1>8, <1>9 DEF e

\* The bytes of an answer are a header and symbols that begin no header.
LEMMA WireFacts ==
  ASSUME NEW id \in 0 .. MaxCalls, NEW a \in Answers \cup {Continue}, NEW w, w = Wire(id, a)
  PROVE  /\ w \in Seq(SymbolSet) /\ 5 <= Len(w)
         /\ HeaderAt(w, 0) /\ w[1] = Symbol("http", id, a)
         /\ \A k \in 2 .. Len(w) : w[k].kind # "http"
         /\ a.frame # "chunked" =>
              /\ Len(w) = 5 + BodySize(a)
              /\ \A k \in 1 .. BodySize(a) : w[5 + k] = Symbol("data", id, <<k, BodySize(a)>>)
         /\ a.frame = "chunked" =>
              /\ Len(w) = Mark(a, Len(a.chunks)) + 5
              /\ \A i \in 1 .. Len(a.chunks) : ChunkAt(w, Mark(a, i - 1), id, a, i)
              /\ \A k \in 1 .. 5 : TrailByte(w[Mark(a, Len(a.chunks)) + k], k, id, a)
<1>1. a \in Answer
  BY ContinueIsAnswer
<1>2. CASE a.frame = "chunked"
  <2> DEFINE n == Len(a.chunks)
             e == Sums(a)[n] + 5 * n
             b == ChunkedTail(id, a)
  <2>1. /\ b \in Seq(BodySet) /\ Len(b) = e + 5
        /\ \A i \in 1 .. n : ChunkAt(b, Sums(a)[i - 1] + 5 * (i - 1), id, a, i)
        /\ \A k \in 1 .. 5 : TrailByte(b[e + k], k, id, a)
    BY <1>1, ChunkedBody
  <2>2. w = <<Symbol("http", id, a)>> \o CRLF \o CRLF \o b
    BY <1>2 DEF Wire, ChunkedTail
  <2>3. n \in Nat /\ \A i \in 0 .. n : Sums(a)[i] \in Nat
    BY <1>1, AnswerChunks, SumsFacts
  <2>4. e \in Nat
    BY <2>3
  <2>5. Mark(a, n) = 5 + e
    BY DEF Mark
  <2> HIDE DEF b, e, n
  <2>6. /\ w \in Seq(SymbolSet) /\ Len(w) = 5 + Len(b)
        /\ HeaderAt(w, 0) /\ w[1] = Symbol("http", id, a)
        /\ \A k \in 1 .. Len(b) : w[5 + k] = b[k]
        /\ \A k \in 2 .. Len(w) : w[k].kind # "http"
    <3>1. Headed(id, a, b, w)
      BY <2>1, <2>2, HeadedBy, Zenon
    <3> QED BY <3>1, Zenon DEF Headed
  <2>7. Len(w) = Mark(a, n) + 5 /\ 5 <= Len(w)
    BY <2>1, <2>4, <2>5, <2>6
  <2>8. ASSUME NEW i \in 1 .. n
        PROVE  ChunkAt(w, Mark(a, i - 1), id, a, i)
    <3> DEFINE m == Sums(a)[i - 1] + 5 * (i - 1)
    <3>1. m \in Nat
      BY <2>3
    <3>2. ChunkAt(b, m, id, a, i) /\ i \in 1 .. Len(a.chunks)
      BY <2>1 DEF n
    <3>3. Len(b) \in Nat /\ Len(w) \in Nat /\ Len(b) + 5 <= Len(w)
      BY <2>1, <2>4, <2>6
    <3>4. Mark(a, i - 1) = 5 + m
      BY DEF Mark
    <3> HIDE DEF m
    <3> QED BY <1>1, <2>6, <3>1, <3>2, <3>3, <3>4, ChunkStays
  <2>9. ASSUME NEW k \in 1 .. 5
        PROVE  TrailByte(w[Mark(a, n) + k], k, id, a)
    <3>1. e + k \in 1 .. Len(b) /\ 5 + (e + k) = Mark(a, n) + k
      BY <2>1, <2>4, <2>5
    <3>2. w[Mark(a, n) + k] = b[e + k]
      BY <3>1, <2>6
    <3> QED BY <3>2, <2>1
  <2> QED BY <1>2, <2>6, <2>7, <2>8, <2>9 DEF n
<1>3. CASE a.frame # "chunked"
  <2> DEFINE n == BodySize(a)
             b == Data(id, n, 0, n)
  <2>1. n \in Nat
    BY <1>1, BodySizeType
  <2>2. /\ b \in Seq(BodySet) /\ Len(b) = n
        /\ \A k \in 1 .. n : b[k] = Symbol("data", id, <<0 + k, n>>)
    BY <2>1, DataProperties
  <2>3. w = <<Symbol("http", id, a)>> \o CRLF \o CRLF \o b
    BY <1>3 DEF Wire
  <2> HIDE DEF b, n
  <2>4. /\ w \in Seq(SymbolSet) /\ Len(w) = 5 + Len(b)
        /\ HeaderAt(w, 0) /\ w[1] = Symbol("http", id, a)
        /\ \A k \in 1 .. Len(b) : w[5 + k] = b[k]
        /\ \A k \in 2 .. Len(w) : w[k].kind # "http"
    <3>1. Headed(id, a, b, w)
      BY <2>2, <2>3, HeadedBy, Zenon
    <3> QED BY <3>1, Zenon DEF Headed
  <2>5. \A k \in 1 .. n : w[5 + k] = Symbol("data", id, <<k, n>>)
    <3>1. \A k \in 1 .. n : 0 + k = k
      OBVIOUS
    <3> QED BY <3>1, <2>2, <2>4
  <2>6. Len(w) = 5 + n /\ 5 <= Len(w)
    BY <2>1, <2>2, <2>4
  <2> QED BY <1>3, <2>4, <2>5, <2>6 DEF n
<1> QED BY <1>2, <1>3

-----------------------------------------------------------------------------
(***************************************************************************)
(* Types, and what getBytes relies on when it copies from the buffer.      *)
(***************************************************************************)
Scalars ==
  /\ state \in States /\ pc \in Places /\ end \in {"open", "closed", "reset"}
  /\ contentLength \in Nat /\ chunkLeft \in Nat /\ nextSize \in Nat
  /\ size \in Nat /\ sends \in Nat
  /\ call \in 0 .. MaxCalls /\ attempts \in 0 .. MaxRedirects
  /\ toSend \in Seq(1 .. MaxCalls) /\ saved \in Seq(1 .. MaxCalls)
  /\ inbox \in Seq(Seq(1 .. MaxCalls))
  /\ url \in Urls /\ at \in Urls
  /\ reopen \in BOOLEAN /\ sock \in BOOLEAN /\ quiet \in BOOLEAN /\ oneWay \in BOOLEAN
  /\ status \in {"progress", "finished", "failed"}
  /\ past \subseteq Events

Bytes ==
  /\ received \in Seq(SymbolSet) /\ wire \in Seq(SymbolSet) /\ got \in Seq(SymbolSet)
  /\ bytesLeft = Len(received)

Counts ==
  /\ pc \in Quiescent \cup {"probe", "header"} => chunkLeft = 0 /\ nextSize = 0 /\ state = "waiting"
  /\ pc \in {"peek", "trailer", "chunk"} => chunkLeft <= bytesLeft
  /\ pc \in {"ready", "body"} /\ state = "chunked" => chunkLeft <= bytesLeft
  /\ pc = "size" => chunkLeft = 0
  /\ pc \in {"length", "none"} => received # <<>> /\ state = pc
  /\ pc \in {"size", "fill", "peek", "trailer"} => state = "chunked"
  /\ pc = "chunk" => state \in {"chunked", "waiting"}

TypeInv == Scalars /\ Bytes /\ Counts

\* What Drop and a prefix are.
LEMMA DropFacts ==
  ASSUME NEW S, NEW s \in Seq(S), NEW n \in Nat
  PROVE  /\ Drop(s, n) \in Seq(S)
         /\ Len(Drop(s, n)) = IF n <= Len(s) THEN Len(s) - n ELSE 0
         /\ \A i \in 1 .. Len(s) - n : Drop(s, n)[i] = s[n + i]
<1>1. \A i \in n + 1 .. Len(s) : s[i] \in S
  OBVIOUS
<1>2. /\ SubSeq(s, n + 1, Len(s)) \in Seq(S)
      /\ Len(SubSeq(s, n + 1, Len(s))) = IF n + 1 <= Len(s) THEN Len(s) - (n + 1) + 1 ELSE 0
      /\ \A i \in 1 .. Len(s) - (n + 1) + 1 : SubSeq(s, n + 1, Len(s))[i] = s[(n + 1) + i - 1]
  <2>1. n + 1 \in Int /\ Len(s) \in Int
    OBVIOUS
  <2> QED BY <1>1, <2>1, SubSeqProperties
<1> DEFINE d == SubSeq(s, n + 1, Len(s))
           l == Len(s)
<1>3. l \in Nat
  OBVIOUS
<1>4. /\ d \in Seq(S) /\ Len(d) = IF n + 1 <= l THEN l - (n + 1) + 1 ELSE 0
      /\ \A i \in 1 .. l - (n + 1) + 1 : d[i] = s[(n + 1) + i - 1]
  BY <1>2
<1> HIDE DEF d, l
<1>5. Len(d) = IF n <= l THEN l - n ELSE 0
  BY <1>3, <1>4
<1>6. ASSUME NEW i \in 1 .. l - n
      PROVE  d[i] = s[n + i]
  <2>1. i \in 1 .. l - (n + 1) + 1 /\ (n + 1) + i - 1 = n + i
    BY <1>3
  <2> QED BY <2>1, <1>4, Zenon
<1>7. Drop(s, n) = d
  BY DEF Drop, d
<1>8. l = Len(s)
  BY DEF l
<1> QED BY <1>4, <1>5, <1>6, <1>7, <1>8

LEMMA PrefixFacts ==
  ASSUME NEW S, NEW s \in Seq(S), NEW n \in 0 .. Len(s)
  PROVE  /\ SubSeq(s, 1, n) \in Seq(S)
         /\ Len(SubSeq(s, 1, n)) = n
         /\ \A i \in 1 .. n : SubSeq(s, 1, n)[i] = s[i]
<1>1. \A i \in 1 .. n : s[i] \in S
  OBVIOUS
<1>2. 1 \in Int /\ n \in Int
  OBVIOUS
<1>3. /\ SubSeq(s, 1, n) \in Seq(S)
      /\ Len(SubSeq(s, 1, n)) = IF 1 <= n THEN n - 1 + 1 ELSE 0
      /\ \A i \in 1 .. n - 1 + 1 : SubSeq(s, 1, n)[i] = s[1 + i - 1]
  BY <1>1, <1>2, SubSeqProperties
<1> DEFINE p == SubSeq(s, 1, n)
<1>4. n \in Nat
  OBVIOUS
<1>5. /\ p \in Seq(S) /\ Len(p) = IF 1 <= n THEN n - 1 + 1 ELSE 0
      /\ \A i \in 1 .. n - 1 + 1 : p[i] = s[1 + i - 1]
  BY <1>3
<1> HIDE DEF p
<1>6. Len(p) = n
  BY <1>4, <1>5
<1>7. ASSUME NEW i \in 1 .. n
      PROVE  p[i] = s[i]
  <2>1. i \in 1 .. n - 1 + 1 /\ 1 + i - 1 = i
    BY <1>4
  <2> QED BY <2>1, <1>5, Zenon
<1> QED BY <1>5, <1>6, <1>7 DEF p

\* Two sequences in a row, for any lengths.
LEMMA ConcatFacts ==
  ASSUME NEW S, NEW s \in Seq(S), NEW t \in Seq(S)
  PROVE  /\ s \o t \in Seq(S) /\ Len(s \o t) = Len(s) + Len(t)
         /\ \A i \in 1 .. Len(s) : (s \o t)[i] = s[i]
         /\ \A i \in 1 .. Len(t) : (s \o t)[Len(s) + i] = t[i]
<1>1. InARow(S, s, t, Len(s), Len(t), s \o t)
  BY DEF InARow
<1>2. Joined(S, s, t, Len(s), Len(t), s \o t)
  BY <1>1, ConcatTwo, Zenon
<1> QED BY <1>2, Zenon DEF Joined

LEMMA EraseFacts ==
  ASSUME NEW S, NEW s \in Seq(S), NEW p \in 0 .. Len(s), NEW n \in Nat
  PROVE  /\ Erase(s, p, n) \in Seq(S)
         /\ p <= Len(Erase(s, p, n))
         /\ p + n >= Len(s) => Len(Erase(s, p, n)) = p
         /\ \A i \in 1 .. p : Erase(s, p, n)[i] = s[i]
<1> DEFINE h == SubSeq(s, 1, p)
           d == Drop(s, p + n)
<1>1. h \in Seq(S) /\ Len(h) = p /\ \A i \in 1 .. p : h[i] = s[i]
  BY PrefixFacts
<1>2. p + n \in Nat
  OBVIOUS
<1>3. d \in Seq(S) /\ Len(d) = IF p + n <= Len(s) THEN Len(s) - (p + n) ELSE 0
  BY <1>2, DropFacts
<1>4. Erase(s, p, n) = h \o d
  BY DEF Erase
<1> HIDE DEF h, d
<1> DEFINE r == h \o d
<1>5. /\ r \in Seq(S) /\ Len(r) = Len(h) + Len(d)
      /\ \A i \in 1 .. Len(h) : r[i] = h[i]
  BY <1>1, <1>3, ConcatFacts
<1> HIDE DEF r
<1>6. p \in Nat /\ Len(d) \in Nat /\ Len(s) \in Nat
  BY <1>3
<1>7. Len(r) = p + Len(d)
  BY <1>1, <1>5
<1>8. \A i \in 1 .. p : r[i] = s[i]
  BY <1>1, <1>5
<1>9. p <= Len(r) /\ (p + n >= Len(s) => Len(r) = p)
  BY <1>3, <1>6, <1>7
<1> QED BY <1>4, <1>5, <1>8, <1>9 DEF r

\* What find() returns.
LEMMA CrlfFound ==
  ASSUME NEW s \in Seq(SymbolSet), NEW p \in Nat, Crlfs(s, p) # {}
  PROVE  /\ First(Crlfs(s, p)) \in (p + 1) .. (Len(s) - 1)
         /\ First(Crlfs(s, p)) \in Crlfs(s, p)
         /\ \A j \in Crlfs(s, p) : First(Crlfs(s, p)) <= j
<1>1. Crlfs(s, p) \in SUBSET Nat /\ Crlfs(s, p) \subseteq (p + 1) .. (Len(s) - 1)
  BY DEF Crlfs
<1> QED BY <1>1, LeastNatural

LEMMA BlankFound ==
  ASSUME NEW s \in Seq(SymbolSet), NEW p \in Nat, Blanks(s, p) # {}
  PROVE  /\ First(Blanks(s, p)) \in (p + 1) .. (Len(s) - 3)
         /\ First(Blanks(s, p)) \in Blanks(s, p)
         /\ \A j \in Blanks(s, p) : First(Blanks(s, p)) <= j
<1>1. Blanks(s, p) \in SUBSET Nat /\ Blanks(s, p) \subseteq (p + 1) .. (Len(s) - 3)
  BY DEF Crlfs, Blanks
<1> QED BY <1>1, LeastNatural

LEMMA HeadFound ==
  ASSUME NEW s \in Seq(SymbolSet), Heads(s) # {}
  PROVE  /\ First(Heads(s)) \in 1 .. Len(s) /\ s[First(Heads(s))].kind = "http"
         /\ \A j \in Heads(s) : First(Heads(s)) <= j
         /\ s[First(Heads(s))].of \in Answers \cup {Continue}
<1>1. Heads(s) \in SUBSET Nat /\ \A j \in Heads(s) : j \in 1 .. Len(s) /\ s[j].kind = "http"
  BY DEF Heads
<1>2. First(Heads(s)) \in Heads(s) /\ \A j \in Heads(s) : First(Heads(s)) <= j
  BY <1>1, LeastNatural
<1> DEFINE x == s[First(Heads(s))]
<1>3. x \in SymbolSet /\ x.kind = "http"
  BY <1>1, <1>2
<1> HIDE DEF x
<1>4. x.of \in Answers \cup {Continue}
  BY <1>3 DEF SymbolSet, BodySet
<1> QED BY <1>1, <1>2, <1>4 DEF x

LEMMA NoBytes ==
  /\ <<>> \in Seq(SymbolSet) /\ Len(<<>>) = 0
  /\ <<>> \in Seq(1 .. MaxCalls) /\ <<>> \in Seq(Seq(1 .. MaxCalls))
OBVIOUS

LEMMA InitTypes == Init => TypeInv
<1> SUFFICES ASSUME Init PROVE TypeInv
  OBVIOUS
<1>1. 0 \in 0 .. MaxCalls /\ 0 \in 0 .. MaxRedirects
  BY HTTPAssumption
<1>2. Scalars
  BY <1>1, NoBytes DEF Init, Scalars, States, Places
<1>3. Bytes
  BY NoBytes DEF Init, Bytes
<1> QED BY <1>2, <1>3 DEF Init, TypeInv, Counts

\* Resetting the input, closing the channel.
LEMMA BetweenKeepsTypes == TypeInv /\ Between => TypeInv'
<1>1. ASSUME TypeInv, NEW u \in Urls, SetEndpointUri(u)
      PROVE  TypeInv'
  BY <1>1 DEF SetEndpointUri, TypeInv, Scalars, Bytes, Counts
<1>2. ASSUME TypeInv, NEW way \in BOOLEAN, SendBytes(way) \/ SerializeFails(way)
      PROVE  TypeInv'
  <2>0. BeginCall(way) /\ pc' \in {"open", "done"} /\ status' \in {"progress", "failed"}
    BY <1>2 DEF SendBytes, SerializeFails
  <2>1. Append(toSend, call + 1) \in Seq(1 .. MaxCalls)
    <3>1. call + 1 \in 1 .. MaxCalls
      BY <1>2, <2>0, HTTPAssumption DEF BeginCall, TypeInv, Scalars
    <3> QED BY <1>2, <3>1, AppendProperties DEF TypeInv, Scalars
  <2>2. call + 1 \in 0 .. MaxCalls
    BY <1>2, <2>0, HTTPAssumption DEF BeginCall, TypeInv, Scalars
  <2>3. saved' \in Seq(1 .. MaxCalls) /\ attempts' \in 0 .. MaxRedirects
    <3>1. 0 \in 0 .. MaxRedirects
      BY HTTPAssumption
    <3> QED BY <1>2, <2>0, <3>1, NoBytes DEF BeginCall, TypeInv, Scalars
  <2>4. got' \in Seq(SymbolSet)
    BY <2>0, NoBytes DEF BeginCall
  <2>5. Scalars'
    BY <1>2, <2>0, <2>1, <2>2, <2>3 DEF BeginCall, TypeInv, Scalars, Places
  <2> QED BY <1>2, <2>0, <2>4, <2>5 DEF BeginCall, TypeInv, Bytes, Counts
<1> QED BY <1>1, <1>2 DEF Between

LEMMA OpeningKeepsTypes ==
  ASSUME TypeInv, Open \/ Reopen
  PROVE  TypeInv'
<1>1. ASSUME NEW here \in Opening, NEW next \in Flushing, OpenConnection(here, next)
      PROVE  TypeInv'
  <2>1. CASE ~sock \/ reopen
    <3>1. Scalars'
      <4>1. /\ state' = "waiting" /\ contentLength' = 0 /\ chunkLeft' = 0 /\ nextSize' = 0
            /\ reopen' = FALSE /\ inbox' = <<>> /\ end' = "open"
            /\ past' = {} \/ past' = past \ {"close"}
            /\ UNCHANGED <<bufferVars, url, quiet, callVars, size, got, sends>>
        BY <1>1, <2>1 DEF OpenConnection
      <4>2. /\ pc' \in Places /\ sock' \in BOOLEAN /\ at' \in Urls
            /\ status' \in {"progress", "finished", "failed"}
        BY <1>1, <2>1 DEF OpenConnection, TypeInv, Scalars, Places
      <4> QED BY <4>1, <4>2, NoBytes DEF TypeInv, Scalars, States
    <3>2. Bytes'
      BY <1>1, <2>1, NoBytes DEF OpenConnection, TypeInv, Bytes
    <3> QED BY <1>1, <2>1, <3>1, <3>2 DEF OpenConnection, TypeInv, Counts
  <2>2. CASE ~(~sock \/ reopen)
    <3>1. Scalars'
      BY <1>1, <2>2, NoBytes, Zenon DEF OpenConnection, TypeInv, Scalars, States, Places
    <3>2. Bytes'
      BY <1>1, <2>2, NoBytes DEF OpenConnection, TypeInv, Bytes
    <3> QED BY <1>1, <2>2, <3>1, <3>2 DEF OpenConnection, TypeInv, Counts
  <2> QED BY <2>1, <2>2
<1> QED BY <1>1 DEF Open, Reopen

LEMMA FlushingKeepsTypes ==
  ASSUME TypeInv, ConnectionInv, Flush \/ Reflush
  PROVE  TypeInv'
<1>1. ASSUME NEW here \in Flushing, NEW next \in {"probe", "ready", "header"},
             FlushOutput(here, next), quiet' \in BOOLEAN
      PROVE  TypeInv'
  <2>1. Append(inbox, Payload) \in Seq(Seq(1 .. MaxCalls))
    BY AppendProperties DEF TypeInv, Scalars, Payload
  <2>2. toSend' \in Seq(1 .. MaxCalls) /\ saved' \in Seq(1 .. MaxCalls)
    BY <1>1 DEF FlushOutput, ResetOutput, TypeInv, Scalars
  <2>3. wire' \in Seq(SymbolSet)
    BY <1>1, NoBytes DEF FlushOutput, TypeInv, Bytes
  <2>4. inbox' \in Seq(Seq(1 .. MaxCalls)) /\ end' \in {"open", "closed", "reset"}
    BY <1>1, <2>1, NoBytes, Zenon DEF FlushOutput, TypeInv, Scalars
  <2>5. pc' \in {"probe", "ready", "header", "done"} /\ pc \in Flushing
    BY <1>1 DEF FlushOutput
  <2>6. /\ sends' \in Nat /\ sock' \in BOOLEAN /\ status' \in {"progress", "finished", "failed"}
        /\ past' \subseteq Events
    <3>1. sends + 1 \in Nat
      BY DEF TypeInv, Scalars
    <3> QED BY <1>1, <3>1 DEF FlushOutput, TypeInv, Scalars
  <2>7. UNCHANGED <<inputVars, attempts, reopen, url, callVars, size, got, at>>
    BY <1>1 DEF FlushOutput
  <2>8. Scalars'
    BY <1>1, <2>2, <2>4, <2>5, <2>6, <2>7 DEF TypeInv, Scalars, Places, InGetBytes
  <2>9. Bytes'
    BY <2>3, <2>7 DEF TypeInv, Bytes
  <2>10. Counts'
    BY <2>5, <2>7 DEF TypeInv, Counts, Bytes, Scalars
  <2> QED BY <2>8, <2>9, <2>10 DEF TypeInv
<1> QED BY <1>1 DEF Flush, Reflush, TypeInv, Scalars

(***************************************************************************)
(* What a read from the channel does, wherever it is made.                 *)
(***************************************************************************)
Reading(next) ==
  \/ Arrives(next)
  \/ /\ UNCHANGED <<received, bytesLeft>>
     /\ UNCHANGED <<sock, peerVars>> \/ CloseChannel
     /\ \/ received # <<>> /\ pc' = next /\ UNCHANGED <<status, reopen, past>>
        \/ /\ Throw
           /\ reopen' \in {reopen, TRUE} /\ past' \in {past, past \cup {"timeout"}}
           /\ reopen' = TRUE \/ CloseChannel \/ (~sock /\ UNCHANGED <<sock, peerVars>>)
                \/ "timeout" \in past'

ReadFor(next) ==
  \/ next = pc /\ pc \in {"header", "size", "fill", "peek", "trailer"}
  \/ pc = "body" /\ next = state /\ state \in {"length", "none"}

ReadStep == \E next \in InGetBytes : ReadFor(next) /\ Reading(next) /\ UNCHANGED ReadFrame

LEMMA PacketIsRead ==
  ASSUME NEW next, GetNextDataPacket(next), reopen \in BOOLEAN
  PROVE  Reading(next)
<1>1. CASE AtEnd /\ NothingRead(next) /\ UNCHANGED <<sock, peerVars, past>>
  <2>1. CASE received = <<>>
    BY <1>1, <2>1 DEF NothingRead, Reading
  <2>2. CASE received # <<>>
    BY <1>1, <2>2 DEF NothingRead, Reading
  <2> QED BY <2>1, <2>2
<1>2. CASE Broken /\ quiet /\ CloseChannel /\ NothingRead(next) /\ UNCHANGED past
  <2>1. CASE received = <<>>
    BY <1>2, <2>1 DEF NothingRead, Reading
  <2>2. CASE received # <<>>
    BY <1>2, <2>2 DEF NothingRead, Reading
  <2> QED BY <2>1, <2>2
<1>3. CASE Broken /\ ~quiet /\ CloseChannel /\ Throw
             /\ UNCHANGED <<received, bytesLeft, reopen, past>>
  BY <1>3 DEF Reading
<1>4. CASE ReadThrows
  BY <1>4 DEF ReadThrows, Reading
<1> QED BY <1>1, <1>2, <1>3, <1>4 DEF GetNextDataPacket, Reading

LEMMA ReadsAreSteps ==
  ASSUME TypeInv, ReadHeader \/ ReadLength \/ ReadNotChunked \/ ReadChunk
  PROVE  ReadStep
<1>0. reopen \in BOOLEAN
  BY DEF TypeInv, Scalars
<1>1. CASE ReadHeader
  <2>1. Reading("header")
    <3>1. CASE Arrives("header")
      BY <3>1 DEF Reading
    <3>2. CASE AtEnd /\ reopen' = TRUE /\ Throw
                 /\ UNCHANGED <<received, bytesLeft, sock, peerVars, past>>
      BY <3>2 DEF Reading
    <3>3. CASE Broken /\ CloseChannel /\ Throw /\ UNCHANGED <<received, bytesLeft, reopen, past>>
      BY <3>3 DEF Reading
    <3>4. CASE ReadThrows
      BY <3>4 DEF ReadThrows, Reading
    <3> QED BY <1>1, <3>1, <3>2, <3>3, <3>4 DEF ReadHeader
  <2>2. ReadFor("header") /\ "header" \in InGetBytes /\ UNCHANGED ReadFrame
    BY <1>1 DEF ReadHeader, ReadFor, InGetBytes
  <2> HIDE DEF ReadFrame
  <2> QED BY <2>1, <2>2 DEF ReadStep
<1>2. CASE ReadLength
  <2>1. GetNextDataPacket("length") /\ ReadFor("length") /\ "length" \in InGetBytes
        /\ UNCHANGED ReadFrame
    BY <1>2 DEF ReadLength, ReadFor, InGetBytes
  <2> HIDE DEF ReadFrame
  <2> QED BY <1>0, <2>1, PacketIsRead DEF ReadStep
<1>3. CASE ReadNotChunked
  <2>1. GetNextDataPacket("none") /\ ReadFor("none") /\ "none" \in InGetBytes
        /\ UNCHANGED ReadFrame
    BY <1>3 DEF ReadNotChunked, ReadFor, InGetBytes
  <2> HIDE DEF ReadFrame
  <2> QED BY <1>0, <2>1, PacketIsRead DEF ReadStep
<1>4. CASE ReadChunk
  <2>1. GetNextDataPacket(pc) /\ ReadFor(pc) /\ pc \in InGetBytes
        /\ UNCHANGED ReadFrame
    BY <1>4 DEF ReadChunk, Incomplete, ReadFor, InGetBytes
  <2> HIDE DEF ReadFrame
  <2> QED BY <1>0, <2>1, PacketIsRead DEF ReadStep
<1> QED BY <1>1, <1>2, <1>3, <1>4

\* The bytes of both sides of the socket.
Stream == received \o wire

LEMMA StreamFacts ==
  ASSUME Bytes
  PROVE  /\ Stream \in Seq(SymbolSet) /\ Len(Stream) = Len(received) + Len(wire)
         /\ \A i \in 1 .. Len(received) : Stream[i] = received[i]
         /\ \A i \in 1 .. Len(wire) : Stream[Len(received) + i] = wire[i]
BY ConcatFacts DEF Bytes, Stream

\* Bytes that arrive move from one to the other.
LEMMA ArrivalFacts ==
  ASSUME Bytes, NEW next, Arrives(next)
  PROVE  /\ received' \in Seq(SymbolSet) /\ wire' \in Seq(SymbolSet)
         /\ bytesLeft' = Len(received') /\ Len(received') > Len(received)
         /\ \A i \in 1 .. Len(received) : received'[i] = received[i]
         /\ Stream' = Stream
<1>1. PICK n \in 1 .. Len(wire) : /\ received' = received \o SubSeq(wire, 1, n)
                                  /\ wire' = Drop(wire, n)
  BY DEF Arrives
<1> DEFINE h == SubSeq(wire, 1, n)
           d == Drop(wire, n)
<1>2. /\ received \in Seq(SymbolSet) /\ wire \in Seq(SymbolSet)
      /\ Len(received) \in Nat /\ Len(wire) \in Nat /\ n \in 0 .. Len(wire) /\ n \in Nat
  BY DEF Bytes
<1>3. h \in Seq(SymbolSet) /\ Len(h) = n /\ \A i \in 1 .. n : h[i] = wire[i]
  BY <1>2, PrefixFacts
<1>4. /\ d \in Seq(SymbolSet) /\ Len(d) = Len(wire) - n
      /\ \A i \in 1 .. Len(wire) - n : d[i] = wire[n + i]
  <2>1. /\ d \in Seq(SymbolSet) /\ Len(d) = IF n <= Len(wire) THEN Len(wire) - n ELSE 0
        /\ \A i \in 1 .. Len(wire) - n : d[i] = wire[n + i]
    BY <1>2, DropFacts
  <2>2. n <= Len(wire)
    BY <1>2
  <2> QED BY <2>1, <2>2, Zenon
<1> HIDE DEF h, d
<1> DEFINE r == received \o h
<1>5. /\ r \in Seq(SymbolSet) /\ Len(r) = Len(received) + Len(h)
      /\ \A i \in 1 .. Len(received) : r[i] = received[i]
      /\ \A i \in 1 .. Len(h) : r[Len(received) + i] = h[i]
  <2>1. received \in Seq(SymbolSet) /\ h \in Seq(SymbolSet)
    BY <1>2, <1>3
  <2>2. InARow(SymbolSet, received, h, Len(received), Len(h), r)
    BY <2>1 DEF InARow
  <2> HIDE DEF r
  <2>3. Joined(SymbolSet, received, h, Len(received), Len(h), r)
    BY <2>2, ConcatTwo, Zenon
  <2> QED BY <2>3, Zenon DEF Joined
<1>6. received' = r /\ wire' = d
  BY <1>1 DEF h, d
<1>7. bytesLeft' = Len(received')
  BY DEF Arrives
<1>8. r \o d = Stream
  <2>1. h \o d = wire
    <3> DEFINE hd == h \o d
    <3>1. /\ hd \in Seq(SymbolSet) /\ Len(hd) = n + (Len(wire) - n)
          /\ \A i \in 1 .. n : hd[i] = h[i]
          /\ \A i \in 1 .. Len(wire) - n : hd[n + i] = d[i]
      BY <1>3, <1>4, ConcatFacts
    <3> HIDE DEF hd
    <3>2. Len(hd) = Len(wire)
      BY <1>2, <3>1
    <3>3. ASSUME NEW i \in 1 .. Len(wire)
          PROVE  hd[i] = wire[i]
      <4>1. CASE i <= n
        BY <4>1, <1>2, <1>3, <3>1
      <4>2. CASE i > n
        <5>1. i - n \in 1 .. Len(wire) - n /\ n + (i - n) = i
          BY <4>2, <1>2
        <5>2. hd[n + (i - n)] = d[i - n] /\ d[i - n] = wire[n + (i - n)]
          BY <5>1, <3>1, <1>4, Zenon
        <5> QED BY <5>1, <5>2
      <4> QED BY <4>1, <4>2, <1>2
    <3>4. hd = wire
      BY <1>2, <3>1, <3>2, <3>3, SeqEqual
    <3> QED BY <3>4 DEF hd
  <2>2. (received \o h) \o d = received \o (h \o d)
    <3>1. received \in Seq(SymbolSet) /\ h \in Seq(SymbolSet) /\ d \in Seq(SymbolSet)
      BY <1>2, <1>3, <1>4
    <3> QED BY <3>1, ConcatAssociative, SMTT(30)
  <2> QED BY <2>1, <2>2 DEF Stream, r
<1>9. Stream' = received' \o wire'
  BY DEF Stream
<1> HIDE DEF r
<1>10. Len(r) > Len(received)
  BY <1>1, <1>2, <1>3, <1>5
<1> QED BY <1>4, <1>5, <1>6, <1>7, <1>8, <1>9, <1>10

LEMMA ReadingKeepsTypes ==
  ASSUME TypeInv, ReadStep
  PROVE  TypeInv'
<1>1. PICK next \in InGetBytes : ReadFor(next) /\ Reading(next) /\ UNCHANGED ReadFrame
  BY DEF ReadStep
<1>2. Bytes /\ Scalars /\ Counts
  BY DEF TypeInv
<1>3. UNCHANGED <<state, contentLength, chunkLeft, nextSize, bufferVars, url, quiet, callVars, size,
                  got, at, sendVars>>
  BY <1>1
<1>4. CASE Arrives(next)
  <2>1. /\ received' \in Seq(SymbolSet) /\ wire' \in Seq(SymbolSet)
        /\ bytesLeft' = Len(received') /\ Len(received') > Len(received)
    BY <1>2, <1>4, ArrivalFacts
  <2>2. pc' = next /\ UNCHANGED <<sock, status, inbox, end, reopen, past>>
    BY <1>4 DEF Arrives
  <2>3. received' # <<>> /\ bytesLeft' \in Nat /\ bytesLeft' > bytesLeft /\ bytesLeft \in Nat
    <3>1. bytesLeft = Len(received) /\ Len(received) \in Nat /\ Len(received') \in Nat
      BY <1>2, <2>1 DEF Bytes
    <3> QED BY <2>1, <3>1, NoBytes
  <2>4. Scalars'
    BY <1>2, <1>3, <2>2 DEF Scalars, Places
  <2>5. Bytes'
    BY <1>2, <1>3, <2>1 DEF Bytes
  <2>6. Counts'
    BY <1>1, <1>2, <1>3, <2>2, <2>3 DEF Counts, ReadFor, Scalars
  <2> QED BY <2>4, <2>5, <2>6 DEF TypeInv
<1>5. CASE ~Arrives(next)
  <2>1. UNCHANGED <<received, bytesLeft>> /\ (UNCHANGED <<sock, peerVars>> \/ CloseChannel)
    BY <1>1, <1>5 DEF Reading
  <2>2. \/ received # <<>> /\ pc' = next /\ UNCHANGED <<status, reopen, past>>
        \/ /\ pc' = "done" /\ status' = "failed"
           /\ reopen' \in BOOLEAN /\ past' \subseteq Events
    BY <1>1, <1>2, <1>5 DEF Reading, Scalars, Events
  <2>3. Scalars'
    <3>1. sock' \in BOOLEAN /\ end' \in {"open", "closed", "reset"} /\ inbox' \in Seq(Seq(1 .. MaxCalls))
      BY <1>2, <2>1, NoBytes DEF Scalars
    <3>2. /\ pc' \in Places /\ status' \in {"progress", "finished", "failed"}
          /\ reopen' \in BOOLEAN /\ past' \subseteq Events
      BY <1>2, <2>2 DEF Scalars, Places
    <3> QED BY <1>2, <1>3, <3>1, <3>2 DEF Scalars
  <2>4. Bytes'
    <3>1. wire' \in Seq(SymbolSet)
      BY <1>2, <2>1, NoBytes DEF Bytes
    <3> QED BY <1>2, <1>3, <2>1, <3>1 DEF Bytes
  <2>5. Counts'
    BY <1>1, <1>2, <1>3, <2>1, <2>2 DEF Counts, ReadFor
  <2> QED BY <2>3, <2>4, <2>5 DEF TypeInv
<1> QED BY <1>4, <1>5

\* The buffer loses its first n symbols.
LEMMA DroppedFacts ==
  ASSUME Bytes, NEW n \in 0 .. Len(received), received' = Drop(received, n), wire' = wire
  PROVE  /\ received' \in Seq(SymbolSet) /\ Len(received') = Len(received) - n
         /\ \A i \in 1 .. Len(received) - n : received'[i] = received[n + i]
         /\ Len(Stream') = Len(Stream) - n
         /\ \A i \in 1 .. Len(Stream) - n : Stream'[i] = Stream[n + i]
<1>1. /\ received \in Seq(SymbolSet) /\ wire \in Seq(SymbolSet)
      /\ Len(received) \in Nat /\ Len(wire) \in Nat /\ n \in Nat /\ n <= Len(received)
  BY DEF Bytes
<1> DEFINE d == Drop(received, n)
<1>2. /\ d \in Seq(SymbolSet) /\ Len(d) = Len(received) - n
      /\ \A i \in 1 .. Len(received) - n : d[i] = received[n + i]
  <2>1. /\ d \in Seq(SymbolSet)
        /\ Len(d) = IF n <= Len(received) THEN Len(received) - n ELSE 0
        /\ \A i \in 1 .. Len(received) - n : d[i] = received[n + i]
    BY <1>1, DropFacts
  <2> HIDE DEF d
  <2> QED BY <1>1, <2>1
<1> HIDE DEF d
<1> DEFINE r == d \o wire
<1>3. /\ r \in Seq(SymbolSet) /\ Len(r) = Len(d) + Len(wire)
      /\ \A i \in 1 .. Len(d) : r[i] = d[i]
      /\ \A i \in 1 .. Len(wire) : r[Len(d) + i] = wire[i]
  <2>1. InARow(SymbolSet, d, wire, Len(d), Len(wire), r)
    BY <1>1, <1>2 DEF InARow
  <2> HIDE DEF r
  <2>2. Joined(SymbolSet, d, wire, Len(d), Len(wire), r)
    BY <2>1, ConcatTwo, Zenon
  <2> QED BY <2>2, Zenon DEF Joined
<1>4. received' = d /\ Stream' = r
  BY DEF d, Stream
<1> HIDE DEF r
<1>5. /\ Len(Stream) = Len(received) + Len(wire)
      /\ \A i \in 1 .. Len(received) : Stream[i] = received[i]
      /\ \A i \in 1 .. Len(wire) : Stream[Len(received) + i] = wire[i]
  BY StreamFacts
<1>6. Len(r) = Len(Stream) - n
  BY <1>1, <1>2, <1>3, <1>5
<1>7. ASSUME NEW i \in 1 .. Len(Stream) - n
      PROVE  r[i] = Stream[n + i]
  <2>1. CASE i <= Len(received) - n
    <3>1. i \in 1 .. Len(received) - n /\ i \in 1 .. Len(d) /\ n + i \in 1 .. Len(received)
      BY <2>1, <1>1, <1>2
    <3> QED BY <3>1, <1>2, <1>3, <1>5, Zenon
  <2>2. CASE i > Len(received) - n
    <3> DEFINE j == i - (Len(received) - n)
    <3>1. /\ j \in 1 .. Len(wire) /\ Len(d) + j = i /\ Len(received) + j = n + i
      BY <2>2, <1>1, <1>2, <1>5
    <3> HIDE DEF j
    <3>2. r[Len(d) + j] = wire[j] /\ Stream[Len(received) + j] = wire[j]
      BY <3>1, <1>3, <1>5, Zenon
    <3> QED BY <3>1, <3>2
  <2> QED BY <2>1, <2>2, <1>1
<1> QED BY <1>2, <1>4, <1>6, <1>7

LEMMA AfterHeaderFacts ==
  ASSUME Bytes, HeaderArrived
  PROVE  /\ Header \in Answer /\ Header \in Answers \cup {Continue}
         /\ AfterHeader \in Seq(SymbolSet)
<1>1. received \in Seq(SymbolSet) /\ Heads(received) # {}
  BY DEF Bytes, HeaderArrived
<1> DEFINE h == First(Heads(received))
<1>2. h \in 1 .. Len(received) /\ received[h].of \in Answers \cup {Continue}
  BY <1>1, HeadFound
<1> DEFINE ends == Blanks(received, h)
           n == IF ends = {} THEN 3 ELSE First(ends) + 3
<1>3. n \in Nat
  <2>1. CASE ends = {}
    BY <2>1
  <2>2. CASE ends # {}
    <3>1. h \in Nat
      BY <1>2
    <3>2. First(ends) \in (h + 1) .. (Len(received) - 3)
      BY <1>1, <2>2, <3>1, BlankFound
    <3>3. First(ends) \in Nat
      <4> HIDE DEF ends, h
      <4> QED BY <3>1, <3>2
    <3> QED BY <2>2, <3>3
  <2> QED BY <2>1, <2>2
<1>4. AfterHeader = Drop(received, n)
  BY DEF AfterHeader
<1> HIDE DEF n
<1>5. AfterHeader \in Seq(SymbolSet)
  BY <1>1, <1>3, <1>4, DropFacts
<1> QED BY <1>2, <1>5, ContinueIsAnswer DEF Header

LEMMA HeaderKeepsTypes ==
  ASSUME TypeInv, ProcessHeader \/ HandleRedirect
  PROVE  TypeInv'
<1>0. Bytes /\ Scalars /\ Counts
  BY DEF TypeInv
<1>1. CASE ProcessHeader
  <2>1. Header \in Answer /\ AfterHeader \in Seq(SymbolSet) /\ BodySize(Header) \in Nat
    BY <1>0, <1>1, AfterHeaderFacts, BodySizeType DEF ProcessHeader
  <2>2. received' = AfterHeader /\ bytesLeft' = Len(AfterHeader)
    BY <1>1 DEF ProcessHeader
  <2>3. Header.frame \in {"length", "chunked", "none"} /\ Header.close \in BOOLEAN
    BY <2>1 DEF Answer
  <2> HIDE DEF Header, AfterHeader
  <2>4. contentLength' \in Nat /\ reopen' \in BOOLEAN /\ quiet' \in BOOLEAN
    BY <1>0, <1>1, <2>1, <2>3 DEF ProcessHeader, Scalars
  <2>5. state' \in States /\ past' \subseteq Events
    BY <1>0, <1>1, <2>3 DEF ProcessHeader, Scalars, States, Events
  <2>6. UNCHANGED <<chunkLeft, nextSize, toSend, url, sock, callVars, size, got, at, peerVars, sendVars>>
    BY <1>1 DEF ProcessHeader
  <2>7. /\ saved' \in Seq(1 .. MaxCalls) /\ attempts' \in 0 .. MaxRedirects
        /\ status' \in {"progress", "finished", "failed"}
        /\ \/ pc' = "header" /\ state' = "waiting"
           \/ pc' \in {"body", "done"}
    <3>1. 0 \in 0 .. MaxRedirects
      BY HTTPAssumption
    <3>2. CASE Header.status = "continue" /\ UNCHANGED <<pc, status, saved, attempts>>
      BY <1>0, <1>1, <3>2 DEF ProcessHeader, Scalars
    <3>3. CASE Header.status = "ok" /\ pc' = "body" /\ saved' = <<>> /\ attempts' = 0 /\ UNCHANGED status
      BY <1>0, <3>1, <3>3, NoBytes DEF Scalars
    <3>4. CASE Header.status = "error" /\ Throw /\ saved' = <<>> /\ attempts' = 0
      BY <1>0, <3>1, <3>4, NoBytes DEF Scalars
    <3> QED BY <1>1, <3>2, <3>3, <3>4 DEF ProcessHeader
  <2>8. chunkLeft = 0 /\ nextSize = 0
    BY <1>0, <1>1 DEF ProcessHeader, Counts
  <2>9. Scalars'
    BY <1>0, <2>4, <2>5, <2>6, <2>7 DEF Scalars, Places, InGetBytes
  <2>10. Bytes'
    BY <1>0, <2>1, <2>2, <2>6 DEF Bytes
  <2>11. Counts'
    <3>1. bytesLeft' \in Nat
      BY <2>1, <2>2
    <3> QED BY <2>6, <2>7, <2>8, <3>1 DEF Counts
  <2> QED BY <2>9, <2>10, <2>11 DEF TypeInv
<1>2. CASE HandleRedirect
  <2>1. quiet' \in BOOLEAN
    <3>1. Header.close \in BOOLEAN
      BY <1>0, <1>2, AfterHeaderFacts DEF HandleRedirect, Answer
    <3> HIDE DEF Header
    <3> QED BY <1>0, <1>2, <3>1 DEF HandleRedirect, Scalars
  <2>2. /\ attempts' \in 0 .. MaxRedirects /\ url' \in Urls /\ reopen' \in BOOLEAN
        /\ pc' \in {"reopen", "done"} /\ saved' \in Seq(1 .. MaxCalls)
        /\ status' \in {"progress", "finished", "failed"}
    <3>1. CASE attempts < MaxRedirects /\ attempts' = attempts + 1
               /\ (\E u \in Urls : url' = u /\ reopen' = (u # url))
               /\ pc' = "reopen" /\ UNCHANGED <<saved, status>>
      BY <1>0, <3>1, HTTPAssumption DEF Scalars
    <3>2. CASE /\ attempts' = 0 /\ saved' = <<>> /\ reopen' = FALSE
               /\ Throw
               /\ UNCHANGED url
      <4>1. 0 \in 0 .. MaxRedirects
        BY HTTPAssumption
      <4> QED BY <1>0, <3>2, <4>1, NoBytes DEF Scalars
    <3> QED BY <1>2, <3>1, <3>2 DEF HandleRedirect
  <2>3. /\ state' = "waiting" /\ received' = <<>> /\ bytesLeft' = 0
        /\ contentLength' = 0 /\ chunkLeft' = 0 /\ nextSize' = 0
        /\ sock' = FALSE /\ wire' = <<>> /\ inbox' = <<>> /\ end' = "open"
        /\ UNCHANGED <<toSend, callVars, size, got, at, sendVars, past>>
    BY <1>2 DEF HandleRedirect
  <2>4. Scalars'
    BY <1>0, <2>1, <2>2, <2>3, NoBytes DEF Scalars, Places, States
  <2>5. Bytes'
    BY <1>0, <2>3, NoBytes DEF Bytes
  <2> QED BY <2>2, <2>3, <2>4, <2>5 DEF Counts, TypeInv
<1> QED BY <1>1, <1>2

LEMMA GetBytesKeepsTypes ==
  ASSUME TypeInv, IsThereResponseData \/ Parse
  PROVE  TypeInv'
<1>0. Bytes /\ Scalars /\ Counts
  BY DEF TypeInv
<1>1. ASSUME NEW n \in Nat, GetBytes(n), pc \in {"probe", "ready"}
      PROVE  TypeInv'
  <2>1. UNCHANGED <<bufferVars, reopen, url, sock, callVars, got, status, at, peerVars, sendVars, past>>
        /\ size' = n
    BY <1>1 DEF GetBytes
  <2>2. CASE state = "waiting" /\ bytesLeft = 0
    <3>1. /\ state' = "waiting" /\ received' = <<>> /\ bytesLeft' = 0
          /\ contentLength' = 0 /\ chunkLeft' = 0 /\ nextSize' = 0
          /\ quiet' = FALSE /\ pc' = "header"
      BY <1>1, <2>2 DEF GetBytes
    <3>2. Scalars'
      BY <1>0, <1>1, <2>1, <3>1 DEF Scalars, Places, InGetBytes, States
    <3>3. Bytes'
      BY <1>0, <2>1, <3>1, NoBytes DEF Bytes
    <3> QED BY <3>1, <3>2, <3>3 DEF Counts, TypeInv
  <2>3. CASE ~(state = "waiting" /\ bytesLeft = 0)
    <3>1. pc' = "body" /\ UNCHANGED <<inputVars, quiet>>
      BY <1>1, <2>3 DEF GetBytes
    <3>2. Scalars'
      BY <1>0, <1>1, <2>1, <3>1 DEF Scalars, Places, InGetBytes
    <3>3. Bytes'
      BY <1>0, <2>1, <3>1 DEF Bytes
    <3>4. Counts'
      <4>1. CASE pc = "ready"
        BY <1>0, <3>1, <4>1 DEF Counts
      <4>2. CASE pc = "probe"
        <5>1. chunkLeft = 0 /\ bytesLeft \in Nat
          BY <1>0, <4>2 DEF Counts, Bytes
        <5> QED BY <3>1, <5>1 DEF Counts
      <4> QED BY <1>1, <4>1, <4>2
    <3> QED BY <3>2, <3>3, <3>4 DEF TypeInv
  <2> QED BY <2>2, <2>3
<1>2. \A n \in ReadSizes : n \in Nat
  BY HTTPAssumption
<1> QED BY <1>1, <1>2 DEF IsThereResponseData, Parse

\* What the end of getBytes does when it may copy k bytes.
LEMMA GiveFacts ==
  ASSUME Bytes, NEW k \in 0 .. Len(received), NEW s, Give(k, s), size \in Nat
  PROVE  \E n \in 0 .. k :
           /\ n = IF size <= k THEN size ELSE k
           /\ Bytes' /\ received' = Drop(received, n) /\ wire' = wire
           /\ Len(got') = Len(got) + n
           /\ \A i \in 1 .. Len(got) : got'[i] = got[i]
           /\ \A i \in 1 .. n : got'[Len(got) + i] = received[i]
           /\ bytesLeft' = bytesLeft - n
           /\ state' = s
           /\ status' = IF s # "waiting" \/ bytesLeft - n # 0 THEN "progress" ELSE "finished"
           /\ pc' = IF (size = 0 /\ (s # "waiting" \/ bytesLeft - n # 0)) \/ n > 0
                    THEN "ready" ELSE "done"
<1> DEFINE n == IF size <= k THEN size ELSE k
<1>1. n \in 0 .. k /\ n \in 0 .. Len(received)
  OBVIOUS
<1>2. /\ got' = got \o SubSeq(received, 1, n)
      /\ received' = Drop(received, n) /\ bytesLeft' = bytesLeft - n
      /\ state' = s
      /\ status' = IF s # "waiting" \/ bytesLeft - n # 0 THEN "progress" ELSE "finished"
      /\ pc' = IF (size = 0 /\ (s # "waiting" \/ bytesLeft - n # 0)) \/ n > 0
               THEN "ready" ELSE "done"
      /\ wire' = wire
  BY DEF Give
<1>n. n = IF size <= k THEN size ELSE k
  OBVIOUS
<1> HIDE DEF n
<1>3. /\ received \in Seq(SymbolSet) /\ wire \in Seq(SymbolSet) /\ got \in Seq(SymbolSet)
      /\ bytesLeft = Len(received)
  BY DEF Bytes
<1>4. received' \in Seq(SymbolSet) /\ Len(received') = Len(received) - n
  BY <1>1, <1>2, DroppedFacts
<1> DEFINE h == SubSeq(received, 1, n)
<1>5. h \in Seq(SymbolSet) /\ Len(h) = n /\ \A i \in 1 .. n : h[i] = received[i]
  BY <1>1, <1>3, PrefixFacts
<1> HIDE DEF h
<1> DEFINE g == got \o h
<1>6. /\ g \in Seq(SymbolSet) /\ Len(g) = Len(got) + Len(h)
      /\ \A i \in 1 .. Len(got) : g[i] = got[i]
      /\ \A i \in 1 .. Len(h) : g[Len(got) + i] = h[i]
  <2>1. InARow(SymbolSet, got, h, Len(got), Len(h), g)
    BY <1>3, <1>5 DEF InARow
  <2> HIDE DEF g
  <2>2. Joined(SymbolSet, got, h, Len(got), Len(h), g)
    BY <2>1, ConcatTwo, Zenon
  <2> QED BY <2>2, Zenon DEF Joined
<1>7. got' = g
  BY <1>2 DEF h
<1> HIDE DEF g
<1>8. /\ got' \in Seq(SymbolSet) /\ Len(got') = Len(got) + n
      /\ \A i \in 1 .. Len(got) : got'[i] = got[i]
      /\ \A i \in 1 .. n : got'[Len(got) + i] = received[i]
  BY <1>5, <1>6, <1>7
<1>9. Bytes'
  BY <1>2, <1>3, <1>4, <1>8 DEF Bytes
<1>10. n \in 0 .. k /\ n = IF size <= k THEN size ELSE k
  BY <1>1, <1>n
<1> QED BY <1>2, <1>8, <1>9, <1>10, Zenon

LEMMA GivingKeepsTypes ==
  ASSUME TypeInv, GiveRest \/ GiveLength \/ GiveNotChunked \/ GiveChunk
  PROVE  TypeInv'
<1>0. Bytes /\ Scalars /\ Counts
  BY DEF TypeInv
<1>1. /\ size \in Nat /\ bytesLeft = Len(received) /\ Len(received) \in Nat
      /\ contentLength \in Nat /\ chunkLeft \in Nat
  BY <1>0 DEF Scalars, Bytes
\* What every copy gives, when the state and the counts are in order.
<1>2. ASSUME NEW k \in 0 .. Len(received), NEW s \in States, Give(k, s),
             contentLength' \in Nat, chunkLeft' \in Nat, nextSize' = nextSize, past' \subseteq Events,
             s = "chunked" => chunkLeft' <= bytesLeft'
      PROVE  TypeInv'
  <2>1. /\ Bytes' /\ state' = s
        /\ pc' \in {"ready", "done"} /\ status' \in {"progress", "finished"}
    <3>1. size \in Nat
      BY <1>1
    <3> QED BY <1>0, <1>2, <3>1, GiveFacts
  <2>2. UNCHANGED <<bufferVars, reopen, url, sock, quiet, callVars, size, at, peerVars, sendVars>>
    BY <1>2 DEF Give
  <2>3. Scalars'
    BY <1>0, <1>2, <2>1, <2>2 DEF Scalars, Places
  <2>4. Counts'
    BY <1>2, <2>1 DEF Counts
  <2> QED BY <2>1, <2>3, <2>4 DEF TypeInv
<1>3. state \in States /\ past \subseteq Events /\ nextSize \in Nat /\ "waiting" \in States
  BY <1>0 DEF Scalars, States
<1>4. CASE GiveRest
  <2>1. /\ Give(bytesLeft, state) /\ UNCHANGED <<contentLength, chunkLeft, nextSize, past>>
        /\ state = "waiting"
    BY <1>4 DEF GiveRest
  <2>2. bytesLeft \in 0 .. Len(received)
    BY <1>1
  <2> QED BY <1>1, <1>2, <1>3, <2>1, <2>2
<1>5. CASE GiveLength
  <2> DEFINE left == IF contentLength >= bytesLeft THEN contentLength - bytesLeft ELSE 0
             s == IF left = 0 THEN "waiting" ELSE state
  <2>1. /\ contentLength' = left /\ Give(bytesLeft, s)
        /\ past' = past \cup {"recount"} \/ past' = past
        /\ UNCHANGED <<chunkLeft, nextSize>>
        /\ state = "length"
    <3>1. pc \in {"body", "length"} /\ (pc = "body" => state = "length")
      BY <1>5 DEF GiveLength
    <3>2. state = "length"
      BY <1>0, <3>1 DEF Counts
    <3>3. past' = past \cup {"recount"} \/ past' = past
      BY <1>5 DEF GiveLength
    <3>4. contentLength' = left /\ Give(bytesLeft, s) /\ UNCHANGED <<chunkLeft, nextSize>>
      <4> HIDE DEF Give
      <4> QED BY <1>5 DEF GiveLength
    <3> QED BY <3>2, <3>3, <3>4
  <2>2. bytesLeft \in 0 .. Len(received) /\ left \in Nat
    BY <1>1
  <2> HIDE DEF left
  <2>3. s \in States /\ s # "chunked" /\ past' \subseteq Events
    BY <1>3, <2>1 DEF States, Events
  <2> HIDE DEF s
  <2> QED BY <1>1, <1>2, <1>3, <2>1, <2>2, <2>3
<1>6. CASE GiveNotChunked
  <2>1. /\ Give(bytesLeft, state) /\ UNCHANGED <<contentLength, chunkLeft, nextSize, past>>
        /\ state = "none"
    BY <1>0, <1>6 DEF GiveNotChunked, Counts
  <2>2. bytesLeft \in 0 .. Len(received)
    BY <1>1
  <2> QED BY <1>1, <1>2, <1>3, <2>1, <2>2
<1>7. CASE GiveChunk
  <2> DEFINE n == IF size >= chunkLeft THEN chunkLeft ELSE size
  <2>1. /\ Give(n, state) /\ chunkLeft' = chunkLeft - n
        /\ UNCHANGED <<contentLength, nextSize, past>>
        /\ chunkLeft <= bytesLeft
    BY <1>0, <1>7 DEF GiveChunk, Counts
  <2>2. n \in 0 .. Len(received) /\ chunkLeft - n \in Nat /\ n <= size
    BY <1>1, <2>1
  <2> HIDE DEF n
  <2>3. PICK m \in 0 .. n : m = (IF size <= n THEN size ELSE n) /\ bytesLeft' = bytesLeft - m
    BY <1>0, <1>1, <2>1, <2>2, GiveFacts
  <2>4. m = n
    BY <1>1, <2>2, <2>3
  <2>5. chunkLeft' <= bytesLeft'
    BY <1>1, <2>1, <2>2, <2>3, <2>4
  <2> QED BY <1>1, <1>2, <1>3, <2>1, <2>2, <2>5
<1> QED BY <1>4, <1>5, <1>6, <1>7

LEMMA ChunksKeepTypes ==
  ASSUME TypeInv, NextChunk \/ GetChunkSize \/ ChunkFilled \/ EndChunks
  PROVE  TypeInv'
<1>0. Bytes /\ Scalars /\ Counts
  BY DEF TypeInv
<1>1. /\ received \in Seq(SymbolSet) /\ bytesLeft = Len(received) /\ Len(received) \in Nat
      /\ chunkLeft \in Nat /\ nextSize \in Nat
  BY <1>0 DEF Scalars, Bytes
<1>2. CASE NextChunk
  <2> DEFINE rest == IF 1 \in Crlfs(received, 0) THEN Drop(received, 2) ELSE received
             lines == Crlfs(rest, 0)
  <2>1. rest \in Seq(SymbolSet)
    <3>1. Drop(received, 2) \in Seq(SymbolSet)
      BY <1>1, DropFacts
    <3> QED BY <1>1, <3>1
  <2>2. lines # {} => Drop(rest, First(lines) + 1) \in Seq(SymbolSet)
    <3> HIDE DEF rest
    <3> SUFFICES ASSUME lines # {} PROVE Drop(rest, First(lines) + 1) \in Seq(SymbolSet)
      OBVIOUS
    <3>1. First(lines) \in (0 + 1) .. (Len(rest) - 1)
      BY <2>1, CrlfFound
    <3>2. First(lines) + 1 \in Nat
      <4>1. Len(rest) \in Nat
        BY <2>1
      <4> HIDE DEF lines
      <4> QED BY <3>1, <4>1
    <3> QED BY <2>1, <3>2, DropFacts
  <2>3. /\ pc = "body" /\ state = "chunked" /\ chunkLeft = 0
        /\ bytesLeft' = Len(received')
        /\ UNCHANGED <<state, contentLength, bufferVars, reopen, url, sock, quiet, callVars, size, got,
                       status, at, peerVars, sendVars, past>>
    BY <1>2 DEF NextChunk
  <2>4. \/ /\ nextSize > 0
           /\ received' = IF lines = {} THEN rest ELSE Drop(rest, First(lines) + 1)
           /\ chunkLeft' = nextSize /\ nextSize' = 0
           /\ pc' = "fill"
        \/ received' = rest /\ pc' = "size" /\ UNCHANGED <<chunkLeft, nextSize>>
    <3> HIDE DEF lines
    <3> QED BY <1>2 DEF NextChunk, lines
  <2> HIDE DEF rest, lines
  <2>5. received' \in Seq(SymbolSet)
    BY <2>1, <2>2, <2>4
  <2>6. Scalars'
    BY <1>0, <1>1, <2>3, <2>4 DEF Scalars, Places, InGetBytes
  <2>7. Bytes'
    BY <1>0, <2>3, <2>5 DEF Bytes
  <2> QED BY <2>3, <2>4, <2>6, <2>7 DEF Counts, TypeInv
<1>3. CASE GetChunkSize
  <2> DEFINE lines == Crlfs(received, Offset)
             eol == First(lines)
             n == Axtoi(SubSeq(received, Offset + 1, eol - 1))
  <2>1. Offset \in Nat
    BY <1>1 DEF Offset
  <2>2. lines # {}
    BY <1>3 DEF GetChunkSize, Incomplete
  <2>3. eol \in (Offset + 1) .. (Len(received) - 1)
    BY <1>1, <2>1, <2>2, CrlfFound
  <2> HIDE DEF lines
  <2>4. eol + 1 \in 0 .. Len(received) /\ eol \in Nat
    <3> HIDE DEF eol
    <3> QED BY <1>1, <2>1, <2>3
  <2>5. Drop(received, eol + 1) \in Seq(SymbolSet)
    BY <1>1, <2>4, DropFacts
  <2>6. n \in Int
    <3> DEFINE l == SubSeq(received, Offset + 1, eol - 1)
    <3>1. l \in Seq(SymbolSet)
      <4>1. \A i \in Offset + 1 .. eol - 1 : received[i] \in SymbolSet
        <5> HIDE DEF eol
        <5> QED BY <1>1, <2>1, <2>4
      <4>2. Offset + 1 \in Int /\ eol - 1 \in Int
        BY <2>1, <2>4
      <4> QED BY <4>1, <4>2, SubSeqProperties
    <3>2. CASE Len(l) = 1 /\ l[1].kind = "size"
      <4> HIDE DEF l
      <4>1. l[1] \in SymbolSet /\ l[1].kind = "size"
        <5>1. 1 \in 1 .. Len(l)
          BY <3>2
        <5>2. l[1] \in SymbolSet
          BY <3>1, <5>1, ElementOfSeq, Zenon
        <5> QED BY <3>2, <5>2, Zenon
      <4>2. l[1].of[1] \in Nat
        BY <4>1 DEF SymbolSet, BodySet
      <4>3. Axtoi(l) \in Int
        BY <4>2 DEF Axtoi
      <4> QED BY <4>3 DEF l
    <3>3. CASE ~(Len(l) = 1 /\ l[1].kind = "size")
      <4> HIDE DEF l
      <4>1. Axtoi(l) = -1
        BY <3>3 DEF Axtoi
      <4> QED BY <4>1 DEF l
    <3> QED BY <3>2, <3>3
  <2>7. /\ pc \in {"size", "peek"}
        /\ UNCHANGED <<state, contentLength, bufferVars, url, sock, quiet, callVars, size, got, at,
                       peerVars, sendVars, past>>
    BY <1>3 DEF GetChunkSize
  <2>8. \/ /\ reopen' = TRUE /\ pc' = "done" /\ status' = "failed"
           /\ UNCHANGED <<received, bytesLeft, chunkLeft, nextSize>>
        \/ /\ pc' = "trailer"
           /\ UNCHANGED <<received, bytesLeft, chunkLeft, nextSize, reopen, status>>
        \/ /\ n > 0 /\ pc = "size"
           /\ received' = Drop(received, eol + 1) /\ bytesLeft' = Len(received')
           /\ chunkLeft' = n
           /\ pc' = "fill"
           /\ UNCHANGED <<nextSize, reopen, status>>
        \/ /\ n > 0 /\ pc = "peek"
           /\ nextSize' = n
           /\ pc' = "chunk"
           /\ UNCHANGED <<received, bytesLeft, chunkLeft, reopen, status>>
    BY <1>3 DEF GetChunkSize, lines
  <2> HIDE DEF n, eol
  <2>9. received' \in Seq(SymbolSet) /\ bytesLeft' = Len(received')
    BY <1>1, <2>5, <2>8
  <2>10. chunkLeft' \in Nat /\ nextSize' \in Nat
    BY <1>1, <2>6, <2>8
  <2>11. reopen' \in BOOLEAN /\ status' \in {"progress", "finished", "failed"}
         /\ pc' \in {"done", "trailer", "fill", "chunk"}
    BY <1>0, <2>8 DEF Scalars
  <2>12. Scalars'
    BY <1>0, <2>7, <2>10, <2>11 DEF Scalars, Places, InGetBytes
  <2>13. Bytes'
    BY <1>0, <2>7, <2>9 DEF Bytes
  <2>14. Counts'
    <3>1. state = "chunked" /\ (pc = "size" => chunkLeft = 0) /\ (pc = "peek" => chunkLeft <= bytesLeft)
      BY <1>0, <2>7 DEF Counts
    <3> QED BY <1>1, <2>7, <2>8, <3>1 DEF Counts
  <2> QED BY <2>12, <2>13, <2>14 DEF TypeInv
<1>4. CASE ChunkFilled
  <2>1. /\ pc = "fill" /\ pc' = "peek" /\ ~(chunkLeft + 2 >= bytesLeft)
        /\ UNCHANGED <<inputVars, bufferVars, reopen, url, sock, quiet, callVars, size, got, status, at,
                       peerVars, sendVars, past>>
    BY <1>4 DEF ChunkFilled, Incomplete
  <2>2. Scalars'
    BY <1>0, <2>1 DEF Scalars, Places, InGetBytes
  <2>3. Bytes'
    BY <1>0, <2>1 DEF Bytes
  <2>4. Counts'
    BY <1>0, <1>1, <2>1 DEF Counts
  <2> QED BY <2>2, <2>3, <2>4 DEF TypeInv
<1>5. CASE EndChunks
  <2> DEFINE ends == Blanks(received, Offset)
             n == First(ends) + 3
  <2>1. Offset \in Nat /\ chunkLeft <= Offset
    BY <1>1 DEF Offset
  <2>2. ends # {}
    BY <1>5 DEF EndChunks, Incomplete
  <2>3. First(ends) \in (Offset + 1) .. (Len(received) - 3)
    BY <1>1, <2>1, <2>2, BlankFound
  <2>4. /\ pc = "trailer" /\ received' = Erase(received, Offset, n)
        /\ bytesLeft' = Len(received') /\ nextSize' = 0 /\ state' = "waiting" /\ pc' = "chunk"
        /\ UNCHANGED <<contentLength, chunkLeft, bufferVars, reopen, url, sock, quiet, callVars, size, got,
                       status, at, peerVars, sendVars, past>>
    BY <1>5 DEF EndChunks
  <2>5. n \in Nat /\ Offset \in 0 .. Len(received)
    <3> HIDE DEF ends
    <3> QED BY <1>1, <2>1, <2>3
  <2> HIDE DEF n
  <2>6. received' \in Seq(SymbolSet) /\ Offset <= Len(received')
    BY <1>1, <2>4, <2>5, EraseFacts
  <2>7. chunkLeft <= bytesLeft'
    <3>1. Len(received') \in Nat
      BY <2>6
    <3> QED BY <1>1, <2>1, <2>4, <2>6, <3>1
  <2>8. Scalars'
    BY <1>0, <2>4 DEF Scalars, Places, InGetBytes, States
  <2>9. Bytes'
    BY <1>0, <2>4, <2>6 DEF Bytes
  <2>10. Counts'
    BY <2>4, <2>7 DEF Counts
  <2> QED BY <2>8, <2>9, <2>10 DEF TypeInv
<1> QED BY <1>2, <1>3, <1>4, <1>5

LEMMA EndKeepsTypes == TypeInv /\ EndCall => TypeInv'
<1> SUFFICES ASSUME TypeInv, EndCall PROVE TypeInv'
  OBVIOUS
<1>0. Bytes /\ Scalars /\ Counts
  BY DEF TypeInv
<1>1. /\ pc' = "idle" /\ state' = "waiting" /\ received' = <<>> /\ bytesLeft' = 0
      /\ contentLength' = 0 /\ chunkLeft' = 0 /\ nextSize' = 0
      /\ UNCHANGED <<bufferVars, url, quiet, callVars, size, got, status, at, sendVars>>
      /\ past' \in {past, past \cup {"unread"}}
      /\ \/ reopen' = FALSE /\ CloseChannel
         \/ UNCHANGED <<reopen, sock, peerVars>>
  BY DEF EndCall
<1>2. Scalars'
  BY <1>0, <1>1, NoBytes DEF Scalars, Places, States, Events
<1>3. Bytes'
  BY <1>0, <1>1, NoBytes DEF Bytes
<1> QED BY <1>1, <1>2, <1>3 DEF Counts, TypeInv

\* The requests a peer holds are sequences of calls.
LEMMA CallerType ==
  ASSUME Scalars, inbox # <<>>
  PROVE  Caller(Head(inbox)) \in 0 .. MaxCalls /\ Tail(inbox) \in Seq(Seq(1 .. MaxCalls))
<1>1. /\ Head(inbox) \in Seq(1 .. MaxCalls) /\ Tail(inbox) \in Seq(Seq(1 .. MaxCalls))
      /\ MaxCalls \in Nat
  BY HeadTailProperties, HTTPAssumption DEF Scalars
<1> DEFINE p == Head(inbox)
<1> HIDE DEF p
<1>2. Caller(p) \in 0 .. MaxCalls
  BY <1>1 DEF Caller, p
<1> QED BY <1>1, <1>2 DEF p

LEMMA PeerKeepsTypes == TypeInv /\ Peer => TypeInv'
<1> SUFFICES ASSUME TypeInv, Peer PROVE TypeInv'
  OBVIOUS
<1>0. Bytes /\ Scalars /\ Counts
  BY DEF TypeInv
<1>1. UNCHANGED clientVars
  BY DEF Peer, PeerContinues, PeerCloses, PeerResets, PeerAnswers
<1>2. wire' \in Seq(SymbolSet)
  <2>1. CASE PeerContinues
    BY <1>0, <2>1, CallerType, WireFacts DEF PeerContinues
  <2>2. ASSUME NEW a \in Answers, PeerAnswers(a)
        PROVE  wire' \in Seq(SymbolSet)
    <3> DEFINE w == Wire(Caller(Head(inbox)), a)
    <3>1. w \in Seq(SymbolSet)
      BY <1>0, <2>2, CallerType, WireFacts DEF PeerAnswers
    <3>2. wire' = wire \o w
      BY <2>2 DEF PeerAnswers
    <3> HIDE DEF w
    <3> QED BY <1>0, <3>1, <3>2, ConcatProperties DEF Bytes
  <2>3. CASE PeerCloses
    BY <1>0, <2>3, PrefixFacts DEF PeerCloses, Bytes
  <2>4. CASE PeerResets
    BY <2>4, NoBytes DEF PeerResets
  <2> QED BY <2>1, <2>2, <2>3, <2>4 DEF Peer
<1>3. inbox' \in Seq(Seq(1 .. MaxCalls)) /\ end' \in {"open", "closed", "reset"}
  <2>1. CASE PeerContinues
    BY <1>0, <2>1 DEF PeerContinues, Scalars
  <2>2. ASSUME NEW a \in Answers, PeerAnswers(a)
        PROVE  inbox' \in Seq(Seq(1 .. MaxCalls)) /\ end' \in {"open", "closed", "reset"}
    BY <1>0, <2>2, CallerType, NoBytes DEF PeerAnswers, Scalars
  <2>3. CASE PeerCloses \/ PeerResets
    BY <2>3, NoBytes DEF PeerCloses, PeerResets
  <2> QED BY <2>1, <2>2, <2>3 DEF Peer
<1>4. Scalars'
  BY <1>0, <1>1, <1>3 DEF Scalars
<1>5. Bytes'
  BY <1>0, <1>1, <1>2 DEF Bytes
<1> QED BY <1>0, <1>1, <1>4, <1>5 DEF Counts, TypeInv

LEMMA NextKeepsTypes == TypeInv /\ ConnectionInv /\ [Next]_vars => TypeInv'
<1> SUFFICES ASSUME TypeInv, ConnectionInv, [Next]_vars PROVE TypeInv'
  OBVIOUS
<1>1. CASE UNCHANGED vars
  BY <1>1 DEF vars, TypeInv, Scalars, Bytes, Counts
<1>2. CASE Between
  BY <1>2, BetweenKeepsTypes
<1>3. CASE Client
  BY <1>3, OpeningKeepsTypes, FlushingKeepsTypes, ReadsAreSteps, ReadingKeepsTypes,
     HeaderKeepsTypes, GetBytesKeepsTypes, GivingKeepsTypes, ChunksKeepTypes, EndKeepsTypes
     DEF Client
<1>4. CASE Peer
  BY <1>4, PeerKeepsTypes
<1> QED BY <1>1, <1>2, <1>3, <1>4 DEF Next

LEMMA TypeInvariant == Spec => []TypeInv
<1>1. Init => TypeInv
  BY InitTypes
<1> QED BY <1>1, NextKeepsTypes, ConnectionInvariant, PTL DEF Spec

\* The calls that ended before their request was sent; an envelope that is on
\* its way to the connection is not broken off.
LeftBehind ==
  /\ pc # "idle" => call > 0
  /\ torn \subseteq unsent /\ unsent \subseteq 1 .. call
  /\ pc \notin {"idle", "done"} => call \notin torn

LEMMA NextKeepsLeftBehind == TypeInv /\ LeftBehind /\ [Next]_vars => LeftBehind'
<1> SUFFICES ASSUME TypeInv, LeftBehind, [Next]_vars PROVE LeftBehind'
  OBVIOUS
<1>0. call \in Nat
  BY HTTPAssumption DEF TypeInv, Scalars
<1>1. CASE UNCHANGED vars
  BY <1>1 DEF vars, LeftBehind
<1>2. CASE Between
  <2>1. ASSUME NEW u \in Urls, SetEndpointUri(u)
        PROVE  LeftBehind'
    BY <2>1 DEF SetEndpointUri, LeftBehind
  <2>2. ASSUME NEW way \in BOOLEAN, SendBytes(way)
        PROVE  LeftBehind'
    BY <1>0, <2>2 DEF SendBytes, BeginCall, LeftBehind
  <2>3. ASSUME NEW way \in BOOLEAN, SerializeFails(way)
        PROVE  LeftBehind'
    BY <1>0, <2>3 DEF SerializeFails, BeginCall, LeftBehind
  <2> QED BY <1>2, <2>1, <2>2, <2>3 DEF Between
<1>3. CASE Client
  <2>1. /\ UNCHANGED <<call, torn>> /\ pc # "idle"
        /\ unsent' \in {unsent, unsent \cup {call}}
        /\ pc = "done" => pc' = "idle"
    BY <1>3 DEF Client, Open, Flush, Reopen, Reflush, OpenConnection, FlushOutput,
         IsThereResponseData, Parse, GetBytes, ReadHeader, ReadThrows, Arrives, NothingRead,
         ProcessHeader, HandleRedirect, GiveRest, ReadLength, GiveLength, ReadNotChunked,
         GiveNotChunked, Give, NextChunk, ReadChunk, Incomplete, GetNextDataPacket,
         GetChunkSize, ChunkFilled, EndChunks, GiveChunk, EndCall
  <2> QED BY <1>0, <2>1 DEF LeftBehind
<1>4. CASE Peer
  <2>1. UNCHANGED clientVars
    BY <1>4 DEF Peer, PeerContinues, PeerCloses, PeerResets, PeerAnswers
  <2> QED BY <2>1 DEF LeftBehind
<1> QED BY <1>1, <1>2, <1>3, <1>4 DEF Next

LEMMA LeftBehindInvariant == Spec => []LeftBehind
<1>1. Init => LeftBehind
  BY DEF Init, LeftBehind
<1> QED BY <1>1, NextKeepsLeftBehind, TypeInvariant, PTL DEF Spec

LEMMA TypeInvImplies == TypeInv /\ LeftBehind => TypeOK /\ BufferCounted
<1> SUFFICES ASSUME TypeInv, LeftBehind PROVE TypeOK /\ BufferCounted
  OBVIOUS
<1>1. \A x \in SymbolSet : x.kind \in Kinds /\ x.id \in 0 .. MaxCalls
  BY HTTPAssumption DEF SymbolSet, BodySet, Kinds
<1>2. ASSUME NEW s \in Seq(SymbolSet)
      PROVE  Symbols(s)
  <2>1. \A i \in DOMAIN s : s[i] \in SymbolSet
    OBVIOUS
  <2> QED BY <1>1, <2>1, Zenon DEF Symbols
<1>3. Symbols(received) /\ Symbols(wire) /\ Symbols(got) /\ bytesLeft \in Nat
  BY <1>2 DEF TypeInv, Bytes
<1>4. torn \subseteq unsent /\ unsent \subseteq 1 .. MaxCalls
  BY HTTPAssumption DEF TypeInv, Scalars, LeftBehind
<1> QED BY <1>3, <1>4 DEF TypeInv, Scalars, Bytes, TypeOK, BufferCounted

\* The types of the transport, its channel, the caller and the peer.
THEOREM TransportTypes == Spec => []TypeOK
BY TypeInvariant, LeftBehindInvariant, TypeInvImplies, PTL

\* m_iBytesLeft, which getBytes and its helpers keep by hand, is the length of
\* m_strReceived whatever way the answer is framed and cut into packets.
THEOREM BytesAreCounted == Spec => []BufferCounted
BY TypeInvariant, LeftBehindInvariant, TypeInvImplies, PTL

-----------------------------------------------------------------------------
(***************************************************************************)
(* What is on its way on a connection that is in step: headers of 100, and *)
(* one answer, whole or cut short by the end of the connection.            *)
(***************************************************************************)
Continues(s, m) ==
  \A j \in 0 .. m - 1 :
    HeaderAt(s, 5 * j) /\ (5 * j < Len(s) => s[5 * j + 1].of.status = "continue")

\* From offset b on, s is what w has from offset p on, as far as s goes.
Within(s, b, w, p) ==
  \A k \in 1 .. Len(s) - b : p + k <= Len(w) /\ s[b + k] = w[p + k]

\* One request is in the box, or what there is of its answer is in s.
Awaits(s, box, id) ==
  \E m \in Nat :
    /\ Continues(s, m)
    /\ \/ Len(box) = 1 /\ Caller(box[1]) = id /\ Len(s) = 5 * m
       \/ /\ box = <<>>
          /\ Len(s) <= 5 * m \/ \E a \in Answers : Within(s, 5 * m, Wire(id, a), 0)

\* t is what s begins with; t is s without its first n symbols.
Prefix(t, s) == Len(t) <= Len(s) /\ \A i \in 1 .. Len(t) : t[i] = s[i]
Dropped(t, s, n) ==
  /\ n <= Len(s) /\ Len(t) = Len(s) - n
  /\ \A i \in 1 .. Len(s) - n : t[i] = s[n + i]

LEMMA AwaitsTrimmed ==
  ASSUME NEW s \in Seq(SymbolSet), NEW t \in Seq(SymbolSet), NEW box, NEW id,
         Awaits(s, box, id), Prefix(t, s)
  PROVE  Awaits(t, <<>>, id)
<1>0. Len(s) \in Nat /\ Len(t) \in Nat /\ Len(t) <= Len(s) /\ \A i \in 1 .. Len(t) : t[i] = s[i]
  BY DEF Prefix
<1>1. PICK m \in Nat :
         /\ Continues(s, m)
         /\ Len(s) <= 5 * m \/ \E a \in Answers : Within(s, 5 * m, Wire(id, a), 0)
  BY <1>0 DEF Awaits
<1>2. Continues(t, m)
  <2> SUFFICES ASSUME NEW j \in 0 .. m - 1
               PROVE  HeaderAt(t, 5 * j) /\ (5 * j < Len(t) => t[5 * j + 1].of.status = "continue")
    BY DEF Continues
  <2>1. HeaderAt(s, 5 * j) /\ (5 * j < Len(s) => s[5 * j + 1].of.status = "continue")
    BY <1>1 DEF Continues
  <2> DEFINE b == 5 * j
  <2>2. b \in Nat
    OBVIOUS
  <2> HIDE DEF b
  <2>3. ASSUME NEW k \in 1 .. 5, b + k <= Len(t)
        PROVE  HeadByte(t[b + k], k)
    <3>1. b + k \in 1 .. Len(t) /\ b + k <= Len(s)
      BY <1>0, <2>2, <2>3
    <3>2. t[b + k] = s[b + k]
      BY <1>0, <3>1
    <3>3. HeadByte(s[b + k], k)
      BY <2>1, <3>1 DEF HeaderAt, b
    <3> QED BY <3>2, <3>3
  <2>4. HeaderAt(t, b)
    BY <2>3 DEF HeaderAt
  <2>5. b < Len(t) => t[b + 1].of.status = "continue"
    <3> SUFFICES ASSUME b < Len(t) PROVE t[b + 1].of.status = "continue"
      OBVIOUS
    <3>1. b + 1 \in 1 .. Len(t) /\ b < Len(s)
      BY <1>0, <2>2
    <3>2. t[b + 1] = s[b + 1]
      BY <1>0, <3>1
    <3> QED BY <2>1, <3>1, <3>2 DEF b
  <2> QED BY <2>4, <2>5 DEF b
<1>3. Len(t) <= 5 * m \/ \E a \in Answers : Within(t, 5 * m, Wire(id, a), 0)
  <2>1. CASE Len(s) <= 5 * m
    BY <1>0, <2>1
  <2>2. ASSUME NEW a \in Answers, Within(s, 5 * m, Wire(id, a), 0)
        PROVE  Within(t, 5 * m, Wire(id, a), 0)
    <3> DEFINE b == 5 * m
               w == Wire(id, a)
    <3>1. \A k \in 1 .. Len(s) - b : 0 + k <= Len(w) /\ s[b + k] = w[0 + k]
      BY <2>2 DEF Within
    <3>2. b \in Nat
      OBVIOUS
    <3> HIDE DEF b, w
    <3>3. ASSUME NEW k \in 1 .. Len(t) - b
          PROVE  0 + k <= Len(w) /\ t[b + k] = w[0 + k]
      <4>1. k \in 1 .. Len(s) - b /\ b + k \in 1 .. Len(t)
        BY <1>0, <3>2
      <4> QED BY <1>0, <3>1, <4>1, Zenon
    <3> QED BY <3>3 DEF Within, b, w
  <2> QED BY <1>1, <2>1, <2>2
<1> QED BY <1>2, <1>3 DEF Awaits

\* One header of 100 more.
LEMMA AwaitsContinue ==
  ASSUME NEW s \in Seq(SymbolSet), NEW t, NEW box, NEW id \in 0 .. MaxCalls,
         Awaits(s, box, id), box # <<>>,
         Joined(SymbolSet, s, Wire(id, Continue), Len(s), Len(Wire(id, Continue)), t)
  PROVE  Awaits(t, box, id)
<1> DEFINE w == Wire(id, Continue)
<1>1. Len(w) = 5 /\ HeaderAt(w, 0) /\ w[1] = Symbol("http", id, Continue)
  <2>1. /\ HeaderAt(w, 0) /\ w[1] = Symbol("http", id, Continue)
        /\ Continue.frame # "chunked" => Len(w) = 5 + BodySize(Continue)
    BY WireFacts
  <2>2. Continue.frame = "none" /\ Continue.chunks = <<>>
    BY DEF Continue
  <2>3. BodySize(Continue) = 0
    BY <2>2, NoBytes, ContinueIsAnswer, SumsFacts DEF BodySize
  <2> QED BY <2>1, <2>2, <2>3
<1> HIDE DEF w
<1>2. /\ t \in Seq(SymbolSet) /\ Len(t) = Len(s) + 5
      /\ \A i \in 1 .. Len(s) : t[i] = s[i]
      /\ \A i \in 1 .. 5 : t[Len(s) + i] = w[i]
  BY <1>1 DEF Joined, w
<1>3. PICK m \in Nat :
         /\ Continues(s, m)
         /\ Len(box) = 1 /\ Caller(box[1]) = id /\ Len(s) = 5 * m
  BY DEF Awaits
<1>4. Continues(t, m + 1)
  <2> DEFINE n == m + 1
  <2>0. n \in Nat /\ n - 1 = m
    OBVIOUS
  <2> HIDE DEF n
  <2> SUFFICES ASSUME NEW j \in 0 .. n - 1
               PROVE  HeaderAt(t, 5 * j) /\ (5 * j < Len(t) => t[5 * j + 1].of.status = "continue")
    BY DEF Continues, n
  <2>1. CASE j = m
    <3>1. ASSUME NEW k \in 1 .. 5
          PROVE  HeadByte(t[Len(s) + k], k)
      <4>1. HeadByte(w[0 + k], k)
        BY <1>1 DEF HeaderAt
      <4> QED BY <4>1, <1>2
    <3>2. HeaderAt(t, Len(s))
      BY <3>1 DEF HeaderAt
    <3>3. t[Len(s) + 1].of.status = "continue"
      <4>1. t[Len(s) + 1] = w[1]
        BY <1>2
      <4> QED BY <1>1, <4>1 DEF Symbol, Continue
    <3>4. 5 * j = Len(s)
      BY <2>1, <1>3
    <3> QED BY <3>2, <3>3, <3>4
  <2>2. CASE j # m
    <3> DEFINE b == 5 * j
    <3>1. j \in 0 .. m - 1 /\ b \in Nat /\ b + 5 <= Len(s)
      BY <1>3, <2>0, <2>2
    <3>2. HeaderAt(s, b) /\ (b < Len(s) => s[b + 1].of.status = "continue")
      BY <1>3, <3>1 DEF Continues
    <3> HIDE DEF b
    <3>3. ASSUME NEW k \in 1 .. 5
          PROVE  t[b + k] = s[b + k] /\ b + k <= Len(s)
      <4>1. b + k \in 1 .. Len(s)
        BY <3>1
      <4> QED BY <4>1, <1>2
    <3>4. HeaderAt(t, b)
      BY <3>2, <3>3 DEF HeaderAt
    <3>5. t[b + 1].of.status = "continue"
      BY <3>1, <3>2, <3>3
    <3> QED BY <3>4, <3>5 DEF b
  <2> QED BY <2>1, <2>2
<1>5. Len(t) = 5 * (m + 1) /\ m + 1 \in Nat
  BY <1>2, <1>3
<1> QED BY <1>3, <1>4, <1>5 DEF Awaits

\* The answer.
LEMMA AwaitsAnswer ==
  ASSUME NEW s \in Seq(SymbolSet), NEW t, NEW box, NEW id \in 0 .. MaxCalls,
         NEW a \in Answers, Awaits(s, box, id), box # <<>>,
         Joined(SymbolSet, s, Wire(id, a), Len(s), Len(Wire(id, a)), t)
  PROVE  Awaits(t, <<>>, id) /\ Len(box) = 1
<1> DEFINE w == Wire(id, a)
<1>1. w \in Seq(SymbolSet)
  BY WireFacts
<1> HIDE DEF w
<1>2. /\ t \in Seq(SymbolSet) /\ Len(t) = Len(s) + Len(w)
      /\ \A i \in 1 .. Len(s) : t[i] = s[i]
      /\ \A i \in 1 .. Len(w) : t[Len(s) + i] = w[i]
  BY DEF Joined, w
<1>3. PICK m \in Nat :
         /\ Continues(s, m)
         /\ Len(box) = 1 /\ Caller(box[1]) = id /\ Len(s) = 5 * m
  BY DEF Awaits
<1>4. Continues(t, m)
  <2> SUFFICES ASSUME NEW j \in 0 .. m - 1
               PROVE  HeaderAt(t, 5 * j) /\ (5 * j < Len(t) => t[5 * j + 1].of.status = "continue")
    BY DEF Continues
  <2> DEFINE b == 5 * j
  <2>1. b \in Nat /\ b + 5 <= Len(s)
    BY <1>3
  <2>2. HeaderAt(s, b) /\ (b < Len(s) => s[b + 1].of.status = "continue")
    BY <1>3 DEF Continues
  <2> HIDE DEF b
  <2>3. ASSUME NEW k \in 1 .. 5
        PROVE  t[b + k] = s[b + k] /\ b + k <= Len(s)
    <3>1. b + k \in 1 .. Len(s)
      BY <2>1
    <3> QED BY <3>1, <1>2
  <2>4. HeaderAt(t, b)
    BY <2>2, <2>3 DEF HeaderAt
  <2>5. t[b + 1].of.status = "continue"
    BY <2>1, <2>2, <2>3
  <2> QED BY <2>4, <2>5 DEF b
<1>5. Within(t, 5 * m, w, 0)
  <2>1. Len(w) \in Nat /\ Len(s) \in Nat /\ Len(s) = 5 * m
    BY <1>1, <1>3
  <2>2. ASSUME NEW k \in 1 .. Len(t) - Len(s)
        PROVE  0 + k <= Len(w) /\ t[Len(s) + k] = w[0 + k]
    <3>1. Len(t) - Len(s) = Len(w)
      BY <1>2, <2>1
    <3>2. k \in 1 .. Len(w) /\ 0 + k = k
      BY <2>1, <3>1
    <3> QED BY <1>2, <3>2
  <2>3. Within(t, Len(s), w, 0)
    BY <2>2 DEF Within
  <2> QED BY <2>1, <2>3
<1> QED BY <1>3, <1>4, <1>5 DEF Awaits, w

\* The first header, and what is left when it has gone.
LEMMA AwaitsHeader ==
  ASSUME NEW s \in Seq(SymbolSet), NEW box, NEW id \in 0 .. MaxCalls,
         Awaits(s, box, id), s # <<>>
  PROVE  /\ HeaderAt(s, 0)
         /\ \/ /\ s[1].of.status = "continue"
               /\ \A t \in Seq(SymbolSet) : Dropped(t, s, 5) => Awaits(t, box, id)
            \/ /\ box = <<>>
               /\ \E a \in Answers : s[1].of = a /\ Within(s, 0, Wire(id, a), 0)
<1>0. Len(s) \in Nat /\ Len(s) > 0
  OBVIOUS
<1>1. PICK m \in Nat :
         /\ Continues(s, m)
         /\ \/ Len(box) = 1 /\ Caller(box[1]) = id /\ Len(s) = 5 * m
            \/ /\ box = <<>>
               /\ Len(s) <= 5 * m \/ \E a \in Answers : Within(s, 5 * m, Wire(id, a), 0)
  BY DEF Awaits
<1>2. CASE m = 0
  <2>1. PICK a \in Answers : box = <<>> /\ Within(s, 0, Wire(id, a), 0)
    BY <1>0, <1>1, <1>2
  <2> DEFINE w == Wire(id, a)
  <2>2. HeaderAt(w, 0) /\ w[1] = Symbol("http", id, a) /\ 5 <= Len(w)
    BY WireFacts
  <2>3. \A k \in 1 .. Len(s) - 0 : 0 + k <= Len(w) /\ s[0 + k] = w[0 + k]
    BY <2>1 DEF Within
  <2> HIDE DEF w
  <2>4. \A k \in 1 .. Len(s) : s[k] = w[k]
    BY <1>0, <2>3
  <2>5. HeaderAt(s, 0)
    <3> SUFFICES ASSUME NEW k \in 1 .. 5, 0 + k <= Len(s) PROVE HeadByte(s[0 + k], k)
      BY DEF HeaderAt
    <3>1. HeadByte(w[0 + k], k)
      <4>1. 0 + k <= Len(w)
        BY <1>0, <2>3
      <4> QED BY <2>2, <4>1 DEF HeaderAt
    <3>2. k \in 1 .. Len(s) /\ 0 + k = k
      BY <1>0
    <3> QED BY <3>1, <3>2, <2>4
  <2>6. s[1].of = a
    <3>1. s[1] = w[1]
      BY <1>0, <2>4
    <3> QED BY <2>2, <3>1 DEF Symbol
  <2> QED BY <2>1, <2>5, <2>6
<1>3. CASE m # 0
  <2>1. HeaderAt(s, 0) /\ s[1].of.status = "continue"
    <3>1. 0 \in 0 .. m - 1 /\ 5 * 0 = 0 /\ 0 + 1 = 1
      BY <1>3
    <3>2. HeaderAt(s, 5 * 0) /\ (5 * 0 < Len(s) => s[5 * 0 + 1].of.status = "continue")
      BY <1>1, <3>1 DEF Continues
    <3> QED BY <1>0, <3>1, <3>2
  <2>2. ASSUME NEW t \in Seq(SymbolSet), Dropped(t, s, 5)
        PROVE  Awaits(t, box, id)
    <3>0. /\ 5 <= Len(s) /\ Len(t) = Len(s) - 5
          /\ \A i \in 1 .. Len(s) - 5 : t[i] = s[5 + i]
      BY <2>2 DEF Dropped
    <3> DEFINE n == m - 1
    <3>1. n \in Nat /\ m = n + 1
      BY <1>3
    <3>n. 5 * m = 5 * n + 5
      BY <3>1
    <3>2. Continues(t, n)
      <4> SUFFICES ASSUME NEW j \in 0 .. n - 1
                   PROVE  HeaderAt(t, 5 * j) /\ (5 * j < Len(t) => t[5 * j + 1].of.status = "continue")
        BY DEF Continues
      <4> DEFINE b == 5 * j
      <4>1. b \in Nat /\ 5 * (j + 1) = 5 + b /\ j + 1 \in 0 .. m - 1
        BY <3>1
      <4>2. HeaderAt(s, 5 + b) /\ (5 + b < Len(s) => s[5 + b + 1].of.status = "continue")
        BY <1>1, <4>1 DEF Continues
      <4> HIDE DEF b, n
      <4>3. ASSUME NEW k \in 1 .. 5, b + k <= Len(t)
            PROVE  t[b + k] = s[5 + b + k] /\ 5 + b + k <= Len(s)
        <5>1. b + k \in 1 .. Len(s) - 5 /\ 5 + (b + k) = 5 + b + k /\ 5 + b + k <= Len(s)
          BY <1>0, <3>0, <4>1, <4>3
        <5> QED BY <3>0, <5>1
      <4>4. HeaderAt(t, b)
        BY <4>2, <4>3 DEF HeaderAt
      <4>5. b < Len(t) => t[b + 1].of.status = "continue"
        <5> SUFFICES ASSUME b < Len(t) PROVE t[b + 1].of.status = "continue"
          OBVIOUS
        <5>1. b + 1 <= Len(t) /\ 5 + b < Len(s)
          BY <1>0, <3>0, <4>1
        <5>2. t[b + 1] = s[5 + b + 1]
          BY <4>3, <5>1
        <5> QED BY <4>2, <5>1, <5>2
      <4> QED BY <4>4, <4>5 DEF b
    <3> HIDE DEF n
    <3>3. CASE Len(box) = 1 /\ Caller(box[1]) = id /\ Len(s) = 5 * m
      <4>1. Len(t) = 5 * n
        BY <3>0, <3>1, <3>n, <3>3
      <4> QED BY <3>1, <3>2, <3>3, <4>1 DEF Awaits
    <3>4. CASE box = <<>> /\ Len(s) <= 5 * m
      <4>1. Len(t) <= 5 * n
        BY <1>0, <3>0, <3>1, <3>n, <3>4
      <4> QED BY <3>1, <3>2, <3>4, <4>1 DEF Awaits
    <3>5. ASSUME NEW a \in Answers, box = <<>>, Within(s, 5 * m, Wire(id, a), 0)
          PROVE  Awaits(t, box, id)
      <4> DEFINE b == 5 * n
                 w == Wire(id, a)
      <4>1. b \in Nat /\ 5 * m = 5 + b
        BY <3>1, <3>n
      <4>2. \A k \in 1 .. Len(s) - (5 + b) : 0 + k <= Len(w) /\ s[5 + b + k] = w[0 + k]
        BY <3>5, <4>1 DEF Within
      <4> HIDE DEF b, w
      <4>3. ASSUME NEW k \in 1 .. Len(t) - b
            PROVE  0 + k <= Len(w) /\ t[b + k] = w[0 + k]
        <5>1. k \in 1 .. Len(s) - (5 + b) /\ b + k \in 1 .. Len(s) - 5 /\ 5 + (b + k) = 5 + b + k
          BY <1>0, <3>0, <4>1
        <5> QED BY <3>0, <4>2, <5>1
      <4>4. Within(t, b, w, 0)
        BY <4>3 DEF Within
      <4> QED BY <3>1, <3>2, <3>5, <4>4 DEF Awaits, b, w
    <3> QED BY <1>1, <3>3, <3>4, <3>5
  <2> QED BY <2>1, <2>2
<1> QED BY <1>2, <1>3

\* A size line is found where it begins, and so is the blank line that ends
\* a header or a body.
LEMMA LineFound ==
  ASSUME NEW s \in Seq(SymbolSet), NEW p \in Nat, Crlfs(s, p) # {},
         s[p + 1].kind = "size",
         p + 2 <= Len(s) => s[p + 2].kind = "cr", p + 3 <= Len(s) => s[p + 3].kind = "lf"
  PROVE  First(Crlfs(s, p)) = p + 2 /\ p + 3 <= Len(s)
<1> DEFINE f == First(Crlfs(s, p))
<1>1. /\ f \in (p + 1) .. (Len(s) - 1) /\ f \in Crlfs(s, p)
      /\ \A j \in Crlfs(s, p) : f <= j
  BY CrlfFound
<1>2. Len(s) \in Nat
  OBVIOUS
<1> HIDE DEF f
<1>3. s[f].kind = "cr"
  BY <1>1 DEF Crlfs
<1>4. f # p + 1
  BY <1>3
<1>5. p + 3 <= Len(s)
  BY <1>1, <1>2, <1>4
<1>6. p + 2 \in Crlfs(s, p)
  <2>1. p + 2 \in (p + 1) .. (Len(s) - 1) /\ p + 2 + 1 = p + 3 /\ p + 2 <= Len(s)
    BY <1>2, <1>5
  <2> QED BY <1>5, <2>1 DEF Crlfs
<1>7. f = p + 2
  BY <1>1, <1>2, <1>4, <1>6
<1> QED BY <1>5, <1>7 DEF f

LEMMA BlankLine ==
  ASSUME NEW s \in Seq(SymbolSet), NEW p \in Nat, Blanks(s, p) # {},
         s[p + 1].kind # "cr",
         p + 2 <= Len(s) => s[p + 2].kind = "cr", p + 3 <= Len(s) => s[p + 3].kind = "lf",
         p + 4 <= Len(s) => s[p + 4].kind = "cr", p + 5 <= Len(s) => s[p + 5].kind = "lf"
  PROVE  First(Blanks(s, p)) = p + 2 /\ p + 5 <= Len(s)
<1> DEFINE f == First(Blanks(s, p))
<1>1. /\ f \in (p + 1) .. (Len(s) - 3) /\ f \in Blanks(s, p)
      /\ \A j \in Blanks(s, p) : f <= j
  BY BlankFound
<1>2. Len(s) \in Nat
  OBVIOUS
<1> HIDE DEF f
<1>3. s[f].kind = "cr"
  BY <1>1 DEF Blanks, Crlfs
<1>4. f # p + 1
  BY <1>3
<1>5. p + 5 <= Len(s)
  BY <1>1, <1>2, <1>4
<1>6. p + 2 \in Blanks(s, p)
  <2>1. /\ p + 2 \in (p + 1) .. (Len(s) - 1) /\ p + 2 + 1 = p + 3 /\ p + 2 <= Len(s) /\ p + 3 <= Len(s)
        /\ p + 2 + 2 \in (p + 1) .. (Len(s) - 1) /\ p + 2 + 2 = p + 4 /\ p + 4 + 1 = p + 5
        /\ p + 4 <= Len(s)
    BY <1>2, <1>5
  <2>2. p + 2 \in Crlfs(s, p) /\ p + 4 \in Crlfs(s, p)
    BY <1>5, <2>1 DEF Crlfs
  <2> QED BY <2>1, <2>2 DEF Blanks
<1>7. f = p + 2
  BY <1>1, <1>2, <1>4, <1>6
<1> QED BY <1>5, <1>7 DEF f

\* On a connection that is in step a header is the first thing that arrives.
LEMMA HeaderIsFirst ==
  ASSUME Bytes, HeaderArrived, HeaderAt(Stream, 0)
  PROVE  /\ AfterHeader = Drop(received, 5) /\ 5 <= Len(received)
         /\ Header = Stream[1].of /\ received[1] = Stream[1]
<1>1. /\ received \in Seq(SymbolSet) /\ Len(received) \in Nat /\ Len(wire) \in Nat
      /\ Heads(received) # {} /\ Blanks(received, 0) # {}
  BY DEF Bytes, HeaderArrived
<1>2. /\ Len(Stream) = Len(received) + Len(wire)
      /\ \A i \in 1 .. Len(received) : Stream[i] = received[i]
  BY StreamFacts
<1>3. ASSUME NEW k \in 1 .. 5, k <= Len(received)
      PROVE  HeadByte(received[k], k)
  <2>1. k \in 1 .. Len(received) /\ 0 + k = k /\ 0 + k <= Len(Stream)
    BY <1>1, <1>2, <1>3
  <2>2. HeadByte(Stream[0 + k], k)
    BY <2>1 DEF HeaderAt
  <2> QED BY <1>2, <2>1, <2>2
<1>4. 1 <= Len(received) /\ received[1].kind = "http"
  <2>1. First(Heads(received)) \in 1 .. Len(received)
    BY <1>1, HeadFound
  <2>2. 1 <= Len(received)
    BY <1>1, <2>1
  <2> QED BY <1>3, <2>2 DEF HeadByte
<1>5. /\ 2 <= Len(received) => received[2].kind = "cr"
      /\ 3 <= Len(received) => received[3].kind = "lf"
      /\ 4 <= Len(received) => received[4].kind = "cr"
      /\ 5 <= Len(received) => received[5].kind = "lf"
  BY <1>3 DEF HeadByte
<1>6. 5 <= Len(received)
  <2>1. 0 + 1 = 1 /\ 0 + 2 = 2 /\ 0 + 3 = 3 /\ 0 + 4 = 4 /\ 0 + 5 = 5
    OBVIOUS
  <2>2. 0 + 5 <= Len(received)
    BY <1>1, <1>4, <1>5, <2>1, BlankLine
  <2> QED BY <2>1, <2>2
<1>7. First(Heads(received)) = 1
  <2>1. 1 \in Heads(received)
    BY <1>1, <1>4 DEF Heads
  <2>2. First(Heads(received)) \in 1 .. Len(received) /\ First(Heads(received)) <= 1
    BY <1>1, <2>1, HeadFound
  <2> QED BY <1>1, <2>2
<1>8. Blanks(received, 1) # {} /\ First(Blanks(received, 1)) = 2
  <2>1. 2 \in Crlfs(received, 1) /\ 4 \in Crlfs(received, 1)
    <3>1. 2 \in (1 + 1) .. (Len(received) - 1) /\ 4 \in (1 + 1) .. (Len(received) - 1)
      BY <1>1, <1>6
    <3>2. /\ received[2].kind = "cr" /\ received[2 + 1].kind = "lf"
          /\ received[4].kind = "cr" /\ received[4 + 1].kind = "lf"
      BY <1>1, <1>5, <1>6
    <3> QED BY <3>1, <3>2 DEF Crlfs
  <2>2. 2 \in Blanks(received, 1)
    BY <2>1 DEF Blanks
  <2>3. /\ First(Blanks(received, 1)) \in (1 + 1) .. (Len(received) - 3)
        /\ First(Blanks(received, 1)) <= 2
    BY <1>1, <2>2, BlankFound
  <2> QED BY <1>1, <2>2, <2>3
<1>9. AfterHeader = Drop(received, 5)
  BY <1>7, <1>8 DEF AfterHeader
<1>10. received[1] = Stream[1]
  BY <1>1, <1>2, <1>4
<1> QED BY <1>6, <1>7, <1>9, <1>10 DEF Header

(***************************************************************************)
(* What becomes of the bytes on their way when the peer acts or the client *)
(* reads.                                                                  *)
(***************************************************************************)
Awaiting(id) == Awaits(Stream, inbox, id)

LEMMA StreamType == ASSUME Bytes PROVE Stream \in Seq(SymbolSet)
BY StreamFacts

LEMMA TrimmedStream ==
  ASSUME Bytes, Bytes', received' = received, Prefix(wire', wire)
  PROVE  Prefix(Stream', Stream)
<1>1. /\ Len(Stream) = Len(received) + Len(wire)
      /\ \A i \in 1 .. Len(received) : Stream[i] = received[i]
      /\ \A i \in 1 .. Len(wire) : Stream[Len(received) + i] = wire[i]
  BY StreamFacts
<1>2. /\ Len(Stream') = Len(received) + Len(wire')
      /\ \A i \in 1 .. Len(received) : Stream'[i] = received[i]
      /\ \A i \in 1 .. Len(wire') : Stream'[Len(received) + i] = wire'[i]
  <2>1. /\ (Stream \in Seq(SymbolSet) /\ Len(Stream) = Len(received) + Len(wire))'
        /\ (\A i \in 1 .. Len(received) : Stream[i] = received[i])'
        /\ (\A i \in 1 .. Len(wire) : Stream[Len(received) + i] = wire[i])'
    BY StreamFacts, PTL
  <2> QED BY <2>1
<1>3. Len(received) \in Nat /\ Len(wire) \in Nat /\ Len(wire') \in Nat
  BY DEF Bytes
<1>4. Len(wire') <= Len(wire) /\ \A i \in 1 .. Len(wire') : wire'[i] = wire[i]
  BY DEF Prefix
<1> DEFINE s == Stream
           t == Stream'
<1> HIDE DEF s, t
<1>5. Len(t) <= Len(s)
  BY <1>1, <1>2, <1>3, <1>4 DEF s, t
<1>6. ASSUME NEW i \in 1 .. Len(t)
      PROVE  t[i] = s[i]
  <2>1. CASE i <= Len(received)
    <3>1. i \in 1 .. Len(received)
      BY <2>1, <1>2, <1>3 DEF t
    <3> QED BY <1>1, <1>2, <3>1 DEF s, t
  <2>2. CASE i > Len(received)
    <3> DEFINE j == i - Len(received)
    <3>1. j \in 1 .. Len(wire') /\ j \in 1 .. Len(wire) /\ Len(received) + j = i
      BY <2>2, <1>2, <1>3, <1>4 DEF t
    <3> HIDE DEF j
    <3>2. t[Len(received) + j] = wire'[j] /\ s[Len(received) + j] = wire[j] /\ wire'[j] = wire[j]
      BY <1>1, <1>2, <1>4, <3>1, Zenon DEF s, t
    <3> QED BY <3>1, <3>2
  <2> QED BY <2>1, <2>2, <1>2, <1>3 DEF t
<1> QED BY <1>5, <1>6 DEF Prefix, s, t

LEMMA PrefixCases ==
  ASSUME Bytes, wire' = wire \/ wire' = <<>> \/ \E n \in 0 .. Len(wire) : wire' = SubSeq(wire, 1, n)
  PROVE  Prefix(wire', wire)
<1>1. wire \in Seq(SymbolSet) /\ Len(wire) \in Nat
  BY DEF Bytes
<1>2. CASE wire' = wire
  BY <1>1, <1>2 DEF Prefix
<1>3. CASE wire' = <<>>
  BY <1>1, <1>3 DEF Prefix
<1>4. ASSUME NEW n \in 0 .. Len(wire), wire' = SubSeq(wire, 1, n)
      PROVE  Prefix(wire', wire)
  <2> DEFINE h == SubSeq(wire, 1, n)
  <2>1. Len(h) = n /\ \A i \in 1 .. n : h[i] = wire[i]
    BY <1>1, PrefixFacts
  <2> HIDE DEF h
  <2>2. n <= Len(wire)
    BY <1>1
  <2>3. Prefix(h, wire)
    BY <2>1, <2>2 DEF Prefix
  <2> QED BY <1>4, <2>3 DEF h
<1> QED BY <1>2, <1>3, <1>4

LEMMA PeerKeepsAwaiting ==
  ASSUME TypeInv, TypeInv', Peer, NEW id \in 0 .. MaxCalls, Awaiting(id)
  PROVE  Awaiting(id)'
<1>0. Bytes /\ Bytes' /\ Scalars
  BY DEF TypeInv
<1>1. received' = received
  BY DEF Peer, PeerContinues, PeerCloses, PeerResets, PeerAnswers
<1>s. Stream \in Seq(SymbolSet) /\ Stream' \in Seq(SymbolSet)
  <2>1. Stream \in Seq(SymbolSet)
    BY <1>0, StreamFacts
  <2>2. Stream' \in Seq(SymbolSet)
    <3>1. (Stream \in Seq(SymbolSet))'
      BY <1>0, StreamType, PTL
    <3> QED BY <3>1
  <2> QED BY <2>1, <2>2
<1>2. ASSUME inbox # <<>>
      PROVE  Len(inbox) = 1 /\ Caller(Head(inbox)) = id
  <2>1. Len(inbox) = 1 /\ Caller(inbox[1]) = id
    BY <1>2 DEF Awaiting, Awaits
  <2> QED BY <2>1
\* What comes after the bytes in the socket comes after all of them.
<1>3. ASSUME NEW w \in Seq(SymbolSet), wire' = wire \o w
      PROVE  Joined(SymbolSet, Stream, w, Len(Stream), Len(w), Stream')
  <2>1. Stream' = Stream \o w
    <3>1. received \in Seq(SymbolSet) /\ wire \in Seq(SymbolSet)
      BY <1>0 DEF Bytes
    <3>2. (received \o wire) \o w = received \o (wire \o w)
      BY <3>1, ConcatAssociative, SMTT(30)
    <3> QED BY <1>1, <1>3, <3>2, Zenon DEF Stream
  <2>2. InARow(SymbolSet, Stream, w, Len(Stream), Len(w), Stream')
    BY <1>s, <2>1, Zenon DEF InARow
  <2> QED BY <2>2, ConcatTwo, Zenon
<1>4. CASE PeerContinues
  <2>1. inbox # <<>> /\ inbox' = inbox /\ wire = <<>> /\ wire' = Wire(Caller(Head(inbox)), Continue)
    BY <1>4 DEF PeerContinues
  <2> DEFINE w == Wire(id, Continue)
  <2>2. w \in Seq(SymbolSet)
    BY WireFacts
  <2>3. wire' = w
    BY <1>2, <2>1
  <2>4. wire' = wire \o w
    <3> HIDE DEF w
    <3>1. <<>> \o w = w
      BY <2>2, ConcatEmptySeq
    <3> QED BY <2>1, <2>3, <3>1
  <2>5. Joined(SymbolSet, Stream, w, Len(Stream), Len(w), Stream')
    BY <1>3, <2>2, <2>4, Zenon
  <2>6. Awaits(Stream', inbox, id)
    BY <1>s, <2>1, <2>5, AwaitsContinue, Zenon DEF Awaiting
  <2> QED BY <2>1, <2>6 DEF Awaiting
<1>5. ASSUME NEW a \in Answers, PeerAnswers(a)
      PROVE  Awaiting(id)'
  <2>1. /\ inbox # <<>> /\ wire' = wire \o Wire(Caller(Head(inbox)), a)
        /\ inbox' = <<>> \/ inbox' = Tail(inbox)
    BY <1>5 DEF PeerAnswers
  <2> DEFINE w == Wire(id, a)
  <2>2. w \in Seq(SymbolSet)
    BY WireFacts
  <2>3. wire' = wire \o w
    BY <1>2, <2>1
  <2>5. Joined(SymbolSet, Stream, w, Len(Stream), Len(w), Stream')
    BY <1>3, <2>2, <2>3, Zenon
  <2>6. Awaits(Stream', <<>>, id)
    BY <1>s, <2>1, <2>5, AwaitsAnswer, Zenon DEF Awaiting
  <2>7. inbox' = <<>>
    <3>1. inbox \in Seq(Seq(1 .. MaxCalls)) /\ Len(inbox) = 1
      BY <1>0, <1>2, <2>1 DEF Scalars
    <3>2. Tail(inbox) = <<>>
      <4>1. Len(Tail(inbox)) = 0 /\ Tail(inbox) \in Seq(Seq(1 .. MaxCalls))
        BY <3>1, NoBytes, HeadTailProperties
      <4> QED BY <4>1, EmptySeq
    <3> QED BY <2>1, <3>2
  <2> QED BY <2>6, <2>7 DEF Awaiting
<1>6. CASE PeerCloses \/ PeerResets
  <2>1. /\ inbox' = <<>>
        /\ wire' = <<>> \/ \E n \in 0 .. Len(wire) : wire' = SubSeq(wire, 1, n)
    BY <1>6 DEF PeerCloses, PeerResets
  <2>2. Prefix(Stream', Stream)
    BY <1>0, <1>1, <2>1, PrefixCases, TrimmedStream
  <2>3. Awaits(Stream', <<>>, id)
    BY <1>s, <2>2, AwaitsTrimmed, Zenon DEF Awaiting
  <2> QED BY <2>1, <2>3 DEF Awaiting
<1> QED BY <1>4, <1>5, <1>6 DEF Peer

\* A read: the bytes move, or the socket has gone with those on their way.
LEMMA ReadingTrims ==
  ASSUME TypeInv, TypeInv', NEW next, Reading(next)
  PROVE  /\ \/ Stream' = Stream /\ inbox' = inbox
            \/ Prefix(Stream', Stream) /\ inbox' = <<>>
         /\ Len(received') >= Len(received)
<1>0. Bytes /\ Bytes' /\ Len(received) \in Nat
  BY DEF TypeInv, Bytes
<1>1. CASE Arrives(next)
  <2>1. Stream' = Stream /\ Len(received') > Len(received) /\ Len(received') \in Nat
    BY <1>0, <1>1, ArrivalFacts
  <2>2. inbox' = inbox
    BY <1>1 DEF Arrives
  <2>3. Len(received') >= Len(received)
    BY <1>0, <2>1
  <2> QED BY <2>1, <2>2, <2>3, Zenon
<1>2. CASE ~Arrives(next)
  <2>1. received' = received /\ (UNCHANGED <<sock, peerVars>> \/ CloseChannel)
    BY <1>2 DEF Reading
  <2>2. CASE UNCHANGED <<sock, peerVars>>
    <3>1. Len(received') >= Len(received)
      BY <1>0, <2>1
    <3>2. Stream' = Stream /\ inbox' = inbox
      BY <2>1, <2>2, Zenon DEF Stream
    <3> QED BY <3>1, <3>2, Zenon
  <2>3. CASE CloseChannel
    <3>1. Prefix(Stream', Stream)
      BY <1>0, <2>1, <2>3, PrefixCases, TrimmedStream
    <3> QED BY <1>0, <2>1, <2>3, <3>1
  <2> QED BY <2>1, <2>2, <2>3
<1> QED BY <1>1, <1>2

LEMMA ReadingKeepsAwaiting ==
  ASSUME TypeInv, TypeInv', NEW next, Reading(next), NEW id \in 0 .. MaxCalls, Awaiting(id)
  PROVE  Awaiting(id)'
<1>1. Bytes /\ Bytes'
  BY DEF TypeInv
<1>s. Stream \in Seq(SymbolSet) /\ Stream' \in Seq(SymbolSet)
  <2>1. Stream \in Seq(SymbolSet)
    BY <1>1, StreamFacts
  <2>2. Stream' \in Seq(SymbolSet)
    <3>1. (Stream \in Seq(SymbolSet))'
      BY <1>1, StreamType, PTL
    <3> QED BY <3>1
  <2> QED BY <2>1, <2>2
<1>2. CASE Stream' = Stream /\ inbox' = inbox
  BY <1>2 DEF Awaiting
<1>3. CASE Prefix(Stream', Stream) /\ inbox' = <<>>
  <2>1. Awaits(Stream', <<>>, id)
    BY <1>s, <1>3, AwaitsTrimmed, Zenon DEF Awaiting
  <2> QED BY <1>3, <2>1 DEF Awaiting
<1> QED BY <1>2, <1>3, ReadingTrims

\* No header is in the buffer or on its way, and nobody has been asked.
NoHead == {x \in SymbolSet : x.kind # "http"}
Headless == inbox = <<>> /\ received \in Seq(NoHead) /\ wire \in Seq(NoHead)

LEMMA WithoutHead ==
  ASSUME NEW s \in Seq(SymbolSet), \A i \in 1 .. Len(s) : s[i].kind # "http"
  PROVE  s \in Seq(NoHead)
<1>1. \A i \in 1 .. Len(s) : s[i] \in SymbolSet
  OBVIOUS
<1>2. \A i \in 1 .. Len(s) : s[i] \in NoHead
  BY <1>1, Zenon DEF NoHead
<1>3. s = [i \in 1 .. Len(s) |-> s[i]] /\ Len(s) \in Nat
  OBVIOUS
<1> QED BY <1>2, <1>3, IsASeq

LEMMA HeadlessHasNoHeads == ASSUME Headless PROVE Heads(received) = {}
<1>1. \A i \in DOMAIN received : received[i] \in NoHead
  BY DEF Headless
<1> QED BY <1>1 DEF NoHead, Heads

\* The header that was awaited: one of 100, or that of the answer, which no
\* other header follows.
LEMMA AwaitedHeader ==
  ASSUME TypeInv, TypeInv', HeaderArrived, NEW id \in 0 .. MaxCalls, Awaiting(id),
         received' = AfterHeader, wire' = wire, inbox' = inbox
  PROVE  \/ Header.status = "continue" /\ Awaiting(id)'
         \/ /\ inbox = <<>> /\ Dropped(Stream', Stream, 5)
            /\ \E a \in Answers : Header = a /\ Within(Stream, 0, Wire(id, a), 0)
<1>0. Bytes /\ Bytes'
  BY DEF TypeInv
<1>s. Stream \in Seq(SymbolSet) /\ Stream' \in Seq(SymbolSet)
  <2>1. Stream \in Seq(SymbolSet)
    BY <1>0, StreamType
  <2>2. Stream' \in Seq(SymbolSet)
    <3>1. (Stream \in Seq(SymbolSet))'
      BY <1>0, StreamType, PTL
    <3> QED BY <3>1
  <2> QED BY <2>1, <2>2
<1>1. Stream # <<>>
  <2>1. First(Heads(received)) \in 1 .. Len(received)
    BY <1>0, HeadFound DEF Bytes, HeaderArrived
  <2>2. Len(Stream) > 0
    <3>1. Len(received) \in Nat /\ Len(wire) \in Nat /\ Len(Stream) = Len(received) + Len(wire)
      BY <1>0, StreamFacts DEF Bytes
    <3> QED BY <2>1, <3>1
  <2> QED BY <2>2, NoBytes
<1>2. /\ HeaderAt(Stream, 0)
      /\ \/ /\ Stream[1].of.status = "continue"
            /\ \A t \in Seq(SymbolSet) : Dropped(t, Stream, 5) => Awaits(t, inbox, id)
         \/ /\ inbox = <<>>
            /\ \E a \in Answers : Stream[1].of = a /\ Within(Stream, 0, Wire(id, a), 0)
  BY <1>s, <1>1, AwaitsHeader DEF Awaiting
<1>3. AfterHeader = Drop(received, 5) /\ 5 <= Len(received) /\ Header = Stream[1].of
  BY <1>0, <1>2, HeaderIsFirst
<1>4. Dropped(Stream', Stream, 5)
  <2>1. 5 \in 0 .. Len(received) /\ Len(received) \in Nat /\ Len(wire) \in Nat
    BY <1>0, <1>3 DEF Bytes
  <2>2. /\ Len(Stream') = Len(Stream) - 5
        /\ \A i \in 1 .. Len(Stream) - 5 : Stream'[i] = Stream[5 + i]
    BY <1>0, <1>3, <2>1, DroppedFacts
  <2>3. 5 <= Len(Stream)
    BY <1>0, <1>3, <2>1, StreamFacts
  <2> QED BY <2>2, <2>3 DEF Dropped
<1>5. Stream[1].of.status = "continue" /\ (\A t \in Seq(SymbolSet) : Dropped(t, Stream, 5) => Awaits(t, inbox, id))
        => Header.status = "continue" /\ Awaits(Stream', inbox, id)
  BY <1>s, <1>3, <1>4, Zenon
<1>6. Awaits(Stream', inbox, id) => Awaiting(id)'
  BY DEF Awaiting
<1> QED BY <1>2, <1>3, <1>4, <1>5, <1>6, Zenon

LEMMA AnswerHasNoHeads ==
  ASSUME Bytes', NEW id \in 0 .. MaxCalls, NEW a \in Answers, Within(Stream, 0, Wire(id, a), 0),
         Dropped(Stream', Stream, 5), inbox' = <<>>, Len(Stream) \in Nat
  PROVE  Headless'
<1> DEFINE w == Wire(id, a)
           s == Stream
           t == Stream'
<1>1. Len(w) \in Nat /\ \A k \in 2 .. Len(w) : w[k].kind # "http"
  BY WireFacts
<1>2. \A k \in 1 .. Len(s) - 0 : 0 + k <= Len(w) /\ s[0 + k] = w[0 + k]
  BY DEF Within
<1>3. Len(t) = Len(s) - 5 /\ \A i \in 1 .. Len(s) - 5 : t[i] = s[5 + i]
  BY DEF Dropped
<1>0. Len(s) \in Nat
  OBVIOUS
<1>4. /\ Len(t) = Len(received') + Len(wire')
      /\ \A i \in 1 .. Len(received') : t[i] = received'[i]
      /\ \A i \in 1 .. Len(wire') : t[Len(received') + i] = wire'[i]
  <2>1. /\ (Stream \in Seq(SymbolSet) /\ Len(Stream) = Len(received) + Len(wire))'
        /\ (\A i \in 1 .. Len(received) : Stream[i] = received[i])'
        /\ (\A i \in 1 .. Len(wire) : Stream[Len(received) + i] = wire[i])'
    BY StreamFacts, PTL
  <2> QED BY <2>1
<1> HIDE DEF w, s, t
<1>5. ASSUME NEW i \in 1 .. Len(t)
      PROVE  t[i].kind # "http"
  <2>1. i \in 1 .. Len(s) - 5 /\ 5 + i \in 1 .. Len(s) /\ 0 + (5 + i) = 5 + i /\ 5 + i \in 1 .. Len(s) - 0
    BY <1>0, <1>3
  <2>2. t[i] = w[5 + i] /\ 5 + i <= Len(w)
    BY <1>2, <1>3, <2>1
  <2>3. 5 + i \in 2 .. Len(w)
    BY <1>1, <2>1, <2>2
  <2> QED BY <1>1, <2>2, <2>3
<1>6. received' \in Seq(SymbolSet) /\ wire' \in Seq(SymbolSet)
  BY DEF Bytes
<1>7. Len(received') \in Nat /\ Len(wire') \in Nat
  BY <1>6
<1>8. \A i \in 1 .. Len(received') : received'[i].kind # "http"
  <2> TAKE i \in 1 .. Len(received')
  <2>1. i \in 1 .. Len(t)
    BY <1>4, <1>7
  <2> QED BY <1>4, <1>5, <2>1
<1>9. \A i \in 1 .. Len(wire') : wire'[i].kind # "http"
  <2> TAKE i \in 1 .. Len(wire')
  <2>1. Len(received') + i \in 1 .. Len(t)
    BY <1>4, <1>7
  <2> QED BY <1>4, <1>5, <2>1
<1>10. received' \in Seq(NoHead) /\ wire' \in Seq(NoHead)
  BY <1>6, <1>8, <1>9, WithoutHead
<1> QED BY <1>10 DEF Headless

\* What the chunked state leaves in the buffer was there before.
LEMMA ChunksKeepBuffer ==
  ASSUME TypeInv, NEW S \in SUBSET SymbolSet, received \in Seq(S),
         NextChunk \/ GetChunkSize \/ ChunkFilled \/ EndChunks
  PROVE  received' \in Seq(S) /\ wire' = wire /\ inbox' = inbox
<1>0. received \in Seq(SymbolSet) /\ Len(received) \in Nat /\ chunkLeft \in Nat
  BY DEF TypeInv, Bytes, Scalars
<1>o. Offset \in Nat
  BY <1>0 DEF Offset
<1>1. CASE NextChunk
  <2> DEFINE rest == IF 1 \in Crlfs(received, 0) THEN Drop(received, 2) ELSE received
             lines == Crlfs(rest, 0)
  <2>1. rest \in Seq(S)
    <3>1. Drop(received, 2) \in Seq(S)
      BY DropFacts
    <3> QED BY <3>1
  <2>2. received' = rest \/ (lines # {} /\ received' = Drop(rest, First(lines) + 1))
    <3> HIDE DEF lines
    <3> QED BY <1>1 DEF NextChunk, lines
  <2> HIDE DEF rest
  <2>3. ASSUME lines # {}
        PROVE  Drop(rest, First(lines) + 1) \in Seq(S)
    <3>1. rest \in Seq(SymbolSet) /\ Len(rest) \in Nat
      BY <2>1, SeqMonotonic
    <3>2. First(lines) \in (0 + 1) .. (Len(rest) - 1)
      BY <2>3, <3>1, CrlfFound
    <3> HIDE DEF lines
    <3>3. First(lines) + 1 \in Nat
      BY <3>1, <3>2
    <3> QED BY <2>1, <3>3, DropFacts
  <2>4. wire' = wire /\ inbox' = inbox
    BY <1>1 DEF NextChunk
  <2> QED BY <2>1, <2>2, <2>3, <2>4
<1>2. CASE GetChunkSize
  <2> DEFINE lines == Crlfs(received, Offset)
             eol == First(lines)
  <2>1. lines # {}
    BY <1>2 DEF GetChunkSize, Incomplete
  <2>2. eol \in (Offset + 1) .. (Len(received) - 1)
    BY <1>0, <1>o, <2>1, CrlfFound
  <2>3. received' = received \/ received' = Drop(received, eol + 1)
    <3> HIDE DEF lines
    <3> QED BY <1>2 DEF GetChunkSize, lines
  <2> HIDE DEF eol
  <2>4. eol + 1 \in Nat
    BY <1>0, <1>o, <2>2
  <2>5. Drop(received, eol + 1) \in Seq(S)
    BY <2>4, DropFacts
  <2>6. wire' = wire /\ inbox' = inbox
    BY <1>2 DEF GetChunkSize
  <2> QED BY <2>3, <2>5, <2>6
<1>3. CASE ChunkFilled
  BY <1>3 DEF ChunkFilled
<1>4. CASE EndChunks
  <2> DEFINE ends == Blanks(received, Offset)
             n == First(ends) + 3
  <2>1. ends # {}
    BY <1>4 DEF EndChunks, Incomplete
  <2>2. First(ends) \in (Offset + 1) .. (Len(received) - 3)
    BY <1>0, <1>o, <2>1, BlankFound
  <2>3. received' = Erase(received, Offset, n) /\ wire' = wire /\ inbox' = inbox
    BY <1>4 DEF EndChunks
  <2>4. n \in Nat /\ Offset \in 0 .. Len(received)
    <3> HIDE DEF ends
    <3> QED BY <1>0, <1>o, <2>2
  <2> HIDE DEF n
  <2>5. Erase(received, Offset, n) \in Seq(S)
    BY <2>4, EraseFacts
  <2> QED BY <2>3, <2>5
<1> QED BY <1>1, <1>2, <1>3, <1>4

\* What a read leaves has no more headers than what was on its way.
LEMMA ReadingKeepsHeadless ==
  ASSUME TypeInv, Headless, NEW next, Reading(next)
  PROVE  Headless'
<1>1. inbox = <<>> /\ received \in Seq(NoHead) /\ wire \in Seq(NoHead)
  BY DEF Headless
<1>2. CASE Arrives(next)
  <2>1. PICK n \in 1 .. Len(wire) : /\ received' = received \o SubSeq(wire, 1, n)
                                    /\ wire' = Drop(wire, n)
    BY <1>2 DEF Arrives
  <2> DEFINE h == SubSeq(wire, 1, n)
  <2>2. n \in 0 .. Len(wire) /\ n \in Nat
    BY <1>1
  <2>3. h \in Seq(NoHead) /\ wire' \in Seq(NoHead)
    BY <1>1, <2>1, <2>2, PrefixFacts, DropFacts
  <2>4. received' = received \o h
    BY <2>1
  <2> HIDE DEF h
  <2>5. received' \in Seq(NoHead)
    BY <1>1, <2>3, <2>4, ConcatProperties
  <2>6. inbox' = inbox
    BY <1>2 DEF Arrives
  <2> QED BY <1>1, <2>3, <2>5, <2>6 DEF Headless
<1>3. CASE ~Arrives(next)
  <2>1. received' = received /\ (UNCHANGED <<sock, peerVars>> \/ CloseChannel)
    BY <1>3 DEF Reading
  <2>2. <<>> \in Seq(NoHead)
    BY EmptySeq
  <2> QED BY <1>1, <2>1, <2>2 DEF Headless
<1> QED BY <1>2, <1>3

-----------------------------------------------------------------------------
(***************************************************************************)
(* A call: its socket, its redirects and its envelope.  Whatever the       *)
(* connection was used for before.                                         *)
(***************************************************************************)
Silent == wire = <<>> /\ inbox = <<>>

\* Nothing is on its way without a socket; a redirect starts on a new one.
Linked ==
  /\ ~sock => Silent
  /\ pc = "reopen" => ~sock
  /\ pc = "reflush" => Silent

\* The attempts count the requests while they may be redirected.  After the
\* first redirect the connection is one of this call alone, so that a header
\* that is no answer to it cannot set the attempts back.
Redirected ==
  /\ pc \in Opening \cup Flushing => sends <= attempts
  /\ pc \in {"open", "flush"} => sends = 0
  /\ pc \in {"reopen", "reflush"} => attempts > 0
  /\ sends > 1 =>
       \/ pc \in {"reopen", "reflush"}
       \/ pc = "header" /\ sends <= 1 + attempts /\ \E id \in 0 .. MaxCalls : Awaiting(id)
       \/ pc \in InGetBytes \cup {"ready"} /\ sends <= 1 + MaxRedirects /\ Headless
       \/ pc \in {"done", "idle"} /\ sends <= 1 + MaxRedirects

\* The buffer holds the call's envelope behind those that could not be sent.
Whole(p) ==
  /\ p # <<>> /\ p[Len(p)] = call
  /\ \A i \in 1 .. Len(p) - 1 : p[i] \in unsent

Buffered ==
  /\ pc \in {"open", "flush"} => Whole(toSend) /\ got = <<>>
  /\ pc \in {"idle", "done"} => \A i \in 1 .. Len(toSend) : toSend[i] \in unsent
  /\ pc \notin {"idle", "done", "open", "flush"} => toSend = <<>>

CallInv == Linked /\ Redirected /\ Buffered

LEMMA InitCall == Init => CallInv
<1> SUFFICES ASSUME Init PROVE CallInv
  OBVIOUS
<1>1. pc = "idle" /\ wire = <<>> /\ inbox = <<>> /\ sends = 0 /\ toSend = <<>>
  BY DEF Init
<1>2. Len(toSend) = 0
  BY <1>1
<1> QED BY <1>1, <1>2 DEF CallInv, Linked, Redirected, Buffered, Silent

LEMMA BetweenKeepsCall == TypeInv /\ CallInv /\ Between => CallInv'
<1>1. ASSUME TypeInv, CallInv, NEW u \in Urls, SetEndpointUri(u)
      PROVE  CallInv'
  <2>1. pc = "idle" /\ UNCHANGED <<sock, pc, sends, toSend, unsent, wire, inbox>>
    BY <1>1 DEF SetEndpointUri
  <2> QED BY <1>1, <2>1 DEF CallInv, Linked, Redirected, Buffered, Silent
<1>2. ASSUME TypeInv, CallInv, NEW way \in BOOLEAN, SendBytes(way) \/ SerializeFails(way)
      PROVE  CallInv'
  <2>0. /\ BeginCall(way)
        /\ \/ pc' = "open" /\ unsent' = unsent
           \/ pc' = "done" /\ unsent' = unsent \cup {call'}
    BY <1>2 DEF SendBytes, SerializeFails
  <2>1. /\ pc = "idle" /\ call' = call + 1 /\ sends' = 0 /\ got' = <<>>
        /\ UNCHANGED <<sock, wire, inbox>>
        /\ attempts' = 0 \/ attempts' = attempts
    BY <2>0 DEF BeginCall
  <2> DEFINE p == Append(toSend, call + 1)
  <2>2. toSend' = p
    BY <2>0 DEF BeginCall
  <2>3. toSend \in Seq(1 .. MaxCalls) /\ call \in Int /\ attempts \in Nat
    BY <1>2 DEF TypeInv, Scalars
  <2>4. \A i \in 1 .. Len(toSend) : toSend[i] \in unsent
    BY <1>2, <2>1 DEF CallInv, Buffered
  <2>5. /\ Len(p) = Len(toSend) + 1 /\ p[Len(toSend) + 1] = call + 1
        /\ \A i \in 1 .. Len(toSend) : p[i] = toSend[i]
    <3>1. call + 1 \in 1 .. MaxCalls
      BY <1>2, <2>0, HTTPAssumption DEF BeginCall, TypeInv, Scalars
    <3> QED BY <2>3, <3>1, AppendProperties
  <2> HIDE DEF p
  <2>6. p # <<>> /\ p[Len(p)] = call' /\ \A i \in 1 .. Len(p) - 1 : p[i] \in unsent'
    <3>1. Len(toSend) \in Nat
      BY <2>3
    <3>2. p # <<>>
      BY <2>5, <3>1
    <3> QED BY <2>0, <2>1, <2>4, <2>5, <3>1, <3>2
  <2>7. Whole(toSend)'
    BY <2>2, <2>6 DEF Whole
  <2>8. CASE pc' = "open"
    BY <1>2, <2>1, <2>3, <2>7, <2>8 DEF CallInv, Linked, Redirected, Buffered, Silent
  <2>9. CASE pc' = "done"
    <3>1. \A i \in 1 .. Len(p) : p[i] \in unsent'
      <4>1. Len(toSend) \in Nat
        BY <2>3
      <4>2. \A i \in 1 .. Len(p) : i = Len(p) \/ i \in 1 .. Len(p) - 1
        BY <2>5, <4>1
      <4> QED BY <2>0, <2>6, <2>9, <4>2
    <3>2. Buffered'
      BY <2>2, <2>9, <3>1 DEF Buffered
    <3> QED BY <1>2, <2>1, <2>9, <3>2 DEF CallInv, Linked, Redirected, Silent
  <2> QED BY <2>0, <2>8, <2>9
<1> QED BY <1>1, <1>2 DEF Between

LEMMA OpeningKeepsCall ==
  ASSUME TypeInv, CallInv, Open \/ Reopen
  PROVE  CallInv'
<1>0. /\ sends \in Nat /\ attempts \in 0 .. MaxRedirects /\ MaxRedirects \in Nat
      /\ toSend \in Seq(1 .. MaxCalls) /\ sock \in BOOLEAN
  BY HTTPAssumption DEF TypeInv, Scalars
<1>1. ASSUME NEW here \in Opening, NEW next \in Flushing, OpenConnection(here, next),
             here = "open" <=> next = "flush"
      PROVE  CallInv'
  <2>0. /\ pc = here /\ UNCHANGED <<sends, attempts, toSend, call, got>>
        /\ sends <= attempts
        /\ pc = "open" => sends = 0 /\ Whole(toSend) /\ got = <<>>
        /\ pc = "reopen" => attempts > 0 /\ ~sock /\ toSend = <<>>
    BY <1>1 DEF OpenConnection, CallInv, Linked, Redirected, Buffered
  <2>1. CASE (~sock \/ reopen) /\ sock' = TRUE /\ pc' = next /\ unsent' = unsent
    <3>1. wire' = <<>> /\ inbox' = <<>>
      BY <1>1, <2>1 DEF OpenConnection
    <3>2. Whole(toSend) => Whole(toSend)'
      BY <2>0, <2>1 DEF Whole
    <3> QED BY <1>0, <1>1, <2>0, <2>1, <3>1, <3>2 DEF CallInv, Linked, Redirected, Buffered, Silent
  <2>2. CASE (~sock \/ reopen) /\ sock' = FALSE /\ Throw /\ unsent' = unsent \cup {call}
    <3>1. wire' = <<>> /\ inbox' = <<>>
      BY <1>1, <2>2 DEF OpenConnection
    <3>2. \A i \in 1 .. Len(toSend') : toSend'[i] \in unsent'
      <4>1. CASE pc = "open"
        <5>1. toSend[Len(toSend)] = call /\ \A i \in 1 .. Len(toSend) - 1 : toSend[i] \in unsent
          BY <2>0, <4>1 DEF Whole
        <5>2. \A i \in 1 .. Len(toSend) : i = Len(toSend) \/ i \in 1 .. Len(toSend) - 1
          BY <1>0
        <5> QED BY <2>0, <2>2, <5>1, <5>2
      <4>2. CASE pc = "reopen"
        BY <2>0, <4>2
      <4> QED BY <1>1, <2>0, <4>1, <4>2
    <3>3. sends' <= 1 + MaxRedirects
      BY <1>0, <2>0
    <3> QED BY <2>2, <3>1, <3>2, <3>3 DEF CallInv, Linked, Redirected, Buffered, Silent
  <2>3. CASE ~(~sock \/ reopen)
    <3>1. pc' = next /\ UNCHANGED <<sock, peerVars, unsent>> /\ sock
      BY <1>1, <2>3 DEF OpenConnection
    <3>2. Whole(toSend) => Whole(toSend)'
      BY <2>0, <3>1 DEF Whole
    <3>3. pc = "open" /\ pc' = "flush"
      BY <1>1, <2>0, <3>1
    <3> QED BY <2>0, <3>1, <3>2, <3>3 DEF CallInv, Linked, Redirected, Buffered, Silent
  <2> QED BY <1>1, <2>1, <2>2, <2>3 DEF OpenConnection
<1> QED BY <1>1 DEF Open, Reopen

\* A request that is written to a connection that owes nothing is the one that
\* the connection owes the answer to.
LEMMA RequestIsAwaited ==
  ASSUME TypeInv, received = <<>>, Silent, NEW here, NEW next, FlushOutput(here, next), pc' # "done"
  PROVE  Awaits(Stream', inbox', Caller(Payload)) /\ sends' = sends + 1
<1>1. /\ received' = <<>> /\ wire' = <<>> /\ sends' = sends + 1
      /\ inbox' = Append(inbox, Payload) \/ inbox' = <<>>
  BY DEF FlushOutput, Silent
<1>2. Stream' = <<>>
  <2>1. <<>> \o <<>> = <<>>
    BY NoBytes, ConcatEmptySeq
  <2> QED BY <1>1, <2>1 DEF Stream
<1>3. Len(Stream') = 5 * 0 /\ 0 \in Nat
  BY <1>2, NoBytes
<1>4. Continues(Stream', 0)
  BY DEF Continues
<1>5. CASE inbox' = <<>>
  <2>1. Len(Stream') <= 5 * 0
    BY <1>3
  <2> QED BY <1>1, <1>3, <1>4, <1>5, <2>1 DEF Awaits
<1>6. CASE inbox' = Append(inbox, Payload)
  <2>1. Payload \in Seq(1 .. MaxCalls)
    BY DEF TypeInv, Scalars, Payload
  <2> DEFINE p == Payload
  <2> HIDE DEF p
  <2>2. inbox' = Append(<<>>, p)
    BY <1>6 DEF Silent, p
  <2>3. Len(inbox') = 1 /\ inbox'[1] = p
    BY <2>2
  <2> QED BY <1>1, <1>3, <1>4, <2>3 DEF Awaits, p
<1> QED BY <1>1, <1>5, <1>6

LEMMA PayloadCaller == TypeInv => Caller(Payload) \in 0 .. MaxCalls
<1> SUFFICES ASSUME TypeInv PROVE Caller(Payload) \in 0 .. MaxCalls
  OBVIOUS
<1>1. Payload \in Seq(1 .. MaxCalls) /\ MaxCalls \in Nat
  BY HTTPAssumption DEF TypeInv, Scalars, Payload
<1> QED BY <1>1 DEF Caller

LEMMA FlushingKeepsCall ==
  ASSUME TypeInv, ConnectionInv, CallInv, Flush \/ Reflush
  PROVE  CallInv'
<1>0. sends \in Nat /\ attempts \in 0 .. MaxRedirects /\ MaxRedirects \in Nat /\ sock \in BOOLEAN
  BY HTTPAssumption DEF TypeInv, Scalars
<1>1. ASSUME NEW here \in Flushing, NEW next \in {"probe", "ready", "header"},
             FlushOutput(here, next), here = "reflush" <=> next = "header"
      PROVE  CallInv'
  <2>0. /\ pc = here /\ toSend' = <<>> /\ UNCHANGED <<attempts, call, got, unsent>>
        /\ sends <= attempts /\ received = <<>> /\ sock
        /\ pc = "flush" => sends = 0
        /\ pc = "reflush" => Silent
    BY <1>1 DEF FlushOutput, ResetOutput, CallInv, Linked, Redirected, ConnectionInv, Ready
  <2>1. Len(toSend') = 0
    BY <2>0
  <2>2. CASE pc' = "done"
    <3>1. sends' = sends /\ wire' = <<>> /\ inbox' = <<>>
      BY <1>1, <2>2 DEF FlushOutput
    <3>2. sends' <= 1 + MaxRedirects
      BY <1>0, <2>0, <3>1
    <3> QED BY <2>0, <2>1, <2>2, <3>1, <3>2 DEF CallInv, Linked, Redirected, Buffered, Silent
  <2>3. CASE pc' # "done"
    <3>1. pc' = next /\ sock' = sock /\ sends' = sends + 1
      BY <1>1, <2>3 DEF FlushOutput
    <3>2. CASE here = "flush"
      <4>1. sends' = 1 /\ ~(sends' > 1)
        BY <2>0, <3>1, <3>2
      <4> QED BY <1>1, <2>0, <3>1, <3>2, <4>1 DEF CallInv, Linked, Redirected, Buffered, Silent
    <3>3. CASE here = "reflush"
      <4>1. Awaits(Stream', inbox', Caller(Payload))
        BY <1>1, <2>0, <2>3, <3>3, RequestIsAwaited
      <4>2. (\E id \in 0 .. MaxCalls : Awaiting(id))'
        <5>1. \E id \in 0 .. MaxCalls : Awaits(Stream', inbox', id)
          BY <4>1, PayloadCaller
        <5> QED BY <5>1 DEF Awaiting
      <4>3. sends' <= 1 + attempts'
        BY <1>0, <2>0, <3>1
      <4> QED BY <1>1, <2>0, <3>1, <3>3, <4>2, <4>3 DEF CallInv, Linked, Redirected, Buffered, Silent
    <3> QED BY <1>1, <3>2, <3>3
  <2> QED BY <2>2, <2>3
<1> QED BY <1>1 DEF Flush, Reflush

LEMMA ReadingKeepsCall ==
  ASSUME TypeInv, TypeInv', CallInv, ReadStep
  PROVE  CallInv'
<1>0. sends \in Nat /\ attempts \in 0 .. MaxRedirects /\ MaxRedirects \in Nat /\ sock \in BOOLEAN
  BY HTTPAssumption DEF TypeInv, Scalars
<1>1. PICK next \in InGetBytes : ReadFor(next) /\ Reading(next) /\ UNCHANGED ReadFrame
  BY DEF ReadStep
<1>2. /\ pc \in InGetBytes /\ pc \notin {"open", "flush", "reopen", "reflush", "idle", "done"}
      /\ next = "header" <=> pc = "header"
      /\ UNCHANGED <<sends, attempts, toSend, call, got, unsent>>
  BY <1>1 DEF ReadFor, InGetBytes
<1>3. toSend = <<>> /\ Len(toSend) = 0
  <2>1. toSend = <<>>
    BY <1>2 DEF CallInv, Buffered
  <2> QED BY <2>1
<1>4. ~sock' => Silent'
  <2>1. CASE Arrives(next)
    BY <2>1 DEF Arrives
  <2>2. CASE ~Arrives(next)
    <3>1. UNCHANGED <<sock, peerVars>> \/ CloseChannel
      BY <1>1, <2>2 DEF Reading
    <3> QED BY <3>1 DEF CallInv, Linked, Silent
  <2> QED BY <2>1, <2>2
<1>5. pc' = next \/ pc' = "done"
  BY <1>1 DEF Reading, Arrives
<1>6. sends > 1 =>
        \/ pc = "header" /\ sends <= 1 + attempts /\ \E id \in 0 .. MaxCalls : Awaiting(id)
        \/ sends <= 1 + MaxRedirects /\ Headless
  BY <1>2 DEF CallInv, Redirected
<1>7. Headless => Headless'
  BY <1>1, ReadingKeepsHeadless
<1>8. (\E id \in 0 .. MaxCalls : Awaiting(id)) => (\E id \in 0 .. MaxCalls : Awaiting(id)')
  BY <1>1, ReadingKeepsAwaiting
<1>9. Redirected'
  <2>1. CASE pc' = "done"
    BY <1>0, <1>2, <1>6, <2>1 DEF Redirected
  <2>2. CASE pc' = next
    <3>1. sends' > 1 =>
            \/ pc' = "header" /\ sends' <= 1 + attempts' /\ (\E id \in 0 .. MaxCalls : Awaiting(id))'
            \/ pc' \in InGetBytes /\ sends' <= 1 + MaxRedirects /\ Headless'
      BY <1>2, <1>6, <1>7, <1>8, <2>2
    <3>2. pc' \notin {"open", "flush", "reopen", "reflush"}
      BY <2>2 DEF InGetBytes
    <3> QED BY <3>1, <3>2 DEF Redirected
  <2> QED BY <1>5, <2>1, <2>2
<1>10. pc' \notin {"open", "flush", "reopen", "reflush"}
  BY <1>5 DEF InGetBytes
<1> QED BY <1>2, <1>3, <1>4, <1>9, <1>10 DEF CallInv, Linked, Buffered

LEMMA HeaderKeepsCall ==
  ASSUME TypeInv, TypeInv', CallInv, ProcessHeader \/ HandleRedirect
  PROVE  CallInv'
<1>0. /\ sends \in Nat /\ attempts \in 0 .. MaxRedirects /\ MaxRedirects \in Nat /\ sock \in BOOLEAN
      /\ Bytes /\ Bytes'
  BY HTTPAssumption DEF TypeInv, Scalars
<1>1. pc = "header" /\ HeaderArrived
  BY DEF ProcessHeader, HandleRedirect
<1>2. toSend = <<>> /\ Len(toSend) = 0
  <2>1. toSend = <<>>
    BY <1>1 DEF CallInv, Buffered
  <2> QED BY <2>1
\* With a header in the buffer the connection is not one without headers.
<1>3. sends > 1 => sends <= 1 + attempts /\ \E id \in 0 .. MaxCalls : Awaiting(id)
  <2>1. ~Headless
    BY <1>1, HeadlessHasNoHeads DEF HeaderArrived
  <2> QED BY <1>1, <2>1 DEF CallInv, Redirected
<1>4. CASE ProcessHeader
  <2>1. /\ received' = AfterHeader /\ UNCHANGED <<toSend, sock, call, got, wire, inbox, sends, unsent>>
        /\ \/ Header.status = "continue" /\ UNCHANGED <<pc, attempts>>
           \/ Header.status = "ok" /\ pc' = "body"
           \/ pc' = "done"
    BY <1>4 DEF ProcessHeader
  <2>2. ~sock' => Silent'
    BY <2>1 DEF CallInv, Linked, Silent
  <2>3. ASSUME sends > 1
        PROVE  \/ pc' = "header" /\ sends' <= 1 + attempts' /\ (\E id \in 0 .. MaxCalls : Awaiting(id)')
               \/ pc' \in {"header", "body"} /\ Headless'
               \/ pc' = "done"
    <3>1. PICK id \in 0 .. MaxCalls : Awaiting(id)
      BY <1>3, <2>3
    <3>2. CASE Header.status = "continue" /\ Awaiting(id)'
      BY <1>1, <1>3, <2>1, <2>3, <3>2
    <3>3. ASSUME NEW a \in Answers, inbox = <<>>, Dropped(Stream', Stream, 5),
                 Within(Stream, 0, Wire(id, a), 0)
          PROVE  Headless'
      <4>1. Stream \in Seq(SymbolSet)
        BY <1>0, StreamType
      <4>2. Len(Stream) \in Nat
        BY <4>1
      <4>3. inbox' = <<>> /\ a \in Answers
        BY <2>1, <3>3
      <4> QED BY <1>0, <3>3, <4>2, <4>3, AnswerHasNoHeads
    <3>4. pc' \in {"header", "body", "done"}
      BY <1>1, <2>1
    <3> QED BY <1>1, <2>1, <3>1, <3>2, <3>3, <3>4, AwaitedHeader
  <2>4. sends' <= 1 + MaxRedirects
    BY <1>0, <1>3, <2>1
  <2>5. pc' \in {"header", "body", "done"}
    BY <1>1, <2>1
  <2>6. Redirected'
    <3>1. sends' > 1 =>
            \/ pc' = "header" /\ sends' <= 1 + attempts' /\ (\E id \in 0 .. MaxCalls : Awaiting(id))'
            \/ pc' \in {"header", "body"} /\ Headless'
            \/ pc' = "done"
      BY <2>1, <2>3
    <3> QED BY <2>4, <2>5, <3>1 DEF Redirected, InGetBytes
  <2> QED BY <1>2, <2>1, <2>2, <2>5, <2>6 DEF CallInv, Linked, Buffered
<1>5. CASE HandleRedirect
  <2>1. /\ ~sock' /\ wire' = <<>> /\ inbox' = <<>>
        /\ UNCHANGED <<toSend, call, got, sends, unsent>>
        /\ \/ attempts < MaxRedirects /\ attempts' = attempts + 1 /\ pc' = "reopen"
           \/ pc' = "done"
    BY <1>5 DEF HandleRedirect
  <2>2. sends' <= 1 + MaxRedirects
    BY <1>0, <1>3, <2>1
  <2>3. pc' = "reopen" => sends' <= attempts' /\ attempts' > 0
    BY <1>0, <1>3, <2>1
  <2> QED BY <1>2, <2>1, <2>2, <2>3 DEF CallInv, Linked, Redirected, Buffered, Silent
<1> QED BY <1>4, <1>5

\* What getBytes does with what has been read.
LEMMA ServingKeepsCall ==
  ASSUME CallInv, pc \in InGetBytes \cup {"ready", "probe"}, pc # "header", Headless => Headless',
         pc' \in InGetBytes \cup {"ready", "done"}, UNCHANGED <<sends, toSend, unsent, call, sock>>,
         wire' = wire, inbox' = inbox
  PROVE  CallInv'
<1>1. toSend = <<>> /\ Len(toSend) = 0
  <2>1. toSend = <<>>
    BY DEF CallInv, Buffered, InGetBytes
  <2> QED BY <2>1
<1>2. pc' \notin {"open", "flush", "reopen", "reflush", "idle"} /\ pc \notin {"reopen", "reflush", "idle", "done"}
  BY DEF InGetBytes
<1>3. sends > 1 => sends <= 1 + MaxRedirects /\ Headless'
  <2> SUFFICES ASSUME sends > 1 PROVE sends <= 1 + MaxRedirects /\ Headless'
    OBVIOUS
  <2>1. \/ pc \in {"reopen", "reflush"}
        \/ pc = "header"
        \/ sends <= 1 + MaxRedirects /\ Headless
        \/ pc \in {"done", "idle"}
    BY DEF CallInv, Redirected
  <2> QED BY <1>2, <2>1
<1> QED BY <1>1, <1>2, <1>3 DEF CallInv, Linked, Redirected, Buffered, Silent

LEMMA GetBytesKeepsCall ==
  ASSUME TypeInv, CallInv, IsThereResponseData \/ Parse
  PROVE  CallInv'
<1>0. sends \in Nat /\ wire \in Seq(SymbolSet)
  BY DEF TypeInv, Scalars, Bytes
<1>1. ASSUME NEW n, GetBytes(n), pc \in {"probe", "ready"}
      PROVE  CallInv'
  <2>1. /\ pc' \in {"header", "body"} /\ UNCHANGED <<sends, toSend, unsent, call, sock, wire, inbox>>
        /\ received' = <<>> \/ received' = received
    BY <1>1 DEF GetBytes
  <2>2. Headless => Headless'
    <3>1. <<>> \in Seq(NoHead)
      BY EmptySeq
    <3> QED BY <2>1, <3>1 DEF Headless
  <2> QED BY <1>0, <1>1, <2>1, <2>2, ServingKeepsCall DEF InGetBytes
<1> QED BY <1>1 DEF IsThereResponseData, Parse

LEMMA GivingKeepsHeadless ==
  ASSUME Bytes, NEW k \in 0 .. Len(received), NEW s, Give(k, s), size \in Nat, Headless
  PROVE  Headless'
<1>1. PICK n \in 0 .. k : received' = Drop(received, n) /\ wire' = wire
  BY GiveFacts
<1>2. n \in Nat /\ inbox' = inbox
  BY DEF Give
<1>3. Drop(received, n) \in Seq(NoHead)
  BY <1>2, DropFacts DEF Headless
<1> QED BY <1>1, <1>2, <1>3 DEF Headless

LEMMA GivingKeepsCall ==
  ASSUME TypeInv, CallInv, GiveRest \/ GiveLength \/ GiveNotChunked \/ GiveChunk
  PROVE  CallInv'
<1>0. sends \in Nat /\ size \in Nat /\ Bytes /\ bytesLeft \in 0 .. Len(received) /\ chunkLeft \in Nat
  BY DEF TypeInv, Scalars, Bytes
<1>1. ASSUME NEW k \in 0 .. Len(received), NEW s, Give(k, s), pc \in {"body", "length", "none", "chunk"}
      PROVE  CallInv'
  <2>1. pc' \in {"ready", "done"} /\ UNCHANGED <<sends, toSend, unsent, call, sock, wire, inbox>>
    BY <1>1 DEF Give
  <2>2. Headless => Headless'
    BY <1>0, <1>1, GivingKeepsHeadless
  <2> QED BY <1>0, <1>1, <2>1, <2>2, ServingKeepsCall DEF InGetBytes
<1>2. CASE GiveRest
  BY <1>0, <1>1, <1>2 DEF GiveRest
<1>3. CASE GiveLength
  <2>1. pc \in {"body", "length"} /\ \E s : Give(bytesLeft, s)
    BY <1>3 DEF GiveLength
  <2> QED BY <1>0, <1>1, <2>1
<1>4. CASE GiveNotChunked
  BY <1>0, <1>1, <1>4 DEF GiveNotChunked
<1>5. CASE GiveChunk
  <2> DEFINE n == IF size >= chunkLeft THEN chunkLeft ELSE size
  <2>1. chunkLeft <= bytesLeft
    BY <1>5 DEF TypeInv, Counts, GiveChunk
  <2>2. n \in 0 .. Len(received)
    BY <1>0, <2>1
  <2>3. Give(n, state) /\ pc \in {"body", "chunk"}
    BY <1>5 DEF GiveChunk
  <2> HIDE DEF n
  <2> QED BY <1>1, <2>2, <2>3
<1> QED BY <1>2, <1>3, <1>4, <1>5

LEMMA ChunksKeepCall ==
  ASSUME TypeInv, CallInv, NextChunk \/ GetChunkSize \/ ChunkFilled \/ EndChunks
  PROVE  CallInv'
<1>1. /\ pc \in {"body", "size", "peek", "fill", "trailer"}
      /\ pc' \in {"fill", "size", "done", "trailer", "chunk", "peek"}
      /\ UNCHANGED <<sends, toSend, unsent, call, sock, wire, inbox>>
  <2>1. CASE NextChunk
    BY <2>1 DEF NextChunk
  <2>2. CASE GetChunkSize
    BY <2>2 DEF GetChunkSize
  <2>3. CASE ChunkFilled \/ EndChunks
    BY <2>3 DEF ChunkFilled, EndChunks
  <2> QED BY <2>1, <2>2, <2>3
<1>2. Headless => Headless'
  <2> SUFFICES ASSUME Headless PROVE Headless'
    OBVIOUS
  <2>1. NoHead \in SUBSET SymbolSet /\ received \in Seq(NoHead)
    BY DEF NoHead, Headless
  <2>2. received' \in Seq(NoHead)
    BY <2>1, ChunksKeepBuffer
  <2> QED BY <1>1, <2>2 DEF Headless
<1>3. sends \in Nat
  BY DEF TypeInv, Scalars
<1> QED BY <1>1, <1>2, <1>3, ServingKeepsCall DEF InGetBytes

LEMMA EndKeepsCall == TypeInv /\ CallInv /\ EndCall => CallInv'
<1> SUFFICES ASSUME TypeInv, CallInv, EndCall PROVE CallInv'
  OBVIOUS
<1>1. /\ pc \in {"done", "ready"} /\ pc' = "idle" /\ UNCHANGED <<toSend, unsent, sends>>
      /\ CloseChannel \/ UNCHANGED <<sock, peerVars>>
  BY DEF EndCall
<1>2. toSend = <<>> => Len(toSend) = 0
  OBVIOUS
<1>3. \A i \in 1 .. Len(toSend) : toSend[i] \in unsent
  BY <1>1, <1>2 DEF CallInv, Buffered
<1>4. ~sock' => Silent'
  BY <1>1 DEF CallInv, Linked, Silent
<1>5. sends > 1 => sends <= 1 + MaxRedirects
  BY <1>1 DEF CallInv, Redirected, InGetBytes
<1> QED BY <1>1, <1>3, <1>4, <1>5 DEF CallInv, Linked, Redirected, Buffered

LEMMA PeerKeepsHeadless ==
  ASSUME TypeInv, Peer, Headless
  PROVE  Headless'
<1>1. inbox = <<>> /\ received \in Seq(NoHead) /\ wire \in Seq(NoHead)
  BY DEF Headless
<1>2. /\ received' = received /\ inbox' = <<>>
      /\ wire' = <<>> \/ \E n \in 0 .. Len(wire) : wire' = SubSeq(wire, 1, n)
  BY <1>1 DEF Peer, PeerContinues, PeerCloses, PeerResets, PeerAnswers
<1>3. wire' \in Seq(NoHead)
  <2>1. \A n \in 0 .. Len(wire) : SubSeq(wire, 1, n) \in Seq(NoHead)
    BY <1>1, PrefixFacts
  <2>2. <<>> \in Seq(NoHead)
    BY EmptySeq
  <2> QED BY <1>2, <2>1, <2>2
<1> QED BY <1>1, <1>2, <1>3 DEF Headless

LEMMA PeerKeepsSilence ==
  ASSUME Silent, Peer
  PROVE  Silent'
<1>1. wire = <<>> /\ inbox = <<>> /\ Len(wire) = 0
  BY DEF Silent
<1>2. inbox' = <<>> /\ (wire' = <<>> \/ \E n \in 0 .. 0 : wire' = SubSeq(<<>>, 1, n))
  BY <1>1 DEF Peer, PeerContinues, PeerCloses, PeerResets, PeerAnswers
<1>3. SubSeq(<<>>, 1, 0) = <<>>
  OBVIOUS
<1> QED BY <1>2, <1>3 DEF Silent

LEMMA PeerKeepsCall == TypeInv /\ TypeInv' /\ CallInv /\ Peer => CallInv'
<1> SUFFICES ASSUME TypeInv, TypeInv', CallInv, Peer PROVE CallInv'
  OBVIOUS
<1>1. UNCHANGED <<pc, sock, sends, attempts, toSend, call, got, unsent>>
  BY DEF Peer, PeerContinues, PeerCloses, PeerResets, PeerAnswers
<1>2. Linked'
  BY <1>1, PeerKeepsSilence DEF CallInv, Linked
<1>3. (\E id \in 0 .. MaxCalls : Awaiting(id)) => (\E id \in 0 .. MaxCalls : Awaiting(id))'
  <2>1. (\E id \in 0 .. MaxCalls : Awaiting(id)) => (\E id \in 0 .. MaxCalls : Awaiting(id)')
    BY PeerKeepsAwaiting
  <2> QED BY <2>1
<1>4. Headless => Headless'
  BY PeerKeepsHeadless
<1>5. Redirected'
  BY <1>1, <1>3, <1>4 DEF CallInv, Redirected
<1>6. Buffered'
  BY <1>1 DEF CallInv, Buffered, Whole
<1> QED BY <1>2, <1>5, <1>6 DEF CallInv

LEMMA NextKeepsCall ==
  TypeInv /\ TypeInv' /\ ConnectionInv /\ CallInv /\ [Next]_vars => CallInv'
<1> SUFFICES ASSUME TypeInv, TypeInv', ConnectionInv, CallInv, [Next]_vars PROVE CallInv'
  OBVIOUS
<1>1. CASE UNCHANGED vars
  <2>1. UNCHANGED <<pc, sock, sends, attempts, toSend, call, got, unsent, wire, inbox, received>>
    BY <1>1 DEF vars
  <2>2. Linked' /\ Buffered'
    BY <2>1 DEF CallInv, Linked, Buffered, Silent, Whole
  <2>3. Redirected'
    <3>1. (\E id \in 0 .. MaxCalls : Awaiting(id))' <=> \E id \in 0 .. MaxCalls : Awaiting(id)
      BY <2>1 DEF Awaiting, Stream
    <3> QED BY <2>1, <3>1 DEF CallInv, Redirected, Headless
  <2> QED BY <2>2, <2>3 DEF CallInv
<1>2. CASE Between
  BY <1>2, BetweenKeepsCall
<1>3. CASE Client
  BY <1>3, OpeningKeepsCall, FlushingKeepsCall, ReadsAreSteps, ReadingKeepsCall, HeaderKeepsCall,
     GetBytesKeepsCall, GivingKeepsCall, ChunksKeepCall, EndKeepsCall DEF Client
<1>4. CASE Peer
  BY <1>4, PeerKeepsCall
<1> QED BY <1>1, <1>2, <1>3, <1>4 DEF Next

LEMMA CallInvariant == Spec => []CallInv
<1>1. Init => CallInv
  BY InitCall
<1> QED BY <1>1, NextKeepsCall, ConnectionInvariant, TypeInvariant, PTL DEF Spec

\* A call that is redirected sends its request at most MaxRedirects times more,
\* whatever an earlier call has left on the connection.
THEOREM RedirectsAreBounded == Spec => []RedirectsBounded
<1>1. TypeInv /\ CallInv => RedirectsBounded
  <2> SUFFICES ASSUME TypeInv, CallInv PROVE sends <= 1 + MaxRedirects
    BY DEF RedirectsBounded
  <2>1. sends \in Nat /\ attempts \in 0 .. MaxRedirects /\ MaxRedirects \in Nat
    BY HTTPAssumption DEF TypeInv, Scalars
  <2>2. sends > 1 => sends <= 1 + attempts \/ sends <= 1 + MaxRedirects
    BY <2>1 DEF CallInv, Redirected
  <2> QED BY <2>1, <2>2
<1> QED BY <1>1, CallInvariant, TypeInvariant, PTL
=============================================================================
