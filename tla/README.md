# TLA+ models and proofs for Axis C++

Axis C++ is a SOAP engine in two halves: a server library, hosted by Apache, by
IIS or by the bundled `SimpleAxisServer`, and a client library that generated
stubs call. This directory holds TLA+ models of its control logic, TLC
configurations that check them, and TLAPS proofs. Source paths below are
relative to the repository; the code lives in `src/engine`, `src/transport`,
`src/wsdd`, `src/soap`, `src/server` and `include/axis`.

## 1. Inventory

### Server side

**Handler pools** (`src/engine/HandlerPool.cpp`, `AppScopeHandlerPool.cpp`,
`SessionScopeHandlerPool.cpp`, `RequestScopeHandlerPool.cpp`,
`SharedObject.cpp`).
State: per scope a map from library id to idle objects (in the session pool to
a map from session to idle objects), the store of idle `HandlerChain` objects,
one mutex per pool. Operations: `getHandlerChain` / `poolHandlerChain`,
`getWebService` / `poolWebService`, each over `getInstance` / `putInstance`.
Shared by every thread that serves a request. Hard: `getHandlerChain` holds the
`HandlerPool` mutex over a loop that can throw; `poolHandlerChain` runs mostly
without it; the session pool unlocks halfway; an undo path that exceptions skip.
Correct when: an object or a chain is never in two hands, nor in a hand and a
pool; the mutex is freed on every path; what is taken comes back.

**Handler loader** (`HandlerLoader.cpp`). State: library id to loaded library.
`createHandler` loads the library on first use, creates an object and calls
`init()`; each step may throw. Correct when: a library is loaded once, the
object is of the library the caller meant.

**Handler chain** (`HandlerChain.cpp`). State: a list of handlers with the scope
and library they came from, and an iterator. `invoke` runs the handlers in
order and on a failure calls `onFault`.

**Server engine** (`AxisEngine.cpp`, `server/ServerAxisEngine.cpp`) and
**`process_request`** (`Axis.cpp`). State per request: the six chain pointers,
the web service, the service description, serializer and deserializer.
`process` reads the message, takes the web service and the chains, invokes them
in order, serializes the answer and releases what it took; on any error
`process_request` calls `setFaultOutputStream`, which releases too. Hard: every
early exit must give back what was taken. Correct when: a service object is
never lost, each request ends, nothing is released twice.

**Module start and stop** (`Axis.cpp`). State: a call count, the global pools,
`m_bServer`, `g_isRunning`, under one mutex. `initialize_module` builds the
globals at the first call, `uninitialize_module` deletes them at the last.
Hard: failures in the middle of initialisation, client and server in one
process. Correct when: the globals exist exactly while the count is positive.

**Deployment descriptor** (`src/wsdd`). State: services, global and transport
handler lists, a map from library name to id. Loaded at start, changed at run
time by the administration service, without a mutex, and saved after each
change. Hard: two updates share the deployment type and the map; a service is
deleted while requests hold a pointer to it; a parse error or a crash leaves a
change half done. Correct when: an id means one library for as long as anything
refers to it; nothing goes away but by an undeployment; what was saved comes
back after a restart.

**Administration service** (`src/server/adminservice`, `AdminUtils`). Passes a
document to the descriptor in the thread of an ordinary request.

**Server transports and hosts** (`src/server`). Threads that call
`process_request` (many in Apache, one in `SimpleAxisServer`) and buffers
around sockets.

**Serializer and deserializer pools** (`SerializerPool.cpp`,
`DeserializerPool.cpp`). Lists of idle objects under a mutex; the two differ in
when `init()` runs and what happens when it fails.

### Client side

**Client engine, Call, Stub** (`src/engine/client`). State: the same six chain
pointers, kept over the calls of one `Call` object. `process` differs from the
server's in its error paths: a status rather than an exception, response
handlers from the point of failure on, one-way calls. Correct when: chains are
returned exactly once, the status of a failed call is a failure.

**HTTP transport** (`src/transport/axis3/HTTPTransport.cpp`). State: a receive
buffer, the state of `getBytes` (waiting for a header, chunked, content length,
until close), the connection's reuse flag, the redirect counter. Hard: data
arrives split anywhere, the peer closes anywhere, a timeout leaves the answer
under way. Correct when: the parser gets exactly the bytes of the answer's body,
each call gets its own answer.

**HTTP channels** (`src/transport/axis3/HTTPChannel`, `HTTPSSLChannel`).
Sockets, with timeouts.

**Transport and parser factories** (`SOAPTransportFactory.cpp`,
`XMLParserFactory.cpp`). One loaded library each.

### Both sides, without a protocol of their own

Serializer, deserializer and SOAP message classes (`src/soap`): text generation
and pull parsing. XML parsers (`src/xml`): adapters and a tokenizer. XSD types
(`src/soap/xsd`): conversions. User API, configuration, tracing (`src/common`,
`src/configuration`). C bindings (`src/cbindings`). The WSDL code generator
(`src/wsdl`, Java). These are listed in `PROJECT.json` as not modelled, with
the reason.

### Interaction

A host thread calls `process_request`, which makes one `ServerAxisEngine`; the
engine calls the shared `HandlerPool`, which calls the scope pools, which call
the shared `HandlerLoader`, which asks the deployment descriptor for a library
name. A client thread uses a `Call`, its `ClientAxisEngine`, the same
`HandlerPool` code, and a transport. Module start and stop bracket both.

## 2. Plan

| # | Modules | Models | State |
|---|---------|--------|-------|
| 1 | `HandlerPool`, `ServerAxisEngine`, `HandlerLease` | pools and requests on the server | done |
| 2 | `AxisModule` | initialise and uninitialise, `Call` objects | done |
| 3 | `ClientAxisEngine` over `HandlerPool` | calls, retained pointers, one-way calls | done |
| 4 | `HTTPTransport` with the channel and a peer | framing of the answer, keep-alive, timeouts, redirects | done |
| 5 | `WSDDDeployment` with the loader and the pools' keys | deployment at run time, saving, restart | done |
| 6 | serializer pools, URLs, cookies | | not done |

Receiving and connection handling were planned as two modules and are one: the
state of `getBytes` decides whether a connection can be kept, and an exchange
that leaves bytes unread shows in the next call only.

Every safety property that a passing run checks is also a theorem (section 8).
What is left to prove are refinements that no run states yet: an abstract
lease for the client's objects, and a byte stream that the transport implements.

## 3. The server model

### Correspondence

`HandlerPool.tla` has the shared state and the steps of one thread in it;
`ServerAxisEngine.tla` EXTENDS it and composes the steps into requests;
`MCServerAxisEngine.tla` gives small deployments.

| Variable | Code |
|---|---|
| `pool[<<scope, lib, session>>]` | `m_Handlers` of the three scope pools |
| `known` | which libraries have an entry in those maps |
| `home`, `ready` | where an object was created for; whether `init()` ran without a later `fini()` |
| `store`, `used` | `m_ChainStore`, and the chains allocated so far |
| `items[c]` | `m_HandlerList` of chain `c` |
| `lock` | the `HandlerPool` mutex |
| `call[t]` | where thread `t` is in `getHandlerChain` or `poolHandlerChain` |
| `creating` | threads between `l.unlock()` and `createHandler` in the session pool |
| `pc`, `at` | the phase of the thread's engine and the position in it |
| `req[t]` | the engine's members: service, session, `m_pWebService`, the six chain pointers, the error being reported |
| `accepted`, `crashed` | a bound on requests; the process died |

One step is what one thread does under one acquisition of a scope pool's mutex,
so threads interleave between the handlers of one chain. The `HandlerPool` mutex
spans many steps and is explicit. `TakeIdle`, `Create`, `ThrowBeingUsed`,
`ThrowCreate`, `Unlock` are the outcomes of `getInstance`; `AddHandler`,
`DropCHandler`, `WrongType` those of the loop body in `getHandlerChain`;
`GetBeingUsed` and `GetCreateFails` leave it by exception, `EndUndo` by status.
In the engine, `Fail` is every way from `process` to `setFaultOutputStream`;
`WriteReply`, `WriteFault`, `FaultEscapes` are the serialization of the answer,
of the fault, and its failure; `SkipRelease` to `NoWebService` are
`releaseHandlers`.

Abstractions. An idle list is a set. Reading the message is one step. Which
handlers fail, and which leave a header block that cannot be serialized, is a
constant (`Faulty`, `Spoilers`), whether they do is a choice of each call.
`createHandler` may fail at any time, also because the `Insts` are used up.
The serializers of an engine are not shared and left out.

### Runs

| Run | Deployment | Shows |
|---|---|---|
| `ServerPools` | 2 threads, 3 requests, request scoped service, request flow of a session scoped and an application scoped handler | `TypeOK`, `ExclusiveUse`, `ChainExclusive`, `ApplicationSingleton`, `ServiceReady`, `MutexDiscipline`, `LossOnlyWhere`, and the refinement `LeaseSpec` of `HandlerLease` |
| `ServerOdd` | 2 threads, 2 requests, application scoped service, a global handler, four services with a C handler, a wrong library, a second handler, faults and unwritable headers | `ServicesKept`, `LossOnlyWhere`, and `RequestsEnd` under fairness |

Bounds. Two threads are enough for every race on a shared list: each property
speaks of one or two holders. Three requests let a thread meet what a finished
request, a failed one and a running one left behind. Five or six objects and
three or four chains allow one more than the requests hold at once; when they
run out only the failure of `createHandler` remains, an outcome it has anyway.
`CHECK_DEADLOCK FALSE`: after `MaxRequests` requests the system stops.

Fairness. `FairSpec` has weak fairness on each serving thread's next step while
the process lives: handlers and services return, and a mutex is handed on. Weak
fairness is enough for the `HandlerPool` mutex only because requests are
bounded; with requests arriving for ever, a fair mutex would have to be assumed.

### What the code loses

The model follows the code where it gives back less than its comments say;
`LossOnlyWhere` lists these places and says that there are no others.

* `AppScopeHandlerPool::getInstance` throws where its comment expects the
  caller to wait for an object in use (`ThrowBeingUsed`); the retry loop of
  `HandlerPool::getHandler` tests a return code and never repeats.
* An exception in `getHandlerChain` skips the code under "some failure so undo
  whatever done here" and loses the chain with its handlers (`AbandonGet`).
* The call that pools the global and transport chains back is inside a comment
  (`SkipRelease`). With an application scoped global handler no second request
  can succeed.
* A request scoped handler gets `fini()` after each request and `init()` only
  once (`PutBack`); `ServiceReady` holds for web services, not for handlers.
* `setFaultOutputStream` serializes before it releases (`FaultEscapes`); a
  header block that cannot be written breaks the answer and then the fault.

## 4. The module count

`AxisModule.tla` models `initialize_module`, `uninitialize_module`,
`Axis::initialize`, `terminate`, `isRunning`, `stopAxis` and the life of `Call`
objects. Each of the two functions runs under one mutex and is one step.

| Variable | Code |
|---|---|
| `count`, `server`, `running` | `g_uModuleInitialize`, `AxisEngine::m_bServer`, `g_isRunning` |
| `globals`, `alive`, `made` | which set of pools, loader and descriptor the `g_p...` pointers refer to; the sets not deleted; the sets allocated |
| `parser`, `transport` | how many times each library is loaded |
| `phase`, `using` | where a `Call` or a program is; the globals its objects came from |

`FirstStart` and `FirstFails` are the outcomes of the first call: the exception
leaves the globals allocated and perhaps a library loaded, with the count at 0;
the next start overwrites them. `Again` and the second half of `Throws` are a
later call by the same kind and by the other one. `readConfFile` and `loadWSDD`
have no failure but an exception, so a status other than success is not returned.

| Run | Instance | Shows |
|---|---|---|
| `ModuleCount` | a host, an application, two `Call` objects, up to four allocations | `TypeOK`, `CountExact`, `HoldersServed`, `RunningHasGlobals` |
| `ModuleEnd` | the same | violated: with every `Call` gone and every program terminated, `isRunning` is false |

Four allocations let a start follow a failed start, a stop and a failed start
again. `ModuleEnd` finds a `Call` whose constructor throws: it has counted
itself and its destructor does not run. `CHECK_DEADLOCK FALSE`: no start is
possible after the last allocation.

## 5. The client's calls

`ClientAxisEngine.tla` EXTENDS `HandlerPool` as the server's module does, and
composes the same steps into the calls of `Call` objects, one per thread. An
engine lives for many calls and keeps its six chain pointers between them.

| Variable | Code |
|---|---|
| `phase`, `at` | where `process` is: obtaining the chains, request flows and exchange (the `AE_LEVEL`s), response flows, `releaseHandlers` |
| `chain[t]` | the six chain pointers |
| `mine[t]` | which of them have not been pooled back: not in the code, it tells a live pointer from one left behind |
| `cur[t]` | the call: its service (`None` when the descriptor does not name it), session, `Status` |
| `calls`, `crashed` | a bound on calls; the process died |
| `stale` | a pointer was used after its chain had been pooled back |

`Begin` is `sendAndReceive` or `send`, `Replace` the deletion of a `Call` and
the construction of another. `NoHandlers` to `ChainRefused` are
`initializeHandlers` and the two calls for the service's flows: `ChainRefused`
becomes an exception for a common flow and leads to `releaseHandlers` for a flow
of the service. `RequestStage` to `ResponseStage` are `invoke` and its `switch`
without breaks, `SkipRelease` to `ChainPooled` are `releaseHandlers`.

Abstractions. `setOutputStream`, `openConnection`, the answer and its parsing
are one step that succeeds (`Exchange`) or throws (`ExchangeThrows`): none of
them fails by a status before the level AE_SERV, so the `switch` is never
entered at AE_TRH, and after that level a status is overwritten. `noResponse` is
read after the exchange only and is chosen there. A service name without `#` is
copied without its terminator (`ClientAxisEngine.cpp:100`); the name looked up
may then be any, which `Begin` covers, since it may choose `None` for every call.

The module stops at the first use of a pointer whose chain was pooled back
(`UseStale`): `HandlerPool` removes an object from its chain as soon as it is
returned and keeps the store as a set, which is right while a chain has one
holder. What happens after is what the finding describes.

| Run | Instance | Shows |
|---|---|---|
| `ClientCalls` | 2 threads, 3 calls, one service with a request scoped and an application scoped handler, one whose request flow names a library of the wrong type | `TypeOK`, `ExclusiveUse`, `ChainExclusive`, `MutexDiscipline`, `StaleOnlyWhere`, `LossOnlyWhere` |
| `ClientOdd` | 2 threads, 2 calls, a transport handler, a second response handler that may fail | `LossOnlyWhere`, `ResponsesMirror`, and `CallsEnd` under fairness |
| `ClientStale` | as `ClientCalls` | violated: an engine uses only chains that no other engine holds |

Bounds. Three calls let one engine leave a pointer behind, another be given the
chain, and the first use it. A call that fails by exception leaves up to two
(with a transport handler three) chains behind, hence six and nine `Chains`.
`CHECK_DEADLOCK FALSE`: after `MaxCalls` calls the system stops.

`ClientStale`: `releaseHandlers` sets no pointer to null, and `process` obtains
the service's chains only when the descriptor names the service. `StaleOnlyWhere`
says that this and the release after a refused request flow are the only ways
to the pointers left behind: every other path clears them first.

## 6. The HTTP transport

`HTTPTransport.tla` models the calls of one `Call` object over its transport
(`HTTPTransport.cpp`), the channel under it (`HTTPChannel.cpp`), the parser that
pulls the answer, and a peer. `MCHTTPTransport` gives the answers.

| Variable | Code |
|---|---|
| `state`, `received`, `bytesLeft`, `contentLength`, `chunkLeft`, `nextSize` | the members `resetInputStateMachine` resets |
| `toSend`, `saved`, `attempts` | `m_strBytesToSend`, as the calls whose envelopes, whole or broken off, it holds; `m_strBytesToSendRedirect`; `m_iNbrOfRedirectAttempts` |
| `reopen`, `url`, `sock`, `quiet` | `m_bReopenConnection`; the channel's URL, socket and `bNoExceptionOnForceClose` |
| `pc`, `call`, `oneWay`, `size`, `got`, `status` | where the client is, the call, the parser's buffer size, what it has been given and told |
| `at`, `wire`, `inbox`, `end` | the peer: endpoint, bytes under way, requests not answered, open, closed or reset |
| `sends`, `unsent`, `torn`, `past` | history: requests of this call, calls that ended before they could send, those of them whose envelope was broken off, what may have left the connection out of step |

A call begins with `SoapSerializer::setOutputStream`, which writes the envelope
piece by piece into `m_strBytesToSend` (`BeginCall`). `SendBytes` is the
envelope written to its end, `SerializeFails` a serializer that throws halfway:
the piece stays in the buffer and the next call's envelope goes behind it.
`Open` and `Flush` are `openConnection` and `flushOutput`, `ReadHeader` the loop
and `ProcessHeader` the rest of `readHTTPHeader`, `HandleRedirect`, `Reopen` and
`Reflush` a redirect, `GetBytes` the entry of `getBytes` and `Give` its end.
`ReadLength`/`GiveLength`, `ReadNotChunked`/`GiveNotChunked` and `NextChunk` to
`GiveChunk` are its three states. A loop that reads is a place (`pc`) the client
stays at, so the peer can act between two reads. `Parse` is the pull parser
asking for more, when the deserializer wants an element it has not got.
`EndCall` is `closeConnection(false)` of `Call::unInitialize`; it may come
before any `Parse`, since a deserialization error or a stub that has all it
wants ends the call with part of the answer unread.

Bytes are counted where the code counts them: a header and the digits of a
chunk's size are one symbol each, CR, LF and the bytes of a body one symbol
each. `Wire` builds an answer, `Arrives` delivers any prefix of it. A chunk
extension is looked for by "(" where HTTP has ";", so that `Axtoi` refuses a
size line with one.

| Run | Instance | Shows |
|---|---|---|
| `HTTPExchange` | two calls, two endpoints, eight kinds of answer in every framing, buffers of 1 and 4 bytes, one redirect, timeouts | `TypeOK`, `BufferCounted`, `InOrder`, `OwnAnswer`, `WholeAnswer`, `FreshConnection`, `NothingOwed`, `RedirectsBounded`, `RequestIsWhole`, `KeepAlive` |
| `HTTPCallEnds` | one endpoint, buffers of 2 bytes, no timeout | `CallEndsUnless` under fairness |
| `HTTPClosed` | one chunked answer | violated: a peer that closes makes the read throw |

Bounds. Bodies of one to three bytes in one or two chunks have every position a
piece can end at: in a size line, between CR and LF, in the data, in the
trailer. A buffer of one byte is smaller than every body and one of four larger
than each of them. Two calls are enough for what one leaves to the next, one
redirect for the limit. `CHECK_DEADLOCK FALSE`: after `MaxCalls` the application
makes no further call, and without timeouts a client may wait for ever.

Fairness. Weak fairness of the client's steps - it is one thread - and of an
answer to a request the peer has read. Nothing obliges a peer to close a
connection, or to go on with an answer it has cut short.

What the exceptions in the properties are. `InStep` excludes four kinds of
connection, and the properties say that there is no fifth. They do not say that
the four are right: each is something the code does and a client would not want.

* A read timed out (`timeout`): the connection stays open and the late answer is
  read as that of the next call.
* A status that is no answer (`status`) leaves its body unread.
* Bytes were counted twice (`recount`): `getBytes_MessageHasContentLength`
  subtracts what is in the buffer, so a small buffer makes the same bytes count
  at each call, the answer seems complete and its rest stays on the connection.
* The call ended before `getBytes` had read the answer to its end (`unread`):
  `closeConnection(false)` empties the receive buffer, reads nothing from the
  channel and keeps it. A call may also stop early with the whole rest of the
  answer in that buffer, and then the connection stays in step: this is what
  `Unread` tells apart and `NothingOwed` depends on.

`RequestIsWhole` allows before a call's envelope what earlier calls left in
`m_strBytesToSend`: whole envelopes of calls that found no connection and pieces
of envelopes whose serialization was broken off. `FreshConnection` is about ends
the peer has announced; a peer that closes without a word is met by the write or
the read, which `CallEndsUnless` covers.

`HTTPClosed`: when something is buffered already, `getNextDataPacket` returns
after a read of no bytes, and the loops that wait for the rest of a chunk read
again. `CallEndsUnless` says that this (`Spinning`) and a connection out of step
are the only ways for a call not to end.

Abstractions. Header fields come in one order; the parser may stop anywhere but
asks for nothing behind the last byte of the body; a write sends everything or
fails; a zero byte in a body, which would end the append to `m_strReceived`, does
not occur. A redirect to another scheme is one of the ways `HandleRedirect`
throws. `https`, MIME bodies, and an application that sets HTTP/1.0 or its own
`Connection: close` (both set `m_bReopenConnection` without a word from the
peer) are left out.

## 7. The deployment descriptor

`WSDDDeployment.tla` models the server's descriptor while it is in use.
Administrators run `updateWSDD`, element by element of the document they sent;
requests take a service, its object and its chains, and release them. No mutex
guards the descriptor, so all of them interleave. `MCWSDDDeployment` gives the
documents.

| Variable | Code |
|---|---|
| `mode`, `ids`, `services`, `lists`, `made` | `m_DeplType`, `m_pLibNameIdMap`, `m_DeployedServices`, the global and transport handlers, which maps of transport handlers exist |
| `heap` | the `WSDDService` objects by address; a freed one keeps its contents until its address is used again |
| `file`, `unsaved` | the saved descriptor; whether the one in use may differ from it |
| `admin[a]` | a `WSDDDocument`: elements to come, `m_nLibId`, `m_pService`, `m_pHandler`; in `saveWSDD` the text in the stdio buffer (`text`) and the parts still to be read (`left`); history: whether another update was under way meanwhile (`alone`, `shared`) |
| `loaded`, `idle` | `m_HandlerInfoList` of the loader; the keys and objects of the three scope pools |
| `req[r]` | the pointer to the service, the objects taken and the library each was meant to come from |
| `spoiled` | history: numbers forgotten by an undeployment, given while another update ran, or pooled under by a request whose service was freed |

`Update` to `ParseFails` are the parser's calls; each service or handler element
has a start, which gives its library a number, and an end, which adds or
removes. An element may name no library: without `className` or `type` it keeps
the number 0 of its constructor and is deployed all the same.

`saveWSDD` takes no lock, and is four steps: `fopen` empties the file
(`BeginSave`); the handler lists and then each service go to the stdio buffer as
they are at that moment (`SavePart`), which other updates may change in between
and crash the walk (`SaveRaces`); `fflush` writes that text over whatever the
file holds by then, and what a write returns is ignored (`WriteSave`). So a save
that began earlier may end later and bring back an older descriptor, or a text
that the descriptor never was. `Kill` ends the process at
any point, `Restart` is `loadWSDD`. `FindService` to `Release` are the part of a
request that reads the descriptor; `RequestFails` stands for its failures, which
are in `ServerAxisEngine` one by one.

Undefined behaviour is a choice: a request follows a pointer to a freed service
and finds the old contents, another service or nothing (`UseFreed`);
a save walks a list that another update changes (`SaveRaces`);
`removeHandler` reads a list node after it was freed (`FreedNode`) and may use a
map that does not exist; `createHandler` makes a string of a NULL library name
(`NullName`).

| Run | Instance | Shows |
|---|---|---|
| `Deployment` | two administrators, one request at a time, two services, two libraries, seven documents; at most two updates, two requests, one restart | `TypeOK`, `OwnLibraryUnless`, `NamedUnless`, `RemovedOnlyByUndeployment`, `SurvivesRestart` |
| `DeploymentReuse` | one administrator, one service undeployed and another deployed | violated: requests get objects of the library the descriptor names |

Bounds. Two updates may overlap or follow each other with a request before,
between or across them, and so may their saves; two requests show what the first
left in the loader and the pools. With two libraries a number can be forgotten
and given again. Three addresses for two services let a new service take a freed
one's. `CHECK_DEADLOCK FALSE`: the
bounds end every behaviour, and a descriptor that cannot be read ends the
program. No fairness is assumed: the module states safety only.

`DeploymentReuse`: undeploying a service erases its library's number, though
others may use the library (the reason why `WSDDService::removeHandler` keeps
it, as its comment says). The next document may give the number to another
library, and the loader, which remembers the old one, creates its objects.

What a restart does not bring back: scopes (`scope` is read and not written, so
all become request scoped), roles, and the response handlers of a transport
that has no request handlers (`WSDDTransport::updateWSDD` tests
`m_RequestHandlers` twice). `SurvivesRestart` says that the rest comes back
unless an update was cut short, or another update was under way at any moment of
the last save: updates that follow each other are safe, those that overlap are
not, even when both report success.

`NamedUnless` says where `getLibName` has no answer and the process falls at the
NULL name: for a number an undeployment has forgotten, and for an element that
named no library. The second needs neither a second update nor an undeployment.

Abstractions. One protocol has transport handlers; races inside a `std::map`
are not modelled, each call of its operations and each call of the parser's handlers
is one step; the descriptor at the start is one that an earlier run saved; a
service's part of a save is read at once; numbers after a start
are any numbering of the libraries the file names.

## 8. Proofs

Thirty-five theorems state every safety property that the passing runs check:
the runs show it on a small instance, the theorem for every value of the
constants that satisfies the assumptions named in the modules.

| Module | Theorems | State |
|---|---|---|
| `HandlerPool_proofs` | | lemmas both engines use |
| `ServerAxisEngine_proofs` | `TypeCorrect`, `MutexFreedOnEveryPath`, `ChainsAreExclusive` | `TypeOK`, `MutexDiscipline`, `ChainExclusive` |
| `ServerAxisEngine_objects` | `OneApplicationObject`, `ObjectsAreExclusive`, `ServicesAreReady`, `LossesAreKnown`, `ServicesAreKept`, `ObjectsAreLeased` | `ApplicationSingleton`, `ExclusiveUse`, `ServiceReady`, `LossOnlyWhere`, `ServicesKept`, `LeaseSpec` |
| `AxisModule_proofs` | `ModuleTypes`, `CountIsExact`, `HoldersAreServed`, `RunningIsServed` | `TypeOK`, `CountExact`, `HoldersServed`, `RunningHasGlobals` |
| `ClientAxisEngine_proofs` | `CallTypesCorrect`, `CallsFreeTheMutex`, `StaleOnlyThere`, `AnswersMirror`, `CallChainsAreExclusive`, `CallObjectsAreExclusive`, `CallLossesAreKnown` | `TypeOK`, `MutexDiscipline`, `StaleOnlyWhere`, `ResponsesMirror`, `ChainExclusive`, `ExclusiveUse`, `LossOnlyWhere` |
| `HTTPTransport_proofs` | `ConnectionIsFresh`, `ConnectionSurvives`, `TransportTypes`, `BytesAreCounted`, `RedirectsAreBounded` | `FreshConnection`, `KeepAlive`, `TypeOK`, `BufferCounted`, `RedirectsBounded` |
| `HTTPTransport_exchange` | `NothingIsOwed`, `AnswersAreOwn`, `BytesAreInOrder`, `AnswersAreWhole`, `RequestsAreWhole` | `NothingOwed`, `OwnAnswer`, `InOrder`, `WholeAnswer`, `RequestIsWhole` |
| `WSDDDeployment_proofs` | `DeploymentTypeOK`, `LibrariesAreOwn`, `LibrariesAreNamed`, `OnlyUndeploymentRemoves`, `DescriptorIsSaved` | `TypeOK`, `OwnLibraryUnless`, `NamedUnless`, `RemovedOnlyByUndeployment`, `SurvivesRestart` |

### Assumptions

`ConstantsAssumption`, `EngineAssumption`, `NoRequestAssumption`,
`ClientAssumption`, `CallStateAssumption`, `HTTPAssumption`,
`HoldersAssumption` and `DeploymentAssumption` give the types of the constants
and say that null is none of the objects, that the holders of the module are
finitely many, and that an answer that is not chunked has one body.
`ServiceAssumption` is about a deployment: no service names a library of
handlers, whose objects `ServerAxisEngine::process` would cast to a web service
without a look at their type. `ServicesAreKept` has the one further hypothesis,
`ServicesApart`: no flow names a deployed service's scope and library as a
handler. Otherwise `getHandlerChain` takes a service object out of the pool,
finds that it is no handler and drops it (`WrongType`), so that the object is
lost by a request that ends well. `LossesAreKnown` needs no such hypothesis.

### The server's engine

* `TypeCorrect` is inductive by itself. The lemmas of `HandlerPool_proofs`
  say that a step of a chain operation keeps the types, and takes and frees the
  mutex as it builds a chain or not.
* `ChainsAreExclusive` needs two strengthenings. `PhaseInv` says what each phase
  may have in progress: chains are built only in phase "flows", returned only in
  "release" through the pointer the engine is at, and the session pool is
  between its unlock and `createHandler` only for a session scoped entry.
  `ChainInv` says that a chain a thread refers to has been allocated and is not
  in the store, also while `poolHandlerChain` empties it. The lock protects the
  step that takes a chain; the step that returns one is safe because its thread
  is the chain's only holder.
* `ObjectsAreExclusive` is from `ObjectInv`: every created object is in at most
  one place among the pool slots, the positions of the chains and the web
  service pointers, and objects that were never created are in none.
  `OneApplicationObject` is from `KnownInv`: a created object's library is known
  to its pool.
* `ServicesAreReady` needs `HomeInv`, which follows an object home: what lies in
  a slot, in a chain or in `m_pWebService` was created for that scope and
  library, and an object whose library is not one of handlers stays initialised,
  since only `poolHandlerChain` lets the request pool call `fini()`. `MemberInv`
  says which members an engine has in which phase.
* `LossesAreKnown` goes through the steps of a request: each moves one object
  between a pool and a request, or drops what the step's name says.
  `ObjectsAreLeased` maps the objects' places to the owners of `HandlerLease` and
  shows that each step lends to, or takes from, the one thread that makes it.
  Both rest on `ObjectInv`, since an object in two places could be lost in one
  and held in the other.

### The module count

The inductive invariant adds `Up` (while the count is positive the globals and
libraries are there, which `HoldersServed` does not say when only a failed
`Call` is counted) and splits off `SameGlobals`. The counting lemmas relate a
share taken or given up to the cardinality of the holders: a count of 1 means
that the holder is alone, so the last `uninitialize_module` takes nothing from
anybody.

### The client's engine

* `StaleOnlyThere` needs `PointerInv`, which follows a pointer left behind
  through all phases: a chain is built for a flow whose pointer has been
  cleared; a pointer left behind is that of a service flow, which while the
  chains are obtained lies ahead, during `invoke` belongs to a call without a
  service, and in `releaseHandlers` was left there by this release or by a
  refused request flow.
* `CallChainsAreExclusive` needs `WorkInv`, that a chain is built only for a flow
  that has no live pointer and pooled back only through the pointer
  `releaseHandlers` is at, and `ChainInv`, that store, live pointers and the
  chain under construction share nothing. It differs from the server's in what
  outlives a call: pointers of a call that ended by an exception stay live.
* `CallObjectsAreExclusive` is from an `ObjectInv` as on the server, for chains
  that are active. `CallLossesAreKnown` follows from `WorkInv` and `ChainInv`: an
  object goes missing only with the chain it is in, and a step changes no chain
  but the one its thread builds or pools back, which is nobody else's.
* `AnswersMirror` needs `StatusInv`: until the exchange has succeeded the status
  to return is a failure.

### The HTTP transport

* `ConnectionInv` has three parts: a connection that is not to be reopened goes
  to the endpoint set last and its peer has not announced its end; the receive
  buffer is empty and its state reset wherever the client is between calls,
  opening or flushing; and `m_bReopenConnection` is set after the opening for
  two reasons only, an announced end and a failed read. The first needs the
  second, since an answer read while a connection is opened could set the flag.
* `TypeInv` says which counters are in use in which state of `getBytes`, which
  is what makes `m_iBytesLeft` the length of the buffer and every difference
  the code computes a natural number.
* `CallInv` is about the request: nothing is under way without a socket
  (`Linked`), the attempts count the requests while they may be redirected
  (`Redirected`), and the buffer holds the call's envelope behind what earlier
  calls left there (`Buffered`). `LeftBehind` adds that a call which is under way
  is not one whose envelope was broken off.
* `ExchangeInv` is the heart: while a connection is in step, it says where the
  bytes that have not been handed out - those in the buffer followed by those
  on the wire - stand in the peer's answer. `Plain` is for a body with a length
  or one that ends with the connection; `Starting` and `InChunk(a, i)` for a
  chunked one before its first size line and in chunk i, with the offset of the
  next byte in `Wire(call, a)` computed from the chunks before; `Rest` when the
  end of the answer is in the buffer. A call may end in any of them: in
  `Rest`, and once the parser has the whole body, nothing is left on the wire,
  otherwise `EndCall` puts the connection out of step. `Taken` says what the parser has been
  given. Each read step extends the stream or leaves it, each `Give` moves its
  first bytes to the parser, each step of `NextChunk` drops just the symbols of
  a size line or a CRLF that the invariant places there; the five theorems are
  read off it.
* The offsets need facts about the recursive functions of the model, such as
  that the sizes of the first i chunks add up to `Sums(a)[i]` and where
  `Chunks(id, a)` puts a byte, for any number of chunks. The library's induction
  rules take an operator and cannot be used; `SetInduction` states induction
  for a set of naturals and is proved from the well-foundedness of strict
  inclusion of finite sets (`LeastNatural`).

### The deployment descriptor

* The invariant says of every number in use - in an entry of the descriptor, in
  the loader's cache, in the pools, in the hands of a request - that it is still
  its library's number in the map or spoiled (`Good`), and that two libraries
  share only spoiled numbers (`Distinct`). It survives a new number because a
  document's last number is at least every number that is not spoiled, and a
  deletion because the element an update parses is no other's and not deployed.
  An element without a library has no name and the number 0, which no library
  has, so that it never makes an object.
  `MadeInv` adds for the types that a flow without a map has no transport
  handlers.
* `DescriptorIsSaved` needs `SavedInv`: when no update runs and nothing is
  unsaved, the file `Matches` the descriptor in use. Under it is `SavingInv`,
  about a save that no other update has overlapped so far: what it has read is
  still what the descriptor holds, part by part, and when nothing is left to read
  the text is the descriptor. Updates may overlap and write the file in any
  order: the last one to end writes such a text or sets `unsaved`. `Matches` is
  weaker than equality with what `saveWSDD` would write, since a file that a
  restart read may hold chains of a service it does not name.

### What is only model-checked

`RequestsEnd`, `CallsEnd` and `CallEndsUnless`: liveness under fairness is out
of the prover's reach. So are the four runs that find a violation. No module
declares a RECURSIVE operator: the model's recursive definitions are functions.

## 9. Not modelled

* Serializer and deserializer pools: two stacks under a mutex, the serializer's
  with `init()` when one is taken, the deserializer's when one is returned; the
  request scope pool in `HandlerPool` has the same shape.
* SOAP serializer and deserializer, SOAP messages, XML parsers, XSD types, C
  bindings, the code generator, user API, configuration and tracing: text
  conversion, value holders and wrappers. They are most of the repository's
  lines, and a model of them would be a transliteration without states worth
  exploring.
* In the transport: reading and writing header fields one by one, cookies,
  proxies, MIME bodies, the change between the secure and the plain channel, TLS.
* In the descriptor: roles, descriptions, provider names, parameters. Reading
  them on a 64-bit build, `addAllowedRoles` compares an `unsigned int` position
  with `npos`; writing, the provider name is not the one the reader accepts for
  COM. Both are about text only.
* The handlers' parameters, which `setOptionList` passes as a pointer into the
  descriptor and undeployment frees: only the application's handlers read them.
* The C handlers' function tables (the code that would call them is commented
  out), session end (`SessionScopeHandlerPool::endSession` is empty and never
  called), and the mustUnderstand check, which never fires because
  `SoapDeSerializer::isAnyMustUnderstandHeadersLeft` always returns false.
