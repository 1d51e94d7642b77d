-------------------------- MODULE ServerAxisEngine --------------------------
(***************************************************************************)
(* SOAP requests served by several threads at once.  Each thread runs      *)
(* process_request: it makes a ServerAxisEngine, calls process, on any     *)
(* failure setFaultOutputStream, and deletes the engine.  All threads share*)
(* the handler pools of module HandlerPool.                                *)
(*                                                                         *)
(* Reading the SOAP message is one step that succeeds or fails: no handler *)
(* is held before getWebService.  Every error of process, whether a status *)
(* or an exception, leads to setFaultOutputStream: pc becomes "fault".  It *)
(* calls releaseHandlers (pc "release") once the fault has been serialized.*)
(***************************************************************************)
EXTENDS HandlerPool

CONSTANTS
  Services,     \* the deployed services
  ServiceEntry, \* the scope and library of each service
  FlowList,     \* FlowList[svc][f]: the handlers configured, <<>> for none
  Faulty,       \* libraries whose invoke may return AXIS_FAIL or throw
  Spoilers,     \* libraries that may add a header block the serializer rejects
  MaxRequests   \* bound on the requests accepted in one behaviour

Flows == {"GReq", "GRes", "TReq", "TRes", "SReq", "SRes"}

ASSUME EngineAssumption ==
  /\ ServiceEntry \in [Services -> Entries]
  /\ FlowList \in [Services -> [Flows -> Seq(Entries)]]
  /\ Faulty \subseteq Libs /\ Spoilers \subseteq Libs
  /\ MaxRequests \in Nat

\* The object of a service's library is cast to WrapperClassHandler without a
\* look at its type: no service names a library of handlers.
ASSUME ServiceAssumption == \A svc \in Services : KindOf[ServiceEntry[svc].lib] # "handler"

\* The order in which process() asks for chains: initializeHandlers first.
GetOrder == <<"GReq", "GRes", "TReq", "TRes", "SReq", "SRes">>

\* The order of invoke().
InvokeOrder == <<"TReq", "GReq", "SReq", "Service", "SRes", "GRes", "TRes">>

\* releaseHandlers: the chains it pools back, before the web service.
ReleaseOrder == <<"SReq", "SRes">>

VARIABLES
  pc,       \* what each thread's engine is doing
  at,       \* its position in GetOrder, InvokeOrder or ReleaseOrder
  req,      \* the engine's members
  accepted, \* requests accepted so far, at most MaxRequests
  crashed   \* the process has died

engineVars == <<pc, at, req, accepted, crashed>>
vars == <<poolVars, engineVars>>

Faults == {"none", "message", "beingUsed", "create", "wrongType", "style",
           "handler", "service", "reply"}

\* header: the serializer holds a header block or an attachment that it cannot
\* write, which setSoapFault, replacing the body only, leaves in place.
Requests == [svc : Services, session : Sessions, ws : Insts \cup {None},
             chain : [Flows -> Chains \cup {None}], fault : Faults,
             header : BOOLEAN]

\* A thread without an engine.
NoRequest == None

ASSUME NoRequestAssumption == NoRequest \notin Requests

Phases == {"idle", "message", "service", "flows", "invoke", "reply", "fault", "release"}

\* The last position of a phase.
Last(phase) == CASE phase = "flows" -> 6 [] phase = "invoke" -> 7
                 [] phase = "release" -> 3 [] OTHER -> 1

EngineTypeOK ==
  /\ pc \in [Threads -> Phases]
  /\ at \in [Threads -> 1..7]
  /\ req \in [Threads -> Requests \cup {NoRequest}]
  /\ \A t \in Threads : /\ req[t] = NoRequest <=> pc[t] = "idle"
                        /\ at[t] <= Last(pc[t])
  /\ accepted \in Nat
  /\ crashed \in BOOLEAN

TypeOK == PoolTypeOK /\ EngineTypeOK

Init ==
  /\ PoolInit
  /\ pc = [t \in Threads |-> "idle"]
  /\ at = [t \in Threads |-> 1]
  /\ req = [t \in Threads |-> NoRequest]
  /\ accepted = 0
  /\ crashed = FALSE

-----------------------------------------------------------------------------
Goto(t, where) ==
  /\ pc' = [pc EXCEPT ![t] = where]
  /\ at' = [at EXCEPT ![t] = 1]

\* invoke: the stage a request is at.
Stage(t) == InvokeOrder[at[t]]

\* The handlers of the stage's chain, none for a null chain pointer.
StageItems(t) ==
  IF Stage(t) = "Service" \/ req[t].chain[Stage(t)] = None THEN <<>>
  ELSE items[req[t].chain[Stage(t)]]

\* The libraries called in the stage.
Called(t) ==
  {StageItems(t)[n].e.lib : n \in DOMAIN StageItems(t)}
    \cup {l \in Libs : Stage(t) = "Service" /\ l = ServiceEntry[req[t].svc].lib}

\* What the serializer's header can be after a step.
HeaderAfter(t) ==
  {req[t].header} \cup {b \in {TRUE} : pc[t] = "invoke" /\ Called(t) \cap Spoilers # {}}

\* An error: process throws, or returns a status that process_request turns
\* into a fault.
Fail(t, why) ==
  /\ Goto(t, "fault")
  /\ \E b \in HeaderAfter(t) :
       req' = [req EXCEPT ![t].fault = why, ![t].header = b]

\* The next stage of the current phase, or the next phase after the last.
Advance(t, phase) ==
  IF at[t] = Last(pc[t]) THEN Goto(t, phase)
  ELSE at' = [at EXCEPT ![t] = @ + 1] /\ UNCHANGED pc

Entry(t) == ServiceEntry[req[t].svc]
Session(t) == req[t].session
ListAt(t) == FlowList[req[t].svc][GetOrder[at[t]]]

\* process_request with a POST: a new engine and a request for a service.
Accept(t) ==
  /\ pc[t] = "idle"
  /\ accepted < MaxRequests
  /\ \E svc \in Services, s \in Sessions :
       req' = [req EXCEPT ![t] = [svc |-> svc, session |-> s, ws |-> None,
                                  chain |-> [f \in Flows |-> None],
                                  fault |-> "none", header |-> FALSE]]
  /\ Goto(t, "message")
  /\ accepted' = accepted + 1
  /\ UNCHANGED <<poolVars, crashed>>

\* The message is read and names an allowed method of the service, or one of
\* the checks before getWebService throws.
ReadMessage(t) ==
  /\ pc[t] = "message"
  /\ \/ Goto(t, "service") /\ UNCHANGED req
     \/ Fail(t, "message")
  /\ UNCHANGED <<poolVars, accepted, crashed>>

NoChainStep == UNCHANGED <<store, used, items, lock, call>>

\* getWebService returns an object; its binding style is then compared with
\* the serializer's.
GetWebService(t) ==
  /\ pc[t] = "service"
  /\ \E i \in Insts :
       /\ Obtain(t, Entry(t), Session(t), i)
       /\ \/ /\ req' = [req EXCEPT ![t].ws = i]
             /\ Goto(t, "flows")
          \/ /\ req' = [req EXCEPT ![t].ws = i, ![t].fault = "style"]
             /\ Goto(t, "fault")
  /\ NoChainStep
  /\ UNCHANGED <<accepted, crashed>>

UnlockForService(t) ==
  /\ pc[t] = "service"
  /\ Unlock(t, Entry(t), Session(t))
  /\ NoChainStep
  /\ UNCHANGED engineVars

ServiceThrows(t) ==
  /\ pc[t] = "service"
  /\ \/ ThrowBeingUsed(t, Entry(t), Session(t)) /\ Fail(t, "beingUsed")
     \/ ThrowCreate(t, Entry(t), Session(t)) /\ Fail(t, "create")
  /\ NoChainStep
  /\ UNCHANGED <<accepted, crashed>>

-----------------------------------------------------------------------------
(* initializeHandlers and the service's own chains.                         *)

\* No handlers are configured for the flow: the chain pointer stays null.
NoHandlers(t) ==
  /\ pc[t] = "flows"
  /\ call[t] = NoCall
  /\ ListAt(t) = <<>>
  /\ Advance(t, "invoke")
  /\ UNCHANGED <<poolVars, req, accepted, crashed>>

GetChain(t) ==
  /\ pc[t] = "flows"
  /\ ListAt(t) # <<>>
  /\ BeginGet(t, ListAt(t))
  /\ UNCHANGED engineVars

\* One step of the loop in getHandlerChain, or of its undo loop.
FillChain(t) ==
  /\ pc[t] = "flows"
  /\ \/ AddHandler(t, Session(t))
     \/ DropCHandler(t, Session(t))
     \/ WrongType(t, Session(t))
     \/ UnlockForCreate(t, Session(t))
     \/ UndoNext(t)
  /\ UNCHANGED engineVars

ChainReady(t) ==
  /\ pc[t] = "flows"
  /\ EndGet(t)
  /\ req' = [req EXCEPT ![t].chain[GetOrder[at[t]]] = call[t].chain]
  /\ Advance(t, "invoke")
  /\ UNCHANGED <<accepted, crashed>>

ChainFails(t) ==
  /\ pc[t] = "flows"
  /\ \/ GetBeingUsed(t, Session(t)) /\ Fail(t, "beingUsed")
     \/ GetCreateFails(t, Session(t)) /\ Fail(t, "create")
     \/ EndUndo(t) /\ Fail(t, "wrongType")
  /\ UNCHANGED <<accepted, crashed>>

-----------------------------------------------------------------------------
(* invoke.                                                                  *)

MayFail(t, n) == n \in DOMAIN StageItems(t) /\ StageItems(t)[n].e.lib \in Faulty

\* A chain is invoked and succeeds; at "Service", the web service does.  A
\* response chain whose first handler returns a failure counts as done: its
\* status is not looked at.
InvokeStage(t) ==
  /\ pc[t] = "invoke"
  /\ Advance(t, "reply")
  /\ \E b \in HeaderAfter(t) : req' = [req EXCEPT ![t].header = b]
  /\ UNCHANGED <<poolVars, accepted, crashed>>

\* A handler throws; or the first handler of a request chain fails: onFault()
\* does nothing, as the iterator is at begin(), and invoke() throws.
HandlerFails(t) ==
  /\ pc[t] = "invoke"
  /\ \E n \in DOMAIN StageItems(t) : MayFail(t, n)
  /\ Fail(t, "handler")
  /\ UNCHANGED <<poolVars, accepted, crashed>>

\* A later handler fails: onFault() calls through the _functions pointer,
\* which is null for a C++ handler.
FaultCrashes(t) ==
  /\ pc[t] = "invoke"
  /\ \E n \in 2..Len(StageItems(t)) : MayFail(t, n)
  /\ crashed' = TRUE
  /\ UNCHANGED <<poolVars, pc, at, req, accepted>>

\* Mutant: an exception of the service leaves process() without releaseHandlers.
ServiceFails_NoRelease(t) ==
  /\ pc[t] = "invoke"
  /\ Stage(t) = "Service"
  /\ Goto(t, "idle")
  /\ req' = [req EXCEPT ![t] = NoRequest]
  /\ UNCHANGED <<poolVars, accepted, crashed>>

\* The web service returns a failure, or throws an exception of its own kind.
ServiceFails(t) ==
  /\ pc[t] = "invoke"
  /\ Stage(t) = "Service"
  /\ Fail(t, "service")
  /\ UNCHANGED <<poolVars, accepted, crashed>>

\* The wrapper of the web service throws AXISC_SERVICE_THROWN_EXCEPTION with a
\* fault of the service in the serializer: process writes it in its own catch.
ServiceFaults(t) ==
  /\ pc[t] = "invoke"
  /\ Stage(t) = "Service"
  /\ Goto(t, "reply")
  /\ \E b \in HeaderAfter(t) :
       req' = [req EXCEPT ![t].fault = "service", ![t].header = b]
  /\ UNCHANGED <<poolVars, accepted, crashed>>

-----------------------------------------------------------------------------
(* The answer is serialized: setOutputStream.                               *)

\* process writes the answer.  The serializer throws when it holds something
\* it cannot write, in the body or in the header.
WriteReply(t) ==
  /\ pc[t] = "reply"
  /\ \/ ~req[t].header /\ Goto(t, "release") /\ UNCHANGED req
     \/ Fail(t, "reply")
  /\ UNCHANGED <<poolVars, accepted, crashed>>

\* setFaultOutputStream writes a fault in place of the body.
WriteFault(t) ==
  /\ pc[t] = "fault"
  /\ ~req[t].header
  /\ Goto(t, "release")
  /\ UNCHANGED <<poolVars, req, accepted, crashed>>

-----------------------------------------------------------------------------
(* releaseHandlers, then the engine is deleted.                             *)

ChainAt(t) == req[t].chain[ReleaseOrder[at[t]]]

\* Mutant: releaseHandlers forgets the service's chains.
SkipRelease_Any(t) ==
  /\ pc[t] = "release" /\ at[t] <= 2
  /\ call[t] = NoCall
  /\ at' = [at EXCEPT ![t] = @ + 1]
  /\ UNCHANGED <<poolVars, pc, req, accepted, crashed>>

SkipRelease(t) ==
  /\ pc[t] = "release" /\ at[t] <= 2
  /\ ChainAt(t) = None
  /\ at' = [at EXCEPT ![t] = @ + 1]
  /\ UNCHANGED <<poolVars, pc, req, accepted, crashed>>

\* poolHandlerChain up to its last lines.
PoolChain(t) ==
  /\ pc[t] = "release" /\ at[t] <= 2
  /\ \/ ChainAt(t) # None /\ BeginPut(t, ChainAt(t))
     \/ PoolNext(t, Session(t))
  /\ UNCHANGED engineVars

ChainPooled(t) ==
  /\ pc[t] = "release" /\ at[t] <= 2
  /\ EndPut(t)
  /\ at' = [at EXCEPT ![t] = @ + 1]
  /\ UNCHANGED <<pc, req, accepted, crashed>>

\* Mutant: the engine is not deleted.
EndRequest_KeepsEngine(t) == Goto(t, "idle") /\ UNCHANGED <<req, accepted, crashed>>

EndRequest(t) ==
  /\ Goto(t, "idle")
  /\ req' = [req EXCEPT ![t] = NoRequest]
  /\ UNCHANGED <<accepted, crashed>>

\* poolWebService, if there is one, and the end of the request.  The global
\* and transport chains are not pooled back.
PoolWebService(t) ==
  /\ pc[t] = "release" /\ at[t] = 3
  /\ req[t].ws # None
  /\ PutBack(Entry(t), Session(t), req[t].ws, TRUE)
  /\ NoChainStep
  /\ EndRequest(t)

NoWebService(t) ==
  /\ pc[t] = "release" /\ at[t] = 3
  /\ req[t].ws = None
  /\ EndRequest(t)
  /\ UNCHANGED poolVars

\* The fault cannot be written either: the exception leaves process_request
\* before releaseHandlers and the engine is not deleted.  The Apache modules
\* catch it, SimpleAxisServer does not.
FaultEscapes(t) ==
  /\ pc[t] = "fault"
  /\ req[t].header
  /\ \/ EndRequest(t)
     \/ crashed' = TRUE /\ UNCHANGED <<pc, at, req, accepted>>
  /\ UNCHANGED poolVars

-----------------------------------------------------------------------------
\* What the thread that serves a request does next.
Step(t) ==
  \/ ReadMessage(t)
  \/ GetWebService(t) \/ UnlockForService(t) \/ ServiceThrows(t)
  \/ NoHandlers(t) \/ GetChain(t) \/ FillChain(t) \/ ChainReady(t) \/ ChainFails(t)
  \/ InvokeStage(t) \/ HandlerFails(t) \/ FaultCrashes(t)
  \/ ServiceFails(t) \/ ServiceFaults(t)
  \/ WriteReply(t) \/ WriteFault(t) \/ FaultEscapes(t)
  \/ SkipRelease(t) \/ PoolChain(t) \/ ChainPooled(t)
  \/ PoolWebService(t) \/ NoWebService(t)

Next == ~crashed /\ \E t \in Threads : Accept(t) \/ Step(t)

Spec == Init /\ [][Next]_vars

\* Every thread that serves a request keeps running: handlers and services
\* return, and the mutexes are handed on.
Fairness == \A t \in Threads : WF_vars(~crashed /\ Step(t))

FairSpec == Spec /\ Fairness

-----------------------------------------------------------------------------
(* Who refers to what.                                                      *)

\* The engine's pointer for flow f still counts: releaseHandlers does not null
\* the pointer of a chain it has pooled back.
Live(t, f) ==
  /\ req[t] # NoRequest
  /\ req[t].chain[f] # None
  /\ ~(pc[t] = "release" /\ \E n \in 1..2 : ReleaseOrder[n] = f /\ n < at[t])

ChainsOf(t) ==
  {req[t].chain[f] : f \in {g \in Flows : Live(t, g)}}
    \cup (IF Building(t) THEN {call[t].chain} ELSE {})

WebServiceOf(t) == IF req[t] # NoRequest THEN {req[t].ws} \ {None} ELSE {}

\* The objects thread t may call.
HandlersOf(t) == WebServiceOf(t) \cup UNION {HandlersIn(c) : c \in ChainsOf(t)}

\* Created objects that no pool and no engine refers to any more.
Lost ==
  {i \in Insts : /\ home[i] # None
                 /\ i \notin Pooled
                 /\ \A t \in Threads : i \notin HandlersOf(t)}

-----------------------------------------------------------------------------
(* Safety.                                                                  *)

\* A handler or service object is in the hands of one engine at most, and
\* never at the same time in a pool: handler code is written without locks
\* because HandlerPool hands an object to one request at a time.
ExclusiveUse ==
  \A t \in Threads :
    /\ HandlersOf(t) \cap Pooled = {}
    /\ \A u \in Threads \ {t} : HandlersOf(t) \cap HandlersOf(u) = {}

\* A HandlerChain object is used by one engine for one flow, and m_ChainStore
\* never offers a chain that is in use (getHandlerChain takes it under the
\* mutex, poolHandlerChain empties it outside).
ChainExclusive ==
  \A t, u \in Threads :
    /\ t # u => ChainsOf(t) \cap ChainsOf(u) = {}
    /\ ChainsOf(t) \cap store = {}
    /\ \A f, g \in Flows :
         Live(t, f) /\ Live(t, g) /\ req[t].chain[f] = req[t].chain[g] => f = g

\* At most one object of a library is ever created for application scope:
\* AppScopeHandlerPool creates one only while the library has no map entry.
ApplicationSingleton ==
  \A i, j \in Insts :
    home[i] # None /\ home[i] = home[j] /\ home[i][1] = "application" => i = j

\* The web service that is called has been initialised and not finalised
\* since: RequestScopeHandlerPool does not call fini() on a web service.
ServiceReady ==
  \A t \in Threads : pc[t] = "invoke" => req[t].ws \in ready

\* A request that ends loses no web service object, whatever error ends it,
\* unless its fault cannot be written: the error paths of process and
\* process_request all come to releaseHandlers.
ServicesKept ==
  [][\A i \in Lost' \ Lost, svc \in Services :
       home[i] = <<ServiceEntry[svc].scope, ServiceEntry[svc].lib>> =>
         \E t \in Threads : pc[t] = "fault" /\ req[t].header]_vars

\* An object drops out of sight only when getHandlerChain throws halfway, when
\* a request with global or transport chains ends, when a fault cannot be
\* written, or when the loop in getHandlerChain meets a C handler or an object
\* of the wrong type.
LossOnlyWhere ==
  [][Lost' \subseteq Lost \/
     \E t \in Threads :
       \/ pc[t] = "flows" /\ req'[t].fault \in {"beingUsed", "create"}
       \/ /\ pc[t] = "release" /\ pc'[t] = "idle"
          /\ \E f \in Flows \ {"SReq", "SRes"} : Live(t, f)
       \/ pc[t] = "fault" /\ req[t].header
       \/ Getting(t) /\ KindOf[Current(t).lib] # "handler"]_vars

\* The life of every object follows the abstract specification of a lease.
Owner ==
  LET idle == Pooled
      held == [t \in Threads |-> HandlersOf(t)]
  IN [i \in Insts |->
        IF home[i] = None THEN "absent"
        ELSE IF i \in idle THEN "idle"
        ELSE IF \E t \in Threads : i \in held[t]
             THEN CHOOSE t \in Threads : i \in held[t]
        ELSE "lost"]

Lease == INSTANCE HandlerLease WITH Objects <- Insts, Holders <- Threads,
                                    owner <- Owner

LeaseSpec == Lease!Spec

-----------------------------------------------------------------------------
(* Liveness, under FairSpec.                                                *)

\* Every accepted request is answered unless the process dies: no engine waits
\* for ever for a handler or for the HandlerPool mutex, whatever way the
\* requests before it have ended.
RequestsEnd == \A t \in Threads : (pc[t] # "idle") ~> (pc[t] = "idle" \/ crashed)

=============================================================================
