-------------------------- MODULE ClientAxisEngine --------------------------
(***************************************************************************)
(* Calls of the client library.  Each thread owns one Call object with its *)
(* ClientAxisEngine and makes calls one after the other; all engines share *)
(* the handler pools of module HandlerPool.  Unlike the server's, an engine*)
(* lives for many calls and keeps its six chain pointers between them.     *)
(*                                                                         *)
(* releaseHandlers pools the service's chains back and leaves the pointers *)
(* set.  mine[t] says for which flows the pointer is still the engine's    *)
(* own.  The first use of a pointer that is not (UseStale) ends a behaviour:*)
(* HandlerPool's abstractions hold for chains with one holder only.        *)
(***************************************************************************)
EXTENDS HandlerPool

CONSTANTS
  Services,     \* the services the client's descriptor names
  GlobalList,   \* the handlers of the global and transport flows
  ServiceList,  \* ServiceList[svc][f]: the handlers of a service's two flows
  Faulty,       \* libraries whose invoke may return AXIS_FAIL or throw
  MaxCalls      \* bound on the calls made in one behaviour

ServiceFlows == {"SReq", "SRes"}
CommonFlows == {"GReq", "GRes", "TReq", "TRes"}
Flows == CommonFlows \cup ServiceFlows

ASSUME ClientAssumption ==
  /\ None \notin Services
  /\ GlobalList \in [CommonFlows -> Seq(Entries)]
  /\ ServiceList \in [Services -> [ServiceFlows -> Seq(Entries)]]
  /\ Faulty \subseteq Libs
  /\ MaxCalls \in Nat

\* process(): initializeHandlers, then the two flows of the service, if any.
GetOrder == <<"GReq", "GRes", "TReq", "TRes", "SReq", "SRes">>

\* invoke(): the request flows and the exchange with the server, whose
\* positions are the levels AE_START to AE_SERV; then the response flows.
RequestOrder == <<"SReq", "GReq", "TReq", "Server">>
ResponseOrder == <<"TRes", "GRes", "SRes">>
ReleaseOrder == <<"SReq", "SRes">>

VARIABLES
  phase,    \* what each engine is doing
  at,       \* its position in the order of the phase
  chain,    \* the six chain pointers of each engine
  mine,     \* the flows whose pointer has not been pooled back
  cur,      \* the call in progress: its service, None for an unknown one,
            \* its session, and the Status to return
  calls,    \* calls made so far, at most MaxCalls
  crashed,  \* the process has died
  stale     \* a pointer was used after its chain had been pooled back

engineVars == <<phase, at, chain, mine, cur, calls, crashed, stale>>
vars == <<poolVars, engineVars>>

Phases == {"idle", "flows", "invoke", "response", "release"}
Statuses == {"AXIS_SUCCESS", "AXIS_FAIL"}

\* The orders of the phases that walk over chains.
Order(p) == CASE p = "flows" -> GetOrder [] p = "invoke" -> RequestOrder
              [] p = "response" -> ResponseOrder [] OTHER -> ReleaseOrder

\* What a call in progress is about.
CallStates == [svc : Services \cup {None}, session : Sessions, status : Statuses]

ASSUME CallStateAssumption == None \notin CallStates

PointerTypeOK ==
  /\ chain \in [Threads -> [Flows -> Chains \cup {None}]]
  /\ mine \in [Threads -> SUBSET Flows]
  /\ \A t \in Threads : \A f \in mine[t] : chain[t][f] # None

EngineTypeOK ==
  /\ phase \in [Threads -> Phases]
  /\ at \in [Threads -> 1..6]
  /\ cur \in [Threads -> CallStates \cup {None}]
  /\ \A t \in Threads : /\ phase[t] = "idle" <=> cur[t] = None
                        /\ at[t] \in DOMAIN Order(phase[t])
                        /\ phase[t] = "flows" /\ cur[t].svc = None => at[t] <= 4
  /\ calls \in Nat
  /\ crashed \in BOOLEAN
  /\ stale \in BOOLEAN

TypeOK == PoolTypeOK /\ PointerTypeOK /\ EngineTypeOK

Null == [f \in Flows |-> None]

Init ==
  /\ PoolInit
  /\ phase = [t \in Threads |-> "idle"]
  /\ at = [t \in Threads |-> 1]
  /\ chain = [t \in Threads |-> Null]
  /\ mine = [t \in Threads |-> {}]
  /\ cur = [t \in Threads |-> None]
  /\ calls = 0
  /\ crashed = FALSE
  /\ stale = FALSE

-----------------------------------------------------------------------------
GotoAt(t, p, n) ==
  /\ phase' = [phase EXCEPT ![t] = p]
  /\ at' = [at EXCEPT ![t] = n]

Goto(t, p) == GotoAt(t, p, 1)

FlowAt(t) == Order(phase[t])[at[t]]

Session(t) == cur[t].session

\* The pointer of flow f is set and its chain has been pooled back.
Stale(t, f) == chain[t][f] # None /\ f \notin mine[t]

\* Mutant: the call is over and still in progress.
Leave_KeepsCall(t) == Goto(t, "idle") /\ UNCHANGED cur

\* process ends: it returns, or an exception leaves it as an AxisGenException
\* and nothing is released.
Leave(t) ==
  /\ Goto(t, "idle")
  /\ cur' = [cur EXCEPT ![t] = None]

\* Call::sendAndReceive() or send(): process is entered for a service that the
\* descriptor may or may not name.  A name without # is looked up in a copy that
\* lacks its terminator, so any lookup may fail.
Begin(t) ==
  /\ phase[t] = "idle"
  /\ calls < MaxCalls
  /\ \E svc \in Services \cup {None}, s \in Sessions :
       cur' = [cur EXCEPT ![t] = [svc |-> svc, session |-> s,
                                  status |-> "AXIS_FAIL"]]
  /\ Goto(t, "flows")
  /\ calls' = calls + 1
  /\ UNCHANGED <<poolVars, chain, mine, crashed, stale>>

\* The Call is deleted and another made: no chain is pooled back.
Replace(t) ==
  /\ phase[t] = "idle"
  /\ chain[t] # Null
  /\ chain' = [chain EXCEPT ![t] = Null]
  /\ mine' = [mine EXCEPT ![t] = {}]
  /\ UNCHANGED <<poolVars, phase, at, cur, calls, crashed, stale>>

-----------------------------------------------------------------------------
(* The chains are obtained.                                                 *)

ListAt(t) == IF FlowAt(t) \in ServiceFlows THEN ServiceList[cur[t].svc][FlowAt(t)]
                                           ELSE GlobalList[FlowAt(t)]

NextFlow(t) ==
  IF at[t] = (IF cur[t].svc = None THEN 4 ELSE 6) THEN Goto(t, "invoke")
  ELSE at' = [at EXCEPT ![t] = @ + 1] /\ UNCHANGED phase

\* *ppChain = NULL.
ClearPointer(t) ==
  /\ chain' = [chain EXCEPT ![t][FlowAt(t)] = None]
  /\ mine' = [mine EXCEPT ![t] = @ \ {FlowAt(t)}]

NoHandlers(t) ==
  /\ phase[t] = "flows"
  /\ call[t] = NoCall
  /\ ListAt(t) = <<>>
  /\ ClearPointer(t)
  /\ NextFlow(t)
  /\ UNCHANGED <<poolVars, cur, calls, crashed, stale>>

\* Mutant: getHandlerChain without *ppChain = NULL.
GetChain_KeepsPointer(t) ==
  /\ phase[t] = "flows"
  /\ ListAt(t) # <<>>
  /\ BeginGet(t, ListAt(t))
  /\ UNCHANGED engineVars

GetChain(t) ==
  /\ phase[t] = "flows"
  /\ ListAt(t) # <<>>
  /\ BeginGet(t, ListAt(t))
  /\ ClearPointer(t)
  /\ UNCHANGED <<phase, at, cur, calls, crashed, stale>>

FillChain(t) ==
  /\ phase[t] = "flows"
  /\ \/ AddHandler(t, Session(t))
     \/ DropCHandler(t, Session(t))
     \/ WrongType(t, Session(t))
     \/ UnlockForCreate(t, Session(t))
     \/ UndoNext(t)
  /\ UNCHANGED engineVars

ChainReady(t) ==
  /\ phase[t] = "flows"
  /\ EndGet(t)
  /\ chain' = [chain EXCEPT ![t][FlowAt(t)] = call[t].chain]
  /\ mine' = [mine EXCEPT ![t] = @ \cup {FlowAt(t)}]
  /\ NextFlow(t)
  /\ UNCHANGED <<cur, calls, crashed, stale>>

ChainThrows(t) ==
  /\ phase[t] = "flows"
  /\ GetBeingUsed(t, Session(t)) \/ GetCreateFails(t, Session(t))
  /\ Leave(t)
  /\ UNCHANGED <<chain, mine, calls, crashed, stale>>

\* Mutant: *ppChain is set although the chain went back to m_ChainStore.
ChainRefused_ReturnsChain(t) ==
  /\ phase[t] = "flows"
  /\ EndUndo(t)
  /\ \/ FlowAt(t) \in CommonFlows /\ Leave(t)
     \/ FlowAt(t) \in ServiceFlows /\ Goto(t, "release") /\ UNCHANGED cur
  /\ chain' = [chain EXCEPT ![t][FlowAt(t)] = call[t].chain]
  /\ mine' = [mine EXCEPT ![t] = @ \cup {FlowAt(t)}]
  /\ UNCHANGED <<calls, crashed, stale>>

\* A status: initializeHandlers' is turned into an exception, that of a flow of
\* the service leads to releaseHandlers.
ChainRefused(t) ==
  /\ phase[t] = "flows"
  /\ EndUndo(t)
  /\ \/ FlowAt(t) \in CommonFlows /\ Leave(t)
     \/ FlowAt(t) \in ServiceFlows /\ Goto(t, "release") /\ UNCHANGED cur
  /\ UNCHANGED <<chain, mine, calls, crashed, stale>>

-----------------------------------------------------------------------------
(* invoke().                                                                *)

Invoking(t) == phase[t] \in {"invoke", "response"} /\ FlowAt(t) # "Server"

StageItems(t) == IF chain[t][FlowAt(t)] = None THEN <<>>
                 ELSE items[chain[t][FlowAt(t)]]

MayFail(t, n) == n \in DOMAIN StageItems(t) /\ StageItems(t)[n].e.lib \in Faulty

\* Invoking the chain of the stage is within the model.
Invokes(t, p) == phase[t] = p /\ Invoking(t) /\ ~Stale(t, FlowAt(t))

\* A request chain is absent or succeeds: the next level.
RequestStage(t) ==
  /\ Invokes(t, "invoke")
  /\ at' = [at EXCEPT ![t] = @ + 1]
  /\ UNCHANGED <<poolVars, phase, chain, mine, cur, calls, crashed, stale>>

\* Mutant: every response handler runs whatever has failed.
RequestFails_AllResponses(t) ==
  /\ Invokes(t, "invoke")
  /\ MayFail(t, 1)
  /\ GotoAt(t, "response", 1)
  /\ UNCHANGED <<poolVars, chain, mine, cur, calls, crashed, stale>>

\* The first handler of a request chain fails: the response flows are entered
\* at the level reached, the service's own failure skips them all.
RequestFails(t) ==
  /\ Invokes(t, "invoke")
  /\ MayFail(t, 1)
  /\ IF at[t] = 1 THEN Goto(t, "release") ELSE GotoAt(t, "response", 5 - at[t])
  /\ UNCHANGED <<poolVars, chain, mine, cur, calls, crashed, stale>>

\* A handler throws.
HandlerThrows(t) ==
  /\ Invokes(t, "invoke") \/ Invokes(t, "response")
  /\ \E n \in DOMAIN StageItems(t) : MayFail(t, n)
  /\ Leave(t)
  /\ UNCHANGED <<poolVars, chain, mine, calls, crashed, stale>>

\* A later handler fails: onFault() calls through a null function table.
FaultCrashes(t) ==
  /\ Invokes(t, "invoke") \/ Invokes(t, "response")
  /\ \E n \in 2..Len(StageItems(t)) : MayFail(t, n)
  /\ crashed' = TRUE
  /\ UNCHANGED <<poolVars, phase, at, chain, mine, cur, calls, stale>>

\* The message is sent and, unless noResponse is set, an answer of whatever
\* version read.  A status of setInputStream or of the version is overwritten.
\* noResponse is looked at nowhere else, so it is chosen here.
Exchange(t) ==
  /\ phase[t] = "invoke" /\ FlowAt(t) = "Server"
  /\ cur' = [cur EXCEPT ![t].status = "AXIS_SUCCESS"]
  /\ \E noResponse \in BOOLEAN : Goto(t, IF noResponse THEN "release" ELSE "response")
  /\ UNCHANGED <<poolVars, chain, mine, calls, crashed, stale>>

\* Serializing, connecting, sending, receiving or parsing throws; so does a
\* fault in the answer to a one-way call.  setOutputStream has no other failure.
ExchangeThrows(t) ==
  /\ phase[t] = "invoke" /\ FlowAt(t) = "Server"
  /\ Leave(t)
  /\ UNCHANGED <<poolVars, chain, mine, calls, crashed, stale>>

NextResponse(t) ==
  IF at[t] = 3 THEN Goto(t, "release")
  ELSE at' = [at EXCEPT ![t] = @ + 1] /\ UNCHANGED phase

\* A response chain is absent, succeeds, or fails with a status nobody reads.
ResponseStage(t) ==
  /\ Invokes(t, "response")
  /\ NextResponse(t)
  /\ UNCHANGED <<poolVars, chain, mine, cur, calls, crashed, stale>>

-----------------------------------------------------------------------------
(* releaseHandlers.                                                         *)

\* The next chain, or the end of process.
NextRelease(t) ==
  IF at[t] = 1 THEN at' = [at EXCEPT ![t] = 2] /\ UNCHANGED <<phase, cur>>
  ELSE Leave(t)

\* Mutant: releaseHandlers forgets a chain.
SkipRelease_Any(t) ==
  /\ phase[t] = "release"
  /\ call[t] = NoCall
  /\ NextRelease(t)
  /\ mine' = [mine EXCEPT ![t] = @ \ {FlowAt(t)}]
  /\ UNCHANGED <<poolVars, chain, calls, crashed, stale>>

SkipRelease(t) ==
  /\ phase[t] = "release"
  /\ chain[t][FlowAt(t)] = None
  /\ NextRelease(t)
  /\ UNCHANGED <<poolVars, chain, mine, calls, crashed, stale>>

PoolChain(t) ==
  /\ phase[t] = "release"
  /\ \/ FlowAt(t) \in mine[t] /\ BeginPut(t, chain[t][FlowAt(t)])
     \/ PoolNext(t, Session(t))
  /\ UNCHANGED engineVars

\* The chain is back in the store; the pointer to it stays.
ChainPooled(t) ==
  /\ phase[t] = "release"
  /\ EndPut(t)
  /\ mine' = [mine EXCEPT ![t] = @ \ {FlowAt(t)}]
  /\ NextRelease(t)
  /\ UNCHANGED <<chain, calls, crashed, stale>>

\* A chain pooled back in an earlier call is invoked or pooled back again.
UseStale(t) ==
  /\ Invoking(t) \/ (phase[t] = "release" /\ call[t] = NoCall)
  /\ Stale(t, FlowAt(t))
  /\ stale' = TRUE
  /\ UNCHANGED <<poolVars, phase, at, chain, mine, cur, calls, crashed>>

-----------------------------------------------------------------------------
\* What the thread that makes a call does next.
Step(t) ==
  \/ NoHandlers(t) \/ GetChain(t) \/ FillChain(t) \/ ChainReady(t)
  \/ ChainThrows(t) \/ ChainRefused(t)
  \/ RequestStage(t) \/ RequestFails(t) \/ HandlerThrows(t) \/ FaultCrashes(t)
  \/ Exchange(t) \/ ExchangeThrows(t) \/ ResponseStage(t)
  \/ SkipRelease(t) \/ PoolChain(t) \/ ChainPooled(t) \/ UseStale(t)

Next == ~crashed /\ ~stale /\ \E t \in Threads : Begin(t) \/ Replace(t) \/ Step(t)

Spec == Init /\ [][Next]_vars

\* Handlers and the server answer, and the mutexes are handed on.
Fairness == \A t \in Threads : WF_vars(~crashed /\ ~stale /\ Step(t))

FairSpec == Spec /\ Fairness
-----------------------------------------------------------------------------
(* Who refers to what.                                                      *)

\* The chains that are engine t's to use.
ChainsOf(t) ==
  {chain[t][f] : f \in mine[t]} \cup (IF Building(t) THEN {call[t].chain} ELSE {})

\* The objects in them.
HandlersOf(t) == UNION {HandlersIn(c) : c \in ChainsOf(t)}

\* Created objects that no pool and no engine's own chain holds any more.
Lost ==
  {i \in Insts : /\ home[i] # None
                 /\ i \notin Pooled
                 /\ \A t \in Threads : i \notin HandlersOf(t)}

-----------------------------------------------------------------------------
(* Safety.                                                                  *)

\* While no pooled chain is used again, a HandlerChain object is one engine's
\* for one flow, and m_ChainStore never offers it: also after calls that ended
\* by an exception and left their chains where they were.
ChainExclusive ==
  \A t, u \in Threads :
    /\ t # u => ChainsOf(t) \cap ChainsOf(u) = {}
    /\ ChainsOf(t) \cap store = {}
    /\ \A f, g \in mine[t] : chain[t][f] = chain[t][g] => f = g

\* In the same circumstances a handler object is in one engine's chains or in
\* a pool, not in two of them.
ExclusiveUse ==
  \A t \in Threads :
    /\ HandlersOf(t) \cap Pooled = {}
    /\ \A u \in Threads \ {t} : HandlersOf(t) \cap HandlersOf(u) = {}

\* The flows releaseHandlers has dealt with in this call.
ReleasedBefore(t) == {ReleaseOrder[n] : n \in 1..(at[t] - 1)}

\* The request flow each response flow answers to.
RequestOf == [f \in {"SRes", "GRes", "TRes"} |->
                CASE f = "SRes" -> "SReq" [] f = "GRes" -> "GReq" [] OTHER -> "TReq"]

\* A chain that has been pooled back is met again only by a call whose service
\* the descriptor does not name, or by the release of the response flow after
\* the request flow of the service was refused: every other path through
\* process obtains the pointers anew before it uses them.
StaleOnlyWhere ==
  \A t \in Threads, f \in Flows :
    phase[t] \in {"invoke", "response", "release"} /\ Stale(t, f) =>
      \/ phase[t] = "release" /\ f \in ReleasedBefore(t)
      \/ /\ f \in ServiceFlows
         /\ cur[t].svc = None
      \/ f = "SRes" /\ phase[t] = "release" /\ chain[t]["SReq"] = None

\* The response handlers that run are those of the flows whose request
\* handlers have succeeded, or none after a one-way exchange; the call succeeds
\* exactly when the exchange did.
ResponsesMirror ==
  [][\A t \in Threads :
       phase[t] = "invoke" /\ phase'[t] \in {"response", "release"} =>
         LET sent == FlowAt(t) = "Server"
             done == {RequestOrder[n] : n \in 1..(at[t] - 1)}
             runs == IF phase'[t] = "release" THEN {}
                     ELSE {ResponseOrder[n] : n \in at'[t]..3}
         IN /\ \/ runs = {f \in DOMAIN RequestOf : RequestOf[f] \in done}
               \/ sent /\ runs = {}
            /\ sent <=> cur'[t].status = "AXIS_SUCCESS"]_vars

\* An object drops out of sight only when getHandlerChain throws halfway or
\* meets an object that is no handler, when a chain that a failed call or a
\* common flow has left behind is replaced, or when the Call is deleted.  The
\* calls that return a status keep what their service's chains hold.
LossOnlyWhere ==
  [][Lost' \subseteq Lost \/
     \E t \in Threads :
       \/ phase[t] = "flows" /\ phase'[t] = "idle"
       \/ phase[t] = "flows" /\ FlowAt(t) \in mine[t]
       \/ Getting(t) /\ KindOf[Current(t).lib] # "handler"
       \/ phase[t] = "idle" /\ chain'[t] = Null]_vars

-----------------------------------------------------------------------------
(* Liveness, under FairSpec.                                                *)

\* Every call returns or throws, unless the process dies or the model ends at
\* the use of a pooled chain: no engine waits for ever for the mutex.
CallsEnd ==
  \A t \in Threads : (phase[t] # "idle") ~> (phase[t] = "idle" \/ crashed \/ stale)

-----------------------------------------------------------------------------
(* What the sources say of the code and the code does not do.               *)

\* ClientAxisEngine.cpp: a call invokes and releases the service handlers it
\* has got from the pool, so that it never touches another engine's chain.
OwnChainsOnly ==
  \A t, u \in Threads :
    /\ t # u
    /\ phase[t] \in {"invoke", "response", "release"}
    /\ FlowAt(t) # "Server"
    => chain[t][FlowAt(t)] \notin ChainsOf(u)
=============================================================================
