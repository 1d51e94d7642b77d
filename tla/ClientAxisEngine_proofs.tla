----------------------- MODULE ClientAxisEngine_proofs -----------------------
(***************************************************************************)
(* ClientAxisEngine for any number of threads, handlers, chains, libraries,*)
(* sessions, services and calls: types, the HandlerPool mutex, where a     *)
(* chain that has been pooled back can be met again, what a call returns,  *)
(* that chains and handler objects have one holder, and how they are lost. *)
(***************************************************************************)
EXTENDS ClientAxisEngine, HandlerPool_proofs

-----------------------------------------------------------------------------
(* Types.                                                                   *)

\* The lengths of the orders, and the flows in them.
LEMMA Orders ==
  /\ DOMAIN Order("flows") = 1..6 /\ DOMAIN Order("invoke") = 1..4
  /\ DOMAIN Order("response") = 1..3 /\ DOMAIN Order("release") = 1..2
  /\ DOMAIN Order("idle") = 1..2
  /\ \A n \in 1..6 : Order("flows")[n] = GetOrder[n] /\ GetOrder[n] \in Flows
  /\ \A n \in 1..4 : GetOrder[n] \in CommonFlows
  /\ \A n \in 5..6 : GetOrder[n] \in ServiceFlows
  /\ \A n \in 1..2 : Order("release")[n] = ReleaseOrder[n]
  /\ ReleaseOrder[1] = "SReq" /\ ReleaseOrder[2] = "SRes"
  /\ GetOrder[5] = "SReq" /\ GetOrder[6] = "SRes"
  BY DEF Order, GetOrder, RequestOrder, ResponseOrder, ReleaseOrder, Flows,
     CommonFlows, ServiceFlows

\* A call in progress is a record.
LEMMA CallTypes ==
  ASSUME EngineTypeOK, NEW t \in Threads, phase[t] # "idle"
  PROVE  /\ cur[t] \in CallStates
         /\ cur[t].svc \in Services \cup {None} /\ Session(t) \in Sessions
  BY DEF EngineTypeOK, CallStates, Session

\* A call of which the exchange has succeeded.
LEMMA SentType ==
  ASSUME NEW r \in CallStates
  PROVE  [r EXCEPT !.status = "AXIS_SUCCESS"] \in CallStates
  BY DEF CallStates, Statuses

\* A thread moves to position n of phase p, with call r.
LEMMA MoveType ==
  ASSUME EngineTypeOK, NEW t \in Threads, NEW p \in Phases, NEW n \in 1..6,
         NEW r \in CallStates \cup {None},
         phase' = [phase EXCEPT ![t] = p], at' = [at EXCEPT ![t] = n],
         cur' = [cur EXCEPT ![t] = r],
         n \in DOMAIN Order(p), r = None <=> p = "idle",
         p = "flows" /\ r.svc = None => n <= 4,
         calls' \in Nat, crashed' \in BOOLEAN, stale' \in BOOLEAN
  PROVE  EngineTypeOK'
<1>1. \A u \in Threads : /\ phase'[u] = "idle" <=> cur'[u] = None
                         /\ at'[u] \in DOMAIN Order(phase'[u])
                         /\ phase'[u] = "flows" /\ cur'[u].svc = None => at'[u] <= 4
  BY DEF EngineTypeOK
<1> QED BY <1>1 DEF EngineTypeOK

\* A step within a phase, or to another phase of the same call.
LEMMA StageType ==
  ASSUME EngineTypeOK, NEW t \in Threads, phase[t] # "idle",
         NEW p \in Phases \ {"idle"}, NEW n \in DOMAIN Order(p),
         phase' = [phase EXCEPT ![t] = p], at' = [at EXCEPT ![t] = n],
         NEW r \in CallStates, cur' = [cur EXCEPT ![t] = r],
         p = "flows" /\ r.svc = None => n <= 4,
         UNCHANGED <<calls, crashed, stale>>
  PROVE  EngineTypeOK'
<1>1. n \in 1..6
  BY Orders DEF Phases
<1>2. r # None
  BY CallStateAssumption
<1> QED BY <1>1, <1>2, MoveType DEF EngineTypeOK

\* process ends.
LEMMA LeaveType ==
  ASSUME EngineTypeOK, NEW t \in Threads, Leave(t), UNCHANGED <<calls, crashed, stale>>
  PROVE  EngineTypeOK'
<1>1. "idle" \in Phases /\ 1 \in DOMAIN Order("idle") /\ 1 \in 1..6
  BY Orders DEF Phases
<1>2. /\ phase' = [phase EXCEPT ![t] = "idle"] /\ at' = [at EXCEPT ![t] = 1]
      /\ cur' = [cur EXCEPT ![t] = None]
  BY DEF Leave, Goto, GotoAt
<1>3. calls' \in Nat /\ crashed' \in BOOLEAN /\ stale' \in BOOLEAN
  BY DEF EngineTypeOK
<1> QED BY <1>1, <1>2, <1>3, MoveType

\* A further flow is obtained.
LEMMA NextFlowType ==
  ASSUME EngineTypeOK, NEW t \in Threads, phase[t] = "flows", NextFlow(t),
         UNCHANGED <<cur, calls, crashed, stale>>
  PROVE  EngineTypeOK'
<1>0. /\ phase = [phase EXCEPT ![t] = "flows"] /\ cur' = [cur EXCEPT ![t] = cur[t]]
      /\ cur[t] \in CallStates /\ at[t] \in 1..6
  <2>1. cur[t] \in CallStates
    BY CallTypes
  <2>2. phase = [phase EXCEPT ![t] = "flows"] /\ cur' = [cur EXCEPT ![t] = cur[t]]
    BY DEF EngineTypeOK
  <2>3. at[t] \in 1..6
    BY DEF EngineTypeOK
  <2> QED BY <2>1, <2>2, <2>3
<1>1. CASE at[t] = (IF cur[t].svc = None THEN 4 ELSE 6)
  <2>1. phase' = [phase EXCEPT ![t] = "invoke"] /\ at' = [at EXCEPT ![t] = 1]
    BY <1>1 DEF NextFlow, Goto, GotoAt
  <2>2. "invoke" \in Phases \ {"idle"} /\ 1 \in DOMAIN Order("invoke")
    BY Orders DEF Phases
  <2>3. "invoke" # "flows" /\ phase[t] # "idle"
    OBVIOUS
  <2> QED BY <1>0, <2>1, <2>2, <2>3, StageType
<1>2. CASE at[t] # (IF cur[t].svc = None THEN 4 ELSE 6)
  <2>1. cur[t].svc = None => at[t] <= 4
    BY DEF EngineTypeOK
  <2>2. at[t] + 1 \in 1..6 /\ (cur[t].svc = None => at[t] + 1 <= 4)
    BY <1>0, <1>2, <2>1
  <2>3. phase' = [phase EXCEPT ![t] = "flows"] /\ at' = [at EXCEPT ![t] = at[t] + 1]
    BY <1>0, <1>2 DEF NextFlow
  <2>4. "flows" \in Phases \ {"idle"} /\ at[t] + 1 \in DOMAIN Order("flows")
    BY <2>2, Orders DEF Phases
  <2> QED BY <1>0, <2>2, <2>3, <2>4, StageType
<1> QED BY <1>1, <1>2

\* A pointer is set to null, and is then not the engine's own.
LEMMA ClearType ==
  ASSUME PointerTypeOK, NEW t \in Threads, FlowAt(t) \in Flows, ClearPointer(t)
  PROVE  PointerTypeOK'
  BY DEF PointerTypeOK, ClearPointer

\* Nothing of a part changes.
LEMMA PointerStutter == ASSUME PointerTypeOK, UNCHANGED <<chain, mine>> PROVE PointerTypeOK'
  BY DEF PointerTypeOK

LEMMA EngineStutter ==
  ASSUME EngineTypeOK, UNCHANGED <<phase, at, cur, calls, crashed, stale>>
  PROVE  EngineTypeOK'
  BY DEF EngineTypeOK

\* The flow of a phase that walks over chains is a flow.
LEMMA FlowType ==
  ASSUME EngineTypeOK, NEW t \in Threads
  PROVE  /\ phase[t] = "flows" => /\ FlowAt(t) = GetOrder[at[t]]
                                  /\ FlowAt(t) \in Flows
                                  /\ ListAt(t) \in Seq(Entries)
         /\ phase[t] = "release" => FlowAt(t) = ReleaseOrder[at[t]] /\ at[t] \in 1..2
                                    /\ FlowAt(t) \in ServiceFlows
<1>1. ASSUME phase[t] = "flows"
      PROVE  /\ FlowAt(t) = GetOrder[at[t]] /\ FlowAt(t) \in Flows
             /\ ListAt(t) \in Seq(Entries)
  <2>1. at[t] \in 1..6 /\ FlowAt(t) = GetOrder[at[t]] /\ FlowAt(t) \in Flows
    BY <1>1, Orders DEF EngineTypeOK, FlowAt
  <2>2. CASE at[t] <= 4
    <3>1. FlowAt(t) \in CommonFlows /\ FlowAt(t) \notin ServiceFlows
      BY <2>1, <2>2, Orders DEF CommonFlows, ServiceFlows
    <3> QED BY <2>1, <3>1, ClientAssumption DEF ListAt
  <2>3. CASE at[t] > 4
    <3>1. FlowAt(t) \in ServiceFlows
      BY <2>1, <2>3, Orders
    <3>2. cur[t].svc \in Services
      <4>1. cur[t].svc \in Services \cup {None}
        BY <1>1, CallTypes
      <4>2. cur[t].svc # None
        BY <1>1, <2>1, <2>3 DEF EngineTypeOK
      <4> QED BY <4>1, <4>2
    <3> QED BY <2>1, <3>1, <3>2, ClientAssumption DEF ListAt
  <2> QED BY <2>1, <2>2, <2>3
<1>2. ASSUME phase[t] = "release"
      PROVE  /\ FlowAt(t) = ReleaseOrder[at[t]] /\ at[t] \in 1..2
             /\ FlowAt(t) \in ServiceFlows
  <2>1. at[t] \in 1..2 /\ FlowAt(t) = ReleaseOrder[at[t]]
    BY <1>2, Orders DEF EngineTypeOK, FlowAt
  <2>2. \A n \in 1..2 : ReleaseOrder[n] \in ServiceFlows
    BY DEF ReleaseOrder, ServiceFlows
  <2> QED BY <2>1, <2>2
<1> QED BY <1>1, <1>2

\* The call that getHandlerChain works for has a chain.
LEMMA CallChain ==
  ASSUME PoolTypeOK, NEW t \in Threads, call[t].op # "none"
  PROVE  call[t].chain \in Chains
  BY DEF PoolTypeOK, Calls, NoCall

\* Calls begin and Calls are replaced.
LEMMA BeginType ==
  ASSUME TypeOK, NEW t \in Threads, Begin(t) \/ Replace(t)
  PROVE  TypeOK'
<1>1. CASE Begin(t)
  <2>1. PICK svc \in Services \cup {None}, s \in Sessions :
          cur' = [cur EXCEPT ![t] = [svc |-> svc, session |-> s, status |-> "AXIS_FAIL"]]
    BY <1>1 DEF Begin
  <2> DEFINE r == [svc |-> svc, session |-> s, status |-> "AXIS_FAIL"]
  <2>2. r \in CallStates
    BY DEF CallStates, Statuses
  <2>3. r # None
    BY <2>2, CallStateAssumption
  <2>4. calls' \in Nat /\ crashed' \in BOOLEAN /\ stale' \in BOOLEAN
    BY <1>1 DEF Begin, TypeOK, EngineTypeOK
  <2>5. /\ phase' = [phase EXCEPT ![t] = "flows"] /\ at' = [at EXCEPT ![t] = 1]
        /\ cur' = [cur EXCEPT ![t] = r]
    BY <1>1, <2>1 DEF Begin, Goto, GotoAt
  <2>6. "flows" \in Phases /\ 1 \in DOMAIN Order("flows") /\ 1 \in 1..6 /\ "flows" # "idle"
    BY Orders DEF Phases
  <2>7. EngineTypeOK
    BY DEF TypeOK
  <2> HIDE DEF r
  <2>8. (r = None <=> "flows" = "idle") /\ 1 <= 4
    BY <2>3
  <2>9. EngineTypeOK'
    BY <2>2, <2>4, <2>5, <2>6, <2>7, <2>8, MoveType
  <2> QED BY <1>1, <2>9, PoolStutter, PointerStutter DEF Begin, TypeOK
<1>2. CASE Replace(t)
  <2>1. PointerTypeOK'
    BY <1>2 DEF Replace, TypeOK, PointerTypeOK, Null
  <2> QED BY <1>2, <2>1, PoolStutter, EngineStutter DEF Replace, TypeOK
<1> QED BY <1>1, <1>2

\* The chains are obtained.
LEMMA GetType ==
  ASSUME TypeOK, NEW t \in Threads,
         \/ NoHandlers(t) \/ GetChain(t) \/ FillChain(t) \/ ChainReady(t)
         \/ ChainThrows(t) \/ ChainRefused(t)
  PROVE  TypeOK'
<1>0. PoolTypeOK /\ PointerTypeOK /\ EngineTypeOK
  BY DEF TypeOK
<1>1. phase[t] = "flows" /\ phase[t] # "idle" /\ Session(t) \in Sessions
  <2>1. phase[t] = "flows"
    BY DEF NoHandlers, GetChain, FillChain, ChainReady, ChainThrows, ChainRefused
  <2> QED BY <1>0, <2>1, CallTypes
<1>2. FlowAt(t) \in Flows /\ ListAt(t) \in Seq(Entries)
  BY <1>0, <1>1, FlowType
<1>3. CASE NoHandlers(t)
  BY <1>0, <1>1, <1>2, <1>3, PoolStutter, ClearType, NextFlowType DEF NoHandlers, TypeOK
<1>4. CASE GetChain(t)
  <2>1. PoolTypeOK'
    BY <1>0, <1>1, <1>2, <1>4, ChainType DEF GetChain
  <2> QED BY <1>0, <1>2, <1>4, <2>1, ClearType, EngineStutter DEF GetChain, TypeOK
<1>5. CASE FillChain(t)
  <2>1. PoolTypeOK'
    BY <1>0, <1>1, <1>5, FillType DEF FillChain
  <2> QED BY <1>0, <1>5, <2>1, PointerStutter, EngineStutter DEF FillChain, engineVars, TypeOK
<1>6. CASE ChainReady(t)
  <2>1. PoolTypeOK'
    BY <1>0, <1>1, <1>6, ChainType DEF ChainReady
  <2>2. call[t].chain \in Chains
    BY <1>0, <1>6, CallChain DEF ChainReady, EndGet
  <2>3. PointerTypeOK'
    BY <1>0, <1>2, <1>6, <2>2, ConstantsAssumption DEF ChainReady, PointerTypeOK
  <2>4. EngineTypeOK'
    BY <1>0, <1>1, <1>6, NextFlowType DEF ChainReady
  <2> QED BY <2>1, <2>3, <2>4 DEF TypeOK
<1>7. CASE ChainThrows(t)
  <2>1. PoolTypeOK'
    BY <1>0, <1>1, <1>7, ChainType DEF ChainThrows
  <2> QED BY <1>0, <1>7, <2>1, PointerStutter, LeaveType DEF ChainThrows, TypeOK
<1>8. CASE ChainRefused(t)
  <2>1. PoolTypeOK'
    BY <1>0, <1>1, <1>8, ChainType DEF ChainRefused
  <2>2. CASE Leave(t)
    BY <1>0, <1>8, <2>1, <2>2, PointerStutter, LeaveType DEF ChainRefused, TypeOK
  <2>3. CASE Goto(t, "release") /\ UNCHANGED cur
    <3>1. EngineTypeOK'
      <4>1. /\ phase' = [phase EXCEPT ![t] = "release"] /\ at' = [at EXCEPT ![t] = 1]
            /\ cur' = [cur EXCEPT ![t] = cur[t]]
        BY <1>0, <2>3 DEF Goto, GotoAt, EngineTypeOK
      <4>2. "release" \in Phases \ {"idle"} /\ 1 \in DOMAIN Order("release")
            /\ "release" # "flows"
        BY Orders DEF Phases
      <4>3. cur[t] \in CallStates
        BY <1>0, <1>1, CallTypes
      <4> QED BY <1>0, <1>1, <1>8, <4>1, <4>2, <4>3, StageType DEF ChainRefused
    <3> QED BY <1>0, <1>8, <2>1, <3>1, PointerStutter DEF ChainRefused, TypeOK
  <2> QED BY <1>8, <2>2, <2>3 DEF ChainRefused
<1> QED BY <1>3, <1>4, <1>5, <1>6, <1>7, <1>8

\* The handlers are invoked and the message is exchanged.
LEMMA InvokeType ==
  ASSUME TypeOK, NEW t \in Threads,
         \/ RequestStage(t) \/ RequestFails(t) \/ HandlerThrows(t) \/ FaultCrashes(t)
         \/ Exchange(t) \/ ExchangeThrows(t) \/ ResponseStage(t)
  PROVE  TypeOK'
<1>0. /\ PoolTypeOK /\ PointerTypeOK /\ EngineTypeOK
      /\ PoolTypeOK' /\ PointerTypeOK'
  <2>1. UNCHANGED poolVars /\ UNCHANGED <<chain, mine>>
    BY DEF RequestStage, RequestFails, HandlerThrows, FaultCrashes, Exchange,
       ExchangeThrows, ResponseStage
  <2> QED BY <2>1, PoolStutter, PointerStutter DEF TypeOK
<1>1. /\ phase[t] \in {"invoke", "response"} /\ phase[t] # "idle"
      /\ cur[t] \in CallStates /\ at[t] \in DOMAIN Order(phase[t])
      /\ cur \in [Threads -> CallStates \cup {None}]
      /\ phase \in [Threads -> Phases] /\ at \in [Threads -> 1..6]
  <2>1. phase[t] \in {"invoke", "response"}
    BY DEF RequestStage, RequestFails, HandlerThrows, FaultCrashes, Exchange,
       ExchangeThrows, ResponseStage, Invokes
  <2> QED BY <1>0, <2>1, CallTypes DEF EngineTypeOK
<1>2. /\ {"invoke", "response", "release"} \subseteq Phases \ {"idle"}
      /\ "invoke" # "flows" /\ "response" # "flows" /\ "release" # "flows"
  BY DEF Phases
<1>3. cur = [cur EXCEPT ![t] = cur[t]]
  BY <1>1
<1>4. ASSUME NEW p \in {"invoke", "response", "release"}, NEW n \in DOMAIN Order(p),
             NEW r \in CallStates, phase' = [phase EXCEPT ![t] = p],
             at' = [at EXCEPT ![t] = n], cur' = [cur EXCEPT ![t] = r],
             UNCHANGED <<calls, crashed, stale>>
      PROVE  EngineTypeOK'
  BY <1>0, <1>1, <1>2, <1>4, StageType
<1>5. CASE RequestStage(t)
  <2>1. phase[t] = "invoke" /\ at[t] # 4 /\ at[t] \in 1..4
    BY <1>1, <1>5, Orders DEF RequestStage, Invokes, Invoking, FlowAt, Order, RequestOrder
  <2>2. at[t] + 1 \in DOMAIN Order("invoke")
    BY <2>1, Orders
  <2>3. /\ phase' = [phase EXCEPT ![t] = "invoke"] /\ at' = [at EXCEPT ![t] = at[t] + 1]
        /\ cur' = [cur EXCEPT ![t] = cur[t]]
    BY <1>1, <1>3, <1>5, <2>1 DEF RequestStage
  <2> QED BY <1>0, <1>1, <1>4, <1>5, <2>2, <2>3 DEF RequestStage, TypeOK
<1>6. CASE RequestFails(t)
  <2>1. phase[t] = "invoke" /\ at[t] # 4 /\ at[t] \in 1..4
    BY <1>1, <1>6, Orders DEF RequestFails, Invokes, Invoking, FlowAt, Order, RequestOrder
  <2>2. cur' = [cur EXCEPT ![t] = cur[t]]
    BY <1>3, <1>6 DEF RequestFails
  <2>3. CASE at[t] = 1
    <3>1. phase' = [phase EXCEPT ![t] = "release"] /\ at' = [at EXCEPT ![t] = 1]
      BY <1>6, <2>3 DEF RequestFails, Goto, GotoAt
    <3>2. 1 \in DOMAIN Order("release")
      BY Orders
    <3> QED BY <1>0, <1>1, <1>4, <1>6, <2>2, <3>1, <3>2 DEF RequestFails, TypeOK
  <2>4. CASE at[t] # 1
    <3>1. phase' = [phase EXCEPT ![t] = "response"] /\ at' = [at EXCEPT ![t] = 5 - at[t]]
      BY <1>6, <2>4 DEF RequestFails, GotoAt
    <3>2. 5 - at[t] \in DOMAIN Order("response")
      BY <2>1, <2>4, Orders
    <3> QED BY <1>0, <1>1, <1>4, <1>6, <2>2, <3>1, <3>2 DEF RequestFails, TypeOK
  <2> QED BY <2>3, <2>4
<1>7. CASE HandlerThrows(t) \/ ExchangeThrows(t)
  BY <1>0, <1>7, LeaveType DEF HandlerThrows, ExchangeThrows, TypeOK
<1>8. CASE FaultCrashes(t)
  BY <1>0, <1>8 DEF FaultCrashes, TypeOK, EngineTypeOK
<1>9. CASE Exchange(t)
  <2>1. PICK p \in {"response", "release"} :
          phase' = [phase EXCEPT ![t] = p] /\ at' = [at EXCEPT ![t] = 1]
    BY <1>9 DEF Exchange, Goto, GotoAt
  <2> DEFINE r == [cur[t] EXCEPT !.status = "AXIS_SUCCESS"]
  <2>2. r \in CallStates
    BY <1>1, SentType
  <2>3. cur' = [cur EXCEPT ![t] = r]
    BY <1>9 DEF Exchange
  <2> HIDE DEF r
  <2>4. 1 \in DOMAIN Order(p) /\ p \in {"invoke", "response", "release"}
    BY <2>1, Orders
  <2> QED BY <1>0, <1>4, <1>9, <2>1, <2>2, <2>3, <2>4 DEF Exchange, TypeOK
<1>10. CASE ResponseStage(t)
  <2>1. phase[t] = "response" /\ at[t] \in 1..3
    BY <1>1, <1>10, Orders DEF ResponseStage, Invokes
  <2>2. cur' = [cur EXCEPT ![t] = cur[t]]
    BY <1>3, <1>10 DEF ResponseStage
  <2>3. CASE at[t] = 3
    <3>1. phase' = [phase EXCEPT ![t] = "release"] /\ at' = [at EXCEPT ![t] = 1]
      BY <1>10, <2>3 DEF ResponseStage, NextResponse, Goto, GotoAt
    <3>2. 1 \in DOMAIN Order("release")
      BY Orders
    <3> QED BY <1>0, <1>1, <1>4, <1>10, <2>2, <3>1, <3>2 DEF ResponseStage, TypeOK
  <2>4. CASE at[t] # 3
    <3>1. /\ phase' = [phase EXCEPT ![t] = "response"]
          /\ at' = [at EXCEPT ![t] = at[t] + 1]
      BY <1>1, <1>10, <2>1, <2>4 DEF ResponseStage, NextResponse
    <3>2. at[t] + 1 \in DOMAIN Order("response")
      BY <2>1, <2>4, Orders
    <3> QED BY <1>0, <1>1, <1>4, <1>10, <2>2, <3>1, <3>2 DEF ResponseStage, TypeOK
  <2> QED BY <2>3, <2>4
<1> QED BY <1>5, <1>6, <1>7, <1>8, <1>9, <1>10

\* The release of the first chain is followed by that of the second, which
\* ends the call.
LEMMA NextReleaseType ==
  ASSUME EngineTypeOK, NEW t \in Threads, phase[t] = "release", NextRelease(t),
         UNCHANGED <<calls, crashed, stale>>
  PROVE  EngineTypeOK'
<1>1. CASE at[t] = 1
  <2>1. phase[t] # "idle" /\ cur[t] \in CallStates
    BY CallTypes
  <2>2. /\ phase' = [phase EXCEPT ![t] = "release"] /\ at' = [at EXCEPT ![t] = 2]
        /\ cur' = [cur EXCEPT ![t] = cur[t]]
    BY <1>1 DEF NextRelease, EngineTypeOK
  <2>3. /\ "release" \in Phases \ {"idle"} /\ "release" # "flows"
        /\ 2 \in DOMAIN Order("release")
    BY Orders DEF Phases
  <2> QED BY <2>1, <2>2, <2>3, StageType
<1>2. CASE at[t] # 1
  BY <1>2, LeaveType DEF NextRelease
<1> QED BY <1>1, <1>2

\* releaseHandlers, and the use of a pooled chain.
LEMMA ReleaseType ==
  ASSUME TypeOK, NEW t \in Threads,
         \/ SkipRelease(t) \/ PoolChain(t) \/ ChainPooled(t) \/ UseStale(t)
  PROVE  TypeOK'
<1>0. PoolTypeOK /\ PointerTypeOK /\ EngineTypeOK
  BY DEF TypeOK
<1>1. CASE SkipRelease(t)
  <2>1. EngineTypeOK'
    BY <1>0, <1>1, NextReleaseType DEF SkipRelease
  <2> QED BY <1>0, <1>1, <2>1, PoolStutter, PointerStutter DEF SkipRelease, TypeOK
<1>2. CASE PoolChain(t)
  <2>1. phase[t] # "idle" /\ Session(t) \in Sessions
    BY <1>0, <1>2, CallTypes DEF PoolChain
  <2>2. CASE FlowAt(t) \in mine[t] /\ BeginPut(t, chain[t][FlowAt(t)])
    <3>1. chain[t][FlowAt(t)] \in Chains
      BY <1>0, <2>2 DEF PointerTypeOK
    <3>2. PoolTypeOK'
      BY <1>0, <2>1, <2>2, <3>1, ChainType
    <3> QED BY <1>0, <1>2, <3>2, PointerStutter, EngineStutter DEF PoolChain, engineVars, TypeOK
  <2>3. CASE PoolNext(t, Session(t))
    <3>1. PoolTypeOK'
      BY <1>0, <2>1, <2>3, FillType
    <3> QED BY <1>0, <1>2, <3>1, PointerStutter, EngineStutter DEF PoolChain, engineVars, TypeOK
  <2> QED BY <1>2, <2>2, <2>3 DEF PoolChain
<1>3. CASE ChainPooled(t)
  <2>1. phase[t] # "idle" /\ Session(t) \in Sessions
    BY <1>0, <1>3, CallTypes DEF ChainPooled
  <2>2. PoolTypeOK'
    BY <1>0, <1>3, <2>1, ChainType DEF ChainPooled
  <2>3. PointerTypeOK'
    BY <1>0, <1>3 DEF ChainPooled, PointerTypeOK
  <2>4. EngineTypeOK'
    BY <1>0, <1>3, NextReleaseType DEF ChainPooled
  <2> QED BY <2>2, <2>3, <2>4 DEF TypeOK
<1>4. CASE UseStale(t)
  <2>1. EngineTypeOK'
    BY <1>0, <1>4 DEF UseStale, EngineTypeOK
  <2> QED BY <1>0, <1>4, <2>1, PoolStutter, PointerStutter DEF UseStale, TypeOK
<1> QED BY <1>1, <1>2, <1>3, <1>4

\* The types hold at the start.
LEMMA CallInit == Init => TypeOK
<1> SUFFICES ASSUME Init PROVE TypeOK
  OBVIOUS
<1>1. PoolTypeOK
  BY DEF Init, PoolInit, PoolTypeOK, Calls
<1>2. PointerTypeOK
  BY DEF Init, Null, PointerTypeOK
<1>3. EngineTypeOK
  <2>1. \A t \in Threads : phase[t] = "idle" /\ at[t] = 1 /\ cur[t] = None
    BY DEF Init
  <2>2. \A t \in Threads : at[t] \in DOMAIN Order(phase[t])
    BY <2>1, Orders
  <2>3. \A t \in Threads : phase[t] = "flows" /\ cur[t].svc = None => at[t] <= 4
    BY <2>1
  <2>4. phase \in [Threads -> Phases]
    BY DEF Init, Phases
  <2>5. at \in [Threads -> 1..6]
    BY DEF Init
  <2>6. cur \in [Threads -> CallStates \cup {None}]
    BY DEF Init
  <2>7. calls \in Nat /\ crashed \in BOOLEAN /\ stale \in BOOLEAN
    BY DEF Init
  <2> QED BY <2>1, <2>2, <2>3, <2>4, <2>5, <2>6, <2>7 DEF EngineTypeOK
<1> QED BY <1>1, <1>2, <1>3 DEF TypeOK

\* Every step keeps them.
LEMMA CallStep == TypeOK /\ [Next]_vars => TypeOK'
<1> SUFFICES ASSUME TypeOK, [Next]_vars PROVE TypeOK'
  OBVIOUS
<1>1. CASE UNCHANGED vars
  BY <1>1, PoolStutter, PointerStutter, EngineStutter DEF vars, engineVars, TypeOK
<1>2. CASE Next
  <2>1. PICK t \in Threads : Begin(t) \/ Replace(t) \/ Step(t)
    BY <1>2 DEF Next
  <2> QED BY <2>1, BeginType, GetType, InvokeType, ReleaseType DEF Step
<1> QED BY <1>1, <1>2

\* Every engine's pointers, position and call, and every pool, chain and object
\* operation, have the shape process and HandlerPool give them.
THEOREM CallTypesCorrect == Spec => []TypeOK
  BY CallInit, CallStep, PTL DEF Spec

-----------------------------------------------------------------------------
(* The mutex of HandlerPool.                                                *)

\* A step either leaves the pools alone or is a step of a chain operation.
LEMMA CallMutexStep ==
  ASSUME TypeOK, MutexDiscipline, [Next]_vars
  PROVE  MutexDiscipline'
<1>0. PoolTypeOK /\ EngineTypeOK /\ PointerTypeOK
  BY DEF TypeOK
<1>1. CASE UNCHANGED poolVars
  BY <1>1, MutexFrame DEF poolVars
<1>2. ASSUME NEW t \in Threads, GetChain(t) \/ FillChain(t) \/ ChainReady(t)
                                \/ ChainThrows(t) \/ ChainRefused(t)
      PROVE  MutexDiscipline'
  <2>1. phase[t] = "flows" /\ phase[t] # "idle"
    BY <1>2 DEF GetChain, FillChain, ChainReady, ChainThrows, ChainRefused
  <2>2. ListAt(t) \in Seq(Entries) /\ Session(t) \in Sessions
    BY <1>0, <2>1, FlowType, CallTypes
  <2>3. CASE FillChain(t)
    BY <1>0, <2>2, <2>3, MutexFill DEF FillChain
  <2>4. CASE GetChain(t)
    BY <1>0, <2>2, <2>4, MutexChain DEF GetChain
  <2>5. CASE ChainReady(t) \/ ChainThrows(t) \/ ChainRefused(t)
    BY <1>0, <2>2, <2>5, MutexChain DEF ChainReady, ChainThrows, ChainRefused
  <2> QED BY <1>2, <2>3, <2>4, <2>5
<1>3. ASSUME NEW t \in Threads, PoolChain(t) \/ ChainPooled(t)
      PROVE  MutexDiscipline'
  <2>1. phase[t] = "release" /\ phase[t] # "idle"
    BY <1>3 DEF PoolChain, ChainPooled
  <2>2. Session(t) \in Sessions
    BY <1>0, <2>1, CallTypes
  <2>3. FlowAt(t) \in mine[t] => chain[t][FlowAt(t)] \in Chains
    BY <1>0 DEF PointerTypeOK
  <2>4. CASE PoolNext(t, Session(t))
    BY <1>0, <2>2, <2>4, MutexFill
  <2>5. CASE FlowAt(t) \in mine[t] /\ BeginPut(t, chain[t][FlowAt(t)])
    BY <1>0, <2>2, <2>3, <2>5, MutexChain
  <2>6. CASE EndPut(t)
    BY <1>0, <2>2, <2>6, MutexChain
  <2> QED BY <1>3, <2>4, <2>5, <2>6 DEF PoolChain, ChainPooled
<1>4. CASE UNCHANGED vars
  BY <1>1, <1>4 DEF vars
<1>5. CASE Next
  <2>1. PICK t \in Threads : Begin(t) \/ Replace(t) \/ Step(t)
    BY <1>5 DEF Next
  <2>2. CASE \/ Begin(t) \/ Replace(t) \/ NoHandlers(t) \/ RequestStage(t)
             \/ RequestFails(t) \/ HandlerThrows(t) \/ FaultCrashes(t) \/ Exchange(t)
             \/ ExchangeThrows(t) \/ ResponseStage(t) \/ SkipRelease(t) \/ UseStale(t)
    <3>1. UNCHANGED poolVars
      BY <2>2 DEF Begin, Replace, NoHandlers, RequestStage, RequestFails, HandlerThrows,
         FaultCrashes, Exchange, ExchangeThrows, ResponseStage, SkipRelease, UseStale
    <3> QED BY <1>1, <3>1
  <2> QED BY <1>2, <1>3, <2>1, <2>2 DEF Step
<1> QED BY <1>4, <1>5

\* However a call of the client ends, by a return, a status or an exception, its
\* thread holds the HandlerPool mutex only while getHandlerChain is at work.
THEOREM CallsFreeTheMutex == Spec => []MutexDiscipline
<1>1. Init => MutexDiscipline
  BY ConstantsAssumption DEF Init, PoolInit, MutexDiscipline, Building, NoCall
<1>2. TypeOK /\ MutexDiscipline /\ [Next]_vars => MutexDiscipline'
  BY CallMutexStep
<1> QED BY <1>1, <1>2, CallTypesCorrect, PTL DEF Spec

-----------------------------------------------------------------------------
(* Where a chain that has been pooled back is met again.                    *)

\* What thread t may do with the pooled chain of flow f still ahead of it.
MayMeet(t, f) ==
  /\ f \in ServiceFlows
  /\ phase[t] = "flows" /\ f = "SReq" => at[t] <= 5
  /\ phase[t] \in {"invoke", "response"} => cur[t].svc = None
  /\ phase[t] = "release" => \/ cur[t].svc = None
                             \/ f = "SReq" /\ at[t] = 2
                             \/ f = "SRes" /\ chain[t]["SReq"] = None

\* A chain is built for a flow whose pointer has been cleared, and a pooled
\* chain is that of a flow of the service that is yet to be obtained, is not
\* obtained, or has been released.
PointersOf(t) ==
  /\ Building(t) => phase[t] = "flows" /\ chain[t][FlowAt(t)] = None
  /\ \A f \in Flows : Stale(t, f) => MayMeet(t, f)

PointerInv == \A t \in Threads : PointersOf(t)

\* What the invariant says of a thread is decided by that thread's variables.
LEMMA PointersFrame ==
  ASSUME NEW t, PointersOf(t), phase'[t] = phase[t], at'[t] = at[t],
         chain'[t] = chain[t], mine'[t] = mine[t], cur'[t] = cur[t], call'[t] = call[t]
  PROVE  PointersOf(t)'
  BY DEF PointersOf, Building, Stale, MayMeet, FlowAt

\* A thread changes only its own variables.
OwnStep(t) ==
  \A u \in Threads \ {t} :
    /\ phase'[u] = phase[u] /\ at'[u] = at[u] /\ chain'[u] = chain[u]
    /\ mine'[u] = mine[u] /\ cur'[u] = cur[u] /\ call'[u] = call[u]

\* So does a step of a chain operation.
LEMMA PoolOwn ==
  ASSUME PoolTypeOK, NEW t \in Threads, NEW s,
         \/ AddHandler(t, s) \/ DropCHandler(t, s) \/ WrongType(t, s)
         \/ UnlockForCreate(t, s) \/ UndoNext(t) \/ PoolNext(t, s)
         \/ \E list : BeginGet(t, list)
         \/ EndGet(t) \/ GetBeingUsed(t, s) \/ GetCreateFails(t, s) \/ EndUndo(t)
         \/ \E c : BeginPut(t, c)
         \/ EndPut(t)
  PROVE  \A u \in Threads \ {t} : call'[u] = call[u]
  BY DEF AddHandler, DropCHandler, WrongType, UnlockForCreate, UndoNext, PoolNext,
     PutNext, BeginGet, EndGet, GetBeingUsed, GetCreateFails, AbandonGet, EndUndo,
     BeginPut, EndPut, StoreChain, PoolTypeOK

LEMMA OwnSteps ==
  ASSUME TypeOK, NEW t \in Threads, Begin(t) \/ Replace(t) \/ Step(t)
  PROVE  OwnStep(t)
<1>0. PoolTypeOK /\ PointerTypeOK /\ EngineTypeOK
  BY DEF TypeOK
<1>1. \A u \in Threads \ {t} : phase'[u] = phase[u] /\ at'[u] = at[u]
  BY <1>0 DEF EngineTypeOK, Begin, Replace, Step, NoHandlers, GetChain, FillChain,
     ChainReady, ChainThrows, ChainRefused, RequestStage, RequestFails, HandlerThrows,
     FaultCrashes, Exchange, ExchangeThrows, ResponseStage, SkipRelease, PoolChain,
     ChainPooled, UseStale, Leave, Goto, GotoAt, NextFlow, NextResponse, NextRelease,
     engineVars
<1>2. \A u \in Threads \ {t} : chain'[u] = chain[u] /\ mine'[u] = mine[u]
  BY <1>0 DEF PointerTypeOK, Begin, Replace, Step, NoHandlers, GetChain, FillChain,
     ChainReady, ChainThrows, ChainRefused, RequestStage, RequestFails, HandlerThrows,
     FaultCrashes, Exchange, ExchangeThrows, ResponseStage, SkipRelease, PoolChain,
     ChainPooled, UseStale, ClearPointer, engineVars
<1>3. \A u \in Threads \ {t} : cur'[u] = cur[u]
  BY <1>0 DEF EngineTypeOK, Begin, Replace, Step, NoHandlers, GetChain, FillChain,
     ChainReady, ChainThrows, ChainRefused, RequestStage, RequestFails, HandlerThrows,
     FaultCrashes, Exchange, ExchangeThrows, ResponseStage, SkipRelease, PoolChain,
     ChainPooled, UseStale, Leave, NextRelease, engineVars
<1>4. \A u \in Threads \ {t} : call'[u] = call[u]
  <2>1. CASE call' = call
    BY <2>1
  <2>2. CASE GetChain(t) \/ FillChain(t) \/ ChainReady(t) \/ ChainThrows(t)
             \/ ChainRefused(t) \/ PoolChain(t) \/ ChainPooled(t)
    BY <1>0, <2>2, PoolOwn DEF GetChain, FillChain, ChainReady, ChainThrows,
       ChainRefused, PoolChain, ChainPooled
  <2> QED BY <2>1, <2>2 DEF Begin, Replace, Step, NoHandlers, RequestStage,
       RequestFails, HandlerThrows, FaultCrashes, Exchange, ExchangeThrows,
       ResponseStage, SkipRelease, UseStale, poolVars
<1> QED BY <1>1, <1>2, <1>3, <1>4 DEF OwnStep

\* When a further flow is obtained after one whose pointer is null or its own.
LEMMA NextFlowMeets ==
  ASSUME TypeOK, NEW t \in Threads, PointersOf(t), phase[t] = "flows", NextFlow(t),
         UNCHANGED cur, NEW f \in Flows, Stale(t, f), f # FlowAt(t)
  PROVE  MayMeet(t, f)'
<1>1. f \in ServiceFlows /\ (f = "SReq" => at[t] <= 5)
  BY DEF PointersOf, MayMeet
<1>2. at[t] \in 1..6 /\ FlowAt(t) = GetOrder[at[t]] /\ (cur[t].svc = None => at[t] <= 4)
  <2>1. EngineTypeOK
    BY DEF TypeOK
  <2>2. at[t] \in 1..6 /\ (cur[t].svc = None => at[t] <= 4)
    BY <2>1 DEF EngineTypeOK
  <2> QED BY <2>1, <2>2, FlowType
<1>3. /\ at[t] = 5 => f # "SReq"
      /\ at[t] = 6 => f # "SReq" /\ f # "SRes"
  BY <1>1, <1>2, Orders
<1>4. phase \in [Threads -> Phases] /\ at \in [Threads -> 1..6]
  BY DEF TypeOK, EngineTypeOK
<1>5. CASE at[t] = (IF cur[t].svc = None THEN 4 ELSE 6)
  <2>1. phase'[t] = "invoke"
    BY <1>4, <1>5 DEF NextFlow, Goto, GotoAt
  <2>2. at[t] # 6
    BY <1>1, <1>3 DEF ServiceFlows
  <2>3. cur'[t].svc = None
    BY <1>5, <2>2
  <2> QED BY <1>1, <2>1, <2>3 DEF MayMeet
<1>6. CASE at[t] # (IF cur[t].svc = None THEN 4 ELSE 6)
  <2>1. phase'[t] = "flows" /\ at'[t] = at[t] + 1
    BY <1>4, <1>6 DEF NextFlow
  <2>2. f = "SReq" => at[t] + 1 <= 5
    BY <1>1, <1>2, <1>3
  <2> QED BY <1>1, <2>1, <2>2 DEF MayMeet
<1> QED BY <1>5, <1>6

\* The call ends: every pooled chain waits for the next one.
LEMMA LeaveMeets ==
  ASSUME TypeOK, NEW t \in Threads, PointersOf(t), Leave(t), ~Building(t)',
         \A f \in Flows : Stale(t, f)' => Stale(t, f) \/ f \in ServiceFlows
  PROVE  PointersOf(t)'
<1>1. phase'[t] = "idle"
  BY DEF Leave, Goto, GotoAt, TypeOK, EngineTypeOK
<1>2. \A f \in Flows : Stale(t, f)' => f \in ServiceFlows
  BY DEF PointersOf, MayMeet
<1> QED BY <1>1, <1>2 DEF PointersOf, MayMeet

\* The chains are obtained.
LEMMA GetMeets ==
  ASSUME TypeOK, NEW t \in Threads, PointersOf(t),
         \/ NoHandlers(t) \/ GetChain(t) \/ FillChain(t) \/ ChainReady(t)
         \/ ChainThrows(t) \/ ChainRefused(t)
  PROVE  PointersOf(t)'
<1>0. PoolTypeOK /\ PointerTypeOK /\ EngineTypeOK
  BY DEF TypeOK
<1>1. phase[t] = "flows" /\ FlowAt(t) \in Flows
  <2>1. phase[t] = "flows"
    BY DEF NoHandlers, GetChain, FillChain, ChainReady, ChainThrows, ChainRefused
  <2> QED BY <1>0, <2>1, FlowType
<1>2. NoCall.op = "none"
  BY DEF NoCall
<1>3. ASSUME ClearPointer(t)
      PROVE  /\ chain'[t][FlowAt(t)] = None
             /\ \A f \in Flows : Stale(t, f)' => Stale(t, f) /\ f # FlowAt(t)
  BY <1>0, <1>1, <1>3 DEF ClearPointer, PointerTypeOK, Stale
<1>4. CASE NoHandlers(t)
  <2>1. ~Building(t)'
    BY <1>2, <1>4 DEF NoHandlers, poolVars, Building
  <2>2. \A f \in Flows : Stale(t, f)' => MayMeet(t, f)'
    BY <1>1, <1>3, <1>4, NextFlowMeets DEF NoHandlers
  <2> QED BY <2>1, <2>2 DEF PointersOf
<1>5. CASE GetChain(t)
  <2>1. phase'[t] = "flows" /\ FlowAt(t)' = FlowAt(t)
    BY <1>1, <1>5 DEF GetChain, FlowAt
  <2>2. \A f \in Flows : Stale(t, f)' => MayMeet(t, f)'
    BY <1>1, <1>3, <1>5, <2>1 DEF GetChain, PointersOf, MayMeet
  <2> QED BY <1>3, <1>5, <2>1, <2>2 DEF GetChain, PointersOf
<1>6. CASE FillChain(t)
  <2>1. Building(t)
    BY <1>6 DEF FillChain, AddHandler, DropCHandler, WrongType, UnlockForCreate,
       UndoNext, Getting, Building
  <2>2. UNCHANGED engineVars
    BY <1>6 DEF FillChain
  <2> QED BY <2>1, <2>2 DEF PointersOf, Stale, MayMeet, FlowAt, engineVars
<1>7. CASE ChainReady(t)
  <2>1. ~Building(t)'
    BY <1>0, <1>2, <1>7 DEF ChainReady, EndGet, Building, PoolTypeOK
  <2>2. \A f \in Flows : Stale(t, f)' => Stale(t, f) /\ f # FlowAt(t)
    BY <1>0, <1>1, <1>7 DEF ChainReady, PointerTypeOK, Stale
  <2>3. \A f \in Flows : Stale(t, f)' => MayMeet(t, f)'
    BY <1>1, <1>7, <2>2, NextFlowMeets DEF ChainReady
  <2> QED BY <2>1, <2>3 DEF PointersOf
<1>8. CASE ChainThrows(t)
  <2>1. ~Building(t)'
    BY <1>0, <1>2, <1>8 DEF ChainThrows, GetBeingUsed, GetCreateFails, AbandonGet,
       Building, PoolTypeOK
  <2>2. \A f \in Flows : Stale(t, f)' => Stale(t, f)
    BY <1>8 DEF ChainThrows, Stale
  <2> QED BY <1>8, <2>1, <2>2, LeaveMeets DEF ChainThrows
<1>9. CASE ChainRefused(t)
  <2>1. ~Building(t)' /\ Building(t)
    BY <1>0, <1>2, <1>9 DEF ChainRefused, EndUndo, StoreChain, Building, PoolTypeOK
  <2>2. /\ chain' = chain /\ chain[t][FlowAt(t)] = None
        /\ \A f \in Flows : Stale(t, f)' = Stale(t, f)
    BY <1>9, <2>1 DEF ChainRefused, Stale, PointersOf
  <2>3. CASE Leave(t)
    BY <2>1, <2>2, <2>3, LeaveMeets
  <2>4. CASE FlowAt(t) \in ServiceFlows /\ Goto(t, "release")
    <3>1. phase'[t] = "release" /\ at'[t] = 1
      BY <1>0, <2>4 DEF Goto, GotoAt, EngineTypeOK
    <3>2. at[t] \in 1..6 /\ FlowAt(t) = GetOrder[at[t]]
      BY <1>0, <1>1, FlowType DEF EngineTypeOK
    <3>3. at[t] \in 5..6
      BY <2>4, <3>2, Orders DEF ServiceFlows, CommonFlows
    <3>4. ASSUME NEW f \in Flows, Stale(t, f)
          PROVE  f = "SRes" /\ chain[t]["SReq"] = None
      <4>1. f \in ServiceFlows /\ (f = "SReq" => at[t] <= 5) /\ f # FlowAt(t)
        BY <1>1, <2>2, <3>4 DEF PointersOf, MayMeet, Stale
      <4>2. f # "SReq" /\ FlowAt(t) # "SRes"
        BY <3>2, <3>3, <4>1, Orders DEF ServiceFlows
      <4> QED BY <2>2, <2>4, <4>1, <4>2 DEF ServiceFlows
    <3> QED BY <2>1, <2>2, <3>1, <3>4 DEF PointersOf, MayMeet, ServiceFlows
  <2> QED BY <1>9, <2>3, <2>4 DEF ChainRefused
<1> QED BY <1>4, <1>5, <1>6, <1>7, <1>8, <1>9

\* Calls begin and Calls are replaced.
LEMMA BeginMeets ==
  ASSUME TypeOK, NEW t \in Threads, PointersOf(t), Begin(t) \/ Replace(t)
  PROVE  PointersOf(t)'
<1>1. phase[t] = "idle" /\ ~Building(t) /\ call' = call
  BY DEF Begin, Replace, PointersOf, poolVars
<1>2. ~Building(t)'
  BY <1>1 DEF Building
<1>3. CASE Begin(t)
  <2>1. phase'[t] = "flows" /\ at'[t] = 1
    BY <1>3 DEF Begin, Goto, GotoAt, TypeOK, EngineTypeOK
  <2>2. \A f \in Flows : Stale(t, f)' => Stale(t, f)
    BY <1>3 DEF Begin, Stale
  <2> QED BY <1>2, <2>1, <2>2 DEF PointersOf, MayMeet
<1>4. CASE Replace(t)
  <2>1. \A f \in Flows : ~Stale(t, f)'
    BY <1>4 DEF Replace, Null, Stale, TypeOK, PointerTypeOK
  <2> QED BY <1>2, <2>1 DEF PointersOf
<1> QED BY <1>3, <1>4

\* The handlers are invoked: no pointer changes, and the call keeps its service.
LEMMA InvokeMeets ==
  ASSUME TypeOK, NEW t \in Threads, PointersOf(t),
         \/ RequestStage(t) \/ RequestFails(t) \/ HandlerThrows(t) \/ FaultCrashes(t)
         \/ Exchange(t) \/ ExchangeThrows(t) \/ ResponseStage(t)
  PROVE  PointersOf(t)'
<1>1. /\ phase[t] \in {"invoke", "response"}
      /\ UNCHANGED <<chain, mine, call>>
  BY DEF RequestStage, RequestFails, HandlerThrows, FaultCrashes, Exchange,
     ExchangeThrows, ResponseStage, Invokes, poolVars
<1>2. ~Building(t)'
  BY <1>1 DEF PointersOf, Building
<1>3. \A f \in Flows : Stale(t, f)' = Stale(t, f)
  BY <1>1 DEF Stale
<1>4. CASE HandlerThrows(t) \/ ExchangeThrows(t)
  BY <1>2, <1>3, <1>4, LeaveMeets DEF HandlerThrows, ExchangeThrows
<1>5. CASE \/ RequestStage(t) \/ RequestFails(t) \/ FaultCrashes(t) \/ Exchange(t)
           \/ ResponseStage(t)
  <2>1. phase'[t] \in {"invoke", "response", "release"}
    BY <1>1, <1>5 DEF RequestStage, RequestFails, FaultCrashes, Exchange, ResponseStage,
       NextResponse, Goto, GotoAt, TypeOK, EngineTypeOK
  <2>2. cur'[t].svc = cur[t].svc
    <3>1. CASE cur' = cur
      BY <3>1
    <3>2. CASE Exchange(t)
      <4>1. phase[t] # "idle" /\ EngineTypeOK
        BY <1>1 DEF TypeOK
      <4>2. cur[t] \in CallStates
        BY <4>1, CallTypes
      <4>3. cur'[t] = [cur[t] EXCEPT !.status = "AXIS_SUCCESS"]
        BY <3>2, <4>1 DEF Exchange, EngineTypeOK
      <4> QED BY <4>2, <4>3 DEF CallStates
    <3> QED BY <1>5, <3>1, <3>2 DEF RequestStage, RequestFails, FaultCrashes, ResponseStage
  <2>3. \A f \in Flows : Stale(t, f) => f \in ServiceFlows /\ cur[t].svc = None
    BY <1>1 DEF PointersOf, MayMeet
  <2> QED BY <1>2, <1>3, <2>1, <2>2, <2>3 DEF PointersOf, MayMeet
<1> QED BY <1>4, <1>5

\* releaseHandlers, and the use of a pooled chain.
LEMMA ReleaseMeets ==
  ASSUME TypeOK, NEW t \in Threads, PointersOf(t),
         \/ SkipRelease(t) \/ PoolChain(t) \/ ChainPooled(t) \/ UseStale(t)
  PROVE  PointersOf(t)'
<1>0. PoolTypeOK /\ PointerTypeOK /\ EngineTypeOK
  BY DEF TypeOK
<1>1. CASE UseStale(t)
  BY <1>1, PointersFrame DEF UseStale, poolVars
<1>2. CASE PoolChain(t)
  <2>1. phase[t] = "release" /\ UNCHANGED engineVars
    BY <1>2 DEF PoolChain
  <2>2. ~Building(t)'
    <3>1. CASE BeginPut(t, chain[t][FlowAt(t)])
      BY <1>0, <3>1 DEF BeginPut, PoolTypeOK, Building
    <3>2. CASE PoolNext(t, Session(t))
      BY <3>2 DEF PoolNext, PutNext, Building
    <3> QED BY <1>2, <3>1, <3>2 DEF PoolChain
  <2> QED BY <2>1, <2>2 DEF PointersOf, Stale, MayMeet, engineVars
<1>3. ASSUME NextRelease(t), phase[t] = "release", UNCHANGED chain, ~Building(t)',
             \A f \in Flows : Stale(t, f)' => Stale(t, f) \/ f = FlowAt(t)
      PROVE  PointersOf(t)'
  <2>1. at[t] \in 1..2 /\ FlowAt(t) = ReleaseOrder[at[t]] /\ FlowAt(t) \in ServiceFlows
    BY <1>0, <1>3, FlowType
  <2>2. CASE at[t] = 1
    <3>1. phase'[t] = "release" /\ at'[t] = 2 /\ cur' = cur /\ FlowAt(t) = "SReq"
      BY <1>0, <1>3, <2>1, <2>2, Orders DEF NextRelease, EngineTypeOK
    <3>2. ASSUME NEW f \in Flows, Stale(t, f)'
          PROVE  MayMeet(t, f)'
      <4>1. CASE f = "SReq"
        BY <3>1, <4>1 DEF MayMeet, ServiceFlows
      <4>2. CASE Stale(t, f)
        <5>1. /\ f \in ServiceFlows
              /\ cur[t].svc = None \/ (f = "SRes" /\ chain[t]["SReq"] = None)
          BY <1>3, <2>2, <4>2 DEF PointersOf, MayMeet
        <5> QED BY <1>3, <3>1, <5>1 DEF MayMeet
      <4> QED BY <1>3, <3>1, <3>2, <4>1, <4>2
    <3> QED BY <1>3, <3>2 DEF PointersOf
  <2>3. CASE at[t] # 1
    <3>1. Leave(t)
      BY <1>3, <2>3 DEF NextRelease
    <3> QED BY <1>3, <2>1, <3>1, LeaveMeets
  <2> QED BY <2>2, <2>3
<1>4. CASE SkipRelease(t)
  <2>1. ~Building(t)'
    BY <1>4 DEF SkipRelease, PointersOf, Building, poolVars
  <2>2. \A f \in Flows : Stale(t, f)' => Stale(t, f)
    BY <1>4 DEF SkipRelease, Stale
  <2> QED BY <1>3, <1>4, <2>1, <2>2 DEF SkipRelease
<1>5. CASE ChainPooled(t)
  <2>1. NoCall.op = "none"
    BY DEF NoCall
  <2>2. ~Building(t)'
    BY <1>0, <1>5, <2>1 DEF ChainPooled, EndPut, StoreChain, Building, PoolTypeOK
  <2>3. \A f \in Flows : Stale(t, f)' => Stale(t, f) \/ f = FlowAt(t)
    BY <1>0, <1>5 DEF ChainPooled, Stale, PointerTypeOK
  <2> QED BY <1>3, <1>5, <2>2, <2>3 DEF ChainPooled
<1> QED BY <1>1, <1>2, <1>4, <1>5

\* Every step keeps the invariant: of the thread that takes it and of the others.
LEMMA PointerStep == TypeOK /\ PointerInv /\ [Next]_vars => PointerInv'
<1> SUFFICES ASSUME TypeOK, PointerInv, [Next]_vars PROVE PointerInv'
  OBVIOUS
<1>1. CASE UNCHANGED vars
  BY <1>1, PointersFrame DEF vars, poolVars, engineVars, PointerInv
<1>2. CASE Next
  <2>1. PICK t \in Threads : Begin(t) \/ Replace(t) \/ Step(t)
    BY <1>2 DEF Next
  <2>2. PointersOf(t)
    BY DEF PointerInv
  <2>3. PointersOf(t)'
    BY <2>1, <2>2, BeginMeets, GetMeets, InvokeMeets, ReleaseMeets DEF Step
  <2>4. ASSUME NEW u \in Threads \ {t} PROVE PointersOf(u)'
    <3>1. PointersOf(u)
      BY DEF PointerInv
    <3> QED BY <2>1, <3>1, OwnSteps, PointersFrame DEF OwnStep
  <2> QED BY <2>3, <2>4 DEF PointerInv
<1> QED BY <1>1, <1>2

\* A chain that a call has pooled back while its pointer stays set is met again
\* only where the call's service is unknown, in the release that has just pooled
\* it, or for the response flow when the request flow was refused.
THEOREM StaleOnlyThere == Spec => []StaleOnlyWhere
<1>1. Init => PointerInv
  BY DEF Init, PoolInit, PointerInv, PointersOf, Building, NoCall, Null, Stale
<1>2. TypeOK /\ PointerInv => StaleOnlyWhere
  <2> SUFFICES ASSUME TypeOK, PointerInv, NEW t \in Threads, NEW f \in Flows,
                      phase[t] \in {"invoke", "response", "release"}, Stale(t, f)
               PROVE  \/ phase[t] = "release" /\ f \in ReleasedBefore(t)
                      \/ f \in ServiceFlows /\ cur[t].svc = None
                      \/ f = "SRes" /\ phase[t] = "release" /\ chain[t]["SReq"] = None
    BY DEF StaleOnlyWhere
  <2>1. MayMeet(t, f)
    BY DEF PointerInv, PointersOf
  <2>2. at[t] = 2 => "SReq" \in ReleasedBefore(t)
    BY Orders DEF ReleasedBefore
  <2> QED BY <2>1, <2>2 DEF MayMeet
<1> QED BY <1>1, <1>2, PointerStep, CallTypesCorrect, PTL DEF Spec

-----------------------------------------------------------------------------
(* What a call returns, and which response handlers it runs.                *)

\* Until the exchange, the Status to return is AXIS_FAIL.
StatusInv ==
  \A t \in Threads : phase[t] \in {"flows", "invoke"} => cur[t].status = "AXIS_FAIL"

LEMMA StatusStep == TypeOK /\ StatusInv /\ [Next]_vars => StatusInv'
<1> SUFFICES ASSUME TypeOK, StatusInv, [Next]_vars PROVE StatusInv'
  OBVIOUS
<1>0. EngineTypeOK
  BY DEF TypeOK
<1>1. CASE UNCHANGED vars
  BY <1>1 DEF vars, engineVars, StatusInv
<1>2. CASE Next
  <2>1. PICK t \in Threads : Begin(t) \/ Replace(t) \/ Step(t)
    BY <1>2 DEF Next
  <2>2. \A u \in Threads \ {t} : phase'[u] = phase[u] /\ cur'[u] = cur[u]
    BY <2>1, OwnSteps DEF OwnStep
  <2>3. SUFFICES phase'[t] \in {"flows", "invoke"} => cur'[t].status = "AXIS_FAIL"
    BY <2>2 DEF StatusInv
  <2>4. CASE Begin(t)
    BY <1>0, <2>4 DEF Begin, EngineTypeOK
  <2>5. CASE \/ Replace(t) \/ NoHandlers(t) \/ GetChain(t) \/ FillChain(t) \/ ChainReady(t)
             \/ RequestStage(t) \/ RequestFails(t) \/ FaultCrashes(t)
             \/ ResponseStage(t) \/ PoolChain(t) \/ UseStale(t)
    <3>1. cur' = cur
      BY <2>5 DEF Replace, NoHandlers, GetChain, FillChain, ChainReady, RequestStage,
         RequestFails, FaultCrashes, ResponseStage, PoolChain, UseStale, engineVars
    <3>2. phase'[t] \in {"flows", "invoke"} => phase[t] \in {"flows", "invoke"}
      BY <1>0, <2>5 DEF Replace, NoHandlers, GetChain, FillChain, ChainReady, RequestStage,
         RequestFails, FaultCrashes, ResponseStage, PoolChain, UseStale, engineVars,
         NextFlow, NextResponse, Goto, GotoAt, EngineTypeOK
    <3> QED BY <3>1, <3>2 DEF StatusInv
  <2>6. CASE \/ ChainThrows(t) \/ ChainRefused(t) \/ HandlerThrows(t) \/ Exchange(t)
             \/ ExchangeThrows(t) \/ SkipRelease(t) \/ ChainPooled(t)
    <3>1. phase'[t] \notin {"flows", "invoke"}
      BY <1>0, <2>6 DEF ChainThrows, ChainRefused, HandlerThrows, Exchange, ExchangeThrows,
         SkipRelease, ChainPooled, NextRelease, Leave, Goto, GotoAt, EngineTypeOK
    <3> QED BY <3>1
  <2> QED BY <2>1, <2>4, <2>5, <2>6 DEF Step
<1> QED BY <1>1, <1>2

\* The response flows that answer to the request flows before position n.
LEMMA MirrorOrders ==
  ASSUME NEW n \in 1..4
  PROVE  {f \in DOMAIN RequestOf : RequestOf[f] \in {RequestOrder[m] : m \in 1..(n - 1)}}
           = IF n = 1 THEN {} ELSE {ResponseOrder[m] : m \in (5 - n)..3}
<1> DEFINE fs == {"SRes", "GRes", "TRes"}
<1>1. /\ DOMAIN RequestOf = fs /\ RequestOf["SRes"] = "SReq"
      /\ RequestOf["GRes"] = "GReq" /\ RequestOf["TRes"] = "TReq"
  BY DEF RequestOf
<1>2. /\ RequestOrder[1] = "SReq" /\ RequestOrder[2] = "GReq" /\ RequestOrder[3] = "TReq"
      /\ ResponseOrder[1] = "TRes" /\ ResponseOrder[2] = "GRes" /\ ResponseOrder[3] = "SRes"
  BY DEF RequestOrder, ResponseOrder
<1>3. CASE n = 1
  BY <1>3
<1>4. CASE n = 2
  <2>1. 1..(n - 1) = {1} /\ (5 - n)..3 = {3}
    BY <1>4
  <2> QED BY <1>1, <1>2, <1>4, <2>1
<1>5. CASE n = 3
  <2>1. 1..(n - 1) = {1, 2} /\ (5 - n)..3 = {2, 3}
    BY <1>5
  <2> QED BY <1>1, <1>2, <1>5, <2>1
<1>6. CASE n = 4
  <2>1. 1..(n - 1) = {1, 2, 3} /\ (5 - n)..3 = {1, 2, 3}
    BY <1>6
  <2> QED BY <1>1, <1>2, <1>6, <2>1
<1> QED BY <1>3, <1>4, <1>5, <1>6

\* The step of a thread that leaves the request flows.
LEMMA MirrorStep ==
  ASSUME TypeOK, StatusInv, NEW t \in Threads, Begin(t) \/ Replace(t) \/ Step(t),
         phase[t] = "invoke", phase'[t] \in {"response", "release"}
  PROVE  LET sent == FlowAt(t) = "Server"
             done == {RequestOrder[n] : n \in 1..(at[t] - 1)}
             runs == IF phase'[t] = "release" THEN {}
                     ELSE {ResponseOrder[n] : n \in at'[t]..3}
         IN /\ \/ runs = {f \in DOMAIN RequestOf : RequestOf[f] \in done}
               \/ sent /\ runs = {}
            /\ sent <=> cur'[t].status = "AXIS_SUCCESS"
<1>0. EngineTypeOK /\ cur[t] \in CallStates
  BY CallTypes DEF TypeOK
<1>1. at[t] \in 1..4 /\ FlowAt(t) = RequestOrder[at[t]]
  BY <1>0, Orders DEF EngineTypeOK, FlowAt, Order
<1>2. FlowAt(t) = "Server" <=> at[t] = 4
  BY <1>1 DEF RequestOrder
<1>3. RequestFails(t) \/ Exchange(t)
  <2>1. CASE RequestStage(t) \/ FaultCrashes(t) \/ UseStale(t)
    BY <2>1 DEF RequestStage, FaultCrashes, UseStale
  <2>2. CASE HandlerThrows(t) \/ ExchangeThrows(t)
    BY <1>0, <2>2 DEF HandlerThrows, ExchangeThrows, Leave, Goto, GotoAt, EngineTypeOK
  <2> QED
    BY <2>1, <2>2 DEF Begin, Replace, Step, NoHandlers, GetChain, FillChain, ChainReady,
       ChainThrows, ChainRefused, ResponseStage, Invokes, SkipRelease, PoolChain,
       ChainPooled
<1>4. CASE RequestFails(t)
  <2>1. at[t] # 4
    BY <1>2, <1>4 DEF RequestFails, Invokes, Invoking
  <2>2. cur'[t].status = "AXIS_FAIL"
    BY <1>4 DEF RequestFails, StatusInv
  <2>3. CASE at[t] = 1
    <3>1. phase'[t] = "release"
      BY <1>0, <1>4, <2>3 DEF RequestFails, Goto, GotoAt, EngineTypeOK
    <3> QED BY <1>1, <1>2, <2>2, <2>3, <3>1, MirrorOrders
  <2>4. CASE at[t] # 1
    <3>1. phase'[t] = "response" /\ at'[t] = 5 - at[t]
      BY <1>0, <1>4, <2>4 DEF RequestFails, GotoAt, EngineTypeOK
    <3> QED BY <1>1, <1>2, <2>1, <2>2, <2>4, <3>1, MirrorOrders
  <2> QED BY <2>3, <2>4
<1>5. CASE Exchange(t)
  <2>1. FlowAt(t) = "Server" /\ at[t] = 4
    BY <1>2, <1>5 DEF Exchange
  <2>2. at'[t] = 1 /\ cur'[t].status = "AXIS_SUCCESS"
    BY <1>0, <1>5 DEF Exchange, Goto, GotoAt, EngineTypeOK, CallStates
  <2>3. 5 - at[t] = 1 /\ at[t] # 1
    BY <2>1
  <2> QED BY <1>1, <2>1, <2>2, <2>3, MirrorOrders
<1> QED BY <1>3, <1>4, <1>5

\* ResponsesMirror: invoke() runs the response handlers of the levels its request
\* handlers have passed, and its status tells whether the exchange succeeded.
THEOREM AnswersMirror == Spec => ResponsesMirror
<1>1. Init => StatusInv
  BY DEF Init, StatusInv
<1>2. TypeOK /\ StatusInv /\ [Next]_vars =>
        [\A t \in Threads :
           phase[t] = "invoke" /\ phase'[t] \in {"response", "release"} =>
             LET sent == FlowAt(t) = "Server"
                 done == {RequestOrder[n] : n \in 1..(at[t] - 1)}
                 runs == IF phase'[t] = "release" THEN {}
                         ELSE {ResponseOrder[n] : n \in at'[t]..3}
             IN /\ \/ runs = {f \in DOMAIN RequestOf : RequestOf[f] \in done}
                   \/ sent /\ runs = {}
                /\ sent <=> cur'[t].status = "AXIS_SUCCESS"]_vars
  <2> SUFFICES ASSUME TypeOK, StatusInv, Next, NEW t \in Threads,
                      phase[t] = "invoke", phase'[t] \in {"response", "release"}
               PROVE  LET sent == FlowAt(t) = "Server"
                          done == {RequestOrder[n] : n \in 1..(at[t] - 1)}
                          runs == IF phase'[t] = "release" THEN {}
                                  ELSE {ResponseOrder[n] : n \in at'[t]..3}
                      IN /\ \/ runs = {f \in DOMAIN RequestOf : RequestOf[f] \in done}
                            \/ sent /\ runs = {}
                         /\ sent <=> cur'[t].status = "AXIS_SUCCESS"
    BY DEF vars
  <2>1. PICK u \in Threads : Begin(u) \/ Replace(u) \/ Step(u)
    BY DEF Next
  <2>2. t = u
    BY <2>1, OwnSteps DEF OwnStep
  <2> QED BY <2>1, <2>2, MirrorStep
<1> QED BY <1>1, <1>2, StatusStep, CallTypesCorrect, PTL DEF Spec, ResponsesMirror

-----------------------------------------------------------------------------
(* HandlerChain objects.                                                    *)

\* A chain is built for a flow of which the engine has none, and the chain that
\* is being pooled back is the one of the flow releaseHandlers is at.
WorkInv ==
  \A t \in Threads :
    /\ Building(t) => phase[t] = "flows" /\ FlowAt(t) \notin mine[t]
    /\ call[t].op = "put" => /\ phase[t] = "release" /\ FlowAt(t) \in mine[t]
                             /\ chain[t][FlowAt(t)] = call[t].chain

LEMMA WorkStep == TypeOK /\ WorkInv /\ [Next]_vars => WorkInv'
<1> SUFFICES ASSUME TypeOK, WorkInv, [Next]_vars PROVE WorkInv'
  OBVIOUS
<1>0. PoolTypeOK /\ PointerTypeOK /\ EngineTypeOK
  BY DEF TypeOK
<1>n. NoCall.op = "none"
  BY DEF NoCall
<1>1. CASE UNCHANGED vars
  BY <1>1 DEF vars, poolVars, engineVars, WorkInv, Building, FlowAt
<1>2. CASE Next
  <2>1. PICK t \in Threads : Begin(t) \/ Replace(t) \/ Step(t)
    BY <1>2 DEF Next
  <2>2. SUFFICES /\ Building(t)' => phase'[t] = "flows" /\ FlowAt(t)' \notin mine'[t]
                 /\ call'[t].op = "put" => /\ phase'[t] = "release" /\ FlowAt(t)' \in mine'[t]
                                           /\ chain'[t][FlowAt(t)'] = call'[t].chain
    BY <2>1, OwnSteps DEF OwnStep, WorkInv, Building, FlowAt
  <2>3. CASE call'[t].op = "none"
    BY <2>3 DEF Building
  <2>4. CASE Begin(t) \/ Replace(t) \/ NoHandlers(t) \/ ChainReady(t) \/ ChainThrows(t)
             \/ ChainRefused(t) \/ ChainPooled(t)
    <3>1. CASE Begin(t) \/ Replace(t)
      <4>1. call[t].op \in {"none", "get", "undo", "put"}
        BY <1>0 DEF PoolTypeOK, Calls, NoCall
      <4>2. call[t].op = "none" /\ call' = call
        BY <3>1, <4>1 DEF WorkInv, Building, Begin, Replace, poolVars
      <4> QED BY <2>3, <4>2
    <3> QED
      BY <1>0, <1>n, <2>3, <2>4, <3>1 DEF NoHandlers, ChainReady, EndGet, ChainThrows, GetBeingUsed,
         GetCreateFails, AbandonGet, ChainRefused, EndUndo, ChainPooled, EndPut, StoreChain,
         poolVars, PoolTypeOK
  <2>5. CASE GetChain(t)
    <3>1. call'[t].op = "get" /\ phase' = phase /\ at' = at
      BY <1>0, <2>5 DEF GetChain, BeginGet, PoolTypeOK
    <3>2. mine'[t] = mine[t] \ {FlowAt(t)}
      BY <1>0, <2>5 DEF GetChain, ClearPointer, PointerTypeOK
    <3>3. FlowAt(t)' = FlowAt(t) /\ phase[t] = "flows"
      BY <2>5, <3>1 DEF GetChain, FlowAt
    <3> QED BY <3>1, <3>2, <3>3
  <2>6. CASE FillChain(t)
    <3>1. Building(t) /\ UNCHANGED engineVars
      BY <2>6 DEF FillChain, AddHandler, DropCHandler, WrongType, UnlockForCreate,
         UndoNext, Getting, Building
    <3>2. call'[t].op \in {"get", "undo"}
      <4>1. call[t] \in [op : {"get", "undo", "put"}, chain : Chains, rest : Seq(Entries)]
        BY <1>0, <1>n, <3>1 DEF PoolTypeOK, Calls, Building
      <4>2. CASE AddHandler(t, Session(t)) \/ DropCHandler(t, Session(t))
        <5>1. call' = [call EXCEPT ![t].rest = Tail(@)]
          BY <4>2 DEF AddHandler, DropCHandler
        <5> QED BY <1>0, <3>1, <4>1, <5>1 DEF Building, PoolTypeOK
      <4>3. CASE WrongType(t, Session(t))
        BY <1>0, <4>1, <4>3 DEF WrongType, PoolTypeOK
      <4>4. CASE UnlockForCreate(t, Session(t)) \/ UndoNext(t)
        BY <3>1, <4>4 DEF UnlockForCreate, UndoNext, PutNext, Building
      <4> QED BY <2>6, <4>2, <4>3, <4>4 DEF FillChain
    <3> QED BY <3>1, <3>2 DEF WorkInv, engineVars, FlowAt
  <2>7. CASE PoolChain(t)
    <3>1. phase[t] = "release" /\ UNCHANGED engineVars
      BY <2>7 DEF PoolChain
    <3>2. CASE FlowAt(t) \in mine[t] /\ BeginPut(t, chain[t][FlowAt(t)])
      <4>1. call'[t] = [op |-> "put", chain |-> chain[t][FlowAt(t)], rest |-> <<>>]
        BY <1>0, <3>2 DEF BeginPut, PoolTypeOK
      <4> QED BY <3>1, <3>2, <4>1 DEF Building, engineVars, FlowAt
    <3>3. CASE PoolNext(t, Session(t))
      BY <3>1, <3>3 DEF PoolNext, PutNext, WorkInv, Building, engineVars, FlowAt
    <3> QED BY <2>7, <3>2, <3>3 DEF PoolChain
  <2>8. CASE \/ RequestStage(t) \/ RequestFails(t) \/ HandlerThrows(t) \/ FaultCrashes(t)
             \/ Exchange(t) \/ ExchangeThrows(t) \/ ResponseStage(t)
    <3>1. phase[t] \in {"invoke", "response"} /\ call' = call
      BY <2>8 DEF RequestStage, RequestFails, HandlerThrows, FaultCrashes, Exchange,
         ExchangeThrows, ResponseStage, Invokes, poolVars
    <3> QED BY <3>1 DEF WorkInv, Building
  <2>9. CASE SkipRelease(t)
    <3>1. FlowAt(t) \notin mine[t] /\ phase[t] = "release" /\ call' = call
      BY <1>0, <2>9 DEF SkipRelease, PointerTypeOK, poolVars
    <3> QED BY <3>1 DEF WorkInv, Building
  <2>10. CASE UseStale(t)
    BY <2>10 DEF UseStale, WorkInv, Building, FlowAt, poolVars
  <2> QED BY <2>1, <2>4, <2>5, <2>6, <2>7, <2>8, <2>9, <2>10 DEF Step
<1> QED BY <1>1, <1>2

LEMMA WorkInvariant == Spec => []WorkInv
<1>1. Init => WorkInv
  BY DEF Init, PoolInit, WorkInv, Building, NoCall
<1> QED BY <1>1, WorkStep, CallTypesCorrect, PTL DEF Spec

\* The store, the engines' own pointers and the chain under construction never
\* share a chain.
ChainInv ==
  /\ store \subseteq used
  /\ \A t \in Threads : \A f \in mine[t] : chain[t][f] \in used \ store
  /\ \A t \in Threads : Building(t) => call[t].chain \in used \ store
  /\ \A t, u \in Threads : \A f \in mine[t], g \in mine[u] :
       chain[t][f] = chain[u][g] => t = u /\ f = g
  /\ \A t, u \in Threads : \A f \in mine[u] : Building(t) => call[t].chain # chain[u][f]

\* Thread u refers to no chain it did not refer to before, in the same place.
OwnKept(u) == \A f \in mine'[u] : f \in mine[u] /\ chain'[u][f] = chain[u][f]

BuildKept(u) == Building(u)' => Building(u) /\ call'[u].chain = call[u].chain

LEMMA ChainShrink ==
  ASSUME ChainInv, UNCHANGED <<store, used>>,
         \A u \in Threads : OwnKept(u) /\ BuildKept(u)
  PROVE  ChainInv'
  BY DEF ChainInv, OwnKept, BuildKept

LEMMA OthersKept ==
  ASSUME TypeOK, NEW t \in Threads, Begin(t) \/ Replace(t) \/ Step(t)
  PROVE  \A u \in Threads \ {t} : OwnKept(u) /\ BuildKept(u)
  BY OwnSteps DEF OwnStep, OwnKept, BuildKept, Building

\* The steps that neither take, hand over nor store a chain.
Plain(t) ==
  \/ Begin(t) \/ Replace(t) \/ NoHandlers(t) \/ FillChain(t) \/ ChainThrows(t)
  \/ RequestStage(t) \/ RequestFails(t) \/ HandlerThrows(t) \/ FaultCrashes(t)
  \/ Exchange(t) \/ ExchangeThrows(t) \/ ResponseStage(t) \/ SkipRelease(t)
  \/ PoolChain(t) \/ UseStale(t)

LEMMA PlainKept ==
  ASSUME TypeOK, NEW t \in Threads, Plain(t)
  PROVE  OwnKept(t) /\ BuildKept(t) /\ UNCHANGED <<store, used>>
<1>0. PoolTypeOK /\ PointerTypeOK /\ EngineTypeOK
  BY DEF TypeOK
<1>1. ASSUME UNCHANGED <<chain, mine>> PROVE OwnKept(t)
  BY <1>1 DEF OwnKept
<1>2. CASE Replace(t)
  BY <1>0, <1>2 DEF Replace, OwnKept, BuildKept, Building, PointerTypeOK, poolVars
<1>3. CASE NoHandlers(t)
  BY <1>0, <1>3 DEF NoHandlers, ClearPointer, OwnKept, BuildKept, Building,
     PointerTypeOK, poolVars
<1>4. CASE FillChain(t)
  <2>1. UNCHANGED <<chain, mine>>
    BY <1>4 DEF FillChain, engineVars
  <2>2. CASE AddHandler(t, Session(t)) \/ DropCHandler(t, Session(t)) \/ WrongType(t, Session(t))
    <3>1. /\ call[t].op = "get"
          /\ call[t] \in [op : {"get", "undo", "put"}, chain : Chains, rest : Seq(Entries)]
      BY <1>0, <2>2 DEF AddHandler, DropCHandler, WrongType, Getting, PoolTypeOK, Calls, NoCall
    <3>2. call'[t].chain = call[t].chain /\ UNCHANGED <<store, used>>
      BY <1>0, <2>2, <3>1 DEF AddHandler, DropCHandler, WrongType, PoolTypeOK
    <3> QED BY <1>1, <2>1, <3>1, <3>2 DEF BuildKept, Building
  <2>3. CASE UnlockForCreate(t, Session(t)) \/ UndoNext(t)
    BY <1>1, <2>1, <2>3 DEF UnlockForCreate, UndoNext, PutNext, BuildKept, Building
  <2> QED BY <1>4, <2>2, <2>3 DEF FillChain
<1>5. CASE ChainThrows(t)
  <2>1. UNCHANGED <<chain, mine, store, used>> /\ call'[t] = NoCall
    BY <1>0, <1>5 DEF ChainThrows, GetBeingUsed, GetCreateFails, AbandonGet, PoolTypeOK
  <2> QED BY <1>1, <2>1 DEF BuildKept, Building, NoCall
<1>6. CASE PoolChain(t)
  <2>1. UNCHANGED <<chain, mine>>
    BY <1>6 DEF PoolChain, engineVars
  <2>2. CASE PoolNext(t, Session(t))
    BY <1>1, <2>1, <2>2 DEF PoolNext, PutNext, BuildKept, Building
  <2>3. CASE BeginPut(t, chain[t][FlowAt(t)])
    <3>1. call'[t].op = "put" /\ UNCHANGED <<store, used>>
      BY <1>0, <2>3 DEF BeginPut, PoolTypeOK
    <3> QED BY <1>1, <2>1, <3>1 DEF BuildKept, Building
  <2> QED BY <1>6, <2>2, <2>3 DEF PoolChain
<1>7. CASE \/ Begin(t) \/ RequestStage(t) \/ RequestFails(t) \/ HandlerThrows(t)
           \/ FaultCrashes(t) \/ Exchange(t) \/ ExchangeThrows(t) \/ ResponseStage(t)
           \/ SkipRelease(t) \/ UseStale(t)
  BY <1>1, <1>7 DEF Begin, RequestStage, RequestFails, HandlerThrows, FaultCrashes,
     Exchange, ExchangeThrows, ResponseStage, SkipRelease, UseStale, BuildKept, Building,
     poolVars
<1> QED BY <1>2, <1>3, <1>4, <1>5, <1>6, <1>7 DEF Plain

\* The chain that was built becomes the engine's own, in the flow it was built for.
LEMMA ReadyMoves ==
  ASSUME TypeOK, NEW t \in Threads, ChainReady(t)
  PROVE  /\ Building(t) /\ ~Building(t)' /\ UNCHANGED <<store, used>>
         /\ \A f \in mine'[t] : \/ f = FlowAt(t) /\ chain'[t][f] = call[t].chain
                                \/ f \in mine[t] /\ chain'[t][f] = chain[t][f]
<1>0. PoolTypeOK /\ PointerTypeOK /\ EngineTypeOK
  BY DEF TypeOK
<1>1. FlowAt(t) \in Flows
  BY <1>0, FlowType DEF ChainReady
<1>2. Building(t) /\ ~Building(t)' /\ UNCHANGED <<store, used>>
  BY <1>0 DEF ChainReady, EndGet, Building, NoCall, PoolTypeOK
<1>3. \A f \in mine'[t] : \/ f = FlowAt(t) /\ chain'[t][f] = call[t].chain
                          \/ f \in mine[t] /\ chain'[t][f] = chain[t][f]
  BY <1>0, <1>1 DEF ChainReady, PointerTypeOK
<1> QED BY <1>2, <1>3

LEMMA ChainStep ==
  ASSUME TypeOK, WorkInv, MutexDiscipline, ChainInv,
         NEW t \in Threads, Begin(t) \/ Replace(t) \/ Step(t)
  PROVE  ChainInv'
<1>0. PoolTypeOK /\ PointerTypeOK /\ EngineTypeOK
  BY DEF TypeOK
<1>others. \A u \in Threads \ {t} : OwnKept(u) /\ BuildKept(u)
  BY OthersKept
<1>1. CASE Plain(t)
  BY <1>1, <1>others, PlainKept, ChainShrink
<1>2. CASE GetChain(t)
  <2>1. OwnKept(t)
    BY <1>0, <1>2 DEF GetChain, ClearPointer, OwnKept, PointerTypeOK
  <2>2. PICK c \in Chains :
          /\ c \in store \/ c \notin used
          /\ store' = store \ {c}
          /\ used' = used \cup {c}
          /\ call' = [call EXCEPT ![t] = [op |-> "get", chain |-> c, rest |-> ListAt(t)]]
    BY <1>2 DEF GetChain, BeginGet
  <2>3. \A u \in Threads : ~Building(u)
    BY <1>2, ConstantsAssumption DEF GetChain, BeginGet, MutexDiscipline
  <2>4. \A u \in Threads : Building(u)' => u = t /\ call'[u].chain = c
    BY <1>0, <1>others, <2>2, <2>3 DEF BuildKept, PoolTypeOK
  <2>5. \A u \in Threads : OwnKept(u)
    BY <1>others, <2>1
  <2> QED BY <2>2, <2>4, <2>5 DEF ChainInv, OwnKept
<1>3. CASE ChainReady(t)
  <2> DEFINE f0 == FlowAt(t)  c == call[t].chain
  <2>1. Building(t) /\ ~Building(t)' /\ UNCHANGED <<store, used>>
    BY <1>3, ReadyMoves
  <2>2. \A u \in Threads : \A f \in mine'[u] :
          \/ u = t /\ f = f0 /\ chain'[u][f] = c
          \/ f \in mine[u] /\ chain'[u][f] = chain[u][f]
    BY <1>3, <1>others, ReadyMoves DEF OwnKept
  <2> HIDE DEF f0, c
  <2>3. \A u \in Threads : ~Building(u)'
    BY <1>others, <2>1 DEF BuildKept, MutexDiscipline
  <2>4. c \in used \ store
    BY <2>1 DEF ChainInv, c
  <2>5. \A u \in Threads : \A f \in mine[u] : c # chain[u][f]
    BY <2>1 DEF ChainInv, c
  <2> QED BY <2>1, <2>2, <2>3, <2>4, <2>5 DEF ChainInv
<1>4. CASE ChainRefused(t)
  <2>1. OwnKept(t)
    BY <1>4 DEF ChainRefused, OwnKept
  <2>2. Building(t) /\ ~Building(t)'
    BY <1>0, <1>4 DEF ChainRefused, EndUndo, StoreChain, Building, NoCall, PoolTypeOK
  <2>3. store' = store \cup {call[t].chain} /\ used' = used
    BY <1>4 DEF ChainRefused, EndUndo, StoreChain
  <2>4. \A u \in Threads : ~Building(u)'
    BY <1>others, <2>2 DEF BuildKept, MutexDiscipline
  <2>5. \A u \in Threads : OwnKept(u)
    BY <1>others, <2>1
  <2> QED BY <2>2, <2>3, <2>4, <2>5 DEF ChainInv, OwnKept
<1>5. CASE ChainPooled(t)
  <2> DEFINE f0 == FlowAt(t)  c == call[t].chain
  <2>1. /\ call[t].op = "put" /\ call'[t] = NoCall
        /\ store' = store \cup {call[t].chain} /\ used' = used
    BY <1>0, <1>5 DEF ChainPooled, EndPut, StoreChain, PoolTypeOK
  <2>2. f0 \in mine[t] /\ chain[t][f0] = c
    BY <2>1 DEF WorkInv
  <2>3. chain' = chain /\ mine'[t] = mine[t] \ {f0}
    BY <1>0, <1>5 DEF ChainPooled, PointerTypeOK
  <2>4. \A u \in Threads : \A f \in mine'[u] :
          f \in mine[u] /\ chain'[u][f] = chain[u][f] /\ ~(u = t /\ f = f0)
    BY <1>others, <2>3 DEF OwnKept
  <2>5. BuildKept(t)
    BY <2>1 DEF BuildKept, Building, NoCall
  <2> HIDE DEF f0, c
  <2>6. \A u \in Threads : \A f \in mine'[u] : chain[u][f] # c
    BY <2>2, <2>4 DEF ChainInv
  <2>7. \A u \in Threads : Building(u)' =>
          Building(u) /\ call'[u].chain = call[u].chain /\ call[u].chain # c
    BY <1>others, <2>2, <2>5 DEF BuildKept, ChainInv
  <2>8. c \in used
    BY <2>2 DEF ChainInv
  <2>9. store' = store \cup {c}
    BY <2>1 DEF c
  <2> QED BY <2>1, <2>4, <2>6, <2>7, <2>8, <2>9 DEF ChainInv
<1> QED BY <1>1, <1>2, <1>3, <1>4, <1>5 DEF Step, Plain

LEMMA ChainInvariant == Spec => []ChainInv
<1>1. Init => ChainInv
  BY DEF Init, PoolInit, ChainInv, Building, NoCall
<1>2. TypeOK /\ WorkInv /\ MutexDiscipline /\ ChainInv /\ [Next]_vars => ChainInv'
  <2> SUFFICES ASSUME TypeOK, WorkInv, MutexDiscipline, ChainInv, [Next]_vars
               PROVE  ChainInv'
    OBVIOUS
  <2>1. CASE UNCHANGED vars
    BY <2>1, ChainShrink DEF vars, poolVars, engineVars, OwnKept, BuildKept, Building
  <2> QED BY <2>1, ChainStep DEF Next
<1> QED BY <1>1, <1>2, CallTypesCorrect, WorkInvariant, CallsFreeTheMutex, PTL DEF Spec

\* ChainExclusive: no engine refers to a chain of another engine or of the store,
\* although calls that end by an exception leave their chains where they are.
THEOREM CallChainsAreExclusive == Spec => []ChainExclusive
<1>1. MutexDiscipline /\ ChainInv => ChainExclusive
  <2> SUFFICES ASSUME MutexDiscipline, ChainInv, NEW t \in Threads, NEW u \in Threads
               PROVE  /\ t # u => ChainsOf(t) \cap ChainsOf(u) = {}
                      /\ ChainsOf(t) \cap store = {}
                      /\ \A f, g \in mine[t] : chain[t][f] = chain[t][g] => f = g
    BY DEF ChainExclusive
  <2>1. \A v \in Threads : \A c : c \in ChainsOf(v) =>
          \/ \E f \in mine[v] : c = chain[v][f]
          \/ Building(v) /\ c = call[v].chain
    BY DEF ChainsOf
  <2>2. Building(t) /\ Building(u) => t = u
    BY DEF MutexDiscipline
  <2>3. t # u => ChainsOf(t) \cap ChainsOf(u) = {}
    BY <2>1, <2>2 DEF ChainInv
  <2>4. ChainsOf(t) \cap store = {}
    BY <2>1 DEF ChainInv
  <2> QED BY <2>3, <2>4 DEF ChainInv
<1> QED BY <1>1, ChainInvariant, CallsFreeTheMutex, PTL

-----------------------------------------------------------------------------
(* Handler objects.                                                         *)

\* The chains some engine refers to.
Active == UNION {ChainsOf(t) : t \in Threads}

H(c, m) == items[c][m].h

\* No object is in two places of the lists of the pools and the active chains.
PlacesInv ==
  /\ \A k, l \in Slots : pool[k] \cap pool[l] # {} => k = l
  /\ \A c, d \in Active : \A m \in DOMAIN items[c], n \in DOMAIN items[d] :
       H(c, m) = H(d, n) => c = d /\ m = n
  /\ \A c \in Active : \A m \in DOMAIN items[c], k \in Slots : H(c, m) \notin pool[k]

\* Object i is in none of those places.
Nowhere(i) ==
  /\ \A k \in Slots : i \notin pool[k]
  /\ \A c \in Active : \A m \in DOMAIN items[c] : H(c, m) # i

CreatedInv == \A i \in Insts : home[i] = None => Nowhere(i)

ObjectInv == PlacesInv /\ CreatedInv

\* An active chain is one an engine has just taken, or was active before.
LEMMA ActiveStep ==
  ASSUME TypeOK, NEW t \in Threads, Begin(t) \/ Replace(t) \/ Step(t)
  PROVE  \/ Active' \subseteq Active
         \/ GetChain(t) /\ Active' \subseteq Active \cup {call'[t].chain}
<1>0. PoolTypeOK /\ PointerTypeOK /\ EngineTypeOK
  BY DEF TypeOK
<1>1. \A u \in Threads \ {t} : ChainsOf(u)' \subseteq ChainsOf(u)
  BY OthersKept DEF ChainsOf, OwnKept, BuildKept
<1>2. ASSUME OwnKept(t), BuildKept(t) PROVE Active' \subseteq Active
  <2>1. ChainsOf(t)' \subseteq ChainsOf(t)
    BY <1>2 DEF ChainsOf, OwnKept, BuildKept
  <2> QED BY <1>1, <2>1 DEF Active
<1>3. CASE Plain(t)
  BY <1>2, <1>3, PlainKept
<1>4. CASE GetChain(t)
  <2>1. OwnKept(t)
    BY <1>0, <1>4 DEF GetChain, ClearPointer, OwnKept, PointerTypeOK
  <2>2. ChainsOf(t)' \subseteq ChainsOf(t) \cup {call'[t].chain}
    BY <2>1 DEF ChainsOf, OwnKept
  <2> QED BY <1>1, <1>4, <2>2 DEF Active
<1>5. CASE ChainReady(t)
  <2>1. ChainsOf(t)' \subseteq ChainsOf(t)
    BY <1>5, ReadyMoves DEF ChainsOf
  <2> QED BY <1>1, <2>1 DEF Active
<1>6. CASE ChainRefused(t) \/ ChainPooled(t)
  <2>1. OwnKept(t)
    BY <1>0, <1>6 DEF ChainRefused, ChainPooled, OwnKept, PointerTypeOK
  <2>2. BuildKept(t)
    BY <1>0, <1>6 DEF ChainRefused, EndUndo, ChainPooled, EndPut, StoreChain, BuildKept,
       Building, NoCall, PoolTypeOK
  <2> QED BY <1>2, <2>1, <2>2
<1> QED BY <1>3, <1>4, <1>5, <1>6 DEF Step, Plain

\* Objects only leave their places.
LEMMA ObjectsLeave ==
  ASSUME ObjectInv,
         \A k \in Slots : pool'[k] \subseteq pool[k],
         \A i \in Insts : home'[i] = None => home[i] = None,
         \A c \in Active' : \/ items'[c] = <<>>
                            \/ c \in Active /\ items'[c] = items[c]
  PROVE  ObjectInv'
<1>1. \A c \in Active' : \A m \in DOMAIN items'[c] :
        c \in Active /\ m \in DOMAIN items[c] /\ items'[c] = items[c]
  OBVIOUS
<1>2. PlacesInv'
  BY <1>1 DEF ObjectInv, PlacesInv, H
<1>3. CreatedInv'
  BY <1>1 DEF ObjectInv, CreatedInv, Nowhere, H
<1> QED BY <1>2, <1>3 DEF ObjectInv

\* getHandler returned object i: it has left its pool, or is new.
Fetched(i) ==
  /\ \A k \in Slots : pool'[k] \subseteq pool[k] /\ i \notin pool'[k]
  /\ home'[i] # None
  /\ \A j \in Insts : home'[j] = None => home[j] = None
  /\ \A c \in Active : \A m \in DOMAIN items[c] : H(c, m) # i

LEMMA ObtainFetches ==
  ASSUME TypeOK, ObjectInv, NEW t \in Threads, NEW e \in Entries, NEW s \in Sessions,
         NEW i \in Insts, Obtain(t, e, s, i)
  PROVE  Fetched(i)
<1>t. /\ pool \in [Slots -> SUBSET Insts]
      /\ home \in [Insts -> (Scopes \X Libs) \cup {None}]
  BY DEF TypeOK, PoolTypeOK
<1>s. Source(e, s) \in Slots
  BY DEF Source, SlotOf, Slots, Entries
<1>1. CASE TakeIdle(t, e, s, i)
  <2> DEFINE k0 == Source(e, s)
  <2>1. /\ i \in pool[k0] /\ pool' = [pool EXCEPT ![k0] = @ \ {i}] /\ home' = home
    BY <1>1 DEF TakeIdle
  <2> HIDE DEF k0
  <2>2. k0 \in Slots
    BY <1>s DEF k0
  <2>3. \A k \in Slots : pool'[k] \subseteq pool[k] /\ i \notin pool'[k]
    BY <1>t, <2>1, <2>2 DEF ObjectInv, PlacesInv
  <2>4. home[i] # None
    BY <2>1, <2>2 DEF ObjectInv, CreatedInv, Nowhere
  <2>5. \A c \in Active : \A m \in DOMAIN items[c] : H(c, m) # i
    BY <2>1, <2>2 DEF ObjectInv, PlacesInv
  <2> QED BY <2>1, <2>3, <2>4, <2>5 DEF Fetched
<1>2. CASE Create(t, e, s, i)
  <2>1. home[i] = None /\ home' = [home EXCEPT ![i] = <<e.scope, e.lib>>] /\ pool' = pool
    BY <1>2 DEF Create
  <2>2. Nowhere(i)
    BY <2>1 DEF ObjectInv, CreatedInv
  <2>3. <<e.scope, e.lib>> # None
    BY ConstantsAssumption DEF Entries
  <2> QED BY <1>t, <2>1, <2>2, <2>3 DEF Fetched, Nowhere
<1> QED BY <1>1, <1>2 DEF Obtain

\* A fetched object joins the chain d.
LEMMA ObjectJoins ==
  ASSUME TypeOK, ObjectInv, NEW i \in Insts, Fetched(i),
         Active \subseteq Chains, Active' \subseteq Active,
         NEW d \in Chains, NEW e \in Entries,
         items' = [items EXCEPT ![d] = Append(@, [h |-> i, e |-> e])]
  PROVE  ObjectInv'
<1> DEFINE x == [h |-> i, e |-> e]  n == Len(items[d]) + 1
<1>1. items \in [Chains -> Seq(Items)] /\ x.h = i
  BY DEF TypeOK, PoolTypeOK
<1>2. \A c \in Chains : c # d => items'[c] = items[c]
  BY <1>1
<1>3. \A m \in DOMAIN items'[d] :
        \/ m \in DOMAIN items[d] /\ items'[d][m] = items[d][m]
        \/ m = n /\ items'[d][m] = x
  <2> DEFINE s == items[d]
  <2>1. s \in Seq(Items) /\ items'[d] = Append(s, x) /\ x \in Items /\ n = Len(s) + 1
    BY <1>1 DEF Items
  <2> HIDE DEF s, x, n
  <2>2. \A m \in DOMAIN Append(s, x) :
          \/ m \in DOMAIN s /\ Append(s, x)[m] = s[m]
          \/ m = n /\ Append(s, x)[m] = x
    BY <2>1
  <2> QED BY <2>1, <2>2 DEF s
<1> HIDE DEF n, x
<1>w. \A c \in Active' : \A m \in DOMAIN items'[c] :
        /\ c \in Active /\ c \in Chains
        /\ \/ m \in DOMAIN items[c] /\ H(c, m)' = H(c, m)
           \/ c = d /\ m = n /\ H(c, m)' = i
  BY <1>1, <1>2, <1>3 DEF H
<1>4. PlacesInv'
  <2>1. \A k, l \in Slots : pool'[k] \cap pool'[l] # {} => k = l
    BY DEF ObjectInv, PlacesInv, Fetched
  <2>2. \A a, b \in Active' : \A m \in DOMAIN items'[a], o \in DOMAIN items'[b] :
          H(a, m)' = H(b, o)' => a = b /\ m = o
    BY <1>w DEF ObjectInv, PlacesInv, Fetched
  <2>3. \A c \in Active' : \A m \in DOMAIN items'[c], k \in Slots : H(c, m)' \notin pool'[k]
    BY <1>w DEF ObjectInv, PlacesInv, Fetched
  <2> QED BY <2>1, <2>2, <2>3 DEF PlacesInv
<1>5. CreatedInv'
  BY <1>w DEF ObjectInv, CreatedInv, Nowhere, Fetched
<1> QED BY <1>4, <1>5 DEF ObjectInv

\* A chain a thread works on is active.
LEMMA WorkingActive ==
  ASSUME TypeOK, WorkInv, NEW t \in Threads, call[t].op # "none"
  PROVE  call[t].chain \in Active /\ call[t].chain \in Chains
<1>1. call[t].op \in {"get", "undo", "put"} /\ call[t].chain \in Chains
  BY DEF TypeOK, PoolTypeOK, Calls, NoCall
<1>2. call[t].chain \in ChainsOf(t)
  BY <1>1 DEF WorkInv, Building, ChainsOf
<1> QED BY <1>1, <1>2 DEF Active

\* One iteration of the loops that pool the handlers of a chain: its first object
\* goes back to a pool, the others move forward.
LEMMA PutNextObjects ==
  ASSUME TypeOK, TypeOK', WorkInv, ObjectInv,
         NEW t \in Threads, NEW s \in Sessions \cup {Sessionless},
         call[t].op \in {"undo", "put"}, PutNext(t, s),
         Active \subseteq Chains, Active' \subseteq Active
  PROVE  ObjectInv'
<1> DEFINE d == call[t].chain  x == Head(items[d])  i == x.h  k0 == SlotOf(x.e, s)
           off == [c \in Chains |-> IF c = d THEN 1 ELSE 0]
<1>1. /\ items \in [Chains -> Seq(Items)] /\ items' \in [Chains -> Seq(Items)]
      /\ pool \in [Slots -> SUBSET Insts]
  BY DEF TypeOK, PoolTypeOK
<1>2. d \in Chains /\ d \in Active
  BY WorkingActive
<1>3. /\ items[d] # <<>> /\ items' = [items EXCEPT ![d] = Tail(items[d])]
      /\ pool' = [pool EXCEPT ![k0] = @ \cup {i}] /\ UNCHANGED home
  BY DEF PutNext, PutBack
<1>4. x \in Items /\ x = items[d][1] /\ 1 \in DOMAIN items[d] /\ i = H(d, 1)
  BY <1>1, <1>2, <1>3 DEF H
<1>5. i \in Insts /\ x.e \in Entries
  BY <1>4 DEF Items
<1>6. k0 \in Slots
  BY <1>5 DEF SlotOf, Slots, Entries
<1>7. home[i] # None
  BY <1>2, <1>4, <1>5 DEF ObjectInv, CreatedInv, Nowhere
<1>8. \A k \in Slots : i \notin pool[k]
  BY <1>2, <1>4 DEF ObjectInv, PlacesInv
<1>9. off \in [Chains -> {0, 1}]
  OBVIOUS
<1>10. \A c \in Active' : \A m \in DOMAIN items'[c] :
         /\ m \in Nat /\ m + off[c] \in DOMAIN items[c]
         /\ H(c, m)' = H(c, m + off[c]) /\ H(c, m)' # i
  <2> SUFFICES ASSUME NEW c \in Chains, c \in Active, NEW m \in DOMAIN items'[c]
               PROVE  /\ m \in Nat /\ m + off[c] \in DOMAIN items[c]
                      /\ H(c, m)' = H(c, m + off[c]) /\ H(c, m)' # i
    OBVIOUS
  <2>1. CASE c = d
    <3> DEFINE q == items[d]
    <3>1. q \in Seq(Items) /\ q # <<>> /\ items'[c] = Tail(q) /\ off[c] = 1
      BY <1>1, <1>2, <1>3, <2>1
    <3>2. m \in DOMAIN Tail(q)
      BY <3>1
    <3> HIDE DEF q
    <3>3. m \in Nat /\ m # 0 /\ m + 1 \in DOMAIN q /\ Tail(q)[m] = q[m + 1]
      BY <3>1, <3>2
    <3>4. H(c, m)' = H(c, m + 1) /\ m + 1 \in DOMAIN items[c]
      BY <2>1, <3>1, <3>3 DEF H, q
    <3>5. m + 1 # 1
      BY <3>3
    <3>6. H(c, m + 1) # i
      BY <1>2, <1>4, <2>1, <3>4, <3>5 DEF ObjectInv, PlacesInv
    <3> QED BY <3>1, <3>3, <3>4, <3>6
  <2>2. CASE c # d
    <3>1. items'[c] = items[c] /\ off[c] = 0
      BY <1>1, <1>3, <2>2
    <3>2. items[c] \in Seq(Items)
      BY <1>1
    <3>3. m \in Nat /\ m + 0 = m /\ m \in DOMAIN items[c]
      BY <3>1, <3>2
    <3>4. H(c, m)' = H(c, m)
      BY <3>1 DEF H
    <3>5. H(c, m) # i
      BY <1>2, <1>4, <2>2, <3>3 DEF ObjectInv, PlacesInv
    <3> QED BY <3>1, <3>3, <3>4, <3>5
  <2> QED BY <2>1, <2>2
<1> HIDE DEF d, i, k0, off, x
<1>11. \A k \in Slots : pool'[k] = pool[k] \/ (k = k0 /\ pool'[k] = pool[k] \cup {i})
  BY <1>1, <1>3
<1>12. PlacesInv'
  <2>1. \A k, l \in Slots : pool'[k] \cap pool'[l] # {} => k = l
    BY <1>8, <1>11 DEF ObjectInv, PlacesInv
  <2>2. \A a, b \in Active' : \A m \in DOMAIN items'[a], o \in DOMAIN items'[b] :
          H(a, m)' = H(b, o)' => a = b /\ m = o
    <3> TAKE a, b \in Active'
    <3> TAKE m \in DOMAIN items'[a], o \in DOMAIN items'[b]
    <3> HAVE H(a, m)' = H(b, o)'
    <3>1. /\ a \in Active /\ b \in Active /\ m \in Nat /\ o \in Nat
          /\ m + off[a] \in DOMAIN items[a] /\ H(a, m)' = H(a, m + off[a])
          /\ o + off[b] \in DOMAIN items[b] /\ H(b, o)' = H(b, o + off[b])
      BY <1>10
    <3>2. a = b /\ m + off[a] = o + off[b]
      BY <3>1 DEF ObjectInv, PlacesInv
    <3>3. off[a] \in {0, 1}
      BY <1>9, <3>1
    <3> QED BY <3>1, <3>2, <3>3
  <2>3. \A c \in Active' : \A m \in DOMAIN items'[c], k \in Slots : H(c, m)' \notin pool'[k]
    BY <1>10, <1>11 DEF ObjectInv, PlacesInv
  <2> QED BY <2>1, <2>2, <2>3 DEF PlacesInv
<1>13. CreatedInv'
  <2> SUFFICES ASSUME NEW j \in Insts, home[j] = None
               PROVE  Nowhere(j)'
    BY <1>3 DEF CreatedInv
  <2>1. j # i /\ Nowhere(j)
    BY <1>7 DEF ObjectInv, CreatedInv
  <2>2. \A k \in Slots : j \notin pool'[k]
    BY <1>11, <2>1 DEF Nowhere
  <2>3. \A c \in Active' : \A m \in DOMAIN items'[c] : H(c, m)' # j
    BY <1>10, <2>1 DEF Nowhere
  <2> QED BY <2>2, <2>3 DEF Nowhere
<1> QED BY <1>12, <1>13 DEF ObjectInv

\* The steps that touch no object.
LEMMA ObjectFrame ==
  ASSUME ObjectInv, UNCHANGED <<pool, home, items>>, Active' \subseteq Active
  PROVE  ObjectInv'
  BY ObjectsLeave

LEMMA ObjectStep ==
  ASSUME TypeOK, TypeOK', WorkInv, ChainInv, ObjectInv,
         NEW t \in Threads, Begin(t) \/ Replace(t) \/ Step(t)
  PROVE  ObjectInv'
<1>t. /\ items \in [Chains -> Seq(Items)] /\ call \in [Threads -> Calls]
      /\ used \subseteq Chains /\ EngineTypeOK
  BY DEF TypeOK, PoolTypeOK
<1>c. Active \subseteq Chains /\ Active \subseteq used \ store
  BY <1>t DEF ChainInv, Active, ChainsOf
<1>a. ASSUME ~GetChain(t) PROVE Active' \subseteq Active
  BY <1>a, ActiveStep
<1>f. ASSUME ~GetChain(t), UNCHANGED <<pool, home, items>>
      PROVE  ObjectInv'
  BY <1>a, <1>f, ObjectFrame
<1>1. CASE GetChain(t)
  <2>1. PICK c \in Chains :
          /\ c \in store \/ c \notin used
          /\ items' = [items EXCEPT ![c] = <<>>]
          /\ call' = [call EXCEPT ![t] = [op |-> "get", chain |-> c, rest |-> ListAt(t)]]
    BY <1>1 DEF GetChain, BeginGet
  <2>2. UNCHANGED <<pool, home>>
    BY <1>1 DEF GetChain, BeginGet
  <2>3. call'[t].chain = c
    BY <1>t, <2>1
  <2>4. Active' \subseteq Active \cup {c}
    BY <2>3, ActiveStep
  <2>5. \A d \in Active' : items'[d] = <<>> \/ (d \in Active /\ items'[d] = items[d])
    BY <1>t, <1>c, <2>1, <2>4
  <2> QED BY <2>2, <2>5, ObjectsLeave
<1>2. CASE FillChain(t) /\ ~GetChain(t)
  <2>1. Session(t) \in Sessions
    BY <1>t, <1>2, CallTypes DEF FillChain
  <2>2. ASSUME Getting(t) PROVE Current(t) \in Entries /\ call[t].chain \in Chains
    <3>1. call[t] \in [op : {"get", "undo", "put"}, chain : Chains, rest : Seq(Entries)]
      BY <1>t, <2>2 DEF Getting, Calls, NoCall
    <3> QED BY <2>2, <3>1 DEF Getting, Current
  <2>3. CASE AddHandler(t, Session(t))
    <3>1. PICK i \in Insts :
            /\ Obtain(t, Current(t), Session(t), i)
            /\ items' = [items EXCEPT ![call[t].chain] = Append(@, [h |-> i, e |-> Current(t)])]
      BY <2>3 DEF AddHandler
    <3>2. Fetched(i)
      BY <2>1, <2>2, <2>3, <3>1, ObtainFetches DEF AddHandler
    <3> QED BY <1>2, <1>a, <1>c, <2>2, <2>3, <3>1, <3>2, ObjectJoins DEF AddHandler
  <2>4. CASE DropCHandler(t, Session(t)) \/ WrongType(t, Session(t))
    <3>1. PICK i \in Insts : Obtain(t, Current(t), Session(t), i)
      BY <2>4 DEF DropCHandler, WrongType
    <3>2. Getting(t) /\ UNCHANGED items
      BY <2>4 DEF DropCHandler, WrongType
    <3>3. Fetched(i)
      BY <2>1, <2>2, <3>1, <3>2, ObtainFetches
    <3> QED BY <1>2, <1>a, <3>2, <3>3, ObjectsLeave DEF Fetched
  <2>5. CASE UnlockForCreate(t, Session(t))
    BY <1>2, <1>f, <2>5 DEF UnlockForCreate, Unlock
  <2>6. CASE UndoNext(t)
    BY <1>2, <1>a, <1>c, <2>6, PutNextObjects DEF UndoNext
  <2> QED BY <1>2, <2>3, <2>4, <2>5, <2>6 DEF FillChain
<1>3. CASE PoolChain(t)
  <2>1. phase[t] = "release" /\ ~GetChain(t)
    BY <1>3 DEF PoolChain, GetChain
  <2>2. CASE BeginPut(t, chain[t][FlowAt(t)])
    BY <1>f, <2>1, <2>2 DEF BeginPut
  <2>3. CASE PoolNext(t, Session(t))
    <3>1. Session(t) \in Sessions
      BY <1>t, <2>1, CallTypes
    <3> QED BY <1>a, <1>c, <2>1, <2>3, <3>1, PutNextObjects DEF PoolNext
  <2> QED BY <1>3, <2>2, <2>3 DEF PoolChain
<1>4. CASE \/ Begin(t) \/ Replace(t) \/ NoHandlers(t) \/ ChainReady(t) \/ ChainThrows(t)
           \/ ChainRefused(t) \/ RequestStage(t) \/ RequestFails(t) \/ HandlerThrows(t)
           \/ FaultCrashes(t) \/ Exchange(t) \/ ExchangeThrows(t) \/ ResponseStage(t)
           \/ SkipRelease(t) \/ ChainPooled(t) \/ UseStale(t)
  <2>1. UNCHANGED <<pool, home, items>>
    BY <1>4 DEF Begin, Replace, NoHandlers, ChainReady, EndGet, ChainThrows, GetBeingUsed,
       GetCreateFails, ThrowBeingUsed, ThrowCreate, AbandonGet, ChainRefused, EndUndo,
       StoreChain, RequestStage, RequestFails, HandlerThrows, FaultCrashes, Exchange,
       ExchangeThrows, ResponseStage, SkipRelease, ChainPooled, EndPut, UseStale, poolVars
  <2> QED BY <1>1, <1>f, <2>1
<1> QED BY <1>1, <1>2, <1>3, <1>4 DEF Step

LEMMA ObjectInvariant == Spec => []ObjectInv
<1>1. Init => ObjectInv
  <2> SUFFICES ASSUME Init PROVE ObjectInv
    OBVIOUS
  <2>1. Active = {}
    BY DEF Init, PoolInit, Building, NoCall, Active, ChainsOf
  <2>2. \A k \in Slots : pool[k] = {}
    BY DEF Init, PoolInit
  <2> QED BY <2>1, <2>2 DEF ObjectInv, PlacesInv, CreatedInv, Nowhere
<1>2. TypeOK /\ TypeOK' /\ WorkInv /\ ChainInv /\ ObjectInv /\ [Next]_vars => ObjectInv'
  <2> SUFFICES ASSUME TypeOK, TypeOK', WorkInv, ChainInv, ObjectInv, [Next]_vars
               PROVE  ObjectInv'
    OBVIOUS
  <2>1. CASE UNCHANGED vars
    BY <2>1, ObjectFrame DEF vars, poolVars, engineVars, Active, ChainsOf, Building
  <2> QED BY <2>1, ObjectStep DEF Next
<1> QED BY <1>1, <1>2, CallTypesCorrect, WorkInvariant, ChainInvariant, PTL DEF Spec

\* ExclusiveUse: the pools lend a handler object to one engine at a time, through
\* every way a call of the client ends.
THEOREM CallObjectsAreExclusive == Spec => []ExclusiveUse
<1>1. ChainExclusive /\ ObjectInv => ExclusiveUse
  <2> SUFFICES ASSUME ChainExclusive, PlacesInv, NEW t \in Threads
               PROVE  /\ HandlersOf(t) \cap Pooled = {}
                      /\ \A u \in Threads \ {t} : HandlersOf(t) \cap HandlersOf(u) = {}
    BY DEF ExclusiveUse, ObjectInv
  <2>1. \A u \in Threads : \A i \in HandlersOf(u) :
          \E c \in ChainsOf(u) : c \in Active /\ \E m \in DOMAIN items[c] : i = H(c, m)
    BY DEF HandlersOf, HandlersIn, H, Active
  <2>2. HandlersOf(t) \cap Pooled = {}
    BY <2>1 DEF PlacesInv, Pooled
  <2>3. ASSUME NEW u \in Threads \ {t}, NEW i \in HandlersOf(t), i \in HandlersOf(u)
        PROVE  FALSE
    <3>1. PICK c \in ChainsOf(t) : c \in Active /\ \E m \in DOMAIN items[c] : i = H(c, m)
      BY <2>1
    <3>2. PICK d \in ChainsOf(u) : d \in Active /\ \E m \in DOMAIN items[d] : i = H(d, m)
      BY <2>1, <2>3
    <3>3. c = d
      BY <3>1, <3>2 DEF PlacesInv
    <3> QED BY <3>1, <3>2, <3>3 DEF ChainExclusive
  <2> QED BY <2>2, <2>3
<1> QED BY <1>1, CallChainsAreExclusive, ObjectInvariant, PTL

-----------------------------------------------------------------------------
(* Objects that drop out of sight.                                          *)

\* Object i is in a pool or in a chain of an engine's own.
Placed(i) ==
  \/ \E k \in Slots : i \in pool[k]
  \/ \E c \in Active : \E m \in DOMAIN items[c] : i = H(c, m)

LEMMA LostPlaced == Lost = {i \in Insts : home[i] # None /\ ~Placed(i)}
  BY DEF Lost, Placed, Pooled, HandlersOf, HandlersIn, Active, H

\* No object is lost while those that are created stay in a place.
LEMMA LostFrame ==
  ASSUME \A i \in Insts : Placed(i) => Placed(i)',
         \A i \in Insts : home'[i] # None => home[i] # None \/ Placed(i)'
  PROVE  Lost' \subseteq Lost
<1>1. Lost' = {i \in Insts : home'[i] # None /\ ~Placed(i)'}
  BY DEF Lost, Placed, Pooled, HandlersOf, HandlersIn, Active, H
<1> QED BY <1>1, LostPlaced

\* The places keep what they hold; only empty chains go.
LEMMA LostKept ==
  ASSUME \A k \in Slots : pool[k] \subseteq pool'[k],
         \A c \in Active : items[c] # <<>> => c \in Active' /\ items'[c] = items[c],
         items \in [Chains -> Seq(Items)], Active \subseteq Chains, UNCHANGED home
  PROVE  Lost' \subseteq Lost
<1>1. \A c \in Active : \A m \in DOMAIN items[c] :
        c \in Active' /\ m \in DOMAIN items'[c] /\ H(c, m)' = H(c, m)
  <2> SUFFICES ASSUME NEW c \in Active, NEW m \in DOMAIN items[c] PROVE items[c] # <<>>
    BY DEF H
  <2> QED OBVIOUS
<1>2. \A i \in Insts : Placed(i) => Placed(i)'
  BY <1>1 DEF Placed
<1> QED BY <1>2, LostFrame

\* The chains of engine t stay its own.
LEMMA ActiveKept ==
  ASSUME TypeOK, NEW t \in Threads, Begin(t) \/ Replace(t) \/ Step(t),
         NEW keep, \A c \in ChainsOf(t) : c \in keep => c \in ChainsOf(t)'
  PROVE  \A c \in Active : c \in keep => c \in Active'
<1>1. \A u \in Threads \ {t} : ChainsOf(u)' = ChainsOf(u)
  BY OwnSteps DEF OwnStep, ChainsOf, Building
<1> QED BY <1>1 DEF Active

\* A handler that is fetched joins the chain, one that is put back joins a pool.
LEMMA FillLoss ==
  ASSUME TypeOK, WorkInv, Active \subseteq Chains, NEW t \in Threads,
         FillChain(t) \/ PoolChain(t),
         ~(Getting(t) /\ KindOf[Current(t).lib] # "handler")
  PROVE  Lost' \subseteq Lost
<1>0. /\ PoolTypeOK /\ EngineTypeOK /\ items \in [Chains -> Seq(Items)]
      /\ pool \in [Slots -> SUBSET Insts] /\ UNCHANGED <<chain, mine>>
      /\ home \in [Insts -> (Scopes \X Libs) \cup {None}]
  BY DEF TypeOK, PoolTypeOK, FillChain, PoolChain, engineVars
<1>s. Session(t) \in Sessions
  BY <1>0, CallTypes DEF FillChain, PoolChain
<1>1. ASSUME call'[t].op \in {"get", "undo"} <=> call[t].op \in {"get", "undo"},
             Building(t) => call'[t].chain = call[t].chain
      PROVE  Active \subseteq Active'
  <2>1. ChainsOf(t)' = ChainsOf(t)
    BY <1>0, <1>1 DEF ChainsOf, Building
  <2> QED BY <2>1, ActiveKept DEF Step
<1>2. ASSUME UNCHANGED <<pool, home, items>>, Active \subseteq Active'
      PROVE  Lost' \subseteq Lost
  BY <1>0, <1>2, LostKept
<1>3. CASE AddHandler(t, Session(t))
  <2> DEFINE d == call[t].chain  e == Current(t)
  <2>1. PICK i \in Insts :
          /\ Obtain(t, e, Session(t), i)
          /\ items' = [items EXCEPT ![d] = Append(@, [h |-> i, e |-> e])]
    BY <1>3 DEF AddHandler
  <2>2. /\ call[t].op = "get" /\ call[t].rest # <<>>
        /\ call[t] \in [op : {"get", "undo", "put"}, chain : Chains, rest : Seq(Entries)]
    BY <1>0, <1>3 DEF AddHandler, Getting, PoolTypeOK, Calls, NoCall
  <2>3. d \in Chains /\ e \in Entries /\ d \in Active
    BY <2>2, WorkingActive DEF Current
  <2>4. call'[t].op = "get" /\ call'[t].chain = d
    BY <1>0, <1>3, <2>2 DEF AddHandler, PoolTypeOK
  <2>5. Active \subseteq Active'
    BY <1>1, <2>2, <2>4
  <2>6. \A c \in Chains : \A m \in DOMAIN items[c] :
          m \in DOMAIN items'[c] /\ H(c, m)' = H(c, m)
    <3> SUFFICES ASSUME NEW c \in Chains, NEW m \in DOMAIN items[c]
                 PROVE  m \in DOMAIN items'[c] /\ items'[c][m] = items[c][m]
      BY DEF H
    <3>1. items[c] \in Seq(Items) /\ [h |-> i, e |-> e] \in Items
      BY <1>0, <2>3 DEF Items
    <3>2. items'[c] = items[c] \/ items'[c] = Append(items[c], [h |-> i, e |-> e])
      BY <1>0, <2>1, <2>3
    <3> QED BY <3>1, <3>2
  <2>7. \E m \in DOMAIN items'[d] : i = items'[d][m].h
    <3> DEFINE s == items[d]  x == [h |-> i, e |-> e]
    <3>1. s \in Seq(Items) /\ x \in Items /\ x.h = i
      BY <1>0, <2>3 DEF Items
    <3>2. items' = [items EXCEPT ![d] = Append(s, x)]
      BY <2>1
    <3> HIDE DEF s, x, d, e
    <3>3. items'[d] = Append(s, x)
      BY <1>0, <2>3, <3>2
    <3>4. Len(s) + 1 \in DOMAIN Append(s, x) /\ Append(s, x)[Len(s) + 1] = x
      BY <3>1
    <3> QED BY <3>1, <3>3, <3>4
  <2> HIDE DEF d, e
  <2>8. Placed(i)'
    BY <2>3, <2>5, <2>7 DEF Placed, H
  <2>9. /\ \A j \in Insts : j # i => home'[j] = home[j]
        /\ \A k \in Slots : \A j \in pool[k] : j = i \/ j \in pool'[k]
    <3>1. CASE TakeIdle(t, e, Session(t), i)
      BY <1>0, <3>1 DEF TakeIdle
    <3>2. CASE Create(t, e, Session(t), i)
      BY <1>0, <3>2 DEF Create
    <3> QED BY <2>1, <3>1, <3>2 DEF Obtain
  <2>10. \A j \in Insts : Placed(j) => Placed(j)'
    <3> SUFFICES ASSUME NEW j \in Insts, j # i, Placed(j) PROVE Placed(j)'
      BY <2>8
    <3> QED BY <2>5, <2>6, <2>9 DEF Placed
  <2> QED BY <2>8, <2>9, <2>10, LostFrame
<1>4. CASE UnlockForCreate(t, Session(t))
  BY <1>1, <1>2, <1>4 DEF UnlockForCreate, Unlock
<1>5. CASE BeginPut(t, chain[t][FlowAt(t)])
  <2>1. call[t] = NoCall /\ call'[t].op = "put" /\ UNCHANGED <<pool, home, items>>
    BY <1>0, <1>5 DEF BeginPut, PoolTypeOK
  <2> QED BY <1>1, <1>2, <2>1 DEF NoCall, Building
<1>6. ASSUME NEW s \in Sessions \cup {Sessionless}, PutNext(t, s),
             call[t].op \in {"undo", "put"}
      PROVE  Lost' \subseteq Lost
  <2> DEFINE d == call[t].chain  q == items[d]  x == Head(q)  i == x.h
             k0 == SlotOf(x.e, s)
  <2>1. /\ q # <<>> /\ items' = [items EXCEPT ![d] = Tail(q)]
        /\ pool' = [pool EXCEPT ![k0] = @ \cup {i}] /\ UNCHANGED <<home, call>>
    BY <1>6 DEF PutNext, PutBack
  <2>2. d \in Chains
    BY <1>6, WorkingActive
  <2>3. q \in Seq(Items) /\ x \in Items /\ x = q[1]
    BY <1>0, <2>1, <2>2
  <2>4. i \in Insts /\ k0 \in Slots
    BY <2>3 DEF Items, SlotOf, Slots, Entries
  <2>5. Active \subseteq Active'
    BY <1>1, <2>1
  <2>6. \A c \in Chains : \A m \in DOMAIN items[c] :
          \/ H(c, m) = i
          \/ m \in DOMAIN items'[c] /\ H(c, m)' = H(c, m)
          \/ m - 1 \in DOMAIN items'[c] /\ H(c, m - 1)' = H(c, m)
    <3> SUFFICES ASSUME NEW c \in Chains, NEW m \in DOMAIN items[c], H(c, m) # i
                 PROVE  \/ m \in DOMAIN items'[c] /\ items'[c][m] = items[c][m]
                        \/ m - 1 \in DOMAIN items'[c] /\ items'[c][m - 1] = items[c][m]
      BY DEF H
    <3>1. CASE c = d
      <4>1. m # 1 /\ items'[c] = Tail(q) /\ m \in DOMAIN q
        BY <1>0, <2>1, <2>2, <2>3, <3>1 DEF H
      <4> HIDE DEF q
      <4>2. m - 1 \in DOMAIN Tail(q) /\ Tail(q)[m - 1] = q[m]
        BY <2>1, <2>3, <4>1
      <4> QED BY <3>1, <4>1, <4>2 DEF q
    <3>2. CASE c # d
      BY <1>0, <2>1, <3>2
    <3> QED BY <3>1, <3>2
  <2>7. \A k \in Slots : pool[k] \subseteq pool'[k]
    BY <1>0, <2>1
  <2>8. i \in pool'[k0]
    BY <1>0, <2>1, <2>4
  <2> HIDE DEF d, q, x, i, k0
  <2>9. \A j \in Insts : Placed(j) => Placed(j)'
    BY <2>4, <2>5, <2>6, <2>7, <2>8 DEF Placed
  <2> QED BY <2>1, <2>9, LostFrame
<1>7. CASE UndoNext(t) \/ PoolNext(t, Session(t))
  BY <1>6, <1>7, <1>s DEF UndoNext, PoolNext
<1> QED
  BY <1>3, <1>4, <1>5, <1>7, ConstantsAssumption
  DEF FillChain, PoolChain, DropCHandler, WrongType

\* The other steps: an object is lost only where LossOnlyWhere says.
LEMMA LossStep ==
  ASSUME TypeOK, WorkInv, ChainInv, NEW t \in Threads, Begin(t) \/ Replace(t) \/ Step(t)
  PROVE  \/ Lost' \subseteq Lost
         \/ phase[t] = "flows" /\ phase'[t] = "idle"
         \/ phase[t] = "flows" /\ FlowAt(t) \in mine[t]
         \/ Getting(t) /\ KindOf[Current(t).lib] # "handler"
         \/ phase[t] = "idle" /\ chain'[t] = Null
<1>0. /\ PoolTypeOK /\ PointerTypeOK /\ EngineTypeOK /\ items \in [Chains -> Seq(Items)]
      /\ chain \in [Threads -> [Flows -> Chains \cup {None}]]
      /\ mine \in [Threads -> SUBSET Flows] /\ call \in [Threads -> Calls]
  BY DEF TypeOK, PoolTypeOK, PointerTypeOK
<1>c. Active \subseteq Chains /\ Active \subseteq used \ store
  BY <1>0 DEF PoolTypeOK, ChainInv, Active, ChainsOf
<1>k. ASSUME UNCHANGED <<pool, home>>,
             \A c \in Active : items[c] # <<>> => items'[c] = items[c],
             \A c \in ChainsOf(t) : items[c] # <<>> => c \in ChainsOf(t)'
      PROVE  Lost' \subseteq Lost
  <2>1. \A c \in ChainsOf(t) : c \in {d \in Active : items[d] # <<>>} => c \in ChainsOf(t)'
    BY <1>k
  <2>2. \A c \in Active : c \in {d \in Active : items[d] # <<>>} => c \in Active'
    BY <2>1, ActiveKept
  <2> QED BY <1>0, <1>c, <1>k, <2>2, LostKept
<1>m. ASSUME phase[t] = "flows", FlowAt(t) \notin mine[t], ClearPointer(t)
      PROVE  mine'[t] = mine[t] /\ \A f \in mine[t] : chain'[t][f] = chain[t][f]
  BY <1>0, <1>m DEF ClearPointer
<1>1. CASE Replace(t)
  BY <1>0, <1>1 DEF Replace
<1>2. CASE ChainThrows(t)
  BY <1>0, <1>2 DEF ChainThrows, Leave, Goto, GotoAt, EngineTypeOK
<1>3. CASE FillChain(t) \/ PoolChain(t)
  BY <1>3, <1>c, FillLoss
<1>4. CASE NoHandlers(t)
  <2>1. SUFFICES ASSUME FlowAt(t) \notin mine[t] PROVE Lost' \subseteq Lost
    BY <1>4 DEF NoHandlers
  <2>2. ChainsOf(t)' = ChainsOf(t)
    BY <1>4, <1>m, <2>1 DEF NoHandlers, ChainsOf, Building, poolVars
  <2> QED BY <1>4, <1>k, <2>2 DEF NoHandlers, poolVars
<1>5. CASE GetChain(t)
  <2>1. SUFFICES ASSUME FlowAt(t) \notin mine[t] PROVE Lost' \subseteq Lost
    BY <1>5 DEF GetChain
  <2>2. PICK c \in Chains :
          (c \in store \/ c \notin used) /\ items' = [items EXCEPT ![c] = <<>>]
    BY <1>5 DEF GetChain, BeginGet
  <2>3. \A d \in Active : items'[d] = items[d]
    BY <1>0, <1>c, <2>2
  <2>4. ~Building(t)
    BY <1>5 DEF GetChain, BeginGet, Building, NoCall
  <2>5. ChainsOf(t) \subseteq ChainsOf(t)'
    BY <1>5, <1>m, <2>1, <2>4 DEF GetChain, ChainsOf
  <2> QED BY <1>5, <1>k, <2>3, <2>5 DEF GetChain, BeginGet
<1>6. CASE ChainReady(t)
  <2>1. Building(t) /\ UNCHANGED <<pool, home, items>>
    BY <1>6 DEF ChainReady, EndGet, Building
  <2>2. FlowAt(t) \notin mine[t] /\ FlowAt(t) \in Flows
    BY <1>0, <1>6, <2>1, FlowType DEF WorkInv, ChainReady
  <2>3. /\ mine'[t] = mine[t] \cup {FlowAt(t)} /\ chain'[t][FlowAt(t)] = call[t].chain
        /\ \A f \in mine[t] : chain'[t][f] = chain[t][f]
    BY <1>0, <1>6, <2>2 DEF ChainReady
  <2>4. ChainsOf(t) \subseteq ChainsOf(t)'
    BY <2>3 DEF ChainsOf
  <2> QED BY <1>k, <2>1, <2>4
<1>7. CASE ChainRefused(t)
  <2>1. items[call[t].chain] = <<>> /\ UNCHANGED <<pool, home, items, chain, mine>>
    BY <1>7 DEF ChainRefused, EndUndo, StoreChain
  <2>2. \A c \in ChainsOf(t) : items[c] # <<>> => c \in ChainsOf(t)'
    BY <2>1 DEF ChainsOf
  <2> QED BY <1>k, <2>1, <2>2
<1>8. CASE ChainPooled(t)
  <2>1. /\ call[t].op = "put" /\ items[call[t].chain] = <<>>
        /\ UNCHANGED <<pool, home, items, chain>> /\ mine'[t] = mine[t] \ {FlowAt(t)}
    BY <1>0, <1>8 DEF ChainPooled, EndPut, StoreChain
  <2>2. chain[t][FlowAt(t)] = call[t].chain /\ ~Building(t)
    BY <2>1 DEF WorkInv, Building
  <2>3. \A c \in ChainsOf(t) : items[c] # <<>> => c \in ChainsOf(t)'
    BY <2>1, <2>2 DEF ChainsOf
  <2> QED BY <1>k, <2>1, <2>3
<1>9. CASE \/ Begin(t) \/ RequestStage(t) \/ RequestFails(t) \/ HandlerThrows(t)
           \/ FaultCrashes(t) \/ Exchange(t) \/ ExchangeThrows(t) \/ ResponseStage(t)
           \/ SkipRelease(t) \/ UseStale(t)
  <2>1. UNCHANGED <<pool, home, items, chain, mine, call>>
    BY <1>9 DEF Begin, RequestStage, RequestFails, HandlerThrows, FaultCrashes, Exchange,
       ExchangeThrows, ResponseStage, SkipRelease, UseStale, poolVars
  <2>2. ChainsOf(t)' = ChainsOf(t)
    BY <2>1 DEF ChainsOf, Building
  <2> QED BY <1>k, <2>1, <2>2
<1> QED BY <1>1, <1>2, <1>3, <1>4, <1>5, <1>6, <1>7, <1>8, <1>9 DEF Step

\* LossOnlyWhere: a handler object of the client drops out of sight only when
\* getHandlerChain throws or meets no handler, when a chain left behind by an
\* earlier call is replaced, or when the Call is deleted.
THEOREM CallLossesAreKnown == Spec => LossOnlyWhere
<1>1. TypeOK /\ WorkInv /\ ChainInv /\ [Next]_vars =>
        [Lost' \subseteq Lost \/
         \E t \in Threads :
           \/ phase[t] = "flows" /\ phase'[t] = "idle"
           \/ phase[t] = "flows" /\ FlowAt(t) \in mine[t]
           \/ Getting(t) /\ KindOf[Current(t).lib] # "handler"
           \/ phase[t] = "idle" /\ chain'[t] = Null]_vars
  <2> SUFFICES ASSUME TypeOK, WorkInv, ChainInv, Next
               PROVE  Lost' \subseteq Lost \/
                      \E t \in Threads :
                        \/ phase[t] = "flows" /\ phase'[t] = "idle"
                        \/ phase[t] = "flows" /\ FlowAt(t) \in mine[t]
                        \/ Getting(t) /\ KindOf[Current(t).lib] # "handler"
                        \/ phase[t] = "idle" /\ chain'[t] = Null
    OBVIOUS
  <2> QED BY LossStep DEF Next
<1> QED BY <1>1, CallTypesCorrect, WorkInvariant, ChainInvariant, PTL DEF Spec, LossOnlyWhere
=============================================================================
