----------------------- MODULE ServerAxisEngine_proofs -----------------------
(***************************************************************************)
(* Safety of ServerAxisEngine for any number of threads, handlers, chains, *)
(* libraries, sessions and services.                                       *)
(***************************************************************************)
EXTENDS ServerAxisEngine, HandlerPool_proofs

-----------------------------------------------------------------------------
(* Type correctness of the composed specification.                          *)

\* The tables of invoke and process name flows at the positions they reach.
LEMMA Orders ==
  /\ \A n \in 1..6 : GetOrder[n] \in Flows
  /\ \A n \in 1..2 : ReleaseOrder[n] \in Flows
  BY DEF GetOrder, ReleaseOrder, Flows

\* A request is a record, NoRequest is not.
LEMMA RequestTypes ==
  ASSUME TypeOK, NEW t \in Threads, pc[t] # "idle"
  PROVE  /\ req[t] \in Requests
         /\ req[t].svc \in Services /\ req[t].session \in Sessions
         /\ req[t].ws \in Insts \cup {None}
         /\ req[t].chain \in [Flows -> Chains \cup {None}]
         /\ HeaderAfter(t) \subseteq BOOLEAN
         /\ Entry(t) \in Entries /\ Session(t) \in Sessions
  BY EngineAssumption DEF TypeOK, EngineTypeOK, Requests, NoRequest, Entry, Session,
     HeaderAfter

\* A move of one thread to position n of a phase, with request r.
LEMMA MoveType ==
  ASSUME TypeOK, NEW t \in Threads, NEW where \in Phases, NEW n \in 1..7,
         NEW r \in Requests \cup {NoRequest},
         pc' = [pc EXCEPT ![t] = where], at' = [at EXCEPT ![t] = n],
         req' = [req EXCEPT ![t] = r],
         n <= Last(where), r = NoRequest <=> where = "idle",
         accepted' \in Nat, crashed' \in BOOLEAN
  PROVE  EngineTypeOK'
<1>1. \A u \in Threads : /\ req'[u] = NoRequest <=> pc'[u] = "idle"
                         /\ at'[u] <= Last(pc'[u])
  BY DEF TypeOK, EngineTypeOK
<1> QED
  BY <1>1 DEF TypeOK, EngineTypeOK

\* A move of one thread to the start of another phase of its request.
LEMMA GotoType ==
  ASSUME TypeOK, NEW t \in Threads, NEW where \in Phases \ {"idle"},
         NEW r \in Requests, Goto(t, where), req' = [req EXCEPT ![t] = r],
         UNCHANGED <<accepted, crashed>>
  PROVE  EngineTypeOK'
<1>1. pc' = [pc EXCEPT ![t] = where] /\ at' = [at EXCEPT ![t] = 1]
  BY DEF Goto
<1>2. where # "idle" /\ 1 \in 1..7 /\ 1 <= Last(where) /\ r # NoRequest
  BY NoRequestAssumption DEF Last
<1>3. accepted' \in Nat /\ crashed' \in BOOLEAN
  BY DEF TypeOK, EngineTypeOK
<1> QED BY <1>1, <1>2, <1>3, MoveType

\* The request after an error, or after a stage of invoke, is a request.
LEMMA RequestAfter ==
  ASSUME TypeOK, NEW t \in Threads, pc[t] # "idle", NEW why \in Faults,
         NEW b \in HeaderAfter(t)
  PROVE  /\ [req[t] EXCEPT !.fault = why, !.header = b] \in Requests
         /\ [req[t] EXCEPT !.header = b] \in Requests
<1>1. req[t] \in Requests /\ b \in BOOLEAN
  BY RequestTypes
<1> QED BY <1>1 DEF Requests

\* An error leads to the fault phase.
LEMMA FailType ==
  ASSUME TypeOK, NEW t \in Threads, pc[t] # "idle", NEW why \in Faults,
         Fail(t, why), UNCHANGED <<accepted, crashed>>
  PROVE  EngineTypeOK'
<1>1. PICK b \in HeaderAfter(t) :
        req' = [req EXCEPT ![t] = [req[t] EXCEPT !.fault = why, !.header = b]]
  BY DEF Fail, TypeOK, EngineTypeOK
<1>2. Goto(t, "fault") /\ "fault" \in Phases \ {"idle"}
  BY DEF Fail, Phases
<1>3. [req[t] EXCEPT !.fault = why, !.header = b] \in Requests
  BY RequestAfter
<1> QED BY <1>1, <1>2, <1>3, GotoType

\* A success leads to the next stage or the next phase.
LEMMA AdvanceType ==
  ASSUME TypeOK, NEW t \in Threads, pc[t] # "idle",
         NEW phase \in Phases \ {"idle"}, NEW r \in Requests,
         Advance(t, phase), req' = [req EXCEPT ![t] = r],
         UNCHANGED <<accepted, crashed>>
  PROVE  EngineTypeOK'
<1>0. accepted' \in Nat /\ crashed' \in BOOLEAN
  BY DEF TypeOK, EngineTypeOK
<1>1. r # NoRequest
  BY NoRequestAssumption
<1>2. CASE at[t] = Last(pc[t])
  <2>1. pc' = [pc EXCEPT ![t] = phase] /\ at' = [at EXCEPT ![t] = 1]
    BY <1>2 DEF Advance, Goto
  <2>2. 1 \in 1..7 /\ 1 <= Last(phase)
    BY DEF Last
  <2> QED BY <1>0, <1>1, <2>1, <2>2, MoveType
<1>3. CASE at[t] # Last(pc[t])
  <2>1. pc' = [pc EXCEPT ![t] = pc[t]] /\ at' = [at EXCEPT ![t] = at[t] + 1]
    BY <1>3 DEF Advance, TypeOK, EngineTypeOK
  <2>2. pc[t] \in Phases /\ at[t] \in 1..7 /\ at[t] <= Last(pc[t])
    BY DEF TypeOK, EngineTypeOK
  <2>3. Last(pc[t]) \in 1..7
    BY DEF Last
  <2>4. at[t] + 1 \in 1..7 /\ at[t] + 1 <= Last(pc[t])
    BY <1>3, <2>2, <2>3
  <2> QED BY <1>1, <2>1, <2>2, <2>4, <1>0, MoveType
<1> QED BY <1>2, <1>3

\* Nothing of a part changes.
LEMMA EngineStutter == ASSUME EngineTypeOK, UNCHANGED engineVars PROVE EngineTypeOK'
  BY DEF EngineTypeOK, engineVars

\* The object operations outside getHandlerChain keep the pools' types.
LEMMA ObjectStep == ASSUME PoolTypeOK, ObjectTypes', NoChainStep PROVE PoolTypeOK'
  BY DEF PoolTypeOK, ObjectTypes, NoChainStep

\* Every step of a thread that serves a request keeps the types.
LEMMA StepType ==
  ASSUME TypeOK, NEW t \in Threads, Step(t)
  PROVE  TypeOK'
<1> USE DEF TypeOK
<1>0. pc[t] # "idle"
  BY DEF Step, ReadMessage, GetWebService, UnlockForService, ServiceThrows, NoHandlers,
     GetChain, FillChain, ChainReady, ChainFails, InvokeStage, HandlerFails, FaultCrashes,
     ServiceFails, ServiceFaults, WriteReply, WriteFault, FaultEscapes, SkipRelease,
     PoolChain, ChainPooled, PoolWebService, NoWebService
<1>r. /\ req[t] \in Requests
      /\ req[t].svc \in Services /\ req[t].session \in Sessions
      /\ req[t].ws \in Insts \cup {None}
      /\ req[t].chain \in [Flows -> Chains \cup {None}]
      /\ Entry(t) \in Entries /\ Session(t) \in Sessions
  BY <1>0, RequestTypes
<1>a. /\ at[t] \in 1..7 /\ at[t] <= Last(pc[t]) /\ req = [req EXCEPT ![t] = req[t]]
      /\ pc = [pc EXCEPT ![t] = pc[t]] /\ at = [at EXCEPT ![t] = at[t]]
  BY DEF EngineTypeOK
<1>1. CASE ReadMessage(t)
  <2>1. PoolTypeOK'
    BY <1>1, PoolStutter DEF ReadMessage
  <2>2. CASE Fail(t, "message")
    BY <1>0, <1>1, <2>1, <2>2, FailType DEF ReadMessage, Faults
  <2>3. CASE Goto(t, "service") /\ UNCHANGED req
    <3>1. req' = [req EXCEPT ![t] = req[t]] /\ UNCHANGED <<accepted, crashed>>
      BY <1>1, <1>a, <2>3 DEF ReadMessage
    <3>2. "service" \in Phases \ {"idle"}
      BY DEF Phases
    <3> QED BY <1>r, <2>1, <2>3, <3>1, <3>2, GotoType
  <2> QED BY <1>1, <2>2, <2>3 DEF ReadMessage
<1>2. CASE GetWebService(t)
  <2>1. PICK i \in Insts :
          /\ Obtain(t, Entry(t), Session(t), i)
          /\ \/ /\ req' = [req EXCEPT ![t].ws = i]
                /\ Goto(t, "flows")
             \/ /\ req' = [req EXCEPT ![t].ws = i, ![t].fault = "style"]
                /\ Goto(t, "fault")
    BY <1>2 DEF GetWebService
  <2>2. PoolTypeOK'
    BY <1>2, <1>r, <2>1, ObtainType, ObjectStep DEF GetWebService
  <2>3. PICK r \in Requests, where \in {"flows", "fault"} :
          req' = [req EXCEPT ![t] = r] /\ Goto(t, where)
    <3> DEFINE r1 == [req[t] EXCEPT !.ws = i]
               r2 == [r1 EXCEPT !.fault = "style"]
    <3>1. r1 \in Requests
      BY <1>r DEF Requests
    <3>2. r2 \in Requests
      BY <3>1 DEF Requests, Faults
    <3>3. \/ req' = [req EXCEPT ![t] = r1] /\ Goto(t, "flows")
          \/ req' = [req EXCEPT ![t] = r2] /\ Goto(t, "fault")
      BY <2>1, <1>a DEF EngineTypeOK
    <3> QED BY <3>1, <3>2, <3>3
  <2>4. where \in Phases \ {"idle"} /\ UNCHANGED <<accepted, crashed>>
    BY <1>2 DEF Phases, GetWebService
  <2> QED BY <2>2, <2>3, <2>4, GotoType
<1>3. CASE UnlockForService(t)
  BY <1>3, EngineStutter DEF UnlockForService, Unlock, NoChainStep, PoolTypeOK
<1>4. CASE ServiceThrows(t)
  <2>1. PoolTypeOK'
    BY <1>4 DEF ServiceThrows, ThrowBeingUsed, ThrowCreate, NoChainStep, PoolTypeOK
  <2> QED BY <1>0, <1>4, <2>1, FailType DEF ServiceThrows, Faults
<1>5. CASE NoHandlers(t)
  <2>1. PoolTypeOK'
    BY <1>5, PoolStutter DEF NoHandlers
  <2>2. req' = [req EXCEPT ![t] = req[t]]
    BY <1>5, <1>a DEF NoHandlers
  <2> QED BY <1>0, <1>5, <1>r, <2>1, <2>2, AdvanceType DEF NoHandlers, Phases
<1>6. CASE GetChain(t)
  <2>1. ListAt(t) \in Seq(Entries)
    <3>1. at[t] \in 1..6
      BY <1>6, <1>a DEF GetChain, Last
    <3> QED BY <1>r, <3>1, Orders, EngineAssumption DEF ListAt
  <2>2. PoolTypeOK'
    BY <1>6, <1>r, <2>1, ChainType DEF GetChain
  <2> QED BY <1>6, <2>2, EngineStutter DEF GetChain
<1>7. CASE FillChain(t)
  BY <1>7, <1>r, FillType, EngineStutter DEF FillChain
<1>8. CASE ChainReady(t)
  <2>1. PoolTypeOK'
    BY <1>8, <1>r, ChainType DEF ChainReady
  <2>2. call[t].chain \in Chains /\ GetOrder[at[t]] \in Flows
    <3>1. at[t] \in 1..6
      BY <1>8, <1>a DEF ChainReady, Last
    <3> QED BY <1>8, <3>1, Orders DEF ChainReady, EndGet, PoolTypeOK, Calls, NoCall
  <2> DEFINE r == [req[t] EXCEPT !.chain[GetOrder[at[t]]] = call[t].chain]
  <2>3. r \in Requests
    BY <1>r, <2>2 DEF Requests
  <2>4. req' = [req EXCEPT ![t] = r]
    BY <1>8 DEF ChainReady
  <2> HIDE DEF r
  <2> QED BY <1>0, <1>8, <2>1, <2>3, <2>4, AdvanceType DEF ChainReady, Phases
<1>9. CASE ChainFails(t)
  <2>1. PoolTypeOK'
    BY <1>9, <1>r, ChainType DEF ChainFails
  <2> QED BY <1>0, <1>9, <2>1, FailType DEF ChainFails, Faults
<1>10. CASE InvokeStage(t)
  <2>1. PoolTypeOK'
    BY <1>10, PoolStutter DEF InvokeStage
  <2>2. PICK b \in HeaderAfter(t) :
          req' = [req EXCEPT ![t] = [req[t] EXCEPT !.header = b]]
    BY <1>10 DEF InvokeStage, EngineTypeOK
  <2>3. [req[t] EXCEPT !.header = b] \in Requests
    BY <1>0, RequestAfter DEF Faults
  <2> QED BY <1>0, <1>10, <2>1, <2>2, <2>3, AdvanceType DEF InvokeStage, Phases
<1>11. CASE HandlerFails(t)
  BY <1>0, <1>11, PoolStutter, FailType DEF HandlerFails, Faults
<1>12. CASE FaultCrashes(t)
  BY <1>12, PoolStutter DEF FaultCrashes, EngineTypeOK
<1>13. CASE ServiceFails(t)
  BY <1>0, <1>13, PoolStutter, FailType DEF ServiceFails, Faults
<1>21. CASE ServiceFaults(t)
  <2>1. PoolTypeOK'
    BY <1>21, PoolStutter DEF ServiceFaults
  <2>2. PICK b \in HeaderAfter(t) :
          req' = [req EXCEPT ![t] = [req[t] EXCEPT !.fault = "service", !.header = b]]
    BY <1>21 DEF ServiceFaults, EngineTypeOK
  <2>3. [req[t] EXCEPT !.fault = "service", !.header = b] \in Requests
    BY <1>0, RequestAfter DEF Faults
  <2>4. Goto(t, "reply") /\ "reply" \in Phases \ {"idle"} /\ UNCHANGED <<accepted, crashed>>
    BY <1>21 DEF ServiceFaults, Phases
  <2> QED BY <2>1, <2>2, <2>3, <2>4, GotoType
<1>22. CASE WriteReply(t) \/ WriteFault(t)
  <2>1. PoolTypeOK' /\ UNCHANGED <<accepted, crashed>>
    BY <1>22, PoolStutter DEF WriteReply, WriteFault
  <2>2. CASE Fail(t, "reply")
    BY <1>0, <2>1, <2>2, FailType DEF Faults
  <2>3. CASE Goto(t, "release") /\ UNCHANGED req
    <3>1. req' = [req EXCEPT ![t] = req[t]] /\ "release" \in Phases \ {"idle"}
      BY <1>a, <2>3 DEF Phases
    <3> QED BY <1>r, <2>1, <2>3, <3>1, GotoType
  <2> QED BY <1>22, <2>2, <2>3 DEF WriteReply, WriteFault
<1>14. ASSUME PoolTypeOK', pc[t] = "release", at[t] <= 2, at' = [at EXCEPT ![t] = @ + 1],
              UNCHANGED <<pc, req, accepted, crashed>>
       PROVE  TypeOK'
  <2>1. at[t] + 1 \in 1..7 /\ at[t] + 1 <= Last("release")
    BY <1>14, <1>a DEF Last
  <2> QED BY <1>14, <2>1 DEF EngineTypeOK
<1>15. CASE SkipRelease(t)
  BY <1>14, <1>15, PoolStutter DEF SkipRelease
<1>16. CASE PoolChain(t)
  <2>1. CASE ChainAt(t) # None /\ BeginPut(t, ChainAt(t))
    <3>1. at[t] \in 1..2
      BY <1>16, <1>a DEF PoolChain
    <3>2. ChainAt(t) \in Chains
      BY <1>r, <2>1, <3>1, Orders DEF ChainAt
    <3> QED BY <1>16, <1>r, <2>1, <3>2, ChainType, EngineStutter DEF PoolChain
  <2>2. CASE PoolNext(t, Session(t))
    BY <1>16, <1>r, <2>2, FillType, EngineStutter DEF PoolChain
  <2> QED BY <1>16, <2>1, <2>2 DEF PoolChain
<1>17. CASE ChainPooled(t)
  <2>1. PoolTypeOK'
    BY <1>17, <1>r, ChainType DEF ChainPooled
  <2> QED BY <1>14, <1>17, <2>1 DEF ChainPooled
<1>18. ASSUME PoolTypeOK', EndRequest(t)
       PROVE  TypeOK'
  <2>1. /\ pc' = [pc EXCEPT ![t] = "idle"] /\ at' = [at EXCEPT ![t] = 1]
        /\ req' = [req EXCEPT ![t] = NoRequest]
    BY <1>18 DEF EndRequest, Goto
  <2>2. "idle" \in Phases /\ 1 \in 1..7 /\ 1 <= Last("idle")
    BY DEF Phases, Last
  <2>3. accepted' \in Nat /\ crashed' \in BOOLEAN
    BY <1>18 DEF EndRequest, EngineTypeOK
  <2> QED BY <1>18, <2>1, <2>2, <2>3, MoveType
<1>19. CASE PoolWebService(t)
  <2>1. req[t].ws \in Insts
    BY <1>19, <1>r DEF PoolWebService
  <2>2. PoolTypeOK'
    BY <1>19, <1>r, <2>1, PutBackType, ObjectStep DEF PoolWebService
  <2> QED BY <1>18, <1>19, <2>2 DEF PoolWebService
<1>20. CASE NoWebService(t)
  BY <1>18, <1>20, PoolStutter DEF NoWebService
<1>23. CASE FaultEscapes(t)
  <2>1. PoolTypeOK'
    BY <1>23, PoolStutter DEF FaultEscapes
  <2>2. CASE crashed' = TRUE /\ UNCHANGED <<pc, at, req, accepted>>
    BY <2>1, <2>2 DEF EngineTypeOK
  <2> QED BY <1>18, <1>23, <2>1, <2>2 DEF FaultEscapes
<1> QED
  BY <1>1, <1>2, <1>3, <1>4, <1>5, <1>6, <1>7, <1>8, <1>9, <1>10, <1>11, <1>12, <1>13,
     <1>15, <1>16, <1>17, <1>19, <1>20, <1>21, <1>22, <1>23 DEF Step

LEMMA AcceptType ==
  ASSUME TypeOK, NEW t \in Threads, Accept(t)
  PROVE  TypeOK'
<1>1. PICK svc \in Services, s \in Sessions :
        req' = [req EXCEPT ![t] = [svc |-> svc, session |-> s, ws |-> None,
                                   chain |-> [f \in Flows |-> None],
                                   fault |-> "none", header |-> FALSE]]
  BY DEF Accept
<1> DEFINE r == [svc |-> svc, session |-> s, ws |-> None,
                 chain |-> [f \in Flows |-> None], fault |-> "none", header |-> FALSE]
<1>2. r \in Requests
  BY DEF Requests, Faults
<1>3. r # NoRequest
  BY <1>2, NoRequestAssumption
<1>4. req' = [req EXCEPT ![t] = r]
  BY <1>1
<1> HIDE DEF r
<1>5. pc' = [pc EXCEPT ![t] = "message"] /\ at' = [at EXCEPT ![t] = 1]
  BY DEF Accept, Goto
<1>6. "message" \in Phases /\ "message" # "idle" /\ 1 \in 1..7 /\ 1 <= Last("message")
  BY DEF Phases, Last
<1>7. accepted' \in Nat /\ crashed' \in BOOLEAN
  BY DEF Accept, TypeOK, EngineTypeOK
<1>8. PoolTypeOK'
  BY PoolStutter DEF Accept, TypeOK
<1> QED
  BY <1>2, <1>3, <1>4, <1>5, <1>6, <1>7, <1>8, MoveType DEF TypeOK

\* TypeOK: every request of process_request keeps the pools, the chain store
\* and the engine's members well formed, whatever error ends it.
THEOREM TypeCorrect == Spec => []TypeOK
<1>1. Init => TypeOK
  <2> SUFFICES ASSUME Init PROVE TypeOK
    OBVIOUS
  <2>1. PoolTypeOK
    BY DEF Init, PoolInit, PoolTypeOK, Calls
  <2>2. EngineTypeOK
    <3>1. "idle" \in Phases /\ 1 <= Last("idle")
      BY DEF Phases, Last
    <3>2. \A t \in Threads : /\ req[t] = NoRequest <=> pc[t] = "idle"
                            /\ at[t] <= Last(pc[t])
      BY <3>1 DEF Init
    <3>3. /\ pc \in [Threads -> Phases] /\ at \in [Threads -> 1..7]
          /\ req \in [Threads -> Requests \cup {NoRequest}]
      BY <3>1 DEF Init
    <3>4. accepted \in Nat /\ crashed \in BOOLEAN
      BY DEF Init
    <3> QED BY <3>2, <3>3, <3>4 DEF EngineTypeOK
  <2> QED BY <2>1, <2>2 DEF TypeOK
<1>2. TypeOK /\ [Next]_vars => TypeOK'
  <2> SUFFICES ASSUME TypeOK, [Next]_vars PROVE TypeOK'
    OBVIOUS
  <2>1. CASE UNCHANGED vars
    BY <2>1, PoolStutter, EngineStutter DEF TypeOK, vars
  <2> QED BY <2>1, StepType, AcceptType DEF Next
<1> QED BY <1>1, <1>2, PTL DEF Spec

-----------------------------------------------------------------------------
(* The mutex of HandlerPool.                                                *)

LEMMA MutexStep ==
  ASSUME TypeOK, MutexDiscipline, NEW t \in Threads, Accept(t) \/ Step(t)
  PROVE  MutexDiscipline'
<1>0. PoolTypeOK /\ (pc[t] # "idle" => Session(t) \in Sessions)
  BY RequestTypes DEF TypeOK
<1>1. CASE GetChain(t)
  BY <1>0, <1>1, MutexTaken DEF GetChain
<1>2. CASE FillChain(t)
  BY <1>0, <1>2, MutexFill DEF FillChain
<1>3. CASE ChainReady(t)
  BY <1>0, <1>3, MutexChain DEF ChainReady
<1>4. CASE ChainFails(t)
  BY <1>0, <1>4, MutexChain DEF ChainFails
<1>5. CASE PoolChain(t)
  <2>1. CASE PoolNext(t, Session(t))
    BY <1>0, <1>5, <2>1, MutexFill DEF PoolChain
  <2>2. CASE ChainAt(t) # None /\ BeginPut(t, ChainAt(t))
    <3>1. ChainAt(t) \in Chains
      BY <1>5, <2>2, RequestTypes, Orders DEF PoolChain, ChainAt, TypeOK, EngineTypeOK
    <3> QED BY <1>0, <1>5, <2>2, <3>1, MutexChain DEF PoolChain
  <2> QED BY <1>5, <2>1, <2>2 DEF PoolChain
<1>6. CASE ChainPooled(t)
  BY <1>0, <1>6, MutexChain DEF ChainPooled
<1>7. CASE \/ Accept(t) \/ ReadMessage(t) \/ GetWebService(t) \/ UnlockForService(t)
           \/ ServiceThrows(t) \/ NoHandlers(t) \/ InvokeStage(t) \/ HandlerFails(t)
           \/ FaultCrashes(t) \/ ServiceFails(t) \/ ServiceFaults(t) \/ WriteReply(t)
           \/ WriteFault(t) \/ FaultEscapes(t) \/ SkipRelease(t)
           \/ PoolWebService(t) \/ NoWebService(t)
  <2>1. UNCHANGED <<lock, call>>
    BY <1>7 DEF Accept, ReadMessage, GetWebService, UnlockForService, ServiceThrows,
       NoHandlers, InvokeStage, HandlerFails, FaultCrashes, ServiceFails, ServiceFaults,
       WriteReply, WriteFault, FaultEscapes, SkipRelease, PoolWebService, NoWebService,
       NoChainStep, poolVars
  <2> QED BY <2>1, MutexFrame
<1> QED BY <1>1, <1>2, <1>3, <1>4, <1>5, <1>6, <1>7 DEF Step

\* MutexDiscipline: getHandlerChain frees the HandlerPool mutex on every way
\* out, and nothing else takes it for longer than a push on the chain store.
THEOREM MutexFreedOnEveryPath == Spec => []MutexDiscipline
<1>1. Init => MutexDiscipline
  BY ConstantsAssumption DEF Init, PoolInit, MutexDiscipline, Building, NoCall
<1>2. TypeOK /\ MutexDiscipline /\ [Next]_vars => MutexDiscipline'
  <2> SUFFICES ASSUME TypeOK, MutexDiscipline, [Next]_vars PROVE MutexDiscipline'
    OBVIOUS
  <2>1. CASE UNCHANGED vars
    BY <2>1, MutexFrame DEF vars, poolVars
  <2> QED BY <2>1, MutexStep DEF Next
<1> QED BY <1>1, <1>2, TypeCorrect, PTL DEF Spec

-----------------------------------------------------------------------------
(* Phases: which operation can be in progress where.                        *)

\* Which chain operation runs in which phase of a request, and when the session
\* pool can be between its unlock and createHandler.
PhaseOK(t) ==
  /\ Building(t) => pc[t] = "flows"
  /\ call[t].op = "put" =>
       pc[t] = "release" /\ at[t] <= 2 /\ call[t].chain = ChainAt(t)
  /\ t \in creating =>
       \/ pc[t] = "service" /\ Entry(t).scope = "session"
       \/ pc[t] = "flows" /\ Getting(t) /\ Current(t).scope = "session"

PhaseInv == \A t \in Threads : PhaseOK(t)

\* What a step of t leaves alone of another thread u.
Untouched(u) ==
  /\ pc'[u] = pc[u] /\ at'[u] = at[u] /\ req'[u] = req[u] /\ call'[u] = call[u]
  /\ u \in creating' <=> u \in creating

\* A step changes the engine and the chain operation of its own thread only.
LEMMA OtherThreads ==
  ASSUME TypeOK, NEW t \in Threads, Accept(t) \/ Step(t),
         NEW u \in Threads, u # t
  PROVE  Untouched(u)
<1> USE DEF TypeOK, PoolTypeOK, EngineTypeOK, Untouched, Goto, Fail, NoChainStep, poolVars, engineVars
<1>1. CASE Accept(t)
  BY <1>1 DEF Accept
<1>2. CASE ReadMessage(t) \/ NoHandlers(t) \/ InvokeStage(t) \/ HandlerFails(t)
           \/ FaultCrashes(t) \/ ServiceFails(t) \/ ServiceFaults(t) \/ WriteReply(t)
           \/ WriteFault(t) \/ SkipRelease(t)
  BY <1>2 DEF ReadMessage, NoHandlers, InvokeStage, HandlerFails, FaultCrashes,
     ServiceFails, ServiceFaults, WriteReply, WriteFault, SkipRelease, Advance
<1>3. CASE GetWebService(t)
  BY <1>3 DEF GetWebService, Obtain, TakeIdle, Create
<1>4. CASE UnlockForService(t) \/ ServiceThrows(t)
  BY <1>4 DEF UnlockForService, ServiceThrows, Unlock, ThrowBeingUsed, ThrowCreate
<1>5. CASE GetChain(t) \/ ChainReady(t)
  BY <1>5 DEF GetChain, BeginGet, ChainReady, EndGet, Advance
<1>6. CASE FillChain(t)
  BY <1>6 DEF FillChain, AddHandler, DropCHandler, WrongType, UnlockForCreate, UndoNext,
     PutNext, PutBack, Unlock, Obtain, TakeIdle, Create
<1>7. CASE ChainFails(t)
  BY <1>7 DEF ChainFails, GetBeingUsed, GetCreateFails, ThrowBeingUsed, ThrowCreate,
     AbandonGet, EndUndo, StoreChain
<1>8. CASE PoolChain(t) \/ ChainPooled(t)
  BY <1>8 DEF PoolChain, BeginPut, PoolNext, PutNext, PutBack, ChainPooled, EndPut, StoreChain
<1>9. CASE PoolWebService(t) \/ NoWebService(t) \/ FaultEscapes(t)
  BY <1>9 DEF PoolWebService, NoWebService, FaultEscapes, PutBack, EndRequest
<1> QED BY <1>1, <1>2, <1>3, <1>4, <1>5, <1>6, <1>7, <1>8, <1>9 DEF Step

LEMMA PhaseOther ==
  ASSUME NEW u \in Threads, PhaseOK(u), Untouched(u)
  PROVE  PhaseOK(u)'
  BY DEF PhaseOK, Untouched, Building, ChainAt, Entry, Getting, Current

\* No chain operation is in progress and no object is being created.
Quiet(t) == call[t] = NoCall /\ t \notin creating

\* Outside the phases that call HandlerPool no operation is in progress.
LEMMA PhaseQuiet ==
  ASSUME TypeOK, NEW t \in Threads, PhaseOK(t),
         \/ pc[t] \in {"idle", "message", "invoke", "reply", "fault"}
         \/ pc[t] = "release" /\ (at[t] = 3 \/ ChainAt(t) = None)
  PROVE  Quiet(t)
<1>1. call[t].op \in {"none", "get", "undo", "put"}
  BY DEF TypeOK, PoolTypeOK, Calls, NoCall
<1>2. call[t].op # "none" => call[t].chain \in Chains
  BY DEF TypeOK, PoolTypeOK, Calls, NoCall
<1>3. call[t].op = "none"
  BY <1>1, <1>2, ConstantsAssumption DEF PhaseOK, Building
<1>4. call[t] = NoCall
  BY <1>3 DEF TypeOK, PoolTypeOK, Calls
<1> QED BY <1>4 DEF PhaseOK, Quiet

LEMMA PhaseStep ==
  ASSUME TypeOK, PhaseInv, NEW t \in Threads, Accept(t) \/ Step(t)
  PROVE  PhaseInv'
<1>others. ASSUME NEW u \in Threads, u # t PROVE PhaseOK(u)'
  BY <1>others, OtherThreads, PhaseOther DEF PhaseInv
<1> SUFFICES PhaseOK(t)'
  BY <1>others DEF PhaseInv
<1>0. PhaseOK(t)
  BY DEF PhaseInv
<1>t. /\ pc \in [Threads -> Phases] /\ at \in [Threads -> 1..7]
      /\ call \in [Threads -> Calls] /\ creating \subseteq Threads
  BY DEF TypeOK, PoolTypeOK, EngineTypeOK
<1>n. call[t].op = "none" => call[t] = NoCall
  BY <1>t DEF Calls
<1>g. call[t].op \in {"none", "get", "undo", "put"}
  BY <1>t DEF Calls, NoCall
<1>q. ASSUME Quiet(t)' PROVE PhaseOK(t)'
  BY <1>q DEF Quiet, PhaseOK, Building, NoCall
<1>1. CASE \/ Accept(t) \/ ReadMessage(t) \/ InvokeStage(t) \/ HandlerFails(t)
           \/ FaultCrashes(t) \/ ServiceFails(t) \/ ServiceFaults(t) \/ WriteReply(t)
           \/ WriteFault(t) \/ FaultEscapes(t) \/ SkipRelease(t) \/ NoWebService(t)
  <2>1. Quiet(t)
    BY <1>0, <1>1, PhaseQuiet DEF Accept, ReadMessage, InvokeStage, HandlerFails,
       FaultCrashes, ServiceFails, ServiceFaults, WriteReply, WriteFault, FaultEscapes,
       SkipRelease, NoWebService
  <2>2. UNCHANGED <<call, creating>>
    BY <1>1 DEF Accept, ReadMessage, InvokeStage, HandlerFails, FaultCrashes,
       ServiceFails, ServiceFaults, WriteReply, WriteFault, FaultEscapes, SkipRelease,
       NoWebService, poolVars
  <2> QED BY <2>1, <2>2, <1>q DEF Quiet
<1>2. CASE NoHandlers(t) \/ PoolWebService(t)
  <2>1. Quiet(t)
    <3>1. CASE NoHandlers(t)
      BY <1>0, <3>1 DEF NoHandlers, PhaseOK, Quiet, Getting, NoCall
    <3>2. CASE PoolWebService(t)
      BY <1>0, <3>2, PhaseQuiet DEF PoolWebService
    <3> QED BY <1>2, <3>1, <3>2
  <2>2. UNCHANGED <<call, creating>>
    BY <1>2 DEF NoHandlers, PoolWebService, PutBack, NoChainStep, poolVars
  <2> QED BY <2>1, <2>2, <1>q DEF Quiet
<1>3. ASSUME pc[t] = "service" PROVE call[t] = NoCall
  BY <1>0, <1>3, <1>n, <1>g DEF PhaseOK, Building
<1>4. CASE GetWebService(t) \/ ServiceThrows(t)
  <2>1. call[t] = NoCall /\ UNCHANGED call
    BY <1>3, <1>4 DEF GetWebService, ServiceThrows, NoChainStep
  <2>2. t \notin creating'
    BY <1>t, <1>4 DEF GetWebService, ServiceThrows, Obtain, TakeIdle, Create, ThrowBeingUsed,
       ThrowCreate
  <2> QED BY <2>1, <2>2, <1>q DEF Quiet
<1>5. CASE UnlockForService(t)
  <2>1. pc[t] = "service" /\ UNCHANGED <<pc, at, req, call>>
    BY <1>5 DEF UnlockForService, NoChainStep, engineVars
  <2>2. call[t] = NoCall
    BY <1>3, <2>1
  <2>3. Entry(t).scope = "session"
    BY <1>5 DEF UnlockForService, Unlock, Unlocks
  <2> QED BY <2>1, <2>2, <2>3 DEF PhaseOK, Building, NoCall, Entry
<1>6. CASE GetChain(t)
  <2>1. t \notin creating'
    BY <1>0, <1>6 DEF GetChain, BeginGet, PhaseOK, Getting, NoCall
  <2>2. pc'[t] = "flows" /\ call'[t].op = "get"
    BY <1>6, <1>t DEF GetChain, BeginGet, engineVars
  <2> QED BY <2>1, <2>2 DEF PhaseOK
<1>7. CASE FillChain(t)
  <2>1. pc[t] = "flows" /\ UNCHANGED <<pc, at, req>>
    BY <1>7 DEF FillChain, engineVars
  <2>2. CASE AddHandler(t, Session(t)) \/ DropCHandler(t, Session(t)) \/ WrongType(t, Session(t))
    <3>1. t \notin creating'
      BY <1>t, <2>2 DEF AddHandler, DropCHandler, WrongType, Obtain, TakeIdle, Create
    <3>2. call'[t].op \in {"get", "undo"}
      <4>1. call[t].op = "get" /\ call[t] \in [op : {"get", "undo", "put"}, chain : Chains, rest : Seq(Entries)]
        BY <1>t, <2>2 DEF AddHandler, DropCHandler, WrongType, Getting, Calls, NoCall
      <4> QED BY <1>t, <2>2, <4>1 DEF AddHandler, DropCHandler, WrongType
    <3> QED BY <2>1, <3>1, <3>2 DEF PhaseOK
  <2>3. CASE UnlockForCreate(t, Session(t))
    <3>1. Getting(t) /\ Current(t).scope = "session" /\ UNCHANGED call
      BY <2>3 DEF UnlockForCreate, Unlock, Unlocks
    <3> QED BY <2>1, <3>1 DEF PhaseOK, Getting, Current
  <2>4. CASE UndoNext(t)
    <3>1. UNCHANGED <<call, creating>>
      BY <2>4 DEF UndoNext, PutNext, PutBack
    <3> QED BY <1>0, <2>1, <3>1, PhaseOther DEF Untouched
  <2> QED BY <1>7, <2>2, <2>3, <2>4 DEF FillChain
<1>8. CASE ChainReady(t)
  <2>1. t \notin creating'
    BY <1>0, <1>8, <1>t DEF ChainReady, EndGet, PhaseOK, Getting
  <2>2. call'[t] = NoCall
    BY <1>8, <1>t DEF ChainReady, EndGet
  <2> QED BY <2>1, <2>2, <1>q DEF Quiet
<1>9. CASE ChainFails(t)
  <2>1. t \notin creating'
    BY <1>0, <1>9, <1>t DEF ChainFails, GetBeingUsed, GetCreateFails, ThrowBeingUsed,
       ThrowCreate, EndUndo, StoreChain, PhaseOK, Getting
  <2>2. call'[t] = NoCall
    BY <1>9, <1>t DEF ChainFails, GetBeingUsed, GetCreateFails, AbandonGet, EndUndo, StoreChain
  <2> QED BY <2>1, <2>2, <1>q DEF Quiet
<1>10. CASE PoolChain(t)
  <2>1. pc[t] = "release" /\ at[t] <= 2 /\ UNCHANGED <<pc, at, req>>
    BY <1>10 DEF PoolChain, engineVars
  <2>2. CASE BeginPut(t, ChainAt(t))
    <3>1. t \notin creating' /\ call'[t] = [op |-> "put", chain |-> ChainAt(t), rest |-> <<>>]
      BY <1>0, <1>t, <2>1, <2>2 DEF BeginPut, PhaseOK
    <3> QED BY <2>1, <3>1 DEF PhaseOK, Building, ChainAt
  <2>3. CASE PoolNext(t, Session(t))
    <3>1. UNCHANGED <<call, creating>>
      BY <2>3 DEF PoolNext, PutNext, PutBack
    <3> QED BY <1>0, <2>1, <3>1, PhaseOther DEF Untouched
  <2> QED BY <1>10, <2>2, <2>3 DEF PoolChain
<1>11. CASE ChainPooled(t)
  <2>1. t \notin creating' /\ call'[t] = NoCall
    BY <1>0, <1>11, <1>t DEF ChainPooled, EndPut, StoreChain, PhaseOK
  <2> QED BY <2>1, <1>q DEF Quiet
<1> QED
  BY <1>1, <1>2, <1>4, <1>5, <1>6, <1>7, <1>8, <1>9, <1>10, <1>11 DEF Step

LEMMA PhaseInvariant == Spec => []PhaseInv
<1>1. Init => PhaseInv
  BY DEF Init, PoolInit, PhaseInv, PhaseOK, Building, NoCall
<1>2. TypeOK /\ PhaseInv /\ [Next]_vars => PhaseInv'
  <2> SUFFICES ASSUME TypeOK, PhaseInv, [Next]_vars PROVE PhaseInv'
    OBVIOUS
  <2>1. CASE UNCHANGED vars
    BY <2>1, PhaseOther DEF PhaseInv, Untouched, vars, poolVars, engineVars
  <2> QED BY <2>1, PhaseStep DEF Next
<1> QED BY <1>1, <1>2, TypeCorrect, PTL DEF Spec

-----------------------------------------------------------------------------
(* HandlerChain objects.                                                    *)

\* Where each HandlerChain object is: the store, the chain pointers that still
\* count and the chain under construction never share one.
ChainInv ==
  /\ store \subseteq used
  /\ \A t \in Threads, f \in Flows : Live(t, f) => req[t].chain[f] \in used \ store
  /\ \A t \in Threads : Building(t) => call[t].chain \in used \ store
  /\ \A t, u \in Threads, f, g \in Flows :
       Live(t, f) /\ Live(u, g) /\ req[t].chain[f] = req[u].chain[g] => t = u /\ f = g
  /\ \A t, u \in Threads, f \in Flows :
       Building(t) /\ Live(u, f) => call[t].chain # req[u].chain[f]

\* Thread u refers to no chain it did not refer to before, in the same place.
LiveKept(u) ==
  \A f \in Flows : Live(u, f)' => Live(u, f) /\ req'[u].chain[f] = req[u].chain[f]

BuildKept(u) == Building(u)' => Building(u) /\ call'[u].chain = call[u].chain

LEMMA KeptOther ==
  ASSUME NEW u \in Threads, Untouched(u)
  PROVE  LiveKept(u) /\ BuildKept(u)
  BY DEF Untouched, LiveKept, BuildKept, Live, Building

LEMMA ChainShrink ==
  ASSUME ChainInv, UNCHANGED <<store, used>>,
         \A u \in Threads : LiveKept(u) /\ BuildKept(u)
  PROVE  ChainInv'
  BY DEF ChainInv, LiveKept, BuildKept

\* A step that leaves the chain pointers alone and does not go back in releaseHandlers.
LEMMA LiveSame ==
  ASSUME NEW t \in Threads, req[t] # NoRequest,
         req'[t] # NoRequest => req'[t].chain = req[t].chain,
         pc[t] = "release" => pc'[t] = "release" /\ at'[t] >= at[t],
         at \in [Threads -> 1..7], at' \in [Threads -> 1..7]
  PROVE  LiveKept(t)
  BY DEF LiveKept, Live

\* The steps that neither take, hand over nor store a chain.
Plain(t) ==
  \/ ReadMessage(t) \/ GetWebService(t) \/ UnlockForService(t) \/ ServiceThrows(t)
  \/ NoHandlers(t) \/ FillChain(t) \/ InvokeStage(t) \/ HandlerFails(t)
  \/ FaultCrashes(t) \/ ServiceFails(t) \/ ServiceFaults(t) \/ WriteReply(t)
  \/ WriteFault(t) \/ SkipRelease(t) \/ PoolChain(t)

LEMMA PlainKept ==
  ASSUME TypeOK, TypeOK', NEW t \in Threads, Plain(t)
  PROVE  LiveKept(t) /\ BuildKept(t) /\ UNCHANGED <<store, used>>
<1>t. /\ pc \in [Threads -> Phases] /\ at \in [Threads -> 1..7]
      /\ at' \in [Threads -> 1..7] /\ req \in [Threads -> Requests \cup {NoRequest}]
      /\ call \in [Threads -> Calls]
  BY DEF TypeOK, PoolTypeOK, EngineTypeOK
<1>1. pc[t] # "idle"
  BY DEF Plain, ReadMessage, GetWebService, UnlockForService, ServiceThrows, NoHandlers,
     FillChain, InvokeStage, HandlerFails, FaultCrashes, ServiceFails, ServiceFaults,
     WriteReply, WriteFault, SkipRelease, PoolChain
<1>2. req[t] \in Requests /\ req[t] # NoRequest
  BY <1>1, RequestTypes, NoRequestAssumption
<1>3. req'[t].chain = req[t].chain
  <2>1. CASE \/ ReadMessage(t) \/ ServiceThrows(t) \/ InvokeStage(t) \/ HandlerFails(t)
             \/ ServiceFails(t) \/ ServiceFaults(t) \/ WriteReply(t) \/ WriteFault(t)
    BY <1>t, <1>2, <2>1 DEF ReadMessage, ServiceThrows, InvokeStage, HandlerFails,
       ServiceFails, ServiceFaults, WriteReply, WriteFault, Fail, Requests
  <2>2. CASE GetWebService(t)
    BY <1>t, <1>2, <2>2 DEF GetWebService, Requests
  <2>3. CASE UNCHANGED req
    BY <2>3
  <2> QED
    BY <2>1, <2>2, <2>3 DEF Plain, UnlockForService, NoHandlers, FillChain,
       FaultCrashes, SkipRelease, PoolChain, engineVars
<1>4. pc[t] = "release" => pc'[t] = "release" /\ at'[t] >= at[t]
  <2>1. pc[t] = "release" => SkipRelease(t) \/ PoolChain(t)
    BY DEF Plain, ReadMessage, GetWebService, UnlockForService, ServiceThrows, NoHandlers,
       FillChain, InvokeStage, HandlerFails, FaultCrashes, ServiceFails, ServiceFaults,
       WriteReply, WriteFault
  <2> QED BY <1>t, <2>1 DEF SkipRelease, PoolChain, engineVars
<1>5. LiveKept(t)
  BY <1>t, <1>2, <1>3, <1>4, LiveSame
<1>6. BuildKept(t) /\ UNCHANGED <<store, used>>
  <2>1. CASE FillChain(t)
    <3>1. CASE AddHandler(t, Session(t)) \/ DropCHandler(t, Session(t)) \/ WrongType(t, Session(t))
      <4>1. /\ call[t].op = "get"
            /\ call[t] \in [op : {"get", "undo", "put"}, chain : Chains, rest : Seq(Entries)]
        BY <1>t, <3>1 DEF AddHandler, DropCHandler, WrongType, Getting, Calls, NoCall
      <4>2. call'[t].chain = call[t].chain /\ UNCHANGED <<store, used>>
        BY <1>t, <3>1, <4>1 DEF AddHandler, DropCHandler, WrongType
      <4> QED BY <4>1, <4>2 DEF BuildKept, Building
    <3>2. CASE UnlockForCreate(t, Session(t)) \/ UndoNext(t)
      BY <3>2 DEF UnlockForCreate, UndoNext, PutNext, BuildKept, Building
    <3> QED BY <2>1, <3>1, <3>2 DEF FillChain
  <2>2. CASE PoolChain(t)
    <3>1. CASE PoolNext(t, Session(t))
      BY <3>1 DEF PoolNext, PutNext, BuildKept, Building
    <3>2. CASE BeginPut(t, ChainAt(t))
      <4>1. call'[t].op = "put" /\ UNCHANGED <<store, used>>
        BY <1>t, <3>2 DEF BeginPut
      <4> QED BY <4>1 DEF BuildKept, Building
    <3> QED BY <2>2, <3>1, <3>2 DEF PoolChain
  <2>3. CASE UNCHANGED <<store, used, call>>
    BY <2>3 DEF BuildKept, Building
  <2> QED
    BY <2>1, <2>2, <2>3 DEF Plain, ReadMessage, GetWebService, UnlockForService,
       ServiceThrows, NoHandlers, InvokeStage, HandlerFails, FaultCrashes, ServiceFails,
       ServiceFaults, WriteReply, WriteFault, SkipRelease, NoChainStep, poolVars
<1> QED BY <1>5, <1>6

\* A step of t leaves the chains of another thread alone.
LEMMA OtherKept ==
  ASSUME TypeOK, NEW t \in Threads, Accept(t) \/ Step(t),
         NEW u \in Threads, u # t
  PROVE  LiveKept(u) /\ BuildKept(u)
  BY OtherThreads, KeptOther

\* The steps that end a chain operation or a request, and a new request.
LEMMA EndKept ==
  ASSUME TypeOK, TypeOK', NEW t \in Threads,
         \/ Accept(t) \/ ChainFails(t) \/ ChainPooled(t)
         \/ PoolWebService(t) \/ NoWebService(t) \/ FaultEscapes(t)
  PROVE  LiveKept(t) /\ BuildKept(t)
<1>t. /\ pc \in [Threads -> Phases] /\ at \in [Threads -> 1..7] /\ at' \in [Threads -> 1..7]
      /\ req \in [Threads -> Requests \cup {NoRequest}] /\ call \in [Threads -> Calls]
  BY DEF TypeOK, PoolTypeOK, EngineTypeOK
<1>1. CASE Accept(t)
  <2>1. req'[t].chain = [f \in Flows |-> None] /\ UNCHANGED call
    BY <1>t, <1>1 DEF Accept, poolVars
  <2> QED BY <2>1 DEF LiveKept, Live, BuildKept, Building
<1>2. CASE PoolWebService(t) \/ NoWebService(t)
  <2>1. req'[t] = NoRequest /\ UNCHANGED call
    BY <1>t, <1>2 DEF PoolWebService, NoWebService, EndRequest, NoChainStep, poolVars
  <2> QED BY <2>1 DEF LiveKept, Live, BuildKept, Building
<1>3. CASE ChainFails(t)
  <2>1. req[t].chain = req'[t].chain /\ pc[t] = "flows" /\ req[t] # NoRequest
    <3>1. pc[t] = "flows"
      BY <1>3 DEF ChainFails
    <3>2. req[t] \in Requests
      BY <3>1, RequestTypes
    <3> QED BY <1>3, <1>t, <3>1, <3>2, NoRequestAssumption DEF ChainFails, Fail, Requests
  <2>2. LiveKept(t)
    BY <1>t, <2>1, LiveSame
  <2>3. ~Building(t)'
    BY <1>3, <1>t DEF ChainFails, GetBeingUsed, GetCreateFails, AbandonGet, EndUndo,
       StoreChain, Building, NoCall
  <2> QED BY <2>2, <2>3 DEF BuildKept
<1>4. CASE ChainPooled(t)
  <2>1. pc[t] = "release" /\ pc' = pc /\ req' = req /\ at'[t] = at[t] + 1 /\ call'[t] = NoCall
    BY <1>4, <1>t DEF ChainPooled, EndPut, StoreChain
  <2>2. req[t] # NoRequest
    BY <2>1, RequestTypes, NoRequestAssumption
  <2>3. LiveKept(t)
    BY <1>t, <2>1, <2>2, LiveSame
  <2> QED BY <2>1, <2>3 DEF BuildKept, Building, NoCall
<1>5. CASE FaultEscapes(t)
  <2>1. UNCHANGED call /\ (req'[t] = NoRequest \/ UNCHANGED <<req, pc, at>>)
    BY <1>t, <1>5 DEF FaultEscapes, EndRequest, poolVars
  <2> QED BY <2>1 DEF LiveKept, Live, BuildKept, Building
<1> QED BY <1>1, <1>2, <1>3, <1>4, <1>5

\* ChainReady: the chain under construction becomes the flow's chain.
LEMMA ReadyMoves ==
  ASSUME TypeOK, NEW t \in Threads, ChainReady(t)
  PROVE  /\ Building(t) /\ ~Building(t)' /\ UNCHANGED <<store, used>>
         /\ \A f \in Flows : Live(t, f)' =>
              \/ f = GetOrder[at[t]] /\ req'[t].chain[f] = call[t].chain
              \/ Live(t, f) /\ req'[t].chain[f] = req[t].chain[f]
<1> DEFINE f0 == GetOrder[at[t]]  c == call[t].chain
<1>t. /\ pc \in [Threads -> Phases] /\ at \in [Threads -> 1..7]
      /\ req \in [Threads -> Requests \cup {NoRequest}] /\ call \in [Threads -> Calls]
  BY DEF TypeOK, PoolTypeOK, EngineTypeOK
<1>0. at[t] \in 1..6 /\ pc[t] = "flows" /\ UNCHANGED <<store, used>>
  BY <1>t DEF ChainReady, EndGet, TypeOK, EngineTypeOK, Last
<1>1. f0 \in Flows /\ Building(t) /\ ~Building(t)'
  BY <1>t, <1>0, Orders DEF ChainReady, EndGet, Building, NoCall
<1>2. /\ req[t] \in Requests /\ req[t].chain \in [Flows -> Chains \cup {None}]
      /\ req[t] # NoRequest
  BY <1>0, RequestTypes, NoRequestAssumption
<1>3. req'[t].chain = [req[t].chain EXCEPT ![f0] = c]
  BY <1>t, <1>2 DEF ChainReady, Requests
<1>4. \A f \in Flows : Live(t, f)' =>
        \/ f = f0 /\ req'[t].chain[f] = c
        \/ Live(t, f) /\ req'[t].chain[f] = req[t].chain[f]
  <2> HIDE DEF f0, c
  <2> QED BY <1>0, <1>1, <1>2, <1>3 DEF Live
<1> QED BY <1>0, <1>1, <1>4

LEMMA ChainStep ==
  ASSUME TypeOK, TypeOK', PhaseInv, MutexDiscipline, ChainInv,
         NEW t \in Threads, Accept(t) \/ Step(t)
  PROVE  ChainInv'
<1>t. /\ pc \in [Threads -> Phases] /\ at \in [Threads -> 1..7] /\ at' \in [Threads -> 1..7]
      /\ req \in [Threads -> Requests \cup {NoRequest}] /\ call \in [Threads -> Calls]
  BY DEF TypeOK, PoolTypeOK, EngineTypeOK
<1>others. ASSUME NEW u \in Threads, u # t
           PROVE  LiveKept(u) /\ BuildKept(u)
  BY <1>others, OtherKept
<1>p. PhaseOK(t)
  BY DEF PhaseInv
<1>s. ASSUME UNCHANGED <<store, used>>, LiveKept(t), BuildKept(t)
      PROVE  ChainInv'
  BY <1>s, <1>others, ChainShrink
<1>1. CASE Plain(t)
  BY <1>1, <1>s, PlainKept
<1>2. CASE Accept(t) \/ PoolWebService(t) \/ NoWebService(t) \/ FaultEscapes(t)
  <2>1. UNCHANGED <<store, used>>
    BY <1>2 DEF Accept, PoolWebService, NoWebService, FaultEscapes, NoChainStep, poolVars
  <2> QED BY <1>2, <1>s, <2>1, EndKept
<1>3. CASE GetChain(t)
  <2>1. LiveKept(t)
    BY <1>3 DEF GetChain, engineVars, LiveKept, Live
  <2>2. PICK c \in Chains :
          /\ c \in store \/ c \notin used
          /\ store' = store \ {c}
          /\ used' = used \cup {c}
          /\ call' = [call EXCEPT ![t] = [op |-> "get", chain |-> c, rest |-> ListAt(t)]]
    BY <1>3 DEF GetChain, BeginGet
  <2>3. \A u \in Threads : ~Building(u)
    BY <1>3, ConstantsAssumption DEF GetChain, BeginGet, MutexDiscipline
  <2>4. \A u \in Threads : Building(u)' => u = t /\ call'[u].chain = c
    BY <1>t, <1>others, <2>2, <2>3 DEF BuildKept
  <2>5. \A u \in Threads : LiveKept(u)
    BY <1>others, <2>1
  <2> QED BY <2>2, <2>4, <2>5 DEF ChainInv, LiveKept
<1>4. CASE ChainReady(t)
  <2> DEFINE f0 == GetOrder[at[t]]  c == call[t].chain
  <2>1. Building(t) /\ ~Building(t)' /\ UNCHANGED <<store, used>>
    BY <1>4, ReadyMoves
  <2>4. \A f \in Flows : Live(t, f)' =>
          \/ f = f0 /\ req'[t].chain[f] = c
          \/ Live(t, f) /\ req'[t].chain[f] = req[t].chain[f]
    BY <1>4, ReadyMoves
  <2> HIDE DEF f0, c
  <2>5. \A u \in Threads : ~Building(u)'
    BY <1>others, <2>1 DEF BuildKept, MutexDiscipline
  <2>6. c \in used \ store
    BY <2>1 DEF ChainInv, c
  <2>7. \A u \in Threads, f \in Flows : Live(u, f) => c # req[u].chain[f]
    BY <2>1 DEF ChainInv, c
  <2>8. \A u \in Threads, f \in Flows : Live(u, f)' =>
          \/ u = t /\ f = f0 /\ req'[u].chain[f] = c
          \/ Live(u, f) /\ req'[u].chain[f] = req[u].chain[f]
    BY <1>others, <2>4 DEF LiveKept
  <2> QED BY <2>1, <2>5, <2>6, <2>7, <2>8 DEF ChainInv
<1>5. CASE ChainFails(t)
  <2>2. LiveKept(t)
    BY <1>5, EndKept
  <2>3. Building(t) /\ ~Building(t)'
    BY <1>5, <1>t DEF ChainFails, GetBeingUsed, GetCreateFails, AbandonGet, EndUndo,
       StoreChain, Getting, Building, NoCall
  <2>4. CASE UNCHANGED <<store, used>>
    BY <1>s, <2>2, <2>3, <2>4 DEF BuildKept
  <2>5. CASE EndUndo(t)
    <3>1. store' = store \cup {call[t].chain} /\ used' = used
      BY <2>5 DEF EndUndo, StoreChain
    <3>2. \A u \in Threads : ~Building(u)'
      BY <1>others, <2>3 DEF BuildKept, MutexDiscipline
    <3>3. \A u \in Threads : LiveKept(u)
      BY <1>others, <2>2
    <3> QED BY <2>3, <3>1, <3>2, <3>3 DEF ChainInv, LiveKept
  <2> QED BY <1>5, <2>4, <2>5 DEF ChainFails, GetBeingUsed, GetCreateFails, AbandonGet
<1>6. CASE ChainPooled(t)
  <2> DEFINE f0 == ReleaseOrder[at[t]]  c == req[t].chain[f0]
  <2>1. /\ pc[t] = "release" /\ at[t] \in 1..2 /\ pc' = pc /\ req' = req
        /\ at'[t] = at[t] + 1 /\ call[t].op = "put" /\ call'[t] = NoCall
        /\ store' = store \cup {call[t].chain} /\ used' = used
    BY <1>6, <1>t DEF ChainPooled, EndPut, StoreChain
  <2>2. f0 \in Flows /\ call[t].chain = c
    BY <1>p, <2>1, Orders DEF PhaseOK, ChainAt
  <2>3. c # None
    BY <1>t, <2>1, <2>2, ConstantsAssumption DEF Calls, NoCall
  <2>4. req[t] # NoRequest
    BY <2>1, RequestTypes, NoRequestAssumption
  <2>5. Live(t, f0)
    BY <2>1, <2>3, <2>4 DEF Live, ReleaseOrder
  <2>6. LiveKept(t) /\ \A f \in Flows : Live(t, f)' => f # f0
    <3>1. LiveKept(t)
      BY <1>6, EndKept
    <3>2. pc'[t] = "release" /\ at[t] \in 1..2 /\ ReleaseOrder[at[t]] = f0 /\ at[t] < at'[t]
      BY <2>1
    <3> HIDE DEF f0
    <3> QED BY <3>1, <3>2 DEF Live
  <2>7. BuildKept(t)
    BY <2>1 DEF BuildKept, Building, NoCall
  <2>8. \A u \in Threads, f \in Flows : Live(u, f)' =>
          Live(u, f) /\ req'[u].chain[f] = req[u].chain[f] /\ req[u].chain[f] # c
    <3>1. \A u \in Threads, f \in Flows : Live(u, f) /\ req[u].chain[f] = c => u = t /\ f = f0
      BY <2>2, <2>5 DEF ChainInv
    <3> HIDE DEF f0, c
    <3>2. \A u \in Threads, f \in Flows : Live(u, f)' =>
            Live(u, f) /\ req'[u].chain[f] = req[u].chain[f] /\ ~(u = t /\ f = f0)
      BY <1>others, <2>6 DEF LiveKept
    <3> QED BY <3>1, <3>2
  <2> HIDE DEF f0, c
  <2>9. \A u \in Threads : Building(u)' =>
          Building(u) /\ call'[u].chain = call[u].chain /\ call[u].chain # c
    BY <1>others, <2>2, <2>5, <2>7 DEF BuildKept, ChainInv, c
  <2>10. c \in used
    BY <2>2, <2>5 DEF ChainInv, c
  <2> QED BY <2>1, <2>2, <2>8, <2>9, <2>10 DEF ChainInv
<1> QED BY <1>1, <1>2, <1>3, <1>4, <1>5, <1>6 DEF Step, Plain

\* Every chain a thread refers to is one of its live or built chains.
LEMMA ChainsApart ==
  ASSUME MutexDiscipline, ChainInv
  PROVE  ChainExclusive
<1> SUFFICES ASSUME NEW t \in Threads, NEW u \in Threads
             PROVE  /\ t # u => ChainsOf(t) \cap ChainsOf(u) = {}
                    /\ ChainsOf(t) \cap store = {}
                    /\ \A f, g \in Flows :
                         Live(t, f) /\ Live(t, g) /\ req[t].chain[f] = req[t].chain[g] => f = g
  BY DEF ChainExclusive
<1>1. \A v \in Threads : \A c : c \in ChainsOf(v) =>
        \/ \E f \in Flows : Live(v, f) /\ c = req[v].chain[f]
        \/ Building(v) /\ c = call[v].chain
  BY DEF ChainsOf
<1>2. Building(t) /\ Building(u) => t = u
  BY DEF MutexDiscipline
<1>3. t # u => ChainsOf(t) \cap ChainsOf(u) = {}
  <2> SUFFICES ASSUME t # u, NEW c, c \in ChainsOf(t), c \in ChainsOf(u) PROVE FALSE
    OBVIOUS
  <2>1. CASE Building(t) /\ c = call[t].chain
    BY <1>1, <1>2, <2>1 DEF ChainInv
  <2>2. CASE Building(u) /\ c = call[u].chain
    BY <1>1, <1>2, <2>2 DEF ChainInv
  <2>3. CASE (\E f \in Flows : Live(t, f) /\ c = req[t].chain[f])
             /\ (\E f \in Flows : Live(u, f) /\ c = req[u].chain[f])
    BY <2>3 DEF ChainInv
  <2> QED BY <1>1, <2>1, <2>2, <2>3
<1>4. ChainsOf(t) \cap store = {}
  BY <1>1 DEF ChainInv
<1>5. \A f, g \in Flows :
        Live(t, f) /\ Live(t, g) /\ req[t].chain[f] = req[t].chain[g] => f = g
  BY DEF ChainInv
<1> QED BY <1>3, <1>4, <1>5

LEMMA ChainInvariant == Spec => []ChainInv
<1>1. Init => ChainInv
  <2> SUFFICES ASSUME Init PROVE ChainInv
    OBVIOUS
  <2>1. \A t \in Threads : ~Building(t) /\ \A f \in Flows : ~Live(t, f)
    BY DEF Init, PoolInit, Building, NoCall, Live
  <2> QED BY <2>1 DEF Init, PoolInit, ChainInv
<1>2. TypeOK /\ TypeOK' /\ PhaseInv /\ MutexDiscipline /\ ChainInv /\ [Next]_vars => ChainInv'
  <2> SUFFICES ASSUME TypeOK, TypeOK', PhaseInv, MutexDiscipline, ChainInv, [Next]_vars
               PROVE  ChainInv'
    OBVIOUS
  <2>1. CASE UNCHANGED vars
    <3>1. \A u \in Threads : LiveKept(u) /\ BuildKept(u)
      BY <2>1, KeptOther DEF Untouched, vars, poolVars, engineVars
    <3> QED BY <2>1, <3>1, ChainShrink DEF vars, poolVars
  <2> QED BY <2>1, ChainStep DEF Next
<1> QED BY <1>1, <1>2, TypeCorrect, PhaseInvariant, MutexFreedOnEveryPath, PTL DEF Spec

\* ChainExclusive: m_ChainStore never hands out a chain an engine still uses,
\* although poolHandlerChain empties the chain before it takes the mutex.
THEOREM ChainsAreExclusive == Spec => []ChainExclusive
  BY ChainInvariant, MutexFreedOnEveryPath, ChainsApart, PTL
=============================================================================
