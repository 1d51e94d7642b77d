---------------------- MODULE ServerAxisEngine_objects -----------------------
(***************************************************************************)
(* Safety of the handler and service objects in ServerAxisEngine, for any  *)
(* number of threads, objects, libraries, sessions and services: who uses  *)
(* them, where they belong, which are initialised, where they can be lost, *)
(* and that their life is the lease of module HandlerLease.                *)
(***************************************************************************)
EXTENDS ServerAxisEngine_proofs

-----------------------------------------------------------------------------
(* Application scope.                                                       *)

\* A library with a created object has an entry in its pool's map.
KnownInv ==
  /\ ApplicationSingleton
  /\ \A i \in Insts : home[i] # None => home[i] \in known

\* The loader creates an object of e, or no object is created at all; the pools
\* never forget a library.
Births(t) ==
  /\ known \subseteq known'
  /\ \/ UNCHANGED home
     \/ \E e \in Entries, s \in Sessions, i \in Insts :
          /\ Create(t, e, s, i)
          /\ t \in creating => e.scope = "session"

LEMMA ObtainBirths ==
  ASSUME NEW t \in Threads, NEW e \in Entries, NEW s \in Sessions, NEW i \in Insts,
         Obtain(t, e, s, i), t \in creating => e.scope = "session"
  PROVE  Births(t)
<1>1. CASE TakeIdle(t, e, s, i)
  BY <1>1 DEF TakeIdle, Births
<1>2. CASE Create(t, e, s, i)
  BY <1>2 DEF Create, Births
<1> QED BY <1>1, <1>2 DEF Obtain

\* What the loop of getHandlerChain is at.
LEMMA GettingType ==
  ASSUME TypeOK, NEW t \in Threads, Getting(t)
  PROVE  Current(t) \in Entries /\ call[t].chain \in Chains
<1>1. call[t] \in [op : {"get", "undo", "put"}, chain : Chains, rest : Seq(Entries)]
  BY DEF Getting, TypeOK, PoolTypeOK, Calls, NoCall
<1> QED BY <1>1 DEF Getting, Current

LEMMA StepBirths ==
  ASSUME TypeOK, PhaseInv, NEW t \in Threads, Accept(t) \/ Step(t)
  PROVE  Births(t)
<1>p. PhaseOK(t)
  BY DEF PhaseInv
<1>1. CASE GetWebService(t)
  <2>1. PICK i \in Insts : Obtain(t, Entry(t), Session(t), i)
    BY <1>1 DEF GetWebService
  <2>2. Entry(t) \in Entries /\ Session(t) \in Sessions /\ pc[t] = "service"
    BY <1>1, RequestTypes DEF GetWebService
  <2>3. t \in creating => Entry(t).scope = "session"
    BY <1>p, <2>2 DEF PhaseOK
  <2> QED BY <2>1, <2>2, <2>3, ObtainBirths
<1>2. CASE AddHandler(t, Session(t)) \/ DropCHandler(t, Session(t)) \/ WrongType(t, Session(t))
  <2>1. Getting(t)
    BY <1>2 DEF AddHandler, DropCHandler, WrongType
  <2>2. PICK i \in Insts : Obtain(t, Current(t), Session(t), i)
    BY <1>2 DEF AddHandler, DropCHandler, WrongType
  <2>3. pc[t] = "flows"
    BY <1>p, <2>1 DEF PhaseOK, Getting, Building
  <2>4. Session(t) \in Sessions /\ Current(t) \in Entries
    BY <2>1, <2>3, RequestTypes, GettingType
  <2>5. t \in creating => Current(t).scope = "session"
    BY <1>p, <2>3 DEF PhaseOK
  <2> QED BY <2>2, <2>4, <2>5, ObtainBirths
<1>3. CASE \/ PoolWebService(t) \/ UndoNext(t) \/ PoolNext(t, Session(t))
  <2>1. UNCHANGED home /\ known \subseteq known'
    BY <1>3 DEF PoolWebService, UndoNext, PoolNext, PutNext, PutBack
  <2> QED BY <2>1 DEF Births
<1>4. CASE UNCHANGED <<home, known>>
  BY <1>4 DEF Births
<1>5. CASE \/ Accept(t) \/ ReadMessage(t) \/ UnlockForService(t) \/ ServiceThrows(t)
           \/ NoHandlers(t) \/ InvokeStage(t) \/ HandlerFails(t) \/ FaultCrashes(t)
           \/ ServiceFails(t) \/ ServiceFaults(t) \/ WriteReply(t) \/ WriteFault(t)
           \/ FaultEscapes(t) \/ SkipRelease(t) \/ NoWebService(t)
  BY <1>4, <1>5 DEF Accept, ReadMessage, UnlockForService, ServiceThrows, NoHandlers,
     InvokeStage, HandlerFails, FaultCrashes, ServiceFails, ServiceFaults, WriteReply,
     WriteFault, FaultEscapes, SkipRelease, NoWebService,
     Unlock, ThrowBeingUsed, ThrowCreate, poolVars
<1>6. CASE GetChain(t) \/ ChainReady(t) \/ ChainFails(t) \/ ChainPooled(t)
  BY <1>4, <1>6 DEF GetChain, BeginGet, ChainReady, EndGet, ChainFails, GetBeingUsed,
     GetCreateFails, ThrowBeingUsed, ThrowCreate, EndUndo, StoreChain, ChainPooled, EndPut
<1>7. CASE FillChain(t)
  BY <1>2, <1>3, <1>4, <1>7 DEF FillChain, UnlockForCreate, Unlock
<1>8. CASE PoolChain(t)
  BY <1>3, <1>4, <1>8 DEF PoolChain, BeginPut
<1> QED BY <1>1, <1>3, <1>5, <1>6, <1>7, <1>8 DEF Step

LEMMA KnownStep ==
  ASSUME TypeOK, TypeOK', KnownInv, NEW t \in Threads, Births(t)
  PROVE  KnownInv'
<1>1. CASE UNCHANGED home
  BY <1>1 DEF Births, KnownInv, ApplicationSingleton
<1>2. ASSUME NEW e \in Entries, NEW s \in Sessions, NEW i \in Insts,
             Create(t, e, s, i), t \in creating => e.scope = "session"
      PROVE  KnownInv'
  <2>1. /\ home \in [Insts -> (Scopes \X Libs) \cup {None}]
        /\ home' = [home EXCEPT ![i] = <<e.scope, e.lib>>]
        /\ known' = known \cup {<<e.scope, e.lib>>}
        /\ home[i] = None
    BY <1>2 DEF Create, TypeOK, PoolTypeOK
  <2>2. \A j \in Insts : home'[j] # None => home'[j] \in known'
    BY <2>1 DEF KnownInv
  <2>3. e.scope = "application" => <<e.scope, e.lib>> \notin known
    BY <1>2 DEF Create, Creates, BeingUsed, Idle, Known
  <2>4. ASSUME NEW j \in Insts, j # i, home[j] = <<e.scope, e.lib>>
        PROVE  e.scope # "application"
    <3>1. home[j] # None \/ home[j] = None
      OBVIOUS
    <3>2. <<e.scope, e.lib>> # None
      BY <2>1, ConstantsAssumption DEF Entries
    <3> QED BY <2>3, <2>4, <3>2 DEF KnownInv
  <2>5. <<e.scope, e.lib>>[1] = e.scope
    OBVIOUS
  <2>6. ApplicationSingleton'
    BY <2>1, <2>4, <2>5 DEF KnownInv, ApplicationSingleton
  <2> QED BY <2>2, <2>6 DEF KnownInv
<1> QED BY <1>1, <1>2 DEF Births

\* ApplicationSingleton: AppScopeHandlerPool creates at most one object of a
\* library, because a library without a map entry has never had one.
THEOREM OneApplicationObject == Spec => []ApplicationSingleton
<1>1. Init => KnownInv
  BY DEF Init, PoolInit, KnownInv, ApplicationSingleton
<1>2. TypeOK /\ TypeOK' /\ PhaseInv /\ KnownInv /\ [Next]_vars => KnownInv'
  <2> SUFFICES ASSUME TypeOK, TypeOK', PhaseInv, KnownInv, [Next]_vars PROVE KnownInv'
    OBVIOUS
  <2>1. CASE UNCHANGED vars
    BY <2>1 DEF vars, poolVars, KnownInv, ApplicationSingleton
  <2> QED BY <2>1, StepBirths, KnownStep DEF Next
<1>3. KnownInv => ApplicationSingleton
  BY DEF KnownInv
<1> QED BY <1>1, <1>2, <1>3, TypeCorrect, PhaseInvariant, PTL DEF Spec

-----------------------------------------------------------------------------
(* Exclusive use.                                                           *)

\* The chains some engine refers to.
Active == UNION {ChainsOf(t) : t \in Threads}

WS(t) == IF req[t] = NoRequest THEN None ELSE req[t].ws

H(c, m) == items[c][m].h

\* No object is in two places: in the lists of the pools, in the active chains
\* and in the engines' web service members.
PlacesInv ==
  /\ \A k, l \in Slots : pool[k] \cap pool[l] # {} => k = l
  /\ \A c, d \in Active : \A m \in DOMAIN items[c], n \in DOMAIN items[d] :
       H(c, m) = H(d, n) => c = d /\ m = n
  /\ \A c \in Active : \A m \in DOMAIN items[c] :
       /\ \A k \in Slots : H(c, m) \notin pool[k]
       /\ \A t \in Threads : WS(t) # None => H(c, m) # WS(t)
  /\ \A t \in Threads : WS(t) # None =>
       /\ \A u \in Threads : WS(t) = WS(u) => t = u
       /\ \A k \in Slots : WS(t) \notin pool[k]

\* Object i is in none of those places.
Nowhere(i) ==
  /\ \A k \in Slots : i \notin pool[k]
  /\ \A t \in Threads : WS(t) # i
  /\ \A c \in Active : \A m \in DOMAIN items[c] : H(c, m) # i

CreatedInv == \A i \in Insts : home[i] = None => Nowhere(i)

ObjectInv == PlacesInv /\ CreatedInv

\* An active chain is one an engine has just taken, empty, or was active before.
LEMMA ActiveStep ==
  ASSUME TypeOK, TypeOK', MutexDiscipline, NEW t \in Threads, Accept(t) \/ Step(t)
  PROVE  \/ Active' \subseteq Active
         \/ GetChain(t) /\ Active' \subseteq Active \cup {call'[t].chain}
<1>others. ASSUME NEW u \in Threads, u # t
           PROVE  ChainsOf(u)' \subseteq ChainsOf(u)
  BY <1>others, OtherKept DEF ChainsOf, LiveKept, BuildKept
<1>1. CASE LiveKept(t) /\ BuildKept(t)
  <2>1. ChainsOf(t)' \subseteq ChainsOf(t)
    BY <1>1 DEF ChainsOf, LiveKept, BuildKept
  <2> QED BY <1>others, <2>1 DEF Active
<1>2. CASE GetChain(t)
  <2>1. LiveKept(t)
    BY <1>2 DEF GetChain, engineVars, LiveKept, Live
  <2>2. ChainsOf(t)' \subseteq ChainsOf(t) \cup {call'[t].chain}
    BY <2>1 DEF ChainsOf, LiveKept
  <2> QED BY <1>2, <1>others, <2>2 DEF Active
<1>3. CASE ChainReady(t)
  <2>1. ChainsOf(t)' \subseteq ChainsOf(t)
    BY <1>3, ReadyMoves DEF ChainsOf
  <2> QED BY <1>others, <2>1 DEF Active
<1> QED BY <1>1, <1>2, <1>3, PlainKept, EndKept DEF Step, Plain

\* A chain that is free to be taken is not active.
LEMMA ActiveApart == ASSUME ChainInv PROVE Active \subseteq used \ store
  BY DEF ChainInv, Active, ChainsOf

\* Objects only leave their places.
LEMMA ObjectsLeave ==
  ASSUME ObjectInv, None \notin Insts,
         \A k \in Slots : pool'[k] \subseteq pool[k],
         \A i \in Insts : home'[i] = None => home[i] = None,
         \A c \in Active' : \/ items'[c] = <<>>
                            \/ c \in Active /\ items'[c] = items[c],
         \A u \in Threads : WS(u)' = WS(u) \/ WS(u)' = None
  PROVE  ObjectInv'
<1>1. \A c \in Active' : \A m \in DOMAIN items'[c] :
        c \in Active /\ m \in DOMAIN items[c] /\ items'[c] = items[c]
  OBVIOUS
<1>2. PlacesInv'
  BY <1>1 DEF ObjectInv, PlacesInv, H
<1>3. CreatedInv'
  BY <1>1 DEF ObjectInv, CreatedInv, Nowhere, H
<1> QED BY <1>2, <1>3 DEF ObjectInv

\* getHandler returned object i: it has left its pool, or is new.
Fetched(i) ==
  /\ \A k \in Slots : pool'[k] \subseteq pool[k] /\ i \notin pool'[k]
  /\ home'[i] # None
  /\ \A j \in Insts : home'[j] = None => home[j] = None
  /\ \A u \in Threads : WS(u) # i
  /\ \A c \in Active : \A m \in DOMAIN items[c] : H(c, m) # i

LEMMA ObtainFetches ==
  ASSUME TypeOK, ObjectInv, NEW t \in Threads, NEW e \in Entries, NEW s \in Sessions,
         NEW i \in Insts, Obtain(t, e, s, i)
  PROVE  Fetched(i)
<1>t. /\ pool \in [Slots -> SUBSET Insts]
      /\ home \in [Insts -> (Scopes \X Libs) \cup {None}]
  BY DEF TypeOK, PoolTypeOK
<1>s. Source(e, s) \in Slots
  BY DEF Source, SlotOf, Slots, Entries
<1>1. CASE TakeIdle(t, e, s, i)
  <2> DEFINE k0 == Source(e, s)
  <2>1. /\ i \in pool[k0] /\ pool' = [pool EXCEPT ![k0] = @ \ {i}] /\ home' = home
    BY <1>1 DEF TakeIdle
  <2> HIDE DEF k0
  <2>2. k0 \in Slots
    BY <1>s DEF k0
  <2>3. \A k \in Slots : pool'[k] \subseteq pool[k] /\ i \notin pool'[k]
    BY <1>t, <2>1, <2>2 DEF ObjectInv, PlacesInv
  <2>4. home[i] # None
    BY <2>1, <2>2 DEF ObjectInv, CreatedInv, Nowhere
  <2>5. \A u \in Threads : WS(u) # i
    BY <2>1, <2>2, ConstantsAssumption DEF ObjectInv, PlacesInv
  <2>6. \A c \in Active : \A m \in DOMAIN items[c] : H(c, m) # i
    BY <2>1, <2>2 DEF ObjectInv, PlacesInv
  <2> QED BY <2>1, <2>3, <2>4, <2>5, <2>6 DEF Fetched
<1>2. CASE Create(t, e, s, i)
  <2>1. home[i] = None /\ home' = [home EXCEPT ![i] = <<e.scope, e.lib>>] /\ pool' = pool
    BY <1>2 DEF Create
  <2>2. Nowhere(i)
    BY <2>1 DEF ObjectInv, CreatedInv
  <2>3. <<e.scope, e.lib>> # None
    BY ConstantsAssumption DEF Entries
  <2> QED BY <1>t, <2>1, <2>2, <2>3 DEF Fetched, Nowhere
<1> QED BY <1>1, <1>2 DEF Obtain

\* A fetched object becomes the web service of t.
LEMMA ObjectServes ==
  ASSUME ObjectInv, NEW t \in Threads, NEW i \in Insts, Fetched(i),
         Active' \subseteq Active, UNCHANGED items,
         WS(t)' = i, \A u \in Threads : u # t => WS(u)' = WS(u)
  PROVE  ObjectInv'
<1>1. PlacesInv'
  BY DEF ObjectInv, PlacesInv, Fetched, H
<1>2. CreatedInv'
  BY DEF ObjectInv, CreatedInv, Nowhere, Fetched, H
<1> QED BY <1>1, <1>2 DEF ObjectInv

\* A fetched object joins the chain d.
LEMMA ObjectJoins ==
  ASSUME TypeOK, ObjectInv, NEW i \in Insts, Fetched(i),
         Active \subseteq Chains, Active' \subseteq Active,
         NEW d \in Chains, NEW e \in Entries,
         items' = [items EXCEPT ![d] = Append(@, [h |-> i, e |-> e])],
         \A u \in Threads : WS(u)' = WS(u)
  PROVE  ObjectInv'
<1> DEFINE x == [h |-> i, e |-> e]  n == Len(items[d]) + 1
<1>1. items \in [Chains -> Seq(Items)] /\ x.h = i
  BY DEF TypeOK, PoolTypeOK
<1>2. \A c \in Chains : c # d => items'[c] = items[c]
  BY <1>1
<1>3. \A m \in DOMAIN items'[d] :
        \/ m \in DOMAIN items[d] /\ items'[d][m] = items[d][m]
        \/ m = n /\ items'[d][m] = x
  <2> DEFINE s == items[d]
  <2>1. s \in Seq(Items) /\ items'[d] = Append(s, x) /\ x \in Items /\ n = Len(s) + 1
    BY <1>1 DEF Items
  <2> HIDE DEF s, x, n
  <2>2. \A m \in DOMAIN Append(s, x) :
          \/ m \in DOMAIN s /\ Append(s, x)[m] = s[m]
          \/ m = n /\ Append(s, x)[m] = x
    BY <2>1
  <2> QED BY <2>1, <2>2 DEF s
<1> HIDE DEF n, x
<1>w. \A c \in Active' : \A m \in DOMAIN items'[c] :
        /\ c \in Active /\ c \in Chains
        /\ \/ m \in DOMAIN items[c] /\ H(c, m)' = H(c, m)
           \/ c = d /\ m = n /\ H(c, m)' = i
  BY <1>1, <1>2, <1>3 DEF H
<1>4. PlacesInv'
  <2>1. \A k, l \in Slots : pool'[k] \cap pool'[l] # {} => k = l
    BY DEF ObjectInv, PlacesInv, Fetched
  <2>2. \A a, b \in Active' : \A m \in DOMAIN items'[a], o \in DOMAIN items'[b] :
          H(a, m)' = H(b, o)' => a = b /\ m = o
    BY <1>w DEF ObjectInv, PlacesInv, Fetched
  <2>3. \A c \in Active' : \A m \in DOMAIN items'[c] :
          /\ \A k \in Slots : H(c, m)' \notin pool'[k]
          /\ \A u \in Threads : WS(u)' # None => H(c, m)' # WS(u)'
    BY <1>w DEF ObjectInv, PlacesInv, Fetched
  <2>4. \A u \in Threads : WS(u)' # None =>
          /\ \A v \in Threads : WS(u)' = WS(v)' => u = v
          /\ \A k \in Slots : WS(u)' \notin pool'[k]
    BY DEF ObjectInv, PlacesInv, Fetched
  <2> QED BY <2>1, <2>2, <2>3, <2>4 DEF PlacesInv
<1>5. CreatedInv'
  BY <1>w DEF ObjectInv, CreatedInv, Nowhere, Fetched
<1> QED BY <1>4, <1>5 DEF ObjectInv

\* Object i has left its place and goes to the list k0 of a pool.  The other
\* objects of a chain c have moved forward by off[c] positions.
LEMMA ObjectIdles ==
  ASSUME ObjectInv, NEW i \in Insts, home[i] # None, NEW k0 \in Slots,
         pool \in [Slots -> SUBSET Insts],
         pool' = [pool EXCEPT ![k0] = @ \cup {i}], UNCHANGED home,
         \A k \in Slots : i \notin pool[k],
         \A u \in Threads : WS(u)' = None \/ (WS(u)' = WS(u) /\ WS(u) # i),
         Active \subseteq Chains, Active' \subseteq Active,
         items' \in [Chains -> Seq(Items)], NEW off \in [Chains -> {0, 1}],
         \A c \in Active' : \A m \in DOMAIN items'[c] :
           /\ m + off[c] \in DOMAIN items[c]
           /\ H(c, m)' = H(c, m + off[c]) /\ H(c, m)' # i
  PROVE  ObjectInv'
<1>n. \A c \in Active' : \A m \in DOMAIN items'[c] : m \in Nat /\ off[c] \in {0, 1}
  <2> SUFFICES ASSUME NEW c \in Chains PROVE \A m \in DOMAIN items'[c] : m \in Nat
    OBVIOUS
  <2>1. items'[c] \in Seq(Items)
    OBVIOUS
  <2> QED BY <2>1
<1>p. \A k \in Slots : pool'[k] = pool[k] \/ (k = k0 /\ pool'[k] = pool[k] \cup {i})
  OBVIOUS
<1>1. \A k, l \in Slots : pool'[k] \cap pool'[l] # {} => k = l
  BY <1>p DEF ObjectInv, PlacesInv
<1>2. \A a, b \in Active' : \A m \in DOMAIN items'[a], o \in DOMAIN items'[b] :
        H(a, m)' = H(b, o)' => a = b /\ m = o
  <2> TAKE a, b \in Active'
  <2> TAKE m \in DOMAIN items'[a], o \in DOMAIN items'[b]
  <2> HAVE H(a, m)' = H(b, o)'
  <2>1. a = b /\ m + off[a] = o + off[b]
    BY DEF ObjectInv, PlacesInv
  <2> QED BY <1>n, <2>1
<1>3. \A c \in Active' : \A m \in DOMAIN items'[c] :
        /\ \A k \in Slots : H(c, m)' \notin pool'[k]
        /\ \A u \in Threads : WS(u)' # None => H(c, m)' # WS(u)'
  BY <1>p DEF ObjectInv, PlacesInv
<1>4. \A u \in Threads : WS(u)' # None =>
        /\ \A v \in Threads : WS(u)' = WS(v)' => u = v
        /\ \A k \in Slots : WS(u)' \notin pool'[k]
  BY <1>p DEF ObjectInv, PlacesInv
<1>5. CreatedInv'
  <2> SUFFICES ASSUME NEW j \in Insts, home[j] = None
               PROVE  Nowhere(j)'
    BY DEF CreatedInv
  <2>1. j # i /\ Nowhere(j)
    BY DEF ObjectInv, CreatedInv
  <2>2. \A k \in Slots : j \notin pool'[k]
    BY <1>p, <2>1 DEF Nowhere
  <2>3. \A u \in Threads : WS(u)' # j
    BY <2>1, ConstantsAssumption DEF Nowhere
  <2>4. \A c \in Active' : \A m \in DOMAIN items'[c] : H(c, m)' # j
    BY <2>1 DEF Nowhere
  <2> QED BY <2>2, <2>3, <2>4 DEF Nowhere
<1>6. PlacesInv'
  BY <1>1, <1>2, <1>3, <1>4 DEF PlacesInv
<1> QED BY <1>5, <1>6 DEF ObjectInv

\* A chain a thread works on is active.
LEMMA WorkingActive ==
  ASSUME TypeOK, PhaseInv, NEW t \in Threads, call[t].op # "none"
  PROVE  call[t].chain \in Active /\ call[t].chain \in Chains
<1>t. /\ call \in [Threads -> Calls] /\ at \in [Threads -> 1..7]
  BY DEF TypeOK, PoolTypeOK, EngineTypeOK
<1>1. call[t].op \in {"get", "undo", "put"} /\ call[t].chain \in Chains
  BY <1>t DEF Calls, NoCall
<1>2. CASE Building(t)
  BY <1>1, <1>2 DEF Active, ChainsOf
<1>3. CASE call[t].op = "put"
  <2> DEFINE f0 == ReleaseOrder[at[t]]
  <2>1. pc[t] = "release" /\ at[t] \in 1..2 /\ call[t].chain = req[t].chain[f0]
    BY <1>t, <1>3 DEF PhaseInv, PhaseOK, ChainAt
  <2>2. req[t] # NoRequest /\ f0 \in Flows
    BY <2>1, RequestTypes, NoRequestAssumption, Orders
  <2>3. Live(t, f0)
    BY <1>1, <2>1, <2>2, ConstantsAssumption DEF Live, ReleaseOrder
  <2>4. call[t].chain \in ChainsOf(t)
    BY <2>1, <2>2, <2>3 DEF ChainsOf
  <2> QED BY <1>1, <2>4 DEF Active
<1> QED BY <1>1, <1>2, <1>3 DEF Building

\* The web service of t after a step of t that leaves its request's object alone.
LEMMA WSOther ==
  ASSUME TypeOK, NEW t \in Threads, Accept(t) \/ Step(t),
         NEW u \in Threads, u # t
  PROVE  WS(u)' = WS(u)
  BY OtherThreads DEF Untouched, WS

\* One iteration of the loops that pool the handlers of a chain.
LEMMA PutNextObjects ==
  ASSUME TypeOK, TypeOK', PhaseInv, ObjectInv,
         NEW t \in Threads, NEW s \in Sessions \cup {Sessionless},
         call[t].op \in {"undo", "put"}, PutNext(t, s),
         Active \subseteq Chains, Active' \subseteq Active,
         \A u \in Threads : WS(u)' = WS(u)
  PROVE  ObjectInv'
<1> DEFINE d == call[t].chain  x == Head(items[d])  i == x.h  k0 == SlotOf(x.e, s)
           off == [c \in Chains |-> IF c = d THEN 1 ELSE 0]
<1>1. /\ items \in [Chains -> Seq(Items)] /\ items' \in [Chains -> Seq(Items)]
      /\ pool \in [Slots -> SUBSET Insts]
  BY DEF TypeOK, PoolTypeOK
<1>2. d \in Chains /\ d \in Active
  BY WorkingActive
<1>3. /\ items[d] # <<>> /\ items' = [items EXCEPT ![d] = Tail(items[d])]
      /\ pool' = [pool EXCEPT ![k0] = @ \cup {i}] /\ UNCHANGED home
  BY DEF PutNext, PutBack
<1>4. x \in Items /\ x = items[d][1] /\ 1 \in DOMAIN items[d] /\ i = H(d, 1)
  BY <1>1, <1>2, <1>3 DEF H
<1>5. i \in Insts /\ x.e \in Entries
  BY <1>4 DEF Items
<1>6. k0 \in Slots
  BY <1>5 DEF SlotOf, Slots, Entries
<1>7. home[i] # None
  BY <1>2, <1>4, <1>5 DEF ObjectInv, CreatedInv, Nowhere
<1>8. \A k \in Slots : i \notin pool[k]
  BY <1>2, <1>4 DEF ObjectInv, PlacesInv
<1>9. \A u \in Threads : WS(u)' = None \/ (WS(u)' = WS(u) /\ WS(u) # i)
  BY <1>2, <1>4 DEF ObjectInv, PlacesInv
<1>10. off \in [Chains -> {0, 1}]
  OBVIOUS
<1>11. \A c \in Active' : \A m \in DOMAIN items'[c] :
         /\ m + off[c] \in DOMAIN items[c]
         /\ H(c, m)' = H(c, m + off[c]) /\ H(c, m)' # i
  <2> SUFFICES ASSUME NEW c \in Chains, c \in Active, NEW m \in DOMAIN items'[c]
               PROVE  /\ m + off[c] \in DOMAIN items[c]
                      /\ H(c, m)' = H(c, m + off[c]) /\ H(c, m)' # i
    OBVIOUS
  <2>1. CASE c = d
    <3> DEFINE q == items[d]
    <3>1. q \in Seq(Items) /\ q # <<>> /\ items'[c] = Tail(q) /\ off[c] = 1
      BY <1>1, <1>2, <1>3, <2>1
    <3>2. m \in DOMAIN Tail(q)
      BY <3>1
    <3> HIDE DEF q
    <3>3. m \in Nat /\ m # 0 /\ m + 1 \in DOMAIN q /\ Tail(q)[m] = q[m + 1]
      BY <3>1, <3>2
    <3>4. H(c, m)' = H(c, m + 1) /\ m + 1 \in DOMAIN items[c]
      BY <2>1, <3>1, <3>3 DEF H, q
    <3>5. m + 1 # 1
      BY <3>3
    <3>6. H(c, m + 1) # i
      BY <1>2, <1>4, <2>1, <3>4, <3>5 DEF ObjectInv, PlacesInv
    <3> QED BY <3>1, <3>4, <3>6
  <2>2. CASE c # d
    <3>1. items'[c] = items[c] /\ off[c] = 0
      BY <1>1, <1>3, <2>2
    <3>2. items[c] \in Seq(Items)
      BY <1>1
    <3>3. m + 0 = m /\ m \in DOMAIN items[c]
      BY <3>1, <3>2
    <3>4. H(c, m)' = H(c, m)
      BY <3>1 DEF H
    <3>5. H(c, m) # i
      BY <1>2, <1>4, <2>2, <3>3 DEF ObjectInv, PlacesInv
    <3> QED BY <3>1, <3>3, <3>4, <3>5
  <2> QED BY <2>1, <2>2
<1> HIDE DEF d, i, k0, off, x
<1> QED
  BY <1>1, <1>3, <1>5, <1>6, <1>7, <1>8, <1>9, <1>10, <1>11, ObjectIdles

\* The steps that touch no object.
LEMMA ObjectFrame ==
  ASSUME TypeOK, ObjectInv, UNCHANGED <<pool, home, items>>, Active' \subseteq Active,
         \A u \in Threads : WS(u)' = WS(u) \/ WS(u)' = None
  PROVE  ObjectInv'
  BY ObjectsLeave, ConstantsAssumption

LEMMA ObjectInvStep ==
  ASSUME TypeOK, TypeOK', PhaseInv, MutexDiscipline, ChainInv, ObjectInv,
         NEW t \in Threads, Accept(t) \/ Step(t)
  PROVE  ObjectInv'
<1>t. /\ req \in [Threads -> Requests \cup {NoRequest}] /\ items \in [Chains -> Seq(Items)]
      /\ pool \in [Slots -> SUBSET Insts] /\ call \in [Threads -> Calls]
      /\ used \subseteq Chains
  BY DEF TypeOK, PoolTypeOK, EngineTypeOK
<1>others. \A u \in Threads : u # t => WS(u)' = WS(u)
  BY WSOther
<1>c. Active \subseteq Chains /\ Active \subseteq used \ store
  BY <1>t, ActiveApart
<1>r. ASSUME pc[t] # "idle"
      PROVE  /\ req[t] \in Requests /\ req[t] # NoRequest /\ WS(t) = req[t].ws
             /\ Entry(t) \in Entries /\ Session(t) \in Sessions
  BY <1>r, RequestTypes, NoRequestAssumption DEF WS
<1>a. ASSUME ~GetChain(t) PROVE Active' \subseteq Active
  BY <1>a, ActiveStep
<1>f. ASSUME ~GetChain(t), UNCHANGED <<pool, home, items>>, WS(t)' = WS(t) \/ WS(t)' = None
      PROVE  ObjectInv'
  BY <1>a, <1>f, <1>others, ObjectFrame
<1>1. CASE GetWebService(t)
  <2>1. PICK i \in Insts :
          /\ Obtain(t, Entry(t), Session(t), i)
          /\ \/ req' = [req EXCEPT ![t].ws = i]
             \/ req' = [req EXCEPT ![t].ws = i, ![t].fault = "style"]
    BY <1>1 DEF GetWebService
  <2>2. pc[t] = "service" /\ UNCHANGED items
    BY <1>1 DEF GetWebService, NoChainStep
  <2>3. Fetched(i)
    BY <1>r, <2>1, <2>2, ObtainFetches
  <2>4. req'[t].ws = i /\ req'[t] # NoRequest
    <3>1. req'[t].ws = i
      BY <1>t, <1>r, <2>1, <2>2 DEF Requests
    <3>2. pc'[t] # "idle"
      BY <1>1 DEF GetWebService, Goto, TypeOK, EngineTypeOK
    <3> QED BY <3>1, <3>2 DEF TypeOK, EngineTypeOK
  <2>5. WS(t)' = i
    BY <2>4 DEF WS
  <2>6. ~GetChain(t)
    BY <2>2 DEF GetChain
  <2> QED BY <1>a, <1>others, <2>2, <2>3, <2>5, <2>6, ObjectServes
<1>2. CASE GetChain(t)
  <2>1. PICK c \in Chains :
          /\ c \in store \/ c \notin used
          /\ items' = [items EXCEPT ![c] = <<>>]
          /\ call' = [call EXCEPT ![t] = [op |-> "get", chain |-> c, rest |-> ListAt(t)]]
    BY <1>2 DEF GetChain, BeginGet
  <2>2. UNCHANGED <<pool, home, req>>
    BY <1>2 DEF GetChain, BeginGet, engineVars
  <2>3. call'[t].chain = c
    BY <1>t, <2>1
  <2>4. Active' \subseteq Active \cup {c}
    BY <2>3, ActiveStep
  <2>5. \A d \in Active' : items'[d] = <<>> \/ (d \in Active /\ items'[d] = items[d])
    BY <1>t, <1>c, <2>1, <2>4
  <2>6. \A u \in Threads : WS(u)' = WS(u)
    BY <2>2 DEF WS
  <2> QED BY <2>2, <2>5, <2>6, ObjectsLeave, ConstantsAssumption
<1>3. CASE FillChain(t)
  <2>1. pc[t] = "flows" /\ UNCHANGED req
    BY <1>3 DEF FillChain, engineVars
  <2>2. \A u \in Threads : WS(u)' = WS(u)
    BY <2>1 DEF WS
  <2>a. CASE GetChain(t)
    BY <1>2, <2>a
  <2>b. CASE ~GetChain(t)
    <3>1. CASE AddHandler(t, Session(t))
      <4>1. PICK i \in Insts :
              /\ Obtain(t, Current(t), Session(t), i)
              /\ items' = [items EXCEPT ![call[t].chain] =
                             Append(@, [h |-> i, e |-> Current(t)])]
        BY <3>1 DEF AddHandler
      <4>2. Current(t) \in Entries /\ call[t].chain \in Chains
        BY <3>1, GettingType DEF AddHandler
      <4>3. Fetched(i)
        BY <1>r, <2>1, <4>1, <4>2, ObtainFetches
      <4> QED BY <1>a, <1>c, <2>2, <2>b, <4>1, <4>2, <4>3, ObjectJoins
    <3>2. CASE DropCHandler(t, Session(t)) \/ WrongType(t, Session(t))
      <4>1. PICK i \in Insts : Obtain(t, Current(t), Session(t), i)
        BY <3>2 DEF DropCHandler, WrongType
      <4>2. Current(t) \in Entries /\ UNCHANGED items
        BY <3>2, GettingType DEF DropCHandler, WrongType
      <4>3. Fetched(i)
        BY <1>r, <2>1, <4>1, <4>2, ObtainFetches
      <4> QED
        BY <1>a, <2>2, <2>b, <4>2, <4>3, ObjectsLeave, ConstantsAssumption DEF Fetched
    <3>3. CASE UnlockForCreate(t, Session(t))
      BY <1>f, <2>2, <2>b, <3>3 DEF UnlockForCreate, Unlock
    <3>4. CASE UndoNext(t)
      <4>1. call[t].op = "undo" /\ PutNext(t, Sessionless)
        BY <3>4 DEF UndoNext
      <4> QED BY <1>a, <1>c, <2>2, <2>b, <4>1, PutNextObjects
    <3> QED BY <1>3, <3>1, <3>2, <3>3, <3>4 DEF FillChain
  <2> QED BY <2>a, <2>b
<1>4. CASE PoolChain(t)
  <2>1. pc[t] = "release" /\ UNCHANGED req /\ ~GetChain(t)
    BY <1>4 DEF PoolChain, engineVars, GetChain
  <2>2. \A u \in Threads : WS(u)' = WS(u)
    BY <2>1 DEF WS
  <2>3. CASE BeginPut(t, ChainAt(t))
    BY <1>f, <2>1, <2>2, <2>3 DEF BeginPut
  <2>4. CASE PoolNext(t, Session(t))
    <3>1. call[t].op = "put" /\ PutNext(t, Session(t)) /\ Session(t) \in Sessions
      BY <1>r, <2>1, <2>4 DEF PoolNext
    <3> QED BY <1>a, <1>c, <2>1, <2>2, <3>1, PutNextObjects
  <2> QED BY <1>4, <2>3, <2>4 DEF PoolChain
<1>5. CASE PoolWebService(t)
  <2>1. /\ pc[t] = "release" /\ req[t].ws # None /\ ~GetChain(t) /\ UNCHANGED items
        /\ PutBack(Entry(t), Session(t), req[t].ws, TRUE)
        /\ req' = [req EXCEPT ![t] = NoRequest]
    BY <1>5 DEF PoolWebService, EndRequest, NoChainStep, GetChain
  <2> DEFINE i == req[t].ws  k0 == SlotOf(Entry(t), Session(t))
             off == [c \in Chains |-> 0]
  <2>2. i \in Insts /\ i = WS(t) /\ i # None
    BY <1>r, <2>1, RequestTypes
  <2>3. k0 \in Slots
    BY <1>r, <2>1 DEF SlotOf, Slots, Entries
  <2>4. pool' = [pool EXCEPT ![k0] = @ \cup {i}] /\ UNCHANGED home
    BY <2>1 DEF PutBack
  <2>5. home[i] # None
    BY <2>2 DEF ObjectInv, CreatedInv, Nowhere
  <2>6. \A k \in Slots : i \notin pool[k]
    BY <2>2 DEF ObjectInv, PlacesInv
  <2>7. \A u \in Threads : WS(u)' = None \/ (WS(u)' = WS(u) /\ WS(u) # i)
    <3>1. WS(t)' = None
      BY <1>t, <2>1 DEF WS, NoRequest
    <3>2. \A u \in Threads : u # t => WS(u) # i
      BY <2>2 DEF ObjectInv, PlacesInv
    <3> QED BY <1>others, <3>1, <3>2
  <2>8. off \in [Chains -> {0, 1}]
    OBVIOUS
  <2>9. Active' \subseteq Active
    BY <1>a, <2>1
  <2>10. \A c \in Active' : \A m \in DOMAIN items'[c] :
           /\ m + off[c] \in DOMAIN items[c]
           /\ H(c, m)' = H(c, m + off[c]) /\ H(c, m)' # i
    <3> SUFFICES ASSUME NEW c \in Chains, c \in Active, NEW m \in DOMAIN items[c]
                 PROVE  /\ m + off[c] \in DOMAIN items[c]
                        /\ H(c, m)' = H(c, m + off[c]) /\ H(c, m)' # i
      BY <1>c, <2>1, <2>9
    <3>1. items[c] \in Seq(Items)
      BY <1>t
    <3>2. m + 0 = m /\ off[c] = 0
      BY <3>1
    <3>3. H(c, m)' = H(c, m)
      BY <2>1 DEF H
    <3>4. H(c, m) # i
      BY <2>2 DEF ObjectInv, PlacesInv
    <3> QED BY <3>2, <3>3, <3>4
  <2>11. items' \in [Chains -> Seq(Items)]
    BY <1>t, <2>1
  <2> HIDE DEF i, k0, off
  <2> QED
    BY <1>t, <1>c, <2>2, <2>3, <2>4, <2>5, <2>6, <2>7, <2>8, <2>9, <2>10, <2>11, ObjectIdles
<1>6. CASE NoWebService(t)
  <2>1. /\ UNCHANGED <<pool, home, items>> /\ ~GetChain(t)
        /\ req' = [req EXCEPT ![t] = NoRequest]
    BY <1>6 DEF NoWebService, EndRequest, poolVars, GetChain
  <2>2. WS(t)' = None
    BY <1>t, <2>1 DEF WS, NoRequest
  <2> QED BY <1>f, <2>1, <2>2
<1>7. CASE Accept(t)
  <2>1. UNCHANGED <<pool, home, items>> /\ ~GetChain(t) /\ req'[t].ws = None
    BY <1>7, <1>t DEF Accept, poolVars, GetChain
  <2>2. WS(t)' = None
    BY <2>1 DEF WS
  <2> QED BY <1>f, <2>1, <2>2
<1>8. CASE \/ ReadMessage(t) \/ ServiceThrows(t) \/ ChainFails(t) \/ ChainReady(t)
           \/ InvokeStage(t) \/ HandlerFails(t) \/ ServiceFails(t) \/ ServiceFaults(t)
           \/ WriteReply(t) \/ WriteFault(t)
  <2>1. pc[t] # "idle"
    BY <1>8 DEF ReadMessage, ServiceThrows, ChainFails, HandlerFails, ServiceFails, ChainReady,
       InvokeStage, ServiceFaults, WriteReply, WriteFault
  <2>2. req'[t].ws = req[t].ws
    BY <1>8, <1>t, <1>r, <2>1 DEF ReadMessage, ServiceThrows, ChainFails, HandlerFails,
       ServiceFails, ChainReady, InvokeStage, ServiceFaults, WriteReply, WriteFault, Fail,
       Requests
  <2>3. UNCHANGED <<pool, home, items>>
    BY <1>8 DEF ReadMessage, ServiceThrows, ChainFails, HandlerFails, ServiceFails, ChainReady,
       InvokeStage, ServiceFaults, WriteReply, WriteFault, ThrowBeingUsed, ThrowCreate, NoChainStep, GetBeingUsed, GetCreateFails, AbandonGet,
       EndUndo, StoreChain, EndGet, poolVars
  <2>4. WS(t)' = WS(t) \/ WS(t)' = None
    BY <1>r, <2>1, <2>2 DEF WS, NoRequest
  <2> QED BY <1>f, <1>2, <2>3, <2>4
<1>9. CASE UnlockForService(t) \/ NoHandlers(t) \/ FaultCrashes(t)
           \/ SkipRelease(t)
  <2>1. UNCHANGED <<pool, home, items, req>>
    BY <1>9 DEF UnlockForService, Unlock, NoChainStep, NoHandlers, FaultCrashes,
       SkipRelease, poolVars, engineVars
  <2>2. WS(t)' = WS(t)
    BY <2>1 DEF WS
  <2> QED BY <1>f, <1>2, <2>1, <2>2
<1>10. CASE ChainPooled(t)
  <2>1. UNCHANGED <<pool, home, items, req>>
    BY <1>10 DEF ChainPooled, EndPut, StoreChain
  <2>2. WS(t)' = WS(t)
    BY <2>1 DEF WS
  <2> QED BY <1>f, <1>2, <2>1, <2>2
<1>11. CASE FaultEscapes(t)
  <2>1. UNCHANGED <<pool, home, items>> /\ ~GetChain(t)
    BY <1>11 DEF FaultEscapes, poolVars, GetChain
  <2>2. UNCHANGED req \/ req' = [req EXCEPT ![t] = NoRequest]
    BY <1>11 DEF FaultEscapes, EndRequest
  <2>3. WS(t)' = WS(t) \/ WS(t)' = None
    BY <1>t, <2>2 DEF WS, NoRequest
  <2> QED BY <1>f, <2>1, <2>3
<1> QED
  BY <1>1, <1>2, <1>3, <1>4, <1>5, <1>6, <1>7, <1>8, <1>9, <1>10, <1>11 DEF Step

\* What ExclusiveUse says in terms of the places.
LEMMA PlacesApart ==
  ASSUME MutexDiscipline, ChainInv, PlacesInv
  PROVE  ExclusiveUse
<1>1. ChainExclusive
  BY ChainsApart
<1>2. \A u \in Threads : \A i : i \in HandlersOf(u) =>
        \/ i = WS(u) /\ i # None
        \/ \E c \in ChainsOf(u) : \E m \in DOMAIN items[c] : i = H(c, m)
  BY DEF HandlersOf, WebServiceOf, WS, HandlersIn, H
<1>3. \A u \in Threads : ChainsOf(u) \subseteq Active
  BY DEF Active
<1>4. ASSUME NEW t \in Threads PROVE HandlersOf(t) \cap Pooled = {}
  BY <1>2, <1>3 DEF PlacesInv, Pooled
<1>5. ASSUME NEW t \in Threads, NEW u \in Threads, u # t
      PROVE  HandlersOf(t) \cap HandlersOf(u) = {}
  <2>1. ChainsOf(t) \cap ChainsOf(u) = {}
    BY <1>1, <1>5 DEF ChainExclusive
  <2>2. SUFFICES ASSUME NEW i, i \in HandlersOf(t), i \in HandlersOf(u) PROVE FALSE
    OBVIOUS
  <2>3. CASE i = WS(t) /\ i # None
    BY <1>2, <1>3, <1>5, <2>2, <2>3 DEF PlacesInv
  <2>4. CASE i = WS(u) /\ i # None
    BY <1>2, <1>3, <1>5, <2>2, <2>4 DEF PlacesInv
  <2>5. CASE /\ \E c \in ChainsOf(t) : \E m \in DOMAIN items[c] : i = H(c, m)
             /\ \E c \in ChainsOf(u) : \E m \in DOMAIN items[c] : i = H(c, m)
    <3>1. PICK c \in ChainsOf(t) : \E m \in DOMAIN items[c] : i = H(c, m)
      BY <2>5
    <3>2. PICK d \in ChainsOf(u) : \E n \in DOMAIN items[d] : i = H(d, n)
      BY <2>5
    <3>3. c = d
      BY <1>3, <3>1, <3>2 DEF PlacesInv
    <3> QED BY <2>1, <3>1, <3>2, <3>3
  <2> QED BY <1>2, <2>2, <2>3, <2>4, <2>5
<1> QED BY <1>4, <1>5 DEF ExclusiveUse

LEMMA ObjectInvariant == Spec => []ObjectInv
<1>1. Init => ObjectInv
  <2> SUFFICES ASSUME Init PROVE ObjectInv
    OBVIOUS
  <2>1. \A t \in Threads : ~Building(t) /\ WS(t) = None /\ \A f \in Flows : ~Live(t, f)
    BY DEF Init, PoolInit, Building, NoCall, Live, WS, NoRequest
  <2>2. Active = {}
    BY <2>1 DEF Active, ChainsOf
  <2>3. \A k \in Slots : pool[k] = {}
    BY DEF Init, PoolInit
  <2> QED
    BY <2>1, <2>2, <2>3, ConstantsAssumption DEF ObjectInv, PlacesInv, CreatedInv, Nowhere
<1>2. TypeOK /\ TypeOK' /\ PhaseInv /\ MutexDiscipline /\ ChainInv /\ ObjectInv /\ [Next]_vars
        => ObjectInv'
  <2> SUFFICES ASSUME TypeOK, TypeOK', PhaseInv, MutexDiscipline, ChainInv, ObjectInv,
                      [Next]_vars
               PROVE  ObjectInv'
    OBVIOUS
  <2>1. CASE UNCHANGED vars
    <3>1. UNCHANGED <<pool, home, items, req>>
      BY <2>1 DEF vars, poolVars, engineVars
    <3>2. Active' \subseteq Active
      BY <2>1 DEF vars, poolVars, engineVars, Active, ChainsOf, Live, Building
    <3> QED BY <3>1, <3>2, ObjectFrame DEF WS
  <2> QED BY <2>1, ObjectInvStep DEF Next
<1> QED
  BY <1>1, <1>2, TypeCorrect, PhaseInvariant, MutexFreedOnEveryPath, ChainInvariant,
     PTL DEF Spec

\* ExclusiveUse: the pools lend a handler or service object to one engine at a
\* time, through every error path of getHandlerChain, process and releaseHandlers.
THEOREM ObjectsAreExclusive == Spec => []ExclusiveUse
<1>1. MutexDiscipline /\ ChainInv /\ ObjectInv => ExclusiveUse
  BY PlacesApart DEF ObjectInv
<1> QED BY <1>1, MutexFreedOnEveryPath, ChainInvariant, ObjectInvariant, PTL

-----------------------------------------------------------------------------
(* The members of an engine as process() fills them.                        *)

\* The chain pointers of the flows process has not come to are null, and so is
\* m_pWebService until getWebService has returned.
MemberOK(t) ==
  /\ pc[t] \in {"message", "service"} =>
       req[t].ws = None /\ \A f \in Flows : req[t].chain[f] = None
  /\ pc[t] = "flows" =>
       \A n \in 1..6 : n >= at[t] => req[t].chain[GetOrder[n]] = None
  /\ pc[t] \in {"flows", "invoke"} => req[t].ws # None

MemberInv == \A t \in Threads : MemberOK(t)

\* The flows process asks chains for are different ones.
LEMMA OrderInjective == \A n, m \in 1..6 : GetOrder[n] = GetOrder[m] => n = m
  BY DEF GetOrder

LEMMA MemberStep ==
  ASSUME TypeOK, TypeOK', MemberInv, NEW t \in Threads, Accept(t) \/ Step(t)
  PROVE  MemberInv'
<1>others. ASSUME NEW u \in Threads, u # t PROVE MemberOK(u)'
  <2>1. Untouched(u)
    BY <1>others, OtherThreads
  <2> QED BY <2>1 DEF Untouched, MemberInv, MemberOK
<1> SUFFICES MemberOK(t)'
  BY <1>others DEF MemberInv
<1>0. MemberOK(t)
  BY DEF MemberInv
<1>t. /\ pc \in [Threads -> Phases] /\ at \in [Threads -> 1..7]
      /\ req \in [Threads -> Requests \cup {NoRequest}]
  BY DEF TypeOK, EngineTypeOK
<1>r. ASSUME pc[t] # "idle"
      PROVE  /\ req[t] \in Requests /\ req[t].chain \in [Flows -> Chains \cup {None}]
  BY <1>r, RequestTypes
<1>f. ASSUME pc'[t] \notin {"message", "service", "flows", "invoke"}
      PROVE  MemberOK(t)'
  BY <1>f DEF MemberOK
<1>1. CASE Accept(t)
  <2>1. pc'[t] = "message" /\ req'[t].ws = None /\ req'[t].chain = [f \in Flows |-> None]
    BY <1>1, <1>t DEF Accept, Goto
  <2> QED BY <2>1 DEF MemberOK
<1>2. CASE ReadMessage(t)
  <2>1. \/ pc[t] = "message" /\ pc'[t] = "service" /\ req' = req
        \/ pc'[t] = "fault"
    BY <1>2, <1>t DEF ReadMessage, Fail, Goto
  <2> QED BY <1>0, <2>1 DEF MemberOK
<1>3. CASE GetWebService(t)
  <2>1. PICK i \in Insts :
          \/ req' = [req EXCEPT ![t].ws = i] /\ Goto(t, "flows")
          \/ Goto(t, "fault")
    BY <1>3 DEF GetWebService
  <2>2. CASE req' = [req EXCEPT ![t].ws = i] /\ Goto(t, "flows")
    <3>1. pc[t] = "service"
      BY <1>3 DEF GetWebService
    <3>2. req'[t].ws = i /\ req'[t].chain = req[t].chain
      BY <1>t, <1>r, <2>2, <3>1 DEF Requests
    <3>3. i # None /\ pc'[t] = "flows"
      BY <1>t, <2>2, ConstantsAssumption DEF Goto
    <3> QED BY <1>0, <3>1, <3>2, <3>3, Orders DEF MemberOK
  <2>3. CASE Goto(t, "fault")
    BY <1>t, <1>f, <2>3 DEF Goto
  <2> QED BY <2>1, <2>2, <2>3
<1>4. CASE NoHandlers(t) \/ ChainReady(t)
  <2>1. /\ pc[t] = "flows" /\ at[t] \in 1..6 /\ Advance(t, "invoke")
        /\ Last(pc[t]) = 6
    BY <1>4, <1>t DEF NoHandlers, ChainReady, TypeOK, EngineTypeOK, Last
  <2>2. \/ pc'[t] = "invoke"
        \/ pc'[t] = "flows" /\ at'[t] = at[t] + 1
    BY <1>t, <2>1 DEF Advance, Goto
  <2>3. /\ req'[t].ws = req[t].ws
        /\ \A f \in Flows : f # GetOrder[at[t]] => req'[t].chain[f] = req[t].chain[f]
    <3>1. CASE NoHandlers(t)
      BY <3>1 DEF NoHandlers
    <3>2. CASE ChainReady(t)
      <4>1. req' = [req EXCEPT ![t].chain[GetOrder[at[t]]] = call[t].chain]
        BY <3>2 DEF ChainReady
      <4> QED BY <1>t, <1>r, <2>1, <4>1 DEF Requests
    <3> QED BY <1>4, <3>1, <3>2
  <2>4. \A n \in 1..6 : n >= at[t] + 1 => GetOrder[n] # GetOrder[at[t]] /\ GetOrder[n] \in Flows
    BY <2>1, Orders, OrderInjective
  <2>5. \A n \in 1..6 : n >= at[t] + 1 => req'[t].chain[GetOrder[n]] = None
    BY <1>0, <2>1, <2>3, <2>4 DEF MemberOK
  <2> QED BY <1>0, <2>1, <2>2, <2>3, <2>5 DEF MemberOK
<1>5. CASE InvokeStage(t)
  <2>1. pc[t] = "invoke" /\ pc'[t] \in {"invoke", "reply"}
    BY <1>5, <1>t DEF InvokeStage, Advance, Goto
  <2>2. req'[t].ws = req[t].ws
    BY <1>5, <1>t, <1>r, <2>1 DEF InvokeStage, Requests
  <2> QED BY <1>0, <2>1, <2>2 DEF MemberOK
<1>6. CASE \/ UnlockForService(t) \/ GetChain(t) \/ FillChain(t) \/ PoolChain(t)
           \/ FaultCrashes(t)
  <2>1. UNCHANGED <<pc, at, req>>
    BY <1>6 DEF UnlockForService, GetChain, FillChain, PoolChain, FaultCrashes, engineVars
  <2> QED BY <1>0, <2>1 DEF MemberOK
<1>7. CASE \/ ServiceThrows(t) \/ ChainFails(t) \/ HandlerFails(t) \/ ServiceFails(t)
           \/ ServiceFaults(t) \/ WriteReply(t) \/ WriteFault(t)
           \/ PoolWebService(t) \/ NoWebService(t)
  <2>1. pc'[t] \in {"fault", "reply", "release", "idle"}
    BY <1>7, <1>t DEF ServiceThrows, ChainFails, HandlerFails, ServiceFails, ServiceFaults,
       WriteReply, WriteFault, PoolWebService, NoWebService, EndRequest, Fail, Goto
  <2> QED BY <1>f, <2>1
<1>8. CASE SkipRelease(t) \/ ChainPooled(t)
  <2>1. pc'[t] = "release"
    BY <1>8 DEF SkipRelease, ChainPooled
  <2> QED BY <1>f, <2>1
<1>9. CASE FaultEscapes(t)
  <2>1. pc'[t] \in {"fault", "idle"}
    BY <1>9, <1>t DEF FaultEscapes, EndRequest, Goto
  <2> QED BY <1>f, <2>1
<1> QED
  BY <1>1, <1>2, <1>3, <1>4, <1>5, <1>6, <1>7, <1>8, <1>9 DEF Step

LEMMA MemberInvariant == Spec => []MemberInv
<1>1. Init => MemberInv
  BY DEF Init, MemberInv, MemberOK
<1>2. TypeOK /\ TypeOK' /\ MemberInv /\ [Next]_vars => MemberInv'
  <2> SUFFICES ASSUME TypeOK, TypeOK', MemberInv, [Next]_vars PROVE MemberInv'
    OBVIOUS
  <2>1. CASE UNCHANGED vars
    BY <2>1 DEF vars, engineVars, MemberInv, MemberOK
  <2> QED BY <2>1, MemberStep DEF Next
<1> QED BY <1>1, <1>2, TypeCorrect, PTL DEF Spec

-----------------------------------------------------------------------------
(* Where the objects belong, and which are initialised.                     *)

At(e) == <<e.scope, e.lib>>

\* An idle object is in a list of the pool and library it was created for; a
\* web service was created for the service of its request, a chain's object for
\* its ChainItem, which names a library of handlers.
PoolsHome == \A k \in Slots : \A i \in pool[k] : home[i] = <<k[1], k[2]>>
ServicesHome ==
  \A t \in Threads : req[t] # NoRequest /\ req[t].ws # None => home[req[t].ws] = At(Entry(t))
ChainsHome ==
  \A c \in Chains : \A m \in DOMAIN items[c] :
    /\ home[H(c, m)] = At(items[c][m].e)
    /\ KindOf[items[c][m].e.lib] = "handler"

\* Only the objects of handler libraries are ever finalised.
ReadyHome == \A i \in Insts : home[i] # None /\ KindOf[home[i][2]] # "handler" => i \in ready

HomeInv == PoolsHome /\ ServicesHome /\ ChainsHome /\ ReadyHome

\* An object keeps its home.
HomeKept == \A i \in Insts : home[i] # None => home'[i] = home[i]

LEMMA AtHome == ASSUME NEW e \in Entries PROVE At(e) # None /\ At(e) \in Scopes \X Libs
  BY ConstantsAssumption DEF Entries, At

LEMMA ObtainHome ==
  ASSUME TypeOK, HomeInv, NEW t \in Threads, NEW e \in Entries, NEW s \in Sessions,
         NEW i \in Insts, Obtain(t, e, s, i)
  PROVE  home'[i] = At(e) /\ HomeKept /\ PoolsHome' /\ ReadyHome'
<1>t. /\ pool \in [Slots -> SUBSET Insts] /\ ready \subseteq Insts
      /\ home \in [Insts -> (Scopes \X Libs) \cup {None}]
  BY DEF TypeOK, PoolTypeOK
<1>s. /\ Source(e, s) \in Slots /\ Source(e, s)[1] = e.scope /\ Source(e, s)[2] = e.lib
  BY DEF Source, SlotOf, Slots, Entries
<1>1. CASE TakeIdle(t, e, s, i)
  <2> DEFINE k0 == Source(e, s)
  <2>1. /\ i \in pool[k0] /\ pool' = [pool EXCEPT ![k0] = @ \ {i}] /\ home' = home
        /\ ready' = ready
    BY <1>1 DEF TakeIdle
  <2>2. home[i] = At(e)
    BY <1>s, <2>1 DEF HomeInv, PoolsHome, At
  <2> HIDE DEF k0
  <2>3. \A k \in Slots : pool'[k] \subseteq pool[k]
    BY <1>t, <2>1
  <2> QED BY <2>1, <2>2, <2>3 DEF HomeInv, HomeKept, PoolsHome, ReadyHome
<1>2. CASE Create(t, e, s, i)
  <2>1. /\ home[i] = None /\ home' = [home EXCEPT ![i] = At(e)] /\ pool' = pool
        /\ ready' = ready \cup {i}
    BY <1>2 DEF Create, At
  <2>2. home'[i] = At(e) /\ \A j \in Insts : j # i => home'[j] = home[j]
    BY <1>t, <2>1
  <2>3. HomeKept
    BY <2>1, <2>2 DEF HomeKept
  <2>4. PoolsHome'
    <3> SUFFICES ASSUME NEW k \in Slots, NEW j \in pool[k] PROVE home'[j] = <<k[1], k[2]>>
      BY <2>1 DEF PoolsHome
    <3>1. home[j] = <<k[1], k[2]>> /\ <<k[1], k[2]>> # None /\ j \in Insts
      BY <1>t, ConstantsAssumption DEF HomeInv, PoolsHome, Slots
    <3> QED BY <2>1, <2>2, <3>1
  <2>5. ReadyHome'
    BY <2>1, <2>2 DEF HomeInv, ReadyHome
  <2> QED BY <2>2, <2>3, <2>4, <2>5
<1> QED BY <1>1, <1>2 DEF Obtain

\* An object that goes back to the pool it was created for stays initialised
\* unless it is a handler.
LEMMA PutHome ==
  ASSUME TypeOK, HomeInv, NEW e \in Entries, NEW s \in Sessions \cup {Sessionless},
         NEW i \in Insts, NEW b \in BOOLEAN, PutBack(e, s, i, b),
         home[i] = At(e), b \/ KindOf[e.lib] = "handler"
  PROVE  HomeKept /\ PoolsHome' /\ ReadyHome'
<1>t. pool \in [Slots -> SUBSET Insts]
  BY DEF TypeOK, PoolTypeOK
<1> DEFINE k0 == SlotOf(e, s)
<1>s. k0 \in Slots /\ k0[1] = e.scope /\ k0[2] = e.lib
  BY DEF SlotOf, Slots, Entries
<1>1. pool' = [pool EXCEPT ![k0] = @ \cup {i}] /\ home' = home
  BY DEF PutBack
<1>2. ready' = ready \/ (~b /\ ready' = ready \ {i})
  BY DEF PutBack
<1> HIDE DEF k0
<1>3. \A k \in Slots : pool'[k] = pool[k] \/ (k = k0 /\ pool'[k] = pool[k] \cup {i})
  BY <1>t, <1>1
<1>4. PoolsHome'
  BY <1>s, <1>1, <1>3 DEF HomeInv, PoolsHome, At
<1>5. ReadyHome'
  BY <1>1, <1>2 DEF HomeInv, ReadyHome, At
<1> QED BY <1>1, <1>4, <1>5 DEF HomeKept

\* What a step does to the service and the object of an engine.
SvcKept(u) ==
  \/ req'[u] = NoRequest
  \/ req'[u].ws = None
  \/ req[u] # NoRequest /\ req'[u].ws = req[u].ws /\ req'[u].svc = req[u].svc

LEMMA SvcStep ==
  ASSUME TypeOK, NEW t \in Threads, Accept(t) \/ Step(t),
         NEW u \in Threads, u # t \/ ~GetWebService(t)
  PROVE  SvcKept(u)
<1>t. req \in [Threads -> Requests \cup {NoRequest}]
  BY DEF TypeOK, EngineTypeOK
<1>s. ASSUME req'[u] = req[u] PROVE SvcKept(u)
  BY <1>s DEF SvcKept
<1>1. CASE u # t
  BY <1>1, <1>s, OtherThreads DEF Untouched
<1>2. CASE u = t /\ Accept(t)
  BY <1>2, <1>t DEF Accept, SvcKept
<1>3. CASE u = t /\ (PoolWebService(t) \/ NoWebService(t) \/ FaultEscapes(t))
  <2>1. req'[t] = NoRequest \/ req'[t] = req[t]
    BY <1>3, <1>t DEF PoolWebService, NoWebService, FaultEscapes, EndRequest
  <2> QED BY <1>3, <1>s, <2>1 DEF SvcKept
<1>4. CASE u = t /\ (\/ ReadMessage(t) \/ ServiceThrows(t) \/ ChainFails(t) \/ ChainReady(t)
           \/ InvokeStage(t) \/ HandlerFails(t) \/ ServiceFails(t) \/ ServiceFaults(t)
           \/ WriteReply(t) \/ WriteFault(t))
  <2>1. pc[t] # "idle"
    BY <1>4 DEF ReadMessage, ServiceThrows, ChainFails, HandlerFails, ServiceFails, ChainReady,
       InvokeStage, ServiceFaults, WriteReply, WriteFault
  <2>2. req[t] \in Requests /\ req[t] # NoRequest
    BY <2>1, RequestTypes, NoRequestAssumption
  <2>3. req'[t].ws = req[t].ws /\ req'[t].svc = req[t].svc
    BY <1>4, <1>t, <2>2 DEF ReadMessage, ServiceThrows, ChainFails, HandlerFails,
       ServiceFails, ChainReady, InvokeStage, ServiceFaults, WriteReply, WriteFault, Fail,
       Requests
  <2> QED BY <1>4, <2>2, <2>3 DEF SvcKept
<1>5. CASE u = t /\ (\/ UnlockForService(t) \/ NoHandlers(t) \/ GetChain(t) \/ FillChain(t)
           \/ FaultCrashes(t) \/ SkipRelease(t) \/ PoolChain(t) \/ ChainPooled(t))
  BY <1>5, <1>s DEF UnlockForService, NoHandlers, GetChain, FillChain, FaultCrashes,
     SkipRelease, PoolChain, ChainPooled, engineVars
<1> QED BY <1>1, <1>2, <1>3, <1>4, <1>5 DEF Step

LEMMA ServicesStay ==
  ASSUME TypeOK, TypeOK', HomeInv, HomeKept, \A u \in Threads : SvcKept(u)
  PROVE  ServicesHome'
<1> SUFFICES ASSUME NEW u \in Threads, req'[u] # NoRequest, req'[u].ws # None
             PROVE  home'[req'[u].ws] = At(Entry(u))'
  BY DEF ServicesHome
<1>1. /\ req[u] # NoRequest /\ req'[u].ws = req[u].ws /\ req'[u].svc = req[u].svc
  BY DEF SvcKept
<1>2. home[req[u].ws] = At(Entry(u)) /\ Entry(u)' = Entry(u)
  BY <1>1 DEF HomeInv, ServicesHome, Entry
<1>3. pc[u] # "idle" /\ req[u].ws \in Insts
  BY <1>1, RequestTypes DEF TypeOK, EngineTypeOK
<1>4. At(Entry(u)) # None
  BY <1>3, RequestTypes, AtHome
<1> QED BY <1>1, <1>2, <1>3, <1>4 DEF HomeKept, At

LEMMA ChainsStay ==
  ASSUME TypeOK, TypeOK', HomeInv, HomeKept,
         \A c \in Chains : \A m \in DOMAIN items'[c] :
           \E n \in DOMAIN items[c] : items'[c][m] = items[c][n]
  PROVE  ChainsHome'
<1> SUFFICES ASSUME NEW c \in Chains, NEW m \in DOMAIN items'[c]
             PROVE  /\ home'[items'[c][m].h] = At(items'[c][m].e)
                    /\ KindOf[items'[c][m].e.lib] = "handler"
  BY DEF ChainsHome, H, At
<1>1. PICK n \in DOMAIN items[c] : items'[c][m] = items[c][n]
  OBVIOUS
<1>2. /\ home[items[c][n].h] = At(items[c][n].e)
      /\ KindOf[items[c][n].e.lib] = "handler"
  BY DEF HomeInv, ChainsHome, H
<1>3. items[c][n] \in Items
  BY DEF TypeOK, PoolTypeOK
<1>4. items[c][n].h \in Insts /\ home[items[c][n].h] # None
  BY <1>2, <1>3, AtHome DEF Items
<1> QED BY <1>1, <1>2, <1>4 DEF HomeKept

\* One iteration of the loops that pool the handlers of a chain.
LEMMA PutNextHome ==
  ASSUME TypeOK, TypeOK', HomeInv, NEW t \in Threads, NEW s \in Sessions \cup {Sessionless},
         call[t].chain \in Chains, PutNext(t, s), \A u \in Threads : SvcKept(u)
  PROVE  HomeInv'
<1> DEFINE d == call[t].chain  x == Head(items[d])
<1>1. items \in [Chains -> Seq(Items)] /\ items[d] # <<>>
  BY DEF TypeOK, PoolTypeOK, PutNext
<1>2. x = items[d][1] /\ 1 \in DOMAIN items[d] /\ x.h \in Insts /\ x.e \in Entries
  <2> DEFINE q == items[d]
  <2>1. q \in Seq(Items) /\ q # <<>> /\ x = Head(q)
    BY <1>1
  <2> HIDE DEF q, x
  <2>2. x = q[1] /\ 1 \in DOMAIN q /\ x \in Items
    BY <2>1
  <2> QED BY <2>2 DEF Items, q
<1>3. home[x.h] = At(x.e) /\ KindOf[x.e.lib] = "handler"
  BY <1>2 DEF HomeInv, ChainsHome, H
<1>4. PutBack(x.e, s, x.h, FALSE) /\ items' = [items EXCEPT ![d] = Tail(@)]
  BY DEF PutNext
<1>5. HomeKept /\ PoolsHome' /\ ReadyHome'
  <2> HIDE DEF x
  <2> QED BY <1>2, <1>3, <1>4, PutHome
<1>6. \A c \in Chains : \A m \in DOMAIN items'[c] :
        \E n \in DOMAIN items[c] : items'[c][m] = items[c][n]
  <2> SUFFICES ASSUME NEW c \in Chains, NEW m \in DOMAIN items'[c]
               PROVE  \E n \in DOMAIN items[c] : items'[c][m] = items[c][n]
    OBVIOUS
  <2>1. CASE c = d
    <3> DEFINE q == items[d]
    <3>1. q \in Seq(Items) /\ q # <<>> /\ items'[c] = Tail(q)
      BY <1>1, <1>4, <2>1
    <3>2. m \in DOMAIN Tail(q)
      BY <3>1
    <3> HIDE DEF q
    <3>3. m + 1 \in DOMAIN q /\ Tail(q)[m] = q[m + 1]
      BY <3>1, <3>2
    <3> QED BY <2>1, <3>1, <3>3 DEF q
  <2>2. CASE c # d
    BY <1>1, <1>4, <2>2
  <2> QED BY <2>1, <2>2
<1>7. ServicesHome' /\ ChainsHome'
  BY <1>5, <1>6, ServicesStay, ChainsStay
<1> QED BY <1>5, <1>7 DEF HomeInv

LEMMA HomeStep ==
  ASSUME TypeOK, TypeOK', PhaseInv, HomeInv, NEW t \in Threads, Accept(t) \/ Step(t)
  PROVE  HomeInv'
<1>t. /\ req \in [Threads -> Requests \cup {NoRequest}] /\ items \in [Chains -> Seq(Items)]
      /\ call \in [Threads -> Calls]
  BY DEF TypeOK, PoolTypeOK, EngineTypeOK
<1>r. ASSUME pc[t] # "idle"
      PROVE  /\ req[t] \in Requests /\ req[t] # NoRequest
             /\ Entry(t) \in Entries /\ Session(t) \in Sessions
  BY <1>r, RequestTypes, NoRequestAssumption
<1>o. \A u \in Threads : u # t \/ ~GetWebService(t) => SvcKept(u)
  BY SvcStep
<1>f. ASSUME UNCHANGED <<pool, home, items, ready>>, \A u \in Threads : SvcKept(u)
      PROVE  HomeInv'
  <2>1. HomeKept /\ PoolsHome' /\ ReadyHome' /\ ChainsHome'
    BY <1>f DEF HomeKept, HomeInv, PoolsHome, ReadyHome, ChainsHome, H
  <2>2. ServicesHome'
    BY <1>f, <2>1, ServicesStay
  <2> QED BY <2>1, <2>2 DEF HomeInv
<1>i. ASSUME UNCHANGED items
      PROVE  \A c \in Chains : \A m \in DOMAIN items'[c] :
               \E n \in DOMAIN items[c] : items'[c][m] = items[c][n]
  BY <1>i
<1>1. CASE GetWebService(t)
  <2>1. PICK i \in Insts :
          /\ Obtain(t, Entry(t), Session(t), i)
          /\ \/ req' = [req EXCEPT ![t].ws = i]
             \/ req' = [req EXCEPT ![t].ws = i, ![t].fault = "style"]
    BY <1>1 DEF GetWebService
  <2>2. pc[t] = "service" /\ UNCHANGED items
    BY <1>1 DEF GetWebService, NoChainStep
  <2>3. home'[i] = At(Entry(t)) /\ HomeKept /\ PoolsHome' /\ ReadyHome'
    BY <1>r, <2>1, <2>2, ObtainHome
  <2>4. req'[t].ws = i /\ req'[t].svc = req[t].svc
    BY <1>t, <1>r, <2>1, <2>2 DEF Requests
  <2>5. ASSUME NEW u \in Threads, u # t, req'[u] # NoRequest, req'[u].ws # None
        PROVE  home'[req'[u].ws] = At(Entry(u))'
    <3>1. /\ req'[u] = req[u]
      BY <2>5, OtherThreads DEF Untouched
    <3>2. home[req[u].ws] = At(Entry(u)) /\ Entry(u)' = Entry(u)
      BY <2>5, <3>1 DEF HomeInv, ServicesHome, Entry
    <3>3. pc[u] # "idle" /\ req[u].ws \in Insts
      BY <2>5, <3>1, RequestTypes DEF TypeOK, EngineTypeOK
    <3>4. At(Entry(u)) # None
      BY <3>3, RequestTypes, AtHome
    <3> QED BY <2>3, <3>1, <3>2, <3>3, <3>4 DEF HomeKept, At
  <2>6. home'[req'[t].ws] = At(Entry(t))'
    BY <2>3, <2>4 DEF At, Entry
  <2>7. ServicesHome'
    BY <2>5, <2>6 DEF ServicesHome
  <2>8. ChainsHome'
    BY <1>i, <2>2, <2>3, ChainsStay
  <2> QED BY <2>3, <2>7, <2>8 DEF HomeInv
<1>2. CASE GetChain(t)
  <2>1. PICK c \in Chains : items' = [items EXCEPT ![c] = <<>>]
    BY <1>2 DEF GetChain, BeginGet
  <2>2. UNCHANGED <<pool, home, ready, req>>
    BY <1>2 DEF GetChain, BeginGet, engineVars
  <2>3. HomeKept /\ PoolsHome' /\ ReadyHome'
    BY <2>2 DEF HomeKept, HomeInv, PoolsHome, ReadyHome
  <2>4. \A d \in Chains : items'[d] = items[d] \/ items'[d] = <<>>
    BY <1>t, <2>1
  <2>5. \A d \in Chains : \A m \in DOMAIN items'[d] :
          \E n \in DOMAIN items[d] : items'[d][m] = items[d][n]
    BY <2>4
  <2>6. \A u \in Threads : SvcKept(u)
    BY <2>2 DEF SvcKept
  <2> QED BY <2>3, <2>5, <2>6, ServicesStay, ChainsStay DEF HomeInv
<1>3. CASE FillChain(t)
  <2>1. pc[t] = "flows" /\ UNCHANGED req
    BY <1>3 DEF FillChain, engineVars
  <2>2. \A u \in Threads : SvcKept(u)
    BY <2>1 DEF SvcKept
  <2>3. CASE AddHandler(t, Session(t))
    <3> DEFINE d == call[t].chain  e == Current(t)
    <3>1. PICK i \in Insts :
            /\ Obtain(t, e, Session(t), i)
            /\ items' = [items EXCEPT ![d] = Append(@, [h |-> i, e |-> e])]
      BY <2>3 DEF AddHandler
    <3>2. e \in Entries /\ d \in Chains /\ KindOf[e.lib] = "handler"
      BY <2>3, GettingType DEF AddHandler
    <3> HIDE DEF d, e
    <3>3. home'[i] = At(e) /\ HomeKept /\ PoolsHome' /\ ReadyHome'
      BY <1>r, <2>1, <3>1, <3>2, ObtainHome
    <3> DEFINE x == [h |-> i, e |-> e]
    <3>4. \A c \in Chains : \A m \in DOMAIN items'[c] :
            \/ \E n \in DOMAIN items[c] : items'[c][m] = items[c][n]
            \/ items'[c][m] = x
      <4> SUFFICES ASSUME NEW c \in Chains, NEW m \in DOMAIN items'[c]
                   PROVE  \/ \E n \in DOMAIN items[c] : items'[c][m] = items[c][n]
                          \/ items'[c][m] = x
        OBVIOUS
      <4>1. CASE c = d
        <5> DEFINE q == items[d]
        <5>1. q \in Seq(Items) /\ items'[c] = Append(q, x) /\ x \in Items
          BY <1>t, <3>1, <3>2, <4>1 DEF Items
        <5> HIDE DEF q, x
        <5>2. (m \in DOMAIN q /\ Append(q, x)[m] = q[m]) \/ Append(q, x)[m] = x
          BY <5>1
        <5> QED BY <4>1, <5>1, <5>2 DEF q
      <4>2. CASE c # d
        BY <1>t, <3>1, <4>2
      <4> QED BY <4>1, <4>2
    <3>5. ChainsHome'
      <4> SUFFICES ASSUME NEW c \in Chains, NEW m \in DOMAIN items'[c]
                   PROVE  /\ home'[items'[c][m].h] = At(items'[c][m].e)
                          /\ KindOf[items'[c][m].e.lib] = "handler"
        BY DEF ChainsHome, H, At
      <4>1. CASE items'[c][m] = x
        BY <3>2, <3>3, <4>1
      <4>2. ASSUME NEW n \in DOMAIN items[c], items'[c][m] = items[c][n]
            PROVE  /\ home'[items'[c][m].h] = At(items'[c][m].e)
                   /\ KindOf[items'[c][m].e.lib] = "handler"
        <5>1. /\ home[items[c][n].h] = At(items[c][n].e)
              /\ KindOf[items[c][n].e.lib] = "handler"
          BY DEF HomeInv, ChainsHome, H
        <5>2. items[c][n] \in Items
          BY <1>t
        <5>3. items[c][n].h \in Insts /\ home[items[c][n].h] # None
          BY <5>1, <5>2, AtHome DEF Items
        <5> QED BY <3>3, <4>2, <5>1, <5>3 DEF HomeKept
      <4> QED BY <3>4, <4>1, <4>2
    <3> QED BY <2>2, <3>3, <3>5, ServicesStay DEF HomeInv
  <2>4. CASE DropCHandler(t, Session(t)) \/ WrongType(t, Session(t))
    <3>1. PICK i \in Insts : Obtain(t, Current(t), Session(t), i)
      BY <2>4 DEF DropCHandler, WrongType
    <3>2. Current(t) \in Entries /\ UNCHANGED items
      BY <2>4, GettingType DEF DropCHandler, WrongType
    <3>3. HomeKept /\ PoolsHome' /\ ReadyHome'
      BY <1>r, <2>1, <3>1, <3>2, ObtainHome
    <3> QED BY <1>i, <2>2, <3>2, <3>3, ServicesStay, ChainsStay DEF HomeInv
  <2>5. CASE UnlockForCreate(t, Session(t))
    BY <1>f, <2>2, <2>5 DEF UnlockForCreate, Unlock
  <2>6. CASE UndoNext(t)
    <3>1. call[t].op = "undo" /\ PutNext(t, Sessionless)
      BY <2>6 DEF UndoNext
    <3>2. call[t].chain \in Chains
      BY <3>1, WorkingActive
    <3> QED BY <2>2, <3>1, <3>2, PutNextHome
  <2> QED BY <1>3, <2>3, <2>4, <2>5, <2>6 DEF FillChain
<1>4. CASE PoolChain(t)
  <2>1. pc[t] = "release" /\ UNCHANGED req
    BY <1>4 DEF PoolChain, engineVars
  <2>2. \A u \in Threads : SvcKept(u)
    BY <2>1 DEF SvcKept
  <2>3. CASE BeginPut(t, ChainAt(t))
    BY <1>f, <2>2, <2>3 DEF BeginPut
  <2>4. CASE PoolNext(t, Session(t))
    <3>1. call[t].op = "put" /\ PutNext(t, Session(t)) /\ Session(t) \in Sessions
      BY <1>r, <2>1, <2>4 DEF PoolNext
    <3>2. call[t].chain \in Chains
      BY <3>1, WorkingActive
    <3> QED BY <2>2, <3>1, <3>2, PutNextHome
  <2> QED BY <1>4, <2>3, <2>4 DEF PoolChain
<1>5. CASE PoolWebService(t)
  <2>1. /\ pc[t] = "release" /\ req[t].ws # None /\ UNCHANGED items
        /\ PutBack(Entry(t), Session(t), req[t].ws, TRUE)
        /\ ~GetWebService(t)
    BY <1>5 DEF PoolWebService, NoChainStep, GetWebService
  <2>2. req[t].ws \in Insts /\ home[req[t].ws] = At(Entry(t))
    BY <1>r, <2>1, RequestTypes DEF HomeInv, ServicesHome
  <2>3. HomeKept /\ PoolsHome' /\ ReadyHome'
    BY <1>r, <2>1, <2>2, PutHome
  <2> QED BY <1>i, <1>o, <2>1, <2>3, ServicesStay, ChainsStay DEF HomeInv
<1>6. CASE \/ Accept(t) \/ ReadMessage(t) \/ UnlockForService(t) \/ ServiceThrows(t)
           \/ NoHandlers(t) \/ InvokeStage(t) \/ HandlerFails(t) \/ FaultCrashes(t)
           \/ ServiceFails(t) \/ ServiceFaults(t) \/ WriteReply(t) \/ WriteFault(t)
           \/ FaultEscapes(t) \/ SkipRelease(t) \/ NoWebService(t)
           \/ ChainReady(t) \/ ChainFails(t) \/ ChainPooled(t)
  <2>1. UNCHANGED <<pool, home, items, ready>>
    BY <1>6 DEF Accept, ReadMessage, UnlockForService, ServiceThrows, NoHandlers,
       InvokeStage, HandlerFails, FaultCrashes, ServiceFails, ServiceFaults, WriteReply,
       WriteFault, FaultEscapes, SkipRelease, NoWebService, ChainReady, ChainFails,
       ChainPooled, Unlock, ThrowBeingUsed, ThrowCreate, GetBeingUsed, GetCreateFails,
       AbandonGet, EndUndo, EndPut, StoreChain, EndGet, NoChainStep, poolVars
  <2>2. CASE ~GetWebService(t)
    BY <1>f, <1>o, <2>1, <2>2
  <2> QED BY <1>1, <2>2
<1> QED
  BY <1>1, <1>2, <1>3, <1>4, <1>5, <1>6 DEF Step

LEMMA HomeInvariant == Spec => []HomeInv
<1>1. Init => HomeInv
  BY DEF Init, PoolInit, HomeInv, PoolsHome, ServicesHome, ChainsHome, ReadyHome
<1>2. TypeOK /\ TypeOK' /\ PhaseInv /\ HomeInv /\ [Next]_vars => HomeInv'
  <2> SUFFICES ASSUME TypeOK, TypeOK', PhaseInv, HomeInv, [Next]_vars PROVE HomeInv'
    OBVIOUS
  <2>1. CASE UNCHANGED vars
    BY <2>1 DEF vars, poolVars, engineVars, HomeInv, PoolsHome, ServicesHome, ChainsHome,
       ReadyHome, Entry, H, At
  <2> QED BY <2>1, HomeStep DEF Next
<1> QED BY <1>1, <1>2, TypeCorrect, PhaseInvariant, PTL DEF Spec

\* ServiceReady: the object that invoke calls has been initialised by the loader
\* and not finalised since, because poolHandlerChain gives back handlers only,
\* each to the library it came from, and a request that has come to invoke has
\* its web service.
THEOREM ServicesAreReady == Spec => []ServiceReady
<1>1. TypeOK /\ MemberInv /\ HomeInv => ServiceReady
  <2> SUFFICES ASSUME TypeOK, MemberInv, HomeInv, NEW t \in Threads, pc[t] = "invoke"
               PROVE  req[t].ws \in ready
    BY DEF ServiceReady
  <2>1. /\ req[t].ws # None /\ req[t] # NoRequest /\ req[t].ws \in Insts
        /\ req[t].svc \in Services
    BY RequestTypes, NoRequestAssumption DEF MemberInv, MemberOK
  <2>2. home[req[t].ws] = At(Entry(t)) /\ Entry(t) \in Entries
    BY <2>1, RequestTypes DEF HomeInv, ServicesHome
  <2>3. home[req[t].ws] # None /\ home[req[t].ws][2] = ServiceEntry[req[t].svc].lib
    BY <2>2, AtHome DEF At, Entry
  <2> QED BY <2>1, <2>3, ServiceAssumption DEF HomeInv, ReadyHome
<1> QED BY <1>1, TypeCorrect, MemberInvariant, HomeInvariant, PTL

-----------------------------------------------------------------------------
(* How a step moves an object between the pools and the engines.            *)

\* Object i is the web service of t or in one of its chains.
InChains(t, i) == \E c \in ChainsOf(t) : \E m \in DOMAIN items[c] : H(c, m) = i

Holds(t, i) == WS(t) = i \/ InChains(t, i)

LEMMA HeldIff ==
  ASSUME NEW t \in Threads, NEW i \in Insts
  PROVE  /\ i \in HandlersOf(t) <=> Holds(t, i)
         /\ i \in HandlersOf(t)' <=> Holds(t, i)'
<1>1. i # None
  BY ConstantsAssumption
<1> QED BY <1>1 DEF HandlersOf, WebServiceOf, HandlersIn, Holds, InChains, WS, H, NoRequest

LEMMA PooledIff ==
  ASSUME NEW i
  PROVE  /\ i \in Pooled <=> \E k \in Slots : i \in pool[k]
         /\ i \in Pooled' <=> \E k \in Slots : i \in pool'[k]
  BY DEF Pooled

\* Nothing happens to i.
Steady(t, i) ==
  /\ home'[i] = None <=> home[i] = None
  /\ i \in Pooled' <=> i \in Pooled
  /\ Holds(t, i)' <=> Holds(t, i)

\* getHandler returns i to t, which puts it to use or drops it.
LentTo(t, i) ==
  /\ home[i] = None \/ i \in Pooled
  /\ ~Holds(t, i)
  /\ home'[i] # None /\ i \notin Pooled'
  /\ \/ Holds(t, i)'
     \/ /\ Getting(t) /\ KindOf[Current(t).lib] # "handler"
        /\ home[i] = None \/ home[i] = At(Current(t))

\* The objects of chains t forgets.
Abandons(t, i) ==
  \/ pc[t] = "fault" /\ req[t].header
  \/ /\ InChains(t, i)
     /\ \/ pc[t] = "flows" /\ req'[t].fault \in {"beingUsed", "create"}
        \/ /\ pc[t] = "release" /\ pc'[t] = "idle"
           /\ \E f \in Flows \ {"SReq", "SRes"} : Live(t, f)

\* t gives i back to a pool, or forgets it.
GivenUp(t, i) ==
  /\ Holds(t, i)
  /\ home'[i] # None /\ ~Holds(t, i)'
  /\ i \in Pooled' \/ Abandons(t, i)

Moves(t, i) == Steady(t, i) \/ LentTo(t, i) \/ GivenUp(t, i)

\* Both directions of what LiveKept and BuildKept say.
LEMMA ChainsSteady ==
  ASSUME NEW t \in Threads, req[t] # NoRequest, req'[t] # NoRequest,
         req'[t].chain = req[t].chain,
         \/ pc[t] # "release" /\ (pc'[t] = "release" => at'[t] = 1)
         \/ pc'[t] = pc[t] /\ at'[t] = at[t],
         Building(t)' <=> Building(t), Building(t) => call'[t].chain = call[t].chain
  PROVE  ChainsOf(t)' = ChainsOf(t)
<1>1. \A f \in Flows : Live(t, f)' <=> Live(t, f)
  <2>1. CASE pc[t] # "release" /\ (pc'[t] = "release" => at'[t] = 1)
    <3>1. \A n \in 1..2 : ~(n < 1)
      OBVIOUS
    <3> QED BY <2>1, <3>1 DEF Live
  <2>2. CASE pc'[t] = pc[t] /\ at'[t] = at[t]
    BY <2>2 DEF Live
  <2> QED BY <2>1, <2>2
<1> QED BY <1>1 DEF ChainsOf

\* Chains that come or go are empty.
LEMMA SteadyChains ==
  ASSUME NEW t \in Threads, NEW i \in Insts, UNCHANGED home, UNCHANGED pool, WS(t)' = WS(t),
         \A c \in ChainsOf(t)' : \/ items'[c] = <<>>
                                 \/ c \in ChainsOf(t) /\ items'[c] = items[c],
         \A c \in ChainsOf(t) : \/ items[c] = <<>>
                                \/ c \in ChainsOf(t)' /\ items'[c] = items[c]
  PROVE  Steady(t, i)
<1>1. Holds(t, i)' <=> Holds(t, i)
  BY DEF Holds, InChains, H
<1> QED BY <1>1, PooledIff DEF Steady

\* A chain an engine works on is one of its own, and it is not in the store.
LEMMA WorkingOwn ==
  ASSUME TypeOK, PhaseInv, NEW t \in Threads, call[t].op # "none"
  PROVE  call[t].chain \in ChainsOf(t) /\ call[t].chain \in Chains
<1>t. call \in [Threads -> Calls] /\ at \in [Threads -> 1..7]
  BY DEF TypeOK, PoolTypeOK, EngineTypeOK
<1>1. call[t].op \in {"get", "undo", "put"} /\ call[t].chain \in Chains
  BY <1>t DEF Calls, NoCall
<1>2. CASE Building(t)
  BY <1>1, <1>2 DEF ChainsOf
<1>3. CASE call[t].op = "put"
  <2> DEFINE f0 == ReleaseOrder[at[t]]
  <2>1. pc[t] = "release" /\ at[t] \in 1..2 /\ call[t].chain = req[t].chain[f0]
    BY <1>t, <1>3 DEF PhaseInv, PhaseOK, ChainAt
  <2>2. req[t] # NoRequest /\ f0 \in Flows
    BY <2>1, RequestTypes, NoRequestAssumption, Orders
  <2>3. Live(t, f0)
    BY <1>1, <2>1, <2>2, ConstantsAssumption DEF Live, ReleaseOrder
  <2> QED BY <1>1, <2>1, <2>2, <2>3 DEF ChainsOf
<1> QED BY <1>1, <1>2, <1>3 DEF Building

\* A step changes only chains of its own thread, or a chain nobody uses.
LEMMA OwnItems ==
  ASSUME TypeOK, PhaseInv, NEW t \in Threads, Accept(t) \/ Step(t), NEW c \in Chains
  PROVE  items'[c] = items[c] \/ c \in ChainsOf(t) \/ c \notin used \ store
<1>t. items \in [Chains -> Seq(Items)]
  BY DEF TypeOK, PoolTypeOK
<1>1. CASE GetChain(t)
  BY <1>t, <1>1 DEF GetChain, BeginGet
<1>2. CASE FillChain(t) \/ PoolChain(t)
  <2>1. CASE AddHandler(t, Session(t)) \/ UndoNext(t) \/ PoolNext(t, Session(t))
    <3>1. call[t].op # "none"
      BY <2>1 DEF AddHandler, Getting, UndoNext, PoolNext
    <3>2. items' = [items EXCEPT ![call[t].chain] = items'[call[t].chain]]
      BY <1>t, <2>1 DEF AddHandler, UndoNext, PoolNext, PutNext
    <3> QED BY <1>t, <3>1, <3>2, WorkingOwn
  <2>2. CASE UNCHANGED items
    BY <2>2
  <2> QED BY <1>2, <2>1, <2>2 DEF FillChain, PoolChain, DropCHandler, WrongType,
             UnlockForCreate, BeginPut
<1>3. CASE ~(GetChain(t) \/ FillChain(t) \/ PoolChain(t))
  <2>1. UNCHANGED items
    BY <1>3 DEF Accept, Step, ReadMessage, GetWebService, UnlockForService, ServiceThrows,
       NoHandlers, ChainReady, EndGet, ChainFails, GetBeingUsed, GetCreateFails, AbandonGet,
       EndUndo, StoreChain, InvokeStage, HandlerFails, FaultCrashes, ServiceFails,
       ServiceFaults, WriteReply, WriteFault, FaultEscapes, SkipRelease, ChainPooled, EndPut,
       PoolWebService, NoWebService, NoChainStep, poolVars
  <2> QED BY <2>1
<1> QED BY <1>1, <1>2, <1>3

\* What another engine holds stays what it was.
LEMMA OthersHold ==
  ASSUME TypeOK, PhaseInv, MutexDiscipline, ChainInv,
         NEW t \in Threads, Accept(t) \/ Step(t), NEW u \in Threads, u # t, NEW i \in Insts
  PROVE  Holds(u, i)' <=> Holds(u, i)
<1>1. Untouched(u)
  BY OtherThreads
<1>2. ChainsOf(u)' = ChainsOf(u) /\ WS(u)' = WS(u)
  BY <1>1 DEF Untouched, ChainsOf, Live, Building, WS
<1>3. ASSUME NEW c \in ChainsOf(u) PROVE items'[c] = items[c]
  <2>1. c \in Active /\ c \in used \ store /\ c \in Chains
    BY <1>3, ActiveApart DEF Active, TypeOK, PoolTypeOK
  <2>2. c \notin ChainsOf(t)
    BY <1>3, ChainsApart DEF ChainExclusive
  <2> QED BY <2>1, <2>2, OwnItems
<1> QED BY <1>2, <1>3 DEF Holds, InChains, H

-----------------------------------------------------------------------------
\* getHandler moves the object it returns, and no other.
LEMMA ObtainMoves ==
  ASSUME TypeOK, ObjectInv, HomeInv, NEW t \in Threads, NEW e \in Entries,
         NEW s \in Sessions, NEW i \in Insts, Obtain(t, e, s, i)
  PROVE  /\ home[i] = None \/ i \in Pooled
         /\ home[i] = None \/ home[i] = At(e)
         /\ home'[i] # None /\ i \notin Pooled' /\ ~Holds(t, i)
         /\ \A j \in Insts : j # i =>
              /\ home'[j] = None <=> home[j] = None
              /\ j \in Pooled' <=> j \in Pooled
<1>t. /\ pool \in [Slots -> SUBSET Insts]
      /\ home \in [Insts -> (Scopes \X Libs) \cup {None}]
  BY DEF TypeOK, PoolTypeOK
<1>s. Source(e, s) \in Slots /\ Source(e, s)[1] = e.scope /\ Source(e, s)[2] = e.lib
  BY DEF Source, SlotOf, Slots, Entries
<1>1. Fetched(i)
  BY ObtainFetches
<1>2. home'[i] # None /\ i \notin Pooled'
  BY <1>1, PooledIff DEF Fetched
<1>3. ~Holds(t, i)
  BY <1>1 DEF Fetched, Holds, InChains, Active
<1>4. CASE TakeIdle(t, e, s, i)
  <2> DEFINE k0 == Source(e, s)
  <2>1. /\ i \in pool[k0] /\ pool' = [pool EXCEPT ![k0] = @ \ {i}] /\ home' = home
    BY <1>4 DEF TakeIdle
  <2>2. i \in Pooled /\ home[i] = At(e)
    BY <1>s, <2>1, PooledIff DEF HomeInv, PoolsHome, At
  <2> HIDE DEF k0
  <2>3. \A j \in Insts : j # i => \A k \in Slots : j \in pool'[k] <=> j \in pool[k]
    BY <1>t, <2>1
  <2>4. \A j \in Insts : j # i => (j \in Pooled' <=> j \in Pooled)
    BY <2>3, PooledIff
  <2> QED BY <1>2, <1>3, <2>1, <2>2, <2>4
<1>5. CASE Create(t, e, s, i)
  <2>1. home[i] = None /\ home' = [home EXCEPT ![i] = <<e.scope, e.lib>>] /\ pool' = pool
    BY <1>5 DEF Create
  <2>2. \A j \in Insts : j # i => home'[j] = home[j]
    BY <1>t, <2>1
  <2>3. \A j \in Insts : j \in Pooled' <=> j \in Pooled
    BY <2>1, PooledIff
  <2> QED BY <1>2, <1>3, <2>1, <2>2, <2>3
<1> QED BY <1>4, <1>5 DEF Obtain

\* An object that t takes into use or drops.
LEMMA TakeMoves ==
  ASSUME TypeOK, ObjectInv, HomeInv, NEW t \in Threads, NEW e \in Entries,
         NEW s \in Sessions, NEW i \in Insts, Obtain(t, e, s, i),
         \/ Holds(t, i)'
         \/ Getting(t) /\ KindOf[Current(t).lib] # "handler" /\ e = Current(t),
         \A j \in Insts : j # i => (Holds(t, j)' <=> Holds(t, j)),
         NEW j \in Insts
  PROVE  Moves(t, j)
<1>1. CASE j = i
  <2>1. LentTo(t, i)
    BY ObtainMoves DEF LentTo
  <2> QED BY <1>1, <2>1 DEF Moves
<1>2. CASE j # i
  <2>1. Steady(t, j)
    BY <1>2, ObtainMoves DEF Steady
  <2> QED BY <2>1 DEF Moves
<1> QED BY <1>1, <1>2

\* An object that goes back to a pool.
LEMMA PutMoves ==
  ASSUME TypeOK, ObjectInv, NEW t \in Threads, NEW e \in Entries,
         NEW s \in Sessions \cup {Sessionless}, NEW i \in Insts, NEW b \in BOOLEAN,
         PutBack(e, s, i, b), Holds(t, i),
         ~Holds(t, i)',
         NEW j \in Insts, j # i => (Holds(t, j)' <=> Holds(t, j)) \/ GivenUp(t, j)
  PROVE  Moves(t, j)
<1>t. pool \in [Slots -> SUBSET Insts]
  BY DEF TypeOK, PoolTypeOK
<1> DEFINE k0 == SlotOf(e, s)
<1>1. k0 \in Slots
  BY DEF SlotOf, Slots, Entries
<1>2. pool' = [pool EXCEPT ![k0] = @ \cup {i}] /\ home' = home
  BY DEF PutBack
<1> HIDE DEF k0
<1>3. i \in pool'[k0] /\ \A k \in Slots : j # i => (j \in pool'[k] <=> j \in pool[k])
  BY <1>t, <1>1, <1>2
<1>4. CASE j = i
  <2>1. home[i] # None
    BY ConstantsAssumption DEF ObjectInv, CreatedInv, Nowhere, Holds, InChains, Active
  <2>2. i \in Pooled'
    BY <1>1, <1>3, PooledIff
  <2> QED BY <1>2, <1>4, <2>1, <2>2 DEF Moves, GivenUp
<1>5. CASE j # i
  <2>1. j \in Pooled' <=> j \in Pooled
    BY <1>3, <1>5, PooledIff
  <2> QED BY <1>2, <1>5, <2>1 DEF Moves, Steady
<1> QED BY <1>4, <1>5

\* One iteration of the loops that pool the handlers of a chain.
LEMMA PutNextMoves ==
  ASSUME TypeOK, PhaseInv, ChainInv, MutexDiscipline, ObjectInv,
         NEW t \in Threads, NEW s \in Sessions \cup {Sessionless},
         call[t].op \in {"undo", "put"}, PutNext(t, s),
         ChainsOf(t)' = ChainsOf(t), WS(t)' = WS(t), NEW j \in Insts
  PROVE  Moves(t, j)
<1>0. items \in [Chains -> Seq(Items)] /\ call[t].chain \in Chains
      /\ items[call[t].chain] # <<>>
  BY WorkingOwn DEF TypeOK, PoolTypeOK, PutNext
<1>h. Head(items[call[t].chain]) \in Items
  <2> DEFINE q == items[call[t].chain]
  <2>1. q \in Seq(Items) /\ q # <<>>
    BY <1>0
  <2> HIDE DEF q
  <2>2. Head(q) \in Items
    BY <2>1
  <2> QED BY <2>2 DEF q
<1> PICK d \in Chains : d = call[t].chain
  BY <1>0
<1> PICK x \in Items : x = Head(items[d])
  BY <1>h
<1>1. items \in [Chains -> Seq(Items)] /\ d \in ChainsOf(t)
  BY <1>0, WorkingOwn
<1>2. items[d] # <<>> /\ items' = [items EXCEPT ![d] = Tail(@)] /\ PutBack(x.e, s, x.h, FALSE)
  BY DEF PutNext
<1> PICK q \in Seq(Items) : q = items[d]
  BY <1>1
<1>3. q \in Seq(Items) /\ q # <<>> /\ x = Head(q) /\ items'[d] = Tail(q)
  BY <1>1, <1>2
<1>4. \A c \in Chains : c # d => items'[c] = items[c]
  BY <1>1, <1>2
<1>5. q = items[d]
  OBVIOUS
<1>6. /\ x = q[1] /\ 1 \in DOMAIN q /\ x \in Items
      /\ \A m \in DOMAIN Tail(q) : m + 1 \in DOMAIN q /\ Tail(q)[m] = q[m + 1] /\ m + 1 # 1
      /\ \A m \in DOMAIN q : m # 1 => m - 1 \in DOMAIN Tail(q) /\ Tail(q)[m - 1] = q[m]
  <2>1. Len(q) \in Nat /\ Len(q) >= 1 /\ DOMAIN q = 1..Len(q) /\ x = q[1]
    BY <1>3
  <2>2. DOMAIN Tail(q) = 1..(Len(q) - 1)
    BY <1>3
  <2>3. \A m \in 1..(Len(q) - 1) : Tail(q)[m] = q[m + 1]
    BY <1>3
  <2> QED BY <2>1, <2>2, <2>3
<1>7. x.h \in Insts /\ x.e \in Entries /\ x.h = H(d, 1)
  BY <1>5, <1>6 DEF Items, H
<1>8. ChainsOf(t) \subseteq Active /\ Active \subseteq Chains
  BY ActiveApart DEF Active, TypeOK, PoolTypeOK
<1>9. InChains(t, x.h) /\ Holds(t, x.h)
  BY <1>1, <1>5, <1>6, <1>7 DEF InChains, Holds
<1>10. ~Holds(t, x.h)'
  <2>1. WS(t) # x.h
    BY <1>1, <1>5, <1>6, <1>7, <1>8, ConstantsAssumption DEF ObjectInv, PlacesInv
  <2>2. ASSUME NEW c \in ChainsOf(t), NEW m \in DOMAIN items'[c] PROVE H(c, m)' # x.h
    <3>1. CASE c = d
      <4>1. m + 1 \in DOMAIN items[d] /\ H(c, m)' = H(d, m + 1) /\ m + 1 # 1
        BY <1>3, <1>5, <1>6, <2>2, <3>1 DEF H
      <4> QED BY <1>1, <1>5, <1>6, <1>7, <1>8, <4>1 DEF ObjectInv, PlacesInv
    <3>2. CASE c # d
      <4>1. m \in DOMAIN items[c] /\ H(c, m)' = H(c, m)
        BY <1>4, <1>8, <2>2, <3>2 DEF H
      <4> QED BY <1>1, <1>5, <1>6, <1>7, <1>8, <3>2, <4>1 DEF ObjectInv, PlacesInv
    <3> QED BY <3>1, <3>2
  <2> QED BY <2>1, <2>2 DEF Holds, InChains
<1>11. j # x.h => (Holds(t, j)' <=> Holds(t, j))
  <2> SUFFICES ASSUME j # x.h PROVE InChains(t, j)' <=> InChains(t, j)
    BY DEF Holds
  <2>1. ASSUME NEW c \in ChainsOf(t), NEW m \in DOMAIN items[c], H(c, m) = j
        PROVE  \E n \in DOMAIN items'[c] : H(c, n)' = j
    <3>1. CASE c = d
      <4>1. m # 1 /\ m \in DOMAIN q /\ q[m].h = j
        BY <1>5, <1>7, <2>1, <3>1 DEF H
      <4>2. m - 1 \in DOMAIN items'[c] /\ items'[c][m - 1] = q[m]
        <5>1. m - 1 \in DOMAIN Tail(q) /\ Tail(q)[m - 1] = q[m]
          BY <1>6, <4>1
        <5> QED BY <1>3, <3>1, <5>1
      <4> QED BY <4>1, <4>2 DEF H
    <3>2. CASE c # d
      BY <1>4, <1>8, <2>1, <3>2 DEF H
    <3> QED BY <3>1, <3>2
  <2>2. ASSUME NEW c \in ChainsOf(t), NEW m \in DOMAIN items'[c], H(c, m)' = j
        PROVE  \E n \in DOMAIN items[c] : H(c, n) = j
    <3>1. CASE c = d
      <4>1. m \in DOMAIN Tail(q) /\ Tail(q)[m].h = j
        BY <1>3, <2>2, <3>1 DEF H
      <4> QED BY <1>5, <1>6, <3>1, <4>1 DEF H
    <3>2. CASE c # d
      BY <1>4, <1>8, <2>2, <3>2 DEF H
    <3> QED BY <3>1, <3>2
  <2> QED BY <2>1, <2>2 DEF InChains
<1> QED BY <1>2, <1>7, <1>9, <1>10, <1>11, PutMoves

\* The steps that leave the chains and the objects of their engine alone.
LEMMA StillMoves ==
  ASSUME TypeOK, TypeOK', NEW t \in Threads, NEW j \in Insts,
         \/ ReadMessage(t) \/ UnlockForService(t) \/ ServiceThrows(t) \/ NoHandlers(t)
         \/ InvokeStage(t) \/ HandlerFails(t) \/ FaultCrashes(t) \/ ServiceFails(t)
         \/ ServiceFaults(t) \/ WriteReply(t) \/ WriteFault(t)
  PROVE  Steady(t, j)
<1>t. /\ req \in [Threads -> Requests \cup {NoRequest}] /\ at \in [Threads -> 1..7]
      /\ pc \in [Threads -> Phases]
  BY DEF TypeOK, EngineTypeOK
<1>1. pc[t] # "idle" /\ pc[t] # "release"
  BY DEF ReadMessage, UnlockForService, ServiceThrows, NoHandlers, InvokeStage, HandlerFails,
     FaultCrashes, ServiceFails, ServiceFaults, WriteReply, WriteFault
<1>2. req[t] \in Requests /\ req[t] # NoRequest
  BY <1>1, RequestTypes, NoRequestAssumption
<1>3. UNCHANGED <<pool, home, items, call>>
  BY DEF ReadMessage, UnlockForService, ServiceThrows, NoHandlers, InvokeStage, HandlerFails,
     FaultCrashes, ServiceFails, ServiceFaults, WriteReply, WriteFault, Unlock,
     ThrowBeingUsed, ThrowCreate, NoChainStep, poolVars
<1>4. req'[t].chain = req[t].chain /\ req'[t].ws = req[t].ws
  BY <1>t, <1>2 DEF ReadMessage, UnlockForService, ServiceThrows, NoHandlers, InvokeStage,
     HandlerFails, FaultCrashes, ServiceFails, ServiceFaults, WriteReply, WriteFault, Fail,
     Requests, engineVars
<1>5. /\ pc'[t] # "idle"
      /\ pc'[t] = "release" => at'[t] = 1
  BY <1>t, <1>1 DEF ReadMessage, UnlockForService, ServiceThrows, NoHandlers, InvokeStage,
     HandlerFails, FaultCrashes, ServiceFails, ServiceFaults, WriteReply, WriteFault, Fail,
     Advance, Goto, engineVars
<1>6. req'[t] # NoRequest
  BY <1>5 DEF TypeOK, EngineTypeOK
<1>7. ChainsOf(t)' = ChainsOf(t)
  BY <1>1, <1>2, <1>3, <1>4, <1>5, <1>6, ChainsSteady DEF Building
<1>8. WS(t)' = WS(t)
  BY <1>2, <1>4, <1>6 DEF WS
<1> QED BY <1>3, <1>7, <1>8, SteadyChains

\* getHandlerChain hands its chain to the engine's member, which was null.
LEMMA ReadyMovesNone ==
  ASSUME TypeOK, TypeOK', MemberInv, NEW t \in Threads, NEW j \in Insts, ChainReady(t)
  PROVE  Steady(t, j)
<1> DEFINE f0 == GetOrder[at[t]]
<1>t. /\ req \in [Threads -> Requests \cup {NoRequest}] /\ at \in [Threads -> 1..7]
      /\ pc \in [Threads -> Phases] /\ call \in [Threads -> Calls]
  BY DEF TypeOK, PoolTypeOK, EngineTypeOK
<1>1. /\ pc[t] = "flows" /\ at[t] \in 1..6 /\ call[t].op = "get"
      /\ req' = [req EXCEPT ![t].chain[f0] = call[t].chain]
      /\ UNCHANGED <<pool, home, items>> /\ call' = [call EXCEPT ![t] = NoCall]
      /\ Advance(t, "invoke")
  BY DEF ChainReady, EndGet, TypeOK, EngineTypeOK, Last
<1>2. req[t] \in Requests /\ req[t] # NoRequest /\ f0 \in Flows
  BY <1>1, RequestTypes, NoRequestAssumption, Orders
<1>3. call[t].chain \in Chains /\ call[t].chain # None
  BY <1>t, <1>1, ConstantsAssumption DEF Calls, NoCall
<1>4. /\ req'[t].ws = req[t].ws /\ req'[t].chain[f0] = call[t].chain
      /\ \A f \in Flows : f # f0 => req'[t].chain[f] = req[t].chain[f]
  BY <1>t, <1>1, <1>2 DEF Requests
<1>5. req[t].chain[f0] = None
  BY <1>1 DEF MemberInv, MemberOK
<1>6. pc'[t] \in {"flows", "invoke"} /\ call'[t] = NoCall
  BY <1>t, <1>1 DEF Advance, Goto
<1>7. req'[t] # NoRequest
  BY <1>6 DEF TypeOK, EngineTypeOK
<1>8. ~Building(t)' /\ Building(t)
  BY <1>1, <1>6 DEF Building, NoCall
<1> HIDE DEF f0
<1>9. \A f \in Flows : Live(t, f)' <=> f = f0 \/ Live(t, f)
  BY <1>1, <1>2, <1>3, <1>4, <1>6, <1>7 DEF Live
<1>10. ChainsOf(t)' = ChainsOf(t)
  <2>1. ChainsOf(t) = {req[t].chain[f] : f \in {g \in Flows : Live(t, g)}} \cup {call[t].chain}
    BY <1>8 DEF ChainsOf
  <2>2. ChainsOf(t)' = {req'[t].chain[f] : f \in {g \in Flows : g = f0 \/ Live(t, g)}}
    BY <1>8, <1>9 DEF ChainsOf
  <2>3. ~Live(t, f0)
    BY <1>5 DEF Live
  <2> QED BY <1>2, <1>4, <2>1, <2>2, <2>3
<1>11. WS(t)' = WS(t)
  BY <1>2, <1>4, <1>7 DEF WS
<1> QED BY <1>1, <1>10, <1>11, SteadyChains

\* The steps of getHandlerChain and poolHandlerChain that move an empty chain.
LEMMA EmptyMoves ==
  ASSUME TypeOK, TypeOK', PhaseInv, ChainInv, NEW t \in Threads, NEW j \in Insts,
         \/ GetChain(t) \/ (EndUndo(t) /\ ChainFails(t)) \/ ChainPooled(t) \/ SkipRelease(t)
  PROVE  Steady(t, j)
<1>t. /\ req \in [Threads -> Requests \cup {NoRequest}] /\ at \in [Threads -> 1..7]
      /\ pc \in [Threads -> Phases] /\ call \in [Threads -> Calls]
      /\ items \in [Chains -> Seq(Items)]
  BY DEF TypeOK, PoolTypeOK, EngineTypeOK
<1>p. PhaseOK(t)
  BY DEF PhaseInv
<1>1. pc[t] # "idle"
  BY DEF GetChain, ChainFails, ChainPooled, SkipRelease
<1>2. req[t] \in Requests /\ req[t] # NoRequest
  BY <1>1, RequestTypes, NoRequestAssumption
<1>3. CASE GetChain(t)
  <2>1. PICK c \in Chains :
          /\ items' = [items EXCEPT ![c] = <<>>]
          /\ call' = [call EXCEPT ![t] = [op |-> "get", chain |-> c, rest |-> ListAt(t)]]
          /\ c \in store \/ c \notin used
    BY <1>3 DEF GetChain, BeginGet
  <2>2. UNCHANGED <<pool, home, req, pc, at>> /\ call[t] = NoCall
    BY <1>3 DEF GetChain, BeginGet, engineVars
  <2>3. Building(t)' /\ ~Building(t) /\ call'[t].chain = c
    BY <1>t, <2>1, <2>2 DEF Building, NoCall
  <2>4. ChainsOf(t)' = ChainsOf(t) \cup {c}
    BY <2>2, <2>3 DEF ChainsOf, Live
  <2>5. \A d \in ChainsOf(t)' : items'[d] = <<>> \/ (d \in ChainsOf(t) /\ items'[d] = items[d])
    BY <1>t, <2>1, <2>4
  <2>6. \A d \in ChainsOf(t) : d # c /\ d \in Chains
    BY <2>1, ActiveApart DEF Active, TypeOK, PoolTypeOK
  <2>7. \A d \in ChainsOf(t) : d \in ChainsOf(t)' /\ items'[d] = items[d]
    BY <1>t, <2>1, <2>4, <2>6
  <2> QED BY <2>2, <2>5, <2>7, SteadyChains DEF WS
<1>4. CASE EndUndo(t) /\ ChainFails(t)
  <2>1. /\ call[t].op = "undo" /\ items[call[t].chain] = <<>>
        /\ call' = [call EXCEPT ![t] = NoCall] /\ UNCHANGED <<pool, home, items>>
    BY <1>4 DEF EndUndo, StoreChain
  <2>2. /\ pc[t] = "flows"
        /\ req'[t].chain = req[t].chain /\ req'[t].ws = req[t].ws /\ pc'[t] = "fault"
    BY <1>t, <1>2, <1>4 DEF ChainFails, Fail, Goto, Requests
  <2>3. req'[t] # NoRequest
    BY <2>2 DEF TypeOK, EngineTypeOK
  <2>4. Building(t) /\ ~Building(t)' /\ \A f \in Flows : Live(t, f)' <=> Live(t, f)
    BY <1>t, <1>2, <2>1, <2>2, <2>3 DEF Building, NoCall, Live
  <2>5. ChainsOf(t) = ChainsOf(t)' \cup {call[t].chain}
    BY <2>2, <2>4 DEF ChainsOf
  <2> QED BY <1>2, <2>1, <2>2, <2>3, <2>5, SteadyChains DEF WS
<1>5. CASE ChainPooled(t)
  <2>1. /\ call[t].op = "put" /\ items[call[t].chain] = <<>>
        /\ call' = [call EXCEPT ![t] = NoCall] /\ UNCHANGED <<pool, home, items, req>>
        /\ pc[t] = "release" /\ at[t] \in 1..2 /\ pc'[t] = pc[t] /\ at'[t] = at[t] + 1
    BY <1>t, <1>5 DEF ChainPooled, EndPut, StoreChain
  <2>2. call[t].chain = req[t].chain[ReleaseOrder[at[t]]]
    BY <1>p, <2>1 DEF PhaseOK, ChainAt
  <2>3. ~Building(t) /\ ~Building(t)'
    BY <1>t, <2>1 DEF Building, NoCall
  <2>4. \A f \in Flows : /\ Live(t, f)' => Live(t, f)
                         /\ Live(t, f) => Live(t, f)' \/ f = ReleaseOrder[at[t]]
    BY <2>1 DEF Live, ReleaseOrder
  <2>5. \A c \in ChainsOf(t) : c \in ChainsOf(t)' \/ items[c] = <<>>
    BY <2>1, <2>2, <2>3, <2>4 DEF ChainsOf
  <2>6. ChainsOf(t)' \subseteq ChainsOf(t)
    BY <2>1, <2>3, <2>4 DEF ChainsOf
  <2> QED BY <2>1, <2>5, <2>6, SteadyChains DEF WS
<1>6. CASE SkipRelease(t)
  <2>1. /\ UNCHANGED <<pool, home, items, req, call>> /\ ChainAt(t) = None
        /\ pc[t] = "release" /\ at[t] \in 1..2 /\ pc'[t] = pc[t] /\ at'[t] = at[t] + 1
    BY <1>t, <1>6 DEF SkipRelease, poolVars
  <2>2. \A f \in Flows : Live(t, f)' <=> Live(t, f)
    BY <2>1 DEF Live, ReleaseOrder, ChainAt
  <2>3. ChainsOf(t)' = ChainsOf(t)
    BY <2>1, <2>2 DEF ChainsOf, Building
  <2> QED BY <2>1, <2>3, SteadyChains DEF WS
<1> QED BY <1>3, <1>4, <1>5, <1>6

\* One step of the loop in getHandlerChain, or of its undo loop.
LEMMA FillMoves ==
  ASSUME TypeOK, TypeOK', PhaseInv, MutexDiscipline, ChainInv, ObjectInv, HomeInv,
         NEW t \in Threads, FillChain(t), NEW j \in Insts
  PROVE  Moves(t, j)
<1>t. call \in [Threads -> Calls] /\ items \in [Chains -> Seq(Items)]
  BY DEF TypeOK, PoolTypeOK
<1>1. pc[t] = "flows" /\ UNCHANGED <<pc, at, req>>
  BY DEF FillChain, engineVars
<1>2. req[t] # NoRequest /\ Session(t) \in Sessions /\ WS(t)' = WS(t)
  BY <1>1, RequestTypes, NoRequestAssumption DEF WS
<1>3. ChainsOf(t)' = ChainsOf(t)
  <2>1. (Building(t)' <=> Building(t)) /\ (Building(t) => call'[t].chain = call[t].chain)
    <3> USE DEF TypeOK, PoolTypeOK, Building, Calls, NoCall, Getting
    <3>1. CASE AddHandler(t, Session(t))
      BY <3>1 DEF AddHandler
    <3>2. CASE DropCHandler(t, Session(t))
      BY <3>2 DEF DropCHandler
    <3>3. CASE WrongType(t, Session(t))
      BY <3>3 DEF WrongType
    <3>4. CASE UnlockForCreate(t, Session(t)) \/ UndoNext(t)
      BY <3>4 DEF UnlockForCreate, UndoNext, PutNext
    <3> QED BY <3>1, <3>2, <3>3, <3>4 DEF FillChain
  <2> QED BY <1>1, <1>2, <2>1, ChainsSteady
<1>4. ASSUME UNCHANGED items PROVE \A i \in Insts : Holds(t, i)' <=> Holds(t, i)
  BY <1>2, <1>3, <1>4 DEF Holds, InChains, H
<1>5. CASE AddHandler(t, Session(t))
  <2>1. Getting(t) /\ Current(t) \in Entries /\ call[t].chain \in Chains
    BY <1>5, GettingType DEF AddHandler
  <2> PICK e \in Entries : e = Current(t)
    BY <2>1
  <2> PICK d \in Chains : d = call[t].chain
    BY <2>1
  <2>2. PICK i \in Insts :
          /\ Obtain(t, e, Session(t), i)
          /\ items' = [items EXCEPT ![d] = Append(@, [h |-> i, e |-> e])]
    BY <1>5 DEF AddHandler
  <2> PICK s \in Sessions : s = Session(t)
    BY <1>2
  <2> PICK q \in Seq(Items) : q = items[d]
    BY <1>t
  <2> PICK x \in Items : x = [h |-> i, e |-> e]
    BY DEF Items
  <2>3. items'[d] = Append(q, x) /\ \A c \in Chains : c # d => items'[c] = items[c]
    BY <1>t, <2>2
  <2>4. /\ \A m \in DOMAIN q : m \in DOMAIN Append(q, x) /\ Append(q, x)[m] = q[m]
        /\ \A m \in DOMAIN Append(q, x) : \/ m \in DOMAIN q /\ Append(q, x)[m] = q[m]
                                          \/ Append(q, x)[m] = x
        /\ \E m \in DOMAIN Append(q, x) : Append(q, x)[m] = x
    <3>1. /\ Len(q) \in Nat /\ DOMAIN q = 1..Len(q)
          /\ DOMAIN Append(q, x) = 1..(Len(q) + 1)
          /\ Append(q, x)[Len(q) + 1] = x
          /\ \A m \in 1..Len(q) : Append(q, x)[m] = q[m]
      OBVIOUS
    <3>2. Len(q) + 1 \in DOMAIN Append(q, x)
      BY <3>1
    <3> QED BY <3>1, <3>2
  <2>5. d \in ChainsOf(t) /\ ChainsOf(t) \subseteq Chains
    BY <1>t, <2>1, WorkingOwn, ActiveApart DEF Getting, Active, TypeOK, PoolTypeOK
  <2>6. Holds(t, i)'
    <3>1. \E m \in DOMAIN items'[d] : items'[d][m].h = i
      BY <2>3, <2>4
    <3> QED BY <1>3, <2>5, <3>1 DEF Holds, InChains, H
  <2>7. \A k \in Insts : k # i => (Holds(t, k)' <=> Holds(t, k))
    <3> SUFFICES ASSUME NEW k \in Insts, k # i PROVE InChains(t, k)' <=> InChains(t, k)
      BY <1>2 DEF Holds
    <3>1. ASSUME NEW c \in ChainsOf(t)
          PROVE  (\E m \in DOMAIN items'[c] : items'[c][m].h = k)
                   <=> (\E m \in DOMAIN items[c] : items[c][m].h = k)
      <4>1. CASE c = d
        <5>1. items'[c] = Append(q, x) /\ items[c] = q /\ x.h # k
          BY <2>3, <4>1
        <5> QED BY <2>4, <5>1
      <4>2. CASE c # d
        BY <2>3, <2>5, <4>2
      <4> QED BY <4>1, <4>2
    <3> QED BY <1>3, <3>1 DEF InChains, H
  <2> QED BY <2>2, <2>6, <2>7, TakeMoves
<1>6. CASE DropCHandler(t, Session(t)) \/ WrongType(t, Session(t))
  <2>1. /\ Getting(t) /\ Current(t) \in Entries /\ KindOf[Current(t).lib] # "handler"
        /\ UNCHANGED items
    BY <1>6, GettingType DEF DropCHandler, WrongType
  <2> PICK e \in Entries : e = Current(t)
    BY <2>1
  <2> PICK s \in Sessions : s = Session(t)
    BY <1>2
  <2>2. PICK i \in Insts : Obtain(t, e, s, i)
    BY <1>6 DEF DropCHandler, WrongType
  <2> QED BY <1>4, <2>1, <2>2, TakeMoves
<1>7. CASE UnlockForCreate(t, Session(t))
  <2>1. UNCHANGED <<pool, home, items>>
    BY <1>7 DEF UnlockForCreate, Unlock
  <2> QED BY <1>2, <1>3, <2>1, SteadyChains DEF Moves
<1>8. CASE UndoNext(t)
  BY <1>2, <1>3, <1>8, PutNextMoves DEF UndoNext
<1> QED BY <1>5, <1>6, <1>7, <1>8 DEF FillChain

\* getWebService, for an engine without a service object.
LEMMA ServiceMoves ==
  ASSUME TypeOK, TypeOK', MemberInv, ObjectInv, HomeInv,
         NEW t \in Threads, GetWebService(t), NEW j \in Insts
  PROVE  Moves(t, j)
<1>t. /\ req \in [Threads -> Requests \cup {NoRequest}] /\ pc \in [Threads -> Phases]
  BY DEF TypeOK, EngineTypeOK
<1>1. pc[t] = "service" /\ UNCHANGED <<items, call>> /\ req[t].ws = None
  BY DEF GetWebService, NoChainStep, MemberInv, MemberOK
<1>2. /\ req[t] \in Requests /\ req[t] # NoRequest
      /\ Entry(t) \in Entries /\ Session(t) \in Sessions
  BY <1>1, RequestTypes, NoRequestAssumption
<1> PICK e \in Entries : e = Entry(t)
  BY <1>2
<1> PICK s \in Sessions : s = Session(t)
  BY <1>2
<1>3. PICK i \in Insts :
        /\ Obtain(t, e, s, i)
        /\ \/ req' = [req EXCEPT ![t].ws = i] /\ Goto(t, "flows")
           \/ req' = [req EXCEPT ![t].ws = i, ![t].fault = "style"] /\ Goto(t, "fault")
  BY DEF GetWebService
<1>4. /\ req'[t].ws = i /\ req'[t].chain = req[t].chain /\ pc'[t] \in {"flows", "fault"}
  BY <1>t, <1>2, <1>3 DEF Goto, Requests
<1>5. req'[t] # NoRequest
  BY <1>4 DEF TypeOK, EngineTypeOK
<1>6. ChainsOf(t)' = ChainsOf(t)
  BY <1>1, <1>2, <1>4, <1>5, ChainsSteady DEF Building
<1>7. WS(t)' = i /\ WS(t) = None
  BY <1>1, <1>2, <1>4, <1>5 DEF WS
<1>8. Holds(t, i)' /\ \A k \in Insts : k # i => (Holds(t, k)' <=> Holds(t, k))
  BY <1>1, <1>6, <1>7, ConstantsAssumption DEF Holds, InChains, H
<1> QED BY <1>3, <1>8, TakeMoves

\* The ways an engine lets go of everything it refers to.
LEMMA EndMoves ==
  ASSUME TypeOK, TypeOK', PhaseInv, ObjectInv, NEW t \in Threads, NEW j \in Insts,
         PoolWebService(t) \/ NoWebService(t) \/ FaultEscapes(t)
  PROVE  Moves(t, j)
<1>t. /\ req \in [Threads -> Requests \cup {NoRequest}] /\ pc \in [Threads -> Phases]
  BY DEF TypeOK, EngineTypeOK
<1>p. PhaseOK(t)
  BY DEF PhaseInv
<1>1. /\ pc[t] \in {"release", "fault"} /\ (pc[t] = "release" => at[t] = 3)
      /\ UNCHANGED <<items, call>>
  BY DEF PoolWebService, NoWebService, FaultEscapes, NoChainStep, poolVars
<1>2. /\ req[t] \in Requests /\ req[t] # NoRequest
      /\ Entry(t) \in Entries /\ Session(t) \in Sessions
  BY <1>1, RequestTypes, NoRequestAssumption
<1>3. ~Building(t)
  BY <1>1, <1>p, PhaseQuiet DEF Quiet, Building, NoCall
<1>4. ASSUME Holds(t, j) PROVE home[j] # None
  BY <1>4, ConstantsAssumption DEF ObjectInv, CreatedInv, Nowhere, Holds, InChains, Active
<1>5. ASSUME EndRequest(t) PROVE ~Holds(t, j)' /\ pc'[t] = "idle"
  <2>1. req'[t] = NoRequest /\ pc'[t] = "idle" /\ ~Building(t)'
    BY <1>t, <1>1, <1>3, <1>5 DEF EndRequest, Goto, Building
  <2>2. ChainsOf(t)' = {} /\ WS(t)' = None
    BY <2>1 DEF ChainsOf, Live, WS, NoRequest
  <2> QED BY <2>1, <2>2, ConstantsAssumption DEF Holds, InChains
<1>6. ASSUME pc[t] = "release", InChains(t, j)
      PROVE  \E f \in Flows \ {"SReq", "SRes"} : Live(t, f)
  <2>1. PICK f \in Flows : Live(t, f)
    BY <1>3, <1>6 DEF InChains, ChainsOf
  <2>2. ReleaseOrder[1] = "SReq" /\ ReleaseOrder[2] = "SRes" /\ 1 < 3 /\ 2 < 3
    BY DEF ReleaseOrder
  <2> QED BY <1>1, <1>6, <2>1, <2>2 DEF Live
<1>7. ASSUME EndRequest(t), UNCHANGED home, pc[t] = "release", InChains(t, j)
      PROVE  GivenUp(t, j)
  BY <1>4, <1>5, <1>6, <1>7 DEF GivenUp, Abandons, Holds
<1>8. CASE PoolWebService(t)
  <2> PICK e \in Entries : e = Entry(t)
    BY <1>2
  <2> PICK s \in Sessions : s = Session(t)
    BY <1>2
  <2>1. pc[t] = "release" /\ req[t].ws \in Insts
    BY <1>8, RequestTypes DEF PoolWebService
  <2> PICK i \in Insts : i = req[t].ws
    BY <2>1
  <2>2. PutBack(e, s, i, TRUE) /\ EndRequest(t) /\ UNCHANGED home
    BY <1>8 DEF PoolWebService, PutBack
  <2>3. WS(t) = i /\ Holds(t, i)
    BY <1>2 DEF WS, Holds
  <2>4. ~Holds(t, i)'
    <3>1. req'[t] = NoRequest /\ ~Building(t)'
      BY <1>t, <1>1, <1>3, <2>2 DEF EndRequest, Building
    <3>2. ChainsOf(t)' = {} /\ WS(t)' = None
      BY <3>1 DEF ChainsOf, Live, WS, NoRequest
    <3> QED BY <3>2, ConstantsAssumption DEF Holds, InChains
  <2>5. j # i => (Holds(t, j)' <=> Holds(t, j)) \/ GivenUp(t, j)
    <3>1. CASE InChains(t, j)
      BY <1>7, <2>1, <2>2, <3>1
    <3>2. CASE ~InChains(t, j)
      BY <1>5, <2>2, <2>3, <3>2 DEF Holds
    <3> QED BY <3>1, <3>2
  <2> QED BY <2>2, <2>3, <2>4, <2>5, PutMoves
<1>9. CASE NoWebService(t)
  <2>1. /\ pc[t] = "release" /\ WS(t) = None /\ EndRequest(t) /\ UNCHANGED <<pool, home>>
    BY <1>2, <1>9 DEF NoWebService, WS, poolVars
  <2>2. CASE InChains(t, j)
    BY <1>7, <2>1, <2>2 DEF Moves
  <2>3. CASE ~InChains(t, j)
    <3>1. ~Holds(t, j) /\ ~Holds(t, j)'
      BY <1>5, <2>1, <2>3, ConstantsAssumption DEF Holds
    <3> QED BY <2>1, <3>1, PooledIff DEF Moves, Steady
  <2> QED BY <2>2, <2>3
<1>10. CASE FaultEscapes(t)
  <2>1. pc[t] = "fault" /\ req[t].header /\ UNCHANGED <<pool, home>>
    BY <1>10 DEF FaultEscapes, poolVars
  <2>2. CASE EndRequest(t)
    <3>1. CASE Holds(t, j)
      BY <1>4, <1>5, <2>1, <2>2, <3>1 DEF Moves, GivenUp, Abandons
    <3>2. CASE ~Holds(t, j)
      BY <1>5, <2>1, <2>2, <3>2, PooledIff DEF Moves, Steady
    <3> QED BY <3>1, <3>2
  <2>3. CASE UNCHANGED <<pc, at, req, accepted>>
    <3>1. ChainsOf(t)' = ChainsOf(t) /\ WS(t)' = WS(t)
      BY <1>1, <2>3 DEF ChainsOf, Live, Building, WS
    <3> QED BY <1>1, <2>1, <3>1, SteadyChains DEF Moves
  <2> QED BY <1>10, <2>2, <2>3 DEF FaultEscapes
<1> QED BY <1>8, <1>9, <1>10

\* getHandlerChain leaves with an exception: its chain is forgotten.
LEMMA ThrowMoves ==
  ASSUME TypeOK, TypeOK', ObjectInv, NEW t \in Threads, ChainFails(t), ~EndUndo(t),
         NEW j \in Insts
  PROVE  Moves(t, j)
<1>t. req \in [Threads -> Requests \cup {NoRequest}] /\ pc \in [Threads -> Phases]
  BY DEF TypeOK, EngineTypeOK
<1>1. /\ pc[t] = "flows" /\ UNCHANGED <<pool, home, items>>
      /\ Fail(t, "beingUsed") \/ Fail(t, "create")
  BY DEF ChainFails, GetBeingUsed, GetCreateFails, ThrowBeingUsed, ThrowCreate, AbandonGet
<1>2. req[t] \in Requests /\ req[t] # NoRequest
  BY <1>1, RequestTypes, NoRequestAssumption
<1>3. /\ req'[t].ws = req[t].ws /\ req'[t].fault \in {"beingUsed", "create"}
      /\ pc'[t] = "fault"
  BY <1>t, <1>1, <1>2 DEF Fail, Goto, Requests
<1>4. req'[t] # NoRequest
  BY <1>3 DEF TypeOK, EngineTypeOK
<1>5. WS(t)' = WS(t)
  BY <1>2, <1>3, <1>4 DEF WS
<1>6. ChainsOf(t)' \subseteq ChainsOf(t)
  BY EndKept DEF ChainsOf, LiveKept, BuildKept
<1>7. InChains(t, j)' => InChains(t, j)
  BY <1>1, <1>6 DEF InChains, H
<1>8. CASE Holds(t, j)' <=> Holds(t, j)
  BY <1>1, <1>8, PooledIff DEF Moves, Steady
<1>9. CASE ~(Holds(t, j)' <=> Holds(t, j))
  <2>1. Holds(t, j) /\ ~Holds(t, j)' /\ InChains(t, j)
    BY <1>5, <1>7, <1>9 DEF Holds
  <2>2. home[j] # None
    BY <2>1 DEF ObjectInv, CreatedInv, Nowhere, InChains, Active
  <2> QED BY <1>1, <1>3, <2>1, <2>2 DEF Moves, GivenUp, Abandons
<1> QED BY <1>8, <1>9

LEMMA StepMoves ==
  ASSUME TypeOK, TypeOK', PhaseInv, MutexDiscipline, ChainInv, ObjectInv, HomeInv, MemberInv,
         NEW t \in Threads, Accept(t) \/ Step(t), NEW j \in Insts
  PROVE  Moves(t, j)
<1>1. CASE Accept(t)
  <2>1. /\ pc[t] = "idle" /\ UNCHANGED <<pool, home, items, call>>
        /\ req'[t].ws = None /\ req'[t].chain = [f \in Flows |-> None]
    BY <1>1 DEF Accept, poolVars, TypeOK, EngineTypeOK
  <2>2. req[t] = NoRequest /\ ~Building(t)
    BY <2>1 DEF TypeOK, EngineTypeOK, PhaseInv, PhaseOK
  <2>3. ChainsOf(t) = {} /\ ChainsOf(t)' = {} /\ WS(t) = None /\ WS(t)' = None
    BY <2>1, <2>2 DEF ChainsOf, Live, Building, WS, NoRequest
  <2> QED BY <2>1, <2>3, SteadyChains DEF Moves
<1>2. CASE \/ ReadMessage(t) \/ UnlockForService(t) \/ ServiceThrows(t) \/ NoHandlers(t)
           \/ InvokeStage(t) \/ HandlerFails(t) \/ FaultCrashes(t) \/ ServiceFails(t)
           \/ ServiceFaults(t) \/ WriteReply(t) \/ WriteFault(t)
  BY <1>2, StillMoves DEF Moves
<1>3. CASE GetWebService(t)
  BY <1>3, ServiceMoves
<1>4. CASE GetChain(t) \/ ChainPooled(t) \/ SkipRelease(t)
  BY <1>4, EmptyMoves DEF Moves
<1>5. CASE FillChain(t)
  BY <1>5, FillMoves
<1>6. CASE ChainReady(t)
  BY <1>6, ReadyMovesNone DEF Moves
<1>7. CASE ChainFails(t)
  <2>1. CASE EndUndo(t)
    BY <1>7, <2>1, EmptyMoves DEF Moves
  <2>2. CASE ~EndUndo(t)
    BY <1>7, <2>2, ThrowMoves
  <2> QED BY <2>1, <2>2
<1>8. CASE PoolChain(t)
  <2>1. pc[t] = "release" /\ UNCHANGED <<pc, at, req>>
    BY <1>8 DEF PoolChain, engineVars
  <2>2. Session(t) \in Sessions /\ WS(t)' = WS(t)
    BY <2>1, RequestTypes DEF WS
  <2>3. CASE BeginPut(t, ChainAt(t))
    <3>1. ~Building(t) /\ ~Building(t)' /\ UNCHANGED <<pool, home, items>>
      BY <2>3 DEF BeginPut, Building, NoCall, TypeOK, PoolTypeOK
    <3>2. ChainsOf(t)' = ChainsOf(t)
      BY <2>1, <3>1 DEF ChainsOf, Live
    <3> QED BY <2>2, <3>1, <3>2, SteadyChains DEF Moves
  <2>4. CASE PoolNext(t, Session(t))
    <3>1. call[t].op = "put" /\ PutNext(t, Session(t)) /\ UNCHANGED call
      BY <2>4 DEF PoolNext, PutNext
    <3>2. ChainsOf(t)' = ChainsOf(t)
      BY <2>1, <3>1 DEF ChainsOf, Live, Building
    <3> PICK s \in Sessions : s = Session(t)
      BY <2>2
    <3> QED BY <2>2, <3>1, <3>2, PutNextMoves
  <2> QED BY <1>8, <2>3, <2>4 DEF PoolChain
<1>9. CASE PoolWebService(t) \/ NoWebService(t) \/ FaultEscapes(t)
  BY <1>9, EndMoves
<1> QED
  BY <1>1, <1>2, <1>3, <1>4, <1>5, <1>6, <1>7, <1>8, <1>9 DEF Step

\* All the invariants the steps need.
Inv ==
  /\ TypeOK /\ PhaseInv /\ MutexDiscipline /\ ChainInv /\ ObjectInv /\ HomeInv /\ MemberInv

LEMMA Invariant == Spec => []Inv /\ []ExclusiveUse
  BY TypeCorrect, PhaseInvariant, MutexFreedOnEveryPath, ChainInvariant, ObjectInvariant,
     HomeInvariant, MemberInvariant, ObjectsAreExclusive, PTL DEF Inv

-----------------------------------------------------------------------------
(* The lease of every object.                                               *)

\* The owner of an object, read off the pools and the engines.
LEMMA OwnerIs ==
  ASSUME ExclusiveUse, ObjectInv, NEW i \in Insts
  PROVE  /\ home[i] = None => Owner[i] = "absent"
         /\ home[i] # None /\ i \in Pooled => Owner[i] = "idle"
         /\ \A u \in Threads : Holds(u, i) => Owner[i] = u
         /\ home[i] # None /\ i \notin Pooled /\ (\A u \in Threads : ~Holds(u, i))
              => Owner[i] = "lost"
<1>1. \A u \in Threads : i \in HandlersOf(u) <=> Holds(u, i)
  BY HeldIff
<1>2. \A u \in Threads : Holds(u, i) =>
        /\ home[i] # None /\ i \notin Pooled
        /\ \A v \in Threads : Holds(v, i) => v = u
  BY <1>1, ConstantsAssumption DEF ExclusiveUse, ObjectInv, CreatedInv, Nowhere, Holds,
     InChains, Active
<1>3. \A u \in Threads : Holds(u, i) => (CHOOSE v \in Threads : i \in HandlersOf(v)) = u
  BY <1>1, <1>2
<1>4. Owner[i] = IF home[i] = None THEN "absent"
                 ELSE IF i \in Pooled THEN "idle"
                 ELSE IF \E v \in Threads : Holds(v, i)
                      THEN CHOOSE v \in Threads : i \in HandlersOf(v)
                 ELSE "lost"
  BY <1>1 DEF Owner
<1> QED BY <1>2, <1>3, <1>4

\* The same in the next state.
LEMMA OwnerNext ==
  ASSUME ExclusiveUse', ObjectInv', NEW i \in Insts
  PROVE  /\ home'[i] = None => Owner'[i] = "absent"
         /\ home'[i] # None /\ i \in Pooled' => Owner'[i] = "idle"
         /\ \A u \in Threads : Holds(u, i)' => Owner'[i] = u
         /\ home'[i] # None /\ i \notin Pooled' /\ (\A u \in Threads : ~Holds(u, i)')
              => Owner'[i] = "lost"
<1>1. \A u \in Threads : i \in HandlersOf(u)' <=> Holds(u, i)'
  BY HeldIff
<1>2. \A u \in Threads : Holds(u, i)' =>
        /\ home'[i] # None /\ i \notin Pooled'
        /\ \A v \in Threads : Holds(v, i)' => v = u
  BY <1>1, ConstantsAssumption DEF ExclusiveUse, ObjectInv, CreatedInv, Nowhere, Holds,
     InChains, Active
<1>3. \A u \in Threads : Holds(u, i)' => (CHOOSE v \in Threads : i \in HandlersOf(v)') = u
  BY <1>1, <1>2
<1>4. Owner'[i] = IF home'[i] = None THEN "absent"
                  ELSE IF i \in Pooled' THEN "idle"
                  ELSE IF \E v \in Threads : Holds(v, i)'
                       THEN CHOOSE v \in Threads : i \in HandlersOf(v)'
                  ELSE "lost"
  BY <1>1 DEF Owner
<1> QED BY <1>2, <1>3, <1>4

\* A step of t changes the owner of an object as the lease allows.
LEMMA LeaseStep ==
  ASSUME Inv, Inv', ExclusiveUse, ExclusiveUse', NEW t \in Threads, Accept(t) \/ Step(t),
         NEW i \in Insts
  PROVE  \/ Owner'[i] = Owner[i]
         \/ Lease!Lend(t, Owner[i], Owner'[i])
         \/ Lease!GiveUp(t, Owner[i], Owner'[i])
<1>i. ObjectInv /\ ObjectInv'
  BY DEF Inv
<1>1. Moves(t, i) /\ \A u \in Threads : u # t => (Holds(u, i)' <=> Holds(u, i))
  BY StepMoves, OthersHold DEF Inv
<1>2. CASE Steady(t, i)
  <2>1. \A u \in Threads : Holds(u, i)' <=> Holds(u, i)
    BY <1>1, <1>2 DEF Steady
  <2>2. CASE \E u \in Threads : Holds(u, i)
    BY <1>i, <2>1, <2>2, OwnerIs, OwnerNext
  <2>3. CASE \A u \in Threads : ~Holds(u, i)
    BY <1>i, <1>2, <2>1, <2>3, OwnerIs, OwnerNext DEF Steady
  <2> QED BY <2>2, <2>3
<1>3. CASE LentTo(t, i)
  <2>1. Owner[i] \in {"absent", "idle"}
    BY <1>i, <1>3, OwnerIs DEF LentTo
  <2>2. \A u \in Threads : ~Holds(u, i)
    <3>1. CASE home[i] = None
      BY <1>i, <3>1, ConstantsAssumption DEF ObjectInv, CreatedInv, Nowhere, Holds, InChains,
         Active
    <3>2. CASE i \in Pooled
      BY <3>2, HeldIff DEF ExclusiveUse
    <3> QED BY <1>3, <3>1, <3>2 DEF LentTo
  <2>3. Owner'[i] \in {t, "lost"}
    <3>1. CASE Holds(t, i)'
      BY <1>i, <3>1, OwnerNext
    <3>2. CASE ~Holds(t, i)'
      <4>1. \A u \in Threads : ~Holds(u, i)'
        BY <1>1, <2>2, <3>2
      <4> QED BY <1>i, <1>3, <4>1, OwnerNext DEF LentTo
    <3> QED BY <3>1, <3>2
  <2> QED BY <2>1, <2>3 DEF Lease!Lend
<1>4. CASE GivenUp(t, i)
  <2>1. Owner[i] = t
    BY <1>i, <1>4, OwnerIs DEF GivenUp
  <2>2. \A u \in Threads : ~Holds(u, i)'
    <3>1. \A u \in Threads : u # t => ~Holds(u, i)
      BY <1>4, HeldIff DEF GivenUp, ExclusiveUse
    <3> QED BY <1>1, <1>4, <3>1 DEF GivenUp
  <2>3. Owner'[i] \in {"idle", "lost"}
    BY <1>i, <1>4, <2>2, OwnerNext DEF GivenUp
  <2> QED BY <2>1, <2>3 DEF Lease!GiveUp
<1> QED BY <1>1, <1>2, <1>3, <1>4 DEF Moves

\* LeaseSpec: the pools and engines implement the abstract lease.  An object is
\* created by the loader, lent to one engine at a time, idle in between, and
\* never lent again once no pool and no engine refers to it: every step moves
\* the objects of one thread, from nobody to it or from it to nobody.
THEOREM ObjectsAreLeased == Spec => LeaseSpec
<1>1. Init => Lease!Init
  BY DEF Init, PoolInit, Lease!Init, Owner
<1>2. Inv /\ Inv' /\ ExclusiveUse /\ ExclusiveUse' /\ [Next]_vars => [Lease!Next]_Owner
  <2> SUFFICES ASSUME Inv, Inv', ExclusiveUse, ExclusiveUse', [Next]_vars
               PROVE  [Lease!Next]_Owner
    OBVIOUS
  <2>1. CASE UNCHANGED vars
    BY <2>1 DEF vars, poolVars, engineVars, Owner, Pooled, HandlersOf, WebServiceOf, ChainsOf,
       HandlersIn, Live, Building
  <2>2. ASSUME NEW t \in Threads, Accept(t) \/ Step(t) PROVE Lease!Next
    BY <2>2, LeaseStep DEF Lease!Next
  <2> QED BY <2>1, <2>2 DEF Next
<1> QED BY <1>1, <1>2, Invariant, PTL DEF Spec, LeaseSpec, Lease!Spec

\* LossOnlyWhere: an object drops out of sight only where an engine forgets it.
LEMMA LossStep ==
  ASSUME Inv, Inv', NEW t \in Threads, Accept(t) \/ Step(t),
         NEW i \in Lost' \ Lost
  PROVE  \/ Abandons(t, i)
         \/ /\ Getting(t) /\ KindOf[Current(t).lib] # "handler"
            /\ home[i] = None \/ home[i] = At(Current(t))
<1>1. /\ i \in Insts /\ home'[i] # None /\ i \notin Pooled'
      /\ \A u \in Threads : ~Holds(u, i)'
  BY HeldIff DEF Lost
<1> PICK j \in Insts : j = i
  BY <1>1
<1>2. Moves(t, j)
  BY StepMoves DEF Inv
<1>3. \A u \in Threads : u # t => (Holds(u, j)' <=> Holds(u, j))
  BY OthersHold DEF Inv
<1> QED BY <1>1, <1>2, <1>3, HeldIff DEF Moves, Steady, LentTo, GivenUp, Lost

\* LossOnlyWhere: an object drops out of sight only when getHandlerChain throws,
\* when a request with global or transport chains ends, when a fault cannot be
\* written, or when getHandlerChain drops an object that is not a C++ handler.
THEOREM LossesAreKnown == Spec => LossOnlyWhere
<1> DEFINE Where ==
      \E t \in Threads :
        \/ pc[t] = "flows" /\ req'[t].fault \in {"beingUsed", "create"}
        \/ /\ pc[t] = "release" /\ pc'[t] = "idle"
           /\ \E f \in Flows \ {"SReq", "SRes"} : Live(t, f)
        \/ pc[t] = "fault" /\ req[t].header
        \/ Getting(t) /\ KindOf[Current(t).lib] # "handler"
<1>1. Inv /\ Inv' /\ [Next]_vars => [Lost' \subseteq Lost \/ Where]_vars
  <2> SUFFICES ASSUME Inv, Inv', NEW t \in Threads, Accept(t) \/ Step(t),
                      NEW i \in Lost' \ Lost
               PROVE  Where
    BY DEF Next
  <2>1. CASE Abandons(t, i)
    BY <2>1 DEF Abandons
  <2>2. CASE Getting(t) /\ KindOf[Current(t).lib] # "handler"
    BY <2>2
  <2> QED BY <2>1, <2>2, LossStep
<1> QED BY <1>1, Invariant, PTL DEF Spec, LossOnlyWhere

-----------------------------------------------------------------------------
(* Web services.                                                            *)

Listed(e) ==
  \E svc \in Services, f \in Flows : \E n \in DOMAIN FlowList[svc][f] : e = FlowList[svc][f][n]

\* No service is also configured as a handler of the same scope.
ServicesApart ==
  \A e \in Entries, svc \in Services : Listed(e) => At(e) # At(ServiceEntry[svc])

\* What getHandlerChain has left to do comes from the configuration.
ListedInv == \A t \in Threads : \A n \in DOMAIN call[t].rest : Listed(call[t].rest[n])

LEMMA ListedStep ==
  ASSUME TypeOK, ListedInv, NEW t \in Threads, Accept(t) \/ Step(t)
  PROVE  ListedInv'
<1>t. call \in [Threads -> Calls]
  BY DEF TypeOK, PoolTypeOK
<1> SUFFICES ASSUME NEW n \in DOMAIN call'[t].rest PROVE Listed(call'[t].rest[n])
  BY OtherThreads DEF ListedInv, Untouched
<1>0. \A m \in DOMAIN call[t].rest : Listed(call[t].rest[m])
  BY DEF ListedInv
<1>1. CASE call'[t].rest = call[t].rest
  BY <1>0, <1>1
<1>2. CASE call'[t].rest = <<>>
  BY <1>2
<1>3. CASE GetChain(t)
  <2>1. PICK c \in Chains :
          call' = [call EXCEPT ![t] = [op |-> "get", chain |-> c, rest |-> ListAt(t)]]
    BY <1>3 DEF GetChain, BeginGet
  <2>2. call'[t].rest = ListAt(t)
    BY <1>t, <2>1
  <2>3. pc[t] = "flows" /\ at[t] \in 1..6
    BY <1>3 DEF GetChain, TypeOK, EngineTypeOK, Last
  <2>4. req[t].svc \in Services /\ GetOrder[at[t]] \in Flows
    BY <2>3, RequestTypes, Orders
  <2> QED BY <2>2, <2>4 DEF ListAt, Listed
<1>4. CASE FillChain(t)
  <2>1. CASE AddHandler(t, Session(t)) \/ DropCHandler(t, Session(t))
    <3>1. Getting(t) /\ call' = [call EXCEPT ![t].rest = Tail(@)]
      BY <2>1 DEF AddHandler, DropCHandler
    <3>2. call[t] \in [op : {"get", "undo", "put"}, chain : Chains, rest : Seq(Entries)]
      BY <1>t, <3>1 DEF Getting, Calls, NoCall
    <3> PICK q \in Seq(Entries) : q = call[t].rest
      BY <3>2
    <3>3. call'[t].rest = Tail(q) /\ q # <<>>
      BY <1>t, <3>1, <3>2 DEF Getting
    <3>4. n \in DOMAIN Tail(q)
      BY <3>3
    <3>5. n + 1 \in DOMAIN q /\ Tail(q)[n] = q[n + 1]
      BY <3>3, <3>4
    <3> QED BY <1>0, <3>3, <3>5
  <2>2. CASE WrongType(t, Session(t))
    <3>1. Getting(t) /\ call' = [call EXCEPT ![t].op = "undo", ![t].rest = <<>>]
      BY <2>2 DEF WrongType
    <3>2. call[t] \in [op : {"get", "undo", "put"}, chain : Chains, rest : Seq(Entries)]
      BY <1>t, <3>1 DEF Getting, Calls, NoCall
    <3>3. call'[t].rest = <<>>
      BY <1>t, <3>1, <3>2
    <3> QED BY <3>3
  <2>3. CASE UnlockForCreate(t, Session(t)) \/ UndoNext(t)
    BY <1>1, <2>3 DEF UnlockForCreate, UndoNext, PutNext
  <2> QED BY <1>4, <2>1, <2>2, <2>3 DEF FillChain
<1>5. CASE ChainReady(t) \/ ChainFails(t) \/ ChainPooled(t)
  <2>1. call'[t] = NoCall
    BY <1>t, <1>5 DEF ChainReady, EndGet, ChainFails, GetBeingUsed, GetCreateFails,
       AbandonGet, EndUndo, ChainPooled, EndPut, StoreChain
  <2> QED BY <1>2, <2>1 DEF NoCall
<1>6. CASE PoolChain(t)
  <2>1. CASE BeginPut(t, ChainAt(t))
    <3>1. call'[t].rest = <<>>
      BY <1>t, <2>1 DEF BeginPut
    <3> QED BY <1>2, <3>1
  <2>2. CASE PoolNext(t, Session(t))
    BY <1>1, <2>2 DEF PoolNext, PutNext
  <2> QED BY <1>6, <2>1, <2>2 DEF PoolChain
<1>7. CASE \/ Accept(t) \/ ReadMessage(t) \/ GetWebService(t) \/ UnlockForService(t)
           \/ ServiceThrows(t) \/ NoHandlers(t) \/ InvokeStage(t) \/ HandlerFails(t)
           \/ FaultCrashes(t) \/ ServiceFails(t) \/ ServiceFaults(t) \/ WriteReply(t)
           \/ WriteFault(t) \/ FaultEscapes(t) \/ SkipRelease(t) \/ PoolWebService(t)
           \/ NoWebService(t)
  BY <1>1, <1>7 DEF Accept, ReadMessage, GetWebService, UnlockForService, ServiceThrows,
     NoHandlers, InvokeStage, HandlerFails, FaultCrashes, ServiceFails, ServiceFaults,
     WriteReply, WriteFault, FaultEscapes, SkipRelease, PoolWebService, NoWebService,
     NoChainStep, poolVars
<1> QED BY <1>3, <1>4, <1>5, <1>6, <1>7 DEF Step

LEMMA ListedInvariant == Spec => []ListedInv
<1>1. Init => ListedInv
  BY DEF Init, PoolInit, ListedInv, NoCall
<1>2. TypeOK /\ ListedInv /\ [Next]_vars => ListedInv'
  <2>1. ASSUME ListedInv, UNCHANGED vars PROVE ListedInv'
    BY <2>1 DEF vars, poolVars, ListedInv
  <2> QED BY <2>1, ListedStep DEF Next
<1> QED BY <1>1, <1>2, TypeCorrect, PTL DEF Spec

\* ServicesKept: a request loses no web service object unless its fault cannot
\* be written, when no service is configured as a handler too; every other way
\* to lose an object concerns handlers, and an object keeps its home.
THEOREM ServicesAreKept == ServicesApart => (Spec => ServicesKept)
<1> SUFFICES ASSUME ServicesApart PROVE Spec => ServicesKept
  OBVIOUS
<1> DEFINE Kept ==
      \A i \in Lost' \ Lost, svc \in Services :
        home[i] = <<ServiceEntry[svc].scope, ServiceEntry[svc].lib>> =>
          \E t \in Threads : pc[t] = "fault" /\ req[t].header
<1>1. Inv /\ Inv' /\ ListedInv /\ [Next]_vars => [Kept]_vars
  <2> SUFFICES ASSUME Inv, Inv', ListedInv, NEW t \in Threads, Accept(t) \/ Step(t),
                      NEW i \in Lost' \ Lost, NEW svc \in Services,
                      home[i] = At(ServiceEntry[svc])
               PROVE  pc[t] = "fault" /\ req[t].header
    BY DEF Next, At
  <2>1. ServiceEntry[svc] \in Entries /\ home[i] # None
    BY EngineAssumption, AtHome
  <2>2. ASSUME Getting(t), home[i] = At(Current(t)) PROVE FALSE
    <3>1. Current(t) \in Entries
      BY <2>2, GettingType DEF Inv
    <3>2. Listed(Current(t))
      <4>1. call[t] \in [op : {"get", "undo", "put"}, chain : Chains, rest : Seq(Entries)]
        BY <2>2 DEF Getting, Inv, TypeOK, PoolTypeOK, Calls, NoCall
      <4> PICK q \in Seq(Entries) : q = call[t].rest
        BY <4>1
      <4>2. q # <<>> /\ Current(t) = Head(q)
        BY <2>2 DEF Getting, Current
      <4>3. 1 \in DOMAIN q /\ Head(q) = q[1]
        BY <4>2
      <4> QED BY <4>2, <4>3 DEF ListedInv
    <3> QED BY <2>2, <3>1, <3>2 DEF ServicesApart
  <2>3. ASSUME InChains(t, i) PROVE FALSE
    <3>1. PICK c \in ChainsOf(t) : \E m \in DOMAIN items[c] : H(c, m) = i
      BY <2>3 DEF InChains
    <3>2. PICK m \in DOMAIN items[c] : H(c, m) = i
      BY <3>1
    <3>3. c \in Chains
      BY <3>1, ActiveApart DEF Active, Inv, TypeOK, PoolTypeOK
    <3>4. home[i] = At(items[c][m].e) /\ KindOf[items[c][m].e.lib] = "handler"
      BY <3>2, <3>3 DEF Inv, HomeInv, ChainsHome
    <3>5. ServiceEntry[svc].lib = items[c][m].e.lib
      BY <3>4 DEF At
    <3> QED BY <3>4, <3>5, ServiceAssumption
  <2> QED BY <2>1, <2>2, <2>3, LossStep DEF Abandons
<1> QED BY <1>1, Invariant, ListedInvariant, PTL DEF Spec, ServicesKept
=============================================================================
