-------------------------- MODULE HandlerPool_proofs --------------------------
(***************************************************************************)
(* Lemmas about the steps of HandlerPool, for any engine that takes them:  *)
(* types, and the mutex.                                                   *)
(***************************************************************************)
EXTENDS HandlerPool, TLAPS

-----------------------------------------------------------------------------
(* Types.                                                                   *)

\* The variables an object operation assigns keep their types.
ObjectTypes ==
  /\ pool \in [Slots -> SUBSET Insts]
  /\ known \subseteq Scopes \X Libs
  /\ home \in [Insts -> (Scopes \X Libs) \cup {None}]
  /\ ready \subseteq Insts
  /\ creating \subseteq Threads

\* getHandler keeps the types of the pools.
LEMMA ObtainType ==
  ASSUME PoolTypeOK, NEW t \in Threads, NEW e \in Entries, NEW s \in Sessions,
         NEW i \in Insts, Obtain(t, e, s, i)
  PROVE  ObjectTypes'
<1>1. CASE TakeIdle(t, e, s, i)
  BY <1>1 DEF TakeIdle, PoolTypeOK, ObjectTypes
<1>2. CASE Create(t, e, s, i)
  BY <1>2 DEF Create, PoolTypeOK, ObjectTypes, Entries
<1> QED BY <1>1, <1>2 DEF Obtain

\* poolHandler keeps the types of the pools.
LEMMA PutBackType ==
  ASSUME PoolTypeOK, NEW e \in Entries, NEW s \in Sessions \cup {Sessionless},
         NEW i \in Insts, NEW b \in BOOLEAN, PutBack(e, s, i, b)
  PROVE  ObjectTypes'
<1>1. pool' \in [Slots -> SUBSET Insts]
  BY DEF PutBack, PoolTypeOK
<1>2. <<e.scope, e.lib>> \in Scopes \X Libs
  BY DEF Entries
<1>3. ready' \subseteq Insts
  BY DEF PutBack, PoolTypeOK
<1> QED BY <1>1, <1>2, <1>3 DEF PutBack, PoolTypeOK, ObjectTypes

\* The type of one step of a chain operation.
LEMMA FillType ==
  ASSUME PoolTypeOK, NEW t \in Threads, NEW s \in Sessions,
         \/ AddHandler(t, s) \/ DropCHandler(t, s) \/ WrongType(t, s)
         \/ UnlockForCreate(t, s) \/ UndoNext(t) \/ PoolNext(t, s)
  PROVE  PoolTypeOK'
<1>0. ASSUME Getting(t)
      PROVE  /\ Current(t) \in Entries /\ Tail(call[t].rest) \in Seq(Entries)
             /\ call[t] \in [op : {"get", "undo", "put"}, chain : Chains, rest : Seq(Entries)]
  BY <1>0 DEF Getting, Current, PoolTypeOK, Calls, NoCall
<1>1. CASE AddHandler(t, s)
  <2>1. PICK i \in Insts :
          /\ Obtain(t, Current(t), s, i)
          /\ items' = [items EXCEPT ![call[t].chain] =
                         Append(@, [h |-> i, e |-> Current(t)])]
    BY <1>1 DEF AddHandler
  <2>2. [h |-> i, e |-> Current(t)] \in Items
    BY <1>0, <1>1 DEF AddHandler, Items
  <2>3. items' \in [Chains -> Seq(Items)]
    <3> DEFINE x == [h |-> i, e |-> Current(t)]  c == call[t].chain
    <3>1. c \in Chains /\ items \in [Chains -> Seq(Items)]
      BY <1>0, <1>1 DEF AddHandler, PoolTypeOK
    <3>2. Append(items[c], x) \in Seq(Items)
      BY <2>2, <3>1
    <3> HIDE DEF x, c
    <3>3. [items EXCEPT ![c] = Append(@, x)] \in [Chains -> Seq(Items)]
      BY <3>1, <3>2
    <3> QED BY <2>1, <3>3 DEF x, c
  <2>4. call' \in [Threads -> Calls]
    BY <1>0, <1>1 DEF AddHandler, PoolTypeOK, Calls
  <2>5. ObjectTypes'
    BY <1>0, <1>1, <2>1, ObtainType DEF AddHandler
  <2> QED BY <1>1, <2>3, <2>4, <2>5 DEF AddHandler, PoolTypeOK, ObjectTypes
<1>2. CASE DropCHandler(t, s)
  <2>1. PICK i \in Insts : Obtain(t, Current(t), s, i)
    BY <1>2 DEF DropCHandler
  <2>2. call' \in [Threads -> Calls]
    BY <1>0, <1>2 DEF DropCHandler, PoolTypeOK, Calls
  <2>3. ObjectTypes'
    BY <1>0, <1>2, <2>1, ObtainType DEF DropCHandler
  <2> QED BY <1>2, <2>2, <2>3 DEF DropCHandler, PoolTypeOK, ObjectTypes
<1>3. CASE WrongType(t, s)
  <2>1. PICK i \in Insts : Obtain(t, Current(t), s, i)
    BY <1>3 DEF WrongType
  <2>2. call' \in [Threads -> Calls]
    BY <1>0, <1>3 DEF WrongType, PoolTypeOK, Calls
  <2>3. ObjectTypes'
    BY <1>0, <1>3, <2>1, ObtainType DEF WrongType
  <2> QED BY <1>3, <2>2, <2>3 DEF WrongType, PoolTypeOK, ObjectTypes
<1>4. CASE UnlockForCreate(t, s)
  BY <1>4 DEF UnlockForCreate, Unlock, PoolTypeOK
<1>5. ASSUME NEW r \in Sessions \cup {Sessionless}, PutNext(t, r),
             call[t].op \in {"undo", "put"}
      PROVE  PoolTypeOK'
  <2> DEFINE c == call[t].chain  x == Head(items[c])
  <2>1. c \in Chains
    BY <1>5 DEF PoolTypeOK, Calls, NoCall
  <2>2. x \in Items /\ Tail(items[c]) \in Seq(Items)
    BY <1>5, <2>1 DEF PoolTypeOK, PutNext
  <2>3. x.e \in Entries /\ x.h \in Insts
    BY <2>2 DEF Items
  <2>4. ObjectTypes'
    BY <1>5, <2>3, PutBackType DEF PutNext
  <2>5. items' \in [Chains -> Seq(Items)]
    BY <1>5, <2>2 DEF PutNext, PoolTypeOK
  <2> QED BY <1>5, <2>4, <2>5 DEF PutNext, PoolTypeOK, ObjectTypes
<1> QED
  BY <1>1, <1>2, <1>3, <1>4, <1>5 DEF UndoNext, PoolNext
\* The type of the steps that begin and end a chain operation.
LEMMA ChainType ==
  ASSUME PoolTypeOK, NEW t \in Threads, NEW s \in Sessions,
         \/ \E list \in Seq(Entries) : BeginGet(t, list)
         \/ EndGet(t) \/ GetBeingUsed(t, s) \/ GetCreateFails(t, s) \/ EndUndo(t)
         \/ \E c \in Chains : BeginPut(t, c)
         \/ EndPut(t)
  PROVE  PoolTypeOK'
<1> USE DEF PoolTypeOK, Calls
<1>1. CASE \E list \in Seq(Entries) : BeginGet(t, list)
  <2>1. PICK list \in Seq(Entries), c \in Chains :
          /\ BeginGet(t, list)
          /\ store' = store \ {c}
          /\ used' = used \cup {c}
          /\ items' = [items EXCEPT ![c] = <<>>]
          /\ call' = [call EXCEPT ![t] = [op |-> "get", chain |-> c, rest |-> list]]
    BY <1>1 DEF BeginGet
  <2>2. items' \in [Chains -> Seq(Items)]
    BY <2>1
  <2>3. call' \in [Threads -> Calls]
    BY <2>1
  <2> QED BY <2>1, <2>2, <2>3 DEF BeginGet
<1>2. CASE EndGet(t)
  BY <1>2 DEF EndGet
<1>3. CASE GetBeingUsed(t, s)
  BY <1>3 DEF GetBeingUsed, ThrowBeingUsed, AbandonGet
<1>4. CASE GetCreateFails(t, s)
  BY <1>4 DEF GetCreateFails, ThrowCreate, AbandonGet
<1>5. ASSUME StoreChain(t), call[t].op # "none", lock' \in Threads \cup {None}
      PROVE  PoolTypeOK'
  <2>1. call[t].chain \in Chains
    BY <1>5 DEF NoCall
  <2> QED BY <1>5, <2>1 DEF StoreChain
<1>6. CASE \E c \in Chains : BeginPut(t, c)
  <2>1. PICK c \in Chains : BeginPut(t, c)
    BY <1>6
  <2>2. call' \in [Threads -> Calls]
    BY <2>1 DEF BeginPut
  <2> QED BY <2>1, <2>2 DEF BeginPut
<1> QED BY <1>1, <1>2, <1>3, <1>4, <1>5, <1>6 DEF EndUndo, EndPut

\* Nothing of the pools changes.
LEMMA PoolStutter == ASSUME PoolTypeOK, UNCHANGED poolVars PROVE PoolTypeOK'
  BY DEF PoolTypeOK, poolVars

-----------------------------------------------------------------------------
(* The mutex of HandlerPool.                                                *)

\* Steps that neither take nor free the mutex nor touch a chain operation.
LEMMA MutexFrame ==
  ASSUME MutexDiscipline, UNCHANGED <<lock, call>>
  PROVE  MutexDiscipline'
  BY DEF MutexDiscipline, Building

\* A chain operation of t advances without changing who builds a chain.
LEMMA MutexKept ==
  ASSUME PoolTypeOK, MutexDiscipline, NEW t \in Threads, NEW x,
         UNCHANGED lock, call' = [call EXCEPT ![t] = x],
         x.op \in {"get", "undo"} <=> Building(t)
  PROVE  MutexDiscipline'
<1>1. \A u \in Threads : Building(u)' <=> Building(u)
  BY DEF Building, PoolTypeOK
<1> QED BY <1>1 DEF MutexDiscipline

\* The builder of a chain frees the mutex.
LEMMA MutexFreed ==
  ASSUME PoolTypeOK, MutexDiscipline, NEW t \in Threads, Building(t),
         lock' = None, call' = [call EXCEPT ![t] = NoCall]
  PROVE  MutexDiscipline'
<1>1. lock = t
  BY DEF MutexDiscipline
<1>2. \A u \in Threads : ~Building(u)'
  BY <1>1 DEF MutexDiscipline, Building, NoCall, PoolTypeOK
<1> QED BY <1>2, ConstantsAssumption DEF MutexDiscipline

\* A thread takes the free mutex and starts to build a chain.
LEMMA MutexTaken ==
  ASSUME PoolTypeOK, MutexDiscipline, NEW t \in Threads, NEW list, BeginGet(t, list)
  PROVE  MutexDiscipline'
<1>1. \A u \in Threads : ~Building(u)
  BY ConstantsAssumption DEF MutexDiscipline, BeginGet
<1>2. \A u \in Threads : Building(u)' <=> u = t
  BY <1>1 DEF BeginGet, Building, PoolTypeOK
<1> QED BY <1>2 DEF MutexDiscipline, BeginGet

\* The steps inside a chain operation keep the mutex where it is.
LEMMA MutexFill ==
  ASSUME PoolTypeOK, MutexDiscipline, NEW t \in Threads, NEW s \in Sessions,
         \/ AddHandler(t, s) \/ DropCHandler(t, s) \/ WrongType(t, s)
         \/ UnlockForCreate(t, s) \/ UndoNext(t) \/ PoolNext(t, s)
  PROVE  MutexDiscipline'
<1> DEFINE rest == [call[t] EXCEPT !.rest = Tail(@)]
           undo == [call[t] EXCEPT !.op = "undo", !.rest = <<>>]
<1>1. CASE UNCHANGED <<lock, call>>
  BY <1>1, MutexFrame
<1>2. CASE AddHandler(t, s) \/ DropCHandler(t, s)
  <2>1. /\ call[t].op = "get" /\ call[t].rest # <<>>
        /\ call' = [call EXCEPT ![t] = rest] /\ UNCHANGED lock
    BY <1>2 DEF AddHandler, DropCHandler, Getting, PoolTypeOK
  <2>2. rest.op = "get"
    BY <2>1 DEF PoolTypeOK, Calls, NoCall
  <2> HIDE DEF rest
  <2> QED BY <2>1, <2>2, MutexKept DEF Building
<1>3. CASE WrongType(t, s)
  <2>1. /\ call[t].op = "get"
        /\ call' = [call EXCEPT ![t] = undo] /\ UNCHANGED lock
    BY <1>3 DEF WrongType, Getting, PoolTypeOK
  <2>2. undo.op = "undo"
    BY <2>1 DEF PoolTypeOK, Calls, NoCall
  <2> HIDE DEF undo
  <2> QED BY <2>1, <2>2, MutexKept DEF Building
<1> QED BY <1>1, <1>2, <1>3 DEF UnlockForCreate, UndoNext, PoolNext, PutNext

\* The steps that begin and end a chain operation take and free the mutex as
\* the operation builds a chain or not.
LEMMA MutexChain ==
  ASSUME PoolTypeOK, MutexDiscipline, NEW t \in Threads, NEW s \in Sessions,
         \/ \E list \in Seq(Entries) : BeginGet(t, list)
         \/ EndGet(t) \/ GetBeingUsed(t, s) \/ GetCreateFails(t, s) \/ EndUndo(t)
         \/ \E c \in Chains : BeginPut(t, c)
         \/ EndPut(t)
  PROVE  MutexDiscipline'
<1>1. CASE \E list \in Seq(Entries) : BeginGet(t, list)
  BY <1>1, MutexTaken
<1>2. CASE EndGet(t) \/ GetBeingUsed(t, s) \/ GetCreateFails(t, s) \/ EndUndo(t)
  BY <1>2, MutexFreed DEF EndGet, GetBeingUsed, GetCreateFails, AbandonGet, Getting,
     EndUndo, StoreChain, Building
<1>3. CASE \E c \in Chains : BeginPut(t, c)
  <2>1. PICK c \in Chains : BeginPut(t, c)
    BY <1>3
  <2> DEFINE x == [op |-> "put", chain |-> c, rest |-> <<>>]
  <2>2. call[t] = NoCall /\ call' = [call EXCEPT ![t] = x] /\ UNCHANGED lock
    BY <2>1 DEF BeginPut
  <2>3. x.op = "put" /\ call[t].op = "none"
    BY <2>2 DEF NoCall
  <2> HIDE DEF x
  <2> QED BY <2>2, <2>3, MutexKept DEF Building
<1>4. CASE EndPut(t)
  <2>1. call[t].op = "put" /\ call' = [call EXCEPT ![t] = NoCall] /\ UNCHANGED lock
    BY <1>4 DEF EndPut, StoreChain
  <2>2. NoCall.op = "none"
    BY DEF NoCall
  <2> QED BY <2>1, <2>2, MutexKept DEF Building
<1> QED BY <1>1, <1>2, <1>3, <1>4
=============================================================================
