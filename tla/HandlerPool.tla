----------------------------- MODULE HandlerPool -----------------------------
(***************************************************************************)
(* The handler pools of the engine: HandlerPool with its store of          *)
(* HandlerChain objects, the three scope pools behind it                   *)
(* (AppScopeHandlerPool, SessionScopeHandlerPool, RequestScopeHandlerPool) *)
(* and the HandlerLoader that creates handler objects.                     *)
(*                                                                         *)
(* The module defines the shared state and, per engine thread t, the steps *)
(* of HandlerPool's functions; ServerAxisEngine composes them into requests.*)
(* One step is what one thread does under one acquisition of a scope pool's*)
(* mutex.  The HandlerPool's own mutex spans several steps (getHandlerChain*)
(* keeps it for the whole loop) and is the variable lock.                  *)
(*                                                                         *)
(* Abstractions.  A pool's list of idle handlers is a set: which idle      *)
(* object is handed out does not matter to any property.  A handler that   *)
(* has been pooled back is removed from its chain at once, where the code  *)
(* moves m_itCurrHandler past it and clears the list in fini().            *)
(***************************************************************************)
EXTENDS Naturals, Sequences, FiniteSets

CONSTANTS
  Threads,      \* threads that run an engine
  Insts,        \* the BasicHandler objects the libraries can supply
  Chains,       \* the HandlerChain objects that can be allocated
  Libs,         \* handler and service libraries (nLibId)
  KindOf,       \* what an object of a library is, see Kinds
  Sessions,     \* session ids a transport returns from getSessionId
  Sessionless,  \* the key SESSIONLESSHANDLERS
  None          \* the null pointer

Scopes == {"application", "session", "request"}

\* NORMAL_HANDLER, a handler with a C function table, WEBSERVICE_HANDLER.
Kinds == {"handler", "c", "service"}

ASSUME ConstantsAssumption ==
  /\ KindOf \in [Libs -> Kinds]
  /\ Sessionless \notin Sessions
  /\ None \notin Insts \cup Chains \cup Threads \cup (Scopes \X Libs)

\* What a WSDDHandler says about a handler: its scope and its library id.
Entries == [scope : Scopes, lib : Libs]

\* One list of idle objects: m_Handlers[lib] of a pool, and in the session
\* pool m_Handlers[lib][session].
Slots == Scopes \X Libs \X (Sessions \cup {Sessionless})

\* A ChainItem: the object with the scope and library it was taken for.
Items == [h : Insts, e : Entries]

VARIABLES
  pool,      \* idle objects, per slot
  known,     \* the <<scope, lib>> that have an entry in a pool's map
  home,      \* <<scope, lib>> a created object was created for, None before
  ready,     \* objects whose init() ran and whose fini() has not
  store,     \* m_ChainStore
  used,      \* chain objects allocated so far
  items,     \* m_HandlerList of each chain
  lock,      \* holder of the HandlerPool mutex, None when free
  call,      \* per thread: the chain operation in progress
  creating   \* threads between l.unlock() and createHandler in the session pool

poolVars == <<pool, known, home, ready, store, used, items, lock, call, creating>>

-----------------------------------------------------------------------------
NoCall == [op |-> "none", chain |-> None, rest |-> <<>>]

Calls == {NoCall}
           \cup [op : {"get", "undo", "put"}, chain : Chains, rest : Seq(Entries)]

PoolTypeOK ==
  /\ pool \in [Slots -> SUBSET Insts]
  /\ known \subseteq Scopes \X Libs
  /\ home \in [Insts -> (Scopes \X Libs) \cup {None}]
  /\ ready \subseteq Insts
  /\ store \subseteq Chains
  /\ used \subseteq Chains
  /\ items \in [Chains -> Seq(Items)]
  /\ lock \in Threads \cup {None}
  /\ call \in [Threads -> Calls]
  /\ creating \subseteq Threads

PoolInit ==
  /\ pool = [k \in Slots |-> {}]
  /\ known = {}
  /\ home = [i \in Insts |-> None]
  /\ ready = {}
  /\ store = {}
  /\ used = {}
  /\ items = [c \in Chains |-> <<>>]
  /\ lock = None
  /\ call = [t \in Threads |-> NoCall]
  /\ creating = {}

-----------------------------------------------------------------------------
(* HandlerPool::getHandler: the scope pools and the loader.                 *)

\* The list an object of entry e goes back to for session s.
SlotOf(e, s) == <<e.scope, e.lib, IF e.scope = "session" THEN s ELSE Sessionless>>

\* The list getInstance takes from: the session's own, else the store of
\* sessionless objects.
Source(e, s) ==
  IF pool[SlotOf(e, s)] # {} THEN SlotOf(e, s)
                             ELSE <<e.scope, e.lib, Sessionless>>

Known(e) == <<e.scope, e.lib>> \in known

Idle(e, s) == Known(e) /\ pool[Source(e, s)] # {}

\* Mutant: the application pool creates an object whenever it has none.
BeingUsed_Never(e, s) == FALSE

\* The only object of an application scoped library is in use elsewhere.
BeingUsed(e, s) == e.scope = "application" /\ Known(e) /\ ~Idle(e, s)

\* The session pool lets go of its mutex before it creates a further object.
Unlocks(e, s) == e.scope = "session" /\ Known(e) /\ ~Idle(e, s)

\* The thread is about to call createHandler.
Creates(t, e, s) ==
  \/ t \in creating
  \/ ~Idle(e, s) /\ ~BeingUsed(e, s) /\ ~Unlocks(e, s)

\* Mutant: getInstance reads front() and forgets pop_front().
TakeIdle_NoPop(t, e, s, i) ==
  /\ t \notin creating
  /\ Idle(e, s)
  /\ i \in pool[Source(e, s)]
  /\ UNCHANGED <<pool, known, home, ready, creating>>

\* An idle object i leaves its pool.
TakeIdle(t, e, s, i) ==
  /\ t \notin creating
  /\ Idle(e, s)
  /\ i \in pool[Source(e, s)]
  /\ pool' = [pool EXCEPT ![Source(e, s)] = @ \ {i}]
  /\ UNCHANGED <<known, home, ready, creating>>

\* Mutant: the new object is also put in the pool's list.
Create_AlsoPools(t, e, s, i) ==
  /\ Creates(t, e, s)
  /\ home[i] = None
  /\ i = CHOOSE j \in Insts : home[j] = None
  /\ home' = [home EXCEPT ![i] = <<e.scope, e.lib>>]
  /\ ready' = ready \cup {i}
  /\ known' = known \cup {<<e.scope, e.lib>>}
  /\ creating' = creating \ {t}
  /\ pool' = [pool EXCEPT ![SlotOf(e, s)] = @ \cup {i}]

\* createHandler returns a new object i, its init() done; the pool's map has
\* an entry for the library from now on.  Objects not yet created are alike:
\* CHOOSE picks one.
Create(t, e, s, i) ==
  /\ Creates(t, e, s)
  /\ home[i] = None
  /\ i = CHOOSE j \in Insts : home[j] = None
  /\ home' = [home EXCEPT ![i] = <<e.scope, e.lib>>]
  /\ ready' = ready \cup {i}
  /\ known' = known \cup {<<e.scope, e.lib>>}
  /\ creating' = creating \ {t}
  /\ UNCHANGED pool

\* getHandler returns i to thread t.
Obtain(t, e, s, i) == TakeIdle(t, e, s, i) \/ Create(t, e, s, i)

\* getInstance of the session pool has unlocked and goes on to createHandler.
Unlock(t, e, s) ==
  /\ t \notin creating
  /\ Unlocks(e, s)
  /\ creating' = creating \cup {t}
  /\ UNCHANGED <<pool, known, home, ready>>

\* getInstance throws SERVER_ENGINE_HANDLER_BEING_USED.  The loop in
\* HandlerPool::getHandler that would sleep and retry tests a return code, so
\* the exception leaves it.
ThrowBeingUsed(t, e, s) ==
  /\ t \notin creating
  /\ BeingUsed(e, s)
  /\ UNCHANGED <<pool, known, home, ready, creating>>

\* createHandler throws: the library cannot be loaded, supplies no object, or
\* the new object's init() fails (the object is then deleted).
ThrowCreate(t, e, s) ==
  /\ Creates(t, e, s)
  /\ creating' = creating \ {t}
  /\ UNCHANGED <<pool, known, home, ready>>

\* Mutant: the request pool does not look at bWebService.
PutBack_FinalisesAll(e, s, i, isService) ==
  /\ pool' = [pool EXCEPT ![SlotOf(e, s)] = @ \cup {i}]
  /\ known' = known \cup {<<e.scope, e.lib>>}
  /\ ready' = IF e.scope = "request" /\ KindOf[e.lib] # "c" THEN ready \ {i} ELSE ready
  /\ UNCHANGED <<home, creating>>

\* HandlerPool::poolHandler: object i goes back to the pool of its scope.  The
\* request pool finalises it first, unless it is a web service or a C handler.
PutBack(e, s, i, isService) ==
  /\ pool' = [pool EXCEPT ![SlotOf(e, s)] = @ \cup {i}]
  /\ known' = known \cup {<<e.scope, e.lib>>}
  /\ ready' = IF e.scope = "request" /\ ~isService /\ KindOf[e.lib] # "c"
              THEN ready \ {i} ELSE ready
  /\ UNCHANGED <<home, creating>>

-----------------------------------------------------------------------------
(* HandlerPool::getHandlerChain and poolHandlerChain.                       *)

\* Mutant: the chain is used and stays in m_ChainStore.
BeginGet_NoPop(t, list) ==
  /\ lock = None
  /\ call[t] = NoCall
  /\ lock' = t
  /\ \E c \in Chains :
       /\ \/ c \in store
          \/ store = {} /\ c \notin used /\ c = CHOOSE d \in Chains : d \notin used
       /\ store' = store
       /\ used' = used \cup {c}
       /\ items' = [items EXCEPT ![c] = <<>>]
       /\ call' = [call EXCEPT ![t] = [op |-> "get", chain |-> c, rest |-> list]]
  /\ UNCHANGED <<pool, known, home, ready, creating>>

\* The mutex is taken and a chain found: the front of m_ChainStore, emptied by
\* init(), or a new one.
BeginGet(t, list) ==
  /\ lock = None
  /\ call[t] = NoCall
  /\ lock' = t
  /\ \E c \in Chains :
       /\ \/ c \in store
          \/ store = {} /\ c \notin used /\ c = CHOOSE d \in Chains : d \notin used
       /\ store' = store \ {c}
       /\ used' = used \cup {c}
       /\ items' = [items EXCEPT ![c] = <<>>]
       /\ call' = [call EXCEPT ![t] = [op |-> "get", chain |-> c, rest |-> list]]
  /\ UNCHANGED <<pool, known, home, ready, creating>>

Getting(t) == call[t].op = "get" /\ call[t].rest # <<>>

\* The WSDDHandler the loop is at.
Current(t) == Head(call[t].rest)

\* The loop's body for a NORMAL_HANDLER: the object joins the chain.
AddHandler(t, s) ==
  /\ Getting(t)
  /\ KindOf[Current(t).lib] = "handler"
  /\ \E i \in Insts :
       /\ Obtain(t, Current(t), s, i)
       /\ items' = [items EXCEPT ![call[t].chain] =
                      Append(@, [h |-> i, e |-> Current(t)])]
  /\ call' = [call EXCEPT ![t].rest = Tail(@)]
  /\ UNCHANGED <<store, used, lock>>

\* A handler with a C function table is obtained and not added to the chain.
DropCHandler(t, s) ==
  /\ Getting(t)
  /\ KindOf[Current(t).lib] = "c"
  /\ \E i \in Insts : Obtain(t, Current(t), s, i)
  /\ call' = [call EXCEPT ![t].rest = Tail(@)]
  /\ UNCHANGED <<store, used, items, lock>>

\* Any other object is of the wrong type: the loop ends and the chain is undone.
WrongType(t, s) ==
  /\ Getting(t)
  /\ KindOf[Current(t).lib] = "service"
  /\ \E i \in Insts : Obtain(t, Current(t), s, i)
  /\ call' = [call EXCEPT ![t].op = "undo", ![t].rest = <<>>]
  /\ UNCHANGED <<store, used, items, lock>>

UnlockForCreate(t, s) ==
  /\ Getting(t)
  /\ Unlock(t, Current(t), s)
  /\ UNCHANGED <<store, used, items, lock, call>>

\* Mutant: lock() and unlock() without the Lock object.
AbandonGet_KeepsLock(t) ==
  /\ UNCHANGED lock
  /\ call' = [call EXCEPT ![t] = NoCall]
  /\ UNCHANGED <<store, used, items>>

\* getHandler throws: the Lock object's destructor frees the mutex and the
\* undo code is skipped.
AbandonGet(t) ==
  /\ lock' = None
  /\ call' = [call EXCEPT ![t] = NoCall]
  /\ UNCHANGED <<store, used, items>>

GetBeingUsed(t, s) == Getting(t) /\ ThrowBeingUsed(t, Current(t), s) /\ AbandonGet(t)

GetCreateFails(t, s) == Getting(t) /\ ThrowCreate(t, Current(t), s) /\ AbandonGet(t)

\* The whole list is done: the chain is returned and the mutex freed.
EndGet(t) ==
  /\ call[t].op = "get"
  /\ call[t].rest = <<>>
  /\ lock' = None
  /\ call' = [call EXCEPT ![t] = NoCall]
  /\ UNCHANGED <<pool, known, home, ready, store, used, items, creating>>

\* One iteration of the undo loop, or of poolHandlerChain's: the next object
\* of the chain goes back to its pool.
PutNext(t, s) ==
  LET c == call[t].chain
      x == Head(items[c])
  IN /\ items[c] # <<>>
     /\ PutBack(x.e, s, x.h, FALSE)
     /\ items' = [items EXCEPT ![c] = Tail(@)]
     /\ UNCHANGED <<store, used, lock, call>>

UndoNext(t) == call[t].op = "undo" /\ PutNext(t, Sessionless)

PoolNext(t, s) == call[t].op = "put" /\ PutNext(t, s)

\* The emptied chain goes back to m_ChainStore.
StoreChain(t) ==
  /\ items[call[t].chain] = <<>>
  /\ store' = store \cup {call[t].chain}
  /\ call' = [call EXCEPT ![t] = NoCall]
  /\ UNCHANGED <<pool, known, home, ready, used, items, creating>>

\* Mutant: an early return of the error status keeps the mutex.
EndUndo_KeepsLock(t) == call[t].op = "undo" /\ StoreChain(t) /\ UNCHANGED lock

\* getHandlerChain returns its error status.
EndUndo(t) == call[t].op = "undo" /\ StoreChain(t) /\ lock' = None

\* poolHandlerChain is entered for chain c: no mutex is taken yet.
BeginPut(t, c) ==
  /\ call[t] = NoCall
  /\ call' = [call EXCEPT ![t] = [op |-> "put", chain |-> c, rest |-> <<>>]]
  /\ UNCHANGED <<pool, known, home, ready, store, used, items, lock, creating>>

\* Its last lines: take the mutex, push the chain, free the mutex.
EndPut(t) ==
  /\ call[t].op = "put"
  /\ lock = None
  /\ StoreChain(t)
  /\ UNCHANGED lock

-----------------------------------------------------------------------------
(* What the properties of the engines are stated with.                      *)

\* getHandlerChain is at work on a chain.
Building(t) == call[t].op \in {"get", "undo"}

\* The objects in a chain, and the idle ones.
HandlersIn(c) == {items[c][n].h : n \in DOMAIN items[c]}

Pooled == UNION {pool[k] : k \in Slots}

\* The HandlerPool mutex is held exactly while its holder builds or undoes a
\* chain: no way out of getHandlerChain, an exception included, keeps it.
MutexDiscipline ==
  \A t \in Threads : lock = t <=> Building(t)
=============================================================================
