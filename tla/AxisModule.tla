----------------------------- MODULE AxisModule -----------------------------
(***************************************************************************)
(* Start and stop of the engine: initialize_module and uninitialize_module *)
(* of Axis.cpp, counted over everything in the process that uses them: the *)
(* Call objects of a client, and the programs (an application, a server    *)
(* host) that pair Axis::initialize with Axis::terminate.  Each of the two *)
(* functions runs under one mutex and is one step.                         *)
(*                                                                         *)
(* The pools, the loader and the deployment descriptor that ModuleInitialize*)
(* allocates are one numbered set; globals is the set the g_p... pointers  *)
(* refer to, which may have been deleted.                                  *)
(***************************************************************************)
EXTENDS Naturals, FiniteSets

CONSTANTS
  Calls,      \* Call objects, each constructed with success or not
  Programs,   \* users of Axis::initialize and Axis::terminate
  IsServer,   \* the argument a program gives to initialize
  MaxStarts   \* bound on the sets of globals allocated in one behaviour

Holders == Calls \cup Programs

ASSUME HoldersAssumption ==
  /\ Calls \cap Programs = {}
  /\ IsFiniteSet(Calls) /\ IsFiniteSet(Programs)
  /\ IsServer \in [Programs -> BOOLEAN]
  /\ MaxStarts \in Nat

ServerSide(h) == h \in Programs /\ IsServer[h]

VARIABLES
  count,      \* g_uModuleInitialize
  server,     \* AxisEngine::m_bServer
  running,    \* g_isRunning
  globals,    \* the set of globals the pointers refer to, 0 for null
  made,       \* sets allocated so far
  alive,      \* sets allocated and not deleted
  parser,     \* times the XML parser library is loaded
  transport,  \* times the transport library is loaded
  phase,      \* per holder: "out", "new" (a Call under construction), "in",
              \* "gone" (a Call whose constructor has thrown)
  using       \* the globals a holder took its objects from

vars == <<count, server, running, globals, made, alive, parser, transport, phase, using>>

TypeOK ==
  /\ count \in Nat
  /\ server \in BOOLEAN
  /\ running \in BOOLEAN
  /\ globals \in Nat /\ made \in Nat /\ alive \subseteq Nat
  /\ parser \in Nat /\ transport \in Nat
  /\ phase \in [Holders -> {"out", "new", "in", "gone"}]
  /\ using \in [Holders -> Nat]

Init ==
  /\ count = 0
  /\ server = FALSE
  /\ running = FALSE
  /\ globals = 0 /\ made = 0 /\ alive = {}
  /\ parser = 0 /\ transport = 0
  /\ phase = [h \in Holders |-> "out"]
  /\ using = [h \in Holders |-> 0]

-----------------------------------------------------------------------------
(* initialize_module.                                                       *)

\* The first call: m_bServer is set and a new set of globals allocated, also
\* over one that an earlier call left behind when it failed.
Allocate(isServer) ==
  /\ count = 0
  /\ made < MaxStarts
  /\ made' = made + 1
  /\ globals' = made + 1
  /\ alive' = alive \cup {made + 1}
  /\ server' = isServer

\* The libraries are loaded and the deployment descriptor is read.
FirstStart(isServer) ==
  /\ Allocate(isServer)
  /\ parser' = parser + 1
  /\ transport' = IF isServer THEN transport ELSE transport + 1
  /\ running' = TRUE
  /\ count' = 1

\* Mutant: a failed start is counted.
FirstFails_Counts(isServer) ==
  /\ Allocate(isServer)
  /\ parser' = parser
  /\ transport' = transport
  /\ count' = 1
  /\ UNCHANGED running

\* The parser library, the transport library (on the client), or the descriptor
\* cannot be read: an exception, with everything done so far left as it is.
FirstFails(isServer) ==
  /\ Allocate(isServer)
  /\ \/ UNCHANGED <<parser, transport>>
     \/ parser' = parser + 1 /\ UNCHANGED transport
     \/ ~isServer /\ parser' = parser + 1 /\ transport' = transport + 1
  /\ UNCHANGED <<count, running>>

\* Mutant: a client joins a server.
Again_AnyKind(isServer) ==
  /\ count > 0
  /\ count' = count + 1
  /\ UNCHANGED <<server, running, globals, made, alive, parser, transport>>

\* A further call only counts.
Again(isServer) ==
  /\ count > 0
  /\ server = isServer
  /\ count' = count + 1
  /\ UNCHANGED <<server, running, globals, made, alive, parser, transport>>

\* initialize_module returns.
Starts(isServer) == FirstStart(isServer) \/ Again(isServer)

\* initialize_module throws; for a client in a server and the reverse it has
\* changed nothing.
Throws(isServer) ==
  \/ FirstFails(isServer)
  \/ /\ count > 0 /\ server # isServer
     /\ UNCHANGED <<count, server, running, globals, made, alive, parser, transport>>

-----------------------------------------------------------------------------
(* uninitialize_module.                                                     *)

\* Mutant: g_isRunning is not reset.
Stops_StillRunning ==
  /\ count > 0
  /\ count' = count - 1
  /\ IF count = 1
     THEN /\ alive' = alive \ {globals}
          /\ transport' = IF server THEN transport ELSE transport - 1
          /\ parser' = parser - 1
     ELSE UNCHANGED <<alive, parser, transport>>
  /\ UNCHANGED <<running, server, globals, made>>

\* Mutant: the test of m_bServer is the wrong way round.
Stops_WrongSide ==
  /\ count > 0
  /\ count' = count - 1
  /\ IF count = 1
     THEN /\ running' = FALSE
          /\ alive' = alive \ {globals}
          /\ transport' = IF server THEN transport - 1 ELSE transport
          /\ parser' = parser - 1
     ELSE UNCHANGED <<running, alive, parser, transport>>
  /\ UNCHANGED <<server, globals, made>>

\* The last call deletes the globals and unloads the libraries.
Stops ==
  /\ count > 0
  /\ count' = count - 1
  /\ IF count = 1
     THEN /\ running' = FALSE
          /\ alive' = alive \ {globals}
          /\ transport' = IF server THEN transport ELSE transport - 1
          /\ parser' = parser - 1
     ELSE UNCHANGED <<running, alive, parser, transport>>
  /\ UNCHANGED <<server, globals, made>>

-----------------------------------------------------------------------------
(* The holders.                                                             *)

Become(h, p) == phase' = [phase EXCEPT ![h] = p]

Enter(h, p) == Become(h, p) /\ using' = [using EXCEPT ![h] = globals']

\* Call::Call up to its try block.
NewCall(c) ==
  /\ phase[c] = "out"
  /\ \/ Starts(FALSE) /\ Enter(c, "new")
     \/ Throws(FALSE) /\ UNCHANGED <<phase, using>>

\* The rest of the constructor: the transport and the engine, whose serializer
\* and deserializer come from the pools.  When it throws, no destructor runs.
MakeCall(c) ==
  /\ phase[c] = "new"
  /\ Become(c, "in") \/ Become(c, "gone")
  /\ UNCHANGED <<count, server, running, globals, made, alive, parser, transport, using>>

\* Call::~Call gives back what the engine has and calls uninitialize_module.
DeleteCall(c) ==
  /\ phase[c] = "in"
  /\ Stops
  /\ Become(c, "out")
  /\ UNCHANGED using

\* Axis::initialize, and a host's initialize_module(1).
Initialize(p) ==
  /\ phase[p] = "out"
  /\ \/ Starts(IsServer[p]) /\ Enter(p, "in")
     \/ Throws(IsServer[p]) /\ UNCHANGED <<phase, using>>

\* Axis::terminate.
Terminate(p) ==
  /\ phase[p] = "in"
  /\ Stops
  /\ Become(p, "out")
  /\ UNCHANGED using

\* Axis::stopAxis, from the administration service or a program.
StopAxis(p) ==
  /\ phase[p] = "in"
  /\ running' = FALSE
  /\ UNCHANGED <<count, server, globals, made, alive, parser, transport, phase, using>>

Next ==
  \/ \E c \in Calls : NewCall(c) \/ MakeCall(c) \/ DeleteCall(c)
  \/ \E p \in Programs : Initialize(p) \/ Terminate(p) \/ StopAxis(p)

Spec == Init /\ [][Next]_vars

-----------------------------------------------------------------------------
(* Safety.                                                                  *)

\* What holds a count of initialize_module.
Counted == {h \in Holders : phase[h] # "out"}

\* g_uModuleInitialize is the number of initialize_module calls that returned
\* and were not undone: a failed call and a refused one count nothing.
CountExact == count = Cardinality(Counted)

\* Whoever is between its initialize_module and its uninitialize_module works
\* with the globals it started with: they are not deleted or replaced, the
\* libraries are loaded, and the whole process is client or server like it,
\* whoever else starts, fails to start or stops meanwhile.
HoldersServed ==
  \A h \in Holders : phase[h] \in {"new", "in"} =>
    /\ using[h] = globals /\ globals \in alive
    /\ server = ServerSide(h)
    /\ parser > 0
    /\ ~ServerSide(h) => transport > 0

\* Axis::isRunning, which takes no mutex, is true only while the globals exist.
RunningHasGlobals == running => count > 0 /\ globals \in alive

\* Axis.hpp: isRunning is true before the last invocation of Axis::terminate,
\* so that with every Call gone and every program terminated it is false.
StoppedAtTheEnd ==
  (\A h \in Holders : phase[h] \in {"out", "gone"}) => ~running
=============================================================================
