-------------------------- MODULE AxisModule_proofs --------------------------
(***************************************************************************)
(* The count of initialize_module is exact and whoever holds a share of it *)
(* is served, for any finite number of Call objects and programs.          *)
(***************************************************************************)
EXTENDS AxisModule, FiniteSetTheorems, TLAPS

\* While the count is positive the globals and the libraries are there, also
\* when a Call whose constructor has thrown is all that is counted.
Up == count > 0 => globals \in alive /\ parser > 0 /\ (~server => transport > 0)

\* Every holder has its objects from the globals in place and is of their kind.
SameGlobals ==
  \A h \in Holders : phase[h] \in {"new", "in"} =>
    using[h] = globals /\ server = ServerSide(h)

RunningCounted == running => count > 0

ModuleInv == TypeOK /\ CountExact /\ Up /\ SameGlobals /\ RunningCounted

-----------------------------------------------------------------------------
(* Counting.                                                                *)

LEMMA CountedFinite == IsFiniteSet(Counted) /\ Cardinality(Counted) \in Nat
<1>1. IsFiniteSet(Holders)
  BY HoldersAssumption, FS_Union DEF Holders
<1>2. Counted \in SUBSET Holders
  BY DEF Counted
<1> QED BY <1>1, <1>2, FS_Subset, FS_CardinalityType

\* Nobody holds a share of a count of 0, and a holder of a share of 1 is alone.
LEMMA CountMeans ==
  ASSUME TypeOK, CountExact, NEW h \in Holders, phase[h] # "out"
  PROVE  /\ count > 0
         /\ count = 1 => \A g \in Holders : phase[g] # "out" => g = h
<1>1. h \in Counted
  BY DEF Counted
<1>2. Cardinality(Counted \ {h}) = Cardinality(Counted) - 1 /\ IsFiniteSet(Counted \ {h})
  BY <1>1, CountedFinite, FS_RemoveElement
<1>3. Cardinality(Counted \ {h}) \in Nat
  BY <1>2, FS_CardinalityType
<1>4. count > 0
  BY <1>2, <1>3, CountedFinite DEF CountExact
<1>5. ASSUME count = 1 PROVE Counted \ {h} = {}
  BY <1>5, <1>2, FS_EmptySet DEF CountExact
<1> QED BY <1>4, <1>5 DEF Counted

LEMMA NobodyCounted ==
  ASSUME TypeOK, CountExact, count = 0
  PROVE  \A h \in Holders : phase[h] = "out"
  BY CountMeans DEF TypeOK

\* A holder that gets a share.
LEMMA ShareTaken ==
  ASSUME TypeOK, CountExact, NEW h \in Holders, phase[h] = "out",
         NEW p \in {"new", "in"}, Become(h, p), count' = count + 1
  PROVE  CountExact'
<1>1. Counted' = Counted \cup {h} /\ h \notin Counted
  BY DEF Counted, Become, TypeOK
<1> QED BY <1>1, CountedFinite, FS_AddElement DEF CountExact

\* A holder that gives its share up.
LEMMA ShareGiven ==
  ASSUME TypeOK, CountExact, NEW h \in Holders, phase[h] = "in",
         Become(h, "out"), count' = count - 1
  PROVE  CountExact'
<1>1. Counted' = Counted \ {h} /\ h \in Counted
  BY DEF Counted, Become, TypeOK
<1> QED BY <1>1, CountedFinite, FS_RemoveElement DEF CountExact

\* Nobody's share changes.
LEMMA SharesKept ==
  ASSUME CountExact, UNCHANGED count,
         \A h \in Holders : phase'[h] # "out" <=> phase[h] # "out"
  PROVE  CountExact'
<1>1. Counted' = Counted
  BY DEF Counted
<1> QED BY <1>1 DEF CountExact

-----------------------------------------------------------------------------
(* The invariant.                                                           *)

\* A call of initialize_module that returns, for holder h.
LEMMA StartStep ==
  ASSUME ModuleInv, NEW h \in Holders, phase[h] = "out", NEW p \in {"new", "in"},
         Starts(ServerSide(h)), Enter(h, p)
  PROVE  ModuleInv'
<1> USE DEF ModuleInv, Enter
<1>1. count' = count + 1
  BY DEF Starts, FirstStart, Allocate, Again
<1>2. CountExact'
  BY <1>1, ShareTaken
<1>3. CASE FirstStart(ServerSide(h))
  <2>1. TypeOK'
    BY <1>3 DEF TypeOK, FirstStart, Allocate, Become, ServerSide, HoldersAssumption, Holders
  <2>2. Up' /\ RunningCounted'
    BY <1>3 DEF TypeOK, FirstStart, Allocate, Up, RunningCounted
  <2>3. SameGlobals'
    <3>1. \A g \in Holders : phase[g] = "out"
      BY <1>3, NobodyCounted DEF FirstStart, Allocate
    <3> QED BY <3>1, <1>3 DEF SameGlobals, FirstStart, Allocate, Become, TypeOK
  <2> QED BY <1>2, <2>1, <2>2, <2>3
<1>4. CASE Again(ServerSide(h))
  <2>1. TypeOK'
    BY <1>4 DEF TypeOK, Again, Become
  <2>2. Up' /\ RunningCounted'
    BY <1>4 DEF TypeOK, Again, Up, RunningCounted
  <2>3. SameGlobals'
    BY <1>4 DEF SameGlobals, Again, Become, TypeOK
  <2> QED BY <1>2, <2>1, <2>2, <2>3
<1> QED BY <1>3, <1>4 DEF Starts

\* A call of initialize_module that throws.
LEMMA ThrowStep ==
  ASSUME ModuleInv, NEW isServer \in BOOLEAN, Throws(isServer), UNCHANGED <<phase, using>>
  PROVE  ModuleInv'
<1> USE DEF ModuleInv
<1>1. CountExact'
  BY SharesKept DEF Throws, FirstFails
<1>2. CASE FirstFails(isServer)
  <2>1. TypeOK'
    BY <1>2 DEF TypeOK, FirstFails, Allocate
  <2>2. Up' /\ RunningCounted'
    BY <1>2 DEF TypeOK, FirstFails, Allocate, Up, RunningCounted
  <2>3. \A g \in Holders : phase[g] = "out"
    BY <1>2, NobodyCounted DEF FirstFails, Allocate
  <2> QED BY <1>1, <2>1, <2>2, <2>3 DEF SameGlobals
<1>3. CASE UNCHANGED <<count, server, running, globals, made, alive, parser, transport>>
  BY <1>1, <1>3 DEF TypeOK, Up, SameGlobals, RunningCounted, ServerSide
<1> QED BY <1>2, <1>3 DEF Throws

\* A call of uninitialize_module by holder h.
LEMMA StopStep ==
  ASSUME ModuleInv, NEW h \in Holders, phase[h] = "in", Stops, Become(h, "out"),
         UNCHANGED using
  PROVE  ModuleInv'
<1> USE DEF ModuleInv
<1>1. CountExact'
  BY ShareGiven DEF Stops
<1>2. CASE count = 1
  <2>1. TypeOK'
    <3>1. count' \in Nat /\ transport' \in Nat /\ parser' \in Nat
      BY <1>2 DEF TypeOK, Stops, Up
    <3>2. phase' \in [Holders -> {"out", "new", "in", "gone"}]
      BY DEF TypeOK, Become
    <3> QED BY <1>2, <3>1, <3>2 DEF TypeOK, Stops
  <2>2. Up' /\ RunningCounted'
    BY <1>2 DEF Stops, Up, RunningCounted
  <2>3. \A g \in Holders : phase'[g] = "out"
    BY <1>2, CountMeans DEF Become, TypeOK
  <2> QED BY <1>1, <2>1, <2>2, <2>3 DEF SameGlobals
<1>3. CASE count # 1
  <2>1. TypeOK'
    <3>1. count' \in Nat
      BY DEF TypeOK, Stops
    <3>2. phase' \in [Holders -> {"out", "new", "in", "gone"}]
      BY DEF TypeOK, Become
    <3> QED BY <1>3, <3>1, <3>2 DEF TypeOK, Stops
  <2>2. Up' /\ RunningCounted'
    BY <1>3 DEF TypeOK, Stops, Up, RunningCounted
  <2>3. SameGlobals'
    BY <1>3 DEF SameGlobals, Stops, Become, TypeOK
  <2> QED BY <1>1, <2>1, <2>2, <2>3
<1> QED BY <1>2, <1>3

LEMMA ModuleInvariant == Spec => []ModuleInv
<1>1. Init => ModuleInv
  <2> SUFFICES ASSUME Init PROVE ModuleInv
    OBVIOUS
  <2>1. TypeOK
    BY DEF Init, TypeOK
  <2>3. Up /\ SameGlobals /\ RunningCounted
    BY DEF Init, Up, SameGlobals, RunningCounted
  <2>2. Counted = {}
    BY DEF Init, Counted
  <2> QED BY <2>1, <2>2, <2>3, FS_EmptySet DEF ModuleInv, CountExact, Init
<1>2. ModuleInv /\ [Next]_vars => ModuleInv'
  <2> SUFFICES ASSUME ModuleInv, [Next]_vars PROVE ModuleInv'
    OBVIOUS
  <2> USE DEF Holders
  <2>1. ASSUME NEW c \in Calls, NewCall(c) PROVE ModuleInv'
    <3>1. ServerSide(c) = FALSE
      BY HoldersAssumption DEF ServerSide
    <3> QED BY <2>1, <3>1, StartStep, ThrowStep DEF NewCall
  <2>2. ASSUME NEW c \in Calls, MakeCall(c) PROVE ModuleInv'
    <3>1. CountExact'
      BY <2>2, SharesKept DEF MakeCall, Become, ModuleInv, TypeOK
    <3>2. TypeOK' /\ Up' /\ SameGlobals' /\ RunningCounted'
      BY <2>2 DEF MakeCall, Become, ModuleInv, TypeOK, Up, SameGlobals, RunningCounted, ServerSide
    <3> QED BY <3>1, <3>2 DEF ModuleInv
  <2>3. ASSUME NEW c \in Calls, DeleteCall(c) PROVE ModuleInv'
    BY <2>3, StopStep DEF DeleteCall
  <2>4. ASSUME NEW p \in Programs, Initialize(p) PROVE ModuleInv'
    <3>1. ServerSide(p) = IsServer[p] /\ IsServer[p] \in BOOLEAN
      BY HoldersAssumption DEF ServerSide
    <3> QED BY <2>4, <3>1, StartStep, ThrowStep DEF Initialize
  <2>5. ASSUME NEW p \in Programs, Terminate(p) PROVE ModuleInv'
    BY <2>5, StopStep DEF Terminate
  <2>6. ASSUME NEW p \in Programs, StopAxis(p) PROVE ModuleInv'
    <3>1. CountExact'
      BY <2>6, SharesKept DEF StopAxis, ModuleInv
    <3> QED BY <2>6, <3>1 DEF StopAxis, ModuleInv, TypeOK, Up, SameGlobals, RunningCounted, ServerSide
  <2>7. CASE UNCHANGED vars
    <3>1. CountExact'
      BY <2>7, SharesKept DEF vars, ModuleInv
    <3> QED BY <2>7, <3>1 DEF vars, ModuleInv, TypeOK, Up, SameGlobals, RunningCounted, ServerSide
  <2> QED BY <2>1, <2>2, <2>3, <2>4, <2>5, <2>6, <2>7 DEF Next
<1> QED BY <1>1, <1>2, PTL DEF Spec

-----------------------------------------------------------------------------
(* The theorems.                                                            *)

\* TypeOK: the count, the library references and what each holder has seen
\* keep their types, whatever fails.
THEOREM ModuleTypes == Spec => []TypeOK
<1>1. ModuleInv => TypeOK
  BY DEF ModuleInv
<1> QED BY <1>1, ModuleInvariant, PTL

\* CountExact: g_uModuleInitialize counts the calls of initialize_module that
\* returned and were not undone, whatever failed in between.
THEOREM CountIsExact == Spec => []CountExact
<1>1. ModuleInv => CountExact
  BY DEF ModuleInv
<1> QED BY <1>1, ModuleInvariant, PTL

\* HoldersServed: nobody's globals are deleted or replaced, or its libraries
\* unloaded, between its initialize_module and its uninitialize_module.
THEOREM HoldersAreServed == Spec => []HoldersServed
<1>1. ModuleInv => HoldersServed
  <2> SUFFICES ASSUME ModuleInv, NEW h \in Holders, phase[h] \in {"new", "in"}
               PROVE  /\ using[h] = globals /\ globals \in alive
                      /\ server = ServerSide(h)
                      /\ parser > 0
                      /\ ~ServerSide(h) => transport > 0
    BY DEF HoldersServed
  <2>1. count > 0
    BY CountMeans DEF ModuleInv
  <2> QED BY <2>1 DEF ModuleInv, Up, SameGlobals
<1> QED BY <1>1, ModuleInvariant, PTL

\* RunningHasGlobals: Axis::isRunning never returns true without the globals.
THEOREM RunningIsServed == Spec => []RunningHasGlobals
<1>1. ModuleInv => RunningHasGlobals
  BY DEF ModuleInv, Up, RunningCounted, RunningHasGlobals
<1> QED BY <1>1, ModuleInvariant, PTL
=============================================================================
