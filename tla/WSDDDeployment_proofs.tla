----------------------- MODULE WSDDDeployment_proofs -----------------------
(***************************************************************************)
(* What the numbers of the libraries mean, for any number of services,     *)
(* libraries, administrators and requests.  The invariant says that a      *)
(* number in use anywhere - by an entry of the descriptor, a loaded        *)
(* library, a pooled object or one that a request holds - is its library's *)
(* number in the map, unless it is spoiled; and that two libraries share a *)
(* number only if it is spoiled; an entry that names no library has the    *)
(* number 0.  A save reads the descriptor part by part; the file matches   *)
(* the descriptor in use when no update runs, unless one was cut short or  *)
(* another was under way during the last save.                             *)
(***************************************************************************)
EXTENDS WSDDDeployment, TLAPS, SequenceTheorems

\* The numbers that still mean the library they were given to; an element
\* that names no library has the number 0.
Good ==
  {p \in Nat \X LibNames : p[1] \in spoiled \/ (p[1] # 0 /\ ids[p[2]] = p[1]) \/ p = <<0, 0>>}
Entry(e) == <<e.id, e.lib>> \in Good /\ (e.id = 0 => e.lib = 0)
GoodHandler == {h \in Handler : Entry(h)}
GoodLists == [Flows -> Seq(GoodHandler)]
Cell ==
  [live : BOOLEAN, name : Names \cup {0}, lib : LibNames, id : Nat, scope : Scopes, flows : GoodLists]

Distinct == \A k, l \in LibNames : k # l /\ ids[k] = ids[l] => ids[k] = 0 \/ ids[k] \in spoiled
DescriptorInv ==
  /\ up \in {"up", "down", "failed"} /\ mode \in {"deploy", "undeploy"}
  /\ ids \in [LibNames -> Nat] /\ spoiled \subseteq Nat
  /\ Distinct
  /\ heap \in [Cells -> Cell]
  /\ \A c \in Cells : Entry(heap[c])
  /\ services \in [Names -> Cells \cup {0}]
  /\ \A n \in Deployed : heap[services[n]].live /\ heap[services[n]].name = n
  /\ lists \in [Places -> GoodLists]
  /\ made \subseteq Flows
  /\ file \in Saved

Admin ==
  [pc : {"idle", "parsing", "saving"}, type : {"deploy", "undeploy"}, todo : Seq(Event), last : Nat,
   cell : Cells \cup {0}, handler : GoodHandler \cup {NoHandler}, alone : BOOLEAN,
   text : Saved, left : SUBSET Parts, shared : BOOLEAN]
AdminInv ==
  /\ admin \in [Admins -> Admin]
  /\ up # "up" => \A a \in Admins : admin[a] = IdleAdmin
  /\ \A a \in Admins : admin[a].pc = "parsing" =>
       /\ \A l \in LibNames : ids[l] > admin[a].last => ids[l] \in spoiled
       /\ admin[a].alone => mode = admin[a].type
  /\ \A a \in Admins : admin[a].cell # 0 =>
       /\ heap[admin[a].cell].live /\ heap[admin[a].cell].name # 0
       /\ \A n \in Names : services[n] # admin[a].cell
       /\ \A b \in Admins \ {a} : admin[b].cell # admin[a].cell

Req ==
  [pc : {"idle", "found", "chains"}, name : Names \cup {0}, cell : Cells \cup {0}, want : LibNames,
   next : 1 .. 7, objs : SUBSET Objects, stale : BOOLEAN]
RequestInv ==
  /\ loaded \subseteq Good
  /\ idle \subseteq [scope : Scopes, id : Nat, lib : Libs]
  /\ \A o \in idle : <<o.id, o.lib>> \in Good
  /\ req \in [Requests -> Req]
  /\ up # "up" => \A r \in Requests : req[r] = IdleRequest
  /\ \A r \in Requests : req[r].pc # "idle" =>
       /\ req[r].name \in Names /\ req[r].cell \in Cells /\ req[r].want \in LibNames
       /\ ~req[r].stale => services[req[r].name] = req[r].cell /\ heap[req[r].cell].lib = req[r].want
  /\ \A r \in Requests : \A o \in req[r].objs :
       /\ <<o.id, o.lib>> \in Good
       /\ req[r].stale \/ <<o.id, o.want>> \in Good
       /\ o.own = "service" /\ ~req[r].stale => o.id = heap[req[r].cell].id
  /\ \A r \in Requests : req[r].pc = "idle" => req[r].objs = {}

Inv == DescriptorInv /\ AdminInv /\ RequestInv

-----------------------------------------------------------------------------
(***************************************************************************)
(* Lists                                                                   *)
(***************************************************************************)
LEMMA RemoveType ==
  ASSUME NEW S, NEW list \in Seq(S), NEW l
  PROVE  Remove(list, l) \in Seq(S)
<1> DEFINE Upto(n) == \E i \in 1 .. n : list[i].lib = l
           short == [i \in 1 .. Len(list) - 1 |-> IF Upto(i) THEN list[i + 1] ELSE list[i]]
<1>1. CASE ~Upto(Len(list))
  BY <1>1 DEF Remove
<1>2. CASE Upto(Len(list))
  <2>1. Len(list) - 1 \in Nat
    BY <1>2
  <2>2. \A i \in 1 .. Len(list) - 1 : (IF Upto(i) THEN list[i + 1] ELSE list[i]) \in S
    <3> HIDE DEF Upto
    <3> QED OBVIOUS
  <2>3. short \in [1 .. Len(list) - 1 -> S]
    <3> HIDE DEF Upto
    <3> QED BY <2>2
  <2>4. Remove(list, l) = short
    BY <1>2 DEF Remove
  <2> HIDE DEF short
  <2>5. Seq(S) = UNION {[1 .. n -> S] : n \in Nat}
    BY SeqDef
  <2> QED BY <2>1, <2>3, <2>4, <2>5
<1> QED BY <1>1, <1>2

LEMMA SeqMonotone ==
  ASSUME NEW S, NEW T, S \subseteq T
  PROVE  Seq(S) \subseteq Seq(T)
BY SeqDef

LEMMA LibsOfType ==
  ASSUME NEW S, NEW list \in Seq(S), \A h \in S : h.lib \in LibNames
  PROVE  LibsOf(list) \in Seq(LibNames)
<1>1. /\ Len(list) \in Nat
      /\ DOMAIN list = 1 .. Len(list)
      /\ \A i \in 1 .. Len(list) : list[i] \in S
  OBVIOUS
<1>2. LibsOf(list) \in [1 .. Len(list) -> LibNames]
  BY <1>1 DEF LibsOf
<1>3. Seq(LibNames) = UNION {[1 .. n -> LibNames] : n \in Nat}
  BY SeqDef
<1> QED BY <1>1, <1>2, <1>3

LEMMA NoListsType == NoLists \in [Flows -> Seq({})]
BY DEF NoLists

LEMMA NoTextType == NoText \in Saved
<1>1. NoLists \in [Flows -> Seq(LibNames)]
  BY DEF NoLists
<1> HIDE DEF NoLists
<1> QED BY <1>1 DEF NoText, Saved

(***************************************************************************)
(* Numbers keep their meaning                                              *)
(***************************************************************************)
LEMMA GoodStays ==
  ASSUME Good \subseteq Good'
  PROVE  GoodHandler \subseteq GoodHandler' /\ GoodLists \subseteq GoodLists' /\ Cell \subseteq Cell'
<1>1. GoodHandler \subseteq GoodHandler'
  BY DEF GoodHandler, Entry
<1>2. Seq(GoodHandler) \subseteq Seq(GoodHandler')
  BY <1>1, SeqMonotone
<1>3. GoodLists \subseteq GoodLists'
  BY <1>2 DEF GoodLists
<1>4. Cell \subseteq Cell'
  BY <1>3 DEF Cell
<1> QED BY <1>1, <1>3, <1>4

LEMMA SameNumbers ==
  ASSUME UNCHANGED <<ids, spoiled>>
  PROVE  Good' = Good /\ GoodHandler' = GoodHandler /\ GoodLists' = GoodLists /\ Cell' = Cell
<1>1. Good' = Good
  BY DEF Good
<1>2. GoodHandler' = GoodHandler
  BY <1>1 DEF GoodHandler, Entry
<1>3. GoodLists' = GoodLists
  BY <1>2 DEF GoodLists
<1> QED BY <1>1, <1>2, <1>3 DEF Cell

\* An element is numbered: all that was in use stays good, and the number is.
LEMMA NumberGood ==
  ASSUME Inv, NEW a \in Admins, admin[a].pc = "parsing", NEW l \in LibNames \cup {None}, Number(a, l)
  PROVE  /\ ids' \in [LibNames -> Nat] /\ spoiled' \subseteq Nat
         /\ Good \subseteq Good'
         /\ Distinct'
         /\ NameOf(l) \in LibNames /\ NumberOf(a, l) \in Nat
         /\ <<NumberOf(a, l), NameOf(l)>> \in Good' /\ (NumberOf(a, l) = 0 => NameOf(l) = 0)
<1>1. /\ ids \in [LibNames -> Nat] /\ spoiled \subseteq Nat /\ admin[a].last \in Nat
      /\ \A k \in LibNames : ids[k] > admin[a].last => ids[k] \in spoiled
      /\ Distinct
  BY DEF Inv, DescriptorInv, AdminInv, Admin
<1>2. /\ ids' = [k \in LibNames |-> IF k = l THEN NumberOf(a, l) ELSE ids[k]]
      /\ spoiled \subseteq spoiled' /\ spoiled' \subseteq spoiled \cup {admin[a].last + 1}
  BY DEF Number
<1>3. CASE l = None
  <2>1. NumberOf(a, l) = 0 /\ NameOf(l) = 0 /\ 0 \in LibNames /\ l \notin LibNames
    BY <1>3, DeploymentAssumption DEF NumberOf, NameOf, None, LibNames
  <2>2. ids' = ids
    BY <1>1, <1>2, <2>1
  <2>3. Good \subseteq Good' /\ <<0, 0>> \in Good'
    BY <1>1, <1>2, <2>1, <2>2 DEF Good
  <2>4. Distinct'
    BY <1>1, <1>2, <2>2 DEF Distinct
  <2>5. ids' \in [LibNames -> Nat] /\ spoiled' \subseteq Nat
    BY <1>1, <1>2, <2>2
  <2> QED BY <2>1, <2>3, <2>4, <2>5
<1>4. CASE l \in LibNames /\ l # None
  <2>1. /\ NameOf(l) = l /\ NumberOf(a, l) \in Nat \ {0}
        /\ ids[l] = 0 => NumberOf(a, l) = admin[a].last + 1
        /\ ids[l] # 0 => NumberOf(a, l) = ids[l]
    BY <1>1, <1>4 DEF NumberOf, NameOf
  <2>2. ids' \in [LibNames -> Nat] /\ spoiled' \subseteq Nat
    BY <1>1, <1>2, <2>1
  <2>3. Good \subseteq Good'
    <3> SUFFICES ASSUME NEW p \in Good PROVE p \in Good'
      OBVIOUS
    <3>1. p \in Nat \X LibNames /\ (p[1] \in spoiled \/ (p[1] # 0 /\ ids[p[2]] = p[1]) \/ p = <<0, 0>>)
      BY DEF Good
    <3>2. p[1] \in spoiled' \/ (p[1] # 0 /\ ids'[p[2]] = p[1]) \/ p = <<0, 0>>
      BY <1>1, <1>2, <2>1, <3>1
    <3> QED BY <3>1, <3>2 DEF Good
  <2>4. Distinct'
    <3> SUFFICES ASSUME NEW j \in LibNames, NEW k \in LibNames, j # k, ids'[j] = ids'[k]
                 PROVE  ids'[j] = 0 \/ ids'[j] \in spoiled'
      BY DEF Distinct
    <3>1. \A i \in LibNames : ids[i] = admin[a].last + 1 => ids[i] \in spoiled
      BY <1>1
    <3>2. CASE ids[l] # 0
      BY <1>1, <1>2, <2>1, <3>2 DEF Distinct
    <3>3. CASE ids[l] = 0
      BY <1>1, <1>2, <2>1, <3>1, <3>3 DEF Distinct
    <3> QED BY <3>2, <3>3
  <2>5. <<NumberOf(a, l), l>> \in Good'
    BY <1>1, <1>2, <1>4, <2>1 DEF Good
  <2> QED BY <1>4, <2>1, <2>2, <2>3, <2>4, <2>5
<1> QED BY <1>3, <1>4

\* Every other document's next number is new or spoiled, too.
LEMMA NumberLast ==
  ASSUME Inv, NEW a \in Admins, admin[a].pc = "parsing", NEW l \in LibNames \cup {None}, Number(a, l),
         NEW b \in Admins, admin[b].pc = "parsing",
         NEW last \in Nat, last = IF b = a THEN Parsed(a, l).last ELSE admin[b].last
  PROVE  \A k \in LibNames : ids'[k] > last => ids'[k] \in spoiled'
<1>1. /\ ids \in [LibNames -> Nat] /\ admin[a] \in Admin /\ admin[b] \in Admin
      /\ \A k \in LibNames : ids[k] > admin[b].last => ids[k] \in spoiled
  BY DEF Inv, DescriptorInv, AdminInv
<1>2. /\ ids' = [k \in LibNames |-> IF k = l THEN NumberOf(a, l) ELSE ids[k]]
      /\ spoiled' = spoiled \cup (IF NewName(l) /\ Others(a) # {} THEN {admin[a].last + 1} ELSE {})
  BY DEF Number
<1>3. NewName(l) => NumberOf(a, l) = admin[a].last + 1
  BY DEF NumberOf, NewName
<1>4. ~NewName(l) => ids' = ids
  BY <1>1, <1>2, DeploymentAssumption DEF NumberOf, NewName, LibNames, None
<1>5. Parsed(a, l).last = IF NewName(l) THEN admin[a].last + 1 ELSE admin[a].last
  BY <1>1 DEF Parsed, Admin
<1>6. CASE b = a
  BY <1>1, <1>2, <1>3, <1>4, <1>5, <1>6 DEF Admin
<1>7. CASE b # a
  <2>1. Others(a) # {}
    BY <1>7 DEF Others, Busy
  <2> QED BY <1>1, <1>2, <1>3, <1>4, <1>7, <2>1 DEF Admin
<1> QED BY <1>6, <1>7

LEMMA ForgetGood ==
  ASSUME Inv, NEW l \in LibNames, Forget(l)
  PROVE  /\ ids' \in [LibNames -> Nat] /\ spoiled' \subseteq Nat /\ spoiled \subseteq spoiled'
         /\ Good \subseteq Good'
         /\ Distinct'
         /\ \A k \in LibNames : ids'[k] = ids[k] \/ ids'[k] = 0
<1>1. ids \in [LibNames -> Nat] /\ spoiled \subseteq Nat /\ Distinct
  BY DEF Inv, DescriptorInv
<1>2. ids' = [ids EXCEPT ![l] = 0] /\ spoiled' = spoiled \cup ({ids[l]} \ {0})
  BY DEF Forget
<1>3. Good \subseteq Good'
  <2> SUFFICES ASSUME NEW p \in Good PROVE p \in Good'
    OBVIOUS
  <2>1. p \in Nat \X LibNames /\ (p[1] \in spoiled \/ (p[1] # 0 /\ ids[p[2]] = p[1]) \/ p = <<0, 0>>)
    BY DEF Good
  <2>2. p[1] \in spoiled' \/ (p[1] # 0 /\ ids'[p[2]] = p[1]) \/ p = <<0, 0>>
    BY <1>1, <1>2, <2>1
  <2> QED BY <2>1, <2>2 DEF Good
<1>4. Distinct'
  BY <1>1, <1>2 DEF Distinct
<1> QED BY <1>1, <1>2, <1>3, <1>4

(***************************************************************************)
(* A descriptor that was just read                                         *)
(***************************************************************************)
Numbered(number) == {h \in Handler : number[h.lib] = h.id /\ h.id # 0}

LEMMA HandlersOfType ==
  ASSUME NEW number \in [LibNames -> Nat], NEW libs \in Seq(LibNames),
         \A i \in DOMAIN libs : number[libs[i]] # 0
  PROVE  HandlersOf(libs, number) \in Seq(Numbered(number))
<1>1. Len(libs) \in Nat /\ DOMAIN libs = 1 .. Len(libs) /\ \A i \in 1 .. Len(libs) : libs[i] \in LibNames
  OBVIOUS
<1>2. ASSUME NEW i \in 1 .. Len(libs)
      PROVE  [lib |-> libs[i], id |-> number[libs[i]], scope |-> "request"] \in Numbered(number)
  BY <1>1 DEF Numbered, Handler, Scopes
<1>3. HandlersOf(libs, number) \in [1 .. Len(libs) -> Numbered(number)]
  BY <1>1, <1>2 DEF HandlersOf
<1>4. Seq(Numbered(number)) = UNION {[1 .. n -> Numbered(number)] : n \in Nat}
  BY SeqDef
<1> QED BY <1>1, <1>3, <1>4

LEMMA NumberingType ==
  ASSUME NEW d \in Saved, NEW number \in Numberings(d)
  PROVE  /\ number \in [LibNames -> Nat]
         /\ \A k, l \in LibNames : k # l /\ number[k] = number[l] => number[k] = 0
         /\ \A l \in LibNames : l \in Mentioned(d) => number[l] # 0
<1>1. /\ number \in [LibNames -> 0 .. Cardinality(LibNames)]
      /\ \A l \in LibNames : IF l \in Mentioned(d) THEN number[l] \in 1 .. Cardinality(Mentioned(d))
                                              ELSE number[l] = 0
      /\ \A k, l \in Mentioned(d) : k # l => number[k] # number[l]
  BY DEF Numberings
<1>2. number \in [LibNames -> Nat]
  BY <1>1
<1>3. \A l \in LibNames : l \in Mentioned(d) => number[l] # 0
  BY <1>1
<1>4. ASSUME NEW k \in LibNames, NEW l \in LibNames, k # l, number[k] = number[l]
      PROVE  number[k] = 0
  BY <1>1, <1>4
<1> QED BY <1>2, <1>3, <1>4

LEMMA LoadType ==
  ASSUME NEW d \in Saved, NEW number \in Numberings(d)
  PROVE  /\ HeapOf(d, number) \in
              [Cells -> [live : BOOLEAN, name : Names \cup {0}, lib : LibNames, id : Nat, scope : Scopes,
                         flows : [Flows -> Seq(Numbered(number))]]]
         /\ \A c \in Cells : LET s == HeapOf(d, number)[c] IN
              s.lib \in LibNames /\ ((s.id = number[s.lib] /\ s.id # 0) \/ (s.id = 0 /\ s.lib = 0))
         /\ ServicesOf(d) \in [Names -> Cells \cup {0}]
         /\ \A n \in Names : ServicesOf(d)[n] # 0 =>
              HeapOf(d, number)[ServicesOf(d)[n]].live /\ HeapOf(d, number)[ServicesOf(d)[n]].name = n
         /\ ListsOf(d, number) \in [Places -> [Flows -> Seq(Numbered(number))]]
<1>1. /\ number \in [LibNames -> Nat]
      /\ \A l \in LibNames : l \in Mentioned(d) => number[l] # 0
  BY NumberingType
<1>2. Names \subseteq Cells /\ Cells \subseteq Nat \ {0} /\ Libs \subseteq Nat \ {0}
  BY DeploymentAssumption
<1>3. /\ d.services \in [Names -> LibNames \cup {None}] /\ d.chains \in [Names -> [Flows -> Seq(LibNames)]]
      /\ d.lists \in [Places -> [Flows -> Seq(LibNames)]]
  BY DEF Saved
<1>4. ASSUME NEW n \in Names, NEW f \in Flows
      PROVE  HandlersOf(d.chains[n][f], number) \in Seq(Numbered(number))
  <2>1. d.chains[n][f] \in Seq(LibNames)
    BY <1>3
  <2>2. ASSUME NEW i \in DOMAIN d.chains[n][f] PROVE number[d.chains[n][f][i]] # 0
    <3>1. d.chains[n][f][i] \in LibNames
      BY <2>1
    <3>2. d.chains[n][f][i] \in Mentioned(d)
      BY <3>1 DEF Mentioned, In
    <3> QED BY <1>1, <3>1, <3>2
  <2> QED BY <1>1, <2>1, <2>2, HandlersOfType
<1>5. ASSUME NEW p \in Places, NEW f \in Flows
      PROVE  HandlersOf(d.lists[p][f], number) \in Seq(Numbered(number))
  <2>1. d.lists[p][f] \in Seq(LibNames)
    BY <1>3
  <2>2. ASSUME NEW i \in DOMAIN d.lists[p][f] PROVE number[d.lists[p][f][i]] # 0
    <3>1. d.lists[p][f][i] \in LibNames
      BY <2>1
    <3>2. d.lists[p][f][i] \in Mentioned(d)
      BY <3>1 DEF Mentioned, In
    <3> QED BY <1>1, <3>1, <3>2
  <2> QED BY <1>1, <2>1, <2>2, HandlersOfType
<1>6. ASSUME NEW n \in Names, d.services[n] # None
      PROVE  d.services[n] \in LibNames /\ number[d.services[n]] \in Nat \ {0}
  <2>1. d.services[n] \in LibNames
    BY <1>3, <1>6
  <2>2. d.services[n] \in Mentioned(d)
    BY <1>6, <2>1 DEF Mentioned
  <2> QED BY <1>1, <2>1, <2>2
<1>7. FreeCell.flows \in [Flows -> Seq(Numbered(number))]
  BY DEF FreeCell, NoLists
<1>8. ASSUME NEW n \in Names
      PROVE  [f \in Flows |-> HandlersOf(d.chains[n][f], number)] \in [Flows -> Seq(Numbered(number))]
  BY <1>4
<1>9. ASSUME NEW c \in Cells
      PROVE  /\ HeapOf(d, number)[c] \in
                  [live : BOOLEAN, name : Names \cup {0}, lib : LibNames, id : Nat, scope : Scopes,
                   flows : [Flows -> Seq(Numbered(number))]]
             /\ LET s == HeapOf(d, number)[c] IN
                s.lib \in LibNames /\ ((s.id = number[s.lib] /\ s.id # 0) \/ (s.id = 0 /\ s.lib = 0))
  <2>1. CASE c \in Names /\ d.services[c] # None
    <3>1. HeapOf(d, number)[c] =
            [live |-> TRUE, name |-> c, lib |-> d.services[c], id |-> number[d.services[c]],
             scope |-> "request", flows |-> [f \in Flows |-> HandlersOf(d.chains[c][f], number)]]
      BY <2>1 DEF HeapOf
    <3>2. d.services[c] \in LibNames /\ number[d.services[c]] \in Nat \ {0}
      BY <1>6, <2>1
    <3> DEFINE fl == [f \in Flows |-> HandlersOf(d.chains[c][f], number)]
    <3>3. fl \in [Flows -> Seq(Numbered(number))]
      BY <1>8, <2>1
    <3> HIDE DEF fl
    <3> QED BY <2>1, <3>1, <3>2, <3>3 DEF Scopes, fl
  <2>2. CASE ~(c \in Names /\ d.services[c] # None)
    <3>1. HeapOf(d, number)[c] = FreeCell
      BY <2>2 DEF HeapOf
    <3> QED BY <1>7, <3>1 DEF FreeCell, Scopes, LibNames
  <2> QED BY <2>1, <2>2
<1>10. HeapOf(d, number) = [c \in Cells |-> HeapOf(d, number)[c]]
  BY DEF HeapOf
<1>11. ServicesOf(d) \in [Names -> Cells \cup {0}]
  BY <1>2 DEF ServicesOf
<1>12. ASSUME NEW n \in Names, ServicesOf(d)[n] # 0
       PROVE  HeapOf(d, number)[ServicesOf(d)[n]].live /\ HeapOf(d, number)[ServicesOf(d)[n]].name = n
  <2>1. ServicesOf(d)[n] = n /\ d.services[n] # None /\ n \in Cells
    BY <1>2, <1>12 DEF ServicesOf
  <2> QED BY <2>1 DEF HeapOf
<1>13. ListsOf(d, number) \in [Places -> [Flows -> Seq(Numbered(number))]]
  BY <1>5 DEF ListsOf
<1> QED BY <1>9, <1>10, <1>11, <1>12, <1>13

-----------------------------------------------------------------------------
(***************************************************************************)
(* What a step leaves alone                                                *)
(***************************************************************************)
LEMMA DescriptorSame ==
  ASSUME DescriptorInv, UNCHANGED <<descVars, spoiled>>,
         up' \in {"up", "down", "failed"}, mode' \in {"deploy", "undeploy"}, file' \in Saved
  PROVE  DescriptorInv'
<1>1. Good' = Good /\ GoodLists' = GoodLists /\ Cell' = Cell
  BY SameNumbers DEF descVars
<1>2. Distinct' = Distinct /\ Deployed' = Deployed
  BY DEF Distinct, Deployed, descVars
<1> QED BY <1>1, <1>2 DEF DescriptorInv, Entry, descVars

\* Requests see the descriptor through the service they found.
LEMMA RequestsSame ==
  ASSUME Inv, UNCHANGED <<up, poolVars, req>>, Good \subseteq Good',
         \A r \in Requests : req[r].pc # "idle" =>
           /\ ~req[r].stale => /\ heap'[req[r].cell].lib = heap[req[r].cell].lib
                               /\ heap'[req[r].cell].id = heap[req[r].cell].id
                               /\ services'[req[r].name] = services[req[r].name]
  PROVE  RequestInv'
<1>1. RequestInv
  BY DEF Inv
<1>2. UNCHANGED <<up, loaded, idle, req>>
  BY DEF poolVars
<1>3. \A r \in Requests : \A o \in req[r].objs :
        /\ <<o.id, o.lib>> \in Good'
        /\ req[r].stale \/ <<o.id, o.want>> \in Good'
  BY <1>1 DEF RequestInv
<1>4. \A r \in Requests : \A o \in req[r].objs :
        o.own = "service" /\ ~req[r].stale => o.id = heap'[req[r].cell].id
  BY <1>1 DEF RequestInv
<1>5. \A r \in Requests : req[r].pc # "idle" =>
        /\ req[r].name \in Names /\ req[r].cell \in Cells /\ req[r].want \in LibNames
        /\ ~req[r].stale => services'[req[r].name] = req[r].cell /\ heap'[req[r].cell].lib = req[r].want
  BY <1>1 DEF RequestInv
<1>6. loaded' \subseteq Good' /\ \A o \in idle' : <<o.id, o.lib>> \in Good'
  BY <1>1, <1>2 DEF RequestInv
<1> QED BY <1>1, <1>2, <1>3, <1>4, <1>5, <1>6 DEF RequestInv, Req

LEMMA DeployedLive ==
  ASSUME Inv, NEW n \in Names
  PROVE  /\ services[n] \in Cells \cup {0}
         /\ services[n] # 0 => services[n] \in Cells /\ heap[services[n]].live /\ heap[services[n]].name = n
BY DEF Inv, DescriptorInv, Deployed

LEMMA AdminsSame ==
  ASSUME Inv, UNCHANGED <<up, admin, mode, ids, spoiled, services, heap>>
  PROVE  AdminInv'
<1>1. GoodHandler' = GoodHandler
  BY SameNumbers
<1> QED BY <1>1 DEF Inv, AdminInv, Admin

LEMMA FallKeepsInv == Inv /\ Fall => Inv'
<1> SUFFICES ASSUME Inv, Fall PROVE Inv'
  OBVIOUS
<1>1. DescriptorInv'
  <2>1. /\ UNCHANGED <<descVars, spoiled>> /\ up' = "down" /\ mode' \in {"deploy", "undeploy"} /\ file' \in Saved
        /\ DescriptorInv
    BY DEF Fall, Inv, DescriptorInv
  <2> QED BY <2>1, DescriptorSame
<1>2. AdminInv'
  <2>1. admin' = [a \in Admins |-> IdleAdmin]
    BY DEF Fall
  <2>2. \A a \in Admins : IdleAdmin \in Admin'
    BY NoTextType DEF IdleAdmin, Admin
  <2>3. IdleAdmin.pc = "idle" /\ IdleAdmin.cell = 0
    BY DEF IdleAdmin
  <2> QED BY <2>1, <2>2, <2>3 DEF AdminInv
<1>3. RequestInv'
  <2>1. /\ req' = [r \in Requests |-> IdleRequest]
        /\ UNCHANGED <<loaded, idle>> /\ UNCHANGED <<ids, spoiled>>
    BY DEF Fall, poolVars, descVars
  <2>2. IdleRequest \in Req /\ IdleRequest.pc = "idle" /\ IdleRequest.objs = {}
    BY DEF IdleRequest, Req, LibNames
  <2>3. Good' = Good
    BY <2>1, SameNumbers
  <2> QED BY <2>1, <2>2, <2>3 DEF Inv, RequestInv, Req
<1> QED BY <1>1, <1>2, <1>3 DEF Inv

(***************************************************************************)
(* Init and Restart                                                        *)
(***************************************************************************)
LEMMA NumberedGood ==
  ASSUME NEW d \in Saved, ids \in Numberings(d), spoiled = {}
  PROVE  Numbered(ids) \subseteq GoodHandler /\ Distinct
<1>1. Numbered(ids) \subseteq GoodHandler
  BY DEF Numbered, GoodHandler, Entry, Good, Handler
<1>2. Distinct
  BY NumberingType DEF Distinct
<1> QED BY <1>1, <1>2

LEMMA LoadedInv ==
  ASSUME file \in Saved, ids \in Numberings(file), spoiled = {},
         services = ServicesOf(file), heap = HeapOf(file, ids), lists = ListsOf(file, ids), made = MadeOf(file),
         up = "up", mode = "deploy",
         admin = [a \in Admins |-> IdleAdmin], req = [r \in Requests |-> IdleRequest], loaded = {}, idle = {}
  PROVE  Inv
<1>1. Numbered(ids) \subseteq GoodHandler /\ Distinct /\ ids \in [LibNames -> Nat]
  BY NumberingType, NumberedGood
<1>2. Seq(Numbered(ids)) \subseteq Seq(GoodHandler)
  BY <1>1, SeqMonotone
<1>3. heap \in [Cells -> Cell]
  <2>1. heap \in [Cells -> [live : BOOLEAN, name : Names \cup {0}, lib : LibNames, id : Nat, scope : Scopes,
                            flows : [Flows -> Seq(Numbered(ids))]]]
    BY LoadType
  <2>2. [Flows -> Seq(Numbered(ids))] \subseteq GoodLists
    BY <1>2 DEF GoodLists
  <2> QED BY <2>1, <2>2 DEF Cell
<1>4. \A c \in Cells : Entry(heap[c])
  <2>1. \A c \in Cells : /\ heap[c].lib \in LibNames
                         /\ \/ heap[c].id = ids[heap[c].lib] /\ heap[c].id # 0
                            \/ heap[c].id = 0 /\ heap[c].lib = 0
    BY LoadType
  <2> QED BY <1>1, <2>1 DEF Good, Entry
<1>5. /\ services \in [Names -> Cells \cup {0}]
      /\ \A n \in Deployed : heap[services[n]].live /\ heap[services[n]].name = n
  BY LoadType DEF Deployed
<1>6. lists \in [Places -> GoodLists]
  <2>1. lists \in [Places -> [Flows -> Seq(Numbered(ids))]]
    BY LoadType
  <2> QED BY <1>2, <2>1 DEF GoodLists
<1>7. DescriptorInv
  BY <1>1, <1>3, <1>4, <1>5, <1>6 DEF DescriptorInv, MadeOf
<1>8. AdminInv
  <2>1. IdleAdmin \in Admin /\ IdleAdmin.pc = "idle" /\ IdleAdmin.cell = 0
    BY NoTextType DEF IdleAdmin, Admin
  <2> QED BY <2>1 DEF AdminInv
<1>9. RequestInv
  <2>1. IdleRequest \in Req /\ IdleRequest.pc = "idle" /\ IdleRequest.objs = {}
    BY DEF IdleRequest, Req, LibNames
  <2> QED BY <2>1 DEF RequestInv
<1> QED BY <1>7, <1>8, <1>9 DEF Inv

LEMMA InitInv == Init => Inv
<1> SUFFICES ASSUME Init PROVE Inv
  OBVIOUS
<1>1. file \in Saved
  BY DeploymentAssumption DEF Init
<1> QED BY <1>1, LoadedInv DEF Init

LEMMA RestartKeepsInv == Inv /\ Restart => Inv'
<1> SUFFICES ASSUME Inv, Restart PROVE Inv'
  OBVIOUS
<1>1. up = "down" /\ file \in Saved
  BY DEF Restart, Inv, DescriptorInv
<1>2. CASE file.torn
  <2>1. up' = "failed" /\ UNCHANGED <<mode, descVars, saveVars, admin, poolVars, req, spoiled>>
    BY <1>2 DEF Restart
  <2>2. DescriptorInv'
    BY <2>1, DescriptorSame DEF saveVars, Inv, DescriptorInv
  <2>3. AdminInv'
    <3>1. GoodHandler' = GoodHandler
      BY <2>1, SameNumbers DEF descVars
    <3>2. Admin' = Admin
      BY <3>1 DEF Admin
    <3> QED BY <1>1, <2>1, <3>2 DEF Inv, AdminInv, descVars
  <2>4. RequestInv'
    <3>1. Good' = Good
      BY <2>1, SameNumbers DEF descVars
    <3> QED BY <1>1, <2>1, <3>1 DEF Inv, RequestInv, descVars, poolVars, Req
  <2> QED BY <2>2, <2>3, <2>4 DEF Inv
<1>3. CASE ~file.torn
  <2>1. /\ up' = "up" /\ mode' = "deploy" /\ file' = file
        /\ ids' \in Numberings(file)
        /\ services' = ServicesOf(file) /\ heap' = HeapOf(file, ids') /\ lists' = ListsOf(file, ids')
        /\ made' = MadeOf(file)
        /\ loaded' = {} /\ idle' = {} /\ spoiled' = {}
        /\ admin' = admin /\ req' = req
    BY <1>3 DEF Restart
  <2>2. admin = [a \in Admins |-> IdleAdmin] /\ req = [r \in Requests |-> IdleRequest]
    BY <1>1 DEF Inv, AdminInv, RequestInv
  <2>3. /\ Numbered(ids') \subseteq GoodHandler' /\ Distinct' /\ ids' \in [LibNames -> Nat]
    BY <1>1, <2>1, NumberingType DEF Numbered, GoodHandler, Entry, Good, Handler, Distinct
  <2>4. Seq(Numbered(ids')) \subseteq Seq(GoodHandler')
    BY <2>3, SeqMonotone
  <2>5. heap' \in [Cells -> Cell']
    <3>1. heap' \in [Cells -> [live : BOOLEAN, name : Names \cup {0}, lib : LibNames, id : Nat, scope : Scopes,
                              flows : [Flows -> Seq(Numbered(ids'))]]]
      BY <1>1, <2>1, LoadType
    <3>2. [Flows -> Seq(Numbered(ids'))] \subseteq GoodLists'
      BY <2>4 DEF GoodLists
    <3> QED BY <3>1, <3>2 DEF Cell
  <2>6. \A c \in Cells : Entry(heap[c])'
    <3>1. \A c \in Cells : /\ heap'[c].lib \in LibNames
                           /\ \/ heap'[c].id = ids'[heap'[c].lib] /\ heap'[c].id # 0
                              \/ heap'[c].id = 0 /\ heap'[c].lib = 0
      BY <1>1, <2>1, LoadType
    <3> QED BY <2>3, <3>1 DEF Good, Entry
  <2>7. /\ services' \in [Names -> Cells \cup {0}]
        /\ \A n \in Deployed' : heap'[services'[n]].live /\ heap'[services'[n]].name = n
    BY <1>1, <2>1, LoadType DEF Deployed
  <2>8. lists' \in [Places -> GoodLists']
    <3>1. lists' \in [Places -> [Flows -> Seq(Numbered(ids'))]]
      BY <1>1, <2>1, LoadType
    <3> QED BY <2>4, <3>1 DEF GoodLists
  <2>9. DescriptorInv'
    BY <1>1, <2>1, <2>3, <2>5, <2>6, <2>7, <2>8 DEF DescriptorInv, MadeOf
  <2>10. AdminInv'
    <3>1. IdleAdmin \in Admin' /\ IdleAdmin.pc = "idle" /\ IdleAdmin.cell = 0
      BY NoTextType DEF IdleAdmin, Admin
    <3> QED BY <2>1, <2>2, <3>1 DEF AdminInv
  <2>11. RequestInv'
    <3>1. IdleRequest \in Req /\ IdleRequest.pc = "idle" /\ IdleRequest.objs = {}
      BY DEF IdleRequest, Req, LibNames
    <3> QED BY <2>1, <2>2, <3>1 DEF RequestInv, Req
  <2> QED BY <2>9, <2>10, <2>11 DEF Inv
<1> QED BY <1>2, <1>3

-----------------------------------------------------------------------------
(***************************************************************************)
(* Updates                                                                 *)
(***************************************************************************)
LEMMA UpdateKeepsInv ==
  ASSUME Inv, NEW a \in Admins, NEW d \in Documents, Update(a, d)
  PROVE  Inv'
<1>1. d.type \in {"deploy", "undeploy"} /\ d.events \in Seq(Event)
  BY DeploymentAssumption DEF Document
<1>2. /\ up = "up" /\ mode' = d.type
      /\ UNCHANGED <<up, ids, services, heap, lists, made, file, poolVars, req, spoiled>>
  BY DEF Update, SetMode, descVars, saveVars
<1>3. PICK last \in LastNumbers : admin' = [b \in Admins |->
        IF b = a THEN [IdleAdmin EXCEPT !.pc = "parsing", !.type = d.type, !.todo = d.events,
                                        !.last = last, !.alone = (Others(a) = {})]
                 ELSE [admin[b] EXCEPT !.alone = @ /\ ~Busy(b), !.shared = @ \/ admin[b].pc = "saving"]]
  BY DEF Update
<1>4. /\ DescriptorInv /\ AdminInv /\ RequestInv
      /\ ids \in [LibNames -> Nat] /\ admin \in [Admins -> Admin]
  BY DEF Inv, DescriptorInv, AdminInv
<1>5. last \in Nat /\ \A l \in LibNames : ids[l] <= last
  BY <1>4 DEF LastNumbers
<1>6. /\ Good' = Good /\ GoodHandler' = GoodHandler /\ Admin' = Admin
  BY <1>2, SameNumbers DEF Admin
<1>7. DescriptorInv'
  BY <1>1, <1>2, <1>4, DescriptorSame DEF descVars, DescriptorInv
<1>8. /\ admin'[a].pc = "parsing" /\ admin'[a].type = d.type /\ admin'[a].last = last /\ admin'[a].cell = 0
      /\ admin'[a] \in Admin
  BY <1>1, <1>3, <1>5, NoTextType DEF IdleAdmin, Admin
<1>9. ASSUME NEW b \in Admins, b # a
      PROVE  /\ admin'[b] \in Admin /\ admin'[b].pc = admin[b].pc /\ admin'[b].last = admin[b].last
             /\ admin'[b].cell = admin[b].cell /\ (admin'[b].pc = "parsing" => ~admin'[b].alone)
  BY <1>3, <1>4, <1>9 DEF Admin, Busy
<1>10. AdminInv'
  <2>1. admin' \in [Admins -> Admin']
    BY <1>3, <1>6, <1>8, <1>9
  <2>2. \A b \in Admins : admin'[b].pc = "parsing" =>
          /\ \A l \in LibNames : ids'[l] > admin'[b].last => ids'[l] \in spoiled'
          /\ admin'[b].alone => mode' = admin'[b].type
    BY <1>2, <1>4, <1>5, <1>8, <1>9 DEF AdminInv
  <2>3. \A b \in Admins : admin'[b].cell # 0 =>
          /\ heap'[admin'[b].cell].live /\ heap'[admin'[b].cell].name # 0
          /\ \A n \in Names : services'[n] # admin'[b].cell
          /\ \A c \in Admins \ {b} : admin'[c].cell # admin'[b].cell
    BY <1>2, <1>4, <1>8, <1>9 DEF AdminInv
  <2> QED BY <1>2, <2>1, <2>2, <2>3 DEF AdminInv
<1>11. RequestInv'
  BY <1>2, <1>4, <1>6, RequestsSame DEF RequestInv
<1> QED BY <1>7, <1>10, <1>11 DEF Inv

\* The next event of the document that a is parsing.
LEMMA ParsingType ==
  ASSUME Inv, NEW a \in Admins, NEW kind, Parsing(a, kind)
  PROVE  /\ Head(admin[a].todo) \in Event /\ Head(admin[a].todo).kind = kind
         /\ Tail(admin[a].todo) \in Seq(Event) /\ Tail(admin[a].todo) # admin[a].todo
         /\ admin[a] \in Admin /\ admin[a].pc = "parsing" /\ up = "up"
<1>1. admin[a] \in Admin /\ admin[a].todo \in Seq(Event) /\ admin[a].todo # <<>>
  BY DEF Inv, AdminInv, Admin, Parsing
<1>2. Tail(admin[a].todo) # admin[a].todo
  <2>1. Len(Tail(admin[a].todo)) = Len(admin[a].todo) - 1 /\ Len(admin[a].todo) \in Nat
    BY <1>1, HeadTailProperties
  <2>2. ASSUME Tail(admin[a].todo) = admin[a].todo PROVE FALSE
    <3>1. Len(Tail(admin[a].todo)) = Len(admin[a].todo)
      BY <2>2, Zenon
    <3> QED BY <2>1, <3>1
  <2> QED BY <2>2
<1> QED BY <1>1, <1>2 DEF Parsing

\* Parsed changes two fields of the update.
LEMMA ParsedType ==
  ASSUME NEW a \in Admins, admin[a] \in Admin, Tail(admin[a].todo) \in Seq(Event), NEW l
  PROVE  /\ Parsed(a, l) \in Admin /\ Parsed(a, l).pc = admin[a].pc
         /\ Parsed(a, l).alone = admin[a].alone /\ Parsed(a, l).type = admin[a].type
         /\ Parsed(a, l).cell = admin[a].cell
<1> DEFINE t == Tail(admin[a].todo)
           n == IF NewName(l) THEN admin[a].last + 1 ELSE admin[a].last
<1>1. t \in Seq(Event) /\ n \in Nat
  BY DEF Admin
<1>2. Parsed(a, l) = [[admin[a] EXCEPT !.todo = t] EXCEPT !.last = n]
  BY DEF Parsed, Admin
<1> HIDE DEF t, n
<1> QED BY <1>1, <1>2 DEF Admin

LEMMA StartServiceKeepsInv ==
  ASSUME Inv, NEW a \in Admins, StartService(a)
  PROVE  Inv'
<1> DEFINE e == Head(admin[a].todo)
<1>1. /\ e \in Event /\ Tail(admin[a].todo) \in Seq(Event) /\ admin[a] \in Admin /\ admin[a].pc = "parsing"
      /\ up = "up"
  BY ParsingType DEF StartService
<1>2. e.lib \in LibNames \cup {None} /\ e.name \in Names /\ e.scope \in Scopes
  BY <1>1 DEF Event
<1>3. PICK c \in Cells :
        /\ ~heap[c].live
        /\ heap' = [heap EXCEPT ![c] =
             [live |-> TRUE, name |-> e.name, lib |-> NameOf(e.lib), id |-> NumberOf(a, e.lib),
              scope |-> e.scope, flows |-> NoLists]]
        /\ admin' = [admin EXCEPT ![a] = [Parsed(a, e.lib) EXCEPT !.cell = c]]
  BY DEF StartService
<1>4. /\ Number(a, e.lib)
      /\ UNCHANGED <<up, mode, services, lists, made, file, poolVars, req>>
  BY DEF StartService, saveVars
<1>5. /\ ids' \in [LibNames -> Nat] /\ spoiled' \subseteq Nat
      /\ Good \subseteq Good'
      /\ Distinct'
      /\ NameOf(e.lib) \in LibNames /\ NumberOf(a, e.lib) \in Nat
      /\ <<NumberOf(a, e.lib), NameOf(e.lib)>> \in Good' /\ (NumberOf(a, e.lib) = 0 => NameOf(e.lib) = 0)
  BY <1>1, <1>2, <1>4, NumberGood
<1>6. GoodHandler \subseteq GoodHandler' /\ GoodLists \subseteq GoodLists' /\ Cell \subseteq Cell'
  BY <1>5, GoodStays
<1>8. DescriptorInv /\ AdminInv /\ RequestInv /\ Names \subseteq Cells /\ Cells \subseteq Nat \ {0}
  BY DeploymentAssumption DEF Inv
<1>9. heap' \in [Cells -> Cell']
  <2>1. NoLists \in GoodLists'
    BY DEF NoLists, GoodLists
  <2>2. heap'[c] \in Cell'
    BY <1>2, <1>3, <1>5, <1>8, <2>1 DEF Cell, DescriptorInv
  <2> QED BY <1>3, <1>6, <1>8, <2>2 DEF DescriptorInv
<1>10. \A b \in Cells : b # c => heap'[b] = heap[b]
  BY <1>3, <1>8 DEF DescriptorInv
<1>11. heap'[c].live /\ heap'[c].lib = NameOf(e.lib) /\ heap'[c].id = NumberOf(a, e.lib) /\ heap'[c].name = e.name
  BY <1>3, <1>8 DEF DescriptorInv
<1>12. \A n \in Names : services[n] # c
  BY <1>3, <1>8, DeployedLive
<1>13. DescriptorInv'
  <2>1. \A b \in Cells : Entry(heap[b])'
    BY <1>5, <1>8, <1>10, <1>11 DEF DescriptorInv, Entry
  <2>2. \A n \in Deployed' : heap'[services'[n]].live /\ heap'[services'[n]].name = n
    BY <1>4, <1>10, <1>12, DeployedLive DEF Deployed
  <2>3. lists' \in [Places -> GoodLists']
    BY <1>4, <1>6, <1>8 DEF DescriptorInv
  <2> QED BY <1>4, <1>5, <1>8, <1>9, <2>1, <2>2, <2>3 DEF DescriptorInv
<1>14. AdminInv'
  <2>1. Parsed(a, e.lib) \in Admin /\ Parsed(a, e.lib).pc = "parsing" /\ Parsed(a, e.lib).alone = admin[a].alone
        /\ Parsed(a, e.lib).type = admin[a].type
    BY <1>1, ParsedType
  <2>2. /\ admin'[a] \in Admin /\ admin'[a].cell = c /\ admin'[a].last = Parsed(a, e.lib).last
        /\ admin'[a].alone = admin[a].alone /\ admin'[a].type = admin[a].type
        /\ \A b \in Admins : b # a => admin'[b] = admin[b]
    BY <1>3, <1>8, <2>1 DEF Admin, AdminInv
  <2>3. Admin \subseteq Admin'
    BY <1>6 DEF Admin
  <2>4. admin' \in [Admins -> Admin']
    BY <1>3, <1>8, <2>2, <2>3 DEF AdminInv
  <2>5. ASSUME NEW b \in Admins, admin'[b].pc = "parsing"
        PROVE  /\ \A l \in LibNames : ids'[l] > admin'[b].last => ids'[l] \in spoiled'
               /\ admin'[b].alone => mode' = admin'[b].type
    <3>1. admin[b].pc = "parsing" /\ admin'[b].last \in Nat
      BY <1>1, <1>8, <2>2, <2>5 DEF Admin, AdminInv
    <3>2. admin'[b].last = IF b = a THEN Parsed(a, e.lib).last ELSE admin[b].last
      BY <2>2
    <3>3. \A l \in LibNames : ids'[l] > admin'[b].last => ids'[l] \in spoiled'
      BY <1>1, <1>2, <1>4, <3>1, <3>2, NumberLast
    <3>4. admin'[b].alone = admin[b].alone /\ admin'[b].type = admin[b].type
      BY <2>2
    <3> QED BY <1>4, <1>8, <3>1, <3>3, <3>4 DEF AdminInv
  <2>6. ASSUME NEW b \in Admins, admin'[b].cell # 0
        PROVE  /\ heap'[admin'[b].cell].live /\ heap'[admin'[b].cell].name # 0
               /\ \A n \in Names : services'[n] # admin'[b].cell
               /\ \A d \in Admins \ {b} : admin'[d].cell # admin'[b].cell
    <3>1. \A d \in Admins : d # a => admin'[d].cell # c
      BY <1>3, <1>8, <2>2 DEF AdminInv
    <3>2. CASE b = a
      BY <1>2, <1>4, <1>8, <1>11, <1>12, <2>2, <3>1, <3>2
    <3>3. CASE b # a
      <4>1. admin[b].cell \in Cells
        BY <1>8, <2>2, <2>6, <3>3 DEF AdminInv, Admin
      <4> QED BY <1>4, <1>8, <1>10, <2>2, <2>6, <3>1, <3>3, <4>1 DEF AdminInv
    <3> QED BY <3>2, <3>3
  <2> QED BY <1>1, <1>4, <2>4, <2>5, <2>6 DEF AdminInv
<1>15. RequestInv'
  <2>1. ASSUME NEW r \in Requests, req[r].pc # "idle"
        PROVE  ~req[r].stale => /\ heap'[req[r].cell].lib = heap[req[r].cell].lib
                                /\ heap'[req[r].cell].id = heap[req[r].cell].id
                                /\ services'[req[r].name] = services[req[r].name]
    <3>1. /\ req[r].cell \in Cells /\ req[r].name \in Names
          /\ ~req[r].stale => services[req[r].name] = req[r].cell
      BY <1>8, <2>1 DEF RequestInv
    <3>2. ~req[r].stale => req[r].cell # c
      BY <1>12, <3>1
    <3> QED BY <1>2, <1>4, <1>8, <1>10, <1>11, <3>1, <3>2
  <2> QED BY <1>4, <1>5, <2>1, RequestsSame
<1> QED BY <1>13, <1>14, <1>15 DEF Inv

LEMMA StartHandlerKeepsInv ==
  ASSUME Inv, NEW a \in Admins, StartHandler(a)
  PROVE  Inv'
<1> DEFINE e == Head(admin[a].todo)
           h == [lib |-> NameOf(e.lib), id |-> NumberOf(a, e.lib), scope |-> e.scope]
<1>1. /\ e \in Event /\ Tail(admin[a].todo) \in Seq(Event) /\ admin[a] \in Admin /\ admin[a].pc = "parsing"
      /\ up = "up"
  BY ParsingType DEF StartHandler
<1>2. e.lib \in LibNames \cup {None} /\ e.scope \in Scopes
  BY <1>1 DEF Event
<1>3. /\ admin' = [admin EXCEPT ![a] = [Parsed(a, e.lib) EXCEPT !.handler = h]]
      /\ Number(a, e.lib)
      /\ UNCHANGED <<up, mode, services, heap, lists, made, file, poolVars, req>>
  BY DEF StartHandler, saveVars
<1>4. /\ ids' \in [LibNames -> Nat] /\ spoiled' \subseteq Nat
      /\ Good \subseteq Good'
      /\ Distinct'
      /\ NameOf(e.lib) \in LibNames /\ NumberOf(a, e.lib) \in Nat
      /\ <<NumberOf(a, e.lib), NameOf(e.lib)>> \in Good' /\ (NumberOf(a, e.lib) = 0 => NameOf(e.lib) = 0)
  BY <1>1, <1>2, <1>3, NumberGood
<1>5. GoodHandler \subseteq GoodHandler' /\ GoodLists \subseteq GoodLists' /\ Cell \subseteq Cell'
  BY <1>4, GoodStays
<1>6. DescriptorInv /\ AdminInv /\ RequestInv
  BY DEF Inv
<1>7. h \in GoodHandler'
  BY <1>2, <1>4 DEF GoodHandler, Entry, Handler
<1>8. DescriptorInv'
  <2>1. heap' \in [Cells -> Cell']
    BY <1>3, <1>5, <1>6 DEF DescriptorInv
  <2>2. lists' \in [Places -> GoodLists']
    BY <1>3, <1>5, <1>6 DEF DescriptorInv
  <2>3. \A c \in Cells : Entry(heap[c])'
    BY <1>3, <1>4, <1>6 DEF DescriptorInv, Entry
  <2>4. \A n \in Deployed' : heap'[services'[n]].live /\ heap'[services'[n]].name = n
    BY <1>3, DeployedLive DEF Deployed
  <2> QED BY <1>3, <1>4, <1>6, <2>1, <2>2, <2>3, <2>4 DEF DescriptorInv
<1>9. AdminInv'
  <2>1. Admin \subseteq Admin'
    BY <1>5 DEF Admin
  <2>2. /\ Parsed(a, e.lib) \in Admin /\ Parsed(a, e.lib).pc = "parsing" /\ Parsed(a, e.lib).alone = admin[a].alone
        /\ Parsed(a, e.lib).type = admin[a].type /\ Parsed(a, e.lib).cell = admin[a].cell
    BY <1>1, ParsedType
  <2> HIDE DEF h
  <2>3. /\ admin'[a] \in Admin' /\ admin'[a].cell = admin[a].cell /\ admin'[a].last = Parsed(a, e.lib).last
        /\ admin'[a].alone = admin[a].alone /\ admin'[a].type = admin[a].type
        /\ \A b \in Admins : b # a => admin'[b] = admin[b]
    <3>1. Parsed(a, e.lib) \in Admin'
      BY <2>1, <2>2
    <3>2. [Parsed(a, e.lib) EXCEPT !.handler = h] \in Admin'
      BY <1>7, <3>1 DEF Admin
    <3>3. /\ [Parsed(a, e.lib) EXCEPT !.handler = h].cell = Parsed(a, e.lib).cell
          /\ [Parsed(a, e.lib) EXCEPT !.handler = h].last = Parsed(a, e.lib).last
          /\ [Parsed(a, e.lib) EXCEPT !.handler = h].alone = Parsed(a, e.lib).alone
          /\ [Parsed(a, e.lib) EXCEPT !.handler = h].type = Parsed(a, e.lib).type
      BY <2>2 DEF Admin
    <3> QED BY <1>3, <1>6, <2>2, <3>2, <3>3 DEF AdminInv
  <2>4. admin' \in [Admins -> Admin']
    BY <1>3, <1>6, <2>1, <2>3 DEF AdminInv
  <2>5. ASSUME NEW b \in Admins, admin'[b].pc = "parsing"
        PROVE  /\ \A l \in LibNames : ids'[l] > admin'[b].last => ids'[l] \in spoiled'
               /\ admin'[b].alone => mode' = admin'[b].type
    <3>1. admin[b].pc = "parsing" /\ admin'[b].last \in Nat
      BY <1>1, <2>3, <2>4, <2>5 DEF Admin
    <3>2. admin'[b].last = IF b = a THEN Parsed(a, e.lib).last ELSE admin[b].last
      BY <2>3
    <3>3. \A l \in LibNames : ids'[l] > admin'[b].last => ids'[l] \in spoiled'
      BY <1>1, <1>2, <1>3, <3>1, <3>2, NumberLast
    <3>4. admin'[b].alone = admin[b].alone /\ admin'[b].type = admin[b].type
      BY <2>3
    <3> QED BY <1>3, <1>6, <3>1, <3>3, <3>4 DEF AdminInv
  <2>6. \A b \in Admins : admin'[b].cell = admin[b].cell
    BY <2>3
  <2>7. \A b \in Admins : admin'[b].cell # 0 =>
          /\ heap'[admin'[b].cell].live /\ heap'[admin'[b].cell].name # 0
          /\ \A n \in Names : services'[n] # admin'[b].cell
          /\ \A d \in Admins \ {b} : admin'[d].cell # admin'[b].cell
    BY <1>3, <1>6, <2>6 DEF AdminInv
  <2> QED BY <1>1, <1>3, <2>4, <2>5, <2>7 DEF AdminInv
<1>10. RequestInv'
  BY <1>3, <1>4, <1>6, RequestsSame DEF RequestInv
<1> QED BY <1>8, <1>9, <1>10 DEF Inv

\* The steps that number nothing: the update's record changes, libraries
\* may lose their numbers, and the elements being parsed stay apart.
LEMMA AdminStep ==
  ASSUME Inv, up = "up", UNCHANGED <<up, mode>>, Good \subseteq Good', spoiled \subseteq spoiled',
         \A k \in LibNames : ids'[k] = ids[k] \/ ids'[k] = 0,
         NEW a \in Admins, NEW rec \in Admin', admin' = [admin EXCEPT ![a] = rec],
         rec.pc = "parsing" => /\ admin[a].pc = "parsing" /\ rec.last = admin[a].last
                               /\ rec.type = admin[a].type /\ rec.alone = admin[a].alone,
         rec.cell \in {0, admin[a].cell},
         \A b \in Admins : admin'[b].cell # 0 =>
           /\ heap'[admin[b].cell].live /\ heap'[admin[b].cell].name # 0
           /\ \A n \in Names : services'[n] # admin[b].cell
  PROVE  AdminInv'
<1>1. AdminInv /\ admin \in [Admins -> Admin] /\ ids \in [LibNames -> Nat]
  BY DEF Inv, AdminInv, DescriptorInv
<1>2. Admin \subseteq Admin'
  BY GoodStays DEF Admin
<1>3. admin'[a] = rec /\ \A b \in Admins : b # a => admin'[b] = admin[b]
  BY <1>1
<1>4. admin' \in [Admins -> Admin']
  BY <1>1, <1>2
<1>5. ASSUME NEW b \in Admins, admin'[b].pc = "parsing"
      PROVE  /\ \A l \in LibNames : ids'[l] > admin'[b].last => ids'[l] \in spoiled'
             /\ admin'[b].alone => mode' = admin'[b].type
  <2>1. /\ admin[b].pc = "parsing" /\ admin'[b].last = admin[b].last
        /\ admin'[b].type = admin[b].type /\ admin'[b].alone = admin[b].alone
    BY <1>3, <1>5
  <2>2. admin[b].last \in Nat
    BY <1>1 DEF Admin
  <2> QED BY <1>1, <2>1, <2>2 DEF AdminInv
<1>6. \A b \in Admins : admin'[b].cell \in {0, admin[b].cell}
  BY <1>3
<1>7. \A b \in Admins : admin'[b].cell # 0 =>
        /\ heap'[admin'[b].cell].live /\ heap'[admin'[b].cell].name # 0
        /\ \A n \in Names : services'[n] # admin'[b].cell
        /\ \A c \in Admins \ {b} : admin'[c].cell # admin'[b].cell
  BY <1>1, <1>6 DEF AdminInv
<1> QED BY <1>4, <1>5, <1>7 DEF AdminInv

\* What the two kinds of closing tag do to the update's record.
LEMMA ElementEnds ==
  ASSUME Inv, up = "up", UNCHANGED <<up, mode>>, Good \subseteq Good', spoiled \subseteq spoiled',
         \A k \in LibNames : ids'[k] = ids[k] \/ ids'[k] = 0,
         NEW a \in Admins, admin[a].pc = "parsing", Tail(admin[a].todo) \in Seq(Event),
         EndHandlerElement(a) \/ EndElement(a),
         \A b \in Admins : admin'[b].cell # 0 =>
           /\ heap'[admin[b].cell].live /\ heap'[admin[b].cell].name # 0
           /\ \A n \in Names : services'[n] # admin[b].cell
  PROVE  AdminInv'
<1> DEFINE t == Tail(admin[a].todo)
<1>1. admin \in [Admins -> Admin] /\ Admin \subseteq Admin'
  BY GoodStays DEF Inv, AdminInv, Admin
<1>2. CASE EndHandlerElement(a)
  <2> DEFINE rec == [[admin[a] EXCEPT !.todo = t] EXCEPT !.handler = NoHandler]
  <2>1. admin' = [admin EXCEPT ![a] = rec]
    BY <1>1, <1>2 DEF EndHandlerElement
  <2> HIDE DEF t
  <2>2. t \in Seq(Event)
    BY DEF t
  <2>3. rec \in Admin /\ rec.last = admin[a].last /\ rec.type = admin[a].type /\ rec.alone = admin[a].alone
        /\ rec.cell = admin[a].cell
    BY <1>1, <2>2 DEF Admin
  <2> HIDE DEF rec
  <2> QED BY <1>1, <2>1, <2>3, AdminStep
<1>3. CASE EndElement(a)
  <2> DEFINE rec == [[admin[a] EXCEPT !.todo = t] EXCEPT !.cell = 0]
  <2>1. admin' = [admin EXCEPT ![a] = rec]
    BY <1>1, <1>3 DEF EndElement
  <2> HIDE DEF t
  <2>2. t \in Seq(Event)
    BY DEF t
  <2>3. rec \in Admin /\ rec.last = admin[a].last /\ rec.type = admin[a].type /\ rec.alone = admin[a].alone
        /\ rec.cell = 0
    BY <1>1, <2>2 DEF Admin
  <2> HIDE DEF rec
  <2> QED BY <1>1, <2>1, <2>3, AdminStep
<1> QED BY <1>2, <1>3

LEMMA EndHandlerType ==
  ASSUME Inv, NEW a \in Admins, Parsing(a, "endHandler")
  PROVE  admin[a].handler \in GoodHandler
BY ParsingType DEF Parsing, Admin

\* The element an update is parsing is no other's, and not deployed.
LEMMA ElementOwned ==
  ASSUME Inv, NEW b \in Admins, admin[b].cell # 0
  PROVE  /\ admin[b].cell \in Cells
         /\ heap[admin[b].cell].live /\ heap[admin[b].cell].name \in Names
         /\ \A n \in Names : services[n] # admin[b].cell
         /\ \A d \in Admins \ {b} : admin[d].cell # admin[b].cell
<1>1. AdminInv /\ admin[b].cell \in Cells
  BY DEF Inv, AdminInv, Admin
<1>2. heap[admin[b].cell].name \in Names \cup {0} /\ heap[admin[b].cell].name # 0
  BY <1>1 DEF Inv, AdminInv, DescriptorInv, Cell
<1> QED BY <1>1, <1>2 DEF AdminInv

LEMMA EndServiceHandlerKeepsInv ==
  ASSUME Inv, NEW a \in Admins, EndServiceHandler(a)
  PROVE  Inv'
<1> DEFINE e == Head(admin[a].todo)
           c == admin[a].cell
           old == heap[c].flows[e.flow]
           new == IF mode = "deploy" THEN Append(old, admin[a].handler) ELSE Remove(old, admin[a].handler.lib)
<1>1. /\ e \in Event /\ Tail(admin[a].todo) \in Seq(Event) /\ admin[a] \in Admin /\ admin[a].pc = "parsing"
      /\ up = "up" /\ admin[a].handler \in GoodHandler
  BY ParsingType, EndHandlerType DEF EndServiceHandler
<1> SUFFICES ASSUME ~Fall PROVE Inv'
  BY FallKeepsInv
<1>2. /\ heap' = [heap EXCEPT ![c].flows[e.flow] = new]
      /\ c # 0 /\ EndHandlerElement(a)
      /\ UNCHANGED <<up, mode, ids, services, lists, made, file, poolVars, req, spoiled>>
  BY DEF EndServiceHandler, FreedNode, saveVars
<1>3. /\ Good' = Good /\ GoodHandler' = GoodHandler /\ GoodLists' = GoodLists /\ Cell' = Cell
  BY <1>2, SameNumbers
<1>4. DescriptorInv /\ RequestInv /\ heap \in [Cells -> Cell] /\ c \in Cells
  BY <1>2, ElementOwned DEF Inv, DescriptorInv
<1>5. e.flow \in Flows /\ old \in Seq(GoodHandler)
  BY <1>1, <1>4 DEF Event, Cell, GoodLists
<1>6. new \in Seq(GoodHandler)
  <2>1. Append(old, admin[a].handler) \in Seq(GoodHandler)
    BY <1>1, <1>5
  <2>2. Remove(old, admin[a].handler.lib) \in Seq(GoodHandler)
    BY <1>5, RemoveType
  <2> QED BY <2>1, <2>2
<1> HIDE DEF new, old, e
<1>7. heap' \in [Cells -> Cell] /\ \A d \in Cells : /\ heap'[d].live = heap[d].live /\ heap'[d].name = heap[d].name
                                                     /\ heap'[d].lib = heap[d].lib /\ heap'[d].id = heap[d].id
  <2> DEFINE fl == [heap[c].flows EXCEPT ![e.flow] = new]
             s == [heap[c] EXCEPT !.flows = fl]
  <2>1. heap' = [heap EXCEPT ![c] = s]
    BY <1>2, <1>4
  <2>2. fl \in GoodLists
    BY <1>4, <1>5, <1>6 DEF Cell, GoodLists
  <2> HIDE DEF fl
  <2>3. s \in Cell /\ s.live = heap[c].live /\ s.name = heap[c].name /\ s.lib = heap[c].lib /\ s.id = heap[c].id
    BY <1>4, <2>2 DEF Cell
  <2> HIDE DEF s
  <2> QED BY <1>4, <2>1, <2>3
<1>8. DescriptorInv'
  <2>1. \A d \in Cells : Entry(heap[d])'
    BY <1>3, <1>4, <1>7 DEF DescriptorInv, Entry
  <2>2. \A n \in Deployed' : heap'[services'[n]].live /\ heap'[services'[n]].name = n
    BY <1>2, <1>7, DeployedLive DEF Deployed
  <2>3. Distinct'
    BY <1>2, <1>4 DEF DescriptorInv, Distinct
  <2> QED BY <1>2, <1>3, <1>4, <1>7, <2>1, <2>2, <2>3 DEF DescriptorInv
<1>9. AdminInv'
  <2>1. \A b \in Admins : admin'[b].cell = admin[b].cell
    BY <1>2 DEF EndHandlerElement, Inv, AdminInv, Admin
  <2>2. \A b \in Admins : admin'[b].cell # 0 =>
          /\ heap'[admin[b].cell].live /\ heap'[admin[b].cell].name # 0
          /\ \A n \in Names : services'[n] # admin[b].cell
    BY <1>2, <1>7, <2>1, ElementOwned DEF Inv, AdminInv
  <2> QED BY <1>1, <1>2, <1>3, <2>2, ElementEnds
<1>10. RequestInv'
  BY <1>2, <1>3, <1>4, <1>7, RequestsSame DEF RequestInv
<1> QED BY <1>8, <1>9, <1>10 DEF Inv

\* The cells of the elements being parsed when neither heap nor services change.
LEMMA ElementsStay ==
  ASSUME Inv, NEW a \in Admins, EndHandlerElement(a), UNCHANGED <<services, heap>>
  PROVE  \A b \in Admins : admin'[b].cell # 0 =>
           /\ heap'[admin[b].cell].live /\ heap'[admin[b].cell].name # 0
           /\ \A n \in Names : services'[n] # admin[b].cell
<1>1. \A b \in Admins : admin'[b].cell = admin[b].cell
  BY DEF EndHandlerElement, Inv, AdminInv, Admin
<1> QED BY <1>1, ElementOwned DEF Inv, AdminInv

LEMMA AddHandlerKeepsInv ==
  ASSUME Inv, NEW a \in Admins, AddHandler(a)
  PROVE  Inv'
<1> DEFINE e == Head(admin[a].todo)
           new == Append(lists[e.place][e.flow], admin[a].handler)
<1>1. /\ e \in Event /\ Tail(admin[a].todo) \in Seq(Event) /\ admin[a] \in Admin /\ admin[a].pc = "parsing"
      /\ up = "up" /\ admin[a].handler \in GoodHandler
  BY ParsingType, EndHandlerType DEF AddHandler
<1>2. /\ e.place \in Places /\ lists' = [lists EXCEPT ![e.place][e.flow] = new]
      /\ made' \in {made, made \cup {e.flow}}
      /\ EndHandlerElement(a)
      /\ UNCHANGED <<up, mode, ids, services, heap, file, poolVars, req, spoiled>>
  BY DEF AddHandler, saveVars
<1>3. /\ Good' = Good /\ GoodHandler' = GoodHandler /\ GoodLists' = GoodLists /\ Cell' = Cell
  BY <1>2, SameNumbers
<1>4. DescriptorInv /\ RequestInv
  BY DEF Inv
<1>5. e.flow \in Flows /\ lists[e.place] \in GoodLists /\ lists[e.place][e.flow] \in Seq(GoodHandler)
  <2>1. e.flow \in Flows
    BY <1>1 DEF Event
  <2>2. lists[e.place] \in GoodLists
    BY <1>2, <1>4 DEF DescriptorInv
  <2> QED BY <2>1, <2>2 DEF GoodLists
<1>6. new \in Seq(GoodHandler)
  BY <1>1, <1>5
<1> HIDE DEF new, e
<1>7. lists' \in [Places -> GoodLists]
  BY <1>2, <1>4, <1>5, <1>6 DEF DescriptorInv, GoodLists
<1>8. DescriptorInv'
  <2>1. Distinct' /\ Deployed' = Deployed
    BY <1>2, <1>4 DEF DescriptorInv, Distinct, Deployed
  <2> QED BY <1>2, <1>3, <1>4, <1>5, <1>7, <2>1 DEF DescriptorInv, Entry
<1>9. AdminInv'
  BY <1>1, <1>2, <1>3, ElementsStay, ElementEnds
<1>10. RequestInv'
  BY <1>2, <1>3, <1>4, RequestsSame DEF RequestInv
<1> QED BY <1>8, <1>9, <1>10 DEF Inv

LEMMA RemoveHandlerKeepsInv ==
  ASSUME Inv, NEW a \in Admins, RemoveHandler(a)
  PROVE  Inv'
<1> DEFINE e == Head(admin[a].todo)
           l == admin[a].handler.lib
           new == Remove(lists[e.place][e.flow], l)
<1>1. /\ e \in Event /\ Tail(admin[a].todo) \in Seq(Event) /\ admin[a] \in Admin /\ admin[a].pc = "parsing"
      /\ up = "up" /\ l \in LibNames
  BY ParsingType, EndHandlerType DEF RemoveHandler, GoodHandler, Handler
<1>2. CASE Fall
  BY <1>2, FallKeepsInv
<1>3. CASE ~Fall
  <2>1. /\ e.place \in Places /\ lists' = [lists EXCEPT ![e.place][e.flow] = new]
        /\ Forget(l) /\ EndHandlerElement(a)
        /\ UNCHANGED <<up, mode, services, heap, made, file, poolVars, req>>
    BY <1>3 DEF RemoveHandler, FreedNode, saveVars
  <2>2. /\ ids' \in [LibNames -> Nat] /\ spoiled' \subseteq Nat /\ spoiled \subseteq spoiled'
        /\ Good \subseteq Good'
        /\ Distinct'
        /\ \A k \in LibNames : ids'[k] = ids[k] \/ ids'[k] = 0
    BY <1>1, <2>1, ForgetGood
  <2>3. GoodHandler \subseteq GoodHandler' /\ GoodLists \subseteq GoodLists' /\ Cell \subseteq Cell'
    BY <2>2, GoodStays
  <2>4. DescriptorInv /\ RequestInv
    BY DEF Inv
  <2>5. e.flow \in Flows /\ lists[e.place] \in GoodLists /\ lists[e.place][e.flow] \in Seq(GoodHandler)
    <3>1. e.flow \in Flows
      BY <1>1 DEF Event
    <3>2. lists[e.place] \in GoodLists
      BY <2>1, <2>4 DEF DescriptorInv
    <3> QED BY <3>1, <3>2 DEF GoodLists
  <2>6. new \in Seq(GoodHandler)
    BY <2>5, RemoveType
  <2> HIDE DEF new, e, l
  <2>7. lists' \in [Places -> GoodLists]
    BY <2>1, <2>4, <2>5, <2>6 DEF DescriptorInv, GoodLists
  <2>8. DescriptorInv'
    <3>1. lists' \in [Places -> GoodLists'] /\ heap' \in [Cells -> Cell']
      BY <2>1, <2>3, <2>4, <2>7 DEF DescriptorInv
    <3>2. \A d \in Cells : Entry(heap[d])'
      BY <2>1, <2>2, <2>4 DEF DescriptorInv, Entry
    <3>3. \A n \in Deployed' : heap'[services'[n]].live /\ heap'[services'[n]].name = n
      BY <2>1, DeployedLive DEF Deployed
    <3> QED BY <2>1, <2>2, <2>4, <3>1, <3>2, <3>3 DEF DescriptorInv
  <2>9. AdminInv'
    BY <1>1, <2>1, <2>2, ElementsStay, ElementEnds
  <2>10. RequestInv'
    BY <2>1, <2>2, <2>4, RequestsSame DEF RequestInv
  <2> QED BY <2>8, <2>9, <2>10 DEF Inv
<1> QED BY <1>2, <1>3

LEMMA DropHandlerKeepsInv ==
  ASSUME Inv, NEW a \in Admins, DropHandler(a)
  PROVE  Inv'
<1>1. /\ Tail(admin[a].todo) \in Seq(Event) /\ admin[a].pc = "parsing" /\ up = "up"
  BY ParsingType DEF DropHandler
<1>2. /\ EndHandlerElement(a)
      /\ UNCHANGED <<up, mode, descVars, file, poolVars, req, spoiled>>
  BY DEF DropHandler, saveVars
<1>3. Good' = Good
  BY <1>2, SameNumbers DEF descVars
<1>4. DescriptorInv'
  BY <1>2, DescriptorSame DEF Inv, DescriptorInv
<1>5. AdminInv'
  BY <1>1, <1>2, <1>3, ElementsStay, ElementEnds DEF descVars
<1>6. RequestInv'
  BY <1>2, <1>3, RequestsSame DEF descVars, Inv, RequestInv
<1> QED BY <1>4, <1>5, <1>6 DEF Inv

LEMMA AddServiceKeepsInv ==
  ASSUME Inv, NEW a \in Admins, AddService(a)
  PROVE  Inv'
<1> DEFINE n == Service(a)
           c == admin[a].cell
<1>1. /\ Tail(admin[a].todo) \in Seq(Event) /\ admin[a].pc = "parsing" /\ up = "up" /\ c # 0
  BY ParsingType DEF AddService, Parsing
<1>2. /\ IF services[n] = 0
         THEN services' = [services EXCEPT ![n] = c] /\ UNCHANGED heap
         ELSE heap' = [heap EXCEPT ![c].live = FALSE] /\ UNCHANGED services
      /\ EndElement(a)
      /\ UNCHANGED <<up, mode, ids, lists, made, file, poolVars, req, spoiled>>
  BY DEF AddService, saveVars
<1>3. /\ Good' = Good /\ GoodHandler' = GoodHandler /\ GoodLists' = GoodLists /\ Cell' = Cell
  BY <1>2, SameNumbers
<1>4. /\ DescriptorInv /\ RequestInv /\ heap \in [Cells -> Cell] /\ services \in [Names -> Cells \cup {0}]
      /\ Cells \subseteq Nat \ {0}
  BY DeploymentAssumption DEF Inv, DescriptorInv
<1>5. /\ c \in Cells /\ heap[c].live /\ n \in Names /\ heap[c].name = n
      /\ \A m \in Names : services[m] # c
      /\ \A d \in Admins \ {a} : admin[d].cell # c
  BY <1>1, ElementOwned DEF Service
<1>6. \A b \in Admins : b # a => admin'[b] = admin[b]
  BY <1>2 DEF EndElement, Inv, AdminInv
<1>7. admin'[a].cell = 0
  BY <1>2 DEF EndElement, Inv, AdminInv, Admin
<1> HIDE DEF n, c
<1>8. heap' \in [Cells -> Cell] /\ \A d \in Cells : /\ heap'[d].name = heap[d].name /\ heap'[d].lib = heap[d].lib
                                                     /\ heap'[d].id = heap[d].id /\ (d # c => heap'[d] = heap[d])
                                                     /\ (heap'[d].live => heap[d].live)
  <2> DEFINE s == [heap[c] EXCEPT !.live = FALSE]
  <2>1. heap' = heap \/ heap' = [heap EXCEPT ![c] = s]
    BY <1>2, <1>4
  <2>2. s \in Cell /\ s.live = FALSE /\ s.name = heap[c].name /\ s.lib = heap[c].lib /\ s.id = heap[c].id
    BY <1>4, <1>5 DEF Cell
  <2> HIDE DEF s
  <2> QED BY <1>4, <1>5, <2>1, <2>2
<1>9. services' \in [Names -> Cells \cup {0}]
  BY <1>2, <1>4, <1>5
<1>10. \A m \in Deployed' : heap'[services'[m]].live /\ heap'[services'[m]].name = m
  BY <1>2, <1>4, <1>5, <1>8, DeployedLive DEF Deployed
<1>11. DescriptorInv'
  <2>1. \A d \in Cells : Entry(heap[d])'
    BY <1>3, <1>4, <1>8 DEF DescriptorInv, Entry
  <2>2. Distinct'
    BY <1>2, <1>4 DEF DescriptorInv, Distinct
  <2> QED BY <1>2, <1>3, <1>4, <1>8, <1>9, <1>10, <2>1, <2>2 DEF DescriptorInv
<1>12. AdminInv'
  <2>1. ASSUME NEW b \in Admins, admin'[b].cell # 0
        PROVE  /\ heap'[admin[b].cell].live /\ heap'[admin[b].cell].name # 0
               /\ \A m \in Names : services'[m] # admin[b].cell
    <3>1. b # a /\ admin[b].cell # 0 /\ admin[b].cell # c
      BY <1>5, <1>6, <1>7, <2>1
    <3>2. /\ admin[b].cell \in Cells /\ heap[admin[b].cell].live /\ heap[admin[b].cell].name # 0
          /\ \A m \in Names : services[m] # admin[b].cell
      BY <3>1 DEF Inv, AdminInv, Admin
    <3> QED BY <1>2, <1>4, <1>5, <1>8, <3>1, <3>2
  <2> QED BY <1>1, <1>2, <1>3, <2>1, ElementEnds
<1>13. RequestInv'
  <2>1. ASSUME NEW r \in Requests, req[r].pc # "idle"
        PROVE  ~req[r].stale => /\ heap'[req[r].cell].lib = heap[req[r].cell].lib
                                /\ heap'[req[r].cell].id = heap[req[r].cell].id
                                /\ services'[req[r].name] = services[req[r].name]
    <3>1. /\ req[r].cell \in Cells /\ req[r].name \in Names
          /\ ~req[r].stale => services[req[r].name] = req[r].cell
      BY <1>4, <2>1 DEF RequestInv
    <3> QED BY <1>2, <1>4, <1>8, <3>1
  <2> QED BY <1>2, <1>3, <2>1, RequestsSame
<1> QED BY <1>11, <1>12, <1>13 DEF Inv

LEMMA RemoveServiceKeepsInv ==
  ASSUME Inv, NEW a \in Admins, RemoveService(a)
  PROVE  Inv'
<1> DEFINE n == Service(a)
           own == admin[a].cell
           c == services[n]
<1>1. /\ Tail(admin[a].todo) \in Seq(Event) /\ admin[a].pc = "parsing" /\ up = "up" /\ own # 0
  BY ParsingType DEF RemoveService, Parsing
<1>2. /\ heap' = [d \in Cells |-> IF d \in {c, own} THEN [heap[d] EXCEPT !.live = FALSE] ELSE heap[d]]
      /\ IF c = 0 THEN UNCHANGED <<ids, services, spoiled>>
         ELSE Forget(heap[c].lib) /\ services' = [services EXCEPT ![n] = 0]
      /\ req' = [r \in Requests |->
           [req[r] EXCEPT !.stale = @ \/ (req[r].pc # "idle" /\ c # 0 /\ req[r].cell = c)]]
      /\ EndElement(a)
      /\ UNCHANGED <<up, mode, lists, made, file, loaded, idle>>
  BY DEF RemoveService, EraseService, saveVars, poolVars
<1>3. /\ DescriptorInv /\ RequestInv /\ heap \in [Cells -> Cell] /\ services \in [Names -> Cells \cup {0}]
      /\ Cells \subseteq Nat \ {0} /\ req \in [Requests -> Req] /\ ids \in [LibNames -> Nat]
  BY DeploymentAssumption DEF Inv, DescriptorInv, RequestInv
<1>4. /\ own \in Cells /\ heap[own].live /\ n \in Names /\ heap[own].name = n
      /\ \A m \in Names : services[m] # own
      /\ \A d \in Admins \ {a} : admin[d].cell # own
  BY <1>1, ElementOwned DEF Service
<1>5. c # 0 => c \in Cells /\ heap[c].live /\ heap[c].name = n /\ heap[c].lib \in LibNames
  <2>1. c # 0 => c \in Cells /\ heap[c].live /\ heap[c].name = n
    BY <1>4, DeployedLive
  <2>2. c # 0 => <<heap[c].id, heap[c].lib>> \in Good
    BY <1>3, <2>1 DEF DescriptorInv, Entry
  <2> QED BY <2>1, <2>2 DEF Good
<1>6. /\ ids' \in [LibNames -> Nat] /\ spoiled' \subseteq Nat /\ spoiled \subseteq spoiled'
      /\ Good \subseteq Good'
      /\ Distinct'
      /\ \A k \in LibNames : ids'[k] = ids[k] \/ ids'[k] = 0
  <2>1. CASE c = 0
    <3>1. Good' = Good
      BY <1>2, <2>1, SameNumbers
    <3> QED BY <1>2, <1>3, <2>1, <3>1 DEF DescriptorInv, Distinct
  <2>2. CASE c # 0
    BY <1>2, <1>5, <2>2, ForgetGood
  <2> QED BY <2>1, <2>2
<1>7. GoodHandler \subseteq GoodHandler' /\ GoodLists \subseteq GoodLists' /\ Cell \subseteq Cell'
  BY <1>6, GoodStays
<1>8. \A m \in Names : services'[m] = IF m = n THEN 0 ELSE services[m]
  BY <1>2, <1>3, <1>4
<1>9. services' \in [Names -> Cells \cup {0}]
  BY <1>2, <1>3
<1>10. \A b \in Admins : b # a => admin'[b] = admin[b]
  BY <1>2 DEF EndElement, Inv, AdminInv
<1>11. admin'[a].cell = 0
  BY <1>2 DEF EndElement, Inv, AdminInv, Admin
<1>12. ASSUME NEW d \in Cells
       PROVE  /\ heap'[d] \in Cell
              /\ heap'[d].name = heap[d].name /\ heap'[d].lib = heap[d].lib /\ heap'[d].id = heap[d].id
              /\ heap'[d].live => heap[d].live
              /\ d \notin {c, own} => heap'[d] = heap[d]
  <2> HIDE DEF n, c, own
  <2>1. heap[d] \in Cell
    BY <1>3
  <2>2. heap'[d] = heap[d] \/ heap'[d] = [heap[d] EXCEPT !.live = FALSE]
    BY <1>2
  <2>3. d \notin {c, own} => heap'[d] = heap[d]
    BY <1>2
  <2> DEFINE s == [heap[d] EXCEPT !.live = FALSE]
  <2>4. s \in Cell /\ s.live = FALSE /\ s.name = heap[d].name /\ s.lib = heap[d].lib /\ s.id = heap[d].id
    BY <2>1 DEF Cell
  <2> HIDE DEF s
  <2>5. heap'[d] = heap[d] \/ heap'[d] = s
    BY <2>2 DEF s
  <2> QED BY <2>1, <2>3, <2>4, <2>5
<1>13. ASSUME NEW m \in Names, m # n, services[m] # 0
       PROVE  services[m] \in Cells /\ services[m] \notin {c, own} /\ heap[services[m]].live /\ heap[services[m]].name = m
  BY <1>4, <1>5, <1>13, DeployedLive
<1> HIDE DEF n, c, own
<1>14. DescriptorInv'
  <2>1. heap' \in [Cells -> Cell']
    BY <1>2, <1>7, <1>12
  <2>2. \A d \in Cells : Entry(heap[d])'
    BY <1>3, <1>6, <1>12 DEF DescriptorInv, Entry
  <2>3. \A m \in Deployed' : heap'[services'[m]].live /\ heap'[services'[m]].name = m
    BY <1>8, <1>12, <1>13 DEF Deployed
  <2>4. lists' \in [Places -> GoodLists']
    BY <1>2, <1>3, <1>7 DEF DescriptorInv
  <2> QED BY <1>2, <1>3, <1>6, <1>9, <2>1, <2>2, <2>3, <2>4 DEF DescriptorInv
<1>15. AdminInv'
  <2>1. ASSUME NEW b \in Admins, admin'[b].cell # 0
        PROVE  /\ heap'[admin[b].cell].live /\ heap'[admin[b].cell].name # 0
               /\ \A m \in Names : services'[m] # admin[b].cell
    <3>1. b # a /\ admin[b].cell # 0 /\ admin[b].cell # own
      BY <1>4, <1>10, <1>11, <2>1
    <3>2. /\ admin[b].cell \in Cells /\ heap[admin[b].cell].live /\ heap[admin[b].cell].name # 0
          /\ \A m \in Names : services[m] # admin[b].cell
      BY <3>1 DEF Inv, AdminInv, Admin
    <3>3. admin[b].cell # c
      BY <1>4, <3>2 DEF c
    <3> QED BY <1>3, <1>8, <1>12, <3>1, <3>2, <3>3
  <2> QED BY <1>1, <1>2, <1>6, <2>1, ElementEnds
<1>16. RequestInv'
  <2>1. ASSUME NEW r \in Requests
        PROVE  /\ req'[r] \in Req /\ req'[r].pc = req[r].pc /\ req'[r].name = req[r].name /\ req'[r].cell = req[r].cell
               /\ req'[r].want = req[r].want /\ req'[r].objs = req[r].objs
               /\ req[r].stale => req'[r].stale
               /\ req[r].pc # "idle" /\ c # 0 /\ req[r].cell = c => req'[r].stale
    <3> DEFINE st == req[r].stale \/ (req[r].pc # "idle" /\ c # 0 /\ req[r].cell = c)
               q == [req[r] EXCEPT !.stale = st]
    <3>1. req'[r] = q /\ req[r] \in Req
      BY <1>2, <1>3
    <3>2. st \in BOOLEAN
      BY <3>1 DEF Req
    <3>3. (req[r].stale => st) /\ (req[r].pc # "idle" /\ c # 0 /\ req[r].cell = c => st)
      OBVIOUS
    <3> HIDE DEF st
    <3>4. /\ q \in Req /\ q.pc = req[r].pc /\ q.name = req[r].name /\ q.cell = req[r].cell
          /\ q.want = req[r].want /\ q.objs = req[r].objs /\ q.stale = st
      BY <3>1, <3>2 DEF Req
    <3> QED BY <3>1, <3>3, <3>4
  <2>2. req' \in [Requests -> Req]
    BY <1>2, <2>1
  <2>3. ASSUME NEW r \in Requests, req'[r].pc # "idle"
        PROVE  /\ req'[r].name \in Names /\ req'[r].cell \in Cells /\ req'[r].want \in LibNames
               /\ heap'[req'[r].cell].id = heap[req[r].cell].id
               /\ ~req'[r].stale => services'[req'[r].name] = req'[r].cell /\ heap'[req'[r].cell].lib = req'[r].want
    <3>1. /\ req[r].name \in Names /\ req[r].cell \in Cells /\ req[r].want \in LibNames
          /\ ~req[r].stale => services[req[r].name] = req[r].cell /\ heap[req[r].cell].lib = req[r].want
      BY <1>3, <2>1, <2>3 DEF RequestInv
    <3>2. ASSUME ~req'[r].stale
          PROVE  services'[req'[r].name] = req'[r].cell
      <4>1. ~req[r].stale /\ (c # 0 => req[r].cell # c) /\ req[r].cell # 0 /\ services[req[r].name] = req[r].cell
        BY <1>3, <2>1, <2>3, <3>1, <3>2
      <4>2. req[r].name # n
        BY <4>1 DEF c
      <4> QED BY <1>8, <2>1, <3>1, <4>1, <4>2
    <3> QED BY <1>12, <2>1, <3>1, <3>2
  <2>4. \A r \in Requests : req[r].pc # "idle" \/ req[r].objs = {}
    BY <1>3 DEF RequestInv
  <2>5. ASSUME NEW r \in Requests, NEW o \in req'[r].objs
        PROVE  /\ <<o.id, o.lib>> \in Good'
               /\ req'[r].stale \/ <<o.id, o.want>> \in Good'
               /\ o.own = "service" /\ ~req'[r].stale => o.id = heap'[req'[r].cell].id
    <3>1. o \in req[r].objs /\ req'[r].pc # "idle"
      BY <2>1, <2>4, <2>5
    <3>2. /\ <<o.id, o.lib>> \in Good
          /\ req[r].stale \/ <<o.id, o.want>> \in Good
          /\ o.own = "service" /\ ~req[r].stale => o.id = heap[req[r].cell].id
      BY <1>3, <3>1 DEF RequestInv
    <3> QED BY <1>6, <2>1, <2>3, <3>1, <3>2
  <2>6. \A r \in Requests : req'[r].pc = "idle" => req'[r].objs = {}
    BY <1>3, <2>1 DEF RequestInv
  <2>7. loaded' \subseteq Good' /\ idle' = idle /\ \A o \in idle' : <<o.id, o.lib>> \in Good'
    BY <1>2, <1>3, <1>6 DEF RequestInv
  <2>8. idle' \subseteq [scope : Scopes, id : Nat, lib : Libs]
    BY <1>3, <2>7 DEF RequestInv
  <2> QED BY <1>1, <1>2, <2>2, <2>3, <2>5, <2>6, <2>7, <2>8 DEF RequestInv, Req
<1> QED BY <1>14, <1>15, <1>16 DEF Inv

LEMMA ParseFailsKeepsInv ==
  ASSUME Inv, NEW a \in Admins, ParseFails(a)
  PROVE  Inv'
<1> DEFINE own == admin[a].cell
<1>1. /\ up = "up"
      /\ heap' = [d \in Cells |-> IF d = own THEN [heap[d] EXCEPT !.live = FALSE] ELSE heap[d]]
      /\ admin' = [admin EXCEPT ![a] = IdleAdmin]
      /\ UNCHANGED <<up, mode, ids, services, lists, made, file, poolVars, req, spoiled>>
  BY DEF ParseFails
<1>2. /\ DescriptorInv /\ AdminInv /\ RequestInv /\ heap \in [Cells -> Cell] /\ admin \in [Admins -> Admin]
      /\ Cells \subseteq Nat \ {0}
  BY DeploymentAssumption DEF Inv, DescriptorInv, AdminInv
<1>3. Good' = Good /\ GoodHandler' = GoodHandler /\ GoodLists' = GoodLists /\ Cell' = Cell
  BY <1>1, SameNumbers
<1>4. \A d \in Cells : d = own => own # 0
  BY <1>2
<1>5. own # 0 => /\ \A m \in Names : services[m] # own
                 /\ \A d \in Admins \ {a} : admin[d].cell # own
  BY ElementOwned
<1>6. ASSUME NEW d \in Cells
      PROVE  /\ heap'[d] \in Cell
             /\ heap'[d].name = heap[d].name /\ heap'[d].lib = heap[d].lib /\ heap'[d].id = heap[d].id
             /\ heap'[d].live => heap[d].live
             /\ d # own => heap'[d] = heap[d]
  <2> DEFINE s == [heap[d] EXCEPT !.live = FALSE]
  <2>1. heap[d] \in Cell
    BY <1>2
  <2>2. (heap'[d] = heap[d] \/ heap'[d] = s) /\ (d # own => heap'[d] = heap[d])
    BY <1>1
  <2>3. s \in Cell /\ s.live = FALSE /\ s.name = heap[d].name /\ s.lib = heap[d].lib /\ s.id = heap[d].id
    BY <2>1 DEF Cell
  <2> HIDE DEF s
  <2> QED BY <2>1, <2>2, <2>3
<1> HIDE DEF own
<1>7. DescriptorInv'
  <2>1. heap' \in [Cells -> Cell]
    BY <1>1, <1>6
  <2>2. \A d \in Cells : Entry(heap[d])'
    BY <1>2, <1>3, <1>6 DEF DescriptorInv, Entry
  <2>3. \A n \in Deployed' : heap'[services'[n]].live /\ heap'[services'[n]].name = n
    <3> SUFFICES ASSUME NEW n \in Names, services[n] # 0
                 PROVE  heap'[services[n]].live /\ heap'[services[n]].name = n
      BY <1>1 DEF Deployed
    <3>1. services[n] \in Cells /\ heap[services[n]].live /\ heap[services[n]].name = n
      BY DeployedLive
    <3>2. services[n] # own
      BY <1>4, <1>5, <3>1
    <3> QED BY <1>6, <3>1, <3>2
  <2>4. Distinct'
    BY <1>1, <1>2 DEF DescriptorInv, Distinct
  <2> QED BY <1>1, <1>2, <1>3, <2>1, <2>2, <2>3, <2>4 DEF DescriptorInv
<1>8. AdminInv'
  <2>1. IdleAdmin \in Admin' /\ IdleAdmin.pc = "idle" /\ IdleAdmin.cell = 0
    BY NoTextType DEF IdleAdmin, Admin
  <2>2. ASSUME NEW b \in Admins, admin'[b].cell # 0
        PROVE  /\ heap'[admin[b].cell].live /\ heap'[admin[b].cell].name # 0
               /\ \A m \in Names : services'[m] # admin[b].cell
    <3>1. b # a /\ admin[b].cell # 0
      BY <1>1, <1>2, <2>1, <2>2
    <3>2. /\ admin[b].cell \in Cells /\ heap[admin[b].cell].live /\ heap[admin[b].cell].name # 0
          /\ \A m \in Names : services[m] # admin[b].cell
      BY <1>2, <3>1 DEF AdminInv, Admin
    <3>3. admin[b].cell # own
      BY <1>5, <3>1
    <3> QED BY <1>1, <1>6, <3>2, <3>3
  <2> QED BY <1>1, <1>3, <2>1, <2>2, AdminStep
<1>9. RequestInv'
  <2>1. ASSUME NEW r \in Requests, req[r].pc # "idle"
        PROVE  /\ heap'[req[r].cell].lib = heap[req[r].cell].lib /\ heap'[req[r].cell].id = heap[req[r].cell].id
    BY <1>2, <1>6, <2>1 DEF RequestInv
  <2> QED BY <1>1, <1>3, <2>1, RequestsSame
<1> QED BY <1>7, <1>8, <1>9 DEF Inv

LEMMA DescriptorType ==
  ASSUME Inv
  PROVE  Descriptor \in Saved
<1>1. DescriptorInv
  BY DEF Inv
<1>2. \A h \in GoodHandler : h.lib \in LibNames
  BY DEF GoodHandler, Handler
<1>3. ASSUME NEW n \in Names, services[n] # 0
      PROVE  heap[services[n]].lib \in LibNames /\ heap[services[n]].flows \in GoodLists
  <2>1. services[n] \in Cells /\ heap[services[n]].live
    BY <1>3, DeployedLive
  <2>2. <<heap[services[n]].id, heap[services[n]].lib>> \in Good
    BY <1>1, <2>1 DEF DescriptorInv, Entry
  <2>3. heap[services[n]].flows \in GoodLists
    BY <1>1, <2>1 DEF DescriptorInv, Cell
  <2> QED BY <2>2, <2>3 DEF Good
<1>4. ASSUME NEW n \in Names
      PROVE  SavedChains(n) \in [Flows -> Seq(LibNames)]
  <2>1. \A f \in Flows : services[n] # 0 => LibsOf(heap[services[n]].flows[f]) \in Seq(LibNames)
    <3> SUFFICES ASSUME NEW f \in Flows, services[n] # 0 PROVE LibsOf(heap[services[n]].flows[f]) \in Seq(LibNames)
      OBVIOUS
    <3>1. heap[services[n]].flows[f] \in Seq(GoodHandler)
      BY <1>3 DEF GoodLists
    <3> QED BY <1>2, <3>1, LibsOfType
  <2> QED BY <2>1 DEF SavedChains
<1>5. ASSUME NEW p \in Places, NEW f \in Flows
      PROVE  LibsOf(lists[p][f]) \in Seq(LibNames)
  <2>1. lists[p][f] \in Seq(GoodHandler)
    BY <1>1 DEF DescriptorInv, GoodLists
  <2> QED BY <1>2, <2>1, LibsOfType
<1>6. [n \in Names |-> IF services[n] = 0 THEN None ELSE heap[services[n]].lib] \in [Names -> LibNames \cup {None}]
  BY <1>3
<1>7. [n \in Names |-> SavedChains(n)] \in [Names -> [Flows -> Seq(LibNames)]]
  BY <1>4
<1>8. [p \in Places |-> [f \in Flows |->
         IF p = "transport" /\ "request" \notin made THEN <<>> ELSE LibsOf(lists[p][f])]]
      \in [Places -> [Flows -> Seq(LibNames)]]
  BY <1>5
<1> QED BY <1>6, <1>7, <1>8 DEF Descriptor, Saved

\* A part of a text is overwritten by what the descriptor holds now.
LEMMA WithPartType ==
  ASSUME Inv, NEW text \in Saved, NEW p \in Parts
  PROVE  WithPart(text, p) \in Saved
<1>1. Descriptor \in Saved
  BY DescriptorType
<1> DEFINE dl == IF p = 0 THEN Descriptor.lists ELSE text.lists
           ds == [n \in Names |-> IF n = p THEN Descriptor.services[n] ELSE text.services[n]]
           dc == [n \in Names |-> IF n = p THEN Descriptor.chains[n] ELSE text.chains[n]]
<1> HIDE DEF Descriptor
<1>2. /\ dl \in [Places -> [Flows -> Seq(LibNames)]]
      /\ ds \in [Names -> LibNames \cup {None}]
      /\ dc \in [Names -> [Flows -> Seq(LibNames)]]
  BY <1>1 DEF Saved
<1>3. WithPart(text, p) = [[[text EXCEPT !.lists = dl] EXCEPT !.services = ds] EXCEPT !.chains = dc]
  BY DEF WithPart, Saved
<1> HIDE DEF dl, ds, dc
<1> QED BY <1>2, <1>3 DEF Saved

\* The steps of a save change the file and the update's record only.
LEMMA SavingStep ==
  ASSUME Inv, up = "up", UNCHANGED <<up, mode, descVars, poolVars, req, spoiled>>, file' \in Saved,
         NEW a \in Admins, NEW new \in Admin, new.pc # "parsing", new.cell \in {0, admin[a].cell},
         admin' = [admin EXCEPT ![a] = new]
  PROVE  Inv'
<1>1. DescriptorInv'
  BY DescriptorSame DEF Inv, DescriptorInv
<1>2. AdminInv /\ admin \in [Admins -> Admin] /\ UNCHANGED <<ids, services, heap>>
  BY DEF Inv, AdminInv, descVars
<1>3. Good' = Good /\ Admin' = Admin
  BY <1>2, SameNumbers DEF Admin
<1>5. \A b \in Admins : admin'[b].cell # 0 => admin'[b].cell = admin[b].cell
  BY <1>2
<1>6. \A b \in Admins : admin'[b].cell # 0 =>
        /\ heap'[admin[b].cell].live /\ heap'[admin[b].cell].name # 0
        /\ \A n \in Names : services'[n] # admin[b].cell
  BY <1>2, <1>5 DEF AdminInv
<1>7. AdminInv'
  BY <1>2, <1>3, <1>6, AdminStep
<1>8. RequestInv'
  BY <1>2, <1>3, RequestsSame DEF Inv, RequestInv
<1> QED BY <1>1, <1>7, <1>8 DEF Inv

LEMMA IdleAdminType == IdleAdmin \in Admin /\ IdleAdmin.pc = "idle" /\ IdleAdmin.cell = 0
BY NoTextType DEF IdleAdmin, Admin

LEMMA SaveKeepsInv ==
  ASSUME Inv, NEW a \in Admins, BeginSave(a) \/ SaveFails(a) \/ SavePart(a) \/ SaveRaces(a) \/ WriteSave(a)
  PROVE  Inv'
<1>1. file \in Saved /\ admin[a] \in Admin /\ admin \in [Admins -> Admin]
  BY DEF Inv, DescriptorInv, AdminInv
<1>2. CASE BeginSave(a)
  <2>1. [file EXCEPT !.torn = TRUE] \in Saved
    BY <1>1 DEF Saved
  <2> DEFINE sh == (Others(a) # {})
             new == [[[[[IdleAdmin EXCEPT !.pc = "saving"] EXCEPT !.type = admin[a].type]
                        EXCEPT !.alone = admin[a].alone] EXCEPT !.left = Parts] EXCEPT !.shared = sh]
  <2>2. sh \in BOOLEAN
    OBVIOUS
  <2>3. admin' = [admin EXCEPT ![a] = new]
    BY <1>2 DEF BeginSave, IdleAdmin
  <2> HIDE DEF sh
  <2>4. new \in Admin /\ new.pc = "saving" /\ new.cell = 0
    BY <1>1, <2>2, IdleAdminType DEF Admin
  <2> HIDE DEF new
  <2> QED BY <1>2, <2>1, <2>3, <2>4, SavingStep DEF BeginSave
<1>3. CASE SaveFails(a)
  BY <1>1, <1>3, IdleAdminType, SavingStep DEF SaveFails
<1>4. CASE SavePart(a)
  <2>1. PICK p \in NextParts(a) : admin' = [admin EXCEPT ![a].text = WithPart(@, p), ![a].left = @ \ {p}]
    BY <1>4 DEF SavePart
  <2>2. p \in Parts
    BY <1>1 DEF NextParts, Admin
  <2> DEFINE t == WithPart(admin[a].text, p)
             lf == admin[a].left \ {p}
             new == [[admin[a] EXCEPT !.text = t] EXCEPT !.left = lf]
  <2>3. t \in Saved /\ lf \in SUBSET Parts
    BY <1>1, <2>2, WithPartType DEF Admin
  <2> HIDE DEF t, lf
  <2>4. new \in Admin /\ new.pc = admin[a].pc /\ new.cell = admin[a].cell
    BY <1>1, <2>3 DEF Admin
  <2>5. admin' = [admin EXCEPT ![a] = new]
    BY <1>1, <2>1 DEF t, lf
  <2>6. admin[a].pc = "saving" /\ up = "up" /\ UNCHANGED <<up, mode, descVars, file, poolVars, req, spoiled>>
    BY <1>4 DEF SavePart, saveVars
  <2> HIDE DEF new
  <2> QED BY <1>1, <2>4, <2>5, <2>6, SavingStep
<1>5. CASE SaveRaces(a)
  BY <1>5, FallKeepsInv DEF SaveRaces
<1>6. CASE WriteSave(a)
  <2>1. PICK torn \in BOOLEAN : file' = [admin[a].text EXCEPT !.torn = torn]
    BY <1>6 DEF WriteSave
  <2>2. file' \in Saved
    BY <1>1, <2>1 DEF Saved, Admin
  <2> QED BY <1>6, <2>2, IdleAdminType, SavingStep DEF WriteSave
<1> QED BY <1>2, <1>3, <1>4, <1>5, <1>6

-----------------------------------------------------------------------------
(***************************************************************************)
(* Requests                                                                *)
(***************************************************************************)

\* The service a request found was once deployed, so its number is good.
LEMMA CellGood ==
  ASSUME Inv, NEW r \in Requests, req[r].pc # "idle"
  PROVE  /\ req[r].name \in Names /\ req[r].cell \in Cells /\ req[r].want \in LibNames
         /\ heap[req[r].cell] \in Cell
         /\ <<heap[req[r].cell].id, heap[req[r].cell].lib>> \in Good
         /\ ~req[r].stale => heap[req[r].cell].lib = req[r].want
<1>1. /\ req[r].name \in Names /\ req[r].cell \in Cells /\ req[r].want \in LibNames
      /\ ~req[r].stale => heap[req[r].cell].lib = req[r].want
  BY DEF Inv, RequestInv
<1>2. heap[req[r].cell] \in Cell /\ <<heap[req[r].cell].id, heap[req[r].cell].lib>> \in Good
  BY <1>1 DEF Inv, DescriptorInv, Entry
<1> QED BY <1>1, <1>2

\* The pools and the loader give a good library for a number.
LEMMA WaysGood ==
  ASSUME Inv, NEW h, h.id \in Nat, NEW w \in Ways(h)
  PROVE  w.lib \in Libs /\ <<h.id, w.lib>> \in Good
<1>1. /\ loaded \subseteq Good /\ (\A o \in idle : <<o.id, o.lib>> \in Good)
  BY DEF Inv, RequestInv
<1>2. CASE w \in {[lib |-> l, fresh |-> FALSE] : l \in {k \in Libs : [scope |-> h.scope, id |-> h.id, lib |-> k] \in idle}}
  <2>1. PICK l \in Libs : [scope |-> h.scope, id |-> h.id, lib |-> l] \in idle /\ w = [lib |-> l, fresh |-> FALSE]
    BY <1>2
  <2> QED BY <1>1, <2>1
<1>3. CASE w \in {[lib |-> l, fresh |-> TRUE] : l \in Creatable(h.id)}
  <2>1. PICK l \in Creatable(h.id) : w.lib = l
    BY <1>3
  <2>2. l \in Libs /\ (<<h.id, l>> \in loaded \/ (h.id # 0 /\ ids[l] = h.id))
    BY <2>1 DEF Creatable, Known, LibNamed, LibNames
  <2> QED BY <1>1, <2>1, <2>2 DEF Good, LibNames
<1> QED BY <1>2, <1>3 DEF Ways

\* A request's own step leaves the descriptor and the updates alone.
LEMMA RequestStep ==
  ASSUME Inv, UNCHANGED <<up, mode, descVars, saveVars, admin>>,
         spoiled \subseteq spoiled', spoiled' \subseteq Nat,
         loaded' \subseteq Good', idle' \subseteq [scope : Scopes, id : Nat, lib : Libs],
         \A o \in idle' : <<o.id, o.lib>> \in Good',
         up = "up", NEW r \in Requests, NEW new \in Req, req' = [req EXCEPT ![r] = new],
         new.pc # "idle" =>
           /\ new.name \in Names /\ new.cell \in Cells /\ new.want \in LibNames
           /\ ~new.stale => services[new.name] = new.cell /\ heap[new.cell].lib = new.want,
         \A o \in new.objs :
           /\ <<o.id, o.lib>> \in Good'
           /\ new.stale \/ <<o.id, o.want>> \in Good'
           /\ o.own = "service" /\ ~new.stale => o.id = heap[new.cell].id,
         new.pc = "idle" => new.objs = {}
  PROVE  Inv'
<1>1. /\ UNCHANGED <<up, mode, ids, services, heap, lists, made, file, admin>>
      /\ ids \in [LibNames -> Nat]
  BY DEF descVars, saveVars, Inv, DescriptorInv
<1>2. Good \subseteq Good'
  BY <1>1 DEF Good
<1>3. GoodHandler \subseteq GoodHandler' /\ GoodLists \subseteq GoodLists' /\ Cell \subseteq Cell'
  BY <1>2, GoodStays
<1>4. DescriptorInv /\ AdminInv /\ RequestInv
  BY DEF Inv
<1>5. DescriptorInv'
  <2>1. heap' \in [Cells -> Cell'] /\ lists' \in [Places -> GoodLists']
    BY <1>1, <1>3, <1>4 DEF DescriptorInv
  <2>2. \A d \in Cells : Entry(heap[d])'
    BY <1>1, <1>2, <1>4 DEF DescriptorInv, Entry
  <2>3. Distinct'
    BY <1>1, <1>4 DEF DescriptorInv, Distinct
  <2>4. \A n \in Deployed' : heap'[services'[n]].live /\ heap'[services'[n]].name = n
    BY <1>1, DeployedLive DEF Deployed
  <2> QED BY <1>1, <1>4, <2>1, <2>2, <2>3, <2>4 DEF DescriptorInv
<1>6. AdminInv'
  <2>1. Admin \subseteq Admin'
    BY <1>3 DEF Admin
  <2>2. admin' \in [Admins -> Admin']
    BY <1>1, <1>4, <2>1 DEF AdminInv
  <2> QED BY <1>1, <1>4, <2>2 DEF AdminInv
<1>7. RequestInv'
  <2>1. /\ req' \in [Requests -> Req] /\ req'[r] = new /\ \A q \in Requests : q # r => req'[q] = req[q]
    BY <1>4 DEF RequestInv
  <2>2. \A q \in Requests : req'[q].pc # "idle" =>
          /\ req'[q].name \in Names /\ req'[q].cell \in Cells /\ req'[q].want \in LibNames
          /\ ~req'[q].stale => services'[req'[q].name] = req'[q].cell /\ heap'[req'[q].cell].lib = req'[q].want
    BY <1>1, <1>4, <2>1 DEF RequestInv
  <2>3. \A q \in Requests : \A o \in req'[q].objs :
          /\ <<o.id, o.lib>> \in Good'
          /\ req'[q].stale \/ <<o.id, o.want>> \in Good'
          /\ o.own = "service" /\ ~req'[q].stale => o.id = heap'[req'[q].cell].id
    BY <1>1, <1>2, <1>4, <2>1 DEF RequestInv
  <2>4. \A q \in Requests : req'[q].pc = "idle" => req'[q].objs = {}
    BY <1>4, <2>1 DEF RequestInv
  <2> QED BY <1>1, <2>1, <2>2, <2>3, <2>4 DEF RequestInv, Req
<1> QED BY <1>5, <1>6, <1>7 DEF Inv

LEMMA FindServiceKeepsInv ==
  ASSUME Inv, NEW r \in Requests, NEW n \in Names, FindService(r, n)
  PROVE  Inv'
<1> DEFINE new == [IdleRequest EXCEPT !.pc = "found", !.name = n, !.cell = services[n], !.want = heap[services[n]].lib]
<1>1. /\ up = "up" /\ services[n] # 0 /\ req' = [req EXCEPT ![r] = new]
      /\ UNCHANGED <<up, mode, descVars, saveVars, admin, poolVars, spoiled>>
  BY DEF FindService
<1>2. services[n] \in Cells /\ heap[services[n]].live
  BY <1>1, DeployedLive
<1>4. heap[services[n]].lib \in LibNames
  BY <1>2 DEF Inv, DescriptorInv, Cell
<1>5. /\ new \in Req /\ new.pc = "found" /\ new.name = n /\ new.cell = services[n]
      /\ new.want = heap[services[n]].lib /\ new.objs = {}
  <2> DEFINE l == heap[services[n]].lib
             c == services[n]
  <2>1. IdleRequest \in Req /\ IdleRequest.objs = {}
    BY DEF IdleRequest, Req, LibNames
  <2>2. c \in Cells /\ l \in LibNames
    BY <1>2, <1>4
  <2> HIDE DEF c, l
  <2>3. new \in Req /\ new.pc = "found" /\ new.name = n /\ new.cell = c /\ new.want = l /\ new.objs = {}
    BY <2>1, <2>2 DEF Req, c, l
  <2> QED BY <2>3 DEF c, l
<1>6. Good' = Good
  BY <1>1, SameNumbers DEF descVars
<1>7. /\ loaded' \subseteq Good' /\ idle' \subseteq [scope : Scopes, id : Nat, lib : Libs]
      /\ \A o \in idle' : <<o.id, o.lib>> \in Good'
      /\ spoiled \subseteq spoiled' /\ spoiled' \subseteq Nat
  BY <1>1, <1>6 DEF poolVars, Inv, RequestInv, DescriptorInv
<1> HIDE DEF new
<1> QED BY <1>1, <1>2, <1>4, <1>5, <1>7, RequestStep

LEMMA TakeServiceKeepsInv ==
  ASSUME Inv, NEW r \in Requests, TakeService(r)
  PROVE  Inv'
<1> DEFINE s == heap[req[r].cell]
<1>1. PICK w \in Ways(s) :
        /\ req' = [req EXCEPT ![r].pc = "chains", ![r].objs = {Object(s, w, req[r].want, "service")}]
        /\ loaded' = loaded \cup (IF w.fresh THEN {<<s.id, w.lib>>} ELSE {})
  BY DEF TakeService
<1>2. /\ up = "up" /\ req[r].pc = "found"
      /\ UNCHANGED <<up, mode, descVars, saveVars, admin, idle, spoiled>>
  BY DEF TakeService
<1>3. /\ req[r].name \in Names /\ req[r].cell \in Cells /\ req[r].want \in LibNames
      /\ s \in Cell /\ <<s.id, s.lib>> \in Good
      /\ ~req[r].stale => services[req[r].name] = req[r].cell /\ s.lib = req[r].want
      /\ req \in [Requests -> Req]
  BY <1>2, CellGood DEF Inv, RequestInv
<1>4. s.id \in Nat
  BY <1>3 DEF Good
<1>5. w.lib \in Libs /\ <<s.id, w.lib>> \in Good
  BY <1>4, WaysGood
<1>6. Good' = Good
  BY <1>2, SameNumbers DEF descVars
<1>7. /\ loaded' \subseteq Good' /\ idle' \subseteq [scope : Scopes, id : Nat, lib : Libs]
      /\ \A o \in idle' : <<o.id, o.lib>> \in Good'
      /\ spoiled \subseteq spoiled' /\ spoiled' \subseteq Nat
  BY <1>1, <1>2, <1>5, <1>6 DEF Inv, RequestInv, DescriptorInv
<1> DEFINE o == Object(s, w, req[r].want, "service")
           new == [[req[r] EXCEPT !.pc = "chains"] EXCEPT !.objs = {o}]
<1>8. req' = [req EXCEPT ![r] = new]
  BY <1>1, <1>3
<1>9. s.scope \in Scopes
  BY <1>3 DEF Cell
<1>10. o \in Objects /\ o.id = s.id /\ o.lib = w.lib /\ o.want = req[r].want
  BY <1>3, <1>4, <1>5, <1>9 DEF Object, Objects
<1> HIDE DEF o
<1>11. /\ new \in Req /\ new.pc = "chains" /\ new.name = req[r].name /\ new.cell = req[r].cell
       /\ new.want = req[r].want /\ new.stale = req[r].stale /\ new.objs = {o}
  BY <1>3, <1>10 DEF Req
<1> HIDE DEF new
<1>12. \A x \in new.objs :
         /\ <<x.id, x.lib>> \in Good'
         /\ new.stale \/ <<x.id, x.want>> \in Good'
         /\ x.own = "service" /\ ~new.stale => x.id = heap[new.cell].id
  BY <1>3, <1>5, <1>6, <1>10, <1>11
<1> QED BY <1>2, <1>3, <1>7, <1>8, <1>11, <1>12, RequestStep

LEMMA ListForType ==
  ASSUME Inv, NEW r \in Requests, req[r].pc = "chains", req[r].next \in DOMAIN Chains
  PROVE  ListFor(r) \in Seq(GoodHandler) /\ Own(r) \in {"chain", "shared"}
<1> DEFINE p == Chains[req[r].next][1]
           f == Chains[req[r].next][2]
<1>1. req[r].next \in 1 .. 6
  BY DEF Chains
<1>2. p \in Places \cup {"service"} /\ f \in Flows
  BY <1>1 DEF Chains, Places, Flows
<1>3. heap[req[r].cell] \in Cell /\ lists \in [Places -> GoodLists]
  BY CellGood DEF Inv, DescriptorInv
<1>4. ListFor(r) = IF p = "service" THEN heap[req[r].cell].flows[f] ELSE lists[p][f]
  BY DEF ListFor
<1> HIDE DEF p, f
<1>5. heap[req[r].cell].flows[f] \in Seq(GoodHandler)
  BY <1>2, <1>3 DEF Cell, GoodLists
<1>6. p # "service" => lists[p][f] \in Seq(GoodHandler)
  <2> SUFFICES ASSUME p # "service" PROVE lists[p][f] \in Seq(GoodHandler)
    OBVIOUS
  <2>1. lists[p] \in GoodLists
    BY <1>2, <1>3
  <2> QED BY <1>2, <2>1 DEF GoodLists
<1> QED BY <1>4, <1>5, <1>6 DEF Own

LEMMA TakeChainKeepsInv ==
  ASSUME Inv, NEW r \in Requests, TakeChain(r)
  PROVE  Inv'
<1> DEFINE list == ListFor(r)
<1>1. PICK w \in [DOMAIN list -> [lib : Libs, fresh : BOOLEAN]] :
        /\ \A i \in DOMAIN list : w[i] \in Ways(list[i])
        /\ req' = [req EXCEPT ![r].next = @ + 1,
             ![r].objs = @ \cup {Object(list[i], w[i], list[i].lib, Own(r)) : i \in DOMAIN list}]
        /\ loaded' = loaded \cup {<<list[i].id, w[i].lib>> : i \in {j \in DOMAIN list : w[j].fresh}}
  BY DEF TakeChain
<1>2. /\ up = "up" /\ req[r].pc = "chains" /\ req[r].next \in DOMAIN Chains
      /\ UNCHANGED <<up, mode, descVars, saveVars, admin, idle, spoiled>>
  BY DEF TakeChain
<1>3. /\ req \in [Requests -> Req] /\ RequestInv
  BY DEF Inv, RequestInv
<1>4. list \in Seq(GoodHandler) /\ Own(r) \in {"chain", "shared"}
  BY <1>2, ListForType
<1> HIDE DEF list
<1>5. ASSUME NEW i \in DOMAIN list
      PROVE  /\ list[i] \in GoodHandler /\ list[i].id \in Nat /\ list[i].lib \in LibNames
             /\ list[i].scope \in Scopes /\ <<list[i].id, list[i].lib>> \in Good
             /\ w[i].lib \in Libs /\ <<list[i].id, w[i].lib>> \in Good
  <2>1. list[i] \in GoodHandler
    BY <1>4
  <2>2. list[i].id \in Nat /\ list[i].lib \in LibNames /\ list[i].scope \in Scopes
        /\ <<list[i].id, list[i].lib>> \in Good
    BY <2>1 DEF GoodHandler, Entry, Handler
  <2>3. w[i] \in Ways(list[i])
    BY <1>1
  <2> QED BY <2>1, <2>2, <2>3, WaysGood
<1>6. Good' = Good
  BY <1>2, SameNumbers DEF descVars
<1>7. /\ loaded' \subseteq Good' /\ idle' \subseteq [scope : Scopes, id : Nat, lib : Libs]
      /\ \A o \in idle' : <<o.id, o.lib>> \in Good'
      /\ spoiled \subseteq spoiled' /\ spoiled' \subseteq Nat
  <2>1. /\ loaded \subseteq Good /\ idle \subseteq [scope : Scopes, id : Nat, lib : Libs]
        /\ \A o \in idle : <<o.id, o.lib>> \in Good
    BY <1>3 DEF RequestInv
  <2>2. spoiled \subseteq Nat
    BY DEF Inv, DescriptorInv
  <2>3. {<<list[i].id, w[i].lib>> : i \in {j \in DOMAIN list : w[j].fresh}} \subseteq Good
    BY <1>5
  <2>4. loaded' \subseteq Good'
    BY <1>1, <1>6, <2>1, <2>3
  <2> QED BY <1>2, <1>6, <2>1, <2>2, <2>4
<1> DEFINE more == {Object(list[i], w[i], list[i].lib, Own(r)) : i \in DOMAIN list}
           n == req[r].next + 1
           objs == req[r].objs \cup more
           new == [[req[r] EXCEPT !.next = n] EXCEPT !.objs = objs]
<1>8. req' = [req EXCEPT ![r] = new]
  BY <1>1, <1>3
<1>9. ASSUME NEW o \in more
      PROVE  o \in Objects /\ <<o.id, o.lib>> \in Good /\ <<o.id, o.want>> \in Good /\ o.own # "service"
  <2>1. PICK i \in DOMAIN list : o = Object(list[i], w[i], list[i].lib, Own(r))
    BY <1>9
  <2>2. o = [scope |-> list[i].scope, id |-> list[i].id, lib |-> w[i].lib, want |-> list[i].lib, own |-> Own(r)]
    BY <2>1 DEF Object
  <2>3. o \in Objects
    BY <1>4, <1>5, <2>2 DEF Objects
  <2> QED BY <1>4, <1>5, <2>2, <2>3
<1>10. n \in 1 .. 7
  BY <1>2 DEF Chains
<1> HIDE DEF more, n
<1>11. req[r] \in Req /\ objs \in SUBSET Objects
  BY <1>3, <1>9 DEF Req
<1>12. \A o \in objs :
         /\ <<o.id, o.lib>> \in Good'
         /\ req[r].stale \/ <<o.id, o.want>> \in Good'
         /\ o.own = "service" /\ ~req[r].stale => o.id = heap[req[r].cell].id
  BY <1>3, <1>6, <1>9 DEF RequestInv
<1> HIDE DEF objs
<1>13. /\ new \in Req /\ new.pc = "chains" /\ new.name = req[r].name /\ new.cell = req[r].cell
       /\ new.want = req[r].want /\ new.stale = req[r].stale /\ new.objs = objs
  BY <1>2, <1>10, <1>11 DEF Req
<1> HIDE DEF new
<1>14. /\ req[r].name \in Names /\ req[r].cell \in Cells /\ req[r].want \in LibNames
       /\ ~req[r].stale => services[req[r].name] = req[r].cell /\ heap[req[r].cell].lib = req[r].want
  BY <1>2, <1>3 DEF RequestInv
<1> QED BY <1>2, <1>7, <1>8, <1>12, <1>13, <1>14, RequestStep

LEMMA ReleaseKeepsInv ==
  ASSUME Inv, NEW r \in Requests, Release(r)
  PROVE  Inv'
<1> DEFINE s == heap[req[r].cell]
           under(o) == IF o.own = "service" THEN [scope |-> s.scope, id |-> s.id, lib |-> o.lib]
                                            ELSE [scope |-> o.scope, id |-> o.id, lib |-> o.lib]
<1>1. /\ up = "up" /\ req[r].pc = "chains"
      /\ idle' = idle \cup {under(o) : o \in {p \in req[r].objs : p.own # "shared"}}
      /\ spoiled' = spoiled \cup (IF req[r].stale THEN {s.id} ELSE {})
      /\ req' = [req EXCEPT ![r] = IdleRequest]
      /\ UNCHANGED <<up, mode, descVars, saveVars, admin, loaded>>
  BY DEF Release
<1>2. s \in Cell /\ <<s.id, s.lib>> \in Good
  BY <1>1, CellGood
<1>3. s.id \in Nat /\ s.scope \in Scopes
  BY <1>2 DEF Good, Cell
<1>4. RequestInv /\ ids' = ids /\ spoiled \subseteq Nat /\ req[r] \in Req
  BY <1>1 DEF Inv, RequestInv, descVars, DescriptorInv
<1>5. spoiled \subseteq spoiled' /\ spoiled' \subseteq Nat
  BY <1>1, <1>3, <1>4
<1>6. Good \subseteq Good'
  BY <1>4, <1>5 DEF Good
<1>7. ASSUME NEW o \in req[r].objs
      PROVE  /\ under(o) \in [scope : Scopes, id : Nat, lib : Libs]
             /\ <<under(o).id, under(o).lib>> \in Good'
  <2>1. o \in Objects /\ <<o.id, o.lib>> \in Good
    BY <1>4 DEF Req, RequestInv
  <2>2. o.scope \in Scopes /\ o.id \in Nat /\ o.lib \in Libs
    BY <2>1 DEF Objects
  <2>3. CASE o.own # "service"
    <3>1. under(o) = [scope |-> o.scope, id |-> o.id, lib |-> o.lib]
      BY <2>3
    <3> QED BY <1>6, <2>1, <2>2, <3>1
  <2>4. CASE o.own = "service"
    <3>1. under(o) = [scope |-> s.scope, id |-> s.id, lib |-> o.lib]
      BY <2>4
    <3>2. <<s.id, o.lib>> \in Good'
      <4>1. CASE req[r].stale
        BY <1>1, <1>3, <2>2, <4>1 DEF Good, LibNames
      <4>2. CASE ~req[r].stale
        <5>1. o.id = s.id
          BY <1>4, <2>4, <4>2 DEF RequestInv
        <5> QED BY <1>6, <2>1, <5>1
      <4> QED BY <4>1, <4>2
    <3> QED BY <1>3, <2>2, <3>1, <3>2
  <2> QED BY <2>3, <2>4
<1> HIDE DEF under
<1>8. /\ idle' \subseteq [scope : Scopes, id : Nat, lib : Libs]
      /\ \A o \in idle' : <<o.id, o.lib>> \in Good'
  <2>1. idle \subseteq [scope : Scopes, id : Nat, lib : Libs] /\ \A o \in idle : <<o.id, o.lib>> \in Good
    BY <1>4 DEF RequestInv
  <2>2. \A x \in idle' : x \in idle \/ \E o \in req[r].objs : x = under(o)
    BY <1>1
  <2> QED BY <1>6, <1>7, <2>1, <2>2
<1>9. loaded' \subseteq Good'
  BY <1>1, <1>4, <1>6 DEF RequestInv
<1>10. IdleRequest \in Req /\ IdleRequest.pc = "idle" /\ IdleRequest.objs = {}
  BY DEF IdleRequest, Req, LibNames
<1> HIDE DEF s
<1> QED BY <1>1, <1>5, <1>8, <1>9, <1>10, RequestStep

LEMMA RequestFailsKeepsInv ==
  ASSUME Inv, NEW r \in Requests, RequestFails(r)
  PROVE  Inv'
<1>1. /\ up = "up" /\ req[r].pc \in {"found", "chains"}
      /\ UNCHANGED <<up, mode, descVars, saveVars, admin, poolVars, spoiled>>
  BY DEF RequestFails
<1>2. req \in [Requests -> Req] /\ RequestInv
  BY DEF Inv, RequestInv
<1> DEFINE new == [req[r] EXCEPT !.next = 7]
<1>3. req' = [req EXCEPT ![r] = IdleRequest] \/ req' = [req EXCEPT ![r] = new]
  <2>1. Len(Chains) + 1 = 7
    BY DEF Chains
  <2> QED BY <2>1 DEF RequestFails
<1>4. Good' = Good
  BY <1>1, SameNumbers DEF descVars
<1>5. /\ loaded' \subseteq Good' /\ idle' \subseteq [scope : Scopes, id : Nat, lib : Libs]
      /\ \A o \in idle' : <<o.id, o.lib>> \in Good'
      /\ spoiled \subseteq spoiled' /\ spoiled' \subseteq Nat
  BY <1>1, <1>2, <1>4 DEF poolVars, Inv, RequestInv, DescriptorInv
<1>6. IdleRequest \in Req /\ IdleRequest.pc = "idle" /\ IdleRequest.objs = {}
  BY DEF IdleRequest, Req, LibNames
<1>7. /\ new \in Req /\ new.pc = req[r].pc /\ new.name = req[r].name /\ new.cell = req[r].cell
      /\ new.want = req[r].want /\ new.objs = req[r].objs /\ new.stale = req[r].stale
  BY <1>2 DEF Req
<1> HIDE DEF new
<1>8. /\ req[r].name \in Names /\ req[r].cell \in Cells /\ req[r].want \in LibNames
      /\ ~req[r].stale => services[req[r].name] = req[r].cell /\ heap[req[r].cell].lib = req[r].want
      /\ \A o \in req[r].objs :
           /\ <<o.id, o.lib>> \in Good
           /\ req[r].stale \/ <<o.id, o.want>> \in Good
           /\ o.own = "service" /\ ~req[r].stale => o.id = heap[req[r].cell].id
  BY <1>1, <1>2 DEF RequestInv
<1>9. CASE req' = [req EXCEPT ![r] = IdleRequest]
  BY <1>1, <1>5, <1>6, <1>9, RequestStep
<1>10. CASE req' = [req EXCEPT ![r] = new]
  BY <1>1, <1>4, <1>5, <1>7, <1>8, <1>10, RequestStep
<1> QED BY <1>3, <1>9, <1>10

-----------------------------------------------------------------------------
(***************************************************************************)
(* The theorems                                                            *)
(***************************************************************************)
LEMMA NextInv == Inv /\ [Next]_vars => Inv'
<1> SUFFICES ASSUME Inv, [Next]_vars PROVE Inv'
  OBVIOUS
<1>1. CASE UNCHANGED vars
  <2>1. UNCHANGED <<up, mode, ids, services, heap, lists, made, file, admin, loaded, idle, req, spoiled>>
    BY <1>1 DEF vars, descVars, saveVars, poolVars
  <2>2. Good' = Good /\ GoodHandler' = GoodHandler /\ GoodLists' = GoodLists /\ Cell' = Cell
    BY <2>1, SameNumbers
  <2>3. DescriptorInv'
    BY <2>1, DescriptorSame DEF descVars, Inv, DescriptorInv
  <2>4. AdminInv'
    BY <2>1, AdminsSame
  <2>5. RequestInv'
    BY <2>1, <2>2, RequestsSame DEF poolVars, Inv, RequestInv
  <2> QED BY <2>3, <2>4, <2>5 DEF Inv
<1>2. ASSUME NEW a \in Admins, Administration(a) PROVE Inv'
  BY <1>2, UpdateKeepsInv, StartServiceKeepsInv, StartHandlerKeepsInv, EndServiceHandlerKeepsInv,
     AddHandlerKeepsInv, RemoveHandlerKeepsInv, DropHandlerKeepsInv, AddServiceKeepsInv,
     RemoveServiceKeepsInv, ParseFailsKeepsInv, SaveKeepsInv DEF Administration
<1>3. ASSUME NEW r \in Requests, Request(r) PROVE Inv'
  BY <1>3, FindServiceKeepsInv, TakeServiceKeepsInv, TakeChainKeepsInv, ReleaseKeepsInv, RequestFailsKeepsInv, FallKeepsInv
     DEF Request, NullName, UseFreed
<1>4. CASE Kill
  BY <1>4, FallKeepsInv DEF Kill
<1>5. CASE Restart
  BY <1>5, RestartKeepsInv
<1> QED BY <1>1, <1>2, <1>3, <1>4, <1>5 DEF Next

\* Two libraries share a number only if it is spoiled, so that an object of a
\* good number is of the library its entry names.
LEMMA InvOwnLibrary == Inv => OwnLibraryUnless
<1> SUFFICES ASSUME Inv, NEW r \in Requests, NEW o \in req[r].objs, ~req[r].stale, o.id \notin spoiled
             PROVE  o.lib = o.want
  BY DEF OwnLibraryUnless
<1>1. <<o.id, o.lib>> \in Good /\ <<o.id, o.want>> \in Good
  BY DEF Inv, RequestInv
<1>2. o.lib \in Libs /\ o.want \in LibNames /\ o.lib \in LibNames
  BY DEF Inv, RequestInv, Req, Objects, LibNames
<1>3. o.lib # 0
  BY <1>2, DeploymentAssumption
<1>4. ids[o.lib] = o.id /\ o.id # 0 /\ ids[o.want] = o.id
  BY <1>1, <1>2, <1>3 DEF Good
<1> QED BY <1>2, <1>4 DEF Inv, DescriptorInv, Distinct

\* A number that is not spoiled is the number of no other library.
LEMMA InvNamed == Inv => NamedUnless
<1> SUFFICES ASSUME Inv PROVE NamedUnless
  OBVIOUS
<1>1. ASSUME NEW h, Entry(h), h.id \in Nat PROVE Named(h)
  <2> SUFFICES ASSUME h.id # 0, h.id \notin spoiled \ {0} PROVE LibNamed(h.id) = {h.lib}
    BY <1>1 DEF Entry, Named
  <2>1. h.lib \in LibNames /\ ids[h.lib] = h.id
    BY <1>1 DEF Entry, Good
  <2>2. \A k \in LibNames : ids[k] = h.id => k = h.lib
    <3>1. Distinct
      BY DEF Inv, DescriptorInv
    <3> QED BY <2>1, <3>1 DEF Distinct
  <2>3. h.lib <= h.lib
    <3>1. LibNames \subseteq Nat
      BY DeploymentAssumption DEF LibNames
    <3>2. h.lib \in Nat
      BY <2>1, <3>1
    <3> QED BY <3>2
  <2>4. h.lib \in LibNamed(h.id)
    BY <2>1, <2>2, <2>3 DEF LibNamed
  <2>5. \A l \in LibNamed(h.id) : l = h.lib
    BY <2>2 DEF LibNamed
  <2> QED BY <2>4, <2>5
<1>2. \A h \in GoodHandler : Named(h)
  BY <1>1 DEF GoodHandler, Handler
<1>3. ASSUME NEW list \in Seq(GoodHandler) PROVE \A i \in DOMAIN list : Named(list[i])
  BY <1>2
<1>4. ASSUME NEW n \in Deployed
      PROVE  /\ Named(heap[services[n]])
             /\ \A f \in Flows : \A i \in DOMAIN heap[services[n]].flows[f] : Named(heap[services[n]].flows[f][i])
  <2>1. services[n] \in Cells /\ heap[services[n]].live
    BY DeployedLive DEF Deployed
  <2>2. /\ Entry(heap[services[n]]) /\ heap[services[n]].id \in Nat
        /\ heap[services[n]].flows \in GoodLists
    BY <2>1 DEF Inv, DescriptorInv, Cell
  <2>3. \A f \in Flows : heap[services[n]].flows[f] \in Seq(GoodHandler)
    BY <2>2 DEF GoodLists
  <2> QED BY <1>1, <1>3, <2>2, <2>3
<1>5. \A p \in Places, f \in Flows : lists[p][f] \in Seq(GoodHandler)
  BY DEF Inv, DescriptorInv, GoodLists
<1>6. \A p \in Places, f \in Flows : \A i \in DOMAIN lists[p][f] : Named(lists[p][f][i])
  BY <1>3, <1>5
<1> QED BY <1>4, <1>6 DEF NamedUnless

\* A request gets objects of the libraries its entries name, unless the
\* number was spoiled or its service freed (HandlerPool::getHandler).
THEOREM LibrariesAreOwn == Spec => []OwnLibraryUnless
<1>1. Spec => []Inv
  BY InitInv, NextInv, PTL DEF Spec
<1> QED BY <1>1, InvOwnLibrary, PTL

\* getLibName answers for every deployed entry with the name its element
\* gave, unless the number was spoiled; an element without a library is
\* deployed under 0 (WSDDDeployment::getLibName, WSDDDocument).
THEOREM LibrariesAreNamed == Spec => []NamedUnless
<1>1. Spec => []Inv
  BY InitInv, NextInv, PTL DEF Spec
<1> QED BY <1>1, InvNamed, PTL

\* Only an undeployment removes a service from a running server, unless two
\* updates overlap (WSDDDocument::endElement).
THEOREM OnlyUndeploymentRemoves == Spec => RemovedOnlyByUndeployment
<1> DEFINE Removal == \A n \in Deployed : up' = "up" /\ up = "up" /\ services'[n] = 0 =>
             \E a \in Admins : admin'[a] # admin[a] /\ (admin[a].type = "undeploy" \/ ~admin[a].alone)
<1>1. Inv /\ [Next]_vars => [Removal]_vars
  <2> SUFFICES ASSUME Inv, Next, NEW n \in Names, services[n] # 0, up' = "up", up = "up", services'[n] = 0
               PROVE  \E a \in Admins : admin'[a] # admin[a] /\ (admin[a].type = "undeploy" \/ ~admin[a].alone)
    BY DEF Deployed
  <2>1. services' # services
    OBVIOUS
  <2>2. PICK a \in Admins : AddService(a) \/ RemoveService(a)
    <3>1. ~Fall /\ ~Restart /\ ~Kill
      BY DEF Fall, descVars, Restart, Kill
    <3>2. ASSUME NEW r \in Requests PROVE ~Request(r)
      BY <2>1, <3>1 DEF Request, FindService, TakeService, TakeChain, Release, NullName, RequestFails, UseFreed, descVars
    <3> QED BY <2>1, <3>1, <3>2 DEF Next, Administration, Update, StartService, StartHandler, EndServiceHandler, FreedNode,
              AddHandler, RemoveHandler, DropHandler, ParseFails, BeginSave, SaveFails, SavePart, SaveRaces, WriteSave, descVars
  <2>3. ~AddService(a)
    <3> SUFFICES ASSUME AddService(a) PROVE FALSE
      OBVIOUS
    <3>1. admin[a].cell # 0
      BY DEF AddService, Parsing
    <3>2. services' = services \/ services' = [services EXCEPT ![Service(a)] = admin[a].cell]
      BY DEF AddService
    <3>3. services \in [Names -> Cells \cup {0}]
      BY DEF Inv, DescriptorInv
    <3> QED BY <3>1, <3>2, <3>3
  <2>4. RemoveService(a)
    BY <2>2, <2>3
  <2>5. /\ mode = "undeploy" /\ admin[a] \in Admin /\ admin[a].pc = "parsing"
        /\ Tail(admin[a].todo) # admin[a].todo
        /\ EndElement(a)
    BY <2>4, ParsingType DEF RemoveService
  <2>6. admin'[a] # admin[a]
    <3>1. admin'[a].todo = Tail(admin[a].todo)
      BY <2>5 DEF EndElement, Admin, Inv, AdminInv
    <3> QED BY <2>5, <3>1
  <2>7. admin[a].alone => admin[a].type = "undeploy"
    BY <2>5 DEF Inv, AdminInv
  <2> QED BY <2>6, <2>7
<1>2. Spec => []Inv
  BY InitInv, NextInv, PTL DEF Spec
<1>3. Spec => [][Removal]_vars
  BY <1>1, <1>2, PTL DEF Spec
<1> QED BY <1>3 DEF RemovedOnlyByUndeployment

\* A flow without a map has no transport handlers.
MadeInv == \A f \in Flows \ made : lists["transport"][f] = <<>>

LEMMA LoadedMade ==
  ASSUME NEW d \in Saved, NEW number, NEW f \in Flows, f \notin MadeOf(d)
  PROVE  ListsOf(d, number)["transport"][f] = <<>>
<1>1. d.lists["transport"][f] = <<>>
  BY DEF MadeOf
<1>2. ListsOf(d, number)["transport"][f] = HandlersOf(d.lists["transport"][f], number)
  BY DEF ListsOf, Places
<1>3. HandlersOf(<<>>, number) = <<>>
  BY DEF HandlersOf
<1> QED BY <1>1, <1>2, <1>3

LEMMA NextMade == Inv /\ MadeInv /\ [Next]_vars => MadeInv'
<1> SUFFICES ASSUME Inv, MadeInv, [Next]_vars, NEW f \in Flows \ made' PROVE lists'["transport"][f] = <<>>
  BY DEF MadeInv
<1>1. CASE UNCHANGED <<lists, made>>
  BY <1>1 DEF MadeInv
<1>2. ASSUME NEW a \in Admins, AddHandler(a) \/ RemoveHandler(a) PROVE lists'["transport"][f] = <<>>
  <2> DEFINE e == Head(admin[a].todo)
             l == admin[a].handler.lib
  <2>1. lists \in [Places -> GoodLists] /\ "transport" \in Places
    BY DEF Inv, DescriptorInv, Places
  <2>2. lists["transport"][f] = <<>> /\ f \notin made
    BY <1>2 DEF MadeInv, AddHandler, RemoveHandler, FreedNode, Fall, descVars
  <2>3. CASE Fall
    BY <2>2, <2>3 DEF Fall, descVars
  <2>4. CASE AddHandler(a)
    <3>1. e.place = "transport" => e.flow # f
      BY <2>4 DEF AddHandler
    <3>2. lists' = [lists EXCEPT ![e.place][e.flow] = Append(@, admin[a].handler)]
      BY <2>4 DEF AddHandler
    <3> HIDE DEF e
    <3> QED BY <2>1, <2>2, <3>1, <3>2 DEF GoodLists
  <2>5. CASE RemoveHandler(a) /\ ~Fall
    <3>1. lists' = [lists EXCEPT ![e.place][e.flow] = Remove(@, l)]
      BY <2>5 DEF RemoveHandler, FreedNode
    <3>2. Remove(<<>>, l) = <<>>
      BY DEF Remove
    <3> HIDE DEF e, l
    <3> QED BY <2>1, <2>2, <3>1, <3>2 DEF GoodLists
  <2> QED BY <1>2, <2>3, <2>4, <2>5
<1>3. CASE Restart
  <2>1. CASE file.torn
    BY <1>1, <1>3, <2>1 DEF Restart, descVars
  <2>2. CASE ~file.torn
    <3>1. lists' = ListsOf(file, ids') /\ made' = MadeOf(file) /\ file \in Saved
      BY <1>3, <2>2 DEF Restart, Inv, DescriptorInv
    <3> QED BY <3>1, LoadedMade
  <2> QED BY <2>1, <2>2
<1>4. \/ UNCHANGED <<lists, made>> \/ Restart
      \/ \E a \in Admins : AddHandler(a) \/ RemoveHandler(a)
  <2>1. CASE UNCHANGED vars
    BY <2>1 DEF vars, descVars
  <2>2. Fall => UNCHANGED <<lists, made>>
    BY DEF Fall, descVars
  <2>3. ASSUME NEW r \in Requests, Request(r) PROVE UNCHANGED <<lists, made>>
    BY <2>2, <2>3 DEF Request, FindService, TakeService, TakeChain, Release, NullName, RequestFails, UseFreed, descVars
  <2>4. CASE Kill
    BY <2>2, <2>4 DEF Kill
  <2>5. ASSUME NEW a \in Admins, Administration(a) PROVE UNCHANGED <<lists, made>> \/ AddHandler(a) \/ RemoveHandler(a)
    BY <2>2, <2>5 DEF Administration, Update, StartService, StartHandler, EndServiceHandler, FreedNode, DropHandler, AddService,
         RemoveService, ParseFails, BeginSave, SaveFails, SavePart, SaveRaces, WriteSave, descVars
  <2> QED BY <2>1, <2>3, <2>4, <2>5 DEF Next
<1> QED BY <1>1, <1>2, <1>3, <1>4

LEMMA InvTypeOK == Inv /\ MadeInv => TypeOK
<1> SUFFICES ASSUME Inv, MadeInv PROVE TypeOK
  OBVIOUS
<1>1. GoodHandler \subseteq Handler
  BY DEF GoodHandler
<1>2. Seq(GoodHandler) \subseteq Seq(Handler)
  BY <1>1, SeqMonotone
<1>3. GoodLists \subseteq HandlerLists
  BY <1>2 DEF GoodLists, HandlerLists
<1>4. ASSUME NEW c \in Cells, heap[c].live
      PROVE  heap[c].lib \in LibNames /\ heap[c].id \in Nat /\ heap[c].flows \in HandlerLists
  <2>1. heap[c] \in Cell
    BY DEF Inv, DescriptorInv
  <2> QED BY <1>3, <2>1 DEF Cell
<1>5. lists \in [Places -> HandlerLists]
  BY <1>3 DEF Inv, DescriptorInv
<1>6. \A r \in Requests : req[r].objs \subseteq Objects
  BY DEF Inv, RequestInv, Req
<1>7. \A n \in Deployed : heap[services[n]].live /\ heap[services[n]].name = n
  BY DEF Inv, DescriptorInv
<1>8. file \in Saved /\ \A a \in Admins : admin[a].text \in Saved
  BY DEF Inv, DescriptorInv, AdminInv, Admin
<1> QED BY <1>4, <1>5, <1>6, <1>7, <1>8 DEF TypeOK, Inv, DescriptorInv, MadeInv

\* The map of deployed services, the service objects and the numbers fit
\* together (WSDDDeployment::addService, removeService).
THEOREM DeploymentTypeOK == Spec => []TypeOK
<1>1. Init => MadeInv
  <2> SUFFICES ASSUME Init PROVE MadeInv
    OBVIOUS
  <2>1. file \in Saved
    BY DeploymentAssumption DEF Init
  <2> QED BY <2>1, LoadedMade DEF Init, MadeInv
<1>2. Spec => [](Inv /\ MadeInv)
  BY <1>1, InitInv, NextInv, NextMade, PTL DEF Spec
<1> QED BY <1>2, InvTypeOK, PTL

-----------------------------------------------------------------------------
(***************************************************************************)
(* Saving and restarting                                                   *)
(***************************************************************************)

\* The file holds what a restart has to bring back of the descriptor in use.
Matches(d) ==
  /\ ~d.torn
  /\ \A n \in Names : (d.services[n] # None) = (services[n] # 0)
  /\ \A n \in Deployed :
       /\ d.services[n] = heap[services[n]].lib
       /\ \A f \in Flows : d.chains[n][f] = LibsOf(heap[services[n]].flows[f])
  /\ \A p \in Places, f \in Flows :
       d.lists[p][f] = LibsOf(lists[p][f]) \/ (p = "transport" /\ "request" \notin made)

\* While an update runs the file may hold anything; the end of the last one
\* leaves a match or sets unsaved, whichever order their saves came in.
SavedInv ==
  ~unsaved /\ (\A a \in Admins : ~Busy(a)) => Matches(file)

\* Numbers are given to libraries and taken off again without a loss.
LEMMA LibsOfHandlers ==
  ASSUME NEW s \in Seq(LibNames), NEW number
  PROVE  LibsOf(HandlersOf(s, number)) = s
<1>1. /\ DOMAIN HandlersOf(s, number) = DOMAIN s
      /\ \A i \in DOMAIN s : HandlersOf(s, number)[i].lib = s[i]
  BY DEF HandlersOf
<1>2. LibsOf(HandlersOf(s, number)) = [i \in DOMAIN s |-> s[i]]
  BY <1>1 DEF LibsOf
<1> QED BY <1>2

\* The parts of d are those of the descriptor in use.
Holds(d, parts) ==
  /\ ~d.torn
  /\ 0 \in parts => d.lists = Descriptor.lists
  /\ \A n \in Names \cap parts : d.services[n] = Descriptor.services[n] /\ d.chains[n] = Descriptor.chains[n]

\* What a save has read is still so, while no other update has been running.
SavingInv ==
  \A a \in Admins : admin[a].pc = "saving" /\ ~admin[a].shared =>
    Others(a) = {} /\ Holds(admin[a].text, Parts \ admin[a].left)

\* A save that read all parts has all of it.
LEMMA DescriptorMatches ==
  ASSUME Inv, NEW d, Holds(d, Parts)
  PROVE  Matches(d)
<1>1. /\ ~d.torn
      /\ d.lists = Descriptor.lists
      /\ \A n \in Names : d.services[n] = Descriptor.services[n] /\ d.chains[n] = Descriptor.chains[n]
  BY DEF Holds, Parts
<1>2. /\ \A n \in Names : d.services[n] = IF services[n] = 0 THEN None ELSE heap[services[n]].lib
      /\ \A n \in Names : d.chains[n] = SavedChains(n)
      /\ d.lists = [p \in Places |-> [f \in Flows |->
            IF p = "transport" /\ "request" \notin made THEN <<>> ELSE LibsOf(lists[p][f])]]
  BY <1>1 DEF Descriptor
<1>3. ASSUME NEW n \in Names, services[n] # 0
      PROVE  heap[services[n]].lib # None
  <2>1. services[n] \in Cells
    BY <1>3, DeployedLive
  <2>2. heap[services[n]].lib \in LibNames
    BY <2>1 DEF Inv, DescriptorInv, Cell
  <2> QED BY <2>2, DeploymentAssumption DEF LibNames, None
<1>4. ASSUME NEW n \in Names PROVE (d.services[n] # None) = (services[n] # 0)
  <2>1. CASE services[n] = 0
    BY <1>2, <2>1
  <2>2. CASE services[n] # 0
    BY <1>2, <1>3, <2>2
  <2> QED BY <2>1, <2>2
<1>5. ASSUME NEW n \in Deployed
      PROVE  /\ d.services[n] = heap[services[n]].lib
             /\ \A f \in Flows : d.chains[n][f] = LibsOf(heap[services[n]].flows[f])
  <2>1. n \in Names /\ services[n] # 0
    BY DEF Deployed
  <2>2. d.services[n] = heap[services[n]].lib /\ d.chains[n] = SavedChains(n)
    BY <1>2, <2>1
  <2>3. \A f \in Flows : SavedChains(n)[f] = LibsOf(heap[services[n]].flows[f])
    BY <2>1 DEF SavedChains
  <2> QED BY <2>2, <2>3
<1>6. \A p \in Places, f \in Flows :
        d.lists[p][f] = LibsOf(lists[p][f]) \/ (p = "transport" /\ "request" \notin made)
  BY <1>2
<1> QED BY <1>1, <1>4, <1>5, <1>6 DEF Matches

\* loadWSDD reads all of it.
LEMMA LoadedMatches ==
  ASSUME NEW d \in Saved, NEW number
  PROVE  /\ \A n \in Names : (ServicesOf(d)[n] # 0) = (d.services[n] # None)
         /\ \A n \in Names : ServicesOf(d)[n] # 0 =>
              LET s == HeapOf(d, number)[ServicesOf(d)[n]] IN
                s.lib = d.services[n] /\ \A f \in Flows : LibsOf(s.flows[f]) = d.chains[n][f]
         /\ \A p \in Places, f \in Flows : LibsOf(ListsOf(d, number)[p][f]) = d.lists[p][f]
<1>1. Names \subseteq Cells /\ 0 \notin Cells
  BY DeploymentAssumption
<1>2. /\ \A n \in Names, f \in Flows : d.chains[n][f] \in Seq(LibNames)
      /\ \A p \in Places, f \in Flows : d.lists[p][f] \in Seq(LibNames)
  BY DEF Saved
<1>3. \A n \in Names : ServicesOf(d)[n] = IF d.services[n] = None THEN 0 ELSE n
  BY DEF ServicesOf
<1>4. ASSUME NEW n \in Names, ServicesOf(d)[n] # 0
      PROVE  LET s == HeapOf(d, number)[ServicesOf(d)[n]] IN
               s.lib = d.services[n] /\ \A f \in Flows : LibsOf(s.flows[f]) = d.chains[n][f]
  <2>1. ServicesOf(d)[n] = n /\ d.services[n] # None /\ n \in Cells
    BY <1>1, <1>3, <1>4
  <2>2. HeapOf(d, number)[n] =
          [live |-> TRUE, name |-> n, lib |-> d.services[n], id |-> number[d.services[n]],
           scope |-> "request", flows |-> [f \in Flows |-> HandlersOf(d.chains[n][f], number)]]
    BY <2>1 DEF HeapOf
  <2>3. ASSUME NEW f \in Flows
        PROVE  LibsOf(HeapOf(d, number)[n].flows[f]) = d.chains[n][f]
    <3>1. HeapOf(d, number)[n].flows[f] = HandlersOf(d.chains[n][f], number)
      BY <2>2
    <3> QED BY <1>2, <3>1, LibsOfHandlers
  <2>4. HeapOf(d, number)[n].lib = d.services[n]
    BY <2>2
  <2> QED BY <2>1, <2>3, <2>4
<1>5. ASSUME NEW p \in Places, NEW f \in Flows
      PROVE  LibsOf(ListsOf(d, number)[p][f]) = d.lists[p][f]
  <2>1. ListsOf(d, number)[p][f] = HandlersOf(d.lists[p][f], number)
    BY DEF ListsOf
  <2> QED BY <1>2, <2>1, LibsOfHandlers
<1> QED BY <1>1, <1>3, <1>4, <1>5

\* What a restart from a whole file leads to.
LEMMA RestartMatches ==
  ASSUME Inv, Restart, ~file.torn
  PROVE  /\ up' = "up" /\ file' = file
         /\ \A n \in Names : (services'[n] # 0) = (file.services[n] # None)
         /\ \A n \in Names : services'[n] # 0 =>
              /\ heap'[services'[n]].lib = file.services[n]
              /\ \A f \in Flows : LibsOf(heap'[services'[n]].flows[f]) = file.chains[n][f]
         /\ \A p \in Places, f \in Flows : LibsOf(lists'[p][f]) = file.lists[p][f]
<1>1. /\ up' = "up" /\ file' = file
      /\ services' = ServicesOf(file) /\ heap' = HeapOf(file, ids') /\ lists' = ListsOf(file, ids')
  BY DEF Restart
<1>2. file \in Saved
  BY DEF Inv, DescriptorInv
<1> QED BY <1>1, <1>2, LoadedMatches

LEMMA InitSaved == Init => SavingInv /\ SavedInv
<1>0. Init => SavingInv
  BY DEF Init, SavingInv, IdleAdmin
<1> SUFFICES ASSUME Init PROVE Matches(file)
  BY <1>0 DEF SavedInv
<1>1. file \in Saved /\ ~file.torn
  BY DeploymentAssumption DEF Init
<1>2. services = ServicesOf(file) /\ heap = HeapOf(file, ids) /\ lists = ListsOf(file, ids)
  BY DEF Init
<1>3. \A n \in Names : (file.services[n] # None) = (services[n] # 0)
  BY <1>1, <1>2, LoadedMatches
<1>4. ASSUME NEW n \in Deployed
      PROVE  /\ file.services[n] = heap[services[n]].lib
             /\ \A f \in Flows : file.chains[n][f] = LibsOf(heap[services[n]].flows[f])
  <2>1. n \in Names /\ ServicesOf(file)[n] # 0
    BY <1>2 DEF Deployed
  <2> QED BY <1>1, <1>2, <2>1, LoadedMatches
<1>5. \A p \in Places, f \in Flows : file.lists[p][f] = LibsOf(lists[p][f])
  BY <1>1, <1>2, LoadedMatches
<1> QED BY <1>1, <1>3, <1>4, <1>5 DEF Matches

\* The steps by which an update starts or goes on parsing.
LEMMA StaysParsing ==
  ASSUME Inv, NEW a \in Admins
  PROVE  /\ (\E d \in Documents : Update(a, d)) \/ StartService(a) \/ StartHandler(a)
            \/ EndServiceHandler(a) \/ AddHandler(a) \/ RemoveHandler(a) \/ DropHandler(a)
            \/ AddService(a) \/ RemoveService(a) => Fall \/ admin'[a].pc = "parsing"
         /\ ParseFails(a) \/ SaveFails(a) \/ WriteSave(a) => admin'[a].pc = "idle"
         /\ SaveRaces(a) => Fall
<1>1. admin \in [Admins -> Admin]
  BY DEF Inv, AdminInv
<1>2. ASSUME NEW d \in Documents, Update(a, d) PROVE admin'[a].pc = "parsing"
  <2>1. PICK last \in LastNumbers :
          admin'[a] = [IdleAdmin EXCEPT !.pc = "parsing", !.type = d.type, !.todo = d.events,
                                        !.last = last, !.alone = (Others(a) = {})]
    BY <1>2 DEF Update
  <2> QED BY <2>1 DEF IdleAdmin
<1>3. ASSUME NEW c, NEW l, admin[a].pc = "parsing", admin' = [admin EXCEPT ![a] = [Parsed(a, l) EXCEPT !.cell = c]]
      PROVE  admin'[a].pc = "parsing"
  BY <1>1, <1>3 DEF Parsed, Admin
<1>4. ASSUME NEW h, NEW l, admin[a].pc = "parsing", admin' = [admin EXCEPT ![a] = [Parsed(a, l) EXCEPT !.handler = h]]
      PROVE  admin'[a].pc = "parsing"
  BY <1>1, <1>4 DEF Parsed, Admin
<1>5. ASSUME admin[a].pc = "parsing", EndHandlerElement(a) \/ EndElement(a)
      PROVE  admin'[a].pc = "parsing"
  BY <1>1, <1>5 DEF EndHandlerElement, EndElement, Admin
<1>6. ASSUME StartService(a) PROVE admin'[a].pc = "parsing"
  <2> DEFINE l == Head(admin[a].todo).lib
  <2>1. admin[a].pc = "parsing" /\ \E c \in Cells : admin' = [admin EXCEPT ![a] = [Parsed(a, l) EXCEPT !.cell = c]]
    BY <1>6 DEF StartService, Parsing
  <2> HIDE DEF l
  <2> QED BY <2>1, <1>3
<1>7. ASSUME StartHandler(a) PROVE admin'[a].pc = "parsing"
  <2> DEFINE e == Head(admin[a].todo)
             h == [lib |-> NameOf(e.lib), id |-> NumberOf(a, e.lib), scope |-> e.scope]
  <2>1. admin[a].pc = "parsing" /\ admin' = [admin EXCEPT ![a] = [Parsed(a, e.lib) EXCEPT !.handler = h]]
    BY <1>7 DEF StartHandler, Parsing
  <2> HIDE DEF e, h
  <2> QED BY <2>1, <1>4
<1>8. ASSUME EndServiceHandler(a) \/ AddHandler(a) \/ RemoveHandler(a) \/ DropHandler(a)
      PROVE  Fall \/ admin'[a].pc = "parsing"
  BY <1>5, <1>8 DEF EndServiceHandler, AddHandler, RemoveHandler, DropHandler, FreedNode, Parsing
<1>9. ASSUME AddService(a) \/ RemoveService(a) PROVE admin'[a].pc = "parsing"
  BY <1>5, <1>9 DEF AddService, RemoveService, Parsing
<1>10. ASSUME ParseFails(a) \/ SaveFails(a) \/ WriteSave(a) PROVE admin'[a].pc = "idle"
  BY <1>1, <1>10 DEF ParseFails, SaveFails, WriteSave, IdleAdmin
<1>11. SaveRaces(a) => Fall
  BY DEF SaveRaces
<1> QED BY <1>2, <1>6, <1>7, <1>8, <1>9, <1>10, <1>11

\* The steps of an update after which nobody may be busy.
LEMMA UpdateEnds ==
  ASSUME Inv, NEW a \in Admins, Administration(a), ~Busy(a)'
  PROVE  Fall \/ unsaved' = TRUE \/ WriteSave(a)
<1>1. admin'[a].pc = "idle"
  BY DEF Busy
<1>2. ~BeginSave(a) /\ ~SavePart(a)
  <2>1. admin \in [Admins -> Admin]
    BY DEF Inv, AdminInv
  <2>2. BeginSave(a) => admin'[a].pc = "saving"
    BY <2>1 DEF BeginSave, IdleAdmin
  <2>3. SavePart(a) => admin'[a].pc = admin[a].pc /\ admin[a].pc = "saving"
    BY <2>1 DEF SavePart, Admin
  <2> QED BY <1>1, <2>2, <2>3
<1>3. ParseFails(a) \/ SaveFails(a) => unsaved' = TRUE
  BY DEF ParseFails, SaveFails
<1> QED BY <1>1, <1>2, <1>3, StaysParsing DEF Administration

\* One update's step leaves the records of the others, and may mark them.
LEMMA OthersStay ==
  ASSUME Inv, NEW b \in Admins, Administration(b), NEW a \in Admins \ {b}
  PROVE  \/ Fall
         \/ admin'[a].pc = admin[a].pc /\ (admin[a].shared => admin'[a].shared)
<1>1. admin \in [Admins -> Admin]
  BY DEF Inv, AdminInv
<1>2. ASSUME NEW d \in Documents, Update(b, d)
      PROVE  admin'[a].pc = admin[a].pc /\ (admin[a].shared => admin'[a].shared)
  <2>1. admin'[a] = [admin[a] EXCEPT !.alone = @ /\ ~Busy(a), !.shared = @ \/ admin[a].pc = "saving"]
    BY <1>2 DEF Update
  <2> QED BY <1>1, <2>1 DEF Admin
<1>3. CASE \A d \in Documents : ~Update(b, d)
  <2>1. Fall \/ \E rec : admin' = [admin EXCEPT ![b] = rec]
    BY <1>3 DEF Administration, StartService, StartHandler, EndServiceHandler, FreedNode, AddHandler, RemoveHandler,
         DropHandler, AddService, RemoveService, ParseFails, BeginSave, SaveFails, SavePart, SaveRaces, WriteSave,
         EndHandlerElement, EndElement
  <2> QED BY <1>1, <2>1
<1> QED BY <1>2, <1>3

\* While one update is busy, the others can only start.
LEMMA OthersStart ==
  ASSUME Inv, NEW a \in Admins, Others(a) = {}, NEW b \in Admins \ {a}, Administration(b)
  PROVE  Fall \/ \E d \in Documents : Update(b, d)
<1>1. admin[b].pc \notin {"parsing", "saving"}
  BY DEF Others, Busy
<1> QED BY <1>1 DEF Administration, StartService, StartHandler, EndServiceHandler, AddHandler, RemoveHandler,
      DropHandler, AddService, RemoveService, ParseFails, BeginSave, SaveFails, SavePart, SaveRaces, WriteSave, Parsing

\* A save that begins has read nothing, and then one part after the other.
LEMMA SaveHolds ==
  ASSUME Inv, SavingInv, NEW a \in Admins, BeginSave(a) \/ SavePart(a), ~admin'[a].shared
  PROVE  Others(a)' = {} /\ Holds(admin[a].text, Parts \ admin[a].left)'
<1>1. admin \in [Admins -> Admin] /\ UNCHANGED descVars
  BY DEF Inv, AdminInv, BeginSave, SavePart
<1>2. Descriptor' = Descriptor
  BY <1>1 DEF Descriptor, SavedChains, descVars
<1>3. \A b \in Admins \ {a} : admin'[b] = admin[b]
  BY <1>1 DEF BeginSave, SavePart
<1>4. Others(a)' = Others(a)
  BY <1>3 DEF Others, Busy
<1>5. CASE BeginSave(a)
  <2>1. /\ admin'[a].text = NoText /\ admin'[a].left = Parts /\ admin'[a].shared = (Others(a) # {})
    BY <1>1, <1>5 DEF BeginSave, IdleAdmin
  <2>2. Parts \ admin'[a].left = {} /\ NoText.torn = FALSE
    BY <2>1 DEF NoText
  <2> QED BY <1>4, <2>1, <2>2 DEF Holds
<1>6. CASE SavePart(a)
  <2>1. PICK p \in NextParts(a) : admin' = [admin EXCEPT ![a].text = WithPart(@, p), ![a].left = @ \ {p}]
    BY <1>6 DEF SavePart
  <2>2. /\ admin'[a].text = WithPart(admin[a].text, p) /\ admin'[a].left = admin[a].left \ {p}
        /\ admin'[a].shared = admin[a].shared
    BY <1>1, <2>1 DEF Admin
  <2>3. Others(a) = {} /\ Holds(admin[a].text, Parts \ admin[a].left) /\ admin[a].text \in Saved
    BY <1>1, <1>6, <2>2 DEF SavePart, SavingInv, Admin
  <2> DEFINE old == admin[a].text
             new == WithPart(old, p)
  <2> HIDE DEF Descriptor
  <2>4. /\ new.torn = old.torn
        /\ new.lists = IF p = 0 THEN Descriptor.lists ELSE old.lists
        /\ new.services = [n \in Names |-> IF n = p THEN Descriptor.services[n] ELSE old.services[n]]
        /\ new.chains = [n \in Names |-> IF n = p THEN Descriptor.chains[n] ELSE old.chains[n]]
    BY <2>3 DEF WithPart, Saved
  <2>5. Holds(new, Parts \ (admin[a].left \ {p}))
    BY <2>3, <2>4 DEF Holds
  <2> QED BY <1>2, <1>4, <2>2, <2>3, <2>5 DEF Holds
<1> QED BY <1>5, <1>6

LEMMA NextSaving == Inv /\ SavingInv /\ [Next]_vars => SavingInv'
<1> SUFFICES ASSUME Inv, SavingInv, [Next]_vars, NEW a \in Admins, admin'[a].pc = "saving", ~admin'[a].shared
             PROVE  Others(a)' = {} /\ Holds(admin[a].text, Parts \ admin[a].left)'
  BY DEF SavingInv
<1>1. CASE UNCHANGED <<descVars, admin>>
  <2>1. Descriptor' = Descriptor /\ Others(a)' = Others(a)
    BY <1>1 DEF Descriptor, SavedChains, Others, Busy, descVars
  <2> QED BY <1>1, <2>1 DEF SavingInv, Holds
<1>2. ~Fall
  BY DEF Fall, IdleAdmin
<1>3. ASSUME NEW b \in Admins \ {a}, Administration(b) PROVE FALSE
  <2>1. admin[a].pc = "saving" /\ ~admin[a].shared
    BY <1>2, <1>3, OthersStay
  <2>2. PICK d \in Documents : Update(b, d)
    BY <1>2, <1>3, <2>1, OthersStart DEF SavingInv
  <2>3. admin'[a] = [admin[a] EXCEPT !.alone = @ /\ ~Busy(a), !.shared = @ \/ admin[a].pc = "saving"]
    BY <1>3, <2>2 DEF Update
  <2>4. admin[a] \in Admin
    BY DEF Inv, AdminInv
  <2>5. admin'[a].shared = (admin[a].shared \/ admin[a].pc = "saving")
    BY <2>3, <2>4 DEF Admin
  <2> QED BY <2>1, <2>5
<1>4. CASE Administration(a)
  <2>1. BeginSave(a) \/ SavePart(a)
    BY <1>2, <1>4, StaysParsing DEF Administration
  <2> QED BY <2>1, SaveHolds
<1>5. ASSUME NEW r \in Requests, Request(r) PROVE UNCHANGED <<descVars, admin>>
  BY <1>2, <1>5 DEF Request, FindService, TakeService, TakeChain, Release, NullName, RequestFails, UseFreed
<1>6. ~Restart
  BY DEF Restart, Inv, AdminInv, IdleAdmin
<1>7. CASE UNCHANGED vars
  BY <1>1, <1>7 DEF vars
<1> QED BY <1>1, <1>2, <1>3, <1>4, <1>5, <1>6, <1>7 DEF Next, Kill

LEMMA NextSaved == Inv /\ SavingInv /\ SavedInv /\ [Next]_vars => SavedInv'
<1> SUFFICES ASSUME Inv, SavingInv, SavedInv, [Next]_vars, ~unsaved', \A a \in Admins : ~Busy(a)'
             PROVE  Matches(file)'
  BY DEF SavedInv
<1>1. CASE UNCHANGED <<descVars, file>> /\ ~unsaved /\ \A a \in Admins : ~Busy(a)
  BY <1>1 DEF SavedInv, Matches, descVars, Deployed
<1>2. CASE Fall
  BY <1>1, <1>2 DEF Fall
<1>3. CASE UNCHANGED <<descVars, saveVars, admin>>
  BY <1>1, <1>3 DEF saveVars, Busy
<1>4. ASSUME NEW a \in Admins, Administration(a) PROVE Matches(file)'
  <2>1. CASE WriteSave(a)
    <3>1. admin[a].pc = "saving" /\ admin[a].left = {} /\ UNCHANGED descVars /\ admin[a].text \in Saved
      BY <2>1 DEF WriteSave, Inv, AdminInv, Admin
    <3>2. PICK torn \in BOOLEAN : file' = [admin[a].text EXCEPT !.torn = torn]
      BY <2>1 DEF WriteSave
    <3>3. ~torn /\ ~admin[a].shared
      BY <2>1, <3>1, <3>2 DEF WriteSave, Saved
    <3>4. Holds(admin[a].text, Parts)
      BY <3>1, <3>3 DEF SavingInv
    <3>5. /\ file'.torn = FALSE /\ file'.services = admin[a].text.services
          /\ file'.chains = admin[a].text.chains /\ file'.lists = admin[a].text.lists
      BY <3>1, <3>2, <3>3 DEF Saved
    <3>6. Holds(file', Parts)
      BY <3>4, <3>5 DEF Holds
    <3>7. Matches(file')
      BY <3>6, DescriptorMatches
    <3> QED BY <3>1, <3>7 DEF Matches, descVars, Deployed
  <2> QED BY <2>1, <1>2, <1>4, UpdateEnds
<1>5. ASSUME NEW r \in Requests, Request(r) PROVE Matches(file)'
  BY <1>2, <1>3, <1>5 DEF Request, FindService, TakeService, TakeChain, Release, NullName, RequestFails, UseFreed
<1>6. CASE Restart
  <2>1. CASE file.torn
    BY <1>3, <1>6, <2>1 DEF Restart
  <2>2. CASE ~file.torn
    <3>1. Deployed' = {n \in Names : services'[n] # 0}
      BY DEF Deployed
    <3> QED BY <1>6, <2>2, <3>1, RestartMatches DEF Matches
  <2> QED BY <2>1, <2>2
<1>7. CASE UNCHANGED vars
  BY <1>3, <1>7 DEF vars
<1> QED BY <1>2, <1>4, <1>5, <1>6, <1>7 DEF Next, Kill

\* A restart brings back the services, their libraries and the handlers of all
\* chains (saveWSDD, loadWSDD), unless an update was cut short or another was
\* under way during the last save; response handlers of a transport without
\* request handlers apart.
THEOREM DescriptorIsSaved == Spec => SurvivesRestart
<1> DEFINE Survives == up = "down" /\ up' # "down" /\ ~unsaved =>
             /\ up' = "up"
             /\ \A n \in Names : (services'[n] # 0) = (services[n] # 0)
             /\ \A n \in Deployed : LET s == heap[services[n]]  t == heap'[services'[n]] IN
                  t.lib = s.lib /\ \A f \in Flows : LibsOf(t.flows[f]) = LibsOf(s.flows[f])
             /\ \A p \in Places, f \in Flows :
                  LibsOf(lists'[p][f]) = LibsOf(lists[p][f]) \/ (p = "transport" /\ "request" \notin made)
<1>1. Inv /\ SavedInv /\ [Next]_vars => [Survives]_vars
  <2> SUFFICES ASSUME Inv, SavedInv, Next, up = "down", up' # "down", ~unsaved PROVE Survives
    OBVIOUS
  <2>1. Restart
    <3>1. ~Kill /\ ~Fall
      BY DEF Kill, Fall
    <3>2. \A r \in Requests : ~Request(r)
      BY DEF Request, FindService, TakeService, TakeChain, Release, NullName, RequestFails, UseFreed
    <3>3. \A a \in Admins : up = "up" \/ ~Administration(a)
      BY DEF Administration, Update, StartService, StartHandler, EndServiceHandler, AddHandler, RemoveHandler,
             DropHandler, AddService, RemoveService, ParseFails, BeginSave, SaveFails, SavePart, SaveRaces, WriteSave, Parsing
    <3> QED BY <3>1, <3>2, <3>3 DEF Next
  <2>2. Matches(file)
    <3>1. \A a \in Admins : ~Busy(a)
      BY DEF Inv, AdminInv, Busy, IdleAdmin
    <3> QED BY <3>1 DEF SavedInv
  <2>3. ~file.torn /\ \A n \in Deployed : n \in Names /\ services[n] # 0
    BY <2>2 DEF Matches, Deployed
  <2> QED BY <2>1, <2>2, <2>3, RestartMatches DEF Matches
<1>2. Spec => [](Inv /\ SavingInv /\ SavedInv)
  BY InitInv, InitSaved, NextInv, NextSaving, NextSaved, PTL DEF Spec
<1>3. Spec => [][Survives]_vars
  BY <1>1, <1>2, PTL DEF Spec
<1> QED BY <1>3 DEF SurvivesRestart
=============================================================================
