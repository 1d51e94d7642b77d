--------------------------- MODULE WSDDDeployment ---------------------------
(***************************************************************************)
(* The deployment descriptor of the server while it is in use (wsdd/,      *)
(* called from engine/).  The administration service parses a document     *)
(* into the WSDDDeployment that requests read at the same time: no mutex   *)
(* guards it.  Libraries are known by numbers, given while a document is   *)
(* parsed; the handler loader and the pools remember the numbers, so they  *)
(* have to keep their meaning while the process lives.  A document that    *)
(* was parsed is followed by a save of the whole descriptor, which a       *)
(* restart reads back.                                                     *)
(*                                                                         *)
(* One step is one call of the parser's handlers (startElement,            *)
(* endElement), one part of a save, or one call of a request to the pools. *)
(* Library names are numbers here, in the order of m_pLibNameIdMap; 0 is   *)
(* the empty name, which an element has that names no library.             *)
(***************************************************************************)
EXTENDS Integers, Sequences, FiniteSets

CONSTANTS
  Names,        \* services
  Libs,         \* libraries of services and handlers
  Cells,        \* addresses of WSDDService objects
  Documents,    \* what administrators may send
  FirstFile,    \* what an earlier run saved, see Saved
  Admins,       \* updates that can run at the same time
  Requests,     \* requests that can run at the same time
  MaxUpdates, MaxRequests, MaxRestarts      \* bounds

Flows == {"request", "response"}
Scopes == {"application", "session", "request"}
Places == {"global", "transport"}   \* handler lists outside the services
LibNames == Libs \cup {0}
None == -1                          \* no attribute, or no service

\* What the parser reports of a document: the start of a service with its
\* parameters, of a handler with its own, and their ends.  The library is a
\* parameter or an attribute that a document may leave out.
Event ==
  [kind : {"service", "handler", "endHandler", "endService"},
   name : Names, lib : LibNames \cup {None}, scope : Scopes,
   place : Places \cup {"service", "outside"}, flow : Flows]
Document == [type : {"deploy", "undeploy"}, events : Seq(Event)]

\* What a saved descriptor holds: the libraries of the services and of the
\* handlers, but no scope.
Saved ==
  [torn : BOOLEAN, services : [Names -> LibNames \cup {None}],
   chains : [Names -> [Flows -> Seq(LibNames)]], lists : [Places -> [Flows -> Seq(LibNames)]]]

ASSUME DeploymentAssumption ==
  /\ Libs \subseteq Nat \ {0} /\ Names \subseteq Cells /\ Cells \subseteq Nat \ {0}
  /\ Names # {} /\ Libs # {}
  /\ Documents \subseteq Document
  /\ FirstFile \in Saved /\ ~FirstFile.torn

VARIABLES
  up,         \* "up", "down" or, when the saved file cannot be read, "failed"
  mode,       \* m_DeplType
  ids,        \* m_pLibNameIdMap: a library's number, 0 when it has none
  services,   \* m_DeployedServices: a service's address, 0 when not deployed
  heap,       \* the WSDDService objects; a freed one keeps its contents
  lists,      \* global and transport handlers
  made,       \* the flows whose map of transport handlers exists
  file,       \* the saved descriptor
  admin,      \* updateWSDD, per administrator
  loaded,     \* HandlerLoader::m_HandlerInfoList, as <<number, library>>
  idle,       \* objects that may be idle in the pools
  req,        \* ServerAxisEngine::process, per request
  updates, requests, restarts,   \* numbers of each, for the bounds
  \* history
  spoiled,    \* numbers forgotten by an undeployment, given while another
              \* update ran, or pooled under by a request with a freed service
  unsaved     \* the deployment may have changes that are not in the file: an
              \* update was cut short, or ran while the file was written

descVars == <<ids, services, heap, lists, made>>
saveVars == <<file, unsaved>>
poolVars == <<loaded, idle>>
bounds == <<updates, requests, restarts>>
vars == <<up, mode, descVars, saveVars, admin, poolVars, req, bounds, spoiled>>

NoHandler == [lib |-> None, id |-> 0, scope |-> "request"]
NoLists == [f \in Flows |-> <<>>]
NoText == [torn |-> FALSE, services |-> [n \in Names |-> None],
           chains |-> [n \in Names |-> NoLists], lists |-> [p \in Places |-> NoLists]]
Parts == Names \cup {0}    \* of a descriptor: 0, the lists, and then the services
IdleAdmin == [pc |-> "idle", type |-> "deploy", todo |-> <<>>, last |-> 0, cell |-> 0,
              handler |-> NoHandler, alone |-> TRUE,
              text |-> NoText, left |-> {}, shared |-> FALSE]
IdleRequest == [pc |-> "idle", name |-> 0, cell |-> 0, want |-> 0, next |-> 1, objs |-> {}, stale |-> FALSE]

Deployed == {n \in Names : services[n] # 0}
Busy(a) == admin[a].pc # "idle"
Others(a) == {b \in Admins \ {a} : Busy(b)}

LibsOf(list) == [i \in DOMAIN list |-> list[i].lib]
\* The list without its first handler of the library.
Remove(list, l) ==
  LET Upto(n) == \E i \in 1 .. n : list[i].lib = l
  IN IF ~Upto(Len(list)) THEN list
     ELSE [i \in 1 .. Len(list) - 1 |-> IF Upto(i) THEN list[i + 1] ELSE list[i]]

\* The state of a process that has just read the descriptor d, whose
\* libraries get numbers from 1 on.  Addresses do not matter then.
In(l, list) == \E i \in DOMAIN list : list[i] = l
Mentioned(d) ==
  {l \in LibNames :
     \/ \E n \in Names : d.services[n] = l \/ \E f \in Flows : In(l, d.chains[n][f])
     \/ \E p \in Places, f \in Flows : In(l, d.lists[p][f])}
Numberings(d) ==
  LET named == Mentioned(d) IN
  {number \in [LibNames -> 0 .. Cardinality(LibNames)] :
     /\ \A l \in LibNames : IF l \in named THEN number[l] \in 1 .. Cardinality(named) ELSE number[l] = 0
     /\ \A k, l \in named : k # l => number[k] # number[l]}
HandlersOf(libs, number) ==
  [i \in DOMAIN libs |-> [lib |-> libs[i], id |-> number[libs[i]], scope |-> "request"]]
ServicesOf(d) == [n \in Names |-> IF d.services[n] = None THEN 0 ELSE n]
FreeCell == [live |-> FALSE, name |-> 0, lib |-> 0, id |-> 0, scope |-> "request", flows |-> NoLists]
HeapOf(d, number) ==
  [c \in Cells |->
     IF c \notin Names THEN FreeCell
     ELSE IF d.services[c] = None THEN FreeCell
     ELSE [live |-> TRUE, name |-> c, lib |-> d.services[c], id |-> number[d.services[c]],
           scope |-> "request", flows |-> [f \in Flows |-> HandlersOf(d.chains[c][f], number)]]]
ListsOf(d, number) == [p \in Places |-> [f \in Flows |-> HandlersOf(d.lists[p][f], number)]]
MadeOf(d) == {f \in Flows : d.lists["transport"][f] # <<>>}

Init ==
  /\ up = "up" /\ mode = "deploy" /\ file = FirstFile /\ unsaved = FALSE
  /\ ids \in Numberings(file)
  /\ services = ServicesOf(file) /\ heap = HeapOf(file, ids) /\ lists = ListsOf(file, ids) /\ made = MadeOf(file)
  /\ admin = [a \in Admins |-> IdleAdmin] /\ req = [r \in Requests |-> IdleRequest]
  /\ loaded = {} /\ idle = {} /\ spoiled = {}
  /\ updates = 0 /\ requests = 0 /\ restarts = 0

-----------------------------------------------------------------------------
(***************************************************************************)
(* Updates (WSDDDeployment::updateWSDD, WSDDDocument)                      *)
(***************************************************************************)

\* The document object takes the greatest number in use; the root element
\* sets the one m_DeplType all updates share.
LastNumbers_Zero == {0}
LastNumbers == {i \in {ids[l] : l \in LibNames} : \A l \in LibNames : ids[l] <= i}
SetMode_Undeploys(d) == mode' = IF d.type = "undeploy" THEN d.type ELSE mode
SetMode(d) == mode' = d.type
Update(a, d) ==
  /\ up = "up" /\ ~Busy(a) /\ updates < MaxUpdates
  /\ SetMode(d)
  /\ \E last \in LastNumbers : admin' = [b \in Admins |->
       IF b = a THEN [IdleAdmin EXCEPT !.pc = "parsing", !.type = d.type, !.todo = d.events,
                                       !.last = last, !.alone = (Others(a) = {})]
                ELSE [admin[b] EXCEPT !.alone = @ /\ ~Busy(b), !.shared = @ \/ admin[b].pc = "saving"]]
  /\ updates' = updates + 1
  /\ UNCHANGED <<up, descVars, saveVars, poolVars, req, requests, restarts, spoiled>>

\* Elements nest, so the end of one follows its start.
Parsing(a, kind) ==
  /\ up = "up" /\ admin[a].pc = "parsing" /\ admin[a].todo # <<>> /\ Head(admin[a].todo).kind = kind
  /\ kind = "endHandler" => admin[a].handler # NoHandler
  /\ kind = "endService" => admin[a].cell # 0

\* A name not in the map, be it empty, gets the number after the last this
\* document gave; an element without the attribute keeps the number 0.
NewName(l) == l # None /\ ids[l] = 0
NumberOf_Renumbers(a, l) == IF l = None THEN 0 ELSE admin[a].last + 1
NumberOf(a, l) == IF l = None THEN 0 ELSE IF ids[l] # 0 THEN ids[l] ELSE admin[a].last + 1
Number(a, l) ==
  /\ ids' = [k \in LibNames |-> IF k = l THEN NumberOf(a, l) ELSE ids[k]]
  /\ spoiled' = spoiled \cup (IF NewName(l) /\ Others(a) # {} THEN {admin[a].last + 1} ELSE {})
Parsed(a, l) ==
  [admin[a] EXCEPT !.todo = Tail(@), !.last = IF NewName(l) THEN @ + 1 ELSE @]
NameOf(l) == IF l = None THEN 0 ELSE l

\* The element's object is allocated where no live object is; it may be
\* where a freed one was.
StartService(a) ==
  LET e == Head(admin[a].todo) IN
  /\ Parsing(a, "service")
  /\ \E c \in Cells :
       /\ ~heap[c].live
       /\ heap' = [heap EXCEPT ![c] =
            [live |-> TRUE, name |-> e.name, lib |-> NameOf(e.lib), id |-> NumberOf(a, e.lib),
             scope |-> e.scope, flows |-> NoLists]]
       /\ admin' = [admin EXCEPT ![a] = [Parsed(a, e.lib) EXCEPT !.cell = c]]
  /\ Number(a, e.lib)
  /\ UNCHANGED <<up, mode, services, lists, made, saveVars, poolVars, req, bounds>>

StartHandler(a) ==
  LET e == Head(admin[a].todo) IN
  /\ Parsing(a, "handler")
  /\ admin' = [admin EXCEPT ![a] = [Parsed(a, e.lib) EXCEPT
       !.handler = [lib |-> NameOf(e.lib), id |-> NumberOf(a, e.lib), scope |-> e.scope]]]
  /\ Number(a, e.lib)
  /\ UNCHANGED <<up, mode, services, heap, lists, made, saveVars, poolVars, req, bounds>>

\* The process ends: requests and updates with it.
Fall ==
  /\ up' = "down"
  /\ admin' = [a \in Admins |-> IdleAdmin] /\ req' = [r \in Requests |-> IdleRequest]
  /\ unsaved' = (unsaved \/ \E a \in Admins : Busy(a))
  /\ UNCHANGED <<mode, descVars, file, poolVars, bounds, spoiled>>

Forget(l) ==
  /\ ids' = [ids EXCEPT ![l] = 0]
  /\ spoiled' = spoiled \cup ({ids[l]} \ {0})

EndHandlerElement(a) == admin' = [admin EXCEPT ![a].todo = Tail(@), ![a].handler = NoHandler]

\* Removing a handler that is found reads the list's node after it was freed:
\* the pointer is still there, or the process falls.
FreedNode(a, list) == mode = "undeploy" /\ In(admin[a].handler.lib, LibsOf(list)) /\ Fall

\* WSDDService::addHandler and removeHandler, on the service being parsed
EndServiceHandler(a) ==
  LET e == Head(admin[a].todo)  c == admin[a].cell IN
  /\ Parsing(a, "endHandler") /\ e.place = "service" /\ c # 0
  /\ \/ /\ heap' = [heap EXCEPT ![c].flows[e.flow] =
             IF mode = "deploy" THEN Append(@, admin[a].handler) ELSE Remove(@, admin[a].handler.lib)]
        /\ EndHandlerElement(a)
        /\ UNCHANGED <<up, mode, ids, services, lists, made, saveVars, poolVars, req, bounds, spoiled>>
     \/ FreedNode(a, heap[c].flows[e.flow])

\* WSDDDeployment::addHandler
AddHandler(a) ==
  LET e == Head(admin[a].todo) IN
  /\ Parsing(a, "endHandler") /\ e.place \in Places /\ mode = "deploy"
  /\ lists' = [lists EXCEPT ![e.place][e.flow] = Append(@, admin[a].handler)]
  /\ made' = IF e.place = "transport" THEN made \cup {e.flow} ELSE made
  /\ EndHandlerElement(a)
  /\ UNCHANGED <<up, mode, ids, services, heap, saveVars, poolVars, req, bounds, spoiled>>

\* WSDDDeployment::removeHandler forgets the number, found or not; without
\* a map for the flow, WSDDTransport::removeHandler uses a null pointer.
RemoveHandler(a) ==
  LET e == Head(admin[a].todo)
      noMap == e.place = "transport" /\ e.flow \notin made
  IN
  /\ Parsing(a, "endHandler") /\ e.place \in Places /\ mode = "undeploy"
  /\ \/ noMap /\ made # {} /\ Fall
     \/ FreedNode(a, lists[e.place][e.flow])
     \/ /\ ~noMap \/ made = {}
        /\ Forget(admin[a].handler.lib)
        /\ lists' = [lists EXCEPT ![e.place][e.flow] = Remove(@, admin[a].handler.lib)]
        /\ EndHandlerElement(a)
        /\ UNCHANGED <<up, mode, services, heap, made, saveVars, poolVars, req, bounds>>

\* A handler outside of any flow is deleted.
DropHandler(a) ==
  /\ Parsing(a, "endHandler") /\ Head(admin[a].todo).place = "outside"
  /\ EndHandlerElement(a)
  /\ UNCHANGED <<up, mode, descVars, saveVars, poolVars, req, bounds, spoiled>>

Service(a) == heap[admin[a].cell].name
EndElement(a) == admin' = [admin EXCEPT ![a].todo = Tail(@), ![a].cell = 0]

\* A name that is deployed keeps its service; the new one is lost, and no
\* pointer leads to it.
AddService(a) ==
  LET n == Service(a)  c == admin[a].cell IN
  /\ Parsing(a, "endService") /\ mode = "deploy"
  /\ IF services[n] = 0
     THEN services' = [services EXCEPT ![n] = c] /\ UNCHANGED heap
     ELSE heap' = [heap EXCEPT ![c].live = FALSE] /\ UNCHANGED services
  /\ EndElement(a)
  /\ UNCHANGED <<up, mode, ids, lists, made, saveVars, poolVars, req, bounds, spoiled>>

\* The deployed service is freed, and its library forgotten, while requests
\* may hold a pointer to it.  The parsed one is freed or lost.
EraseService_Keeps(n) == UNCHANGED services
EraseService(n) == services' = [services EXCEPT ![n] = 0]
RemoveService(a) ==
  LET n == Service(a)  c == services[n] IN
  /\ Parsing(a, "endService") /\ mode = "undeploy"
  /\ heap' = [d \in Cells |-> IF d \in {c, admin[a].cell} THEN [heap[d] EXCEPT !.live = FALSE] ELSE heap[d]]
  /\ IF c = 0 THEN UNCHANGED <<ids, services, spoiled>>
     ELSE Forget(heap[c].lib) /\ EraseService(n)
  /\ req' = [r \in Requests |-> [req[r] EXCEPT !.stale = @ \/ (req[r].pc # "idle" /\ c # 0 /\ req[r].cell = c)]]
  /\ EndElement(a)
  /\ UNCHANGED <<up, mode, lists, made, saveVars, poolVars, bounds>>

\* The parser reports an error: what was changed stays, nothing is saved.
ParseFails(a) ==
  /\ up = "up" /\ admin[a].pc = "parsing"
  /\ heap' = [c \in Cells |-> IF c = admin[a].cell THEN [heap[c] EXCEPT !.live = FALSE] ELSE heap[c]]
  /\ admin' = [admin EXCEPT ![a] = IdleAdmin]
  /\ unsaved' = TRUE
  /\ UNCHANGED <<up, mode, ids, services, lists, made, file, poolVars, req, bounds, spoiled>>

(***************************************************************************)
(* Saving and restarting                                                   *)
(***************************************************************************)
\* WSDDService::updateWSDD
SavedChains_RequestTwice(n) ==
  [f \in Flows |-> IF services[n] = 0 \/ heap[services[n]].flows["request"] = <<>> THEN <<>>
                   ELSE LibsOf(heap[services[n]].flows[f])]
SavedChains(n) ==
  [f \in Flows |-> IF services[n] = 0 THEN <<>> ELSE LibsOf(heap[services[n]].flows[f])]

\* What saveWSDD would write at this moment.  WSDDTransport::updateWSDD looks at the request
\* handlers twice, so response handlers alone are not written.
Descriptor ==
  [torn |-> FALSE,
   services |-> [n \in Names |-> IF services[n] = 0 THEN None ELSE heap[services[n]].lib],
   chains |-> [n \in Names |-> SavedChains(n)],
   lists |-> [p \in Places |-> [f \in Flows |->
     IF p = "transport" /\ "request" \notin made THEN <<>> ELSE LibsOf(lists[p][f])]]]

\* fopen with "w" empties the file.
BeginSave(a) ==
  /\ up = "up" /\ admin[a].pc = "parsing" /\ admin[a].todo = <<>>
  /\ file' = [file EXCEPT !.torn = TRUE]
  /\ admin' = [admin EXCEPT ![a] = [IdleAdmin EXCEPT
       !.pc = "saving", !.type = admin[a].type, !.alone = admin[a].alone,
       !.left = Parts, !.shared = (Others(a) # {})]]
  /\ UNCHANGED <<up, mode, descVars, unsaved, poolVars, req, bounds, spoiled>>

SaveFails(a) ==
  /\ up = "up" /\ admin[a].pc = "parsing" /\ admin[a].todo = <<>>
  /\ admin' = [admin EXCEPT ![a] = IdleAdmin]
  /\ unsaved' = TRUE
  /\ UNCHANGED <<up, mode, descVars, file, poolVars, req, bounds, spoiled>>

\* The next part goes to the stdio buffer as it is now.
NextParts(a) == {p \in admin[a].left : \A q \in admin[a].left : p <= q}
WithPart(text, p) ==
  [text EXCEPT !.lists = IF p = 0 THEN Descriptor.lists ELSE @,
               !.services = [n \in Names |-> IF n = p THEN Descriptor.services[n] ELSE @[n]],
               !.chains = [n \in Names |-> IF n = p THEN Descriptor.chains[n] ELSE @[n]]]
SavePart(a) ==
  /\ up = "up" /\ admin[a].pc = "saving"
  /\ \E p \in NextParts(a) :
       admin' = [admin EXCEPT ![a].text = WithPart(@, p), ![a].left = @ \ {p}]
  /\ UNCHANGED <<up, mode, descVars, saveVars, poolVars, req, bounds, spoiled>>

\* The list or the map being walked may be changed by another update, and
\* the process fall.
SaveRaces(a) == up = "up" /\ admin[a].left # {} /\ Others(a) # {} /\ Fall

\* fflush: what was read is written over whatever the file holds now.  A
\* write may fail, or another save write at the same time; the save succeeds
\* all the same.
WriteSave(a) ==
  /\ up = "up" /\ admin[a].pc = "saving" /\ admin[a].left = {}
  /\ \E torn \in BOOLEAN : file' = [admin[a].text EXCEPT !.torn = torn]
  /\ unsaved' = (file'.torn \/ admin[a].shared)
  /\ admin' = [admin EXCEPT ![a] = IdleAdmin]
  /\ UNCHANGED <<up, mode, descVars, poolVars, req, bounds, spoiled>>

Kill == up = "up" /\ restarts < MaxRestarts /\ Fall

\* ModuleInitialize: loadWSDD throws when the file cannot be parsed.
Restart ==
  /\ up = "down" /\ restarts < MaxRestarts
  /\ restarts' = restarts + 1
  /\ IF file.torn
     THEN up' = "failed" /\ UNCHANGED <<mode, descVars, saveVars, admin, poolVars, req, spoiled>>
     ELSE /\ up' = "up" /\ mode' = "deploy" /\ unsaved' = FALSE
          /\ ids' \in Numberings(file)
          /\ services' = ServicesOf(file) /\ heap' = HeapOf(file, ids') /\ lists' = ListsOf(file, ids')
          /\ made' = MadeOf(file)
          /\ loaded' = {} /\ idle' = {} /\ spoiled' = {}
          /\ UNCHANGED <<file, admin, req>>
  /\ UNCHANGED <<updates, requests>>

-----------------------------------------------------------------------------
(***************************************************************************)
(* Requests (ServerAxisEngine::process, HandlerPool, HandlerLoader)        *)
(***************************************************************************)

\* The handler chains in the order they are got; the first four are never
\* returned to the pools.
Chains == <<<<"global", "request">>, <<"global", "response">>, <<"transport", "request">>,
            <<"transport", "response">>, <<"service", "request">>, <<"service", "response">>>>

\* getLibName: the first name of the map with the number; none is NULL.
LibNamed(i) ==
  {l \in LibNames : i # 0 /\ ids[l] = i /\ \A k \in LibNames : ids[k] = i => l <= k}

\* createHandler: the library loaded under the number, or loaded now.  For an
\* empty name it throws.
Known(i) == {l \in Libs : <<i, l>> \in loaded}
Creatable(i) == IF Known(i) = {} THEN LibNamed(i) \ {0} ELSE Known(i)

\* getHandler: an idle object, or a fresh one.
Ways(h) ==
  {[lib |-> l, fresh |-> FALSE] : l \in {k \in Libs : [scope |-> h.scope, id |-> h.id, lib |-> k] \in idle}}
    \cup {[lib |-> l, fresh |-> TRUE] : l \in Creatable(h.id)}
Object(h, w, want, own) ==
  [scope |-> h.scope, id |-> h.id, lib |-> w.lib, want |-> want, own |-> own]

FindService(r, n) ==
  /\ up = "up" /\ req[r].pc = "idle" /\ requests < MaxRequests /\ services[n] # 0
  /\ req' = [req EXCEPT ![r] = [IdleRequest EXCEPT !.pc = "found", !.name = n, !.cell = services[n],
                                                   !.want = heap[services[n]].lib]]
  /\ requests' = requests + 1
  /\ UNCHANGED <<up, mode, descVars, saveVars, admin, poolVars, updates, restarts, spoiled>>

\* getWebService, through the pointer found
TakeService(r) ==
  LET s == heap[req[r].cell] IN
  /\ up = "up" /\ req[r].pc = "found"
  /\ \E w \in Ways(s) :
       /\ req' = [req EXCEPT ![r].pc = "chains", ![r].objs = {Object(s, w, req[r].want, "service")}]
       /\ loaded' = loaded \cup (IF w.fresh THEN {<<s.id, w.lib>>} ELSE {})
  /\ UNCHANGED <<up, mode, descVars, saveVars, admin, idle, bounds, spoiled>>

\* The list a request is about to read.
ListFor(r) ==
  LET p == Chains[req[r].next][1]  f == Chains[req[r].next][2]
  IN IF p = "service" THEN heap[req[r].cell].flows[f] ELSE lists[p][f]
Own(r) == IF Chains[req[r].next][1] = "service" THEN "chain" ELSE "shared"

TakeChain(r) ==
  /\ up = "up" /\ req[r].pc = "chains" /\ req[r].next \in DOMAIN Chains
  /\ LET list == ListFor(r) IN
     \E w \in [DOMAIN list -> [lib : Libs, fresh : BOOLEAN]] :
       /\ \A i \in DOMAIN list : w[i] \in Ways(list[i])
       /\ req' = [req EXCEPT ![r].next = @ + 1,
            ![r].objs = @ \cup {Object(list[i], w[i], list[i].lib, Own(r)) : i \in DOMAIN list}]
       /\ loaded' = loaded \cup {<<list[i].id, w[i].lib>> : i \in {j \in DOMAIN list : w[j].fresh}}
  /\ UNCHANGED <<up, mode, descVars, saveVars, admin, idle, bounds, spoiled>>

\* std::string of the NULL name: the process falls, before a later handler
\* of the list is looked at.
NoName(i) == Known(i) = {} /\ LibNamed(i) = {}
NullName(r) ==
  /\ up = "up"
  /\ \/ req[r].pc = "found" /\ NoName(heap[req[r].cell].id)
     \/ /\ req[r].pc = "chains" /\ req[r].next \in DOMAIN Chains
        /\ LET list == ListFor(r) IN
           \E i \in DOMAIN list : NoName(list[i].id) /\ \A j \in 1 .. i - 1 : Ways(list[j]) # {}
  /\ Fall

\* A library cannot be loaded, has an empty name, or does not do what is
\* asked of it: what the request holds so far is released.  The handlers of
\* the chain that failed are lost.
RequestFails(r) ==
  /\ up = "up" /\ req[r].pc \in {"found", "chains"} /\ req[r].next \in DOMAIN Chains
  /\ req' = [req EXCEPT ![r] =
       IF req[r].pc = "found" THEN IdleRequest ELSE [req[r] EXCEPT !.next = Len(Chains) + 1]]
  /\ UNCHANGED <<up, mode, descVars, saveVars, admin, poolVars, bounds, spoiled>>

\* releaseHandlers: the service's object goes back under the number its
\* WSDDService has now, those of its chains under their own.
Release(r) ==
  LET s == heap[req[r].cell]
      under(o) == IF o.own = "service" THEN [scope |-> s.scope, id |-> s.id, lib |-> o.lib]
                                       ELSE [scope |-> o.scope, id |-> o.id, lib |-> o.lib]
  IN
  /\ up = "up" /\ req[r].pc = "chains" /\ req[r].next \notin DOMAIN Chains
  /\ idle' = idle \cup {under(o) : o \in {p \in req[r].objs : p.own # "shared"}}
  /\ spoiled' = spoiled \cup (IF req[r].stale THEN {s.id} ELSE {})
  /\ req' = [req EXCEPT ![r] = IdleRequest]
  /\ UNCHANGED <<up, mode, descVars, saveVars, admin, loaded, bounds>>

\* A request follows a pointer to a freed service: unless the old contents
\* or a new service are found there, as above, the process falls.
UseFreed(r) == up = "up" /\ req[r].pc # "idle" /\ ~heap[req[r].cell].live /\ Fall

-----------------------------------------------------------------------------
Administration(a) ==
  \/ \E d \in Documents : Update(a, d)
  \/ StartService(a) \/ StartHandler(a)
  \/ EndServiceHandler(a) \/ AddHandler(a) \/ RemoveHandler(a) \/ DropHandler(a)
  \/ AddService(a) \/ RemoveService(a) \/ ParseFails(a)
  \/ BeginSave(a) \/ SaveFails(a) \/ SavePart(a) \/ SaveRaces(a) \/ WriteSave(a)
Request(r) ==
  \/ \E n \in Names : FindService(r, n)
  \/ TakeService(r) \/ TakeChain(r) \/ Release(r) \/ NullName(r) \/ RequestFails(r) \/ UseFreed(r)
Next == (\E a \in Admins : Administration(a)) \/ (\E r \in Requests : Request(r)) \/ Kill \/ Restart
Spec == Init /\ [][Next]_vars

-----------------------------------------------------------------------------
(***************************************************************************)
(* Properties                                                              *)
(***************************************************************************)
Handler == [lib : LibNames, id : Nat, scope : Scopes]
HandlerLists == [Flows -> Seq(Handler)]
Objects == [scope : Scopes, id : Nat, lib : Libs, want : LibNames, own : {"service", "chain", "shared"}]

\* Every variable has its type, and a deployed service is a live object of
\* that name (WSDDDeployment::addService and removeService keep the map and
\* the objects together).
TypeOK ==
  /\ up \in {"up", "down", "failed"} /\ mode \in {"deploy", "undeploy"}
  /\ ids \in [LibNames -> Nat] /\ services \in [Names -> Cells \cup {0}]
  /\ \A n \in Deployed : heap[services[n]].live /\ heap[services[n]].name = n
  /\ \A c \in Cells : heap[c].live =>
       heap[c].lib \in LibNames /\ heap[c].id \in Nat /\ heap[c].flows \in HandlerLists
  /\ lists \in [Places -> HandlerLists] /\ made \subseteq Flows
  /\ file \in Saved /\ \A a \in Admins : admin[a].text \in Saved
  /\ \A r \in Requests : req[r].objs \subseteq Objects
  /\ \A f \in Flows \ made : lists["transport"][f] = <<>>

\* A request whose service stays deployed gets objects of the libraries the
\* descriptor names for its service and handlers (HandlerPool::getHandler,
\* HandlerLoader::createHandler).
OwnLibrary == \A r \in Requests : ~req[r].stale => \A o \in req[r].objs : o.lib = o.want

\* It does so unless the number was forgotten by an undeployment, was given
\* while another update ran, or was pooled under by a request whose service
\* had been freed, or the request's own service was freed meanwhile.
OwnLibraryUnless ==
  \A r \in Requests : \A o \in req[r].objs : o.lib = o.want \/ o.id \in spoiled \/ req[r].stale

\* getLibName answers for every deployed service and handler with the name
\* its element gave, so that createHandler gets no NULL and no other library,
\* unless the number was forgotten; or the element gave no name at all, which
\* is deployed all the same (WSDDDocument::processAttributes, getParameters).
Named(e) == LibNamed(e.id) = {e.lib} \/ e.id \in spoiled \ {0} \/ (e.lib = 0 /\ e.id = 0)
NamedUnless ==
  /\ \A n \in Deployed : LET s == heap[services[n]] IN
       Named(s) /\ \A f \in Flows : \A i \in DOMAIN s.flows[f] : Named(s.flows[f][i])
  /\ \A p \in Places, f \in Flows : \A i \in DOMAIN lists[p][f] : Named(lists[p][f][i])

\* A service disappears from a running server only by an undeployment
\* (endElement), unless two updates overlap: they share m_DeplType.
RemovedOnlyByUndeployment ==
  [][\A n \in Deployed : up' = "up" /\ up = "up" /\ services'[n] = 0 =>
       \E a \in Admins : admin'[a] # admin[a] /\ (admin[a].type = "undeploy" \/ ~admin[a].alone)]_vars

\* A restart (loadWSDD) brings back the services, their libraries and the
\* handlers of all chains that were saved (saveWSDD), in their order, unless
\* an update was cut short, or another update was under way at any moment of
\* the last save; the scopes, and response handlers of a transport without
\* request handlers, are not brought back.
SurvivesRestart ==
  [][up = "down" /\ up' # "down" /\ ~unsaved =>
       /\ up' = "up"
       /\ \A n \in Names : (services'[n] # 0) = (services[n] # 0)
       /\ \A n \in Deployed : LET s == heap[services[n]]  t == heap'[services'[n]] IN
            t.lib = s.lib /\ \A f \in Flows : LibsOf(t.flows[f]) = LibsOf(s.flows[f])
       /\ \A p \in Places, f \in Flows :
            LibsOf(lists'[p][f]) = LibsOf(lists[p][f]) \/ (p = "transport" /\ "request" \notin made)]_vars
=============================================================================
