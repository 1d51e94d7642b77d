-------------------------- MODULE MCWSDDDeployment --------------------------
(* Instances of WSDDDeployment for TLC: a few documents over two services    *)
(* and two or three libraries.                                               *)
EXTENDS WSDDDeployment, TLC

AnEvent == [kind |-> "service", name |-> 1, lib |-> 1, scope |-> "request", place |-> "service", flow |-> "request"]
StartOf(n, l) == [AnEvent EXCEPT !.name = n, !.lib = l, !.scope = "application"]
EndOf(n) == [AnEvent EXCEPT !.kind = "endService", !.name = n]
HandlerAt(l, p, f) ==
  <<[AnEvent EXCEPT !.kind = "handler", !.lib = l],
    [AnEvent EXCEPT !.kind = "endHandler", !.lib = l, !.place = p, !.flow = f]>>
AServiceOf(n, l) == <<StartOf(n, l), EndOf(n)>>
AServiceWith(n, l, h, f) == <<StartOf(n, l)>> \o HandlerAt(h, "service", f) \o <<EndOf(n)>>
Deploy(e) == [type |-> "deploy", events |-> e]
Undeploy(e) == [type |-> "undeploy", events |-> e]

\* Every kind of element, in a deployment and in an undeployment; some name
\* no library.
MCDocuments ==
  {Undeploy(AServiceOf(1, None)), Deploy(AServiceWith(1, 2, 1, "response")), Deploy(AServiceOf(2, None)),
   Deploy(HandlerAt(2, "transport", "response")), Deploy(HandlerAt(1, "global", "request")),
   Undeploy(HandlerAt(1, "global", "request")),
   Undeploy(HandlerAt(1, "outside", "request") \o HandlerAt(1, "transport", "request"))}
\* It starts with one service.
MCFirstFile ==
  [torn |-> FALSE, services |-> [n \in Names |-> IF n = 1 THEN 1 ELSE None],
   chains |-> [n \in Names |-> NoLists], lists |-> [p \in Places |-> NoLists]]
MCSymmetry == Permutations(Admins)

\* A service is replaced by one in another library.
MCReplace == {Undeploy(AServiceOf(1, 1)), Deploy(AServiceOf(2, 2))}
=============================================================================
