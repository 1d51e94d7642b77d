------------------------- MODULE MCServerAxisEngine -------------------------
(* Small deployments of ServerAxisEngine for TLC.                           *)
EXTENDS ServerAxisEngine

CONSTANTS sv, hd, hd2, cc, bad   \* libraries

MCKindOf == [l \in Libs |-> CASE l = cc -> "c" [] l \in {sv, bad} -> "service"
                              [] OTHER -> "handler"]

In(scope, lib) == [scope |-> scope, lib |-> lib]

NoFlows == [f \in Flows |-> <<>>]

\* A request scoped service with a session scoped and an application scoped
\* handler in its request flow.
PoolsService == [s \in Services |-> In("request", sv)]
PoolsFlows ==
  [s \in Services |-> [NoFlows EXCEPT
     !["SReq"] = <<In("session", hd), In("application", hd2)>>]]

\* An application scoped service with a global handler, and service flows with
\* handlers the loop of getHandlerChain cannot use.
OddService == [s \in Services |-> In("application", sv)]
OddFlows ==
  [s \in Services |->
     CASE s = "plain" -> [NoFlows EXCEPT !["GReq"] = <<In("request", hd)>>]
       [] s = "c"     -> [NoFlows EXCEPT !["GReq"] = <<In("request", hd)>>,
                            !["SRes"] = <<In("request", cc), In("session", hd2)>>]
       [] s = "bad"   -> [NoFlows EXCEPT !["GReq"] = <<In("request", hd)>>,
                            !["SReq"] = <<In("session", hd2), In("session", bad)>>]
       [] OTHER       -> [NoFlows EXCEPT !["GReq"] = <<In("request", hd)>>,
                            !["SRes"] = <<In("session", hd2), In("request", hd)>>]]
=============================================================================
