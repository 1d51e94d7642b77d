------------------------- MODULE MCClientAxisEngine -------------------------
(* Small client descriptors for ClientAxisEngine.                           *)
EXTENDS ClientAxisEngine

CONSTANTS hd, app, bad   \* libraries

MCKindOf == [l \in Libs |-> IF l = bad THEN "service" ELSE "handler"]

In(scope, lib) == [scope |-> scope, lib |-> lib]

\* No global or transport handlers.
NoCommon == [f \in CommonFlows |-> <<>>]

\* "calc" has a handler in both flows; the request flow of "odd" names a
\* library that is no handler.
CallsServices ==
  [s \in Services |->
     IF s = "calc" THEN [SReq |-> <<In("request", hd)>>, SRes |-> <<In("application", app)>>]
                   ELSE [SReq |-> <<In("application", app), In("request", bad)>>, SRes |-> <<>>]]

\* A transport request handler, and a response flow whose second handler may fail.
OddCommon == [NoCommon EXCEPT !["TReq"] = <<In("request", hd)>>]
OddServices ==
  [CallsServices EXCEPT !["calc"].SRes = <<In("application", app), In("request", hd)>>]
=============================================================================
