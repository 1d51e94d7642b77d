---------------------------- MODULE MCAxisModule ----------------------------
(* One server host, one client application and two Call objects for TLC.    *)
EXTENDS AxisModule

CONSTANTS host, app

MCIsServer == [p \in Programs |-> p = host]
=============================================================================
