-------------------------- MODULE MCGatewayTrigger --------------------------
(* GatewayTrigger for TLC: one exam in each of two classes.       *)
EXTENDS GatewayTrigger, TLC

CONSTANTS e1, e2, class1, class2

MCClassOf == (e1 :> class1) @@ (e2 :> class2)

=============================================================================
