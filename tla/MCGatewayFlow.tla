--------------------------- MODULE MCGatewayFlow ---------------------------
(* Model values for the runs of GatewayFlow. *)
EXTENDS GatewayFlow

CONSTANT o1

OneOperator == {o1}
AllKinds    == {"path", "unified", "notFound"}
PathOnly    == {"path"}
UnifiedOnly == {"unified"}
=============================================================================
