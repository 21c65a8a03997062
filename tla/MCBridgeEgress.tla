--------------------------- MODULE MCBridgeEgress ---------------------------
(* Two bridges that hand the modem over, one of them known from before. *)
EXTENDS BridgeEgress

CONSTANTS east, west

MCSays == ({east} \X {"absent", "sealed", "plain"}) \cup {<<west, "sealed">>}
=============================================================================
