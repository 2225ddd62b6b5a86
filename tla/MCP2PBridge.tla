---------------------------- MODULE MCP2PBridge ----------------------------
(* Instances of P2PBridge for TLC. *)
EXTENDS P2PBridge, TLC

CONSTANTS a, b

TwoHandles == {a, b}
\* One handle does everything; the other makes offers and is destroyed, so
\* that the two meet at the registry's mutex and in the signaling thread.
Everything == (a :> Operations) @@ (b :> {"offer", "destroy"})
Bounds == (a :> 3) @@ (b :> 1)
=============================================================================
