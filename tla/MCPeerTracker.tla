--------------------------- MODULE MCPeerTracker ---------------------------
(* Small instances of PeerTracker for TLC.                                 *)
EXTENDS PeerTracker, TLC

AllWays == {"listener", "waitset", "none"}
=============================================================================
