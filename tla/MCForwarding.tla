----------------------------- MODULE MCForwarding -----------------------------
(* An instance of Forwarding for TLC: a path and two apart beneath it.      *)
EXTENDS Forwarding

CONSTANTS x, y, z

MCSegments == {x, y, z}

\* Nodes for the paths below and for the branches above them.
MCAddresses == {<<x>>, <<x, y>>, <<x, z>>, <<x, z, y>>}

MCPaths == {<<x>>, <<x, y>>, <<x, z, y>>}
==============================================================================
