--------------------------- MODULE MCPpuAddress -----------------------------
(* Instances of PpuAddress for TLC: a plane of small name tables.          *)
EXTENDS PpuAddress
=============================================================================
