----------------------------- MODULE MCTopology -----------------------------
(* Model checking of Topology.                                             *)
EXTENDS Topology
=============================================================================
