------------------------------ MODULE MCServer ------------------------------
(* Small instances of Server for TLC: no symmetry, because of the temporal
   properties. *)
EXTENDS Server
=============================================================================
