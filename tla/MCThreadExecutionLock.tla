----------------------- MODULE MCThreadExecutionLock ------------------------
(* Small instances of ThreadExecutionLock for TLC: no symmetry, so that the
   temporal properties are checked on the full graph. *)
EXTENDS ThreadExecutionLock
=============================================================================
