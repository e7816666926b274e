---------------------------- MODULE MCMuxSession ----------------------------
(***************************************************************************)
(* TLC instance of MuxSession.  Streams are model values, the faults a     *)
(* set of names; there is no symmetry, since refinement and liveness are   *)
(* checked.                                                                *)
(***************************************************************************)
EXTENDS MuxSession

=============================================================================
