-------------------------- MODULE MCTunnelRuntime --------------------------
(* TunnelRuntime for TLC: two Web operations on a server with at most one  *)
(* stored tunnel.                                                          *)
EXTENDS TunnelRuntime
=============================================================================
