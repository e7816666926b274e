--------------------------- MODULE MCLinkRequest ---------------------------
(***************************************************************************)
(* TLC instance of LinkRequest.                                            *)
(***************************************************************************)
EXTENDS LinkRequest, TLC

\* Connections, and the requests (all of the same kind when NoPeer is empty
\* or all of Links), are interchangeable.
Symmetry == Permutations(Conns) \cup Permutations(Links)

ConnSymmetry == Permutations(Conns)

=============================================================================
