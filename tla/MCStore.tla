------------------------------ MODULE MCStore ------------------------------
(***************************************************************************)
(* TLC instance of Store.  The workers are interchangeable.  The Go files  *)
(* of Init hold a client with a tunnel, so that two edits suffice for a    *)
(* renamed client with items and for an uploaded item that is edited.      *)
(***************************************************************************)
EXTENDS Store, TLC

WorkerSymmetry == Permutations(Workers)

=============================================================================
