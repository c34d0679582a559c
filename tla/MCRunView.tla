------------------------------ MODULE MCRunView ------------------------------
(***************************************************************************)
(* A small instance of RunView: snapshots of two runs arrive while readers *)
(* read them.                                                              *)
(***************************************************************************)
EXTENDS RunView, Snapshots

CONSTANTS q1, q2

SymmetricReaders == Permutations({q1, q2})

=============================================================================
