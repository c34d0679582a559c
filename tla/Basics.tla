-------------------------------- MODULE Basics --------------------------------
(***************************************************************************)
(* What the models of several components share.                            *)
(***************************************************************************)
EXTENDS FiniteSetsExt

CONSTANT None   \* Python's None and SQL's NULL

\* The values of a function, added up.
SumOf(f) == MapThenSumSet(LAMBDA x : f[x], DOMAIN f)

=============================================================================
