------------------------- MODULE MCBranchPredictors -------------------------
(***************************************************************************)
(* Instances of the branch predictors for TLC.                             *)
(***************************************************************************)
EXTENDS BranchPredictors

B == INSTANCE Bitwise
MCXor(i, j) == B!^^(i, j)
=============================================================================
