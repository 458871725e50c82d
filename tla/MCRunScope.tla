----------------------------- MODULE MCRunScope -----------------------------
(* Small instances of RunScope for TLC.                                      *)
EXTENDS RunScope, TLC

CONSTANTS r1, r2

\* A run of one stage with two children to a gather, and one of two stages with one.
MCWidth     == r1 :> 2 @@ r2 :> 1
MCMaxStages == r1 :> 1 @@ r2 :> 2
=============================================================================
