--------------------------- MODULE MCPersistence ---------------------------
(* Small instances of Persistence for TLC.                                   *)
EXTENDS Persistence, TLC

CONSTANTS s1, s2, s3, q1, q2, i1, i2

\* Two runs under one id, and one under another.
MCIdOf    == s1 :> i1 @@ s2 :> i1 @@ s3 :> i2
MCWanted  == q1 :> i1 @@ q2 :> i2
MCStages  == s1 :> 2 @@ s2 :> 1 @@ s3 :> 1
MCOutputs == s1 :> 2 @@ s2 :> 0 @@ s3 :> 1
=============================================================================
