------------------------------ MODULE MCStage1 ------------------------------
(* Small instances of Stage1 for TLC.                                        *)
EXTENDS Stage1, TLC

CONSTANTS r1, r2, r3, gpt, claude

\* Two models that fall back on each other.
MCFallback == gpt :> claude @@ claude :> gpt

\* Two runs with the configured proposers, and one that is given only gpt.
MCPanel == r1 :> {gpt, claude} @@ r2 :> {gpt, claude} @@ r3 :> {gpt}
MCFirst == r1 :> gpt @@ r2 :> gpt @@ r3 :> gpt

RunSymmetry == Permutations({r1, r2})
=============================================================================
