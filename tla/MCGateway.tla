------------------------------ MODULE MCGateway ------------------------------
(* Small instances of Gateway for TLC.                                       *)
EXTENDS Gateway, TLC

CONSTANTS c1, c2, c3, gpt, claude, grok, p1, p2

\* gpt falls back to claude; claude has no fallback, nor has grok.
MCFallback  == gpt :> claude @@ claude :> NoModel
MCFallback3 == gpt :> claude @@ claude :> NoModel @@ grok :> NoModel

\* p1 and p2 differ in case and spacing only, and share a cache key.
MCSameKey == p1 :> p1 @@ p2 :> p1
MCOneKey  == p1 :> p1

CallSymmetry == Permutations(Calls)
=============================================================================
