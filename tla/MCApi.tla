-------------------------------- MODULE MCApi --------------------------------
(* Small instances of Api for TLC.                                           *)
EXTENDS Api, TLC

CONSTANTS r1, r2, r3, alice, bob, i1

\* The first two requests are a request and its retry.
MCIdem == r1 :> i1 @@ r2 :> i1 @@ r3 :> NoKey

\* Three requests of alice, each made when the one before has been answered, in two seconds.
Turns ==
  [key |-> r1 :> alice @@ r2 :> alice @@ r3 :> alice, idem |-> MCIdem,
   prior |-> r1 :> {} @@ r2 :> {r1} @@ r3 :> {r1, r2}, until |-> 4]

\* Two requests of alice and one of bob, at once.
AtOnce ==
  [key |-> r1 :> alice @@ r2 :> alice @@ r3 :> bob, idem |-> MCIdem,
   prior |-> r1 :> {} @@ r2 :> {} @@ r3 :> {}, until |-> 0]

MCBoth   == {Turns, AtOnce}
MCAtOnce == {AtOnce}
MCSteady == {[Turns EXCEPT !.until = 0]}
=============================================================================
