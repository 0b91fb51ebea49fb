------------------------------ MODULE MCCalls ------------------------------
(* One person with one device, and one with two. *)
EXTENDS Calls, TLC

CONSTANTS a, b1, b2, Ann, Bob

MCOwner == a :> Ann @@ b1 :> Bob @@ b2 :> Bob
MCCallee == a :> Bob @@ b1 :> Ann @@ b2 :> Ann
MCRank == a :> 1 @@ b1 :> 2 @@ b2 :> 3
=============================================================================
