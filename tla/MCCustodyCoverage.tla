-------------------------- MODULE MCCustodyCoverage --------------------------
(***************************************************************************)
(* Three contracts in two assets; the two of asset a overflow together.    *)
(***************************************************************************)
EXTENDS CustodyCoverage

SomeKeys == {"held", ""} \X {"a", "b"}

Position(asset, amount) == [asset |-> asset, amount |-> amount]

SomeWorth == <<Position("a", 2), Position("a", 1), Position("b", 1)>>

SomeOpening == [held |-> {1, 3}, owed |-> [a |-> 2, b |-> 1], time |-> 0]
=============================================================================
