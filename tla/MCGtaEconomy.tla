---------------------------- MODULE MCGtaEconomy ----------------------------
(* GtaEconomy on small instances. *)
EXTENDS GtaEconomy, TLC

CONSTANTS u1, u2, q1, q2, d1, r1, r2, r3, r4

MCRedeemer == d1 :> u1
(* Enough for one purchase and not for two. *)
MCOpening == u1 :> 1 @@ u2 :> 1
RichOpening == u1 :> 2
OneOpening == u1 :> 1
(* u1 holds a live quote; q2 is still free. *)
MCOneQuote == q1 :> u1 @@ q2 :> None
(* Both viewers hold a live quote. *)
MCTwoQuotes == q1 :> u1 @@ q2 :> u2

AlwaysOpen == {[open |-> TRUE, price |-> 1]}
SomeSettings == {[open |-> TRUE, price |-> 1], [open |-> TRUE, price |-> 2], [open |-> FALSE, price |-> 1]}

MCAdjustments == {-1, 1}

RequestSymmetry == Permutations(Requests \ Fallible) \union Permutations(Fallible)
=============================================================================
