--------------------------- MODULE MCExchangeTerms ---------------------------
(* Instances of ExchangeTerms for TLC: one save of the cost, one of the    *)
(* rate, one that closes the shop.                                         *)
EXTENDS ExchangeTerms, TLC

CONSTANTS y1, s1, s2, s3, r1

TheDefault == [cost |-> 1, rate |-> 1, open |-> 1]
Patches == (s1 :> [cost |-> 2]) @@ (s2 :> [rate |-> 2]) @@ (s3 :> [open |-> 0])
PatchesHere == [s \in Saves |-> Patches[s]]
=============================================================================
