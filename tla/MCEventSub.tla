----------------------------- MODULE MCEventSub -----------------------------
(* Instances of EventSub for TLC.                                          *)
EXTENDS EventSub, TLC

CONSTANTS
  e1, e2,          \* messages about a redemption of the exchange reward
  s1,              \* a message that a slot's reward was redeemed
  u1,              \* a message that this redemption was settled
  exchange, slot,  \* the two redemptions
  h1, h2, w1

(* Leftover subscriptions announce the same redemption twice.              *)
About == [m \in Messages |-> IF m \in {e1, e2} THEN exchange ELSE slot]

(* The webhook calls are alike.                                            *)
Alike == Permutations({h1, h2})
=============================================================================
