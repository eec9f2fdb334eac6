---------------------------- MODULE CreditStatus ----------------------------
(***************************************************************************)
(* What the ledger promises about the fulfilment of its credits: each      *)
(* final status is what Twitch says of the redemption, and stays; what is  *)
(* given up may still be settled.  ExchangeFulfilment implements it.       *)
(***************************************************************************)
CONSTANT Credits

VARIABLES
  status,   \* fulfillment_status of each credit
  twitch    \* where Twitch says its redemption stands

vars == <<status, twitch>>

Init ==
  /\ status = [c \in Credits |-> "none"]
  /\ twitch = [c \in Credits |-> "UNFULFILLED"]

Become(c, s) == status' = [status EXCEPT ![c] = s] /\ UNCHANGED twitch

Book(c) == status[c] = "none" /\ Become(c, "PENDING")
GiveUp(c) == status[c] = "PENDING" /\ Become(c, "FAILED")
Acknowledge(c) == status[c] \in {"PENDING", "FAILED"} /\ twitch[c] = "FULFILLED" /\ Become(c, "FULFILLED")
Flag(c) == status[c] \in {"PENDING", "FAILED"} /\ twitch[c] = "CANCELED" /\ Become(c, "CANCELED_EXTERNALLY")

(* The server or a moderator settles the redemption, or it is gone.        *)
Settle(c) ==
  /\ twitch[c] = "UNFULFILLED"
  /\ \E s \in {"FULFILLED", "CANCELED", "DELETED"} : twitch' = [twitch EXCEPT ![c] = s]
  /\ UNCHANGED status

Next == \E c \in Credits : Book(c) \/ GiveUp(c) \/ Acknowledge(c) \/ Flag(c) \/ Settle(c)

Spec == Init /\ [][Next]_vars
=============================================================================
