------------------------------ MODULE GtaLedger -----------------------------
(***************************************************************************)
(* What the GTA$ economy promises its viewers, with every operation in one *)
(* step: money, the redemptions already exchanged, and what became of each *)
(* quote.  GtaEconomy implements it.                                       *)
(***************************************************************************)
EXTENDS Integers

CONSTANTS Users, Quotes, Redemptions, RedeemerOf, Opening, Prices, Amounts, Adjustments, None

VARIABLES
  money,      \* what each viewer can spend
  exchanged,  \* the redemptions that have been paid out
  sale        \* the fate of each quote: who bought it, for how much, and the job

ledgerVars == <<money, exchanged, sale>>

Unsold  == [state |-> "UNSOLD", buyer |-> None, price |-> 0]
Running == {q \in Quotes : sale[q].state = "RUNNING"}

(* An exchange pays its redeemer once. *)
Exchange(d, a) ==
  /\ d \notin exchanged
  /\ exchanged' = exchanged \union {d}
  /\ money' = [money EXCEPT ![RedeemerOf[d]] = @ + a]
  /\ UNCHANGED sale

(* A correction never makes a balance negative. *)
Adjust(u, a) ==
  /\ money[u] + a >= 0
  /\ money' = [money EXCEPT ![u] = @ + a]
  /\ UNCHANGED <<exchanged, sale>>

(* A purchase takes the price and starts the one job, both or neither. *)
Buy(u, q, p) ==
  /\ sale[q] = Unsold /\ Running = {} /\ money[u] >= p
  /\ sale' = [sale EXCEPT ![q] = [state |-> "RUNNING", buyer |-> u, price |-> p]]
  /\ money' = [money EXCEPT ![u] = @ - p]
  /\ UNCHANGED exchanged

(* A completed job keeps the money, and so does one dropped by the admin. *)
Finish(q) ==
  /\ q \in Running
  /\ \E s \in {"COMPLETED", "DROPPED"} : sale' = [sale EXCEPT ![q].state = s]
  /\ UNCHANGED <<money, exchanged>>

(* A cancelled one gives its price back to its buyer. *)
Refund(q) ==
  /\ q \in Running
  /\ sale' = [sale EXCEPT ![q].state = "REFUNDED"]
  /\ money' = [money EXCEPT ![sale[q].buyer] = @ + sale[q].price]
  /\ UNCHANGED exchanged

Init ==
  /\ money = Opening
  /\ exchanged = {}
  /\ sale = [q \in Quotes |-> Unsold]

Next ==
  \/ \E d \in Redemptions, a \in Amounts : Exchange(d, a)
  \/ \E u \in Users, a \in Adjustments : Adjust(u, a)
  \/ \E u \in Users, q \in Quotes, p \in Prices : Buy(u, q, p)
  \/ \E q \in Quotes : Finish(q) \/ Refund(q)

Spec == Init /\ [][Next]_ledgerVars
=============================================================================
