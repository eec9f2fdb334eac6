---------------------------- MODULE EconomyBooks ----------------------------
(* What is read of the ledger and the wallets while they are written: the     *)
(* admin's economy panel, and a viewer's wallet.                              *)
(* Sources: src/server/src/domain/wallet.ts (the bookings statement by        *)
(* statement, and the reads), withTransaction of db/pool.ts, economyView of   *)
(* http/routes/admin.ts.                                                      *)
(*                                                                            *)
(* GtaEconomy has what is booked when; here a booking is any entry that a     *)
(* wallet can take, and what matters is what others see of it: Postgres shows *)
(* a statement what was committed when it began (READ COMMITTED).  The reward *)
(* and the fulfilments, which economyView reads besides, are left out.        *)
EXTENDS Integers, FiniteSets, Functions

CONSTANTS
  Viewers,
  Workers,    \* connections of the pool that book
  MaxRows,    \* bookings begun
  None

VARIABLES
  balance,    \* gta_wallets
  ledger,     \* gta_wallet_transactions
  begun,      \* transactions so far: created_at is now(), when one began
  work,
  view,       \* what the panel's reads have given so far, each with how many rows there were
  wallet      \* and those of a viewer's wallet

vars == <<balance, ledger, begun, work, view, wallet>>

Amounts == [EXCHANGE_CREDIT |-> {2}, WAYPOINT_DEBIT |-> {-1},
            MISSION_REFUND |-> {1}, ADMIN_ADJUSTMENT |-> {-1}]
Types == DOMAIN Amounts
Idle == [at |-> "idle"]
Unread == [totals |-> None, wallets |-> None, consistent |-> None]
Closed == [of |-> None, balance |-> None, recent |-> None]

Init ==
  /\ balance = [v \in Viewers |-> 0] /\ ledger = {} /\ begun = 0
  /\ work = [w \in Workers |-> Idle]
  /\ view = Unread /\ wallet = Closed

Sum(rows) == SumFunction([row \in rows |-> row.amount])
Of(v) == {row \in ledger : row.viewer = v}
OfType(type) == {row \in ledger : row.type = type}

-----------------------------------------------------------------------------
(* A booking.                                                               *)

(* withTransaction: BEGIN.  A viewer has one redemption and one waypoint to *)
(* be booked, any number of times; a correction is never the same.          *)
Begin(w) ==
  /\ work[w] = Idle /\ begun < MaxRows /\ begun' = begun + 1
  /\ \E v \in Viewers, type \in Types : \E amount \in Amounts[type] :
       work' = [work EXCEPT ![w] = [at |-> "begun", before |-> None,
         row |-> [created |-> begun, viewer |-> v, type |-> type, amount |-> amount,
                  key |-> IF type = "ADMIN_ADJUSTMENT" THEN begun ELSE None, after |-> None]]]
  /\ UNCHANGED <<balance, ledger, view, wallet>>

(* SELECT ... FOR UPDATE.                                                   *)
Holds(w, v) == work[w].at \in {"locked", "booked"} /\ work[w].row.viewer = v
LockWallet(w) ==
  /\ work[w].at = "begun"
  /\ LET v == work[w].row.viewer IN
     /\ \A other \in Workers : ~Holds(other, v)
     /\ work' = [work EXCEPT ![w].at = "locked", ![w].before = balance[v]]
  /\ UNCHANGED <<balance, ledger, begun, view, wallet>>

(* The row and the balance, which nobody else sees yet.  What the balance   *)
(* cannot pay, and what is there already, is not booked.                    *)
IsBooked(row) == \E r \in OfType(row.type) : r.viewer = row.viewer /\ r.key = row.key
After(w) == work[w].before + work[w].row.amount

AppendEntry(w) ==
  /\ work[w].at = "locked"
  /\ work' = [work EXCEPT ![w] =
       IF After(w) < 0 \/ IsBooked(work[w].row) THEN Idle
       ELSE [@ EXCEPT !.at = "booked", !.row.after = After(w)]]
  /\ UNCHANGED <<balance, ledger, begun, view, wallet>>

Commit(w) ==
  /\ work[w].at = "booked"
  /\ LET row == work[w].row IN
     \* a second row with the key of a first is refused, and all is rolled back
     IF IsBooked(row) THEN UNCHANGED <<balance, ledger>>
     ELSE /\ ledger' = ledger \cup {row}
          /\ balance' = [balance EXCEPT ![row.viewer] = @ + row.amount]
  /\ work' = [work EXCEPT ![w] = Idle]
  /\ UNCHANGED <<begun, view, wallet>>

(* ROLLBACK, or the connection is gone.                                     *)
Rollback(w) ==
  /\ work[w] # Idle /\ work' = [work EXCEPT ![w] = Idle]
  /\ UNCHANGED <<balance, ledger, begun, view, wallet>>

-----------------------------------------------------------------------------
(* economyView: one statement to each part, all under way together.  The    *)
(* panel and a wallet, which do not meet, are not read in one behaviour.    *)

ReadTotals ==
  /\ wallet = Closed /\ view.totals = None
  /\ view' = [view EXCEPT !.totals =
       [issued |-> Sum(OfType("EXCHANGE_CREDIT")), spent |-> -Sum(OfType("WAYPOINT_DEBIT")),
        refunded |-> Sum(OfType("MISSION_REFUND")), adjusted |-> Sum(OfType("ADMIN_ADJUSTMENT")),
        rows |-> Cardinality(ledger)]]
  /\ UNCHANGED <<balance, ledger, begun, work, wallet>>

ReadWallets ==
  /\ wallet = Closed /\ view.wallets = None
  /\ view' = [view EXCEPT !.wallets =
       [circulating |-> SumFunction(balance), rows |-> Cardinality(ledger)]]
  /\ UNCHANGED <<balance, ledger, begun, work, wallet>>

Mismatches == {v \in Viewers : balance[v] # Sum(Of(v))}
CheckLedgerConsistency ==
  /\ wallet = Closed /\ view.consistent = None
  /\ view' = [view EXCEPT !.consistent = Mismatches = {}]
  /\ UNCHANGED <<balance, ledger, begun, work, wallet>>

(* buildWalletView, of a viewer with or without a wallet.                   *)
Open(v) ==
  /\ view = Unread /\ wallet = Closed /\ wallet' = [Closed EXCEPT !.of = v]
  /\ UNCHANGED <<balance, ledger, begun, work, view>>
GetBalance ==
  /\ wallet.of # None /\ wallet.balance = None
  /\ wallet' = [wallet EXCEPT !.balance = [is |-> balance[wallet.of], rows |-> Of(wallet.of)]]
  /\ UNCHANGED <<balance, ledger, begun, work, view>>
ListWalletTransactions ==
  /\ wallet.of # None /\ wallet.recent = None
  /\ wallet' = [wallet EXCEPT !.recent = [is |-> Of(wallet.of)]]
  /\ UNCHANGED <<balance, ledger, begun, work, view>>

Next ==
  \/ \E w \in Workers :
       Begin(w) \/ LockWallet(w) \/ AppendEntry(w) \/ Commit(w) \/ Rollback(w)
  \/ ReadTotals \/ ReadWallets \/ CheckLedgerConsistency
  \/ \E v \in Viewers : Open(v)
  \/ GetBalance \/ ListWalletTransactions

Spec == Init /\ [][Next]_vars

-----------------------------------------------------------------------------
TypeOK ==
  /\ balance \in [Viewers -> Nat] /\ begun \in 0..MaxRows
  /\ \A row \in ledger : row.type \in Types /\ row.viewer \in Viewers /\ row.after \in Nat
  /\ \A w \in Workers : work[w].at \in {"idle", "begun", "locked", "booked"}

(* A wallet is locked by one booking at a time, which knows its balance.    *)
Entry == [created : Nat, viewer : Viewers, type : Types, amount : Int, key : Nat \cup {None},
          after : Int \cup {None}]
Booking == [at : {"begun", "locked", "booked"}, before : Int \cup {None}, row : Entry]
BookingsAreApart ==
  /\ begun \in Nat /\ DOMAIN work = Workers
  /\ \A w \in Workers :
       /\ work[w] = Idle \/ work[w] \in Booking
       /\ work[w].at = "locked" => work[w].before = balance[work[w].row.viewer]
       /\ work[w].at = "booked" =>
            work[w].row.after = balance[work[w].row.viewer] + work[w].row.amount
       /\ \A other \in Workers \ {w}, v \in Viewers : Holds(w, v) => ~Holds(other, v)

(* The balance is what the rows come to, and what the row that was booked   *)
(* last left.                                                               *)
IsHistory(rows, is) ==
  /\ is = Sum(rows)
  /\ rows # {} => \E last \in rows :
       last.after = is /\ last.after - last.amount = Sum(rows \ {last})
Booked ==
  Sum(OfType("EXCHANGE_CREDIT")) + Sum(OfType("WAYPOINT_DEBIT")) + Sum(OfType("MISSION_REFUND"))
    + Sum(OfType("ADMIN_ADJUSTMENT"))
LedgerIsSummed ==
  /\ IsFiniteSet(ledger) /\ ledger \subseteq Entry /\ balance \in [Viewers -> Int]
  /\ \A v \in Viewers : IsHistory(Of(v), balance[v])
  /\ SumFunction(balance) = Booked

(* What was read is of the books as they are until a row is added.          *)
Net(totals) == totals.issued - totals.spent + totals.refunded + totals.adjusted
ViewIsOfTheBooks ==
  /\ DOMAIN view = {"totals", "wallets", "consistent"}
  /\ view.totals # None =>
       /\ view.totals.rows \in 0..Cardinality(ledger)
       /\ view.totals.rows = Cardinality(ledger) => Net(view.totals) = SumFunction(balance)
  /\ view.wallets # None =>
       /\ view.wallets.rows \in 0..Cardinality(ledger)
       /\ view.wallets.rows = Cardinality(ledger) => view.wallets.circulating = SumFunction(balance)
WalletIsOfTheBooks ==
  /\ DOMAIN wallet = {"of", "balance", "recent"} /\ wallet.of \in Viewers \cup {None}
  /\ wallet.balance # None => IsHistory(wallet.balance.rows, wallet.balance.is)

(* However the reads fall among the bookings, the panel raises no alarm     *)
(* about a ledger that is in order; its totals add up when no booking came  *)
(* between the two reads of them; and a balance and a history of the same   *)
(* moment agree: the balance is what the rows come to, and what the row     *)
(* that was booked last left, although that need not be the newest by       *)
(* created_at.                                                              *)
TotalsAddUp ==
  view.totals # None /\ view.wallets # None /\ view.totals.rows = view.wallets.rows =>
    view.wallets.circulating = Net(view.totals)

HistoryIsOfTheBalance ==
  wallet.balance # None /\ wallet.recent # None /\ wallet.balance.rows = wallet.recent.is =>
    IsHistory(wallet.recent.is, wallet.balance.is)

BooksAreTrue ==
  (view.consistent # None => view.consistent) /\ TotalsAddUp /\ HistoryIsOfTheBalance
=============================================================================
