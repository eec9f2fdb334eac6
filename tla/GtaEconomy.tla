----------------------------- MODULE GtaEconomy -----------------------------
(***************************************************************************)
(* The GTA$ economy of one channel: wallets and their ledger, quotes, and  *)
(* the waypoint (the job) a viewer buys.  Source: server/src/domain        *)
(* wallet.ts, waypointFlow.ts, waypoints.ts, quotes.ts, redis/lock.ts.     *)
(*                                                                         *)
(* An operation is a Request: one HTTP call, one delivery of a Twitch      *)
(* event, one press of a button.  It runs as a sequence of steps, one per  *)
(* statement whose interleaving with other requests can be observed.  What *)
(* a Postgres transaction has written is visible only from its COMMIT, so  *)
(* the steps before it change no table; a request that throws or dies      *)
(* before its commit leaves no trace.  Row locks and the waits on unique   *)
(* indexes are not variables: who holds a row follows from how far each    *)
(* request has come (HoldsQuote, HoldsWallet, HoldsJob, Inserting).        *)
(*                                                                         *)
(* Redis locks have a TTL: LockExpires may take one away from a request    *)
(* that still runs, so no property may rest on them.                       *)
(***************************************************************************)
EXTENDS Integers, Sequences, FiniteSets, Functions

CONSTANTS
  Users,        \* the viewers of the channel
  Quotes,       \* quote ids
  Redemptions,  \* exchange redemption ids (Twitch)
  Requests,     \* calls of the API, each runs at most once
  Prices,       \* the costs the pricing formula can produce
  Amounts,      \* the GTA$ an exchange redemption can be worth
  Adjustments,  \* the corrections an admin can make
  RedeemerOf,   \* who redeemed each redemption
  Opening,      \* GTA$ in each wallet at the start, booked by an adjustment
  OpenQuotes,   \* the holder of each quote that exists at the start, or None
  Ops,          \* the operations that requests perform (bounds a run)
  Fallible,     \* the requests that may throw or die (bounds a run)
  Perishable,   \* the quotes that may lapse or be cancelled (bounds a run)
  Saves,        \* the settings the admin saves (bounds a run)
  Channel,      \* key of the channel's activation lock
  None

OpNames == {"purchase", "credit", "adjust", "cancel", "drop", "quote"}

ASSUME EconomyAssumption ==
  /\ Prices \subseteq Nat \ {0} /\ Prices # {}
  /\ Amounts \subseteq Nat \ {0}
  /\ Adjustments \subseteq Int \ {0}
  /\ RedeemerOf \in [Redemptions -> Users]
  /\ Opening \in [Users -> Nat]
  /\ OpenQuotes \in [Quotes -> Users \union {None}]
  /\ \A p, q \in Quotes : OpenQuotes[p] = OpenQuotes[q] /\ OpenQuotes[p] # None => p = q
  /\ Ops \subseteq OpNames /\ Fallible \subseteq Requests /\ Perishable \subseteq Quotes
  /\ Saves \subseteq [open : BOOLEAN, price : Prices]
  /\ None \notin Users \union Quotes \union Redemptions \union Requests \union OpNames
  /\ Channel \notin Users

(* A channel has so many viewers at most: what all wallets hold is a sum.  *)
ASSUME UsersAssumption == IsFiniteSet(Users)

VARIABLES
  settings,  \* channel_settings: [open, price]; price stands for the formula
  quotes,    \* waypoint_quotes
  jobs,      \* waypoints, by the request whose transaction inserts them
  balance,   \* gta_wallets.balance
  ledger,    \* gta_wallet_transactions of each wallet, in booking order
  lock,      \* Redis: holder of the activation lock and of each viewer's lock
  pc,        \* the next statement of each request
  call,      \* what the request was asked, and the rows it has found
  snap,      \* the settings the request has read
  seen,      \* the balance lockWallet returned to it
  reply      \* its answer

db == <<quotes, jobs, balance, ledger>>
vars == <<settings, quotes, jobs, balance, ledger, lock, pc, call, snap, seen, reply>>

-----------------------------------------------------------------------------
QuoteStatus == {"NONE", "QUOTED", "PAID", "EXPIRED", "CANCELED"}
JobStatus   == {"NONE", "ACTIVE", "COMPLETED", "CANCELED"}
EntryTypes  == {"EXCHANGE_CREDIT", "WAYPOINT_DEBIT", "MISSION_REFUND", "ADMIN_ADJUSTMENT"}
Refs        == Redemptions \union Requests \union {None}

Settings == [open : BOOLEAN, price : Prices]
QuoteRow == [status : QuoteStatus, owner : Users \union {None}, cost : Nat, lapsed : BOOLEAN]
JobRow   == [status : JobStatus, quote : Quotes \union {None}]
Entry    == [type : EntryTypes, amount : Int, after : Nat, ref : Refs]
Call     == [op : OpNames \union {None}, user : Users \union {None},
             quote : Quotes \union {None}, ref : Refs, amount : Int]
Steps    == {"idle", "precheck", "lock", "settings", "quote", "active", "live", "supersede",
             "create", "update", "wallet", "append", "insert", "debit", "release", "done"}
Replies  == {"none", "charged", "already", "forbidden", "quote_conflict", "expired",
             "price_changed", "waypoints_closed", "waypoint_active", "insufficient_funds",
             "rate_limited", "rejected", "credited", "duplicate", "adjusted", "refunded", "canceled",
             "not_found", "quoted", "error", "lost"}

Asks(o, u, q, d, a) == [op |-> o, user |-> u, quote |-> q, ref |-> d, amount |-> a]
NoCall == Asks(None, None, None, None, 0)
NoJob  == [status |-> "NONE", quote |-> None]

(* Rows of the ledger. *)
Rows(u)     == {ledger[u][i] : i \in 1..Len(ledger[u])}
AllRows     == UNION {Rows(u) : u \in Users}
DebitOf(w, u)  == {e \in Rows(u) : e.type = "WAYPOINT_DEBIT" /\ e.ref = w}

(* getActiveWaypoint and hasActiveWaypoint, as of the last commit. *)
ActiveJobs == {w \in Requests : jobs[w].status = "ACTIVE"}

(***************************************************************************)
(* Locks of the transactions in flight.                                    *)
(***************************************************************************)
HoldsQuote(r, q) ==
  /\ call[r].op = "purchase" /\ call[r].quote = q
  /\ pc[r] \in {"active", "wallet", "insert", "debit"}
LeaksWallet(r, u) == call[r].user = u /\ pc[r] \in {"append", "insert", "debit", "done"}
HoldsWallet(r, u) == call[r].user = u /\ pc[r] \in {"append", "insert", "debit"}
HoldsJob(r, w)    == call[r].op = "cancel" /\ call[r].ref = w /\ pc[r] \in {"wallet", "append"}
Inserting(r)      == pc[r] = "debit"

AnyQuote(q)  == TRUE
AnyWallet(u) == TRUE
QuoteFree(q)  == \A r \in Requests : ~HoldsQuote(r, q)
WalletFree(u) == \A r \in Requests : ~HoldsWallet(r, u)
JobFree(w)    == \A r \in Requests : ~HoldsJob(r, w)

(***************************************************************************)
(* The entry of waypoints_one_active_per_channel can be decided: nobody is *)
(* about to insert an ACTIVE row or to turn the ACTIVE one into another.   *)
(***************************************************************************)
IndexDecided == \A r \in Requests : ~Inserting(r) /\ \A w \in ActiveJobs : ~HoldsJob(r, w)

(* Unique indexes, against committed rows. *)
OneActiveConflict       == ActiveJobs # {}
OnePerQuoteConflict(q)  == \E w \in Requests : jobs[w].status # "NONE" /\ jobs[w].quote = q
OneDebitConflict(q)     == \E e \in AllRows : e.type = "WAYPOINT_DEBIT" /\ jobs[e.ref].quote = q
NoRedemptionIndex(d)    == FALSE
RedemptionConflict(d)   == \E e \in AllRows : e.type = "EXCHANGE_CREDIT" /\ e.ref = d
RefundConflict(w)       == \E e \in AllRows : e.type = "MISSION_REFUND" /\ e.ref = w
OneLiveConflict(u)      == \E q \in Quotes : quotes[q].status = "QUOTED" /\ quotes[q].owner = u

(***************************************************************************)
(* appendEntry: the row first, then the balance.  It is applied where the  *)
(* transaction commits; funds were checked against the locked balance.     *)
(***************************************************************************)
AppendBalanceBefore(u, type, amount, ref, before) ==
  /\ ledger' = [ledger EXCEPT ![u] =
        Append(@, [type |-> type, amount |-> amount, after |-> before, ref |-> ref])]
  /\ balance' = [balance EXCEPT ![u] = @ + amount]
AppendEntry(u, type, amount, ref, before) ==
  /\ ledger' = [ledger EXCEPT ![u] =
        Append(@, [type |-> type, amount |-> amount, after |-> before + amount, ref |-> ref])]
  /\ balance' = [balance EXCEPT ![u] = @ + amount]

(* "wallet balance moved outside its row lock": appendEntry's last check. *)
BalanceMoved(r) == balance[call[r].user] # seen[r]

(***************************************************************************)
(* Leaving a request.  withLock releases in a finally block, so an answer  *)
(* given under a Redis lock goes through the release.                      *)
(***************************************************************************)
LockOf(r) == IF call[r].op = "purchase" THEN Channel ELSE call[r].user
UnderLock(r) ==
  \/ call[r].op = "purchase" /\ pc[r] \notin {"lock", "release"}
  \/ call[r].op = "quote" /\ pc[r] \in {"live", "supersede", "create"}

Goto(r, step) == pc' = [pc EXCEPT ![r] = step]
Answer(r, answer) ==
  /\ Goto(r, IF UnderLock(r) THEN "release" ELSE "done")
  /\ reply' = [reply EXCEPT ![r] = answer]

FirstStep(o) == CASE o = "purchase" -> "lock"
                  [] o = "quote" -> "settings"
                  [] o \in {"credit", "adjust"} -> "wallet"
                  [] o \in {"cancel", "drop"} -> "update"

Start(r, o, u, q, d, a) ==
  /\ pc[r] = "idle" /\ o \in Ops
  /\ call' = [call EXCEPT ![r] = Asks(o, u, q, d, a)]
  /\ Goto(r, FirstStep(o))
  /\ UNCHANGED <<settings, db, lock, snap, seen, reply>>

(* A quote's owner buys it; a stranger may try (the route checks nothing). *)
StartPurchase(r) == \E u \in Users, q \in Quotes : Start(r, "purchase", u, q, None, 0)
(* Every delivery of a redemption is a request; what it is worth is set    *)
(* by the economy terms at the time it is processed.                       *)
StartCredit(r) == \E d \in Redemptions, a \in Amounts :
  Start(r, "credit", RedeemerOf[d], None, d, a)
StartAdjust(r) == \E u \in Users, a \in Adjustments : Start(r, "adjust", u, None, None, a)
StartCancel(r) == \E o \in {"cancel", "drop"} : Start(r, o, None, None, None, 0)
StartQuote(r) == \E u \in Users : Start(r, "quote", u, None, None, 0)

(***************************************************************************)
(* Redis locks: SET NX PX with a token, polled until waitMs has passed;    *)
(* the release deletes the key only if it still carries the token.         *)
(***************************************************************************)
AcquireLock(r) ==
  /\ pc[r] = "lock" /\ lock[LockOf(r)] = None
  /\ lock' = [lock EXCEPT ![LockOf(r)] = r]
  /\ Goto(r, IF call[r].op = "purchase" THEN "settings" ELSE "live")
  /\ UNCHANGED <<settings, db, call, snap, seen, reply>>

GiveUpLock(r) ==
  /\ pc[r] = "lock" /\ lock[LockOf(r)] # None
  /\ Goto(r, "done")
  /\ reply' = [reply EXCEPT ![r] = "rate_limited"]
  /\ UNCHANGED <<settings, db, lock, call, snap, seen>>

ReleaseLock(r) ==
  /\ pc[r] = "release"
  /\ lock' = [lock EXCEPT ![LockOf(r)] = IF @ = r THEN None ELSE @]
  /\ Goto(r, "done")
  /\ UNCHANGED <<settings, db, call, snap, seen, reply>>

LockExpires(k) ==
  /\ lock[k] # None
  /\ lock' = [lock EXCEPT ![k] = None]
  /\ UNCHANGED <<settings, db, pc, call, snap, seen, reply>>

(***************************************************************************)
(* Reads shared by a purchase and a new quote.  A new quote reads before   *)
(* its lock; a purchase reads the settings under the activation lock but   *)
(* before its transaction begins, the active job inside it.                *)
(***************************************************************************)
ReadSettings(r) ==
  /\ pc[r] = "settings"
  /\ snap' = [snap EXCEPT ![r] = settings]
  /\ \/ /\ call[r].op = "quote" /\ ~settings.open
        /\ Answer(r, "waypoints_closed")
     \/ /\ call[r].op = "quote" /\ settings.open
        /\ Goto(r, "active") /\ UNCHANGED reply
     \/ /\ call[r].op = "purchase"
        /\ Goto(r, "quote") /\ UNCHANGED reply
  /\ UNCHANGED <<settings, db, lock, call, seen>>

CheckActive(r) ==
  /\ pc[r] = "active"
  /\ \/ ActiveJobs # {} /\ Answer(r, "waypoint_active")
     \/ ActiveJobs = {} /\ call[r].op = "purchase" /\ Goto(r, "wallet") /\ UNCHANGED reply
     \/ /\ ActiveJobs = {} /\ call[r].op = "quote"
        /\ \/ Goto(r, "lock") /\ UNCHANGED reply
           \/ Answer(r, "rejected")    \* out of bounds, too far, zone, stale GPS
  /\ UNCHANGED <<settings, db, lock, call, snap, seen>>

(***************************************************************************)
(* purchaseInTransaction                                                   *)
(***************************************************************************)
OwnDebit(u, q) == \E e \in Rows(u) : e.type = "WAYPOINT_DEBIT" /\ jobs[e.ref].quote = q

(* The checks made on the locked quote row, in the order of the code;      *)
(* "ok" lets the transaction go on.                                        *)
QuoteVerdict(row, u, q, s) ==
  IF row.status = "NONE" THEN "not_found"
  ELSE IF row.owner # u THEN "forbidden"
  ELSE IF row.status = "PAID" /\ OwnDebit(u, q) THEN "already"
  ELSE IF row.status # "QUOTED" THEN "quote_conflict"
  ELSE IF row.lapsed THEN "expired"
  ELSE IF s.price # row.cost THEN "price_changed"
  ELSE IF ~s.open THEN "waypoints_closed"
  ELSE "ok"

(* lockQuote and everything up to the waypoint check.  An expired or       *)
(* repriced quote is closed, and that commits.                             *)
LockQuote(r) ==
  LET q == call[r].quote
      verdict == QuoteVerdict(quotes[q], call[r].user, q, snap[r])
  IN  /\ pc[r] = "quote" /\ QuoteFree(q)
      /\ \/ verdict = "ok" /\ Goto(r, "active") /\ UNCHANGED reply
         \/ verdict # "ok" /\ Answer(r, verdict)
      /\ quotes' = CASE verdict = "expired" -> [quotes EXCEPT ![q].status = "EXPIRED"]
                     [] verdict = "price_changed" -> [quotes EXCEPT ![q].status = "CANCELED"]
                     [] OTHER -> quotes
      /\ UNCHANGED <<settings, jobs, balance, ledger, lock, call, snap, seen>>

Funds(r) == CASE call[r].op = "purchase" -> -quotes[call[r].quote].cost
              [] OTHER -> call[r].amount

(* The balance check of the purchase and of appendEntry.                   *)
Unchecked(r) == TRUE
Affordable(r) == balance[call[r].user] + Funds(r) >= 0

(* lockWallet, by whichever transaction; then the balance check, made on   *)
(* the balance just read.                                                  *)
LockWallet(r) ==
  LET u == call[r].user
  IN  /\ pc[r] = "wallet" /\ WalletFree(u)
      /\ seen' = [seen EXCEPT ![r] = balance[u]]
      /\ \/ ~Affordable(r) /\ Answer(r, "insufficient_funds")
         \/ /\ Affordable(r)
            /\ Goto(r, IF call[r].op = "purchase" THEN "insert" ELSE "append")
            /\ UNCHANGED reply
      /\ UNCHANGED <<settings, db, lock, call, snap>>

(* UPDATE ... 'PAID' and insertActiveWaypoint: a unique violation rolls    *)
(* everything back and becomes an answer.                                  *)
AnyViolationIsAlready(r) ==
  /\ pc[r] = "insert" /\ IndexDecided
  /\ \/ (OneActiveConflict \/ OnePerQuoteConflict(call[r].quote)) /\ Answer(r, "already")
     \/ /\ ~OneActiveConflict /\ ~OnePerQuoteConflict(call[r].quote)
        /\ Goto(r, "debit") /\ UNCHANGED reply
  /\ UNCHANGED <<settings, db, lock, call, snap, seen>>
InsertWaypoint(r) ==
  /\ pc[r] = "insert" /\ IndexDecided
  /\ \/ OneActiveConflict /\ Answer(r, "waypoint_active")
     \/ OnePerQuoteConflict(call[r].quote) /\ Answer(r, "already")
     \/ /\ ~OneActiveConflict /\ ~OnePerQuoteConflict(call[r].quote)
        /\ Goto(r, "debit") /\ UNCHANGED reply
  /\ UNCHANGED <<settings, db, lock, call, snap, seen>>

(* debitForWaypoint and COMMIT. *)
DebitAndCommit(r) ==
  LET q == call[r].quote
  IN  /\ pc[r] = "debit"
      /\ \/ OneDebitConflict(q) /\ Answer(r, "already") /\ UNCHANGED db
         \/ ~OneDebitConflict(q) /\ BalanceMoved(r) /\ Answer(r, "error") /\ UNCHANGED db
         \/ /\ ~OneDebitConflict(q) /\ ~BalanceMoved(r)
            /\ quotes' = [quotes EXCEPT ![q].status = "PAID"]
            /\ jobs' = [jobs EXCEPT ![r] = [status |-> "ACTIVE", quote |-> q]]
            /\ AppendEntry(call[r].user, "WAYPOINT_DEBIT", Funds(r), r, seen[r])
            /\ Answer(r, "charged")
      /\ UNCHANGED <<settings, lock, call, snap, seen>>

(***************************************************************************)
(* The other transactions on a wallet: an exchange credit, a correction    *)
(* and a refund book one row and commit.  A credit or refund that is       *)
(* booked already is skipped (ON CONFLICT DO NOTHING) and the balance left *)
(* alone; the cancellation of the job commits either way.                  *)
(***************************************************************************)
Booked(c) ==
  \/ c.op = "credit" /\ RedemptionConflict(c.ref)
  \/ c.op = "cancel" /\ RefundConflict(c.ref)
RefundAsAdjustment(o) == IF o = "credit" THEN "EXCHANGE_CREDIT" ELSE "ADMIN_ADJUSTMENT"
EntryType(o) == CASE o = "credit" -> "EXCHANGE_CREDIT"
                  [] o = "adjust" -> "ADMIN_ADJUSTMENT"
                  [] o = "cancel" -> "MISSION_REFUND"
Done(o) == CASE o = "credit" -> "credited" [] o = "adjust" -> "adjusted" [] o = "cancel" -> "refunded"
Skipped(o) == IF o = "credit" THEN "duplicate" ELSE "canceled"
KeepJob(c) == jobs' = jobs
CloseJob(c) == jobs' = IF c.op = "cancel" THEN [jobs EXCEPT ![c.ref].status = "CANCELED"] ELSE jobs

AppendAndCommit(r) ==
  LET c == call[r]
  IN  /\ pc[r] = "append"
      /\ \/ Booked(c) /\ Answer(r, Skipped(c.op)) /\ CloseJob(c) /\ UNCHANGED <<balance, ledger>>
         \/ ~Booked(c) /\ BalanceMoved(r) /\ Answer(r, "error") /\ UNCHANGED <<jobs, balance, ledger>>
         \/ /\ ~Booked(c) /\ ~BalanceMoved(r)
            /\ CloseJob(c)
            /\ AppendEntry(c.user, EntryType(c.op), c.amount, c.ref, seen[r])
            /\ Answer(r, Done(c.op))
      /\ UNCHANGED <<settings, quotes, lock, call, snap, seen>>

(***************************************************************************)
(* cancelWaypoint: UPDATE whichever job is ACTIVE.  Without refundGta      *)
(* ("drop") that is the whole transaction.  With it, the job's own debit   *)
(* says whose wallet to lock and how much to give back.                    *)
(***************************************************************************)
CancelJob(r) ==
  /\ pc[r] = "update"
  /\ \/ ActiveJobs = {} /\ Answer(r, "not_found") /\ UNCHANGED <<jobs, call>>
     \/ \E w \in ActiveJobs :
          /\ JobFree(w)
          /\ \/ /\ call[r].op = "drop" \/ \A u \in Users : DebitOf(w, u) = {}
                /\ jobs' = [jobs EXCEPT ![w].status = "CANCELED"]
                /\ call' = [call EXCEPT ![r].ref = w]
                /\ Answer(r, "canceled")
             \/ \E u \in Users : \E e \in DebitOf(w, u) :
                /\ call[r].op = "cancel"
                /\ call' = [call EXCEPT ![r] = Asks("cancel", u, None, w, -e.amount)]
                /\ Goto(r, "wallet") /\ UNCHANGED <<jobs, reply>>
  /\ UNCHANGED <<settings, quotes, balance, ledger, lock, snap, seen>>

(* completeWaypoint: one UPDATE, and never a refund. *)
CompleteJob == \E w \in ActiveJobs :
  /\ JobFree(w)
  /\ jobs' = [jobs EXCEPT ![w].status = "COMPLETED"]
  /\ UNCHANGED <<settings, quotes, balance, ledger, lock, pc, call, snap, seen, reply>>

(***************************************************************************)
(* createViewerQuote under the viewer's lock: supersede the live quote by  *)
(* a compare-and-set, then insert the new one.                             *)
(***************************************************************************)
Live(q, u) == quotes[q].status = "QUOTED" /\ quotes[q].owner = u /\ ~quotes[q].lapsed

FindLiveQuote(r) ==
  LET mine == {q \in Quotes : Live(q, call[r].user)}
  IN  /\ pc[r] = "live"
      /\ \/ mine = {} /\ Goto(r, "create") /\ UNCHANGED call
         \/ \E q \in mine : call' = [call EXCEPT ![r].quote = q] /\ Goto(r, "supersede")
      /\ UNCHANGED <<settings, db, lock, snap, seen, reply>>

(* setQuoteStatus: the UPDATE waits for the row, then WHERE is decided     *)
(* again on what was committed meanwhile.                                  *)
SetWithoutWhere(q, status) ==
  QuoteFree(q) /\ quotes' = [quotes EXCEPT ![q].status = status]
SetQuoteStatus(q, status) ==
  /\ QuoteFree(q)
  /\ quotes' = IF quotes[q].status = "QUOTED" THEN [quotes EXCEPT ![q].status = status] ELSE quotes

Supersede(r) ==
  /\ pc[r] = "supersede"
  /\ SetQuoteStatus(call[r].quote, "CANCELED")
  /\ Goto(r, "create")
  /\ UNCHANGED <<settings, jobs, balance, ledger, lock, call, snap, seen, reply>>

(* createQuote: quotes_one_live_per_viewer counts lapsed quotes too, and a *)
(* quote that an uncommitted purchase has set to PAID keeps it waiting.    *)
(* Running out of quote ids bounds the model; the code gives up after six  *)
(* collisions of the quote's code.                                         *)
CreateQuote(r) ==
  LET u == call[r].user
  IN  /\ pc[r] = "create"
      /\ \A p \in Requests : Inserting(p) => call[p].user # u
      /\ \/ OneLiveConflict(u) /\ Answer(r, "quote_conflict") /\ UNCHANGED quotes
         \/ /\ ~OneLiveConflict(u) /\ \A q \in Quotes : quotes[q].status # "NONE"
            /\ Answer(r, "error") /\ UNCHANGED quotes
         \/ \E q \in Quotes :
              /\ ~OneLiveConflict(u) /\ quotes[q].status = "NONE"
              /\ quotes' = [quotes EXCEPT ![q] =
                   [status |-> "QUOTED", owner |-> u, cost |-> snap[r].price, lapsed |-> FALSE]]
              /\ Answer(r, "quoted")
      /\ UNCHANGED <<settings, jobs, balance, ledger, lock, call, snap, seen>>

(***************************************************************************)
(* What no request of the model carries: a quote's deadline passing, the   *)
(* sweep of expired quotes, a viewer (or the admin's clear) cancelling a   *)
(* quote, the admin changing the settings.                                 *)
(***************************************************************************)
QuoteLapses(q) ==
  /\ quotes[q].status = "QUOTED" /\ ~quotes[q].lapsed
  /\ quotes' = [quotes EXCEPT ![q].lapsed = TRUE]
  /\ UNCHANGED <<settings, jobs, balance, ledger, lock, pc, call, snap, seen, reply>>

ExpireQuote(q) ==
  /\ quotes[q].status = "QUOTED" /\ quotes[q].lapsed
  /\ SetQuoteStatus(q, "EXPIRED")
  /\ UNCHANGED <<settings, jobs, balance, ledger, lock, pc, call, snap, seen, reply>>

CancelQuote(q) ==
  /\ quotes[q].status = "QUOTED"
  /\ SetQuoteStatus(q, "CANCELED")
  /\ UNCHANGED <<settings, jobs, balance, ledger, lock, pc, call, snap, seen, reply>>

SaveSettings == \E s \in Saves :
  /\ settings' = s
  /\ UNCHANGED <<db, lock, pc, call, snap, seen, reply>>

(***************************************************************************)
(* Failures.  A statement or a Redis call throws: the transaction rolls    *)
(* back and the finally block releases the lock.  If that release throws,  *)
(* its error takes the place of the answer; the lock stays until its TTL,  *)
(* as it does when the process dies.                                       *)
(***************************************************************************)
Throws(r) ==
  /\ pc[r] \notin {"idle", "release", "done"}
  /\ Answer(r, "error")
  /\ UNCHANGED <<settings, db, lock, call, snap, seen>>

ReleaseFails(r) ==
  /\ pc[r] = "release"
  /\ Goto(r, "done") /\ reply' = [reply EXCEPT ![r] = "error"]
  /\ UNCHANGED <<settings, db, lock, call, snap, seen>>

Dies(r) ==
  /\ pc[r] \notin {"idle", "done"}
  /\ Goto(r, "done") /\ reply' = [reply EXCEPT ![r] = "lost"]
  /\ UNCHANGED <<settings, db, lock, call, snap, seen>>

-----------------------------------------------------------------------------
Init ==
  /\ settings \in Saves
  /\ quotes = [q \in Quotes |->
       IF OpenQuotes[q] = None
       THEN [status |-> "NONE", owner |-> None, cost |-> 0, lapsed |-> FALSE]
       ELSE [status |-> "QUOTED", owner |-> OpenQuotes[q], cost |-> settings.price, lapsed |-> FALSE]]
  /\ jobs = [w \in Requests |-> NoJob]
  /\ balance = Opening
  /\ ledger = [u \in Users |->
       IF Opening[u] = 0 THEN <<>>
       ELSE <<[type |-> "ADMIN_ADJUSTMENT", amount |-> Opening[u], after |-> Opening[u], ref |-> None]>>]
  /\ lock = [k \in Users \union {Channel} |-> None]
  /\ pc = [r \in Requests |-> "idle"]
  /\ call = [r \in Requests |-> NoCall]
  /\ snap = [r \in Requests |-> settings]
  /\ seen = [r \in Requests |-> 0]
  /\ reply = [r \in Requests |-> "none"]

StartSome(r) == StartPurchase(r) \/ StartCredit(r) \/ StartAdjust(r) \/ StartCancel(r) \/ StartQuote(r)

(* The statements of a request that has started. *)
Step(r) ==
  \/ AcquireLock(r) \/ GiveUpLock(r) \/ ReleaseLock(r)
  \/ ReadSettings(r) \/ CheckActive(r)
  \/ LockQuote(r) \/ LockWallet(r) \/ InsertWaypoint(r) \/ DebitAndCommit(r)
  \/ AppendAndCommit(r) \/ CancelJob(r)
  \/ FindLiveQuote(r) \/ Supersede(r) \/ CreateQuote(r)

Next ==
  \/ \E r \in Requests : StartSome(r) \/ Step(r)
  \/ \E r \in Fallible : Throws(r) \/ ReleaseFails(r) \/ Dies(r)
  \/ \E q \in Perishable : QuoteLapses(q) \/ ExpireQuote(q) \/ CancelQuote(q)
  \/ \E k \in Users \union {Channel} : LockExpires(k)
  \/ CompleteJob \/ SaveSettings

Spec == Init /\ [][Next]_vars

(* The event loop runs every started request on; polling, deadlines and    *)
(* TTLs are timers.  Nothing else is fair.                                 *)
Fairness ==
  /\ \A r \in Requests : WF_vars(Step(r))
  /\ \A k \in Users \union {Channel} : WF_vars(LockExpires(k))
FairSpec == Spec /\ Fairness

-----------------------------------------------------------------------------
(* Every variable has its type; a balance is never negative.               *)
TypeOK ==
  /\ settings \in Settings
  /\ quotes \in [Quotes -> QuoteRow]
  /\ jobs \in [Requests -> JobRow]
  /\ balance \in [Users -> Nat]
  /\ ledger \in [Users -> Seq(Entry)]
  /\ lock \in [Users \union {Channel} -> Requests \union {None}]
  /\ pc \in [Requests -> Steps]
  /\ call \in [Requests -> Call]
  /\ snap \in [Requests -> Settings]
  /\ seen \in [Requests -> Nat]
  /\ reply \in [Requests -> Replies]

(* The balance after the first i entries of a wallet's ledger. *)
BalanceAt(u, i) == IF i = 0 THEN 0 ELSE ledger[u][i].after

(* checkLedgerConsistency: every entry continues the balance of the one    *)
(* before it, and the wallet shows the last: nothing is booked without     *)
(* moving the balance, or moved without being booked.                      *)
LedgerConsistent == \A u \in Users :
  /\ balance[u] = BalanceAt(u, Len(ledger[u]))
  /\ \A i \in 1..Len(ledger[u]) :
       ledger[u][i].after = BalanceAt(u, i - 1) + ledger[u][i].amount

(* "Anything that changes a balance must come through here": between       *)
(* lockWallet and the commit nobody else moves the balance, so the last    *)
(* check of appendEntry (BalanceMoved) never fires.                        *)
LockedBalanceIsCurrent == \A r \in Requests :
  HoldsWallet(r, call[r].user) => seen[r] = balance[call[r].user]

(* A job exists exactly when its quote is PAID, one quote buys one job,    *)
(* and the quote's owner, nobody else, was debited once, the frozen price. *)
JobsArePaid ==
  /\ \A q \in Quotes : quotes[q].status = "PAID" =>
       \E w \in Requests : jobs[w].status # "NONE" /\ jobs[w].quote = q
  /\ \A w \in Requests : jobs[w].status # "NONE" =>
       LET row == quotes[jobs[w].quote]
       IN  /\ row.status = "PAID"
           /\ \E e \in DebitOf(w, row.owner) : e.amount = -row.cost
           /\ \A v \in Requests \ {w} : jobs[v].quote # jobs[w].quote
  /\ \A u \in Users : \A i, j \in 1..Len(ledger[u]) :
       /\ ledger[u][i].type = "WAYPOINT_DEBIT"
       => /\ jobs[ledger[u][i].ref].status # "NONE"
          /\ quotes[jobs[ledger[u][i].ref].quote].owner = u
          /\ ledger[u][j].type = "WAYPOINT_DEBIT" /\ ledger[u][i].ref = ledger[u][j].ref => i = j

(* cancelWaypoint: "canceled" and "refunded" cannot come apart.  A job     *)
(* cancelled with refundGta has exactly one refund, of its own debit, in   *)
(* the same wallet; a job that runs, was completed, or was dropped without *)
(* refundGta has none.                                                     *)
RefundOf(w, u) == {e \in Rows(u) : e.type = "MISSION_REFUND" /\ e.ref = w}
Dropped(w) == \E r \in Requests : call[r].op = "drop" /\ call[r].ref = w
CanceledMeansRefunded ==
  /\ \A w \in Requests : jobs[w].status = "CANCELED" /\ ~Dropped(w) =>
       \E u \in Users : \E e \in RefundOf(w, u), d \in DebitOf(w, u) : e.amount = -d.amount
  /\ \A u \in Users : \A i, j \in 1..Len(ledger[u]) :
       ledger[u][i].type = "MISSION_REFUND"
       => /\ jobs[ledger[u][i].ref].status = "CANCELED" /\ ~Dropped(ledger[u][i].ref)
          /\ ledger[u][j].type = "MISSION_REFUND" /\ ledger[u][i].ref = ledger[u][j].ref => i = j

(* A job that stands or was completed has been paid for by one debit of    *)
(* its quote's price, and one that was canceled has been paid back unless  *)
(* the admin chose otherwise.                                              *)
JobsAreSettled == JobsArePaid /\ CanceledMeansRefunded

(* creditExchange: however often a redemption is delivered, and whatever   *)
(* fails in between, its redeemer holds at most one credit for it, and has *)
(* it once any delivery was answered.                                      *)
CreditedOnce ==
  /\ \A u \in Users : \A i, j \in 1..Len(ledger[u]) :
       ledger[u][i].type = "EXCHANGE_CREDIT"
       => /\ RedeemerOf[ledger[u][i].ref] = u
          /\ ledger[u][j].type = "EXCHANGE_CREDIT" /\ ledger[u][i].ref = ledger[u][j].ref => i = j
  /\ \A r \in Requests : reply[r] \in {"credited", "duplicate"} =>
       \E e \in Rows(call[r].user) : e.type = "EXCHANGE_CREDIT" /\ e.ref = call[r].ref

(* What a viewer is told is so: a refusal (each of purchase's AppErrors)   *)
(* means this request bought nothing, and "already" that the quote was     *)
(* bought by this very viewer.  A lost reply or an error says nothing,     *)
(* which is why the client retries.                                        *)
AnswersAreTruthful == \A r \in Requests :
  /\ jobs[r].status # "NONE" => reply[r] \in {"charged", "error", "lost"}
  /\ reply[r] = "charged" => jobs[r].status # "NONE"
  /\ reply[r] = "already" => /\ quotes[call[r].quote].status = "PAID"
                             /\ quotes[call[r].quote].owner = call[r].user
  /\ reply[r] = "refunded" => RefundConflict(call[r].ref)

(* economyTotals: what is in circulation is what was issued and adjusted,  *)
(* less the price of every job that was not refunded.                      *)
OfType(u, type) == [i \in DOMAIN ledger[u] |-> IF ledger[u][i].type = type THEN ledger[u][i].amount ELSE 0]
SumOf(type) == SumFunction([u \in Users |-> SumFunction(OfType(u, type))])
JobsKept == {w \in Requests : \/ jobs[w].status \in {"ACTIVE", "COMPLETED"}
                              \/ jobs[w].status = "CANCELED" /\ Dropped(w)}
Spent == SumFunction([w \in JobsKept |-> quotes[jobs[w].quote].cost])
MoneyAccounted ==
  SumFunction(balance) = SumOf("EXCHANGE_CREDIT") + SumOf("ADMIN_ADJUSTMENT") - Spent

(* A quote that was paid, expired or cancelled stays so, and its price is  *)
(* frozen from its creation: no sweep, supersede or retry revives one.     *)
QuoteIsFinal == [][\A q \in Quotes :
  /\ quotes[q].status \in {"PAID", "EXPIRED", "CANCELED"} => quotes'[q].status = quotes[q].status
  /\ quotes[q].status # "NONE" => quotes'[q].cost = quotes[q].cost]_vars

(* Every request that starts is answered (or dies): no lock, poll or wait  *)
(* keeps one forever.                                                      *)
EveryRequestEnds == \A r \in Requests : pc[r] # "idle" ~> pc[r] = "done"

(***************************************************************************)
(* The economy implements GtaLedger: what a job's transactions did to each *)
(* quote, seen from its committed rows.                                    *)
(***************************************************************************)
JobState(w) ==
  IF jobs[w].status = "ACTIVE" THEN "RUNNING"
  ELSE IF jobs[w].status = "COMPLETED" THEN "COMPLETED"
  ELSE IF RefundConflict(w) THEN "REFUNDED" ELSE "DROPPED"

Sale == [q \in Quotes |->
  IF \E w \in Requests : jobs[w].status # "NONE" /\ jobs[w].quote = q
  THEN [state |-> JobState(CHOOSE w \in Requests : jobs[w].status # "NONE" /\ jobs[w].quote = q),
        buyer |-> quotes[q].owner, price |-> quotes[q].cost]
  ELSE [state |-> "UNSOLD", buyer |-> None, price |-> 0]]

Promise == INSTANCE GtaLedger WITH
  money <- balance, exchanged <- {d \in Redemptions : RedemptionConflict(d)}, sale <- Sale

(* Every step of every interleaving is one step of the promise, or none.   *)
ImplementsLedger == Promise!Spec
=============================================================================
