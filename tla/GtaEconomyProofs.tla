-------------------------- MODULE GtaEconomyProofs --------------------------
(***************************************************************************)
(* Proofs about GtaEconomy, for any number of viewers, quotes, redemptions *)
(* and requests, any prices and any failures.                              *)
(***************************************************************************)
EXTENDS GtaEconomy, FoldTheorems, TLAPS

Locked == {"append", "insert", "debit"}

(* What the steps a request has passed say of its call. *)
CallShape(r) ==
  /\ pc[r] \in {"insert", "debit", "quote"} => call[r].op = "purchase"
  /\ pc[r] \in {"live", "supersede", "create"} => call[r].op = "quote"
  /\ pc[r] \in {"lock", "settings", "active"} => call[r].op \in {"purchase", "quote"}
  /\ pc[r] = "append" => call[r].op \in {"credit", "adjust", "cancel"}
  /\ pc[r] = "wallet" => call[r].op \in {"purchase", "credit", "adjust", "cancel"}
  /\ pc[r] = "wallet" \/ pc[r] \in Locked => call[r].user \in Users
  /\ call[r].op = "purchase" => call[r].quote \in Quotes
  /\ pc[r] = "supersede" => call[r].quote \in Quotes
  /\ call[r].op = "cancel" => call[r].quote = None
  /\ call[r].op \in {"purchase", "quote"} => call[r].user \in Users
  /\ call[r].op = "purchase" /\ pc[r] \in {"active", "wallet", "insert", "debit"} =>
       quotes[call[r].quote].status # "NONE"

(* One request at a time has a wallet locked... *)
WalletExclusive == \A r, p \in Requests :
  pc[r] \in Locked /\ pc[p] \in Locked /\ call[r].user = call[p].user => r = p
(* ...and it has seen the balance, which covers what it is about to book.  *)
FundsChecked == \A r \in Requests : pc[r] \in Locked => seen[r] + Funds(r) >= 0

WalletInv ==
  /\ TypeOK
  /\ \A r \in Requests : CallShape(r)
  /\ WalletExclusive
  /\ LockedBalanceIsCurrent
  /\ FundsChecked
  /\ LedgerConsistent

-----------------------------------------------------------------------------
LEMMA InitWallet == Init => WalletInv
<1> SUFFICES ASSUME Init PROVE WalletInv
  OBVIOUS
<1> USE EconomyAssumption DEF Init
<1>1. TypeOK
  <2>1. settings \in Settings
    BY DEF Settings
  <2>2. quotes \in [Quotes -> QuoteRow] /\ jobs \in [Requests -> JobRow]
    BY <2>1 DEF QuoteRow, QuoteStatus, JobRow, JobStatus, NoJob, Settings
  <2>3. ledger \in [Users -> Seq(Entry)]
    <3>1. ASSUME NEW u \in Users
          PROVE  [type |-> "ADMIN_ADJUSTMENT", amount |-> Opening[u], after |-> Opening[u], ref |-> None] \in Entry
      BY DEF Entry, EntryTypes, Refs
    <3>2. ASSUME NEW e \in Entry PROVE <<e>> \in Seq(Entry)
      OBVIOUS
    <3>3. <<>> \in Seq(Entry)
      OBVIOUS
    <3>4. QED
      BY <3>1, <3>2, <3>3
  <2>4. lock \in [Users \union {Channel} -> Requests \union {None}] /\ balance \in [Users -> Nat]
    OBVIOUS
  <2>5. pc \in [Requests -> Steps] /\ snap \in [Requests -> Settings] /\ seen \in [Requests -> Nat]
    BY <2>1 DEF Steps
  <2>6. call \in [Requests -> Call] /\ reply \in [Requests -> Replies]
    BY DEF Call, Replies, NoCall, Asks, Refs
  <2>7. QED
    BY <2>1, <2>2, <2>3, <2>4, <2>5, <2>6 DEF TypeOK
<1>2. \A r \in Requests : CallShape(r) /\ pc[r] \notin Locked
  BY DEF CallShape, Locked, NoCall, Asks, OpNames
<1>3. LedgerConsistent
  <2> SUFFICES ASSUME NEW u \in Users
               PROVE  /\ balance[u] = BalanceAt(u, Len(ledger[u]))
                      /\ \A i \in 1..Len(ledger[u]) :
                           ledger[u][i].after = BalanceAt(u, i - 1) + ledger[u][i].amount
    BY DEF LedgerConsistent
  <2>1. CASE Opening[u] = 0
    <3>1. ledger[u] = <<>> /\ Len(ledger[u]) = 0
      BY <2>1
    <3>2. QED
      BY <2>1, <3>1 DEF BalanceAt
  <2>2. CASE Opening[u] # 0
    <3>1. /\ Len(ledger[u]) = 1
          /\ ledger[u][1].amount = Opening[u] /\ ledger[u][1].after = Opening[u]
      BY <2>2
    <3>2. QED
      BY <2>2, <3>1 DEF BalanceAt
  <2>3. QED
    BY <2>1, <2>2
<1>4. QED
  BY <1>1, <1>2, <1>3 DEF WalletInv, WalletExclusive, FundsChecked, LockedBalanceIsCurrent, HoldsWallet, Locked

-----------------------------------------------------------------------------
(* Types, and the shape of the calls, from one step to the next. *)
USE DEF db

(* What a start does, in terms of the call it records.                     *)
Begins(r, c) ==
  /\ pc[r] = "idle" /\ c.op \in Ops
  /\ call' = [call EXCEPT ![r] = c]
  /\ Goto(r, FirstStep(c.op))
  /\ UNCHANGED <<settings, db, lock, snap, seen, reply>>

LEMMA StartBegins ==
  ASSUME NEW r, NEW o, NEW u, NEW q, NEW d, NEW a, Start(r, o, u, q, d, a)
  PROVE  Begins(r, Asks(o, u, q, d, a))
BY DEF Start, Begins, Asks

LEMMA StartType ==
  ASSUME TypeOK, \A p \in Requests : CallShape(p), NEW r \in Requests,
         StartSome(r)
  PROVE  TypeOK' /\ (\A p \in Requests : CallShape(p))'
<1> DEFINE Fits(c) == /\ c \in Call
                      /\ c.op = "purchase" => c.user \in Users /\ c.quote \in Quotes
                      /\ c.op \in {"credit", "adjust", "quote"} => c.user \in Users
                      /\ c.op = "cancel" => c.quote = None
<1>1. \E c : Fits(c) /\ Begins(r, c)
  <2>1. ASSUME NEW u \in Users, NEW q \in Quotes PROVE Fits(Asks("purchase", u, q, None, 0))
    BY DEF Asks, Call, OpNames, Refs
  <2>2. ASSUME NEW d \in Redemptions, NEW a \in Amounts
        PROVE  Fits(Asks("credit", RedeemerOf[d], None, d, a))
    BY EconomyAssumption DEF Asks, Call, OpNames, Refs
  <2>3. ASSUME NEW u \in Users, NEW a \in Adjustments PROVE Fits(Asks("adjust", u, None, None, a))
    BY EconomyAssumption DEF Asks, Call, OpNames, Refs
  <2>4. ASSUME NEW o \in {"cancel", "drop"} PROVE Fits(Asks(o, None, None, None, 0))
    BY DEF Asks, Call, OpNames, Refs
  <2>5. ASSUME NEW u \in Users PROVE Fits(Asks("quote", u, None, None, 0))
    BY DEF Asks, Call, OpNames, Refs
  <2> HIDE DEF Fits
  <2>6. QED
    BY <2>1, <2>2, <2>3, <2>4, <2>5, StartBegins
       DEF StartSome, StartPurchase, StartCredit, StartAdjust, StartCancel, StartQuote
<1>2. PICK c : Fits(c) /\ Begins(r, c)
  BY <1>1
<1>3. FirstStep(c.op) \in {"lock", "settings", "wallet", "update"}
       /\ (FirstStep(c.op) = "wallet" => c.op \in {"credit", "adjust"})
       /\ (FirstStep(c.op) \in {"lock", "settings"} => c.op \in {"purchase", "quote"})
  BY <1>2, EconomyAssumption DEF Begins, FirstStep, OpNames
<1>4. TypeOK'
  BY <1>2, <1>3 DEF TypeOK, Begins, Goto, Steps
<1>5. ASSUME NEW p \in Requests PROVE CallShape(p)'
  BY <1>2, <1>3 DEF CallShape, Begins, Goto, TypeOK, Locked
<1>6. QED
  BY <1>4, <1>5
(* A request leaves the others where they are, and answers with a reply.   *)
Moves(r, S) ==
  /\ pc' \in [Requests -> Steps] /\ pc'[r] \in S
  /\ \A p \in Requests \ {r} : pc'[p] = pc[p]
  /\ reply' \in [Requests -> Replies]

LEMMA GotoMoves ==
  ASSUME TypeOK, NEW r \in Requests, NEW step \in Steps, Goto(r, step), UNCHANGED reply
  PROVE  Moves(r, {step})
BY DEF TypeOK, Goto, Moves

LEMMA AnswerMoves ==
  ASSUME TypeOK, NEW r \in Requests, NEW a \in Replies, Answer(r, a)
  PROVE  Moves(r, {"release", "done"})
BY DEF TypeOK, Goto, Answer, Moves, Steps

LEMMA AcquireLockMoves ==
  ASSUME TypeOK, NEW r \in Requests, AcquireLock(r)
  PROVE  Moves(r, {"settings", "live"})
BY GotoMoves, AnswerMoves DEF AcquireLock, Steps, Replies, Moves

LEMMA GiveUpLockMoves ==
  ASSUME TypeOK, NEW r \in Requests, GiveUpLock(r)
  PROVE  Moves(r, {"done"})
BY DEF GiveUpLock, Goto, Moves, TypeOK, Steps, Replies

LEMMA ReleaseLockMoves ==
  ASSUME TypeOK, NEW r \in Requests, ReleaseLock(r)
  PROVE  Moves(r, {"done"})
BY GotoMoves, AnswerMoves DEF ReleaseLock, Steps, Replies, Moves

LEMMA ReadSettingsMoves ==
  ASSUME TypeOK, NEW r \in Requests, ReadSettings(r)
  PROVE  Moves(r, {"quote", "active", "release", "done"})
BY GotoMoves, AnswerMoves DEF ReadSettings, Steps, Replies, Moves

LEMMA CheckActiveMoves ==
  ASSUME TypeOK, NEW r \in Requests, CheckActive(r)
  PROVE  Moves(r, {"wallet", "lock", "release", "done"})
BY GotoMoves, AnswerMoves DEF CheckActive, Steps, Replies, Moves

LEMMA LockQuoteMoves ==
  ASSUME TypeOK, NEW r \in Requests, LockQuote(r)
  PROVE  Moves(r, {"active", "release", "done"})
BY GotoMoves, AnswerMoves DEF LockQuote, QuoteVerdict, Steps, Replies, Moves

LEMMA LockWalletMoves ==
  ASSUME TypeOK, NEW r \in Requests, LockWallet(r)
  PROVE  Moves(r, {"insert", "append", "release", "done"})
BY GotoMoves, AnswerMoves DEF LockWallet, Steps, Replies, Moves

LEMMA InsertWaypointMoves ==
  ASSUME TypeOK, NEW r \in Requests, InsertWaypoint(r)
  PROVE  Moves(r, {"debit", "release", "done"})
BY GotoMoves, AnswerMoves DEF InsertWaypoint, Steps, Replies, Moves

LEMMA DebitAndCommitMoves ==
  ASSUME TypeOK, NEW r \in Requests, DebitAndCommit(r)
  PROVE  Moves(r, {"release", "done"})
BY GotoMoves, AnswerMoves DEF DebitAndCommit, Steps, Replies, Moves

LEMMA AppendAndCommitMoves ==
  ASSUME TypeOK, NEW r \in Requests, CallShape(r), AppendAndCommit(r)
  PROVE  Moves(r, {"release", "done"})
BY GotoMoves, AnswerMoves DEF AppendAndCommit, Done, Skipped, CallShape, Steps, Replies, Moves

LEMMA CancelJobMoves ==
  ASSUME TypeOK, NEW r \in Requests, CancelJob(r)
  PROVE  Moves(r, {"wallet", "release", "done"})
BY GotoMoves, AnswerMoves DEF CancelJob, Steps, Replies, Moves

LEMMA FindLiveQuoteMoves ==
  ASSUME TypeOK, NEW r \in Requests, FindLiveQuote(r)
  PROVE  Moves(r, {"create", "supersede"})
BY GotoMoves, AnswerMoves DEF FindLiveQuote, Steps, Replies, Moves

LEMMA SupersedeMoves ==
  ASSUME TypeOK, NEW r \in Requests, Supersede(r)
  PROVE  Moves(r, {"create"})
BY GotoMoves, AnswerMoves DEF Supersede, Steps, Replies, Moves

LEMMA CreateQuoteMoves ==
  ASSUME TypeOK, NEW r \in Requests, CreateQuote(r)
  PROVE  Moves(r, {"release", "done"})
BY GotoMoves, AnswerMoves DEF CreateQuote, Steps, Replies, Moves

LEMMA ThrowsMoves ==
  ASSUME TypeOK, NEW r \in Requests, Throws(r)
  PROVE  Moves(r, {"release", "done"})
BY GotoMoves, AnswerMoves DEF Throws, Steps, Replies, Moves

LEMMA ReleaseFailsMoves ==
  ASSUME TypeOK, NEW r \in Requests, ReleaseFails(r)
  PROVE  Moves(r, {"done"})
BY DEF ReleaseFails, Goto, Moves, TypeOK, Steps, Replies

LEMMA DiesMoves ==
  ASSUME TypeOK, NEW r \in Requests, Dies(r)
  PROVE  Moves(r, {"done"})
BY DEF Dies, Goto, Moves, TypeOK, Steps, Replies

(* The rows a step may not take back.                                      *)
QuotesKept == \A q \in Quotes : quotes[q].status # "NONE" =>
  quotes'[q].status # "NONE" /\ quotes'[q].cost = quotes[q].cost

(* A step that books nothing and locks no wallet.                          *)
Quiet ==
  /\ UNCHANGED <<balance, ledger>>
  /\ QuotesKept
  /\ \A p \in Requests : \/ pc'[p] \notin Locked
                         \/ pc[p] \in Locked /\ call'[p] = call[p] /\ seen'[p] = seen[p]

LEMMA QuietStep ==
  ASSUME WalletInv, TypeOK', (\A p \in Requests : CallShape(p))', Quiet
  PROVE  WalletInv'
<1> USE DEF WalletInv
<1>1. ASSUME NEW p \in Requests, pc'[p] \in Locked
      PROVE  pc[p] \in Locked /\ call'[p] = call[p] /\ seen'[p] = seen[p] /\ Funds(p)' = Funds(p)
  <2>1. pc[p] \in Locked /\ call'[p] = call[p] /\ seen'[p] = seen[p]
    BY <1>1 DEF Quiet
  <2>2. CASE call[p].op = "purchase"
    <3>1. pc[p] \in {"insert", "debit"}
      BY <2>1, <2>2 DEF CallShape, Locked
    <3>2. call[p].quote \in Quotes /\ quotes[call[p].quote].status # "NONE"
      BY <3>1, <2>2 DEF CallShape
    <3>3. QED
      BY <3>2, <2>1, <2>2 DEF Quiet, QuotesKept, Funds
  <2>3. CASE call[p].op # "purchase"
    BY <2>1, <2>3 DEF Funds
  <2>4. QED
    BY <2>1, <2>2, <2>3
<1>2. WalletExclusive'
  BY <1>1 DEF WalletExclusive
<1>3. LockedBalanceIsCurrent'
  BY <1>1 DEF LockedBalanceIsCurrent, HoldsWallet, Quiet, Locked
<1>4. FundsChecked'
  BY <1>1 DEF FundsChecked
<1>5. LedgerConsistent'
  BY DEF LedgerConsistent, BalanceAt, Quiet
<1>6. QED
  BY <1>2, <1>3, <1>4, <1>5

(* The shape of the other calls follows from the rows that are kept.       *)
LEMMA ShapeKept ==
  ASSUME TypeOK, \A p \in Requests : CallShape(p), NEW r \in Requests, QuotesKept,
         \A p \in Requests \ {r} : pc'[p] = pc[p] /\ call'[p] = call[p],
         CallShape(r)'
  PROVE  (\A p \in Requests : CallShape(p))'
<1> SUFFICES ASSUME NEW p \in Requests \ {r} PROVE CallShape(p)'
  OBVIOUS
<1>1. CallShape(p) /\ pc'[p] = pc[p] /\ call'[p] = call[p]
  OBVIOUS
<1>2. call[p].op = "purchase" => call[p].quote \in Quotes
  BY <1>1 DEF CallShape
<1>3. QED
  BY <1>1, <1>2 DEF CallShape, QuotesKept

(* Steps that only move one request. *)
LEMMA MoveOnly ==
  ASSUME WalletInv, NEW r \in Requests, NEW S, Moves(r, S),
         UNCHANGED <<quotes, balance, ledger, call, seen>>,
         settings' \in Settings, jobs' \in [Requests -> JobRow],
         lock' \in [Users \union {Channel} -> Requests \union {None}],
         snap' \in [Requests -> Settings],
         CallShape(r)', pc'[r] \in Locked => pc[r] \in Locked
  PROVE  WalletInv'
<1> USE DEF WalletInv
<1>1. TypeOK'
  BY DEF TypeOK, Moves
<1>2. QuotesKept
  BY DEF QuotesKept
<1>3. (\A p \in Requests : CallShape(p))'
  BY <1>2, ShapeKept DEF Moves
<1>4. Quiet
  BY <1>2 DEF Quiet, Moves
<1>5. QED
  BY <1>1, <1>3, <1>4, QuietStep

LEMMA AcquireLockWallet ==
  ASSUME WalletInv, NEW r \in Requests, AcquireLock(r)
  PROVE  WalletInv'
<1>1. TypeOK /\ CallShape(r)
  BY DEF WalletInv
<1>2. Moves(r, {"settings", "live"})
  BY <1>1, AcquireLockMoves
<1>3. CallShape(r)' /\ (pc'[r] \in Locked => pc[r] \in Locked)
  BY <1>1, <1>2 DEF AcquireLock, CallShape, Moves, Locked, Goto, TypeOK
<1>4. settings' \in Settings /\ jobs' \in [Requests -> JobRow]
      /\ lock' \in [Users \union {Channel} -> Requests \union {None}] /\ snap' \in [Requests -> Settings]
  BY <1>1 DEF AcquireLock, TypeOK
<1>5. UNCHANGED <<quotes, balance, ledger, call, seen>>
  BY DEF AcquireLock
<1>6. QED
  BY <1>2, <1>3, <1>4, <1>5, MoveOnly

LEMMA GiveUpLockWallet ==
  ASSUME WalletInv, NEW r \in Requests, GiveUpLock(r)
  PROVE  WalletInv'
<1>1. TypeOK /\ CallShape(r)
  BY DEF WalletInv
<1>2. Moves(r, {"done"})
  BY <1>1, GiveUpLockMoves
<1>3. CallShape(r)' /\ (pc'[r] \in Locked => pc[r] \in Locked)
  BY <1>1, <1>2 DEF GiveUpLock, CallShape, Moves, Locked
<1>4. settings' \in Settings /\ jobs' \in [Requests -> JobRow]
      /\ lock' \in [Users \union {Channel} -> Requests \union {None}] /\ snap' \in [Requests -> Settings]
  BY <1>1 DEF GiveUpLock, TypeOK
<1>5. UNCHANGED <<quotes, balance, ledger, call, seen>>
  BY DEF GiveUpLock
<1>6. QED
  BY <1>2, <1>3, <1>4, <1>5, MoveOnly

LEMMA ReleaseLockWallet ==
  ASSUME WalletInv, NEW r \in Requests, ReleaseLock(r)
  PROVE  WalletInv'
<1>1. TypeOK /\ CallShape(r)
  BY DEF WalletInv
<1>2. Moves(r, {"done"})
  BY <1>1, ReleaseLockMoves
<1>3. CallShape(r)' /\ (pc'[r] \in Locked => pc[r] \in Locked)
  BY <1>1, <1>2 DEF ReleaseLock, CallShape, Moves, Locked
<1>4. settings' \in Settings /\ jobs' \in [Requests -> JobRow]
      /\ lock' \in [Users \union {Channel} -> Requests \union {None}] /\ snap' \in [Requests -> Settings]
  BY <1>1 DEF ReleaseLock, TypeOK
<1>5. UNCHANGED <<quotes, balance, ledger, call, seen>>
  BY DEF ReleaseLock
<1>6. QED
  BY <1>2, <1>3, <1>4, <1>5, MoveOnly

LEMMA ReadSettingsWallet ==
  ASSUME WalletInv, NEW r \in Requests, ReadSettings(r)
  PROVE  WalletInv'
<1>1. TypeOK /\ CallShape(r)
  BY DEF WalletInv
<1>2. Moves(r, {"quote", "active", "release", "done"})
  BY <1>1, ReadSettingsMoves
<1>3. CallShape(r)' /\ (pc'[r] \in Locked => pc[r] \in Locked)
  BY <1>1, <1>2 DEF ReadSettings, CallShape, Moves, Locked, Goto, Answer, TypeOK
<1>4. settings' \in Settings /\ jobs' \in [Requests -> JobRow]
      /\ lock' \in [Users \union {Channel} -> Requests \union {None}] /\ snap' \in [Requests -> Settings]
  BY <1>1 DEF ReadSettings, TypeOK
<1>5. UNCHANGED <<quotes, balance, ledger, call, seen>>
  BY DEF ReadSettings
<1>6. QED
  BY <1>2, <1>3, <1>4, <1>5, MoveOnly

LEMMA CheckActiveWallet ==
  ASSUME WalletInv, NEW r \in Requests, CheckActive(r)
  PROVE  WalletInv'
<1>1. TypeOK /\ CallShape(r)
  BY DEF WalletInv
<1>2. Moves(r, {"wallet", "lock", "release", "done"})
  BY <1>1, CheckActiveMoves
<1>3. CallShape(r)' /\ (pc'[r] \in Locked => pc[r] \in Locked)
  BY <1>1, <1>2 DEF CheckActive, CallShape, Moves, Locked, Goto, Answer, TypeOK
<1>4. settings' \in Settings /\ jobs' \in [Requests -> JobRow]
      /\ lock' \in [Users \union {Channel} -> Requests \union {None}] /\ snap' \in [Requests -> Settings]
  BY <1>1 DEF CheckActive, TypeOK
<1>5. UNCHANGED <<quotes, balance, ledger, call, seen>>
  BY DEF CheckActive
<1>6. QED
  BY <1>2, <1>3, <1>4, <1>5, MoveOnly

LEMMA InsertWaypointWallet ==
  ASSUME WalletInv, NEW r \in Requests, InsertWaypoint(r)
  PROVE  WalletInv'
<1>1. TypeOK /\ CallShape(r)
  BY DEF WalletInv
<1>2. Moves(r, {"debit", "release", "done"})
  BY <1>1, InsertWaypointMoves
<1>3. CallShape(r)' /\ (pc'[r] \in Locked => pc[r] \in Locked)
  BY <1>1, <1>2 DEF InsertWaypoint, CallShape, Moves, Locked
<1>4. settings' \in Settings /\ jobs' \in [Requests -> JobRow]
      /\ lock' \in [Users \union {Channel} -> Requests \union {None}] /\ snap' \in [Requests -> Settings]
  BY <1>1 DEF InsertWaypoint, TypeOK
<1>5. UNCHANGED <<quotes, balance, ledger, call, seen>>
  BY DEF InsertWaypoint
<1>6. QED
  BY <1>2, <1>3, <1>4, <1>5, MoveOnly

LEMMA ThrowsWallet ==
  ASSUME WalletInv, NEW r \in Requests, Throws(r)
  PROVE  WalletInv'
<1>1. TypeOK /\ CallShape(r)
  BY DEF WalletInv
<1>2. Moves(r, {"release", "done"})
  BY <1>1, ThrowsMoves
<1>3. CallShape(r)' /\ (pc'[r] \in Locked => pc[r] \in Locked)
  BY <1>1, <1>2 DEF Throws, CallShape, Moves, Locked
<1>4. settings' \in Settings /\ jobs' \in [Requests -> JobRow]
      /\ lock' \in [Users \union {Channel} -> Requests \union {None}] /\ snap' \in [Requests -> Settings]
  BY <1>1 DEF Throws, TypeOK
<1>5. UNCHANGED <<quotes, balance, ledger, call, seen>>
  BY DEF Throws
<1>6. QED
  BY <1>2, <1>3, <1>4, <1>5, MoveOnly

LEMMA ReleaseFailsWallet ==
  ASSUME WalletInv, NEW r \in Requests, ReleaseFails(r)
  PROVE  WalletInv'
<1>1. TypeOK /\ CallShape(r)
  BY DEF WalletInv
<1>2. Moves(r, {"done"})
  BY <1>1, ReleaseFailsMoves
<1>3. CallShape(r)' /\ (pc'[r] \in Locked => pc[r] \in Locked)
  BY <1>1, <1>2 DEF ReleaseFails, CallShape, Moves, Locked
<1>4. settings' \in Settings /\ jobs' \in [Requests -> JobRow]
      /\ lock' \in [Users \union {Channel} -> Requests \union {None}] /\ snap' \in [Requests -> Settings]
  BY <1>1 DEF ReleaseFails, TypeOK
<1>5. UNCHANGED <<quotes, balance, ledger, call, seen>>
  BY DEF ReleaseFails
<1>6. QED
  BY <1>2, <1>3, <1>4, <1>5, MoveOnly

LEMMA DiesWallet ==
  ASSUME WalletInv, NEW r \in Requests, Dies(r)
  PROVE  WalletInv'
<1>1. TypeOK /\ CallShape(r)
  BY DEF WalletInv
<1>2. Moves(r, {"done"})
  BY <1>1, DiesMoves
<1>3. CallShape(r)' /\ (pc'[r] \in Locked => pc[r] \in Locked)
  BY <1>1, <1>2 DEF Dies, CallShape, Moves, Locked
<1>4. settings' \in Settings /\ jobs' \in [Requests -> JobRow]
      /\ lock' \in [Users \union {Channel} -> Requests \union {None}] /\ snap' \in [Requests -> Settings]
  BY <1>1 DEF Dies, TypeOK
<1>5. UNCHANGED <<quotes, balance, ledger, call, seen>>
  BY DEF Dies
<1>6. QED
  BY <1>2, <1>3, <1>4, <1>5, MoveOnly

(* Steps that change a quote, a job or the rows the request has found, and *)
(* book nothing.                                                           *)
LEMMA RowStep ==
  ASSUME WalletInv, NEW r \in Requests, NEW S, Moves(r, S), TypeOK', QuotesKept,
         UNCHANGED <<balance, ledger, seen>>,
         \A p \in Requests \ {r} : call'[p] = call[p],
         CallShape(r)', pc'[r] \notin Locked
  PROVE  WalletInv'
<1>1. (\A p \in Requests : CallShape(p))'
  BY ShapeKept DEF Moves, WalletInv
<1>2. Quiet
  BY DEF Quiet, Moves
<1>3. QED
  BY <1>1, <1>2, QuietStep

LEMMA StartWallet ==
  ASSUME WalletInv, NEW r \in Requests, StartSome(r)
  PROVE  WalletInv'
<1>1. TypeOK' /\ (\A p \in Requests : CallShape(p))'
  BY StartType DEF WalletInv
<1>2. PICK c : c.op \in OpNames /\ Begins(r, c)
  <2>1. ASSUME NEW o, NEW u, NEW q, NEW d, NEW a, Start(r, o, u, q, d, a)
        PROVE  \E c : c.op \in OpNames /\ Begins(r, c)
    <3>1. Asks(o, u, q, d, a).op = o /\ o \in OpNames
      BY <2>1, EconomyAssumption DEF Start, Asks
    <3>2. QED
      BY <2>1, <3>1, StartBegins
  <2>2. QED
    BY <2>1 DEF StartSome, StartPurchase, StartCredit, StartAdjust, StartCancel, StartQuote
<1>3. FirstStep(c.op) \notin Locked
  BY <1>2 DEF FirstStep, Locked, OpNames
<1>4. Quiet
  <2>1. QuotesKept /\ UNCHANGED <<balance, ledger, seen>>
    BY <1>2 DEF Begins, QuotesKept
  <2>2. ASSUME NEW p \in Requests
        PROVE \/ pc'[p] \notin Locked
              \/ pc[p] \in Locked /\ call'[p] = call[p] /\ seen'[p] = seen[p]
    <3>1. TypeOK /\ seen' = seen
      BY <1>2 DEF WalletInv, Begins
    <3>2. CASE p = r
      BY <1>2, <1>3, <3>1, <3>2 DEF Begins, Goto, TypeOK
    <3>3. CASE p # r
      BY <1>2, <3>1, <3>3 DEF Begins, Goto, TypeOK
    <3>4. QED
      BY <3>2, <3>3
  <2>3. QED
    BY <2>1, <2>2 DEF Quiet
<1>5. QED
  BY <1>1, <1>4, QuietStep

(* A quote whose status changes keeps its owner and its price.             *)
LEMMA StatusKept ==
  ASSUME TypeOK, NEW q \in Quotes, NEW s \in QuoteStatus \ {"NONE"},
         quotes' = [quotes EXCEPT ![q].status = s]
  PROVE  quotes' \in [Quotes -> QuoteRow] /\ QuotesKept
BY DEF TypeOK, QuotesKept, QuoteRow

LEMMA LockQuoteWallet ==
  ASSUME WalletInv, NEW r \in Requests, LockQuote(r)
  PROVE  WalletInv'
<1> DEFINE q == call[r].quote
           verdict == QuoteVerdict(quotes[q], call[r].user, q, snap[r])
<1>1. TypeOK /\ CallShape(r) /\ pc[r] = "quote" /\ call[r].op = "purchase" /\ q \in Quotes
  BY DEF WalletInv, CallShape, LockQuote
<1>2. Moves(r, {"active", "release", "done"})
  BY <1>1, LockQuoteMoves
<1>3. quotes' \in [Quotes -> QuoteRow] /\ QuotesKept
  <2>1. quotes' \in {quotes, [quotes EXCEPT ![q].status = "EXPIRED"], [quotes EXCEPT ![q].status = "CANCELED"]}
    BY DEF LockQuote
  <2>2. CASE quotes' = quotes
    BY <1>1, <2>2 DEF TypeOK, QuotesKept
  <2>3. CASE quotes' = [quotes EXCEPT ![q].status = "EXPIRED"]
    <3>1. "EXPIRED" \in QuoteStatus \ {"NONE"}
      BY DEF QuoteStatus
    <3>2. QED
      BY <1>1, <2>3, <3>1, StatusKept
  <2>4. CASE quotes' = [quotes EXCEPT ![q].status = "CANCELED"]
    <3>1. "CANCELED" \in QuoteStatus \ {"NONE"}
      BY DEF QuoteStatus
    <3>2. QED
      BY <1>1, <2>4, <3>1, StatusKept
  <2>5. QED
    BY <2>1, <2>2, <2>3, <2>4
<1>4. UNCHANGED <<settings, jobs, balance, ledger, lock, call, snap, seen>>
  BY DEF LockQuote
<1>5. TypeOK'
  BY <1>1, <1>2, <1>3, <1>4 DEF TypeOK, Moves
<1>6. pc'[r] = "active" => quotes[q].status # "NONE"
  BY <1>1 DEF LockQuote, Goto, Answer, QuoteVerdict, TypeOK
<1>7. CallShape(r)' /\ pc'[r] \notin Locked
  BY <1>1, <1>2, <1>3, <1>4, <1>6 DEF CallShape, Moves, Locked, QuotesKept
<1>8. QED
  BY <1>2, <1>3, <1>4, <1>5, <1>7, RowStep

LEMMA CancelJobWallet ==
  ASSUME WalletInv, NEW r \in Requests, CancelJob(r)
  PROVE  WalletInv'
<1>1. TypeOK /\ CallShape(r)
  BY DEF WalletInv
<1>2. Moves(r, {"wallet", "release", "done"})
  BY <1>1, CancelJobMoves
<1>3. UNCHANGED <<settings, quotes, balance, ledger, lock, snap, seen>> /\ QuotesKept
  BY DEF CancelJob, QuotesKept
<1>4. /\ jobs' \in [Requests -> JobRow] /\ call' \in [Requests -> Call]
      /\ \A p \in Requests \ {r} : call'[p] = call[p]
      /\ call'[r].op = call[r].op /\ call'[r].quote = call[r].quote
      /\ call'[r].user = call[r].user \/ call'[r].user \in Users
      /\ pc'[r] = "wallet" => call'[r].op = "cancel" /\ call'[r].user \in Users
  <2>1. CASE ActiveJobs = {} /\ Answer(r, "not_found") /\ UNCHANGED <<jobs, call>>
    BY <1>1, <2>1 DEF TypeOK, Answer, Goto
  <2>2. CASE \E w \in ActiveJobs : /\ jobs' = [jobs EXCEPT ![w].status = "CANCELED"]
                                   /\ call' = [call EXCEPT ![r].ref = w]
                                   /\ Answer(r, "canceled")
    <3>1. PICK w \in ActiveJobs : /\ jobs' = [jobs EXCEPT ![w].status = "CANCELED"]
                                  /\ call' = [call EXCEPT ![r].ref = w]
                                  /\ Answer(r, "canceled")
      BY <2>2
    <3>2. jobs' \in [Requests -> JobRow]
      BY <1>1, <3>1 DEF TypeOK, ActiveJobs, JobRow, JobStatus
    <3>3. w \in Refs
      BY DEF ActiveJobs, Refs
    <3>4. call' \in [Requests -> Call]
      BY <1>1, <3>1, <3>3 DEF TypeOK, Call
    <3>5. QED
      BY <1>1, <3>1, <3>2, <3>4 DEF TypeOK, Answer, Goto
  <2>3. CASE \E w \in ActiveJobs : \E u \in Users : \E e \in DebitOf(w, u) :
                /\ call[r].op = "cancel"
                /\ call' = [call EXCEPT ![r] = Asks("cancel", u, None, w, -e.amount)]
                /\ Goto(r, "wallet") /\ UNCHANGED <<jobs, reply>>
    <3> PICK w \in ActiveJobs, u \in Users : \E e \in DebitOf(w, u) :
                /\ call[r].op = "cancel"
                /\ call' = [call EXCEPT ![r] = Asks("cancel", u, None, w, -e.amount)]
                /\ Goto(r, "wallet") /\ UNCHANGED <<jobs, reply>>
      BY <2>3
    <3>1. PICK e \in DebitOf(w, u) :
                /\ call[r].op = "cancel"
                /\ call' = [call EXCEPT ![r] = Asks("cancel", u, None, w, -e.amount)]
                /\ Goto(r, "wallet") /\ UNCHANGED <<jobs, reply>>
      OBVIOUS
    <3>2. e \in Entry
      BY <1>1 DEF DebitOf, Rows, TypeOK
    <3>3. -e.amount \in Int /\ w \in Refs
      BY <3>2 DEF Entry, ActiveJobs, Refs
    <3>4. Asks("cancel", u, None, w, -e.amount) \in Call
      BY <3>3 DEF Asks, Call, OpNames
    <3>5. call[r].quote = None
      BY <1>1, <3>1 DEF CallShape
    <3>6. QED
      BY <1>1, <3>1, <3>4, <3>5 DEF TypeOK, Asks
  <2>4. QED
    BY <2>1, <2>2, <2>3 DEF CancelJob
<1>5. TypeOK'
  BY <1>1, <1>2, <1>3, <1>4 DEF TypeOK, Moves
<1>6. CallShape(r)' /\ pc'[r] \notin Locked
  BY <1>1, <1>2, <1>3, <1>4 DEF CallShape, Moves, Locked, CancelJob
<1>7. QED
  BY <1>2, <1>3, <1>4, <1>5, <1>6, RowStep

LEMMA FindLiveQuoteWallet ==
  ASSUME WalletInv, NEW r \in Requests, FindLiveQuote(r)
  PROVE  WalletInv'
<1>1. TypeOK /\ CallShape(r) /\ call[r].op = "quote"
  BY DEF WalletInv, CallShape, FindLiveQuote
<1>2. Moves(r, {"create", "supersede"})
  BY <1>1, FindLiveQuoteMoves
<1>3. UNCHANGED <<settings, quotes, jobs, balance, ledger, lock, snap, seen, reply>> /\ QuotesKept
  BY DEF FindLiveQuote, QuotesKept
<1>4. /\ call' \in [Requests -> Call]
      /\ \A p \in Requests \ {r} : call'[p] = call[p]
      /\ call'[r].op = call[r].op /\ call'[r].user = call[r].user
      /\ call'[r].quote = call[r].quote \/ call'[r].quote \in Quotes
      /\ pc'[r] = "supersede" => call'[r].quote \in Quotes
  <2>1. CASE UNCHANGED call /\ Goto(r, "create")
    BY <1>1, <2>1 DEF TypeOK, Goto
  <2>2. CASE \E q \in Quotes : call' = [call EXCEPT ![r].quote = q]
    <3>1. PICK q \in Quotes : call' = [call EXCEPT ![r].quote = q]
      BY <2>2
    <3>2. call' \in [Requests -> Call]
      <4>1. call[r] \in Call /\ [call[r] EXCEPT !.quote = q] \in Call
        BY <1>1 DEF TypeOK, Call
      <4>2. call' = [call EXCEPT ![r] = [call[r] EXCEPT !.quote = q]]
        BY <3>1
      <4>3. QED
        BY <1>1, <4>1, <4>2 DEF TypeOK
    <3>3. call'[r].quote = q /\ call'[r].op = call[r].op /\ call'[r].user = call[r].user
      BY <1>1, <3>1 DEF TypeOK, Call
    <3>4. \A p \in Requests \ {r} : call'[p] = call[p]
      BY <1>1, <3>1 DEF TypeOK
    <3>5. QED
      BY <3>2, <3>3, <3>4
  <2>3. QED
    BY <2>1, <2>2 DEF FindLiveQuote
<1>5. TypeOK'
  BY <1>1, <1>2, <1>3, <1>4 DEF TypeOK, Moves
<1>6. CallShape(r)' /\ pc'[r] \notin Locked
  BY <1>1, <1>2, <1>3, <1>4 DEF CallShape, Moves, Locked
<1>7. QED
  BY <1>2, <1>3, <1>4, <1>5, <1>6, RowStep

LEMMA SupersedeWallet ==
  ASSUME WalletInv, NEW r \in Requests, Supersede(r)
  PROVE  WalletInv'
<1>1. TypeOK /\ CallShape(r) /\ call[r].op = "quote" /\ call[r].quote \in Quotes
  BY DEF WalletInv, CallShape, Supersede
<1>2. Moves(r, {"create"})
  BY <1>1, SupersedeMoves
<1>3. quotes' \in [Quotes -> QuoteRow] /\ QuotesKept
  BY <1>1, StatusKept DEF Supersede, SetQuoteStatus, QuoteStatus, TypeOK, QuotesKept
<1>4. UNCHANGED <<settings, jobs, balance, ledger, lock, call, snap, seen>>
  BY DEF Supersede
<1>5. TypeOK'
  BY <1>1, <1>2, <1>3, <1>4 DEF TypeOK, Moves
<1>6. CallShape(r)' /\ pc'[r] \notin Locked
  BY <1>1, <1>2, <1>4 DEF CallShape, Moves, Locked
<1>7. QED
  BY <1>2, <1>3, <1>4, <1>5, <1>6, RowStep

LEMMA CreateQuoteWallet ==
  ASSUME WalletInv, NEW r \in Requests, CreateQuote(r)
  PROVE  WalletInv'
<1>1. TypeOK /\ CallShape(r) /\ call[r].user \in Users
  BY DEF WalletInv, CallShape, CreateQuote
<1>2. Moves(r, {"release", "done"})
  BY <1>1, CreateQuoteMoves
<1>3. quotes' \in [Quotes -> QuoteRow] /\ QuotesKept
  <2>1. snap[r].price \in Nat
    BY <1>1, EconomyAssumption DEF TypeOK, Settings
  <2>2. [status |-> "QUOTED", owner |-> call[r].user, cost |-> snap[r].price, lapsed |-> FALSE] \in QuoteRow
    BY <1>1, <2>1 DEF QuoteRow, QuoteStatus
  <2>3. QED
    BY <1>1, <2>2 DEF CreateQuote, TypeOK, QuotesKept
<1>4. UNCHANGED <<settings, jobs, balance, ledger, lock, call, snap, seen>>
  BY DEF CreateQuote
<1>5. TypeOK'
  BY <1>1, <1>2, <1>3, <1>4 DEF TypeOK, Moves
<1>6. CallShape(r)' /\ pc'[r] \notin Locked
  BY <1>1, <1>2, <1>4 DEF CallShape, Moves, Locked
<1>7. QED
  BY <1>2, <1>3, <1>4, <1>5, <1>6, RowStep

(* lockWallet: the request joins those that have a wallet locked.          *)
LEMMA LockWalletWallet ==
  ASSUME WalletInv, NEW r \in Requests, LockWallet(r)
  PROVE  WalletInv'
<1> DEFINE u == call[r].user
<1>1. TypeOK /\ CallShape(r) /\ pc[r] = "wallet" /\ u \in Users /\ WalletFree(u)
  BY DEF WalletInv, CallShape, LockWallet
<1>2. Moves(r, {"insert", "append", "release", "done"})
  BY <1>1, LockWalletMoves
<1>3. /\ UNCHANGED <<settings, db, lock, call, snap>> /\ QuotesKept
      /\ seen' = [seen EXCEPT ![r] = balance[u]]
  BY DEF LockWallet, QuotesKept
<1>4. TypeOK'
  BY <1>1, <1>2, <1>3 DEF TypeOK, Moves
<1>5. pc'[r] \in Locked =>
        /\ balance[u] + Funds(r) >= 0
        /\ pc'[r] = IF call[r].op = "purchase" THEN "insert" ELSE "append"
  BY <1>1 DEF LockWallet, Affordable, Goto, Answer, TypeOK, Locked
<1>6. (\A p \in Requests : CallShape(p))'
  <2>1. CallShape(r)'
    BY <1>1, <1>2, <1>3, <1>5 DEF CallShape, Moves, Locked
  <2>2. QED
    BY <1>2, <1>3, <2>1, ShapeKept DEF Moves, WalletInv
<1>7. /\ \A p \in Requests : Funds(p)' = Funds(p)
      /\ \A p \in Requests \ {r} : pc'[p] = pc[p] /\ seen'[p] = seen[p]
      /\ seen'[r] = balance[u]
  BY <1>1, <1>2, <1>3 DEF Funds, Moves, TypeOK
<1>8. WalletExclusive'
  <2>1. \A p \in Requests : pc[p] \in Locked => call[p].user # u
    BY <1>1 DEF WalletFree, HoldsWallet, Locked
  <2>2. QED
    BY <2>1, <1>3, <1>7 DEF WalletExclusive, WalletInv
<1>9. LockedBalanceIsCurrent'
  BY <1>3, <1>7 DEF LockedBalanceIsCurrent, HoldsWallet, WalletInv
<1>10. FundsChecked'
  BY <1>5, <1>7 DEF FundsChecked, WalletInv
<1>11. LedgerConsistent'
  BY <1>3 DEF LedgerConsistent, BalanceAt, WalletInv
<1>12. QED
  BY <1>4, <1>6, <1>8, <1>9, <1>10, <1>11 DEF WalletInv

(* A transaction that commits one row on the wallet it has locked.         *)
LEMMA Books ==
  ASSUME WalletInv, NEW r \in Requests, pc[r] \in Locked, NEW type \in EntryTypes,
         NEW ref \in Refs,
         AppendEntry(call[r].user, type, Funds(r), ref, seen[r]),
         Moves(r, {"release", "done"}),
         UNCHANGED <<settings, lock, call, snap, seen>>,
         quotes' \in [Quotes -> QuoteRow], jobs' \in [Requests -> JobRow], QuotesKept
  PROVE  WalletInv'
<1> DEFINE u == call[r].user
           a == Funds(r)
           e == [type |-> type, amount |-> a, after |-> balance[u] + a, ref |-> ref]
<1>1. TypeOK /\ CallShape(r) /\ u \in Users /\ seen[r] = balance[u]
  BY DEF WalletInv, CallShape, LockedBalanceIsCurrent, HoldsWallet, Locked
<1>2. a \in Int /\ balance[u] + a \in Nat
  <2>1. a \in Int
    <3>1. CASE call[r].op = "purchase"
      BY <1>1, <3>1 DEF Funds, CallShape, TypeOK, QuoteRow
    <3>2. CASE call[r].op # "purchase"
      BY <1>1, <3>2 DEF Funds, TypeOK, Call
    <3>3. QED
      BY <3>1, <3>2
  <2>2. seen[r] + a >= 0
    BY DEF WalletInv, FundsChecked
  <2>3. QED
    BY <1>1, <2>1, <2>2 DEF TypeOK
<1> HIDE DEF a
<1>3. balance' = [balance EXCEPT ![u] = @ + a] /\ ledger' = [ledger EXCEPT ![u] = Append(@, e)]
  BY <1>1 DEF AppendEntry, a
<1>4. e \in Entry
  BY <1>2 DEF Entry
<1> HIDE DEF e, u
<1>5. TypeOK'
  <2>1. balance' \in [Users -> Nat]
    BY <1>1, <1>2, <1>3 DEF TypeOK
  <2>2. ledger' \in [Users -> Seq(Entry)]
    BY <1>1, <1>3, <1>4 DEF TypeOK
  <2>3. QED
    BY <1>1, <2>1, <2>2 DEF TypeOK, Moves
<1>6. (\A p \in Requests : CallShape(p))'
  <2>1. CallShape(r)'
    BY <1>1 DEF CallShape, Moves, Locked, QuotesKept
  <2>2. QED
    BY <2>1, ShapeKept DEF Moves, WalletInv
<1>7. ASSUME NEW p \in Requests, pc'[p] \in Locked
      PROVE  p # r /\ pc[p] \in Locked /\ call[p].user # u /\ Funds(p)' = Funds(p)
  <2>1. p # r /\ pc[p] \in Locked
    BY <1>7 DEF Moves, Locked
  <2>2. call[p].user # u
    BY <2>1 DEF u, WalletInv, WalletExclusive
  <2>3. CASE call[p].op = "purchase"
    <3>1. call[p].quote \in Quotes /\ quotes[call[p].quote].status # "NONE"
      BY <2>1, <2>3 DEF WalletInv, CallShape, Locked
    <3>2. QED
      BY <2>1, <2>2, <2>3, <3>1 DEF Funds, QuotesKept
  <2>4. CASE call[p].op # "purchase"
    BY <2>1, <2>2, <2>4 DEF Funds
  <2>5. QED
    BY <2>3, <2>4
<1>8. WalletExclusive'
  BY <1>7 DEF WalletExclusive, WalletInv
<1>9. LockedBalanceIsCurrent'
  <2> SUFFICES ASSUME NEW p \in Requests, pc'[p] \in Locked
               PROVE  seen[p] = balance'[call[p].user]
    BY DEF LockedBalanceIsCurrent, HoldsWallet, Locked
  <2>1. pc[p] \in Locked /\ call[p].user # u /\ call[p].user \in Users
    BY <1>7 DEF WalletInv, CallShape
  <2>2. seen[p] = balance[call[p].user]
    BY <2>1 DEF WalletInv, LockedBalanceIsCurrent, HoldsWallet, Locked
  <2>3. QED
    BY <1>1, <1>3, <2>1, <2>2 DEF TypeOK
<1>10. FundsChecked'
  BY <1>7 DEF FundsChecked, WalletInv
<1>11. LedgerConsistent'
  <2> SUFFICES ASSUME NEW v \in Users
               PROVE  /\ balance'[v] = BalanceAt(v, Len(ledger[v]))'
                      /\ \A i \in 1..Len(ledger'[v]) :
                           ledger'[v][i].after = BalanceAt(v, i - 1)' + ledger'[v][i].amount
    BY DEF LedgerConsistent
  <2> PICK n : n = Len(ledger[v])
    OBVIOUS
  <2>1. /\ balance[v] = BalanceAt(v, n)
        /\ \A i \in 1..n : ledger[v][i].after = BalanceAt(v, i - 1) + ledger[v][i].amount
    BY DEF WalletInv, LedgerConsistent
  <2>2. CASE v # u
    <3>1. balance'[v] = balance[v] /\ ledger'[v] = ledger[v]
      BY <1>1, <1>3, <2>2 DEF TypeOK
    <3>2. \A i : BalanceAt(v, i)' = BalanceAt(v, i)
      BY <3>1 DEF BalanceAt
    <3>3. QED
      BY <2>1, <3>1, <3>2
  <2>3. CASE v = u
    <3>1. ledger[u] \in Seq(Entry) /\ n \in Nat
      BY <1>1, <2>3 DEF TypeOK
    <3>2. balance'[v] = balance[v] + a /\ ledger'[v] = Append(ledger[v], e)
      BY <1>1, <1>3, <2>3 DEF TypeOK
    <3>3. /\ Len(ledger'[v]) = n + 1 /\ ledger'[v][n + 1] = e
          /\ \A i \in 1..n : ledger'[v][i] = ledger[v][i]
      BY <1>4, <2>3, <3>1, <3>2
    <3>4. \A i \in 0..n : BalanceAt(v, i)' = BalanceAt(v, i)
      BY <3>1, <3>3 DEF BalanceAt
    <3>5. e.amount = a /\ e.after = balance[v] + a
      BY <2>3 DEF e
    <3>6. BalanceAt(v, n + 1)' = balance[v] + a
      BY <3>1, <3>3, <3>5 DEF BalanceAt
    <3>7. ASSUME NEW i \in 1..(n + 1)
          PROVE  ledger'[v][i].after = BalanceAt(v, i - 1)' + ledger'[v][i].amount
      <4>1. CASE i \in 1..n
        BY <2>1, <3>1, <3>3, <3>4, <4>1
      <4>2. CASE i = n + 1
        BY <2>1, <3>1, <3>3, <3>4, <3>5, <4>2
      <4>3. QED
        BY <3>1, <4>1, <4>2
    <3>8. QED
      BY <3>2, <3>3, <3>6, <3>7
  <2>4. QED
    BY <2>2, <2>3
<1>12. QED
  BY <1>5, <1>6, <1>8, <1>9, <1>10, <1>11 DEF WalletInv

LEMMA DebitAndCommitWallet ==
  ASSUME WalletInv, NEW r \in Requests, DebitAndCommit(r)
  PROVE  WalletInv'
<1> DEFINE q == call[r].quote
<1>1. /\ TypeOK /\ CallShape(r) /\ q \in Quotes
      /\ pc[r] = "debit" /\ pc[r] \in Locked
  BY DEF WalletInv, CallShape, DebitAndCommit, Locked
<1>2. Moves(r, {"release", "done"})
  BY <1>1, DebitAndCommitMoves
<1>3. UNCHANGED <<settings, lock, call, snap, seen>>
  BY DEF DebitAndCommit
<1>4. CASE UNCHANGED db
  <2>1. CallShape(r)' /\ pc'[r] \notin Locked
    BY <1>1, <1>2, <1>3, <1>4 DEF CallShape, Moves, Locked
  <2>2. QED
    BY <1>1, <1>2, <1>3, <1>4, <2>1, MoveOnly DEF TypeOK
<1>5. CASE /\ quotes' = [quotes EXCEPT ![q].status = "PAID"]
           /\ jobs' = [jobs EXCEPT ![r] = [status |-> "ACTIVE", quote |-> q]]
           /\ AppendEntry(call[r].user, "WAYPOINT_DEBIT", Funds(r), r, seen[r])
  <2>1. "PAID" \in QuoteStatus \ {"NONE"}
    BY DEF QuoteStatus
  <2>2. quotes' \in [Quotes -> QuoteRow] /\ QuotesKept
    BY <1>1, <1>5, <2>1, StatusKept
  <2>3. jobs' \in [Requests -> JobRow]
    BY <1>1, <1>5 DEF TypeOK, JobRow, JobStatus
  <2>4. "WAYPOINT_DEBIT" \in EntryTypes /\ r \in Refs
    BY DEF EntryTypes, Refs
  <2>5. QED
    BY <1>1, <1>2, <1>3, <1>5, <2>2, <2>3, <2>4, Books
<1>6. QED
  BY <1>4, <1>5 DEF DebitAndCommit

LEMMA AppendAndCommitWallet ==
  ASSUME WalletInv, NEW r \in Requests, AppendAndCommit(r)
  PROVE  WalletInv'
<1> DEFINE c == call[r]
<1>1. /\ TypeOK /\ CallShape(r)
      /\ pc[r] = "append" /\ pc[r] \in Locked /\ c.op \in {"credit", "adjust", "cancel"}
  BY DEF WalletInv, CallShape, AppendAndCommit, Locked
<1>2. Moves(r, {"release", "done"})
  BY <1>1, AppendAndCommitMoves
<1>3. UNCHANGED <<settings, quotes, lock, call, snap, seen>> /\ QuotesKept
  BY DEF AppendAndCommit, QuotesKept
<1>4. jobs' \in [Requests -> JobRow]
  <2>1. CloseJob(c) \/ UNCHANGED jobs
    BY DEF AppendAndCommit
  <2>2. CASE UNCHANGED jobs
    BY <1>1, <2>2 DEF TypeOK
  <2>3. CASE CloseJob(c)
    <3>1. ASSUME NEW w \in Requests PROVE [jobs[w] EXCEPT !.status = "CANCELED"] \in JobRow
      BY <1>1 DEF TypeOK, JobRow, JobStatus
    <3>2. QED
      BY <1>1, <2>3, <3>1 DEF TypeOK, CloseJob
  <2>4. QED
    BY <2>1, <2>2, <2>3
<1>5. CASE UNCHANGED <<balance, ledger>>
  <2>1. CallShape(r)' /\ pc'[r] \notin Locked
    BY <1>1, <1>2, <1>3 DEF CallShape, Moves, Locked
  <2>2. QED
    BY <1>1, <1>2, <1>3, <1>4, <1>5, <2>1, MoveOnly DEF TypeOK
<1>6. CASE AppendEntry(c.user, EntryType(c.op), c.amount, c.ref, seen[r])
  <2>1. c.amount = Funds(r)
    BY <1>1 DEF Funds
  <2>2. EntryType(c.op) \in EntryTypes
    BY <1>1 DEF EntryType, EntryTypes
  <2>3. c.ref \in Refs /\ quotes' \in [Quotes -> QuoteRow]
    BY <1>1, <1>3 DEF TypeOK, Call
  <2>4. QED
    BY <1>1, <1>2, <1>3, <1>4, <1>6, <2>1, <2>2, <2>3, Books
<1>7. QED
  BY <1>5, <1>6 DEF AppendAndCommit

(* What no request carries.                                                *)
LEMMA WorldWallet ==
  ASSUME WalletInv,
         \/ \E q \in Perishable : QuoteLapses(q) \/ ExpireQuote(q) \/ CancelQuote(q)
         \/ \E k \in Users \union {Channel} : LockExpires(k)
         \/ CompleteJob \/ SaveSettings
  PROVE  WalletInv'
<1>1. TypeOK
  BY DEF WalletInv
<1>2. UNCHANGED <<balance, ledger, pc, call, snap, seen, reply>>
  BY DEF QuoteLapses, ExpireQuote, CancelQuote, LockExpires, CompleteJob, SaveSettings
<1>3. quotes' \in [Quotes -> QuoteRow] /\ QuotesKept
  <2>1. CASE UNCHANGED quotes
    BY <1>1, <2>1 DEF TypeOK, QuotesKept
  <2>2. ASSUME NEW q \in Quotes, NEW s \in {"EXPIRED", "CANCELED"}, SetQuoteStatus(q, s)
        PROVE  quotes' \in [Quotes -> QuoteRow] /\ QuotesKept
    <3>1. s \in QuoteStatus \ {"NONE"}
      BY DEF QuoteStatus
    <3>2. QED
      BY <1>1, <2>1, <2>2, <3>1, StatusKept DEF SetQuoteStatus
  <2>3. ASSUME NEW q \in Quotes, quotes' = [quotes EXCEPT ![q].lapsed = TRUE]
        PROVE  quotes' \in [Quotes -> QuoteRow] /\ QuotesKept
    BY <1>1, <2>3 DEF TypeOK, QuoteRow, QuotesKept
  <2>4. Perishable \subseteq Quotes
    BY EconomyAssumption
  <2>5. QED
    BY <2>1, <2>2, <2>3, <2>4
       DEF QuoteLapses, ExpireQuote, CancelQuote, LockExpires, CompleteJob, SaveSettings
<1>4. settings' \in Settings
  BY <1>1, EconomyAssumption
     DEF TypeOK, Settings, QuoteLapses, ExpireQuote, CancelQuote, LockExpires, CompleteJob, SaveSettings
<1>5. lock' \in [Users \union {Channel} -> Requests \union {None}]
  BY <1>1 DEF TypeOK, QuoteLapses, ExpireQuote, CancelQuote, LockExpires, CompleteJob, SaveSettings
<1>6. jobs' \in [Requests -> JobRow]
  <2>1. CASE UNCHANGED jobs
    BY <1>1, <2>1 DEF TypeOK
  <2>2. CASE CompleteJob
    <3>1. PICK w \in Requests : jobs' = [jobs EXCEPT ![w].status = "COMPLETED"]
      BY <2>2 DEF CompleteJob, ActiveJobs
    <3>2. QED
      BY <1>1, <3>1 DEF TypeOK, JobRow, JobStatus
  <2>3. QED
    BY <2>1, <2>2 DEF QuoteLapses, ExpireQuote, CancelQuote, LockExpires, SaveSettings
<1>7. TypeOK'
  BY <1>1, <1>2, <1>3, <1>4, <1>5, <1>6 DEF TypeOK
<1>8. Quiet
  BY <1>2, <1>3 DEF Quiet
<1>9. (\A p \in Requests : CallShape(p))'
  <2> SUFFICES ASSUME NEW p \in Requests PROVE CallShape(p)'
    OBVIOUS
  <2>1. CallShape(p)
    BY DEF WalletInv
  <2>2. QED
    BY <1>2, <1>3, <2>1 DEF CallShape, QuotesKept
<1>10. QED
  BY <1>7, <1>8, <1>9, QuietStep

LEMMA StutterWallet == WalletInv /\ UNCHANGED vars => WalletInv'
BY DEF WalletInv, vars, TypeOK, CallShape, WalletExclusive, LockedBalanceIsCurrent, HoldsWallet,
       FundsChecked, Funds, LedgerConsistent, BalanceAt

LEMMA NextWallet == WalletInv /\ [Next]_vars => WalletInv'
<1> SUFFICES ASSUME WalletInv, [Next]_vars PROVE WalletInv'
  OBVIOUS
<1>1. ASSUME NEW r \in Requests, StartSome(r) PROVE WalletInv'
  BY <1>1, StartWallet
<1>2. ASSUME NEW r \in Requests, Step(r) PROVE WalletInv'
  BY <1>2, AcquireLockWallet, GiveUpLockWallet, ReleaseLockWallet, ReadSettingsWallet, CheckActiveWallet,
     LockQuoteWallet, LockWalletWallet, InsertWaypointWallet, DebitAndCommitWallet, AppendAndCommitWallet,
     CancelJobWallet, FindLiveQuoteWallet, SupersedeWallet, CreateQuoteWallet
     DEF Step
<1>3. ASSUME NEW r \in Requests, Throws(r) \/ ReleaseFails(r) \/ Dies(r) PROVE WalletInv'
  BY <1>3, ThrowsWallet, ReleaseFailsWallet, DiesWallet
<1>4. Fallible \subseteq Requests
  BY EconomyAssumption
<1>5. QED
  BY <1>1, <1>2, <1>3, <1>4, WorldWallet, StutterWallet DEF Next

THEOREM WalletIsInvariant == Spec => []WalletInv
BY InitWallet, NextWallet, PTL DEF Spec

(* Whatever the interleaving, every variable keeps its type; that balance  *)
(* stays in Nat says no purchase, correction or refund overdraws a wallet. *)
THEOREM TypeCorrect == Spec => []TypeOK
<1>1. WalletInv => TypeOK
  BY DEF WalletInv
<1>2. QED
  BY <1>1, WalletIsInvariant, PTL

(* checkLedgerConsistency finds nothing, whatever the interleaving and     *)
(* whatever fails.                                                         *)
THEOREM LedgerAlwaysConsistent == Spec => []LedgerConsistent
<1>1. WalletInv => LedgerConsistent
  BY DEF WalletInv
<1>2. QED
  BY <1>1, WalletIsInvariant, PTL

(* The balance read by lockWallet is still the balance at the commit: the  *)
(* check "moved outside its row lock" of appendEntry never fires.          *)
THEOREM NoBalanceMovesUnderLock == Spec => []LockedBalanceIsCurrent
<1>1. WalletInv => LockedBalanceIsCurrent
  BY DEF WalletInv
<1>2. QED
  BY <1>1, WalletIsInvariant, PTL

-----------------------------------------------------------------------------
(* Purchases, refunds and answers: what the row locks protect. *)

(* A purchase between the lock of its quote and its commit or rollback.    *)
Held(r) == call[r].op = "purchase" /\ pc[r] \in {"active", "wallet", "insert", "debit"}
(* A refund between the lock of its job and its commit or rollback.        *)
Cancels(r) == call[r].op = "cancel" /\ pc[r] \in {"wallet", "append"}

(* What a request has read of a row that it has locked since is still so:  *)
(* its quote is live and its own, no job is active once the unique index   *)
(* let it insert one, and the job it refunds is active.                    *)
RowsLocked(r) ==
  /\ Held(r) => quotes[call[r].quote].status = "QUOTED" /\ quotes[call[r].quote].owner = call[r].user
  /\ pc[r] = "debit" => ActiveJobs = {}
  /\ Cancels(r) => call[r].ref \in ActiveJobs

(* Nobody else has such a row locked, or waits on the index, meanwhile.    *)
LocksExclusive == \A r, p \in Requests :
  /\ Held(r) /\ Held(p) /\ call[r].quote = call[p].quote => r = p
  /\ pc[r] = "debit" /\ pc[p] = "debit" => r = p
  /\ Cancels(r) /\ Cancels(p) => r = p

(* waypoints_one_active_per_channel: one job at a time.                    *)
OneActive == \A v, w \in ActiveJobs : v = w

(* The locks of rows, taken together.                                      *)
LockInv ==
  /\ \A r \in Requests : RowsLocked(r)
  /\ LocksExclusive
  /\ OneActive

(* What the job of a purchase cost.                                        *)
Cost(w)  == quotes[call[w].quote].cost
(* The rows that a job stands on. *)
JobFits(w) ==
  IF jobs[w].status = "NONE" THEN jobs[w].quote = None
  ELSE /\ call[w].op = "purchase" /\ pc[w] \in {"release", "done"}
       /\ jobs[w].quote = call[w].quote
       /\ quotes[call[w].quote].status = "PAID" /\ quotes[call[w].quote].owner = call[w].user
       /\ \E e \in DebitOf(w, call[w].user) : e.amount = -Cost(w)
       /\ jobs[w].status = "CANCELED" /\ ~Dropped(w) =>
            \E e \in RefundOf(w, call[w].user) : e.amount = Cost(w)

(* The job, the refund or the redemption that a row of the ledger is       *)
(* about: it is there, it is of this viewer, and the amount is its price.  *)
RowFits(e, u) ==
  /\ e.type = "WAYPOINT_DEBIT" =>
       /\ e.ref \in Requests /\ jobs[e.ref].status # "NONE"
       /\ call[e.ref].user = u /\ e.amount = -Cost(e.ref)
  /\ e.type = "MISSION_REFUND" =>
       /\ e.ref \in Requests /\ jobs[e.ref].status = "CANCELED" /\ ~Dropped(e.ref)
       /\ call[e.ref].user = u /\ e.amount = Cost(e.ref)
  /\ e.type = "EXCHANGE_CREDIT" => e.ref \in Redemptions /\ RedeemerOf[e.ref] = u

(* One row for each of these, in one wallet.                               *)
RowOnce(u) == \A i, j \in 1..Len(ledger[u]) :
  /\ ledger[u][i].type = ledger[u][j].type /\ ledger[u][i].ref = ledger[u][j].ref
  /\ ledger[u][i].type # "ADMIN_ADJUSTMENT"
  => i = j

(* What a request carries is what it was asked or what it has found: the   *)
(* redemption and its redeemer, the job that it drops, the job that it     *)
(* refunds with its buyer and its price.                                   *)
CallFits(r) ==
  /\ pc[r] = "idle" => call[r].op = None
  /\ call[r].op \in {"cancel", "drop"} /\ pc[r] = "update" => call[r].ref = None
  /\ call[r].op = "credit" =>
       call[r].ref \in Redemptions /\ call[r].user = RedeemerOf[call[r].ref] /\ call[r].amount \in Amounts
  /\ call[r].op = "adjust" => call[r].user \in Users /\ call[r].amount \in Adjustments
  /\ call[r].op = "drop" /\ call[r].ref # None =>
       call[r].ref \in Requests /\ jobs[call[r].ref].status = "CANCELED"
  /\ Cancels(r) => call[r].user = call[call[r].ref].user /\ call[r].amount = Cost(call[r].ref)

(* waypoints.quote_id is unique.                                           *)
OneJobPerQuote == \A v, w \in Requests :
  jobs[v].status # "NONE" /\ jobs[w].status # "NONE" /\ jobs[v].quote = jobs[w].quote => v = w

(* The quote and its job are committed together.                           *)
PaidHasJob == \A q \in Quotes : quotes[q].status = "PAID" =>
  \E w \in Requests : jobs[w].status # "NONE" /\ jobs[w].quote = q

(* A quote has a holder and a price.                                       *)
Priced == \A q \in Quotes : quotes[q].status # "NONE" =>
  quotes[q].cost \in Prices /\ quotes[q].owner \in Users

(* The ledger, the quotes and the jobs tell of the same purchases, refunds *)
(* and exchanges.                                                          *)
BookInv ==
  /\ \A r \in Requests : JobFits(r) /\ CallFits(r)
  /\ \A u \in Users : RowOnce(u) /\ \A e \in Rows(u) : RowFits(e, u)
  /\ OneJobPerQuote
  /\ PaidHasJob
  /\ Priced

(* What a request was told has been committed, and is not taken back.      *)
AnswerFits(r) ==
  /\ reply[r] # "none" => pc[r] \in {"release", "done"}
  /\ jobs[r].status # "NONE" => reply[r] \in {"charged", "error", "lost"}
  /\ reply[r] = "charged" => jobs[r].status # "NONE"
  /\ reply[r] = "already" => /\ call[r].op = "purchase"
                             /\ quotes[call[r].quote].status = "PAID"
                             /\ quotes[call[r].quote].owner = call[r].user
  /\ reply[r] = "refunded" => RefundConflict(call[r].ref)
  /\ reply[r] \in {"credited", "duplicate"} => call[r].user \in Users /\
       \E e \in Rows(call[r].user) : e.type = "EXCHANGE_CREDIT" /\ e.ref = call[r].ref

(* The answers, taken together.                                            *)
AnswerInv == \A r \in Requests : AnswerFits(r)

(* The inductive invariant.  Each part rests on the former ones: that a    *)
(* row is booked once needs the rows to stay as they were locked, and      *)
(* these need the types and the wallets.                                   *)
JobsInv == WalletInv /\ LockInv /\ BookInv /\ AnswerInv

-----------------------------------------------------------------------------

(* A request that the step is not of.                                      *)
Stays(p) == pc'[p] = pc[p] /\ call'[p] = call[p] /\ reply'[p] = reply[p]

(* A request comes in: it has locked and found nothing.                    *)
Starts(p) ==
  /\ pc[p] = "idle" /\ reply'[p] = reply[p]
  /\ pc'[p] \in {"lock", "settings", "wallet", "update"}
  /\ pc'[p] = "wallet" => call'[p].op \in {"credit", "adjust"}
  /\ call'[p].op = "credit" =>
       /\ call'[p].ref \in Redemptions /\ call'[p].user = RedeemerOf[call'[p].ref]
       /\ call'[p].amount \in Amounts
  /\ call'[p].op = "adjust" => call'[p].user \in Users /\ call'[p].amount \in Adjustments
  /\ call'[p].op \in {"cancel", "drop"} => call'[p].ref = None

(* An answer that tells of no commit of this step.                         *)
Plain(r, a) ==
  /\ a \notin {"none", "charged", "refunded", "credited"}
  /\ a = "duplicate" => call[r].user \in Users /\ \E e \in Rows(call[r].user) : e.type = "EXCHANGE_CREDIT" /\ e.ref = call[r].ref
  /\ a = "already" => /\ call[r].op = "purchase" /\ quotes[call[r].quote].status = "PAID"
                      /\ quotes[call[r].quote].owner = call[r].user

(* A request goes on, and comes to hold a row only when the row is free    *)
(* and as it needs it.                                                     *)
Continues(r) ==
  /\ pc[r] # "idle" /\ pc'[r] \notin {"idle", "update"}
  /\ pc[r] \in {"release", "done"} => pc'[r] \in {"release", "done"}
  /\ \/ call'[r] = call[r]
     \/ /\ call[r].op = "quote" /\ call'[r].op = "quote"
        /\ pc[r] = "live" /\ reply'[r] = reply[r]
  /\ Held(r)' => \/ Held(r)
                 \/ /\ QuoteFree(call[r].quote)
                    /\ quotes'[call[r].quote] = quotes[call[r].quote]
                    /\ quotes[call[r].quote].status = "QUOTED"
                    /\ quotes[call[r].quote].owner = call[r].user
  /\ pc'[r] = "debit" => pc[r] = "debit" \/ (ActiveJobs = {} /\ IndexDecided)
  /\ Cancels(r)' => Cancels(r)
  /\ \/ reply'[r] = reply[r]
     \/ pc'[r] = "done" /\ reply'[r] \in {"error", "lost"}
     \/ pc[r] \notin {"release", "done"} /\ pc'[r] \in {"release", "done"} /\ Plain(r, reply'[r])

(* A quote is created, expires, is canceled; never while a purchase has it *)
(* locked.                                                                 *)
QuoteMoves(q) ==
  \/ quotes'[q] = quotes[q]
  \/ /\ quotes[q].status = "QUOTED"
     /\ quotes'[q].owner = quotes[q].owner /\ quotes'[q].cost = quotes[q].cost
     /\ \/ quotes'[q].status = "QUOTED"
        \/ quotes'[q].status \in {"EXPIRED", "CANCELED"} /\ QuoteFree(q)
  \/ /\ quotes[q].status = "NONE" /\ quotes'[q].status = "QUOTED"
     /\ quotes'[q].owner \in Users /\ quotes'[q].cost \in Prices

(* A step of one request is none of another one.                           *)
Others(r) == \A p \in Requests \ {r} : Stays(p)

(* A step that books nothing and closes no job, of a request or of nobody. *)
Rests(r) ==
  /\ UNCHANGED <<jobs, balance, ledger>>
  /\ \A q \in Quotes : QuoteMoves(q)
  /\ Others(r)
  /\ r \in Requests => Stays(r) \/ Starts(r) \/ Continues(r)

(* Goto, without its EXCEPT.                                               *)
LEMMA GotoEffect ==
  ASSUME TypeOK, NEW r \in Requests, NEW step, Goto(r, step)
  PROVE  pc'[r] = step /\ \A p \in Requests \ {r} : pc'[p] = pc[p]
BY DEF TypeOK, Goto

(* An assignment to reply, without its EXCEPT.                             *)
LEMMA ReplyEffect ==
  ASSUME TypeOK, NEW r \in Requests, NEW a, reply' = [reply EXCEPT ![r] = a]
  PROVE  reply'[r] = a /\ \A p \in Requests \ {r} : reply'[p] = reply[p]
BY DEF TypeOK

(* Answer, without its EXCEPTs.                                            *)
LEMMA AnswerEffect ==
  ASSUME TypeOK, NEW r \in Requests, NEW a, Answer(r, a)
  PROVE  /\ pc'[r] \in {"release", "done"} /\ reply'[r] = a
         /\ \A p \in Requests \ {r} : pc'[p] = pc[p] /\ reply'[p] = reply[p]
BY DEF TypeOK, Goto, Answer

(* Steps that only move their request on.                                  *)
LEMMA MoveRests ==
  ASSUME JobsInv, NEW r \in Requests,
         \/ AcquireLock(r) \/ GiveUpLock(r) \/ ReleaseLock(r) \/ ReadSettings(r) \/ CheckActive(r)
         \/ LockWallet(r) \/ Throws(r) \/ ReleaseFails(r) \/ Dies(r)
  PROVE  Rests(r)
<1>1. TypeOK /\ CallShape(r)
  BY DEF JobsInv, WalletInv
<1>2. UNCHANGED <<quotes, jobs, balance, ledger, call>>
  BY DEF AcquireLock, GiveUpLock, ReleaseLock, ReadSettings, CheckActive, LockWallet, Throws, ReleaseFails, Dies
<1>3. Others(r)
  BY <1>1, <1>2, GotoEffect, AnswerEffect, ReplyEffect
     DEF AcquireLock, GiveUpLock, ReleaseLock, ReadSettings, CheckActive, LockWallet, Throws, ReleaseFails,
         Dies, Others, Stays
<1>4. Continues(r)
  BY <1>1, <1>2, GotoEffect, AnswerEffect, ReplyEffect
     DEF AcquireLock, GiveUpLock, ReleaseLock, ReadSettings, CheckActive, LockWallet, Throws, ReleaseFails,
         Dies, Continues, Plain, CallShape, Held, Cancels
<1>5. QED
  BY <1>2, <1>3, <1>4 DEF Rests, QuoteMoves

(* A request that starts has no row yet.                                   *)
LEMMA StartRests ==
  ASSUME JobsInv, NEW r \in Requests, StartSome(r)
  PROVE  Rests(r)
<1>1. TypeOK
  BY DEF JobsInv, WalletInv
<1> DEFINE Fits(c) ==
      /\ c.op = "credit" => c.ref \in Redemptions /\ c.user = RedeemerOf[c.ref] /\ c.amount \in Amounts
      /\ c.op = "adjust" => c.user \in Users /\ c.amount \in Adjustments
      /\ c.op \in {"cancel", "drop"} => c.ref = None
<1>2. \E c : Begins(r, c) /\ Fits(c)
  <2>1. ASSUME NEW u \in Users, NEW q \in Quotes PROVE Fits(Asks("purchase", u, q, None, 0))
    BY DEF Asks
  <2>2. ASSUME NEW d \in Redemptions, NEW a \in Amounts PROVE Fits(Asks("credit", RedeemerOf[d], None, d, a))
    BY DEF Asks
  <2>3. ASSUME NEW u \in Users, NEW a \in Adjustments PROVE Fits(Asks("adjust", u, None, None, a))
    BY DEF Asks
  <2>4. ASSUME NEW o \in {"cancel", "drop"} PROVE Fits(Asks(o, None, None, None, 0))
    BY DEF Asks
  <2>5. ASSUME NEW u \in Users PROVE Fits(Asks("quote", u, None, None, 0))
    BY DEF Asks
  <2> HIDE DEF Fits
  <2>6. QED
    BY <2>1, <2>2, <2>3, <2>4, <2>5, StartBegins
       DEF StartSome, StartPurchase, StartCredit, StartAdjust, StartCancel, StartQuote
<1> PICK c : Begins(r, c) /\ Fits(c)
  BY <1>2
<1>3. /\ UNCHANGED <<quotes, jobs, balance, ledger, reply>> /\ pc[r] = "idle"
      /\ call' = [call EXCEPT ![r] = c] /\ c.op \in OpNames
      /\ pc'[r] = FirstStep(c.op) /\ \A p \in Requests \ {r} : pc'[p] = pc[p]
  BY <1>1, GotoEffect, EconomyAssumption DEF Begins
<1>4. Others(r) /\ call'[r] = c
  BY <1>1, <1>3 DEF Others, Stays, TypeOK
<1>5. Starts(r)
  BY <1>3, <1>4 DEF Starts, FirstStep, OpNames
<1>6. QED
  BY <1>3, <1>4, <1>5 DEF Rests, QuoteMoves

(* SELECT ... FOR UPDATE of the quote: whoever goes on has found it live.  *)
LEMMA LockQuoteRests ==
  ASSUME JobsInv, NEW r \in Requests, LockQuote(r)
  PROVE  Rests(r)
<1> DEFINE q == call[r].quote
           verdict == QuoteVerdict(quotes[q], call[r].user, q, snap[r])
<1>1. TypeOK /\ CallShape(r) /\ pc[r] = "quote" /\ call[r].op = "purchase" /\ q \in Quotes
  BY DEF JobsInv, WalletInv, CallShape, LockQuote
<1>2. UNCHANGED <<jobs, balance, ledger, call>> /\ QuoteFree(q)
  BY DEF LockQuote
<1>3. verdict \notin {"none", "charged", "refunded", "credited", "duplicate"}
  BY DEF QuoteVerdict
<1>4. /\ verdict = "already" => quotes[q].status = "PAID" /\ quotes[q].owner = call[r].user
      /\ verdict \in {"ok", "expired", "price_changed"} => quotes[q].status = "QUOTED" /\ quotes[q].owner = call[r].user
  BY <1>1 DEF QuoteVerdict
<1>5. /\ \/ verdict = "ok" /\ Goto(r, "active") /\ UNCHANGED reply
         \/ verdict # "ok" /\ Answer(r, verdict)
      /\ quotes' = CASE verdict = "expired" -> [quotes EXCEPT ![q].status = "EXPIRED"]
                     [] verdict = "price_changed" -> [quotes EXCEPT ![q].status = "CANCELED"]
                     [] OTHER -> quotes
  BY DEF LockQuote
<1> HIDE DEF verdict
<1>6. Others(r)
  BY <1>1, <1>2, <1>5, GotoEffect, AnswerEffect DEF Others, Stays
<1>7. Continues(r)
  BY <1>1, <1>2, <1>3, <1>4, <1>5, GotoEffect, AnswerEffect DEF Continues, Plain, Held, Cancels
<1>8. \A p \in Quotes : QuoteMoves(p)
  BY <1>1, <1>2, <1>4, <1>5 DEF QuoteMoves, TypeOK, QuoteRow
<1>9. QED
  BY <1>2, <1>6, <1>7, <1>8 DEF Rests

(* A live quote has no job and no debit: the unique indexes do not fire.   *)
LEMMA NoDebitYet ==
  ASSUME JobsInv, NEW r \in Requests, Held(r)
  PROVE  ~OnePerQuoteConflict(call[r].quote) /\ ~OneDebitConflict(call[r].quote)
<1> USE DEF JobsInv, LockInv, BookInv
<1>1. quotes[call[r].quote].status = "QUOTED"
  BY DEF RowsLocked
<1>2. \A w \in Requests : jobs[w].status # "NONE" => jobs[w].quote # call[r].quote
  BY <1>1 DEF JobFits
<1>3. QED
  BY <1>2 DEF OnePerQuoteConflict, OneDebitConflict, AllRows, RowFits

(* INSERT INTO waypoints: whoever goes on has found no active job.         *)
LEMMA InsertWaypointRests ==
  ASSUME JobsInv, NEW r \in Requests, InsertWaypoint(r)
  PROVE  Rests(r)
<1>1. TypeOK /\ CallShape(r)
  BY DEF JobsInv, WalletInv
<1>2. UNCHANGED <<quotes, jobs, balance, ledger, call>> /\ pc[r] = "insert" /\ Held(r) /\ call[r].op = "purchase"
  BY <1>1 DEF InsertWaypoint, CallShape, Held
<1>3. ~OnePerQuoteConflict(call[r].quote)
  BY <1>2, NoDebitYet
<1>4. Others(r)
  BY <1>1, <1>2, GotoEffect, AnswerEffect DEF InsertWaypoint, Others, Stays
<1>5. Continues(r)
  BY <1>1, <1>2, <1>3, GotoEffect, AnswerEffect
     DEF InsertWaypoint, Continues, Plain, Held, Cancels, OneActiveConflict
<1>6. QED
  BY <1>2, <1>4, <1>5 DEF Rests, QuoteMoves

(* Finding a former quote of the viewer.                                   *)
LEMMA FindLiveQuoteRests ==
  ASSUME JobsInv, NEW r \in Requests, FindLiveQuote(r)
  PROVE  Rests(r)
<1>1. TypeOK /\ CallShape(r) /\ call[r].op = "quote" /\ pc[r] = "live"
  BY DEF JobsInv, WalletInv, CallShape, FindLiveQuote
<1>2. UNCHANGED <<quotes, jobs, balance, ledger, reply>>
  BY DEF FindLiveQuote
<1>3. /\ \A p \in Requests \ {r} : call'[p] = call[p]
      /\ call'[r].op = "quote"
      /\ pc'[r] \in {"create", "supersede"}
  BY <1>1, GotoEffect DEF FindLiveQuote, TypeOK, Call
<1>4. Others(r) /\ Continues(r)
  BY <1>1, <1>2, <1>3, GotoEffect DEF FindLiveQuote, Others, Stays, Continues, Held, Cancels
<1>5. QED
  BY <1>2, <1>4 DEF Rests, QuoteMoves

(* UPDATE of a quote's status waits for its row lock.                      *)
LEMMA SetStatusMoves ==
  ASSUME TypeOK, NEW q \in Quotes, NEW s \in {"EXPIRED", "CANCELED"}, SetQuoteStatus(q, s)
  PROVE  \A p \in Quotes : QuoteMoves(p)
BY DEF SetQuoteStatus, QuoteMoves, TypeOK, QuoteRow

(* The former quote is canceled.                                           *)
LEMMA SupersedeRests ==
  ASSUME JobsInv, NEW r \in Requests, Supersede(r)
  PROVE  Rests(r)
<1>1. TypeOK /\ CallShape(r) /\ call[r].op = "quote" /\ pc[r] = "supersede" /\ call[r].quote \in Quotes
  BY DEF JobsInv, WalletInv, CallShape, Supersede
<1>2. UNCHANGED <<jobs, balance, ledger, call, reply>>
  BY DEF Supersede
<1>3. \A p \in Quotes : QuoteMoves(p)
  BY <1>1, SetStatusMoves DEF Supersede
<1>4. Others(r) /\ Continues(r)
  BY <1>1, <1>2, GotoEffect DEF Supersede, Others, Stays, Continues, Held, Cancels
<1>5. QED
  BY <1>2, <1>3, <1>4 DEF Rests

(* A quote is created.                                                     *)
LEMMA CreateQuoteRests ==
  ASSUME JobsInv, NEW r \in Requests, CreateQuote(r)
  PROVE  Rests(r)
<1>1. TypeOK /\ CallShape(r) /\ call[r].op = "quote" /\ pc[r] = "create" /\ call[r].user \in Users
  BY DEF JobsInv, WalletInv, CallShape, CreateQuote
<1>2. UNCHANGED <<jobs, balance, ledger, call>>
  BY DEF CreateQuote
<1>3. \A p \in Quotes : QuoteMoves(p)
  BY <1>1 DEF CreateQuote, QuoteMoves, TypeOK, QuoteRow, Settings
<1>4. Others(r) /\ Continues(r)
  BY <1>1, <1>2, AnswerEffect DEF CreateQuote, Others, Stays, Continues, Plain, Held, Cancels
<1>5. QED
  BY <1>2, <1>3, <1>4 DEF Rests

(* Time, the timers and the admin's settings touch no booking.             *)
LEMMA WorldRests ==
  ASSUME JobsInv,
         \/ \E q \in Perishable : QuoteLapses(q) \/ ExpireQuote(q) \/ CancelQuote(q)
         \/ \E k \in Users \union {Channel} : LockExpires(k)
         \/ SaveSettings
         \/ UNCHANGED vars
  PROVE  Rests(None)
<1>1. TypeOK
  BY DEF JobsInv, WalletInv
<1>2. UNCHANGED <<jobs, balance, ledger, pc, call, reply>>
  BY DEF QuoteLapses, ExpireQuote, CancelQuote, LockExpires, SaveSettings, vars
<1>3. \A p \in Quotes : QuoteMoves(p)
  <2>1. ASSUME NEW q \in Quotes, QuoteLapses(q) PROVE \A p \in Quotes : QuoteMoves(p)
    BY <1>1, <2>1 DEF QuoteLapses, QuoteMoves, TypeOK, QuoteRow
  <2>2. ASSUME NEW q \in Quotes, ExpireQuote(q) \/ CancelQuote(q) PROVE \A p \in Quotes : QuoteMoves(p)
    BY <1>1, <2>2, SetStatusMoves DEF ExpireQuote, CancelQuote
  <2>3. QED
    BY <2>1, <2>2, EconomyAssumption DEF LockExpires, SaveSettings, vars, QuoteMoves
<1>4. None \notin Requests /\ Others(None)
  BY <1>2, EconomyAssumption DEF Others, Stays
<1>5. QED
  BY <1>2, <1>3, <1>4 DEF Rests

-----------------------------------------------------------------------------

(* One more row in a wallet.                                               *)
Adds(u, e) ==
  /\ ledger' = [ledger EXCEPT ![u] = Append(@, e)]
  /\ balance' = [balance EXCEPT ![u] = @ + e.amount]

(* A request books its amount in the wallet it has locked.                 *)
BooksRow(r, type, ref) == \E n \in Nat :
  Adds(call[r].user, [type |-> type, amount |-> Funds(r), after |-> n, ref |-> ref])

(* The commit, and the answer that tells of it.                            *)
Commits(r, a) ==
  /\ pc'[r] \in {"release", "done"} /\ reply'[r] = a
  /\ Others(r) /\ UNCHANGED call

(* The purchase: the quote is paid, the job made and the price booked.     *)
Buys(r) ==
  /\ pc[r] = "debit" /\ Held(r)
  /\ quotes' = [quotes EXCEPT ![call[r].quote].status = "PAID"]
  /\ jobs' = [jobs EXCEPT ![r] = [status |-> "ACTIVE", quote |-> call[r].quote]]
  /\ BooksRow(r, "WAYPOINT_DEBIT", r)
  /\ Commits(r, "charged")

(* An exchange is credited, a correction booked.                           *)
Pays(r) ==
  /\ pc[r] = "append"
  /\ UNCHANGED <<quotes, jobs>>
  /\ \/ /\ call[r].op = "credit" /\ ~RedemptionConflict(call[r].ref)
        /\ BooksRow(r, "EXCHANGE_CREDIT", call[r].ref) /\ Commits(r, "credited")
     \/ /\ call[r].op = "adjust"
        /\ BooksRow(r, "ADMIN_ADJUSTMENT", call[r].ref) /\ Commits(r, "adjusted")

(* A job is canceled and its price booked back.                            *)
Refunds(r) ==
  /\ pc[r] = "append" /\ Cancels(r)
  /\ UNCHANGED quotes
  /\ jobs' = [jobs EXCEPT ![call[r].ref].status = "CANCELED"]
  /\ BooksRow(r, "MISSION_REFUND", call[r].ref)
  /\ Commits(r, "refunded")

(* A cancellation finds the active job and what was paid for it.           *)
Chooses(r) ==
  /\ pc[r] = "update" /\ pc'[r] = "wallet"
  /\ UNCHANGED <<quotes, jobs, balance, ledger, reply>>
  /\ Others(r)
  /\ \E w \in ActiveJobs :
       /\ JobFree(w)
       /\ call[r].op = "cancel" /\ call'[r] = Asks("cancel", call[w].user, None, w, Cost(w))

(* The admin cancels the active job without a refund.                      *)
Drops(r) ==
  /\ pc[r] = "update" /\ call[r].op = "drop"
  /\ pc'[r] \in {"release", "done"} /\ reply'[r] = "canceled"
  /\ UNCHANGED <<quotes, balance, ledger>>
  /\ Others(r)
  /\ \E w \in ActiveJobs :
       /\ JobFree(w)
       /\ jobs' = [jobs EXCEPT ![w].status = "CANCELED"]
       /\ call' = [call EXCEPT ![r].ref = w]

(* The streamer completes the active job.                                  *)
Completes ==
  /\ UNCHANGED <<quotes, balance, ledger>> /\ \A p \in Requests : Stays(p)
  /\ \E w \in ActiveJobs : JobFree(w) /\ jobs' = [jobs EXCEPT ![w].status = "COMPLETED"]

(* A request that has its wallet locked finds the balance it has seen.     *)
LEMMA NotMoved ==
  ASSUME JobsInv, NEW r \in Requests, pc[r] \in Locked
  PROVE  ~BalanceMoved(r) /\ seen[r] = balance[call[r].user] /\ seen[r] + Funds(r) \in Nat
<1> USE DEF JobsInv, WalletInv
<1>1. seen[r] = balance[call[r].user]
  BY DEF LockedBalanceIsCurrent, HoldsWallet, Locked
<1>2. seen[r] + Funds(r) >= 0
  BY DEF FundsChecked
<1>3. Funds(r) \in Int
  BY DEF TypeOK, Call, QuoteRow, Funds, CallShape, Locked
<1>4. QED
  BY <1>1, <1>2, <1>3 DEF BalanceMoved, TypeOK

(* appendEntry books the amount when the balance has not moved.            *)
LEMMA AppendBooks ==
  ASSUME JobsInv, NEW r \in Requests, pc[r] \in Locked, NEW type, NEW ref,
         AppendEntry(call[r].user, type, Funds(r), ref, seen[r])
  PROVE  BooksRow(r, type, ref)
BY NotMoved DEF AppendEntry, BooksRow, Adds

(* debitAndCommit is a purchase: none of its guards fires.                 *)
LEMMA DebitEffect ==
  ASSUME JobsInv, NEW r \in Requests, DebitAndCommit(r)
  PROVE  Buys(r)
<1>1. TypeOK /\ CallShape(r) /\ pc[r] = "debit" /\ pc[r] \in Locked /\ Held(r)
  BY DEF JobsInv, WalletInv, CallShape, DebitAndCommit, Locked, Held
<1>2. ~BalanceMoved(r) /\ ~OneDebitConflict(call[r].quote)
  BY <1>1, NotMoved, NoDebitYet
<1>3. /\ quotes' = [quotes EXCEPT ![call[r].quote].status = "PAID"]
      /\ jobs' = [jobs EXCEPT ![r] = [status |-> "ACTIVE", quote |-> call[r].quote]]
      /\ AppendEntry(call[r].user, "WAYPOINT_DEBIT", Funds(r), r, seen[r])
      /\ Answer(r, "charged") /\ UNCHANGED call
  BY <1>2 DEF DebitAndCommit
<1>4. Commits(r, "charged")
  BY <1>1, <1>3, AnswerEffect DEF Commits, Others, Stays
<1>5. QED
  BY <1>1, <1>3, <1>4, AppendBooks DEF Buys

(* A job that is being refunded has no refund: it is active.               *)
LEMMA NotRefundedYet ==
  ASSUME JobsInv, NEW r \in Requests, Cancels(r)
  PROVE  ~RefundConflict(call[r].ref)
BY DEF JobsInv, LockInv, BookInv, RowsLocked, RefundConflict, AllRows, RowFits, ActiveJobs

(* What the end of a credit, a correction or a refund does.                *)
LEMMA AppendEffect ==
  ASSUME JobsInv, NEW r \in Requests, AppendAndCommit(r)
  PROVE  Rests(r) \/ Pays(r) \/ Refunds(r)
<1>1. TypeOK /\ CallShape(r) /\ CallFits(r) /\ pc[r] = "append" /\ pc[r] \in Locked
      /\ call[r].op \in {"credit", "adjust", "cancel"}
  BY DEF JobsInv, WalletInv, BookInv, CallShape, AppendAndCommit, Locked
<1>2. ~BalanceMoved(r) /\ Funds(r) = call[r].amount
  BY <1>1, NotMoved DEF Funds
<1>3. UNCHANGED <<quotes, call>>
  BY DEF AppendAndCommit
<1>4. CASE Booked(call[r])
  <2>1. call[r].op = "credit" /\ RedemptionConflict(call[r].ref)
    BY <1>1, <1>4, NotRefundedYet DEF Booked, Cancels
  <2>2. Answer(r, "duplicate") /\ UNCHANGED <<jobs, balance, ledger>>
    BY <1>2, <1>4, <2>1 DEF AppendAndCommit, Skipped, CloseJob
  <2>3. \E e \in Rows(call[r].user) : e.type = "EXCHANGE_CREDIT" /\ e.ref = call[r].ref
    <3>1. PICK u \in Users : \E e \in Rows(u) : e.type = "EXCHANGE_CREDIT" /\ e.ref = call[r].ref
      BY <2>1 DEF RedemptionConflict, AllRows
    <3>2. u = call[r].user
      BY <1>1, <2>1, <3>1 DEF JobsInv, BookInv, RowFits, CallFits
    <3>3. QED
      BY <3>1, <3>2
  <2>4. call[r].user \in Users
    BY <1>1 DEF CallShape
  <2>5. Others(r) /\ Continues(r)
    BY <1>1, <1>3, <2>2, <2>3, <2>4, AnswerEffect DEF Others, Stays, Continues, Plain, Held, Cancels
  <2>6. QED
    BY <1>3, <2>2, <2>5 DEF Rests, QuoteMoves
<1>5. CASE ~Booked(call[r])
  <2>1. /\ CloseJob(call[r])
        /\ AppendEntry(call[r].user, EntryType(call[r].op), Funds(r), call[r].ref, seen[r])
        /\ Answer(r, Done(call[r].op))
    BY <1>2, <1>5 DEF AppendAndCommit
  <2>2. BooksRow(r, EntryType(call[r].op), call[r].ref)
    BY <1>1, <2>1, AppendBooks
  <2>3. Commits(r, Done(call[r].op))
    BY <1>1, <1>3, <2>1, AnswerEffect DEF Commits, Others, Stays
  <2>4. QED
    BY <1>1, <1>3, <1>5, <2>1, <2>2, <2>3
       DEF Pays, Refunds, Booked, CloseJob, Done, EntryType, Cancels
<1>6. QED
  BY <1>4, <1>5

(* What cancelActiveWaypoint does first.                                   *)
LEMMA CancelEffect ==
  ASSUME JobsInv, NEW r \in Requests, CancelJob(r)
  PROVE  Rests(r) \/ Chooses(r) \/ Drops(r)
<1>1. TypeOK /\ CallShape(r) /\ pc[r] = "update" /\ UNCHANGED <<quotes, balance, ledger>>
  BY DEF JobsInv, WalletInv, CancelJob
<1>2. CASE ActiveJobs = {} /\ Answer(r, "not_found") /\ UNCHANGED <<jobs, call>>
  <2>1. Others(r) /\ Continues(r)
    BY <1>1, <1>2, AnswerEffect DEF Others, Stays, Continues, Plain, Held, Cancels
  <2>2. QED
    BY <1>1, <1>2, <2>1 DEF Rests, QuoteMoves
<1>3. ASSUME NEW w \in ActiveJobs, JobFree(w),
             call[r].op = "drop" \/ \A u \in Users : DebitOf(w, u) = {},
             jobs' = [jobs EXCEPT ![w].status = "CANCELED"],
             call' = [call EXCEPT ![r].ref = w],
             Answer(r, "canceled")
      PROVE  Drops(r)
  <2>1. w \in Requests /\ JobFits(w) /\ jobs[w].status = "ACTIVE" /\ CallShape(w)
    BY <1>3 DEF ActiveJobs, JobsInv, BookInv, WalletInv
  <2>2. DebitOf(w, call[w].user) # {} /\ call[w].user \in Users
    BY <2>1 DEF JobFits, CallShape
  <2>3. Others(r)
    BY <1>1, <1>3, AnswerEffect DEF Others, Stays, TypeOK
  <2>4. QED
    BY <1>1, <1>3, <2>2, <2>3, AnswerEffect DEF Drops
<1>4. ASSUME NEW w \in ActiveJobs, JobFree(w), NEW u \in Users, NEW e \in DebitOf(w, u),
             call[r].op = "cancel",
             call' = [call EXCEPT ![r] = Asks("cancel", u, None, w, -e.amount)],
             Goto(r, "wallet"), UNCHANGED <<jobs, reply>>
      PROVE  Chooses(r)
  <2>1. w \in Requests /\ call[w].user = u /\ e.amount = -Cost(w) /\ Cost(w) \in Int
    BY <1>1, <1>4 DEF ActiveJobs, DebitOf, JobsInv, BookInv, RowFits, WalletInv, JobFits, CallShape, Cost, TypeOK, QuoteRow
  <2>2. -e.amount = Cost(w)
    BY <2>1
  <2>3. call'[r] = Asks("cancel", call[w].user, None, w, Cost(w))
    BY <1>1, <1>4, <2>1, <2>2 DEF TypeOK
  <2>4. Others(r)
    BY <1>1, <1>4, GotoEffect DEF Others, Stays, TypeOK
  <2>5. QED
    BY <1>1, <1>4, <2>3, <2>4, GotoEffect DEF Chooses
<1>5. QED
  BY <1>2, <1>3, <1>4 DEF CancelJob

(* completeActiveWaypoint.                                                 *)
LEMMA CompleteEffect ==
  ASSUME JobsInv, CompleteJob
  PROVE  Completes
BY DEF CompleteJob, Completes, Stays

(* Every step of every interleaving is one of these seven.                 *)
LEMMA Effects ==
  ASSUME JobsInv, [Next]_vars
  PROVE  \/ \E r : Rests(r)
         \/ \E r \in Requests : Buys(r) \/ Pays(r) \/ Refunds(r) \/ Chooses(r) \/ Drops(r)
         \/ Completes
<1>1. ASSUME NEW r \in Requests, Step(r)
      PROVE  Rests(r) \/ Buys(r) \/ Pays(r) \/ Refunds(r) \/ Chooses(r) \/ Drops(r)
  BY <1>1, MoveRests, LockQuoteRests, InsertWaypointRests, DebitEffect, AppendEffect, CancelEffect,
     FindLiveQuoteRests, SupersedeRests, CreateQuoteRests DEF Step
<1>2. ASSUME NEW r \in Fallible, Throws(r) \/ ReleaseFails(r) \/ Dies(r) PROVE Rests(r)
  BY <1>2, MoveRests, EconomyAssumption
<1>3. QED
  BY <1>1, <1>2, StartRests, WorldRests, CompleteEffect DEF Next

-----------------------------------------------------------------------------

(* No other request moves a quote that is locked.                          *)
LEMMA LockedRowKept ==
  ASSUME JobsInv, NEW p \in Requests, Held(p), NEW q, q = call[p].quote, QuoteMoves(q)
  PROVE  quotes'[q].status = "QUOTED" /\ quotes'[q].owner = quotes[q].owner
<1>1. ~QuoteFree(q) /\ quotes[q].status = "QUOTED"
  BY DEF QuoteFree, HoldsQuote, Held, JobsInv, LockInv, RowsLocked
<1>2. QED
  BY <1>1 DEF QuoteMoves

(* A row that was locked stays as it was, whatever step rests.             *)
LEMMA RestsLocks ==
  ASSUME JobsInv, NEW r, Rests(r)
  PROVE  LockInv'
<1> USE DEF JobsInv, LockInv
<1>1. ActiveJobs' = ActiveJobs /\ OneActive'
  BY DEF Rests, ActiveJobs, OneActive
<1>2. ASSUME NEW p \in Requests
      PROVE  /\ Held(p)' => /\ call'[p] = call[p] /\ call[p].quote \in Quotes
                            /\ Held(p) \/ QuoteFree(call[p].quote)
                            /\ quotes'[call[p].quote].status = "QUOTED"
                            /\ quotes'[call[p].quote].owner = call[p].user
             /\ pc'[p] = "debit" => pc[p] = "debit" \/ (ActiveJobs = {} /\ IndexDecided)
             /\ Cancels(p)' => Cancels(p) /\ call'[p] = call[p]
  <2>1. Stays(p) \/ (p = r /\ (Starts(p) \/ Continues(p)))
    BY DEF Rests, Others
  <2>2. Held(p)' => /\ call'[p] = call[p]
                    /\ \/ Held(p)
                       \/ /\ QuoteFree(call[p].quote)
                          /\ quotes'[call[p].quote] = quotes[call[p].quote]
                          /\ quotes[call[p].quote].status = "QUOTED"
                          /\ quotes[call[p].quote].owner = call[p].user
    BY <2>1 DEF Stays, Starts, Continues, Held
  <2>3. Held(p)' => call[p].quote \in Quotes /\ call[p].op = "purchase"
    BY <2>2 DEF Held, WalletInv, CallShape
  <2>4. Held(p) => quotes[call[p].quote].owner = call[p].user
    BY DEF RowsLocked
  <2>5. Held(p)' => quotes'[call[p].quote].status = "QUOTED" /\ quotes'[call[p].quote].owner = call[p].user
    BY <2>2, <2>3, <2>4, LockedRowKept DEF Rests
  <2>6. pc'[p] = "debit" => pc[p] = "debit" \/ (ActiveJobs = {} /\ IndexDecided)
    BY <2>1 DEF Stays, Starts, Continues
  <2>7. Cancels(p)' => Cancels(p) /\ call'[p] = call[p]
    BY <2>1 DEF Stays, Starts, Continues, Cancels
  <2>8. QED
    BY <2>2, <2>3, <2>5, <2>6, <2>7
<1>3. \A p \in Requests : RowsLocked(p)'
  BY <1>1, <1>2 DEF RowsLocked
<1>4. LocksExclusive'
  <2> SUFFICES ASSUME NEW p \in Requests, NEW v \in Requests
               PROVE  /\ Held(p)' /\ Held(v)' /\ call'[p].quote = call'[v].quote => p = v
                      /\ pc'[p] = "debit" /\ pc'[v] = "debit" => p = v
                      /\ Cancels(p)' /\ Cancels(v)' => p = v
    BY DEF LocksExclusive
  <2>1. p = v \/ Stays(p) \/ Stays(v)
    BY DEF Rests, Others
  <2>2. Held(p)' /\ Held(v)' /\ call'[p].quote = call'[v].quote => p = v
    BY <1>2, <2>1 DEF LocksExclusive, QuoteFree, HoldsQuote, Held, Stays
  <2>3. pc'[p] = "debit" /\ pc'[v] = "debit" => p = v
    BY <1>2, <2>1 DEF LocksExclusive, IndexDecided, Inserting, Stays
  <2>4. Cancels(p)' /\ Cancels(v)' => p = v
    BY <1>2 DEF LocksExclusive
  <2>5. QED
    BY <2>2, <2>3, <2>4
<1>5. QED
  BY <1>1, <1>3, <1>4

(* The other requests, when one commits.                                   *)
LEMMA CommitLocks ==
  ASSUME JobsInv, NEW r \in Requests, NEW a, Commits(r, a),
         \A p \in Requests \ {r} : Held(p) =>
           /\ quotes'[call[p].quote].status = quotes[call[p].quote].status
           /\ quotes'[call[p].quote].owner = quotes[call[p].quote].owner,
         \A p \in Requests \ {r} : pc[p] = "debit" => ActiveJobs' = {},
         \A p \in Requests \ {r} : Cancels(p) => call[p].ref \in ActiveJobs',
         OneActive'
  PROVE  LockInv'
<1> USE DEF JobsInv, LockInv
<1>1. call' = call /\ ~Held(r)' /\ ~Cancels(r)' /\ pc'[r] # "debit"
      /\ \A p \in Requests \ {r} : pc'[p] = pc[p]
  BY DEF Commits, Held, Cancels, Others, Stays
<1>2. \A p \in Requests : RowsLocked(p)'
  BY <1>1 DEF RowsLocked, Held, Cancels
<1>3. LocksExclusive'
  BY <1>1 DEF LocksExclusive, Held, Cancels
<1>4. QED
  BY <1>2, <1>3

(* A purchase leaves the locks in order.                                   *)
LEMMA BuysLocks ==
  ASSUME JobsInv, NEW r \in Requests, Buys(r)
  PROVE  LockInv'
<1> USE DEF JobsInv, LockInv
<1>1. TypeOK /\ call[r].quote \in Quotes /\ ActiveJobs = {} /\ Commits(r, "charged")
  BY DEF WalletInv, CallShape, Buys, Held, RowsLocked
<1>2. ActiveJobs' = {r}
  BY <1>1 DEF Buys, ActiveJobs, TypeOK
<1>3. \A p \in Requests \ {r} : Held(p) => quotes'[call[p].quote] = quotes[call[p].quote]
  BY <1>1 DEF Buys, LocksExclusive, TypeOK
<1>4. \A p \in Requests \ {r} : pc[p] # "debit" /\ ~Cancels(p)
  BY <1>1 DEF Buys, LocksExclusive, RowsLocked
<1>5. QED
  BY <1>1, <1>2, <1>3, <1>4, CommitLocks DEF OneActive

(* So does a credit or a correction.                                       *)
LEMMA PaysLocks ==
  ASSUME JobsInv, NEW r \in Requests, Pays(r)
  PROVE  LockInv'
<1>1. PICK a : Commits(r, a)
  BY DEF Pays
<1>2. quotes' = quotes /\ ActiveJobs' = ActiveJobs
  BY DEF Pays, ActiveJobs
<1>3. QED
  BY <1>1, <1>2, CommitLocks DEF JobsInv, LockInv, RowsLocked, OneActive

(* So does a refund.                                                       *)
LEMMA RefundsLocks ==
  ASSUME JobsInv, NEW r \in Requests, Refunds(r)
  PROVE  LockInv'
<1> USE DEF JobsInv, LockInv
<1>1. TypeOK /\ Cancels(r) /\ call[r].ref \in ActiveJobs /\ Commits(r, "refunded") /\ quotes' = quotes
  BY DEF WalletInv, Refunds, RowsLocked
<1>2. ActiveJobs' = {}
  BY <1>1 DEF Refunds, ActiveJobs, TypeOK, OneActive
<1>3. \A p \in Requests \ {r} : ~Cancels(p)
  BY <1>1 DEF LocksExclusive
<1>4. QED
  BY <1>1, <1>2, <1>3, CommitLocks DEF OneActive

(* The job that is chosen was free.                                        *)
LEMMA ChoosesLocks ==
  ASSUME JobsInv, NEW r \in Requests, Chooses(r)
  PROVE  LockInv'
<1> USE DEF JobsInv, LockInv
<1>1. PICK w \in ActiveJobs : /\ JobFree(w) /\ call[r].op = "cancel"
                              /\ call'[r] = Asks("cancel", call[w].user, None, w, Cost(w))
  BY DEF Chooses
<1>2. /\ quotes' = quotes /\ ActiveJobs' = ActiveJobs /\ pc'[r] = "wallet"
      /\ \A p \in Requests \ {r} : pc'[p] = pc[p] /\ call'[p] = call[p]
  BY DEF Chooses, ActiveJobs, Others, Stays
<1>3. ~Held(r)' /\ Cancels(r)' /\ call'[r].ref = w
  BY <1>1, <1>2 DEF Held, Cancels, Asks
<1>4. \A p \in Requests : ~Cancels(p)
  BY <1>1 DEF JobFree, HoldsJob, Cancels, OneActive, RowsLocked
<1>5. \A p \in Requests : RowsLocked(p)'
  BY <1>1, <1>2, <1>3 DEF RowsLocked, Held, Cancels
<1>6. LocksExclusive'
  BY <1>2, <1>3, <1>4 DEF LocksExclusive, Held, Cancels
<1>7. QED
  BY <1>2, <1>5, <1>6 DEF OneActive

(* A job is closed when no refund has it locked.                           *)
LEMMA CloseLocks ==
  ASSUME JobsInv, quotes' = quotes, NEW w \in ActiveJobs, JobFree(w),
         NEW s \in {"CANCELED", "COMPLETED"}, jobs' = [jobs EXCEPT ![w].status = s],
         \A p \in Requests : \/ Stays(p)
                             \/ /\ call[p].op = "drop" /\ call'[p] = [call[p] EXCEPT !.ref = w]
                                /\ pc'[p] \in {"release", "done"}
  PROVE  LockInv'
<1> USE DEF JobsInv, LockInv
<1>1. TypeOK /\ ActiveJobs' = {}
  BY DEF ActiveJobs, OneActive, WalletInv, TypeOK
<1>2. \A p \in Requests : ~Cancels(p)
  BY DEF JobFree, HoldsJob, Cancels, OneActive, RowsLocked
<1>3. \A p \in Requests : /\ Held(p)' => Held(p) /\ call'[p] = call[p]
                          /\ ~Cancels(p)'
                          /\ pc'[p] = "debit" => pc[p] = "debit"
  BY <1>2 DEF Held, Cancels, Stays
<1>4. \A p \in Requests : RowsLocked(p)'
  BY <1>1, <1>3 DEF RowsLocked
<1>5. LocksExclusive'
  BY <1>3 DEF LocksExclusive
<1>6. QED
  BY <1>1, <1>4, <1>5 DEF OneActive

-----------------------------------------------------------------------------
(* The jobs and the rows they stand on. *)

(* No step touches a job's call or the quote that it has paid.             *)
Keeps == \A w \in Requests : jobs[w].status # "NONE" =>
  /\ call'[w] = call[w] /\ pc'[w] \in {"release", "done"}
  /\ quotes'[call[w].quote] = quotes[call[w].quote]

(* What a job's row says of its purchase.                                  *)
LEMMA JobStands ==
  ASSUME JobsInv, NEW w \in Requests, jobs[w].status # "NONE"
  PROVE  /\ jobs[w].quote = call[w].quote /\ call[w].quote \in Quotes /\ call[w].op = "purchase"
         /\ pc[w] \in {"release", "done"} /\ quotes[call[w].quote].status = "PAID"
         /\ call[w].user \in Users /\ quotes[call[w].quote].owner = call[w].user
BY DEF JobsInv, BookInv, JobFits, WalletInv, CallShape

(* A job that was there still stands on its rows.                          *)
LEMMA JobFit ==
  ASSUME JobsInv, Keeps, NEW w \in Requests, jobs[w].status # "NONE",
         jobs'[w].status # "NONE", jobs'[w].quote = jobs[w].quote,
         \A u \in Users : Rows(u) \subseteq Rows(u)',
         \/ jobs'[w].status # "CANCELED" \/ Dropped(w)'
         \/ jobs[w].status = "CANCELED" /\ ~Dropped(w)
         \/ \E e \in Rows(call[w].user)' : e.type = "MISSION_REFUND" /\ e.ref = w /\ e.amount = Cost(w)
  PROVE  JobFits(w)'
<1>1. JobFits(w) /\ call[w].user \in Users /\ call'[w] = call[w] /\ Cost(w)' = Cost(w)
      /\ pc'[w] \in {"release", "done"} /\ quotes'[call[w].quote] = quotes[call[w].quote]
  BY JobStands DEF JobsInv, BookInv, Keeps, Cost
<1>2. \E e \in DebitOf(w, call[w].user)' : e.amount = -Cost(w)
  BY <1>1 DEF JobFits, DebitOf
<1>3. jobs'[w].status = "CANCELED" /\ ~Dropped(w)' => \E e \in RefundOf(w, call[w].user)' : e.amount = Cost(w)
  BY <1>1 DEF JobFits, RefundOf
<1>4. QED
  BY <1>1, <1>2, <1>3 DEF JobFits, DebitOf, RefundOf

(* A row that was there is still about what it is about.                   *)
LEMMA RowFit ==
  ASSUME JobsInv, Keeps, NEW u \in Users, NEW e \in Rows(u),
         \A w \in Requests : jobs[w].status # "NONE" =>
           /\ jobs'[w].status # "NONE"
           /\ jobs[w].status = "CANCELED" => jobs'[w].status = "CANCELED"
           /\ jobs[w].status = "CANCELED" /\ ~Dropped(w) => ~Dropped(w)'
  PROVE  RowFits(e, u)'
<1>1. RowFits(e, u)
  BY DEF JobsInv, BookInv
<1>2. e.ref \in Requests /\ jobs[e.ref].status # "NONE" =>
        call'[e.ref] = call[e.ref] /\ Cost(e.ref)' = Cost(e.ref)
  BY DEF Keeps, Cost
<1>3. QED
  BY <1>1, <1>2 DEF RowFits

(* A request that books nothing still carries what it has found.           *)
LEMMA CallFit ==
  ASSUME JobsInv, Keeps, NEW p \in Requests,
         \/ Stays(p) \/ Starts(p)
         \/ /\ call'[p] = call[p] /\ pc'[p] \notin {"idle", "update"} /\ (Cancels(p)' => Cancels(p))
         \/ call[p].op = "quote" /\ call'[p].op = "quote" /\ pc'[p] \notin {"idle", "update"},
         \A w \in Requests : jobs[w].status = "CANCELED" => jobs'[w].status = "CANCELED"
  PROVE  CallFits(p)'
<1>1. CallFits(p) /\ (Cancels(p) => call[p].ref \in Requests /\ jobs[call[p].ref].status # "NONE")
  BY DEF JobsInv, BookInv, LockInv, RowsLocked, ActiveJobs
<1>2. Cancels(p) => /\ call'[call[p].ref] = call[call[p].ref]
                    /\ quotes'[call[call[p].ref].quote] = quotes[call[call[p].ref].quote]
  BY <1>1 DEF Keeps
<1>3. CASE Starts(p)
  BY <1>3 DEF CallFits, Starts, Cancels
<1>4. CASE Stays(p)
  BY <1>1, <1>2, <1>4 DEF CallFits, Stays, Cancels, Cost
<1>5. CASE call'[p] = call[p] /\ pc'[p] \notin {"idle", "update"} /\ (Cancels(p)' => Cancels(p))
  BY <1>1, <1>2, <1>5 DEF CallFits, Cost
<1>6. CASE call[p].op = "quote" /\ call'[p].op = "quote" /\ pc'[p] \notin {"idle", "update"}
  BY <1>6 DEF CallFits, Cancels
<1>7. QED
  BY <1>3, <1>4, <1>5, <1>6

(* Which jobs were dropped changes only by a drop.                         *)
LEMMA DroppedKept ==
  ASSUME JobsInv, \A p \in Requests : \/ call'[p] = call[p]
                                      \/ Starts(p)
                                      \/ call[p].op # "drop" /\ call'[p].op # "drop"
  PROVE  \A w \in Requests : Dropped(w)' <=> Dropped(w)
<1>1. \A p \in Requests : Starts(p) =>
         call[p].op # "drop" /\ (call'[p].op = "drop" => call'[p].ref \notin Requests)
  BY EconomyAssumption DEF JobsInv, BookInv, CallFits, Starts, OpNames
<1>2. QED
  BY <1>1 DEF Dropped

(* A step that rests touches no job.                                       *)
LEMMA RestsKeeps ==
  ASSUME JobsInv, NEW r, Rests(r)
  PROVE  Keeps /\ \A w \in Requests : Dropped(w)' <=> Dropped(w)
<1>1. \A p \in Requests : Stays(p) \/ Starts(p) \/ Continues(p)
  BY DEF Rests, Others
<1>2. \A w \in Requests : Dropped(w)' <=> Dropped(w)
  BY <1>1, DroppedKept DEF Stays, Continues
<1>3. ASSUME NEW w \in Requests, jobs[w].status # "NONE"
      PROVE  /\ call'[w] = call[w] /\ pc'[w] \in {"release", "done"}
             /\ quotes'[call[w].quote] = quotes[call[w].quote]
  BY <1>1, <1>3, JobStands DEF Stays, Starts, Continues, Rests, QuoteMoves
<1>4. QED
  BY <1>2, <1>3 DEF Keeps

(* A step that books nothing leaves the books in order.                    *)
LEMMA RestsBooks ==
  ASSUME JobsInv, NEW r, Rests(r)
  PROVE  BookInv'
<1>1. jobs' = jobs /\ ledger' = ledger /\ (\A q \in Quotes : QuoteMoves(q)) /\ \A u \in Users : Rows(u)' = Rows(u)
  BY DEF Rests, Rows
<1>2. Keeps /\ \A w \in Requests : Dropped(w)' <=> Dropped(w)
  BY RestsKeeps
<1>3. ASSUME NEW p \in Requests PROVE CallFits(p)'
  <2>1. Stays(p) \/ Starts(p) \/ Continues(p)
    BY DEF Rests, Others
  <2>2. QED
    BY <1>1, <1>2, <2>1, CallFit DEF Continues
<1>4. ASSUME NEW w \in Requests PROVE JobFits(w)'
  <2>1. CASE jobs[w].status = "NONE"
    BY <1>1, <2>1 DEF JobsInv, BookInv, JobFits
  <2>2. CASE jobs[w].status # "NONE"
    BY <1>1, <1>2, <2>2, JobFit
  <2>3. QED
    BY <2>1, <2>2
<1>5. ASSUME NEW u \in Users PROVE RowOnce(u)' /\ \A e \in Rows(u)' : RowFits(e, u)'
  <2>1. RowOnce(u)'
    BY <1>1 DEF JobsInv, BookInv, RowOnce
  <2>2. QED
    BY <1>1, <1>2, <2>1, RowFit
<1>6. OneJobPerQuote' /\ PaidHasJob' /\ Priced'
  BY <1>1 DEF JobsInv, BookInv, OneJobPerQuote, PaidHasJob, Priced, QuoteMoves
<1>7. QED
  BY <1>3, <1>4, <1>5, <1>6 DEF BookInv

(* What one row more changes.                                              *)
LEMMA RowAdded ==
  ASSUME JobsInv, NEW r \in Requests, pc[r] \in Locked, NEW type \in EntryTypes, NEW ref \in Refs,
         BooksRow(r, type, ref)
  PROVE  /\ call[r].user \in Users
         /\ \A v \in Users \ {call[r].user} : Rows(v)' = Rows(v)
         /\ \E e : /\ e.type = type /\ e.ref = ref /\ e.amount = Funds(r)
                   /\ \A v \in Users : v = call[r].user => Rows(v)' = Rows(v) \union {e}
         /\ type = "ADMIN_ADJUSTMENT" \/ (\A f \in Rows(call[r].user) : f.type # type \/ f.ref # ref)
            => \A v \in Users : RowOnce(v)'
<1> DEFINE u == call[r].user
<1>1. TypeOK /\ u \in Users /\ Funds(r) \in Int
  <2>1. TypeOK /\ CallShape(r)
    BY DEF JobsInv, WalletInv
  <2>2. QED
    BY <2>1 DEF CallShape, Funds, TypeOK, Call, QuoteRow, Locked
<1>2. PICK n \in Nat : Adds(u, [type |-> type, amount |-> Funds(r), after |-> n, ref |-> ref])
  BY DEF BooksRow
<1> DEFINE e == [type |-> type, amount |-> Funds(r), after |-> n, ref |-> ref]
<1>3. e \in Entry /\ e.type = type /\ e.ref = ref /\ e.amount = Funds(r)
  BY <1>1, <1>2 DEF Entry
<1>4. ledger' = [ledger EXCEPT ![u] = Append(@, e)]
  BY <1>2 DEF Adds
<1> HIDE DEF e, u
<1>5. \A v \in Users \ {u} : ledger'[v] = ledger[v] /\ Rows(v)' = Rows(v)
  BY <1>1, <1>4 DEF TypeOK, Rows
<1>6. PICK m : m = Len(ledger[u])
  OBVIOUS
<1>7. /\ m \in Nat /\ Len(ledger'[u]) = m + 1 /\ ledger'[u][m + 1] = e
      /\ \A i \in 1..m : ledger'[u][i] = ledger[u][i]
  BY <1>1, <1>3, <1>4, <1>6 DEF TypeOK
<1>8. \A v \in Users : v = u => Rows(v)' = Rows(v) \union {e}
  BY <1>6, <1>7 DEF Rows
<1>9. ASSUME type = "ADMIN_ADJUSTMENT" \/ (\A f \in Rows(u) : f.type # type \/ f.ref # ref),
             NEW v \in Users
      PROVE  RowOnce(v)'
  <2>1. RowOnce(v)
    BY DEF JobsInv, BookInv
  <2>2. CASE v # u
    BY <1>5, <2>1, <2>2 DEF RowOnce
  <2>3. CASE v = u
    <3>1. \A i \in 1..m : ledger[u][i] \in Rows(u)
      BY <1>6 DEF Rows
    <3>2. \A i \in 1..(m + 1) : i \in 1..m \/ i = m + 1
      BY <1>7
    <3>3. \A i \in 1..m : \/ type = "ADMIN_ADJUSTMENT"
                          \/ ledger[u][i].type # type \/ ledger[u][i].ref # ref
      BY <1>9, <3>1
    <3>4. Len(ledger'[v]) = m + 1 /\ ledger'[v][m + 1] = e /\ \A i \in 1..m : ledger'[v][i] = ledger[u][i]
      BY <1>7, <2>3
    <3>5. ASSUME NEW i \in 1..(m + 1), NEW j \in 1..(m + 1),
                 ledger'[v][i].type = ledger'[v][j].type, ledger'[v][i].ref = ledger'[v][j].ref,
                 ledger'[v][i].type # "ADMIN_ADJUSTMENT"
          PROVE  i = j
      <4>1. CASE i \in 1..m /\ j \in 1..m
        BY <1>6, <2>1, <2>3, <3>4, <3>5, <4>1 DEF RowOnce
      <4>2. CASE i = m + 1 \/ j = m + 1
        BY <1>3, <3>2, <3>3, <3>4, <3>5, <4>2
      <4>3. QED
        BY <3>2, <4>1, <4>2
    <3>6. QED
      BY <3>4, <3>5 DEF RowOnce
  <2>4. QED
    BY <2>2, <2>3
<1>10. QED
  BY <1>1, <1>3, <1>5, <1>8, <1>9 DEF u

(* A purchase leaves the books in order: one debit, one job, one paid      *)
(* quote.                                                                  *)
LEMMA BuysBooks ==
  ASSUME JobsInv, NEW r \in Requests, Buys(r)
  PROVE  BookInv'
<1> PICK q, u : q = call[r].quote /\ u = call[r].user
  OBVIOUS
<1>1. TypeOK /\ CallShape(r) /\ q \in Quotes /\ call[r].op = "purchase" /\ pc[r] = "debit" /\ pc[r] \in Locked
      /\ Funds(r) = -Cost(r) /\ u \in Users /\ "WAYPOINT_DEBIT" \in EntryTypes /\ r \in Refs
  BY DEF JobsInv, WalletInv, CallShape, Buys, Held, Locked, Funds, Cost, EntryTypes, Refs
<1>2. quotes[q].status = "QUOTED" /\ quotes[q].owner = u
  BY DEF Buys, JobsInv, LockInv, RowsLocked
<1>3. jobs[r].status = "NONE" /\ \A w \in Requests : jobs[w].status # "NONE" => call[w].quote # q
  BY <1>1, <1>2, JobStands
<1>4. /\ quotes' = [quotes EXCEPT ![q].status = "PAID"]
      /\ jobs' = [jobs EXCEPT ![r] = [status |-> "ACTIVE", quote |-> q]]
      /\ call' = call /\ Others(r) /\ pc'[r] \in {"release", "done"}
  BY DEF Buys, Commits
<1>5. /\ quotes'[q].status = "PAID" /\ quotes'[q].owner = u /\ quotes'[q].cost = quotes[q].cost
      /\ \A p \in Quotes \ {q} : quotes'[p] = quotes[p]
      /\ jobs'[r].status = "ACTIVE" /\ jobs'[r].quote = q
      /\ \A w \in Requests \ {r} : jobs'[w] = jobs[w]
  BY <1>1, <1>2, <1>4 DEF TypeOK, QuoteRow
<1>6. Keeps /\ \A w \in Requests : Dropped(w)' <=> Dropped(w)
  BY <1>3, <1>4, <1>5, JobStands DEF Keeps, Dropped, Others, Stays
<1>7. \A f \in Rows(u) : f.type # "WAYPOINT_DEBIT" \/ f.ref # r
  BY <1>1, <1>3 DEF JobsInv, BookInv, RowFits
<1>8. PICK e : /\ e.type = "WAYPOINT_DEBIT" /\ e.ref = r /\ e.amount = -Cost(r)
               /\ Rows(u)' = Rows(u) \union {e}
  BY <1>1, RowAdded DEF Buys
<1>9. (\A v \in Users : RowOnce(v)') /\ \A v \in Users \ {u} : Rows(v)' = Rows(v)
  BY <1>1, <1>7, RowAdded DEF Buys
<1>10. ASSUME NEW p \in Requests PROVE CallFits(p)'
  <2>1. p = r \/ Stays(p)
    BY <1>4 DEF Others
  <2>2. QED
    BY <1>3, <1>4, <1>5, <1>6, <2>1, CallFit DEF Cancels
<1>11. ASSUME NEW w \in Requests PROVE JobFits(w)'
  <2>1. CASE w = r
    <3>1. e \in DebitOf(r, u)' /\ Cost(r)' = Cost(r)
      BY <1>4, <1>5, <1>8 DEF DebitOf, Cost
    <3>2. QED
      BY <1>1, <1>4, <1>5, <1>8, <2>1, <3>1 DEF JobFits
  <2>2. CASE w # r /\ jobs[w].status = "NONE"
    BY <1>5, <2>2 DEF JobsInv, BookInv, JobFits
  <2>3. CASE w # r /\ jobs[w].status # "NONE"
    <3>1. \A v \in Users : Rows(v) \subseteq Rows(v)'
      BY <1>8, <1>9
    <3>2. QED
      BY <1>5, <1>6, <2>3, <3>1, JobFit
  <2>4. QED
    BY <2>1, <2>2, <2>3
<1>12. ASSUME NEW v \in Users PROVE \A f \in Rows(v)' : RowFits(f, v)'
  <2>1. \A f \in Rows(v) : RowFits(f, v)'
    BY <1>3, <1>5, <1>6, RowFit
  <2>2. RowFits(e, u)'
    BY <1>1, <1>4, <1>5, <1>8 DEF RowFits, Cost
  <2>3. QED
    BY <1>8, <1>9, <2>1, <2>2
<1>13. OneJobPerQuote' /\ PaidHasJob' /\ Priced'
  <2>1. OneJobPerQuote'
    BY <1>3, <1>5, JobStands DEF JobsInv, BookInv, OneJobPerQuote
  <2>2. PaidHasJob'
    BY <1>3, <1>5 DEF JobsInv, BookInv, PaidHasJob
  <2>3. Priced'
    BY <1>1, <1>2, <1>5 DEF JobsInv, BookInv, Priced
  <2>4. QED
    BY <2>1, <2>2, <2>3
<1>14. QED
  BY <1>9, <1>10, <1>11, <1>12, <1>13 DEF BookInv

(* So does a credit or a correction.                                       *)
LEMMA PaysBooks ==
  ASSUME JobsInv, NEW r \in Requests, Pays(r)
  PROVE  BookInv'
<1> PICK u, type : /\ u = call[r].user
                   /\ type = IF call[r].op = "credit" THEN "EXCHANGE_CREDIT" ELSE "ADMIN_ADJUSTMENT"
  OBVIOUS
<1>1. TypeOK /\ CallShape(r) /\ CallFits(r) /\ pc[r] \in Locked /\ u \in Users /\ type \in EntryTypes /\ call[r].ref \in Refs
      /\ call[r].op \in {"credit", "adjust"}
  BY DEF JobsInv, WalletInv, BookInv, CallShape, Pays, Locked, EntryTypes, TypeOK, Call
<1>2. /\ quotes' = quotes /\ jobs' = jobs /\ call' = call /\ Others(r) /\ pc'[r] \in {"release", "done"}
      /\ BooksRow(r, type, call[r].ref)
  BY DEF Pays, Commits
<1>3. call[r].op = "credit" => ~RedemptionConflict(call[r].ref)
  BY DEF Pays
<1>4. Keeps /\ \A w \in Requests : Dropped(w)' <=> Dropped(w)
  BY <1>2, JobStands DEF Keeps, Dropped, Others, Stays
<1>5. type = "ADMIN_ADJUSTMENT" \/ \A f \in Rows(u) : f.type # type \/ f.ref # call[r].ref
  BY <1>1, <1>3 DEF RedemptionConflict, AllRows
<1>6. PICK e : e.type = type /\ e.ref = call[r].ref /\ Rows(u)' = Rows(u) \union {e}
  <2>1. pc[r] \in Locked /\ type \in EntryTypes /\ call[r].ref \in Refs /\ BooksRow(r, type, call[r].ref)
    BY <1>1, <1>2
  <2>2. \E e : /\ e.type = type /\ e.ref = call[r].ref
              /\ \A v \in Users : v = call[r].user => Rows(v)' = Rows(v) \union {e}
    BY <2>1, RowAdded
  <2>3. QED
    BY <1>1, <2>2
<1>7. (\A v \in Users : RowOnce(v)') /\ \A v \in Users \ {u} : Rows(v)' = Rows(v)
  BY <1>1, <1>2, <1>5, RowAdded
<1>8. ASSUME NEW p \in Requests PROVE CallFits(p)'
  <2>1. p = r \/ Stays(p)
    BY <1>2 DEF Others
  <2>2. QED
    BY <1>2, <1>4, <2>1, CallFit DEF Cancels
<1>9. ASSUME NEW w \in Requests PROVE JobFits(w)'
  <2>1. CASE jobs[w].status = "NONE"
    BY <1>2, <2>1 DEF JobsInv, BookInv, JobFits
  <2>2. CASE jobs[w].status # "NONE"
    BY <1>2, <1>4, <1>6, <1>7, <2>2, JobFit
  <2>3. QED
    BY <2>1, <2>2
<1>10. ASSUME NEW v \in Users PROVE \A f \in Rows(v)' : RowFits(f, v)'
  <2>1. \A f \in Rows(v) : RowFits(f, v)'
    BY <1>2, <1>4, RowFit
  <2>2. RowFits(e, u)'
    BY <1>1, <1>6 DEF RowFits, CallFits
  <2>3. QED
    BY <1>6, <1>7, <2>1, <2>2
<1>11. OneJobPerQuote' /\ PaidHasJob' /\ Priced'
  BY <1>2 DEF JobsInv, BookInv, OneJobPerQuote, PaidHasJob, Priced
<1>12. QED
  BY <1>7, <1>8, <1>9, <1>10, <1>11 DEF BookInv

(* So does a refund: one row for the job, at its price.                    *)
LEMMA RefundsBooks ==
  ASSUME JobsInv, NEW r \in Requests, Refunds(r)
  PROVE  BookInv'
<1> PICK u, k : u = call[r].user /\ k = call[r].ref
  OBVIOUS
<1>1. /\ TypeOK /\ pc[r] \in Locked /\ Cancels(r) /\ call[r].op = "cancel"
      /\ u \in Users /\ "MISSION_REFUND" \in EntryTypes /\ k \in Refs
  BY DEF JobsInv, WalletInv, CallShape, Refunds, Cancels, Locked, EntryTypes, TypeOK, Call
<1>2. k \in ActiveJobs /\ k \in Requests /\ jobs[k].status = "ACTIVE" /\ ~RefundConflict(k)
      /\ u = call[k].user /\ Funds(r) = Cost(k)
  BY <1>1, NotRefundedYet DEF JobsInv, LockInv, RowsLocked, ActiveJobs, BookInv, CallFits, Funds
<1>3. /\ quotes' = quotes /\ call' = call /\ Others(r) /\ pc'[r] \in {"release", "done"}
      /\ jobs' = [jobs EXCEPT ![k].status = "CANCELED"]
      /\ BooksRow(r, "MISSION_REFUND", k)
  BY DEF Refunds, Commits
<1>4. /\ jobs'[k].status = "CANCELED" /\ jobs'[k].quote = jobs[k].quote
      /\ \A w \in Requests \ {k} : jobs'[w] = jobs[w]
  BY <1>1, <1>2, <1>3 DEF TypeOK, JobRow
<1>5. Keeps /\ \A w \in Requests : Dropped(w)' <=> Dropped(w)
  BY <1>3, JobStands DEF Keeps, Dropped, Others, Stays
<1>6. \A f \in Rows(u) : f.type # "MISSION_REFUND" \/ f.ref # k
  BY <1>1, <1>2 DEF RefundConflict, AllRows
<1>7. PICK e : /\ e.type = "MISSION_REFUND" /\ e.ref = k /\ e.amount = Cost(k)
               /\ Rows(u)' = Rows(u) \union {e}
  <2>1. pc[r] \in Locked /\ "MISSION_REFUND" \in EntryTypes /\ k \in Refs /\ BooksRow(r, "MISSION_REFUND", k)
    BY <1>1, <1>3
  <2>2. PICK e : /\ e.type = "MISSION_REFUND" /\ e.ref = k /\ e.amount = Funds(r)
                 /\ \A v \in Users : v = call[r].user => Rows(v)' = Rows(v) \union {e}
    BY <2>1, RowAdded
  <2>3. QED
    BY <1>1, <1>2, <2>2
<1>8. (\A v \in Users : RowOnce(v)') /\ \A v \in Users \ {u} : Rows(v)' = Rows(v)
  <2>1. pc[r] \in Locked /\ "MISSION_REFUND" \in EntryTypes /\ k \in Refs /\ BooksRow(r, "MISSION_REFUND", k)
    BY <1>1, <1>3
  <2>2. \A f \in Rows(call[r].user) : f.type # "MISSION_REFUND" \/ f.ref # k
    BY <1>6
  <2>3. QED
    BY <2>1, <2>2, RowAdded
<1>9. ~Dropped(k)
  <2>1. \A p \in Requests : CallFits(p)
    BY DEF JobsInv, BookInv
  <2>2. QED
    BY <1>2, <2>1, EconomyAssumption DEF Dropped, CallFits
<1>10. ASSUME NEW p \in Requests PROVE CallFits(p)'
  <2>1. p = r \/ Stays(p)
    BY <1>3 DEF Others
  <2>2. QED
    BY <1>2, <1>3, <1>4, <1>5, <2>1, CallFit DEF Cancels
<1>11. ASSUME NEW w \in Requests PROVE JobFits(w)'
  <2>1. CASE jobs[w].status = "NONE"
    BY <1>2, <1>4, <2>1 DEF JobsInv, BookInv, JobFits
  <2>2. CASE jobs[w].status # "NONE"
    <3>1. \A v \in Users : Rows(v) \subseteq Rows(v)'
      BY <1>7, <1>8
    <3>2. w = k => e \in Rows(call[w].user)'
      BY <1>2, <1>3, <1>7
    <3>3. jobs'[w].status # "NONE" /\ jobs'[w].quote = jobs[w].quote
      BY <1>4, <2>2
    <3>4. \/ jobs'[w].status # "CANCELED" \/ Dropped(w)'
          \/ jobs[w].status = "CANCELED" /\ ~Dropped(w)
          \/ \E f \in Rows(call[w].user)' : f.type = "MISSION_REFUND" /\ f.ref = w /\ f.amount = Cost(w)
      BY <1>4, <1>5, <1>7, <3>2
    <3>5. QED
      BY <1>5, <2>2, <3>1, <3>3, <3>4, JobFit
  <2>3. QED
    BY <2>1, <2>2
<1>12. ASSUME NEW v \in Users PROVE \A f \in Rows(v)' : RowFits(f, v)'
  <2>1. \A f \in Rows(v) : RowFits(f, v)'
    BY <1>2, <1>4, <1>5, RowFit
  <2>2. RowFits(e, u)'
    BY <1>2, <1>3, <1>4, <1>5, <1>7, <1>9 DEF RowFits, Cost
  <2>3. QED
    BY <1>7, <1>8, <2>1, <2>2
<1>13. OneJobPerQuote' /\ PaidHasJob' /\ Priced'
  BY <1>2, <1>3, <1>4 DEF JobsInv, BookInv, OneJobPerQuote, PaidHasJob, Priced
<1>14. QED
  BY <1>8, <1>10, <1>11, <1>12, <1>13 DEF BookInv

(* A cancellation carries the buyer and the price of the job.              *)
LEMMA ChoosesBooks ==
  ASSUME JobsInv, NEW r \in Requests, Chooses(r)
  PROVE  BookInv'
<1>1. PICK w \in ActiveJobs : /\ JobFree(w) /\ call[r].op = "cancel"
                              /\ call'[r] = Asks("cancel", call[w].user, None, w, Cost(w))
  BY DEF Chooses
<1>2. /\ quotes' = quotes /\ jobs' = jobs /\ ledger' = ledger /\ pc'[r] = "wallet" /\ Others(r)
      /\ \A u \in Users : Rows(u)' = Rows(u)
  BY DEF Chooses, Rows
<1>3. call'[r].op = "cancel" /\ call'[r].ref = w /\ call'[r].user = call[w].user /\ call'[r].amount = Cost(w)
      /\ w \in Requests /\ jobs[w].status # "NONE"
  BY <1>1 DEF Asks, ActiveJobs
<1>4. Keeps
  BY <1>1, <1>2, JobStands DEF Keeps, Others, Stays
<1>5. \A v \in Requests : Dropped(v)' <=> Dropped(v)
  BY <1>1, <1>2, <1>3, DroppedKept DEF Others, Stays
<1>6. ASSUME NEW p \in Requests PROVE CallFits(p)'
  <2>1. CASE p = r
    <3>1. call'[w] = call[w] /\ Cost(w)' = Cost(w)
      BY <1>3, <1>4 DEF Keeps, Cost
    <3>2. QED
      BY <1>2, <1>3, <2>1, <3>1 DEF CallFits
  <2>2. CASE p # r
    BY <1>2, <1>4, <2>2, CallFit DEF Others
  <2>3. QED
    BY <2>1, <2>2
<1>7. ASSUME NEW v \in Requests PROVE JobFits(v)'
  <2>1. CASE jobs[v].status = "NONE"
    BY <1>2, <2>1 DEF JobsInv, BookInv, JobFits
  <2>2. CASE jobs[v].status # "NONE"
    BY <1>2, <1>4, <1>5, <2>2, JobFit
  <2>3. QED
    BY <2>1, <2>2
<1>8. ASSUME NEW u \in Users PROVE RowOnce(u)' /\ \A e \in Rows(u)' : RowFits(e, u)'
  <2>1. RowOnce(u)'
    BY <1>2 DEF JobsInv, BookInv, RowOnce
  <2>2. QED
    BY <1>2, <1>4, <1>5, <2>1, RowFit
<1>9. OneJobPerQuote' /\ PaidHasJob' /\ Priced'
  BY <1>2 DEF JobsInv, BookInv, OneJobPerQuote, PaidHasJob, Priced
<1>10. QED
  BY <1>6, <1>7, <1>8, <1>9 DEF BookInv

(* A job is completed, or dropped without a refund.                        *)
LEMMA CloseBooks ==
  ASSUME JobsInv, UNCHANGED <<quotes, ledger>>, NEW k \in ActiveJobs,
         NEW s \in {"CANCELED", "COMPLETED"}, jobs' = [jobs EXCEPT ![k].status = s],
         \A p \in Requests : \/ Stays(p)
                             \/ /\ pc[p] = "update" /\ call[p].op = "drop"
                                /\ call'[p] = [call[p] EXCEPT !.ref = k]
                                /\ pc'[p] \in {"release", "done"} /\ s = "CANCELED",
         s = "CANCELED" => Dropped(k)'
  PROVE  BookInv'
<1>1. /\ TypeOK /\ k \in Requests /\ jobs[k].status = "ACTIVE"
      /\ \A u \in Users : Rows(u)' = Rows(u)
  BY DEF JobsInv, WalletInv, ActiveJobs, Rows
<1>2. /\ jobs'[k].status = s /\ jobs'[k].quote = jobs[k].quote
      /\ \A w \in Requests \ {k} : jobs'[w] = jobs[w]
  BY <1>1 DEF TypeOK, JobRow
<1>3. Keeps
  BY JobStands DEF Keeps, Stays
<1>4. \A p \in Requests : /\ call'[p].op = call[p].op
                          /\ call'[p] = call[p] \/ (call[p].ref = None /\ call'[p].ref = k /\ call[p].op = "drop")
  <2> SUFFICES ASSUME NEW p \in Requests
               PROVE  /\ call'[p].op = call[p].op
                      /\ call'[p] = call[p] \/ (call[p].ref = None /\ call'[p].ref = k /\ call[p].op = "drop")
    OBVIOUS
  <2>1. CallFits(p) /\ call[p] \in Call
    BY <1>1 DEF JobsInv, BookInv, TypeOK
  <2>2. QED
    BY <2>1 DEF Stays, CallFits, Call
<1>5. \A w \in Requests \ {k} : Dropped(w)' <=> Dropped(w)
  BY <1>4, EconomyAssumption DEF Dropped
<1>6. ASSUME NEW p \in Requests PROVE CallFits(p)'
  <2>1. CASE Stays(p)
    BY <1>1, <1>2, <1>3, <2>1, CallFit
  <2>2. CASE ~Stays(p)
    <3>1. call[p] \in Call
      BY <1>1 DEF TypeOK
    <3>2. call'[p].op = "drop" /\ call'[p].ref = k /\ pc'[p] \in {"release", "done"} /\ s = "CANCELED"
      BY <2>2, <3>1 DEF Call
    <3>3. QED
      BY <1>1, <1>2, <3>2 DEF CallFits, Cancels
  <2>3. QED
    BY <2>1, <2>2
<1>7. ASSUME NEW w \in Requests PROVE JobFits(w)'
  <2>1. CASE jobs[w].status = "NONE"
    BY <1>1, <1>2, <2>1 DEF JobsInv, BookInv, JobFits
  <2>2. CASE jobs[w].status # "NONE"
    BY <1>1, <1>2, <1>3, <1>5, <2>2, JobFit
  <2>3. QED
    BY <2>1, <2>2
<1>8. ASSUME NEW u \in Users PROVE RowOnce(u)' /\ \A e \in Rows(u)' : RowFits(e, u)'
  <2>1. RowOnce(u)'
    BY DEF JobsInv, BookInv, RowOnce
  <2>2. QED
    BY <1>1, <1>2, <1>3, <1>5, <2>1, RowFit
<1>9. OneJobPerQuote' /\ PaidHasJob' /\ Priced'
  BY <1>1, <1>2 DEF JobsInv, BookInv, OneJobPerQuote, PaidHasJob, Priced
<1>10. QED
  BY <1>6, <1>7, <1>8, <1>9 DEF BookInv

-----------------------------------------------------------------------------
(* The answers. *)

(* What answers rest on is never taken back.                               *)
Persists ==
  /\ \A u \in Users : Rows(u) \subseteq Rows(u)'
  /\ \A q \in Quotes : quotes[q].status = "PAID" =>
       quotes'[q].status = "PAID" /\ quotes'[q].owner = quotes[q].owner

(* What was true when a request was answered stays true.                   *)
LEMMA AnswerKept ==
  ASSUME JobsInv, Persists, NEW p \in Requests,
         \/ Stays(p)
         \/ call'[p] = call[p] /\ pc'[p] = "done" /\ reply'[p] \in {"error", "lost"},
         jobs'[p].status # "NONE" <=> jobs[p].status # "NONE"
  PROVE  AnswerFits(p)'
<1>1. AnswerFits(p) /\ (call[p].op = "purchase" => call[p].quote \in Quotes)
  BY DEF JobsInv, AnswerInv, WalletInv, CallShape
<1>2. call'[p] = call[p]
  BY DEF Stays
<1>3. RefundConflict(call[p].ref) => RefundConflict(call[p].ref)'
  BY <1>2 DEF RefundConflict, AllRows, Persists
<1>4. QED
  BY <1>1, <1>2, <1>3 DEF AnswerFits, Stays, Persists

(* A step that rests tells nothing that is not so.                         *)
LEMMA RestsAnswers ==
  ASSUME JobsInv, NEW r, Rests(r)
  PROVE  AnswerInv'
<1> SUFFICES ASSUME NEW p \in Requests PROVE AnswerFits(p)'
  BY DEF AnswerInv
<1>1. /\ jobs' = jobs /\ (\A u \in Users : Rows(u)' = Rows(u)) /\ Persists
      /\ Stays(p) \/ Starts(p) \/ Continues(p)
  BY DEF Rests, Rows, QuoteMoves, Persists, Others
<1>2. CASE Stays(p)
  BY <1>1, <1>2, AnswerKept
<1>3. CASE Starts(p)
  <2>1. reply[p] = "none" /\ jobs[p].status = "NONE"
    BY <1>3, JobStands DEF JobsInv, AnswerInv, AnswerFits, Starts
  <2>2. QED
    BY <1>1, <1>3, <2>1 DEF AnswerFits, Starts
<1>4. CASE Continues(p)
  <2>1. CASE call'[p] = call[p] /\ reply'[p] = reply[p] /\ reply[p] # "none"
    <3>1. pc'[p] \in {"release", "done"} /\ AnswerFits(p) /\ (call[p].op = "purchase" => call[p].quote \in Quotes)
      BY <1>4, <2>1 DEF Continues, JobsInv, AnswerInv, AnswerFits, WalletInv, CallShape
    <3>2. RefundConflict(call[p].ref) => RefundConflict(call[p].ref)'
      BY <1>1, <2>1 DEF RefundConflict, AllRows
    <3>3. QED
      BY <1>1, <2>1, <3>1, <3>2 DEF AnswerFits, Persists
  <2>2. CASE pc'[p] = "done" /\ reply'[p] \in {"error", "lost"}
    BY <1>1, <2>2 DEF AnswerFits
  <2>3. CASE reply'[p] = "none"
    <3>1. AnswerFits(p) /\ reply'[p] = reply[p]
      BY <1>4, <2>3 DEF Continues, Plain, JobsInv, AnswerInv
    <3>2. QED
      BY <1>1, <2>3, <3>1 DEF AnswerFits
  <2>4. CASE /\ pc[p] \notin {"release", "done"} /\ pc'[p] \in {"release", "done"}
             /\ Plain(p, reply'[p]) /\ call'[p] = call[p]
    <3>1. jobs[p].status = "NONE" /\ (call[p].op = "purchase" => call[p].quote \in Quotes)
      BY <2>4, JobStands DEF JobsInv, WalletInv, CallShape
    <3>2. QED
      BY <1>1, <2>4, <3>1 DEF AnswerFits, Plain, Persists
  <2>5. pc[p] = "live" => reply[p] = "none"
    BY DEF JobsInv, AnswerInv, AnswerFits
  <2>6. QED
    BY <1>4, <2>1, <2>2, <2>3, <2>4, <2>5 DEF Continues
<1>5. QED
  BY <1>1, <1>2, <1>3, <1>4

(* What was told to the others is still so when one commits.               *)
LEMMA CommitAnswers ==
  ASSUME JobsInv, Persists, NEW r \in Requests, NEW a, Commits(r, a), AnswerFits(r)',
         \A p \in Requests \ {r} : jobs'[p].status # "NONE" <=> jobs[p].status # "NONE"
  PROVE  AnswerInv'
BY AnswerKept DEF Commits, Others, AnswerInv

(* "charged" is told with the job committed.                               *)
LEMMA BuysAnswers ==
  ASSUME JobsInv, NEW r \in Requests, Buys(r)
  PROVE  AnswerInv'
<1> PICK q, u : q = call[r].quote /\ u = call[r].user
  OBVIOUS
<1>1. TypeOK /\ CallShape(r) /\ q \in Quotes /\ pc[r] \in Locked /\ "WAYPOINT_DEBIT" \in EntryTypes /\ r \in Refs
  BY DEF JobsInv, WalletInv, CallShape, Buys, Held, Locked, EntryTypes, Refs
<1>2. Commits(r, "charged") /\ BooksRow(r, "WAYPOINT_DEBIT", r)
      /\ quotes' = [quotes EXCEPT ![q].status = "PAID"]
      /\ jobs' = [jobs EXCEPT ![r] = [status |-> "ACTIVE", quote |-> q]]
  BY DEF Buys
<1>3. Persists
  <2>1. \A v \in Users : Rows(v) \subseteq Rows(v)'
    BY <1>1, <1>2, RowAdded
  <2>2. QED
    BY <1>1, <1>2, <2>1 DEF Persists, TypeOK, QuoteRow
<1>4. jobs'[r].status = "ACTIVE" /\ \A p \in Requests \ {r} : jobs'[p] = jobs[p]
  BY <1>1, <1>2 DEF TypeOK
<1>5. AnswerFits(r)'
  BY <1>2, <1>4 DEF Commits, AnswerFits
<1>6. QED
  BY <1>2, <1>3, <1>4, <1>5, CommitAnswers

(* "credited" is told with the row committed.                              *)
LEMMA PaysAnswers ==
  ASSUME JobsInv, NEW r \in Requests, Pays(r)
  PROVE  AnswerInv'
<1> PICK type, a : \/ call[r].op = "credit" /\ type = "EXCHANGE_CREDIT" /\ a = "credited"
                   \/ call[r].op = "adjust" /\ type = "ADMIN_ADJUSTMENT" /\ a = "adjusted"
  BY DEF Pays
<1>1. CallShape(r) /\ pc[r] \in Locked /\ type \in EntryTypes /\ call[r].ref \in Refs /\ call[r].user \in Users
  BY DEF JobsInv, WalletInv, CallShape, Pays, Locked, EntryTypes, TypeOK, Call
<1>2. Commits(r, a) /\ BooksRow(r, type, call[r].ref) /\ quotes' = quotes /\ jobs' = jobs /\ pc[r] = "append"
  BY DEF Pays
<1>3. PICK e : /\ e.type = type /\ e.ref = call[r].ref
               /\ \A v \in Users : v = call[r].user => Rows(v)' = Rows(v) \union {e}
  BY <1>1, <1>2, RowAdded
<1>4. Persists
  <2>1. \A v \in Users : Rows(v) \subseteq Rows(v)'
    BY <1>1, <1>2, RowAdded
  <2>2. QED
    BY <1>2, <2>1 DEF Persists
<1>5. AnswerFits(r)'
  <2>1. jobs[r].status = "NONE" /\ call' = call
    BY <1>2, JobStands DEF Commits
  <2>2. e \in Rows(call[r].user)'
    BY <1>1, <1>3, <2>1
  <2>3. QED
    BY <1>1, <1>2, <1>3, <2>1, <2>2 DEF Commits, AnswerFits
<1>6. QED
  BY <1>2, <1>4, <1>5, CommitAnswers

(* "refunded" is told with the row committed.                              *)
LEMMA RefundsAnswers ==
  ASSUME JobsInv, NEW r \in Requests, Refunds(r)
  PROVE  AnswerInv'
<1> PICK k : k = call[r].ref
  OBVIOUS
<1>1. TypeOK /\ CallShape(r) /\ pc[r] \in Locked /\ "MISSION_REFUND" \in EntryTypes /\ k \in Refs /\ call[r].user \in Users
  BY DEF JobsInv, WalletInv, CallShape, Refunds, Locked, EntryTypes, TypeOK, Call
<1>2. Commits(r, "refunded") /\ BooksRow(r, "MISSION_REFUND", k) /\ quotes' = quotes /\ pc[r] = "append"
      /\ jobs' = [jobs EXCEPT ![k].status = "CANCELED"]
  BY DEF Refunds
<1>3. PICK e : /\ e.type = "MISSION_REFUND" /\ e.ref = k
               /\ \A v \in Users : v = call[r].user => Rows(v)' = Rows(v) \union {e}
  BY <1>1, <1>2, RowAdded
<1>4. Persists
  <2>1. \A v \in Users : Rows(v) \subseteq Rows(v)'
    BY <1>1, <1>2, RowAdded
  <2>2. QED
    BY <1>2, <2>1 DEF Persists
<1>5. \A p \in Requests : jobs'[p].status # "NONE" <=> jobs[p].status # "NONE"
  <2>1. k \in Requests /\ jobs[k].status # "NONE"
    BY DEF Refunds, JobsInv, LockInv, RowsLocked, ActiveJobs
  <2>2. QED
    BY <1>1, <1>2, <2>1 DEF TypeOK, JobRow
<1>6. AnswerFits(r)'
  <2>1. jobs[r].status = "NONE" /\ call' = call
    BY <1>2, JobStands DEF Commits
  <2>2. RefundConflict(k)'
    BY <1>1, <1>3 DEF RefundConflict, AllRows
  <2>3. QED
    BY <1>2, <1>5, <2>1, <2>2 DEF Commits, AnswerFits, RefundConflict
<1>7. QED
  BY <1>2, <1>4, <1>5, <1>6, CommitAnswers

(* A cancellation that goes on has told nothing.                           *)
LEMMA ChoosesAnswers ==
  ASSUME JobsInv, NEW r \in Requests, Chooses(r)
  PROVE  AnswerInv'
<1>1. Persists /\ jobs' = jobs /\ Others(r) /\ reply'[r] = reply[r] /\ pc[r] = "update"
  BY DEF Chooses, Persists, Rows
<1>2. reply[r] = "none" /\ jobs[r].status = "NONE"
  BY <1>1, JobStands DEF JobsInv, AnswerInv, AnswerFits
<1>3. AnswerFits(r)'
  BY <1>1, <1>2 DEF AnswerFits
<1>4. QED
  BY <1>1, <1>3, AnswerKept DEF Others, AnswerInv

(* Closing a job takes back no answer.                                     *)
LEMMA CloseAnswers ==
  ASSUME JobsInv, UNCHANGED <<quotes, ledger>>, NEW k \in ActiveJobs,
         NEW s \in {"CANCELED", "COMPLETED"}, jobs' = [jobs EXCEPT ![k].status = s],
         \A p \in Requests : \/ Stays(p)
                             \/ /\ pc[p] = "update" /\ pc'[p] \in {"release", "done"}
                                /\ reply'[p] = "canceled"
  PROVE  AnswerInv'
<1>1. Persists
  BY DEF Persists, Rows
<1>2. \A p \in Requests : jobs'[p].status # "NONE" <=> jobs[p].status # "NONE"
  BY DEF JobsInv, WalletInv, TypeOK, JobRow, ActiveJobs
<1>3. ASSUME NEW p \in Requests, pc[p] = "update", pc'[p] \in {"release", "done"}, reply'[p] = "canceled"
      PROVE  AnswerFits(p)'
  BY <1>2, <1>3, JobStands DEF AnswerFits
<1>4. QED
  BY <1>1, <1>2, <1>3, AnswerKept DEF AnswerInv

-----------------------------------------------------------------------------

(* At the start there are no jobs, and only adjustments in the ledger.     *)
LEMMA InitJobs == Init => JobsInv
<1> SUFFICES ASSUME Init PROVE JobsInv
  OBVIOUS
<1>1. WalletInv
  BY InitWallet
<1>2. \A r \in Requests : pc[r] = "idle" /\ call[r] = NoCall /\ jobs[r] = NoJob /\ reply[r] = "none"
  BY DEF Init
<1>3. LockInv
  BY <1>2 DEF LockInv, RowsLocked, LocksExclusive, OneActive, Held, Cancels, ActiveJobs, NoCall, NoJob, Asks
<1>4. AnswerInv
  BY <1>2 DEF AnswerInv, AnswerFits, NoJob
<1>5. \A r \in Requests : JobFits(r) /\ CallFits(r)
  BY <1>2, EconomyAssumption DEF JobFits, CallFits, Cancels, NoCall, NoJob, Asks, OpNames
<1>6. ASSUME NEW u \in Users
      PROVE  \A i \in 1..Len(ledger[u]) : i = 1 /\ ledger[u][i].type = "ADMIN_ADJUSTMENT"
  <2>1. CASE Opening[u] = 0
    <3>1. ledger[u] = <<>>
      BY <2>1 DEF Init
    <3>2. QED
      BY <3>1
  <2>2. CASE Opening[u] # 0
    <3>1. ledger[u] = <<[type |-> "ADMIN_ADJUSTMENT", amount |-> Opening[u], after |-> Opening[u], ref |-> None]>>
      BY <2>2 DEF Init
    <3>2. QED
      BY <3>1
  <2>3. QED
    BY <2>1, <2>2
<1>7. \A u \in Users : RowOnce(u) /\ \A e \in Rows(u) : RowFits(e, u)
  BY <1>6 DEF RowOnce, RowFits, Rows
<1>8. OneJobPerQuote /\ PaidHasJob /\ Priced
  <2>1. settings.price \in Prices
    BY EconomyAssumption DEF Init
  <2>2. QED
    BY <1>2, <2>1, EconomyAssumption DEF OneJobPerQuote, PaidHasJob, Priced, NoJob, Init
<1>9. QED
  BY <1>1, <1>3, <1>4, <1>5, <1>7, <1>8 DEF JobsInv, BookInv

(* Every step keeps the invariant.                                         *)
LEMMA NextJobs == JobsInv /\ [Next]_vars => JobsInv'
<1> SUFFICES ASSUME JobsInv, [Next]_vars PROVE JobsInv'
  OBVIOUS
<1>1. WalletInv'
  BY NextWallet DEF JobsInv
<1>2. ASSUME NEW r, Rests(r) PROVE LockInv' /\ BookInv' /\ AnswerInv'
  BY <1>2, RestsLocks, RestsBooks, RestsAnswers
<1>3. ASSUME NEW r \in Requests, Buys(r) PROVE LockInv' /\ BookInv' /\ AnswerInv'
  BY <1>3, BuysLocks, BuysBooks, BuysAnswers
<1>4. ASSUME NEW r \in Requests, Pays(r) PROVE LockInv' /\ BookInv' /\ AnswerInv'
  BY <1>4, PaysLocks, PaysBooks, PaysAnswers
<1>5. ASSUME NEW r \in Requests, Refunds(r) PROVE LockInv' /\ BookInv' /\ AnswerInv'
  BY <1>5, RefundsLocks, RefundsBooks, RefundsAnswers
<1>6. ASSUME NEW r \in Requests, Chooses(r) PROVE LockInv' /\ BookInv' /\ AnswerInv'
  BY <1>6, ChoosesLocks, ChoosesBooks, ChoosesAnswers
<1>7. ASSUME NEW r \in Requests, Drops(r) PROVE LockInv' /\ BookInv' /\ AnswerInv'
  <2>1. PICK w \in ActiveJobs : /\ JobFree(w) /\ jobs' = [jobs EXCEPT ![w].status = "CANCELED"]
                                /\ call' = [call EXCEPT ![r].ref = w]
    BY <1>7 DEF Drops
  <2>2. call'[r] = [call[r] EXCEPT !.ref = w] /\ call[r].op = "drop" /\ call'[r].op = "drop" /\ call'[r].ref = w
    <3>1. call \in [Requests -> Call] /\ call[r].op = "drop"
      BY <1>7 DEF Drops, JobsInv, WalletInv, TypeOK
    <3>2. call[r] \in Call /\ call'[r] = [call[r] EXCEPT !.ref = w]
      BY <2>1, <3>1
    <3>3. QED
      BY <3>1, <3>2 DEF Call
  <2>3. \A p \in Requests : \/ Stays(p)
                            \/ /\ pc[p] = "update" /\ call[p].op = "drop" /\ call'[p] = [call[p] EXCEPT !.ref = w]
                               /\ pc'[p] \in {"release", "done"} /\ reply'[p] = "canceled"
    BY <1>7, <2>2 DEF Drops, Others
  <2>4. Dropped(w)'
    BY <2>2 DEF Dropped
  <2>5. UNCHANGED <<quotes, ledger>>
    BY <1>7 DEF Drops
  <2>6. QED
    BY <2>1, <2>3, <2>4, <2>5, CloseLocks, CloseBooks, CloseAnswers
<1>8. ASSUME Completes PROVE LockInv' /\ BookInv' /\ AnswerInv'
  BY <1>8, CloseLocks, CloseBooks, CloseAnswers DEF Completes
<1>9. QED
  BY <1>1, <1>2, <1>3, <1>4, <1>5, <1>6, <1>7, <1>8, Effects DEF JobsInv

(* The rows that requests have locked stay as they were read, the ledger   *)
(* and the jobs tell of the same purchases, and what was answered is so:   *)
(* in every reachable state.                                               *)
THEOREM JobsIsInvariant == Spec => []JobsInv
BY InitJobs, NextJobs, PTL DEF Spec

(* purchaseWaypoint, cancelActiveWaypoint: a job that stands or was        *)
(* completed has been paid for by one debit of its quote's price in its    *)
(* buyer's wallet, and a canceled one has been paid back once unless the   *)
(* admin dropped it, however purchases, refunds and failures interleave.   *)
THEOREM JobsAlwaysSettled == Spec => []JobsAreSettled
<1>1. ASSUME JobsInv PROVE JobsArePaid
  <2>1. \A q \in Quotes : quotes[q].status = "PAID" =>
          \E w \in Requests : jobs[w].status # "NONE" /\ jobs[w].quote = q
    BY <1>1 DEF JobsInv, BookInv, PaidHasJob
  <2>2. ASSUME NEW w \in Requests, jobs[w].status # "NONE"
        PROVE  /\ quotes[jobs[w].quote].status = "PAID"
               /\ \E e \in DebitOf(w, quotes[jobs[w].quote].owner) : e.amount = -quotes[jobs[w].quote].cost
    BY <1>1, <2>2, JobStands DEF JobsInv, BookInv, JobFits, Cost
  <2>3. ASSUME NEW w \in Requests, jobs[w].status # "NONE", NEW v \in Requests \ {w}
        PROVE  jobs[v].quote # jobs[w].quote
    <3>1. jobs[v].status = "NONE" => jobs[v].quote = None
      BY <1>1 DEF JobsInv, BookInv, JobFits
    <3>2. jobs[w].quote \in Quotes
      BY <1>1, <2>3, JobStands
    <3>3. QED
      BY <1>1, <2>3, <3>1, <3>2, EconomyAssumption DEF JobsInv, BookInv, OneJobPerQuote
  <2>4. ASSUME NEW u \in Users, NEW i \in 1..Len(ledger[u]), NEW j \in 1..Len(ledger[u]),
               ledger[u][i].type = "WAYPOINT_DEBIT"
        PROVE  /\ jobs[ledger[u][i].ref].status # "NONE"
               /\ quotes[jobs[ledger[u][i].ref].quote].owner = u
               /\ ledger[u][j].type = "WAYPOINT_DEBIT" /\ ledger[u][i].ref = ledger[u][j].ref => i = j
    <3>1. RowFits(ledger[u][i], u) /\ RowOnce(u)
      BY <1>1 DEF JobsInv, BookInv, Rows
    <3>2. QED
      BY <1>1, <2>4, <3>1, JobStands DEF RowFits, RowOnce
  <2>5. QED
    BY <2>1, <2>2, <2>3, <2>4 DEF JobsArePaid
<1>2. ASSUME JobsInv PROVE CanceledMeansRefunded
  <2>1. ASSUME NEW w \in Requests, jobs[w].status = "CANCELED", ~Dropped(w)
        PROVE  \E u \in Users : \E e \in RefundOf(w, u), d \in DebitOf(w, u) : e.amount = -d.amount
    <3>1. JobFits(w) /\ call[w].user \in Users /\ Cost(w) \in Int
      BY <1>2, <2>1, JobStands DEF JobsInv, BookInv, WalletInv, TypeOK, QuoteRow, Cost
    <3>2. PICK d \in DebitOf(w, call[w].user) : d.amount = -Cost(w)
      BY <2>1, <3>1 DEF JobFits
    <3>3. PICK e \in RefundOf(w, call[w].user) : e.amount = Cost(w)
      BY <2>1, <3>1 DEF JobFits
    <3>4. e.amount = -d.amount
      BY <3>1, <3>2, <3>3
    <3>5. QED
      BY <3>1, <3>4
  <2>2. ASSUME NEW u \in Users, NEW i \in 1..Len(ledger[u]), NEW j \in 1..Len(ledger[u]),
               ledger[u][i].type = "MISSION_REFUND"
        PROVE  /\ jobs[ledger[u][i].ref].status = "CANCELED" /\ ~Dropped(ledger[u][i].ref)
               /\ ledger[u][j].type = "MISSION_REFUND" /\ ledger[u][i].ref = ledger[u][j].ref => i = j
    <3>1. RowFits(ledger[u][i], u) /\ RowOnce(u)
      BY <1>2 DEF JobsInv, BookInv, Rows
    <3>2. QED
      BY <2>2, <3>1 DEF RowFits, RowOnce
  <2>3. QED
    BY <2>1, <2>2 DEF CanceledMeansRefunded
<1>3. JobsInv => JobsAreSettled
  BY <1>1, <1>2 DEF JobsAreSettled
<1>4. QED
  BY <1>3, JobsIsInvariant, PTL

(* creditExchange: a redemption is credited once, to its redeemer, and who *)
(* is told "credited" or "duplicate" has the row, however often Twitch     *)
(* delivers it.                                                            *)
THEOREM AlwaysCreditedOnce == Spec => []CreditedOnce
<1>1. ASSUME JobsInv PROVE CreditedOnce
  <2>1. ASSUME NEW u \in Users, NEW i \in 1..Len(ledger[u]), NEW j \in 1..Len(ledger[u]),
               ledger[u][i].type = "EXCHANGE_CREDIT"
        PROVE  /\ RedeemerOf[ledger[u][i].ref] = u
               /\ ledger[u][j].type = "EXCHANGE_CREDIT" /\ ledger[u][i].ref = ledger[u][j].ref => i = j
    <3>1. RowFits(ledger[u][i], u) /\ RowOnce(u)
      BY <1>1 DEF JobsInv, BookInv, Rows
    <3>2. QED
      BY <2>1, <3>1 DEF RowFits, RowOnce
  <2>2. QED
    BY <1>1, <2>1 DEF CreditedOnce, JobsInv, AnswerInv, AnswerFits
<1>2. QED
  BY <1>1, JobsIsInvariant, PTL

(* What a viewer or the admin is told of a purchase, a refund or a credit  *)
(* has been committed, and no charge is answered with a refusal, whatever  *)
(* was told and lost in between.                                           *)
THEOREM AnswersAlwaysTruthful == Spec => []AnswersAreTruthful
<1>1. JobsInv => AnswersAreTruthful
  BY DEF JobsInv, AnswerInv, AnswerFits, AnswersAreTruthful
<1>2. QED
  BY <1>1, JobsIsInvariant, PTL

(* A quote that was paid, has expired or was canceled stays so, and its    *)
(* price never changes.                                                    *)
THEOREM QuotesAreFinal == Spec => QuoteIsFinal
<1>1. ASSUME JobsInv, [Next]_vars, NEW q \in Quotes
      PROVE  /\ quotes[q].status \in {"PAID", "EXPIRED", "CANCELED"} => quotes'[q].status = quotes[q].status
             /\ quotes[q].status # "NONE" => quotes'[q].cost = quotes[q].cost
  <2>1. TypeOK
    BY <1>1 DEF JobsInv, WalletInv
  <2>2. ASSUME NEW r, Rests(r) PROVE QuoteMoves(q)
    BY <2>2 DEF Rests
  <2>3. ASSUME NEW r \in Requests, Buys(r)
        PROVE  /\ quotes[q].status \in {"PAID", "EXPIRED", "CANCELED"} => quotes'[q].status = quotes[q].status
               /\ quotes'[q].cost = quotes[q].cost
    <3>1. quotes[call[r].quote].status = "QUOTED" /\ quotes' = [quotes EXCEPT ![call[r].quote].status = "PAID"]
      BY <1>1, <2>3 DEF Buys, JobsInv, LockInv, RowsLocked
    <3>2. QED
      BY <2>1, <3>1 DEF TypeOK, QuoteRow
  <2>4. QED
    BY <1>1, <2>2, <2>3, Effects DEF QuoteMoves, Pays, Refunds, Chooses, Drops, Completes
<1>2. JobsInv /\ [Next]_vars =>
        [\A q \in Quotes :
          /\ quotes[q].status \in {"PAID", "EXPIRED", "CANCELED"} => quotes'[q].status = quotes[q].status
          /\ quotes[q].status # "NONE" => quotes'[q].cost = quotes[q].cost]_vars
  BY <1>1
<1>3. QED
  BY <1>2, JobsIsInvariant, PTL DEF Spec, QuoteIsFinal

-----------------------------------------------------------------------------
(* The refinement: each effect is one step of GtaLedger, or none. *)

(* What became of the quote of a job.                                      *)
SaleOf(w) == [state |-> JobState(w), buyer |-> quotes[jobs[w].quote].owner, price |-> quotes[jobs[w].quote].cost]

(* What the promise knows of a quote is what became of its one job.        *)
SaleFits ==
  /\ \A w \in Requests : jobs[w].status # "NONE" => jobs[w].quote \in Quotes /\ Sale[jobs[w].quote] = SaleOf(w)
  /\ \A q \in Quotes : (\A w \in Requests : jobs[w].status = "NONE" \/ jobs[w].quote # q) => Sale[q] = Promise!Unsold

(* The promise's sale of each quote, from its job.                         *)
LEMMA SaleIs == JobsInv => SaleFits
<1> SUFFICES ASSUME JobsInv PROVE SaleFits
  OBVIOUS
<1>1. ASSUME NEW w \in Requests, jobs[w].status # "NONE"
      PROVE  jobs[w].quote \in Quotes /\ Sale[jobs[w].quote] = SaleOf(w)
  <2>1. jobs[w].quote \in Quotes
    BY <1>1, JobStands
  <2>2. PICK q \in Quotes : q = jobs[w].quote
    BY <2>1
  <2> DEFINE Has(v) == jobs[v].status # "NONE" /\ jobs[v].quote = q
  <2>3. \A v \in Requests : Has(v) => v = w
    BY <1>1, <2>2 DEF JobsInv, BookInv, OneJobPerQuote
  <2>4. (CHOOSE v \in Requests : Has(v)) = w
    BY <1>1, <2>2, <2>3
  <2>5. Sale[q] = IF \E v \in Requests : Has(v)
                  THEN [state |-> JobState(CHOOSE v \in Requests : Has(v)),
                        buyer |-> quotes[q].owner, price |-> quotes[q].cost]
                  ELSE [state |-> "UNSOLD", buyer |-> None, price |-> 0]
    BY DEF Sale
  <2>6. \E v \in Requests : Has(v)
    BY <1>1, <2>2
  <2> HIDE DEF Has
  <2>7. Sale[q] = [state |-> JobState(w), buyer |-> quotes[q].owner, price |-> quotes[q].cost]
    BY <2>4, <2>5, <2>6
  <2>8. QED
    BY <2>2, <2>7 DEF SaleOf
<1>2. ASSUME NEW q \in Quotes, \A w \in Requests : jobs[w].status = "NONE" \/ jobs[w].quote # q
      PROVE  Sale[q] = Promise!Unsold
  BY <1>2 DEF Sale, Promise!Unsold
<1>3. QED
  BY <1>1, <1>2 DEF SaleFits

(* And after the step.                                                     *)
LEMMA SaleIsNext == JobsInv' => SaleFits'
BY SaleIs, PTL

(* Every quote has one.                                                    *)
LEMMA SaleDomain == Sale = [q \in Quotes |-> Sale[q]]
BY DEF Sale

(* And after the step.                                                     *)
LEMMA SaleDomainNext == Sale' = [q \in Quotes |-> Sale'[q]]
BY DEF Sale

(* The sale of a quote whose job is left alone.                            *)
LEMMA SaleKept ==
  ASSUME JobsInv, JobsInv', Keeps, NEW q \in Quotes,
         \A w \in Requests : jobs[w].status # "NONE" /\ jobs[w].quote = q =>
           jobs'[w] = jobs[w] /\ (RefundConflict(w)' <=> RefundConflict(w)),
         \A w \in Requests : jobs[w].status = "NONE" \/ jobs[w].quote # q =>
           jobs'[w].status = "NONE" \/ jobs'[w].quote # q
  PROVE  Sale'[q] = Sale[q]
<1>1. SaleFits /\ SaleFits'
  BY SaleIs, SaleIsNext
<1>2. ASSUME NEW w \in Requests, jobs[w].status # "NONE", jobs[w].quote = q
      PROVE  Sale'[q] = Sale[q]
  <2>1. jobs'[w] = jobs[w] /\ (RefundConflict(w)' <=> RefundConflict(w))
    BY <1>2
  <2>2. quotes'[q] = quotes[q]
    BY <1>2, JobStands DEF Keeps
  <2>3. SaleOf(w)' = SaleOf(w)
    BY <1>2, <2>1, <2>2 DEF SaleOf, JobState
  <2>4. Sale[q] = SaleOf(w) /\ Sale'[q] = SaleOf(w)'
    BY <1>1, <1>2, <2>1 DEF SaleFits
  <2>5. QED
    BY <2>3, <2>4
<1>3. ASSUME \A w \in Requests : jobs[w].status = "NONE" \/ jobs[w].quote # q
      PROVE  Sale'[q] = Sale[q]
  <2>1. \A w \in Requests : jobs'[w].status = "NONE" \/ jobs'[w].quote # q
    BY <1>3
  <2>2. Sale[q] = Promise!Unsold
    BY <1>1, <1>3 DEF SaleFits
  <2>3. Sale'[q] = Promise!Unsold
    BY <1>1, <2>1 DEF SaleFits, Promise!Unsold
  <2>4. QED
    BY <2>2, <2>3
<1>4. QED
  BY <1>2, <1>3

(* No sale moves when no job does.                                         *)
LEMMA SalesKept ==
  ASSUME JobsInv, JobsInv', Keeps, jobs' = jobs,
         \A w \in Requests : RefundConflict(w)' <=> RefundConflict(w)
  PROVE  Sale' = Sale
<1>1. \A q \in Quotes : Sale'[q] = Sale[q]
  BY SaleKept
<1>2. QED
  BY <1>1, SaleDomain, SaleDomainNext

(* One sale moves when one job does.                                       *)
LEMMA SaleMoves ==
  ASSUME JobsInv, JobsInv', Keeps, NEW k \in Requests, jobs'[k].status # "NONE",
         jobs[k].status = "NONE" \/ jobs'[k].quote = jobs[k].quote,
         NEW q \in Quotes, q = jobs'[k].quote,
         \A w \in Requests \ {k} : jobs'[w] = jobs[w] /\ (RefundConflict(w)' <=> RefundConflict(w))
  PROVE  Sale' = [Sale EXCEPT ![q] = SaleOf(k)']
<1>1. SaleFits'
  BY SaleIsNext
<1>2. Sale'[q] = SaleOf(k)'
  BY <1>1 DEF SaleFits
<1>3. ASSUME NEW p \in Quotes \ {q} PROVE Sale'[p] = Sale[p]
  <2>1. \A w \in Requests : jobs[w].status # "NONE" /\ jobs[w].quote = p =>
           jobs'[w] = jobs[w] /\ (RefundConflict(w)' <=> RefundConflict(w))
    BY <1>3
  <2>2. \A w \in Requests : jobs[w].status = "NONE" \/ jobs[w].quote # p =>
           jobs'[w].status = "NONE" \/ jobs'[w].quote # p
    BY <1>3
  <2>3. QED
    BY <1>3, <2>1, <2>2, SaleKept
<1>4. QED
  BY <1>2, <1>3, SaleDomain, SaleDomainNext

(* What a row more says of refunds and of exchanges.                       *)
LEMMA BookedConflicts ==
  ASSUME JobsInv, NEW r \in Requests, pc[r] \in Locked, NEW type \in EntryTypes, NEW ref \in Refs,
         BooksRow(r, type, ref)
  PROVE  /\ \A w : RefundConflict(w)' <=> RefundConflict(w) \/ (type = "MISSION_REFUND" /\ ref = w)
         /\ \A d : RedemptionConflict(d)' <=> RedemptionConflict(d) \/ (type = "EXCHANGE_CREDIT" /\ ref = d)
<1> PICK u : u = call[r].user
  OBVIOUS
<1>1. u \in Users
  BY RowAdded
<1>2. \A v \in Users \ {u} : Rows(v)' = Rows(v)
  BY RowAdded
<1>3. PICK e : /\ e.type = type /\ e.ref = ref
               /\ \A v \in Users : v = u => Rows(v)' = Rows(v) \union {e}
  BY RowAdded
<1>4. AllRows' = AllRows \union {e}
  BY <1>1, <1>2, <1>3 DEF AllRows
<1>5. QED
  BY <1>3, <1>4 DEF RefundConflict, RedemptionConflict

(* The initial states are the promise's.                                   *)
LEMMA InitPromise == Init => Promise!Init
<1> SUFFICES ASSUME Init PROVE Promise!Init
  OBVIOUS
<1>1. \A d \in Redemptions : ~RedemptionConflict(d)
  <2>1. \A u \in Users : \A e \in Rows(u) : e.type = "ADMIN_ADJUSTMENT"
    BY DEF Init, Rows
  <2>2. QED
    BY <2>1 DEF RedemptionConflict, AllRows
<1>2. \A w \in Requests : jobs[w].status = "NONE"
  BY DEF Init, NoJob
<1>3. Sale = [q \in Quotes |-> Promise!Unsold]
  BY <1>2 DEF Sale, Promise!Unsold
<1>4. QED
  BY <1>1, <1>3 DEF Promise!Init, Init

(* A step that rests is none of the promise.                               *)
LEMMA RestsPromise ==
  ASSUME JobsInv, JobsInv', NEW r, Rests(r)
  PROVE  UNCHANGED Promise!ledgerVars
<1>1. UNCHANGED <<jobs, balance>> /\ Keeps /\ AllRows' = AllRows
  BY RestsKeeps DEF Rests, AllRows, Rows
<1>2. Sale' = Sale
  BY <1>1, SalesKept DEF RefundConflict
<1>3. QED
  BY <1>1, <1>2 DEF Promise!ledgerVars, RedemptionConflict

(* Nor is the choice of the job.                                           *)
LEMMA ChoosesPromise ==
  ASSUME JobsInv, JobsInv', NEW r \in Requests, Chooses(r)
  PROVE  UNCHANGED Promise!ledgerVars
<1>1. UNCHANGED <<quotes, jobs, balance>> /\ AllRows' = AllRows
  BY DEF Chooses, AllRows, Rows
<1>2. Keeps
  BY <1>1, JobStands DEF Chooses, Others, Stays, Keeps
<1>3. Sale' = Sale
  BY <1>1, <1>2, SalesKept DEF RefundConflict
<1>4. QED
  BY <1>1, <1>3 DEF Promise!ledgerVars, RedemptionConflict

(* A purchase is Buy.                                                      *)
LEMMA BuysPromise ==
  ASSUME JobsInv, JobsInv', NEW r \in Requests, Buys(r)
  PROVE  Promise!Next
<1> PICK q, u, p : q = call[r].quote /\ u = call[r].user /\ p = quotes[q].cost
  OBVIOUS
<1>1. /\ TypeOK /\ CallShape(r) /\ q \in Quotes /\ call[r].op = "purchase" /\ pc[r] = "debit" /\ pc[r] \in Locked
      /\ Funds(r) = -p /\ u \in Users /\ "WAYPOINT_DEBIT" \in EntryTypes /\ r \in Refs
  BY DEF JobsInv, WalletInv, CallShape, Buys, Held, Locked, Funds, EntryTypes, Refs
<1>2. quotes[q].status = "QUOTED" /\ quotes[q].owner = u /\ ActiveJobs = {}
  BY <1>1 DEF Buys, JobsInv, LockInv, RowsLocked
<1>3. p \in Prices /\ p \in Nat /\ balance[u] \in Nat
  BY <1>1, <1>2, EconomyAssumption DEF JobsInv, BookInv, Priced, TypeOK
<1>4. jobs[r].status = "NONE" /\ \A w \in Requests : jobs[w].status # "NONE" => call[w].quote # q
  BY <1>1, <1>2, JobStands
<1>5. /\ quotes' = [quotes EXCEPT ![q].status = "PAID"]
      /\ jobs' = [jobs EXCEPT ![r] = [status |-> "ACTIVE", quote |-> q]]
      /\ BooksRow(r, "WAYPOINT_DEBIT", r)
      /\ call' = call /\ Others(r) /\ pc'[r] \in {"release", "done"}
  BY DEF Buys, Commits
<1>6. /\ quotes'[q].owner = u /\ quotes'[q].cost = p
      /\ \A v \in Quotes \ {q} : quotes'[v] = quotes[v]
      /\ jobs'[r].status = "ACTIVE" /\ jobs'[r].quote = q
      /\ \A w \in Requests \ {r} : jobs'[w] = jobs[w]
  BY <1>1, <1>2, <1>5 DEF TypeOK, QuoteRow
<1>7. Keeps
  BY <1>4, <1>5, <1>6, JobStands DEF Keeps, Others, Stays
<1>8. Sale[q] = Promise!Unsold
  BY <1>1, <1>4, SaleIs, JobStands DEF SaleFits
<1>9. Promise!Running = {}
  <2>1. ASSUME NEW v \in Quotes PROVE Sale[v].state # "RUNNING"
    <3>1. CASE \A w \in Requests : jobs[w].status = "NONE" \/ jobs[w].quote # v
      BY <3>1, SaleIs DEF SaleFits, Promise!Unsold
    <3>2. ASSUME NEW w \in Requests, jobs[w].status # "NONE", jobs[w].quote = v
          PROVE  Sale[v].state # "RUNNING"
      <4>1. JobState(w) # "RUNNING"
        BY <1>2 DEF JobState, ActiveJobs
      <4>2. Sale[v] = SaleOf(w)
        BY <3>2, SaleIs DEF SaleFits
      <4>3. QED
        BY <4>1, <4>2 DEF SaleOf
    <3>3. QED
      BY <3>1, <3>2
  <2>2. QED
    BY <2>1 DEF Promise!Running
<1>10. (\A w : RefundConflict(w)' <=> RefundConflict(w)) /\ \A d : RedemptionConflict(d)' <=> RedemptionConflict(d)
  BY <1>1, <1>5, BookedConflicts
<1>11. Sale' = [Sale EXCEPT ![q] = [state |-> "RUNNING", buyer |-> u, price |-> p]]
  <2>1. Sale' = [Sale EXCEPT ![q] = SaleOf(r)']
    BY <1>1, <1>4, <1>6, <1>7, <1>10, SaleMoves
  <2>2. SaleOf(r)' = [state |-> "RUNNING", buyer |-> u, price |-> p]
    BY <1>6 DEF SaleOf, JobState
  <2>3. QED
    BY <2>1, <2>2
<1>12. balance' = [balance EXCEPT ![u] = @ - p] /\ balance[u] >= p
  <2>1. balance' = [balance EXCEPT ![u] = @ + Funds(r)]
    BY <1>5 DEF BooksRow, Adds
  <2>2. balance[u] + Funds(r) \in Nat
    BY <1>1, NotMoved
  <2>3. balance[u] + Funds(r) = balance[u] - p
    BY <1>1, <1>3
  <2>4. balance[u] >= p
    BY <1>3, <2>2, <2>3
  <2>5. QED
    BY <2>1, <2>3, <2>4
<1>13. Promise!Buy(u, q, p)
  BY <1>8, <1>9, <1>10, <1>11, <1>12 DEF Promise!Buy
<1>14. QED
  BY <1>1, <1>3, <1>13 DEF Promise!Next

(* A credit is Exchange, a correction is Adjust.                           *)
LEMMA PaysPromise ==
  ASSUME JobsInv, JobsInv', NEW r \in Requests, Pays(r)
  PROVE  Promise!Next
<1> PICK u, d, a : u = call[r].user /\ d = call[r].ref /\ a = call[r].amount
  OBVIOUS
<1>1. /\ TypeOK /\ CallShape(r) /\ CallFits(r) /\ pc[r] \in Locked /\ d \in Refs /\ Funds(r) = a
      /\ {"EXCHANGE_CREDIT", "ADMIN_ADJUSTMENT"} \subseteq EntryTypes
      /\ call[r].op \in {"credit", "adjust"}
  BY DEF JobsInv, WalletInv, BookInv, CallShape, Pays, Locked, Funds, EntryTypes, TypeOK, Call
<1>2. UNCHANGED <<quotes, jobs, call>> /\ Others(r) /\ pc'[r] \in {"release", "done"}
  BY DEF Pays, Commits
<1>3. Keeps
  BY <1>2, JobStands DEF Keeps, Others, Stays
<1>4. ASSUME call[r].op = "credit", ~RedemptionConflict(d), BooksRow(r, "EXCHANGE_CREDIT", d)
      PROVE  Promise!Next
  <2>1. d \in Redemptions /\ u = RedeemerOf[d] /\ a \in Amounts
    BY <1>1, <1>4 DEF CallFits
  <2>2. /\ \A w : RefundConflict(w)' <=> RefundConflict(w)
        /\ \A e : RedemptionConflict(e)' <=> RedemptionConflict(e) \/ e = d
    BY <1>1, <1>4, BookedConflicts
  <2>3. Sale' = Sale
    BY <1>2, <1>3, <2>2, SalesKept
  <2>4. balance' = [balance EXCEPT ![u] = @ + a]
    BY <1>1, <1>4 DEF BooksRow, Adds
  <2>5. {e \in Redemptions : RedemptionConflict(e)'} = {e \in Redemptions : RedemptionConflict(e)} \union {d}
    BY <2>1, <2>2
  <2>6. Promise!Exchange(d, a)
    BY <1>4, <2>1, <2>3, <2>4, <2>5 DEF Promise!Exchange
  <2>7. QED
    BY <2>1, <2>6 DEF Promise!Next
<1>5. ASSUME call[r].op = "adjust", BooksRow(r, "ADMIN_ADJUSTMENT", d)
      PROVE  Promise!Next
  <2>1. u \in Users /\ a \in Adjustments
    BY <1>1, <1>5 DEF CallFits
  <2>2. /\ \A w : RefundConflict(w)' <=> RefundConflict(w)
        /\ \A e : RedemptionConflict(e)' <=> RedemptionConflict(e)
    BY <1>1, <1>5, BookedConflicts
  <2>3. Sale' = Sale
    BY <1>2, <1>3, <2>2, SalesKept
  <2>4. balance' = [balance EXCEPT ![u] = @ + a]
    BY <1>1, <1>5 DEF BooksRow, Adds
  <2>5. balance[u] + a >= 0
    BY <1>1, NotMoved
  <2>6. Promise!Adjust(u, a)
    BY <2>2, <2>3, <2>4, <2>5 DEF Promise!Adjust
  <2>7. QED
    BY <2>1, <2>6 DEF Promise!Next
<1>6. QED
  BY <1>4, <1>5 DEF Pays

(* A job that ends takes its quote with it. *)
LEMMA RunningSale ==
  ASSUME JobsInv, NEW k \in ActiveJobs
  PROVE  /\ k \in Requests /\ jobs[k].quote \in Promise!Running
         /\ jobs[k].status = "ACTIVE" /\ jobs[k].quote = call[k].quote /\ ~RefundConflict(k)
         /\ Sale[jobs[k].quote] = [state |-> "RUNNING", buyer |-> call[k].user, price |-> Cost(k)]
<1>1. k \in Requests /\ jobs[k].status = "ACTIVE"
  BY DEF ActiveJobs
<1>2. jobs[k].quote = call[k].quote /\ jobs[k].quote \in Quotes /\ quotes[jobs[k].quote].owner = call[k].user
  BY <1>1, JobStands
<1>3. Sale[jobs[k].quote] = [state |-> "RUNNING", buyer |-> call[k].user, price |-> Cost(k)]
  BY <1>1, <1>2, SaleIs DEF SaleFits, SaleOf, JobState, Cost
<1>4. ~RefundConflict(k)
  BY <1>1 DEF RefundConflict, AllRows, JobsInv, BookInv, RowFits
<1>5. QED
  BY <1>1, <1>2, <1>3, <1>4 DEF Promise!Running

(* The sale of a job that is closed.                                       *)
LEMMA EndedSale ==
  ASSUME JobsInv, JobsInv', Keeps, NEW k \in ActiveJobs, NEW s \in {"CANCELED", "COMPLETED"},
         quotes' = quotes, jobs' = [jobs EXCEPT ![k].status = s],
         \A w \in Requests \ {k} : RefundConflict(w)' <=> RefundConflict(w)
  PROVE  Sale' = [Sale EXCEPT ![jobs[k].quote].state = JobState(k)']
<1> PICK q : q = jobs[k].quote
  OBVIOUS
<1>1. /\ k \in Requests /\ jobs[k].status = "ACTIVE" /\ q \in Quotes /\ jobs \in [Requests -> JobRow]
      /\ Sale[q] = [state |-> "RUNNING", buyer |-> call[k].user, price |-> Cost(k)] /\ call[k].quote = q
  BY RunningSale DEF Promise!Running, JobsInv, WalletInv, TypeOK
<1>2. jobs'[k].status = s /\ jobs'[k].quote = q /\ \A w \in Requests \ {k} : jobs'[w] = jobs[w]
  BY <1>1 DEF JobRow
<1>3. Sale' = [Sale EXCEPT ![q] = SaleOf(k)']
  BY <1>1, <1>2, SaleMoves
<1>4. SaleOf(k)' = [state |-> JobState(k)', buyer |-> call[k].user, price |-> Cost(k)]
  BY <1>1, <1>2, JobStands DEF SaleOf, Cost
<1>5. [Sale[q] EXCEPT !.state = JobState(k)'] = SaleOf(k)'
  BY <1>1, <1>4
<1>6. QED
  BY <1>3, <1>5

(* A refund is Refund.                                                     *)
LEMMA RefundsPromise ==
  ASSUME JobsInv, JobsInv', NEW r \in Requests, Refunds(r)
  PROVE  Promise!Next
<1> PICK k, q : k = call[r].ref /\ q = jobs[k].quote
  OBVIOUS
<1>1. /\ TypeOK /\ pc[r] \in Locked /\ Cancels(r) /\ call[r].op = "cancel"
      /\ "MISSION_REFUND" \in EntryTypes /\ k \in Refs
  BY DEF JobsInv, WalletInv, CallShape, Refunds, Cancels, Locked, EntryTypes, TypeOK, Call
<1>2. k \in ActiveJobs /\ call[r].user = call[k].user /\ Funds(r) = Cost(k)
  BY <1>1 DEF JobsInv, LockInv, RowsLocked, BookInv, CallFits, Funds
<1>3. /\ UNCHANGED <<quotes, call>> /\ Others(r) /\ pc'[r] \in {"release", "done"}
      /\ jobs' = [jobs EXCEPT ![k].status = "CANCELED"]
      /\ BooksRow(r, "MISSION_REFUND", k)
  BY DEF Refunds, Commits
<1>4. Keeps
  BY <1>3, JobStands DEF Keeps, Others, Stays
<1>5. /\ \A w : RefundConflict(w)' <=> RefundConflict(w) \/ k = w
      /\ \A d : RedemptionConflict(d)' <=> RedemptionConflict(d)
  BY <1>1, <1>3, BookedConflicts
<1>6. /\ k \in Requests /\ q \in Promise!Running /\ jobs[k].status = "ACTIVE"
      /\ Sale[q].buyer = call[k].user /\ Sale[q].price = Cost(k)
  <2>1. /\ k \in Requests /\ q \in Promise!Running /\ jobs[k].status = "ACTIVE"
        /\ Sale[q] = [state |-> "RUNNING", buyer |-> call[k].user, price |-> Cost(k)]
    BY <1>2, RunningSale
  <2>2. QED
    BY <2>1
<1>7. JobState(k)' = "REFUNDED"
  <2>1. jobs'[k].status = "CANCELED"
    BY <1>1, <1>3, <1>6 DEF TypeOK, JobRow
  <2>2. QED
    BY <1>5, <2>1 DEF JobState
<1>8. Sale' = [Sale EXCEPT ![q].state = "REFUNDED"]
  BY <1>2, <1>3, <1>4, <1>5, <1>7, EndedSale
<1>9. balance' = [balance EXCEPT ![Sale[q].buyer] = @ + Sale[q].price]
  BY <1>2, <1>3, <1>6 DEF BooksRow, Adds
<1>10. Promise!Refund(q)
  BY <1>5, <1>6, <1>8, <1>9 DEF Promise!Refund
<1>11. QED
  BY <1>6, <1>10 DEF Promise!Next, Promise!Running

(* Completed, or dropped without a refund. *)
LEMMA ClosePromise ==
  ASSUME JobsInv, JobsInv', Keeps, UNCHANGED <<quotes, balance, ledger>>, NEW k \in ActiveJobs,
         NEW s \in {"CANCELED", "COMPLETED"}, jobs' = [jobs EXCEPT ![k].status = s]
  PROVE  Promise!Next
<1> PICK q : q = jobs[k].quote
  OBVIOUS
<1>1. AllRows' = AllRows
  BY DEF AllRows, Rows
<1>2. k \in Requests /\ q \in Promise!Running /\ ~RefundConflict(k) /\ jobs[k].status = "ACTIVE"
  BY RunningSale
<1>3. Sale' = [Sale EXCEPT ![q].state = JobState(k)']
  BY <1>1, EndedSale DEF RefundConflict
<1>4. JobState(k)' \in {"COMPLETED", "DROPPED"}
  <2>1. jobs'[k].status = s
    BY <1>2 DEF JobsInv, WalletInv, TypeOK, JobRow
  <2>2. ~RefundConflict(k)'
    BY <1>1, <1>2 DEF RefundConflict
  <2>3. QED
    BY <2>1, <2>2 DEF JobState
<1>5. Promise!Finish(q)
  BY <1>1, <1>2, <1>3, <1>4 DEF Promise!Finish, RedemptionConflict
<1>6. QED
  BY <1>2, <1>5 DEF Promise!Next, Promise!Running

(* Every step is one of the promise, or none.                              *)
LEMMA NextPromise == JobsInv /\ JobsInv' /\ [Next]_vars => [Promise!Next]_(Promise!ledgerVars)
<1> SUFFICES ASSUME JobsInv, JobsInv', [Next]_vars PROVE [Promise!Next]_(Promise!ledgerVars)
  OBVIOUS
<1>1. ASSUME NEW r \in Requests, Drops(r) PROVE Promise!Next
  <2>1. PICK k \in ActiveJobs : jobs' = [jobs EXCEPT ![k].status = "CANCELED"] /\ call' = [call EXCEPT ![r].ref = k]
    BY <1>1 DEF Drops
  <2>2. Keeps
    BY <1>1, <2>1, JobStands DEF Drops, Keeps, Others, Stays
  <2>3. QED
    BY <1>1, <2>1, <2>2, ClosePromise DEF Drops
<1>2. ASSUME Completes PROVE Promise!Next
  <2>1. Keeps
    BY <1>2, JobStands DEF Completes, Keeps, Stays
  <2>2. QED
    BY <1>2, <2>1, ClosePromise DEF Completes
<1>3. QED
  BY <1>1, <1>2, Effects, RestsPromise, ChoosesPromise, BuysPromise, PaysPromise, RefundsPromise

(* Every interleaving of requests, timers, failures and lost locks is,     *)
(* seen from the committed rows, a behaviour of GtaLedger: exchanges paid  *)
(* once, purchases whole, refunds to the buyer at the price paid, one job  *)
(* at a time, no balance below zero.                                       *)
THEOREM EconomyImplementsLedger == Spec => ImplementsLedger
BY InitPromise, NextPromise, JobsIsInvariant, PTL DEF Spec, ImplementsLedger, Promise!Spec

-----------------------------------------------------------------------------
(* The totals of the channel.                                              *)

(* There are only so many jobs.                                            *)
Sold == {w \in Requests : jobs[w].status # "NONE"}
MoneyInv == JobsInv /\ IsFiniteSet(Sold) /\ MoneyAccounted

(* The rows of a type, and what each wallet has of them, are numbers.      *)
Summed(type) ==
  /\ \A u \in Users : /\ IsFiniteSet(DOMAIN OfType(u, type))
                      /\ Whole(OfType(u, type), DOMAIN OfType(u, type))
                      /\ SumFunction(OfType(u, type)) \in Int
  /\ SumOf(type) \in Int
AllSummed == \A type \in EntryTypes : Summed(type)

LEMMA TypeSummed == ASSUME TypeOK, NEW type PROVE Summed(type)
<1>1. ASSUME NEW u \in Users
      PROVE  /\ IsFiniteSet(DOMAIN OfType(u, type))
             /\ Whole(OfType(u, type), DOMAIN OfType(u, type))
             /\ SumFunction(OfType(u, type)) \in Int
  <2>1. ledger[u] \in Seq(Entry)
    BY DEF TypeOK
  <2>2. PICK n \in Nat : DOMAIN ledger[u] = 1..n /\ n = Len(ledger[u])
    BY <2>1
  <2>3. IsFiniteSet(1..n)
    BY <2>2, FS_Interval
  <2>4. \A i \in DOMAIN ledger[u] : ledger[u][i].amount \in Int
    <3>1. \A i \in DOMAIN ledger[u] : ledger[u][i] \in Entry
      BY <2>1, <2>2
    <3>2. QED
      BY <3>1 DEF Entry
  <2>5. Whole(OfType(u, type), DOMAIN OfType(u, type)) /\ IsFiniteSet(DOMAIN OfType(u, type))
    BY <2>2, <2>3, <2>4 DEF OfType, Whole
  <2>6. QED
    BY <2>5, SumType
<1> DEFINE f == [u \in Users |-> SumFunction(OfType(u, type))]
<1>2. Users = DOMAIN f /\ Whole(f, Users)
  BY <1>1 DEF Whole
<1>3. SumFunction(f) \in Int
  BY <1>2, UsersAssumption, SumType
<1>4. QED
  BY <1>1, <1>3 DEF SumOf, Summed

LEMMA RowsAreSummed == TypeOK => AllSummed
BY TypeSummed DEF AllSummed
LEMMA RowsAreSummedNext == TypeOK' => AllSummed'
BY RowsAreSummed, PTL

(* So are the balances.                                                    *)
LEMMA BalancesSum == ASSUME TypeOK PROVE SumFunction(balance) \in Int
<1>1. Users = DOMAIN balance /\ Whole(balance, Users)
  BY DEF TypeOK, Whole
<1>2. QED
  BY <1>1, UsersAssumption, SumType

(* A row adds its amount to its wallet, to the balances, and to the sum of *)
(* its type.                                                               *)
LEMMA RowSummed ==
  ASSUME JobsInv, JobsInv', NEW r \in Requests, pc[r] \in Locked, NEW type \in EntryTypes, NEW ref,
         BooksRow(r, type, ref), NEW t \in EntryTypes
  PROVE  /\ SumFunction(balance)' = SumFunction(balance) + Funds(r)
         /\ SumOf(t)' = SumOf(t) + (IF t = type THEN Funds(r) ELSE 0)
         /\ Funds(r) \in Int
<1> PICK u, n, extra : u = call[r].user /\ n = Len(ledger[u]) /\ extra = IF t = type THEN Funds(r) ELSE 0
  OBVIOUS
<1>1. /\ TypeOK /\ u \in Users /\ Funds(r) \in Int /\ extra \in Int
      /\ ledger \in [Users -> Seq(Entry)] /\ balance \in [Users -> Nat]
      /\ ledger' \in [Users -> Seq(Entry)] /\ balance' \in [Users -> Nat]
      /\ Summed(t) /\ Summed(t)'
  <2>1. TypeOK /\ CallShape(r) /\ TypeOK'
    BY DEF JobsInv, WalletInv
  <2>2. u \in Users /\ Funds(r) \in Int
    BY <2>1 DEF CallShape, Funds, TypeOK, Call, QuoteRow, Locked
  <2>3. Summed(t) /\ Summed(t)'
    BY <2>1, RowsAreSummed, RowsAreSummedNext DEF AllSummed
  <2>4. QED
    BY <2>1, <2>2, <2>3 DEF TypeOK
<1>2. PICK after \in Nat : Adds(u, [type |-> type, amount |-> Funds(r), after |-> after, ref |-> ref])
  BY DEF BooksRow
<1> PICK e : e = [type |-> type, amount |-> Funds(r), after |-> after, ref |-> ref]
  OBVIOUS
<1>3. e.type = type /\ e.amount = Funds(r)
  OBVIOUS
<1>4. ledger' = [ledger EXCEPT ![u] = Append(@, e)] /\ balance' = [balance EXCEPT ![u] = @ + Funds(r)]
  BY <1>2 DEF Adds
<1>5. SumFunction(balance)' = SumFunction(balance) + Funds(r)
  <2>1. Users = DOMAIN balance /\ Users = DOMAIN balance' /\ Whole(balance, Users) /\ Whole(balance', Users)
    BY <1>1 DEF Whole
  <2>2. Differs(balance, balance', u)
    BY <1>1, <1>4 DEF Differs
  <2>3. balance'[u] - balance[u] = Funds(r)
    BY <1>1, <1>4
  <2>4. SumFunction(balance') = SumFunction(balance) + (balance'[u] - balance[u])
    BY <1>1, <2>1, <2>2, UsersAssumption, SumChange
  <2>5. QED
    BY <2>3, <2>4
<1>6. \A v \in Users \ {u} : OfType(v, t)' = OfType(v, t)
  BY <1>1, <1>4 DEF OfType
<1>7. SumFunction(OfType(u, t))' = SumFunction(OfType(u, t)) + extra
  <2> DEFINE f == OfType(u, t)
             g == OfType(u, t)'
  <2>1. ledger[u] \in Seq(Entry) /\ ledger'[u] = Append(ledger[u], e)
    BY <1>1, <1>4
  <2>2. n \in Nat /\ DOMAIN ledger[u] = 1..n
    BY <2>1
  <2>3. DOMAIN ledger'[u] = 1..(n + 1) /\ ledger'[u][n + 1] = e /\ \A i \in 1..n : ledger'[u][i] = ledger[u][i]
    BY <2>1, <2>2
  <2>4. n + 1 \notin 1..n /\ 1..(n + 1) = (1..n) \union {n + 1}
    BY <2>2
  <2>5. 1..n = DOMAIN f /\ (1..n) \union {n + 1} = DOMAIN g /\ g[n + 1] = extra /\ \A i \in 1..n : g[i] = f[i]
    <3>1. f = [i \in 1..n |-> IF ledger[u][i].type = t THEN ledger[u][i].amount ELSE 0]
      BY <2>2 DEF OfType
    <3>2. g = [i \in (1..n) \union {n + 1} |-> IF ledger'[u][i].type = t THEN ledger'[u][i].amount ELSE 0]
      <4>1. DOMAIN ledger'[u] = (1..n) \union {n + 1}
        BY <2>3, <2>4
      <4>2. QED
        BY <4>1 DEF OfType
    <3> HIDE DEF f, g
    <3>3. g[n + 1] = IF e.type = t THEN e.amount ELSE 0
      BY <2>3, <3>2
    <3>4. QED
      BY <1>3, <2>3, <3>1, <3>2, <3>3
  <2>6. Whole(g, DOMAIN g) /\ IsFiniteSet(1..n)
    <3>1. Whole(OfType(u, t), DOMAIN OfType(u, t))'
      BY <1>1 DEF Summed
    <3>2. QED
      BY <2>2, <3>1, FS_Interval
  <2> HIDE DEF f, g
  <2>7. SumFunction(g) = SumFunction(f) + g[n + 1]
    <3>1. Grows(f, g, n + 1) /\ IsFiniteSet(DOMAIN f)
      BY <2>4, <2>5, <2>6 DEF Grows
    <3>2. QED
      BY <2>6, <3>1, SumAdd
  <2>8. QED
    BY <2>5, <2>7 DEF f, g
<1>8. SumOf(t)' = SumOf(t) + extra
  <2> DEFINE f == [v \in Users |-> SumFunction(OfType(v, t))]
             g == [v \in Users |-> SumFunction(OfType(v, t))']
  <2>1. \A v \in Users : f[v] \in Int /\ g[v] \in Int
    BY <1>1 DEF Summed
  <2>2. \A v \in Users \ {u} : g[v] = f[v]
    BY <1>6
  <2>3. g[u] = f[u] + extra
    BY <1>1, <1>7
  <2>4. SumOf(t) = SumFunction(f) /\ SumOf(t)' = SumFunction(g) /\ DOMAIN f = Users /\ DOMAIN g = Users
    BY DEF SumOf
  <2> HIDE DEF f, g
  <2>5. Whole(f, Users) /\ Whole(g, Users) /\ Differs(f, g, u)
    BY <1>1, <2>1, <2>2, <2>4 DEF Whole, Differs
  <2>6. SumFunction(g) = SumFunction(f) + (g[u] - f[u])
    BY <2>4, <2>5, UsersAssumption, SumChange
  <2>7. SumOf(t) \in Int
    BY <1>1 DEF Summed
  <2>8. g[u] - f[u] = extra
    BY <1>1, <2>1, <2>3
  <2>9. QED
    BY <2>4, <2>6, <2>8
<1>9. QED
  BY <1>1, <1>5, <1>8

(* What is kept of the price of the jobs, when their rows stay.            *)
Price(w) == quotes[jobs[w].quote].cost
LEMMA PriceStands ==
  ASSUME JobsInv, NEW w \in Requests, jobs[w].status # "NONE"
  PROVE  Price(w) = Cost(w) /\ Price(w) \in Nat
BY JobStands DEF Price, Cost, JobsInv, WalletInv, TypeOK, QuoteRow

(* The jobs that are paid for and not paid back are among the jobs.        *)
LEMMA KeptAreSold == JobsKept \subseteq Sold
BY DEF JobsKept, Sold

LEMMA SpentType ==
  ASSUME JobsInv, IsFiniteSet(Sold)
  PROVE  /\ IsFiniteSet(JobsKept) /\ Spent \in Int
         /\ Spent = SumFunction([w \in JobsKept |-> Price(w)])
         /\ Whole([w \in JobsKept |-> Price(w)], JobsKept)
<1>1. IsFiniteSet(JobsKept)
  BY KeptAreSold, FS_Subset
<1> DEFINE f == [w \in JobsKept |-> Price(w)]
<1>2. Whole(f, JobsKept) /\ JobsKept = DOMAIN f
  BY KeptAreSold, PriceStands DEF Whole, Sold
<1>3. Spent = SumFunction(f)
  BY DEF Spent, Price
<1>4. SumFunction(f) \in Int
  <2> HIDE DEF f
  <2>1. QED
    BY <1>1, <1>2, SumType
<1>5. QED
  BY <1>1, <1>2, <1>3, <1>4

(* A step that leaves the wallets, the ledger and the jobs that count      *)
(* alone leaves the account as it is.                                      *)
LEMMA AccountKept ==
  ASSUME MoneyInv, UNCHANGED <<balance, ledger>>, JobsKept' = JobsKept, Sold' = Sold,
         \A w \in JobsKept : Price(w)' = Price(w)
  PROVE  IsFiniteSet(Sold)' /\ MoneyAccounted'
<1>1. Spent' = Spent
  BY DEF Spent, Price
<1>2. \A t : SumOf(t)' = SumOf(t)
  BY DEF SumOf, OfType
<1>3. QED
  BY <1>1, <1>2 DEF MoneyInv, MoneyAccounted

(* A job's price stays where its rows stay.                                *)
LEMMA PriceKept ==
  ASSUME JobsInv, Keeps, NEW w \in Requests, jobs[w].status # "NONE", jobs'[w].quote = jobs[w].quote
  PROVE  Price(w)' = Price(w)
BY JobStands DEF Price, Keeps

(* Which are the three kinds of step that touch no row.                    *)
LEMMA RestsMoney ==
  ASSUME MoneyInv, NEW r, Rests(r)
  PROVE  IsFiniteSet(Sold)' /\ MoneyAccounted'
<1>1. UNCHANGED <<jobs, balance, ledger>> /\ Keeps /\ \A w \in Requests : Dropped(w)' <=> Dropped(w)
  BY RestsKeeps DEF Rests, MoneyInv
<1>2. JobsKept' = JobsKept /\ Sold' = Sold
  BY <1>1 DEF JobsKept, Sold
<1>3. \A w \in JobsKept : Price(w)' = Price(w)
  BY <1>1, KeptAreSold, PriceKept DEF MoneyInv, Sold
<1>4. QED
  BY <1>1, <1>2, <1>3, AccountKept

LEMMA ChoosesMoney ==
  ASSUME MoneyInv, NEW r \in Requests, Chooses(r)
  PROVE  IsFiniteSet(Sold)' /\ MoneyAccounted'
<1>1. UNCHANGED <<quotes, jobs, balance, ledger>> /\ Others(r)
  BY DEF Chooses
<1>2. call[r].op # "drop" /\ call'[r].op # "drop"
  BY DEF Chooses, Asks
<1>3. \A w \in Requests : Dropped(w)' <=> Dropped(w)
  BY <1>1, <1>2 DEF Dropped, Others, Stays
<1>4. JobsKept' = JobsKept /\ Sold' = Sold /\ \A w \in JobsKept : Price(w)' = Price(w)
  BY <1>1, <1>3 DEF JobsKept, Sold, Price
<1>5. QED
  BY <1>1, <1>4, AccountKept

(* A job that is completed, or dropped without a refund, has been paid for *)
(* and stays so.                                                           *)
LEMMA CloseMoney ==
  ASSUME MoneyInv, UNCHANGED <<quotes, balance, ledger>>, NEW k \in ActiveJobs,
         NEW s \in {"CANCELED", "COMPLETED"}, jobs' = [jobs EXCEPT ![k].status = s],
         s = "CANCELED" => Dropped(k)', \A w \in Requests \ {k} : Dropped(w)' <=> Dropped(w)
  PROVE  IsFiniteSet(Sold)' /\ MoneyAccounted'
<1>1. k \in Requests /\ jobs[k].status = "ACTIVE" /\ jobs \in [Requests -> JobRow]
  BY DEF ActiveJobs, MoneyInv, JobsInv, WalletInv, TypeOK
<1>2. /\ jobs'[k].status = s /\ jobs'[k].quote = jobs[k].quote
      /\ \A w \in Requests \ {k} : jobs'[w] = jobs[w]
  BY <1>1 DEF JobRow
<1>3. JobsKept' = JobsKept
  BY <1>1, <1>2 DEF JobsKept
<1>4. Sold' = Sold
  BY <1>1, <1>2 DEF Sold
<1>5. \A w \in JobsKept : Price(w)' = Price(w)
  BY <1>2 DEF JobsKept, Price
<1>6. QED
  BY <1>3, <1>4, <1>5, AccountKept

(* A purchase takes its price from a wallet and adds it to what was spent. *)
LEMMA BuysMoney ==
  ASSUME MoneyInv, JobsInv', NEW r \in Requests, Buys(r)
  PROVE  IsFiniteSet(Sold)' /\ MoneyAccounted'
<1> PICK q : q = call[r].quote
  OBVIOUS
<1>1. /\ JobsInv /\ TypeOK /\ CallShape(r) /\ q \in Quotes /\ call[r].op = "purchase" /\ pc[r] = "debit"
      /\ pc[r] \in Locked /\ Funds(r) = -Cost(r) /\ r \in Refs
      /\ {"WAYPOINT_DEBIT", "EXCHANGE_CREDIT", "ADMIN_ADJUSTMENT"} \subseteq EntryTypes
  BY DEF MoneyInv, JobsInv, WalletInv, CallShape, Buys, Held, Locked, Funds, Cost, EntryTypes, Refs
<1>2. quotes[q].status = "QUOTED"
  BY <1>1 DEF Buys, JobsInv, LockInv, RowsLocked
<1>3. jobs[r].status = "NONE" /\ \A w \in Requests : jobs[w].status # "NONE" => call[w].quote # q
  BY <1>1, <1>2, JobStands
<1>4. /\ quotes' = [quotes EXCEPT ![q].status = "PAID"]
      /\ jobs' = [jobs EXCEPT ![r] = [status |-> "ACTIVE", quote |-> q]]
      /\ BooksRow(r, "WAYPOINT_DEBIT", r) /\ UNCHANGED call
  BY DEF Buys, Commits
<1>5. /\ quotes'[q].cost = quotes[q].cost /\ \A p \in Quotes \ {q} : quotes'[p] = quotes[p]
      /\ jobs'[r].status = "ACTIVE" /\ jobs'[r].quote = q
      /\ \A w \in Requests \ {r} : jobs'[w] = jobs[w]
  BY <1>1, <1>4 DEF TypeOK, QuoteRow
<1>6. \A w \in Requests : Dropped(w)' <=> Dropped(w)
  BY <1>4 DEF Dropped
<1>7. Sold' = Sold \union {r} /\ JobsKept' = JobsKept \union {r} /\ r \notin JobsKept
  BY <1>3, <1>5, <1>6 DEF Sold, JobsKept
<1>8. IsFiniteSet(Sold)'
  BY <1>7, FS_AddElement DEF MoneyInv
<1>9. Price(r)' = Cost(r) /\ Cost(r) \in Int /\ \A w \in JobsKept : Price(w)' = Price(w)
  <2>1. Price(r)' = Cost(r) /\ Cost(r) \in Int
    BY <1>1, <1>5 DEF Price, Cost, TypeOK, QuoteRow
  <2>2. ASSUME NEW w \in JobsKept PROVE Price(w)' = Price(w)
    <3>1. w \in Requests /\ jobs[w].status # "NONE" /\ w # r
      BY <1>3 DEF JobsKept
    <3>2. jobs[w].quote \in Quotes \ {q}
      BY <1>1, <1>3, <3>1, JobStands
    <3>3. QED
      BY <1>5, <3>1, <3>2 DEF Price
  <2>3. QED
    BY <2>1, <2>2
<1>10. Spent' = Spent + Cost(r)
  <2> DEFINE f == [w \in JobsKept |-> Price(w)]
             g == [w \in JobsKept |-> Price(w)]'
  <2>1. IsFiniteSet(JobsKept) /\ Spent = SumFunction(f) /\ Whole(f, JobsKept)
    BY <1>1, SpentType DEF MoneyInv
  <2>2. Grows(f, g, r) /\ g[r] = Cost(r) /\ DOMAIN f = JobsKept /\ DOMAIN g = JobsKept \union {r}
    BY <1>7, <1>9 DEF Grows
  <2>3. Spent' = SumFunction(g)
    BY DEF Spent, Price
  <2> HIDE DEF f, g
  <2>4. Whole(g, DOMAIN g)
    BY <1>9, <2>1, <2>2 DEF Whole, Grows
  <2>5. QED
    BY <2>1, <2>2, <2>3, <2>4, SumAdd
<1>11. SumFunction(balance)' = SumFunction(balance) - Cost(r)
  <2>1. SumFunction(balance)' = SumFunction(balance) + Funds(r) /\ Funds(r) \in Int
    BY <1>1, <1>4, RowSummed
  <2>2. SumFunction(balance) \in Int
    BY <1>1, BalancesSum
  <2>3. QED
    BY <1>1, <1>9, <2>1, <2>2
<1>12. SumOf("EXCHANGE_CREDIT")' = SumOf("EXCHANGE_CREDIT") /\ SumOf("ADMIN_ADJUSTMENT")' = SumOf("ADMIN_ADJUSTMENT")
  <2>1. \A t \in EntryTypes : SumOf(t)' = SumOf(t) + (IF t = "WAYPOINT_DEBIT" THEN Funds(r) ELSE 0)
    BY <1>1, <1>4, RowSummed
  <2>2. \A t \in EntryTypes : SumOf(t) \in Int
    BY <1>1, RowsAreSummed DEF AllSummed, Summed
  <2>3. QED
    BY <1>1, <2>1, <2>2
<1>13. MoneyAccounted'
  <2>1. SumOf("EXCHANGE_CREDIT") \in Int /\ SumOf("ADMIN_ADJUSTMENT") \in Int /\ Spent \in Int
    BY <1>1, RowsAreSummed, SpentType DEF AllSummed, Summed, MoneyInv
  <2>2. SumFunction(balance) = SumOf("EXCHANGE_CREDIT") + SumOf("ADMIN_ADJUSTMENT") - Spent
    BY DEF MoneyInv, MoneyAccounted
  <2>3. QED
    BY <1>9, <1>10, <1>11, <1>12, <2>1, <2>2 DEF MoneyAccounted
<1>14. QED
  BY <1>8, <1>13

(* A refund puts the price back in the wallet and takes the job out of the *)
(* ones that count.                                                        *)
LEMMA RefundsMoney ==
  ASSUME MoneyInv, JobsInv', NEW r \in Requests, Refunds(r)
  PROVE  IsFiniteSet(Sold)' /\ MoneyAccounted'
<1> PICK k : k = call[r].ref
  OBVIOUS
<1>1. /\ JobsInv /\ TypeOK /\ pc[r] \in Locked /\ Cancels(r) /\ call[r].op = "cancel" /\ k \in Refs
      /\ {"MISSION_REFUND", "EXCHANGE_CREDIT", "ADMIN_ADJUSTMENT"} \subseteq EntryTypes
  BY DEF MoneyInv, JobsInv, WalletInv, CallShape, Refunds, Cancels, Locked, EntryTypes, TypeOK, Call
<1>2. k \in Requests /\ jobs[k].status = "ACTIVE" /\ Funds(r) = Cost(k)
  BY <1>1 DEF JobsInv, LockInv, RowsLocked, ActiveJobs, BookInv, CallFits, Funds
<1>3. /\ UNCHANGED <<quotes, call>> /\ jobs' = [jobs EXCEPT ![k].status = "CANCELED"]
      /\ BooksRow(r, "MISSION_REFUND", k)
  BY DEF Refunds, Commits
<1>4. /\ jobs'[k].status = "CANCELED" /\ jobs'[k].quote = jobs[k].quote
      /\ \A w \in Requests \ {k} : jobs'[w] = jobs[w]
  BY <1>1, <1>2, <1>3 DEF TypeOK, JobRow
<1>5. ~Dropped(k) /\ \A w \in Requests : Dropped(w)' <=> Dropped(w)
  <2>1. \A p \in Requests : call[p].op = "drop" /\ call[p].ref = k => k = None \/ jobs[k].status = "CANCELED"
    BY <1>1 DEF JobsInv, BookInv, CallFits
  <2>2. k # None
    BY <1>2, EconomyAssumption
  <2>3. QED
    BY <1>2, <1>3, <2>1, <2>2 DEF Dropped
<1>6. Sold' = Sold /\ k \in JobsKept /\ JobsKept' = JobsKept \ {k}
  BY <1>2, <1>4, <1>5 DEF Sold, JobsKept
<1>7. Price(k) = Cost(k) /\ Cost(k) \in Int /\ \A w \in JobsKept : Price(w)' = Price(w)
  BY <1>1, <1>2, <1>3, <1>4, PriceStands DEF Price, JobsKept
<1>8. Spent' = Spent - Cost(k)
  <2> DEFINE f == [w \in JobsKept |-> Price(w)]
             g == [w \in JobsKept |-> Price(w)]'
  <2>1. IsFiniteSet(JobsKept) /\ Spent = SumFunction(f) /\ Whole(f, JobsKept)
    BY <1>1, SpentType DEF MoneyInv
  <2>2. g = On(f, (DOMAIN f) \ {k}) /\ f[k] = Cost(k) /\ DOMAIN f = JobsKept
    BY <1>6, <1>7 DEF On
  <2>3. Spent' = SumFunction(g)
    BY DEF Spent, Price
  <2> HIDE DEF f, g
  <2>4. SumFunction(f) = SumFunction(g) + f[k] /\ SumFunction(g) \in Int
    BY <1>6, <2>1, <2>2, SumWithout
  <2>5. QED
    BY <1>7, <2>1, <2>2, <2>3, <2>4
<1>9. SumFunction(balance)' = SumFunction(balance) + Cost(k)
  BY <1>1, <1>2, <1>3, RowSummed
<1>10. SumOf("EXCHANGE_CREDIT")' = SumOf("EXCHANGE_CREDIT") /\ SumOf("ADMIN_ADJUSTMENT")' = SumOf("ADMIN_ADJUSTMENT")
  <2>1. \A t \in EntryTypes : SumOf(t)' = SumOf(t) + (IF t = "MISSION_REFUND" THEN Funds(r) ELSE 0)
    BY <1>1, <1>3, RowSummed
  <2>2. \A t \in EntryTypes : SumOf(t) \in Int
    BY <1>1, RowsAreSummed DEF AllSummed, Summed
  <2>3. QED
    BY <1>1, <2>1, <2>2
<1>11. MoneyAccounted'
  <2>1. SumOf("EXCHANGE_CREDIT") \in Int /\ SumOf("ADMIN_ADJUSTMENT") \in Int /\ Spent \in Int
    BY <1>1, RowsAreSummed, SpentType DEF AllSummed, Summed, MoneyInv
  <2>2. SumFunction(balance) = SumOf("EXCHANGE_CREDIT") + SumOf("ADMIN_ADJUSTMENT") - Spent
    BY DEF MoneyInv, MoneyAccounted
  <2>3. QED
    BY <1>7, <1>8, <1>9, <1>10, <2>1, <2>2 DEF MoneyAccounted
<1>12. QED
  BY <1>6, <1>11 DEF MoneyInv

(* An exchange or a correction adds to a wallet what it adds to its sum.   *)
LEMMA PaysMoney ==
  ASSUME MoneyInv, JobsInv', NEW r \in Requests, Pays(r)
  PROVE  IsFiniteSet(Sold)' /\ MoneyAccounted'
<1>1. /\ JobsInv /\ TypeOK /\ pc[r] \in Locked
      /\ {"EXCHANGE_CREDIT", "ADMIN_ADJUSTMENT"} \subseteq EntryTypes
  BY DEF MoneyInv, JobsInv, WalletInv, Pays, Locked, EntryTypes
<1>2. PICK type \in {"EXCHANGE_CREDIT", "ADMIN_ADJUSTMENT"} : BooksRow(r, type, call[r].ref)
  BY DEF Pays
<1>3. UNCHANGED <<quotes, jobs, call>>
  BY DEF Pays, Commits
<1>4. Sold' = Sold /\ Spent' = Spent
  BY <1>3 DEF Sold, Spent, JobsKept, Dropped
<1>5. SumFunction(balance)' = SumFunction(balance) + Funds(r) /\ Funds(r) \in Int
  BY <1>1, <1>2, RowSummed
<1>6. \A t \in EntryTypes : SumOf(t)' = SumOf(t) + (IF t = type THEN Funds(r) ELSE 0)
  BY <1>1, <1>2, RowSummed
<1>7. SumOf("EXCHANGE_CREDIT") \in Int /\ SumOf("ADMIN_ADJUSTMENT") \in Int /\ Spent \in Int
  BY <1>1, RowsAreSummed, SpentType DEF AllSummed, Summed, MoneyInv
<1>8. SumFunction(balance) = SumOf("EXCHANGE_CREDIT") + SumOf("ADMIN_ADJUSTMENT") - Spent
  BY DEF MoneyInv, MoneyAccounted
<1>9. /\ SumOf("EXCHANGE_CREDIT")' \in Int /\ SumOf("ADMIN_ADJUSTMENT")' \in Int
      /\ SumOf("EXCHANGE_CREDIT")' + SumOf("ADMIN_ADJUSTMENT")'
           = SumOf("EXCHANGE_CREDIT") + SumOf("ADMIN_ADJUSTMENT") + Funds(r)
  BY <1>1, <1>5, <1>6, <1>7
<1>10. MoneyAccounted'
  BY <1>4, <1>5, <1>7, <1>8, <1>9 DEF MoneyAccounted
<1>11. QED
  BY <1>4, <1>10 DEF MoneyInv

(* At the start the wallets hold their opening adjustments.                *)
LEMMA InitMoney == Init => MoneyInv
<1> SUFFICES ASSUME Init PROVE MoneyInv
  OBVIOUS
<1>1. JobsInv /\ TypeOK
  BY InitJobs DEF JobsInv, WalletInv
<1>2. Sold = {} /\ JobsKept = {}
  BY DEF Init, Sold, JobsKept, NoJob
<1>3. Spent = 0
  <2>1. {} = DOMAIN [w \in JobsKept |-> quotes[jobs[w].quote].cost]
    BY <1>2
  <2>2. QED
    BY <2>1, SumEmpty DEF Spent
<1>4. ASSUME NEW u \in Users
      PROVE  /\ SumFunction(OfType(u, "ADMIN_ADJUSTMENT")) = Opening[u]
             /\ SumFunction(OfType(u, "EXCHANGE_CREDIT")) = 0
  <2> DEFINE row == [type |-> "ADMIN_ADJUSTMENT", amount |-> Opening[u], after |-> Opening[u], ref |-> None]
             f == OfType(u, "ADMIN_ADJUSTMENT")
             g == OfType(u, "EXCHANGE_CREDIT")
  <2>1. Opening[u] \in Nat
    BY EconomyAssumption
  <2>2. CASE Opening[u] = 0
    <3>1. DOMAIN ledger[u] = {}
      BY <2>2 DEF Init
    <3>2. {} = DOMAIN f /\ {} = DOMAIN g
      BY <3>1 DEF OfType
    <3>3. QED
      BY <2>2, <3>2, SumEmpty
  <2>3. CASE Opening[u] # 0
    <3>1. ledger[u] = <<row>>
      BY <2>3 DEF Init
    <3>2. DOMAIN ledger[u] = {1} /\ ledger[u][1].type = "ADMIN_ADJUSTMENT" /\ ledger[u][1].amount = Opening[u]
      BY <3>1
    <3> DEFINE h == [x \in {} |-> 0]
    <3>3. DOMAIN f = {1} /\ f[1] = Opening[u] /\ DOMAIN g = {1} /\ g[1] = 0
      BY <3>2 DEF OfType
    <3>4. IsFiniteSet({1}) /\ IsFiniteSet({}) /\ DOMAIN h = {}
      BY FS_Singleton, FS_EmptySet
    <3> HIDE DEF f, g, h
    <3>5. SumFunction(g) = 0
      BY <3>3, <3>4, SumZero
    <3>6. SumFunction(f) = SumFunction(h) + f[1]
      <4>1. Grows(h, f, 1) /\ Whole(f, DOMAIN f)
        BY <2>1, <3>3, <3>4 DEF Grows, Whole
      <4>2. QED
        BY <3>4, <4>1, SumAdd
    <3>7. SumFunction(h) = 0
      BY <3>4, SumEmpty
    <3>8. QED
      BY <2>1, <3>3, <3>5, <3>6, <3>7 DEF f, g
  <2>4. QED
    BY <2>2, <2>3
<1>5. SumOf("ADMIN_ADJUSTMENT") = SumFunction(balance)
  <2>1. balance = [u \in Users |-> Opening[u]]
    BY EconomyAssumption DEF Init
  <2>2. balance = [u \in Users |-> SumFunction(OfType(u, "ADMIN_ADJUSTMENT"))]
    BY <1>4, <2>1
  <2>3. QED
    BY <2>2 DEF SumOf
<1>6. SumOf("EXCHANGE_CREDIT") = 0
  <2> DEFINE f == [u \in Users |-> SumFunction(OfType(u, "EXCHANGE_CREDIT"))]
  <2>1. DOMAIN f = Users /\ \A u \in Users : f[u] = 0
    BY <1>4
  <2>2. SumOf("EXCHANGE_CREDIT") = SumFunction(f)
    BY DEF SumOf
  <2> HIDE DEF f
  <2>3. QED
    BY <2>1, <2>2, UsersAssumption, SumZero
<1>7. SumFunction(balance) \in Int
  BY <1>1, BalancesSum
<1>8. MoneyAccounted
  BY <1>3, <1>5, <1>6, <1>7 DEF MoneyAccounted
<1>9. QED
  BY <1>1, <1>2, <1>8, FS_EmptySet DEF MoneyInv

(* Every step keeps the account.                                           *)
LEMMA NextMoney == MoneyInv /\ [Next]_vars => MoneyInv'
<1> SUFFICES ASSUME MoneyInv, [Next]_vars PROVE MoneyInv'
  OBVIOUS
<1>1. JobsInv /\ JobsInv'
  BY NextJobs DEF MoneyInv
<1>2. ASSUME NEW r \in Requests, Drops(r) PROVE IsFiniteSet(Sold)' /\ MoneyAccounted'
  <2>1. PICK k \in ActiveJobs : jobs' = [jobs EXCEPT ![k].status = "CANCELED"] /\ call' = [call EXCEPT ![r].ref = k]
    BY <1>2 DEF Drops
  <2>2. call[r].op = "drop" /\ pc[r] = "update" /\ call \in [Requests -> Call]
    BY <1>1, <1>2 DEF Drops, JobsInv, WalletInv, TypeOK
  <2>3. /\ call'[r].op = "drop" /\ call'[r].ref = k /\ call[r].ref = None
        /\ \A p \in Requests \ {r} : call'[p] = call[p]
    BY <1>1, <2>1, <2>2 DEF Call, JobsInv, BookInv, CallFits
  <2>4. Dropped(k)' /\ \A w \in Requests \ {k} : Dropped(w)' <=> Dropped(w)
    BY <2>2, <2>3, EconomyAssumption DEF Dropped
  <2>5. QED
    BY <1>2, <2>1, <2>4, CloseMoney DEF Drops
<1>3. ASSUME Completes PROVE IsFiniteSet(Sold)' /\ MoneyAccounted'
  <2>1. PICK k \in ActiveJobs : jobs' = [jobs EXCEPT ![k].status = "COMPLETED"]
    BY <1>3 DEF Completes
  <2>2. \A w \in Requests : Dropped(w)' <=> Dropped(w)
    BY <1>3 DEF Completes, Stays, Dropped
  <2>3. QED
    BY <1>3, <2>1, <2>2, CloseMoney DEF Completes
<1>4. QED
  BY <1>1, <1>2, <1>3, Effects, RestsMoney, ChoosesMoney, BuysMoney, PaysMoney, RefundsMoney DEF MoneyInv

(* economyTotals: however the requests interleave, lose their locks or     *)
(* fail, what all wallets hold is what was issued for exchanges and        *)
(* adjusted, less the price of every job that was not paid back: no GTA$   *)
(* comes from nowhere and none is lost.                                    *)
THEOREM MoneyAlwaysAccounted == Spec => []MoneyAccounted
<1>1. Spec => []MoneyInv
  BY InitMoney, NextMoney, PTL DEF Spec
<1>2. QED
  BY <1>1, PTL DEF MoneyInv
=============================================================================
