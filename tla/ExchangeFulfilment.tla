------------------------- MODULE ExchangeFulfilment -------------------------
(***************************************************************************)
(* Telling Twitch to keep the points of a committed exchange credit.       *)
(* Source: fulfilExchangeCredit and retryPendingFulfillments of            *)
(* server/src/twitch/exchangeReward.ts and the fulfilment bookkeeping of   *)
(* server/src/domain/wallet.ts.                                            *)
(*                                                                         *)
(* The run that booked a credit tries at once; a sweep tries again every   *)
(* minute, under a Redis lock with a TTL, until the attempts are spent.    *)
(* A moderator may settle the redemption meanwhile, answers of Twitch and  *)
(* statements of the database fail, the process dies.                      *)
(***************************************************************************)
EXTENDS Naturals, TLAPS

CONSTANTS
  Credits,      \* EXCHANGE_CREDIT rows; also names the run that books each
  Sweeps,       \* sweeps that may be under way: the timer does not wait
  MaxAttempts,  \* MAX_FULFILLMENT_ATTEMPTS
  MaxFaults,    \* how many statements fail and processes die (bounds a run)
  NoOne         \* the lock is free; a sweep has no credit in hand

ASSUME FulfilmentAssumption ==
  /\ Credits \intersect Sweeps = {} /\ NoOne \notin Credits \union Sweeps
  /\ MaxAttempts \in Nat \ {0} /\ MaxFaults \in Nat

VARIABLES
  status,    \* fulfillment_status
  attempts,  \* fulfillment_attempts
  old,       \* credits booked more than minAgeSeconds ago
  twitch,    \* where Twitch says the redemption stands
  lock,      \* Redis: K.lockFulfillment
  pc,        \* the next statement of each run and sweep
  tx,        \* the credit it is working on
  todo,      \* the credits a sweep has read and not yet tried
  faults

rows == <<status, attempts, old>>
vars == <<rows, twitch, lock, pc, tx, todo, faults>>

Workers == Credits \union Sweeps
Statuses == {"none", "PENDING", "FULFILLED", "FAILED", "CANCELED_EXTERNALLY"}
TwitchStates == {"UNFULFILLED", "FULFILLED", "CANCELED", "DELETED"}
Steps == {"idle", "patch", "patched", "readback", "confirmed", "canceled", "failure",
          "list", "next", "unlock", "done"}

Goto(w, step) == pc' = [pc EXCEPT ![w] = step]

(* Mutant: every run goes on to a next credit.                             *)
FinishAsSweep(w) == Goto(w, "next")

(* The run that booked the credit is over, a sweep goes on.                *)
Finish(w) == Goto(w, IF w \in Credits THEN "done" ELSE "next")

Fault == faults < MaxFaults /\ faults' = faults + 1

-----------------------------------------------------------------------------
(* creditExchangeRedemption has committed the credit and goes on to tell   *)
(* Twitch.                                                                 *)
Book(c) ==
  /\ pc[c] = "idle" /\ status[c] = "none"
  /\ status' = [status EXCEPT ![c] = "PENDING"]
  /\ tx' = [tx EXCEPT ![c] = c]
  /\ Goto(c, "patch")
  /\ UNCHANGED <<attempts, old, twitch, lock, todo, faults>>

(* updateRedemptionStatus.  Only an UNFULFILLED redemption takes a status, *)
(* any other answers 400 or 404; an answer may be lost after the update.   *)
PatchTwitch(w) ==
  LET c == tx[w]
      applied == twitch[c] = "UNFULFILLED" /\ twitch' = [twitch EXCEPT ![c] = "FULFILLED"]
  IN  /\ pc[w] = "patch"
      /\ \/ applied /\ Goto(w, "patched") /\ UNCHANGED faults
         \/ twitch[c] # "UNFULFILLED" /\ Goto(w, "readback") /\ UNCHANGED <<twitch, faults>>
         \/ (applied \/ UNCHANGED twitch) /\ Fault /\ Goto(w, "failure")
      /\ UNCHANGED <<rows, lock, tx, todo>>

(* Mutant: a refusal is taken for "already fulfilled".                     *)
AnswerIgnored(state) == "confirmed"

(* What the code does next by the status it read back.                     *)
AnswerTo(state) ==
  CASE state = "FULFILLED" -> "confirmed"
    [] state = "CANCELED" -> "canceled"
    [] OTHER -> "failure"

(* getRedemption settles what the refusal meant.                           *)
ReadBack(w) ==
  /\ pc[w] = "readback"
  /\ \/ Goto(w, AnswerTo(twitch[tx[w]])) /\ UNCHANGED faults
     \/ Goto(w, "failure") /\ Fault
  /\ UNCHANGED <<rows, twitch, lock, tx, todo>>

(* The WHERE of recordFulfillment.                                         *)
Unsettled(c) == status[c] \in {"PENDING", "FAILED"}

(* recordFulfillment.  Its error after the PATCH is caught like one of     *)
(* Twitch; after a read-back it ends the attempt.                          *)
RecordFulfillment(w) ==
  LET c == tx[w]
      final == IF pc[w] = "canceled" THEN "CANCELED_EXTERNALLY" ELSE "FULFILLED"
  IN  /\ pc[w] \in {"patched", "confirmed", "canceled"}
      /\ \/ /\ status' = IF Unsettled(c) THEN [status EXCEPT ![c] = final] ELSE status
            /\ attempts' = IF Unsettled(c) THEN [attempts EXCEPT ![c] = @ + 1] ELSE attempts
            /\ Finish(w) /\ UNCHANGED faults
         \/ /\ Fault /\ UNCHANGED <<status, attempts>>
            /\ IF pc[w] = "patched" THEN Goto(w, "failure") ELSE Finish(w)
      /\ UNCHANGED <<old, twitch, lock, tx, todo>>

(* Mutant: an off-by-one against the list's attempts < MAX.                *)
SpentOneLater(n) == n > MaxAttempts

Spent(n) == n >= MaxAttempts

(* recordFulfillmentFailure, on a PENDING row only.                        *)
RecordFailure(w) ==
  LET c == tx[w]
      tried == attempts[c] + 1
  IN  /\ pc[w] = "failure"
      /\ \/ /\ status[c] = "PENDING"
            /\ attempts' = [attempts EXCEPT ![c] = tried]
            /\ status' = IF Spent(tried) THEN [status EXCEPT ![c] = "FAILED"] ELSE status
            /\ UNCHANGED faults
         \/ status[c] # "PENDING" /\ UNCHANGED <<status, attempts, faults>>
         \/ Fault /\ UNCHANGED <<status, attempts>>
      /\ Finish(w)
      /\ UNCHANGED <<old, twitch, lock, tx, todo>>

-----------------------------------------------------------------------------
(* retryPendingFulfillments: a busy lock skips this round.                 *)
AcquireLock(s) ==
  /\ pc[s] = "idle" /\ lock = NoOne
  /\ lock' = s
  /\ Goto(s, "list")
  /\ UNCHANGED <<rows, twitch, tx, todo, faults>>

ListPending(s) ==
  /\ pc[s] = "list"
  /\ \/ /\ todo' = [todo EXCEPT ![s] = {c \in old : status[c] = "PENDING" /\ attempts[c] < MaxAttempts}]
        /\ Goto(s, "next") /\ UNCHANGED faults
     \/ Fault /\ Goto(s, "unlock") /\ UNCHANGED todo
  /\ UNCHANGED <<rows, twitch, lock, tx>>

NextCredit(s) ==
  /\ pc[s] = "next"
  /\ \/ \E c \in todo[s] :
          /\ tx' = [tx EXCEPT ![s] = c]
          /\ todo' = [todo EXCEPT ![s] = @ \ {c}]
          /\ Goto(s, "patch")
     \/ todo[s] = {} /\ Goto(s, "unlock") /\ UNCHANGED <<tx, todo>>
  /\ UNCHANGED <<rows, twitch, lock, faults>>

(* The lock is given back by whoever still holds it.                       *)
Unlock(s) ==
  /\ pc[s] = "unlock"
  /\ \/ lock' = (IF lock = s THEN NoOne ELSE lock) /\ UNCHANGED faults
     \/ Fault /\ UNCHANGED lock
  /\ Goto(s, "idle")
  /\ UNCHANGED <<rows, twitch, tx, todo>>

-----------------------------------------------------------------------------
(* Mutant: a lock without a TTL.                                           *)
LockStays == FALSE /\ UNCHANGED vars

LockExpires ==
  /\ lock # NoOne
  /\ lock' = NoOne
  /\ UNCHANGED <<rows, twitch, pc, tx, todo, faults>>

CreditAges(c) ==
  /\ status[c] # "none" /\ c \notin old
  /\ old' = old \union {c}
  /\ UNCHANGED <<status, attempts, twitch, lock, pc, tx, todo, faults>>

(* A moderator settles the redemption, or the streamer deletes its reward. *)
Moderate(c) ==
  /\ twitch[c] = "UNFULFILLED"
  /\ \E state \in TwitchStates \ {"UNFULFILLED"} : twitch' = [twitch EXCEPT ![c] = state]
  /\ UNCHANGED <<rows, lock, pc, tx, todo, faults>>

(* The process dies and starts again; the lock stays until its TTL.        *)
Crash ==
  /\ Fault
  /\ pc' = [w \in Workers |-> IF w \in Credits /\ pc[w] # "idle" THEN "done" ELSE "idle"]
  /\ todo' = [s \in Sweeps |-> {}]
  /\ UNCHANGED <<rows, twitch, lock, tx>>

-----------------------------------------------------------------------------
Init ==
  /\ status = [c \in Credits |-> "none"]
  /\ attempts = [c \in Credits |-> 0]
  /\ old = {}
  /\ twitch = [c \in Credits |-> "UNFULFILLED"]
  /\ lock = NoOne
  /\ pc = [w \in Workers |-> "idle"]
  /\ tx = [w \in Workers |-> NoOne]
  /\ todo = [s \in Sweeps |-> {}]
  /\ faults = 0

Attempt(w) == PatchTwitch(w) \/ ReadBack(w) \/ RecordFulfillment(w) \/ RecordFailure(w)
Sweep(s) == AcquireLock(s) \/ ListPending(s) \/ NextCredit(s) \/ Unlock(s)

Next ==
  \/ \E c \in Credits : Book(c) \/ CreditAges(c) \/ Moderate(c)
  \/ \E w \in Workers : Attempt(w)
  \/ \E s \in Sweeps : Sweep(s)
  \/ LockExpires \/ Crash

Spec == Init /\ [][Next]_vars

(* Statements return, credits age, locks lapse; the timer fires every      *)
(* minute, so a lock that stays free is taken by some sweep.               *)
Fairness ==
  /\ \A w \in Workers : WF_vars(Attempt(w))
  /\ WF_vars(\E s \in Sweeps : AcquireLock(s))
  /\ \A s \in Sweeps : WF_vars(ListPending(s) \/ NextCredit(s) \/ Unlock(s))
  /\ \A c \in Credits : WF_vars(CreditAges(c))
  /\ WF_vars(LockExpires)
FairSpec == Spec /\ Fairness

-----------------------------------------------------------------------------
(* Every variable has its type; a run has its credit in hand, and only a   *)
(* booked credit is ever listed or tried.                                  *)
TypeOK ==
  /\ status \in [Credits -> Statuses]
  /\ attempts \in [Credits -> Nat]
  /\ old \subseteq Credits
  /\ twitch \in [Credits -> TwitchStates]
  /\ lock \in Sweeps \union {NoOne}
  /\ pc \in [Workers -> Steps]
  /\ \A c \in Credits : pc[c] \notin {"list", "next", "unlock"}
  /\ \A s \in Sweeps : pc[s] # "done"
  /\ tx \in [Workers -> Credits \union {NoOne}]
  /\ \A w \in Workers : tx[w] = NoOne => pc[w] \in {"idle", "list", "next", "unlock"}
  /\ todo \in [Sweeps -> SUBSET Credits]
  /\ faults \in 0 .. MaxFaults

(* Whatever the interleaving of runs, sweeps, moderators and crashes, the  *)
(* rows do what CreditStatus says: a final status is Twitch's own and      *)
(* stays.                                                                  *)
Promise == INSTANCE CreditStatus
ImplementsCreditStatus == Promise!Spec

(* No credit is left behind: while it is PENDING the sweep's list has room *)
(* for it (attempts < MAX), and it is FAILED only when they are spent.     *)
PendingIsDue == \A c \in Credits :
  /\ status[c] = "PENDING" => attempts[c] < MaxAttempts
  /\ status[c] = "FAILED" => attempts[c] >= MaxAttempts

(* Every credit reaches a final status or the admin's list of failures,    *)
(* even when a sweep dies with the lock in hand.                           *)
CreditsEnd == \A c \in Credits :
  status[c] = "PENDING" ~> status[c] \in {"FULFILLED", "FAILED", "CANCELED_EXTERNALLY"}

-----------------------------------------------------------------------------
(***************************************************************************)
(* What it keeps for every number of credits, sweeps and failures, and     *)
(* that it implements CreditStatus.                                        *)
(***************************************************************************)
(* A run has a booked credit in hand, and what it is about to record is    *)
(* what Twitch says.                                                       *)
Trying == {"patch", "patched", "readback", "confirmed", "canceled", "failure"}
AttemptIsRight(w) ==
  /\ pc[w] \in Trying => status[tx[w]] # "none"
  /\ pc[w] \in {"patched", "confirmed"} => twitch[tx[w]] = "FULFILLED"
  /\ pc[w] = "canceled" => twitch[tx[w]] = "CANCELED"
AttemptsAreRight == \A w \in Workers : AttemptIsRight(w)

(* Only booked credits are old, listed or counted.                         *)
OnlyBooked ==
  /\ \A c \in old : status[c] # "none"
  /\ \A s \in Sweeps : \A c \in todo[s] : status[c] # "none"
  /\ \A c \in Credits : status[c] = "none" => attempts[c] = 0

FulfilmentInv == TypeOK /\ AttemptsAreRight /\ OnlyBooked /\ PendingIsDue

USE FulfilmentAssumption DEF Workers, Statuses, TwitchStates, Steps, Goto, Fault, rows, Trying

(* It holds at the start.                                                  *)
LEMMA InitInv == Init => FulfilmentInv
BY DEF Init, FulfilmentInv, TypeOK, AttemptsAreRight, AttemptIsRight, OnlyBooked, PendingIsDue

(* Each action keeps it.                                                   *)
LEMMA BookInv == ASSUME FulfilmentInv, NEW c \in Credits, Book(c) PROVE FulfilmentInv'
<1> USE DEF FulfilmentInv, Book
<1>1. TypeOK'
  BY DEF TypeOK, OnlyBooked
<1>2. AttemptsAreRight'
  BY DEF TypeOK, AttemptsAreRight, AttemptIsRight, OnlyBooked
<1>3. OnlyBooked'
  BY DEF TypeOK, AttemptsAreRight, AttemptIsRight, OnlyBooked
<1>4. PendingIsDue'
  BY DEF TypeOK, AttemptsAreRight, AttemptIsRight, OnlyBooked, PendingIsDue
<1> QED BY <1>1, <1>2, <1>3, <1>4

LEMMA CreditAgesInv == ASSUME FulfilmentInv, NEW c \in Credits, CreditAges(c) PROVE FulfilmentInv'
<1> USE DEF FulfilmentInv, CreditAges
<1>1. TypeOK'
  BY DEF TypeOK, OnlyBooked
<1>2. AttemptsAreRight'
  BY DEF TypeOK, AttemptsAreRight, AttemptIsRight, OnlyBooked
<1>3. OnlyBooked'
  BY DEF TypeOK, AttemptsAreRight, AttemptIsRight, OnlyBooked
<1>4. PendingIsDue'
  BY DEF TypeOK, AttemptsAreRight, AttemptIsRight, OnlyBooked, PendingIsDue
<1> QED BY <1>1, <1>2, <1>3, <1>4

LEMMA ModerateInv == ASSUME FulfilmentInv, NEW c \in Credits, Moderate(c) PROVE FulfilmentInv'
<1> USE DEF FulfilmentInv, Moderate
<1>1. TypeOK'
  BY DEF TypeOK, OnlyBooked
<1>2. AttemptsAreRight'
  BY DEF TypeOK, AttemptsAreRight, AttemptIsRight, OnlyBooked
<1>3. OnlyBooked'
  BY DEF TypeOK, AttemptsAreRight, AttemptIsRight, OnlyBooked
<1>4. PendingIsDue'
  BY DEF TypeOK, AttemptsAreRight, AttemptIsRight, OnlyBooked, PendingIsDue
<1> QED BY <1>1, <1>2, <1>3, <1>4

LEMMA PatchTwitchInv == ASSUME FulfilmentInv, NEW w \in Workers, PatchTwitch(w) PROVE FulfilmentInv'
<1> USE DEF FulfilmentInv, PatchTwitch
<1>1. TypeOK'
  BY DEF TypeOK, OnlyBooked
<1>2. AttemptsAreRight'
  BY DEF TypeOK, AttemptsAreRight, AttemptIsRight, OnlyBooked
<1>3. OnlyBooked'
  BY DEF TypeOK, AttemptsAreRight, AttemptIsRight, OnlyBooked
<1>4. PendingIsDue'
  BY DEF TypeOK, AttemptsAreRight, AttemptIsRight, OnlyBooked, PendingIsDue
<1> QED BY <1>1, <1>2, <1>3, <1>4

LEMMA ReadBackInv == ASSUME FulfilmentInv, NEW w \in Workers, ReadBack(w) PROVE FulfilmentInv'
<1> USE DEF FulfilmentInv, ReadBack, AnswerTo
<1>1. TypeOK'
  BY DEF TypeOK, OnlyBooked
<1>2. AttemptsAreRight'
  BY DEF TypeOK, AttemptsAreRight, AttemptIsRight, OnlyBooked
<1>3. OnlyBooked'
  BY DEF TypeOK, AttemptsAreRight, AttemptIsRight, OnlyBooked
<1>4. PendingIsDue'
  BY DEF TypeOK, AttemptsAreRight, AttemptIsRight, OnlyBooked, PendingIsDue
<1> QED BY <1>1, <1>2, <1>3, <1>4

LEMMA RecordFulfillmentInv == ASSUME FulfilmentInv, NEW w \in Workers, RecordFulfillment(w) PROVE FulfilmentInv'
<1> USE DEF FulfilmentInv, RecordFulfillment, Unsettled, Finish
<1>1. TypeOK'
  BY DEF TypeOK, OnlyBooked
<1>2. AttemptsAreRight'
  BY DEF TypeOK, AttemptsAreRight, AttemptIsRight, OnlyBooked
<1>3. OnlyBooked'
  BY DEF TypeOK, AttemptsAreRight, AttemptIsRight, OnlyBooked
<1>4. PendingIsDue'
  BY DEF TypeOK, AttemptsAreRight, AttemptIsRight, OnlyBooked, PendingIsDue
<1> QED BY <1>1, <1>2, <1>3, <1>4

LEMMA RecordFailureInv == ASSUME FulfilmentInv, NEW w \in Workers, RecordFailure(w) PROVE FulfilmentInv'
<1> USE DEF FulfilmentInv, RecordFailure, Spent, Finish
<1>1. TypeOK'
  BY DEF TypeOK, OnlyBooked
<1>2. AttemptsAreRight'
  BY DEF TypeOK, AttemptsAreRight, AttemptIsRight, OnlyBooked
<1>3. OnlyBooked'
  BY DEF TypeOK, AttemptsAreRight, AttemptIsRight, OnlyBooked
<1>4. PendingIsDue'
  BY DEF TypeOK, AttemptsAreRight, AttemptIsRight, OnlyBooked, PendingIsDue
<1> QED BY <1>1, <1>2, <1>3, <1>4

LEMMA AcquireLockInv == ASSUME FulfilmentInv, NEW s \in Sweeps, AcquireLock(s) PROVE FulfilmentInv'
<1> USE DEF FulfilmentInv, AcquireLock
<1>1. TypeOK'
  BY DEF TypeOK, OnlyBooked
<1>2. AttemptsAreRight'
  BY DEF TypeOK, AttemptsAreRight, AttemptIsRight, OnlyBooked
<1>3. OnlyBooked'
  BY DEF TypeOK, AttemptsAreRight, AttemptIsRight, OnlyBooked
<1>4. PendingIsDue'
  BY DEF TypeOK, AttemptsAreRight, AttemptIsRight, OnlyBooked, PendingIsDue
<1> QED BY <1>1, <1>2, <1>3, <1>4

LEMMA ListPendingInv == ASSUME FulfilmentInv, NEW s \in Sweeps, ListPending(s) PROVE FulfilmentInv'
<1> USE DEF FulfilmentInv, ListPending
<1>1. TypeOK'
  BY DEF TypeOK, OnlyBooked
<1>2. AttemptsAreRight'
  BY DEF TypeOK, AttemptsAreRight, AttemptIsRight, OnlyBooked
<1>3. OnlyBooked'
  BY DEF TypeOK, AttemptsAreRight, AttemptIsRight, OnlyBooked
<1>4. PendingIsDue'
  BY DEF TypeOK, AttemptsAreRight, AttemptIsRight, OnlyBooked, PendingIsDue
<1> QED BY <1>1, <1>2, <1>3, <1>4

LEMMA NextCreditInv == ASSUME FulfilmentInv, NEW s \in Sweeps, NextCredit(s) PROVE FulfilmentInv'
<1> USE DEF FulfilmentInv, NextCredit
<1>1. TypeOK'
  BY DEF TypeOK, OnlyBooked
<1>2. AttemptsAreRight'
  BY DEF TypeOK, AttemptsAreRight, AttemptIsRight, OnlyBooked
<1>3. OnlyBooked'
  BY DEF TypeOK, AttemptsAreRight, AttemptIsRight, OnlyBooked
<1>4. PendingIsDue'
  BY DEF TypeOK, AttemptsAreRight, AttemptIsRight, OnlyBooked, PendingIsDue
<1> QED BY <1>1, <1>2, <1>3, <1>4

LEMMA UnlockInv == ASSUME FulfilmentInv, NEW s \in Sweeps, Unlock(s) PROVE FulfilmentInv'
<1> USE DEF FulfilmentInv, Unlock
<1>1. TypeOK'
  BY DEF TypeOK, OnlyBooked
<1>2. AttemptsAreRight'
  BY DEF TypeOK, AttemptsAreRight, AttemptIsRight, OnlyBooked
<1>3. OnlyBooked'
  BY DEF TypeOK, AttemptsAreRight, AttemptIsRight, OnlyBooked
<1>4. PendingIsDue'
  BY DEF TypeOK, AttemptsAreRight, AttemptIsRight, OnlyBooked, PendingIsDue
<1> QED BY <1>1, <1>2, <1>3, <1>4

LEMMA LockExpiresInv == ASSUME FulfilmentInv, LockExpires PROVE FulfilmentInv'
<1> USE DEF FulfilmentInv, LockExpires
<1>1. TypeOK'
  BY DEF TypeOK, OnlyBooked
<1>2. AttemptsAreRight'
  BY DEF TypeOK, AttemptsAreRight, AttemptIsRight, OnlyBooked
<1>3. OnlyBooked'
  BY DEF TypeOK, AttemptsAreRight, AttemptIsRight, OnlyBooked
<1>4. PendingIsDue'
  BY DEF TypeOK, AttemptsAreRight, AttemptIsRight, OnlyBooked, PendingIsDue
<1> QED BY <1>1, <1>2, <1>3, <1>4

LEMMA CrashInv == ASSUME FulfilmentInv, Crash PROVE FulfilmentInv'
<1> USE DEF FulfilmentInv, Crash
<1>1. TypeOK'
  BY DEF TypeOK, OnlyBooked
<1>2. AttemptsAreRight'
  BY DEF TypeOK, AttemptsAreRight, AttemptIsRight, OnlyBooked
<1>3. OnlyBooked'
  BY DEF TypeOK, AttemptsAreRight, AttemptIsRight, OnlyBooked
<1>4. PendingIsDue'
  BY DEF TypeOK, AttemptsAreRight, AttemptIsRight, OnlyBooked, PendingIsDue
<1> QED BY <1>1, <1>2, <1>3, <1>4

-----------------------------------------------------------------------------
(* Every step keeps it.                                                    *)
LEMMA StepInv == FulfilmentInv /\ [Next]_vars => FulfilmentInv'
<1> SUFFICES ASSUME FulfilmentInv, [Next]_vars PROVE FulfilmentInv'
  OBVIOUS
<1>1. ASSUME NEW c \in Credits, Book(c) \/ CreditAges(c) \/ Moderate(c) PROVE FulfilmentInv'
  BY <1>1, BookInv, CreditAgesInv, ModerateInv
<1>2. ASSUME NEW w \in Workers, Attempt(w) PROVE FulfilmentInv'
  BY <1>2, PatchTwitchInv, ReadBackInv, RecordFulfillmentInv, RecordFailureInv DEF Attempt
<1>3. ASSUME NEW s \in Sweeps, Sweep(s) PROVE FulfilmentInv'
  BY <1>3, AcquireLockInv, ListPendingInv, NextCreditInv, UnlockInv DEF Sweep
<1>4. CASE UNCHANGED vars
  BY <1>4 DEF vars, FulfilmentInv, TypeOK, AttemptsAreRight, AttemptIsRight, OnlyBooked, PendingIsDue
<1> QED BY <1>1, <1>2, <1>3, <1>4, LockExpiresInv, CrashInv DEF Next

(* The inductive invariant of the module.                                  *)
THEOREM FulfilmentInvIsInvariant == Spec => []FulfilmentInv
<1>1. FulfilmentInv /\ [Next]_vars => FulfilmentInv'
  BY StepInv
<1> QED BY InitInv, <1>1, PTL DEF Spec

(* Every variable keeps its type.                                          *)
THEOREM FulfilmentTypeCorrect == Spec => []TypeOK
<1>1. FulfilmentInv => TypeOK
  BY DEF FulfilmentInv
<1> QED BY FulfilmentInvIsInvariant, <1>1, PTL

(* recordFulfillmentFailure and listPendingFulfillments agree on when the  *)
(* attempts are spent: no credit is PENDING and yet on no list.            *)
THEOREM NoCreditLeftBehind == Spec => []PendingIsDue
<1>1. FulfilmentInv => PendingIsDue
  BY DEF FulfilmentInv
<1> QED BY FulfilmentInvIsInvariant, <1>1, PTL

-----------------------------------------------------------------------------
(* The initial states map to initial states.                               *)
LEMMA InitRefines == Init => Promise!Init
BY DEF Init, Promise!Init

(* A run that records does what Twitch allows, and nothing else books.     *)
LEMMA RecordRefines == ASSUME FulfilmentInv, NEW w \in Workers, RecordFulfillment(w) PROVE [Promise!Next]_<<status, twitch>>
<1> DEFINE c == tx[w]
<1>1. c \in Credits /\ UNCHANGED twitch
  BY DEF FulfilmentInv, TypeOK, RecordFulfillment
<1>2. CASE UNCHANGED status
  BY <1>1, <1>2
<1>3. CASE status' = [status EXCEPT ![c] = "FULFILLED"] /\ Unsettled(c) /\ twitch[c] = "FULFILLED"
  <2>1. Promise!Acknowledge(c)
    BY <1>1, <1>3 DEF Promise!Acknowledge, Promise!Become, Unsettled
  <2> QED BY <1>1, <2>1 DEF Promise!Next
<1>4. CASE status' = [status EXCEPT ![c] = "CANCELED_EXTERNALLY"] /\ Unsettled(c) /\ twitch[c] = "CANCELED"
  <2>1. Promise!Flag(c)
    BY <1>1, <1>4 DEF Promise!Flag, Promise!Become, Unsettled
  <2> QED BY <1>1, <2>1 DEF Promise!Next
<1> QED BY <1>1, <1>2, <1>3, <1>4 DEF FulfilmentInv, AttemptsAreRight, AttemptIsRight, RecordFulfillment

(* A failed attempt gives up or changes nothing that is promised.          *)
LEMMA FailureRefines == ASSUME FulfilmentInv, NEW w \in Workers, RecordFailure(w) PROVE [Promise!Next]_<<status, twitch>>
<1> DEFINE c == tx[w]
<1>1. c \in Credits /\ UNCHANGED twitch
  BY DEF FulfilmentInv, TypeOK, RecordFailure
<1>2. CASE status[c] = "PENDING" /\ status' = [status EXCEPT ![c] = "FAILED"]
  <2>1. Promise!GiveUp(c)
    BY <1>1, <1>2 DEF Promise!GiveUp, Promise!Become
  <2> QED BY <1>1, <2>1 DEF Promise!Next
<1> QED BY <1>1, <1>2 DEF RecordFailure

(* Twitch takes a status once, whoever sets it.                            *)
LEMMA PatchRefines == ASSUME FulfilmentInv, NEW w \in Workers, PatchTwitch(w) PROVE [Promise!Next]_<<status, twitch>>
<1> DEFINE c == tx[w]
<1>1. c \in Credits /\ UNCHANGED status
  BY DEF FulfilmentInv, TypeOK, PatchTwitch
<1>2. CASE twitch[c] = "UNFULFILLED" /\ twitch' = [twitch EXCEPT ![c] = "FULFILLED"]
  <2>1. Promise!Settle(c)
    BY <1>1, <1>2 DEF Promise!Settle
  <2> QED BY <1>1, <2>1 DEF Promise!Next
<1> QED BY <1>1, <1>2 DEF PatchTwitch

(* Every step is a step of CreditStatus or none.                           *)
LEMMA StepRefines == FulfilmentInv /\ [Next]_vars => [Promise!Next]_<<status, twitch>>
<1> SUFFICES ASSUME FulfilmentInv, [Next]_vars PROVE [Promise!Next]_<<status, twitch>>
  OBVIOUS
<1>1. ASSUME NEW c \in Credits, Book(c) PROVE [Promise!Next]_<<status, twitch>>
  <2>1. Promise!Book(c)
    BY <1>1 DEF Book, Promise!Book, Promise!Become
  <2> QED BY <2>1 DEF Promise!Next
<1>2. ASSUME NEW c \in Credits, Moderate(c) PROVE [Promise!Next]_<<status, twitch>>
  <2>1. Promise!Settle(c)
    BY <1>2 DEF Moderate, Promise!Settle
  <2> QED BY <2>1 DEF Promise!Next
<1>3. ASSUME NEW c \in Credits, CreditAges(c) PROVE UNCHANGED <<status, twitch>>
  BY <1>3 DEF CreditAges
<1>4. ASSUME NEW w \in Workers, Attempt(w) PROVE [Promise!Next]_<<status, twitch>>
  BY <1>4, PatchRefines, RecordRefines, FailureRefines DEF Attempt, ReadBack
<1>5. ASSUME NEW s \in Sweeps, Sweep(s) PROVE UNCHANGED <<status, twitch>>
  BY <1>5 DEF Sweep, AcquireLock, ListPending, NextCredit, Unlock
<1>6. LockExpires \/ Crash \/ UNCHANGED vars => UNCHANGED <<status, twitch>>
  BY DEF LockExpires, Crash, vars
<1> QED BY <1>1, <1>2, <1>3, <1>4, <1>5, <1>6 DEF Next

(* The rows of the ledger do what CreditStatus promises.                   *)
THEOREM FulfilmentImplementsCreditStatus == Spec => ImplementsCreditStatus
<1>1. FulfilmentInv /\ [Next]_vars => [Promise!Next]_Promise!vars
  BY StepRefines DEF Promise!vars
<1> QED BY InitRefines, <1>1, FulfilmentInvIsInvariant, PTL DEF Spec, ImplementsCreditStatus, Promise!Spec
=============================================================================
