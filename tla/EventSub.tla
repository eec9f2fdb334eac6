------------------------------- MODULE EventSub -------------------------------
(***************************************************************************)
(* How a Twitch redemption reaches the business logic.  Source:            *)
(* server/src/twitch/eventsub.ts, http/routes/eventsub.ts, the retry timer *)
(* of jobs/maintenance.ts.                                                 *)
(*                                                                         *)
(* A webhook call claims its message (a Redis marker, then a row), answers *)
(* 204, and only then runs the event.  A sweep runs again what is on       *)
(* record and unfinished.  Redis and Postgres survive a crash of the       *)
(* process, what was being done does not.  An event is about a redemption, *)
(* either of the exchange reward, or (payment mode channel_points_reward)  *)
(* of a reward of the slot pool.                                           *)
(***************************************************************************)
EXTENDS Naturals, FiniteSets

CONSTANTS
  Messages,      \* Twitch message ids
  Redemptions,   \* redemption ids
  RedemptionOf,  \* the redemption each message is about
  Exchange,      \* the redemptions of the stored exchange reward
  Updates,       \* the messages that tell of a status (redemption.update)
  Hooks,         \* webhook calls, each used once (bounds the deliveries)
  Sweeps,        \* sweeps that may overlap: the timer does not wait for the last
  MaxAttempts,   \* MAX_EVENT_ATTEMPTS
  MaxFaults,     \* how many statements fail and processes die (bounds a run)
  Expires,       \* whether markers and rows reach their age (bounds a run)
  Moderated,     \* whether moderators settle redemptions (bounds a run)
  NoMessage

ASSUME EventSubAssumption ==
  /\ RedemptionOf \in [Messages -> Redemptions]
  /\ Exchange \subseteq Redemptions /\ Updates \subseteq Messages
  /\ Hooks \intersect Sweeps = {}
  /\ MaxAttempts \in Nat \ {0} /\ MaxFaults \in Nat
  /\ Expires \in BOOLEAN /\ Moderated \in BOOLEAN
  /\ NoMessage \notin Messages

VARIABLES
  acked,       \* messages answered with a 2xx
  marker,      \* Redis: K.eventSeen
  row,         \* eventsub_events: absent, pending or processed
  attempts,    \* eventsub_events.attempts
  old,         \* rows received more than minAgeSeconds ago
  seen,        \* Redis: K.redemptionSeen
  credited,    \* redemptions with an EXCHANGE_CREDIT in the ledger
  resolution,  \* twitch_redemptions.resolution
  twitch,      \* where Twitch says the redemption stands
  pc,          \* the next statement of each webhook call and sweep
  msg,         \* the message it is working on
  todo,        \* the rows a sweep has read and not yet run
  faults

tables == <<row, attempts, old, credited, resolution>>
cache == <<marker, seen>>
vars == <<acked, tables, cache, twitch, pc, msg, todo, faults>>

Workers == Hooks \union Sweeps
RowStates == {"absent", "pending", "processed"}
Resolutions == {"none", "FULFILLED", "CANCELED", "FAILED"}
TwitchStates == {"UNFULFILLED", "FULFILLED", "CANCELED"}
HookSteps == {"mark", "insert", "undo", "duplicate", "ack", "done"}
ExchangeSteps == {"credit", "fulfil"}
SlotSteps == {"claim", "lock", "settle", "keep", "refund", "refunded", "unrefunded", "release"}
EndSteps == {"status", "processed", "failed"}
Steps == {"idle", "next"} \union HookSteps \union ExchangeSteps \union SlotSteps \union EndSteps

Redemption(w) == RedemptionOf[msg[w]]
Goto(w, step) == pc' = [pc EXCEPT ![w] = step]

(* Mutant: every run goes on to a next row.                                *)
FinishAsSweep(w) == Goto(w, "next")

(* A webhook call is over after its run, a sweep goes on to its next row.  *)
Finish(w) == Goto(w, IF w \in Hooks THEN "done" ELSE "next")

(* A statement throws: the run goes to its catch block.                    *)
Fault == faults < MaxFaults /\ faults' = faults + 1
Throw(w, handler) == Fault /\ Goto(w, handler)

(* A Twitch status update succeeds only on an UNFULFILLED redemption.      *)
Patch(d, status) == twitch' = IF twitch[d] = "UNFULFILLED" THEN [twitch EXCEPT ![d] = status] ELSE twitch

-----------------------------------------------------------------------------
(* POST /api/eventsub/twitch.  Twitch delivers at least once: again when   *)
(* it got no 2xx in time, even while an earlier call still runs.  A status *)
(* update is sent once the redemption has been settled.                    *)
Deliver(h) == \E m \in Messages :
  /\ pc[h] = "idle"
  /\ m \in Updates => twitch[RedemptionOf[m]] # "UNFULFILLED"
  /\ msg' = [msg EXCEPT ![h] = m]
  /\ Goto(h, "mark")
  /\ UNCHANGED <<acked, tables, cache, twitch, todo, faults>>

(* claimMessage: the marker...                                             *)
MarkSeen(h) ==
  /\ pc[h] = "mark"
  /\ \/ msg[h] \notin marker /\ marker' = marker \union {msg[h]} /\ Goto(h, "insert") /\ UNCHANGED faults
     \/ msg[h] \in marker /\ Goto(h, "duplicate") /\ UNCHANGED <<marker, faults>>
     \/ Throw(h, "done") /\ UNCHANGED marker
  /\ UNCHANGED <<acked, tables, seen, twitch, msg, todo>>

(* ...then the row, whose failure takes the marker back.                   *)
InsertRow(h) ==
  /\ pc[h] = "insert"
  /\ \/ /\ row[msg[h]] = "absent"
        /\ row' = [row EXCEPT ![msg[h]] = "pending"]
        /\ attempts' = [attempts EXCEPT ![msg[h]] = 0]
        /\ Goto(h, "ack") /\ UNCHANGED faults
     \/ row[msg[h]] # "absent" /\ Goto(h, "duplicate") /\ UNCHANGED <<row, attempts, faults>>
     \/ Throw(h, "undo") /\ UNCHANGED <<row, attempts>>
  /\ UNCHANGED <<acked, old, credited, resolution, cache, twitch, msg, todo>>

UndoMark(h) ==
  /\ pc[h] = "undo"
  /\ \/ marker' = marker \ {msg[h]} /\ Goto(h, "done") /\ UNCHANGED faults
     \/ Throw(h, "done") /\ UNCHANGED marker
  /\ UNCHANGED <<acked, tables, seen, twitch, msg, todo>>

(* A redelivery is answered 204 and nothing else is done.                  *)
AnswerDuplicate(h) ==
  /\ pc[h] = "duplicate"
  /\ acked' = acked \union {msg[h]}
  /\ Goto(h, "done")
  /\ UNCHANGED <<tables, cache, twitch, msg, todo, faults>>

(* processStoredEvent by subscription type, reward and payment mode.       *)
FirstStep(m) ==
  IF m \in Updates THEN IF RedemptionOf[m] \in Exchange THEN "processed" ELSE "status"
  ELSE IF RedemptionOf[m] \in Exchange THEN "credit" ELSE "claim"

(* 204, and runEvent in a setImmediate.                                    *)
Answer(h) ==
  /\ pc[h] = "ack"
  /\ acked' = acked \union {msg[h]}
  /\ Goto(h, FirstStep(msg[h]))
  /\ UNCHANGED <<tables, cache, twitch, msg, todo, faults>>

-----------------------------------------------------------------------------
(* retryPendingEvents: one SELECT, then its rows one after the other.      *)
Pending(limit) == {m \in old : row[m] = "pending" /\ attempts[m] < limit}

(* Mutant: only what was never tried.                                      *)
DueOnce == Pending(1)

Due == Pending(MaxAttempts)

StartSweep(s) ==
  /\ pc[s] = "idle" /\ Due # {}
  /\ todo' = [todo EXCEPT ![s] = Due]
  /\ Goto(s, "next")
  /\ UNCHANGED <<acked, tables, cache, twitch, msg, faults>>

NextRow(s) ==
  /\ pc[s] = "next"
  /\ \/ \E m \in todo[s] :
          /\ msg' = [msg EXCEPT ![s] = m]
          /\ todo' = [todo EXCEPT ![s] = @ \ {m}]
          /\ Goto(s, FirstStep(m))
     \/ todo[s] = {} /\ Goto(s, "idle") /\ UNCHANGED <<msg, todo>>
  /\ UNCHANGED <<acked, tables, cache, twitch, faults>>

-----------------------------------------------------------------------------
(* creditExchangeRedemption: the ledger's unique redemption id decides     *)
(* whether this run is the first; then Twitch is told, and whatever it     *)
(* answers is left to the fulfilment sweep.                                *)
Credit(w, onError) ==
  /\ pc[w] = "credit"
  /\ \/ Redemption(w) \in credited /\ Goto(w, "processed") /\ UNCHANGED <<credited, faults>>
     \/ /\ Redemption(w) \notin credited
        /\ credited' = credited \union {Redemption(w)}
        /\ (Goto(w, "fulfil") /\ UNCHANGED faults) \/ Throw(w, onError)
     \/ Throw(w, onError) /\ UNCHANGED credited
  /\ UNCHANGED <<acked, row, attempts, old, resolution, cache, twitch, msg, todo>>

(* Mutant: an error of the credit is logged, like one of the fulfilment.   *)
CreditOrLog(w) == Credit(w, "fulfil")

CreditFirst(w) == Credit(w, "failed")

(* The PATCH may be applied and its answer lost.                           *)
Fulfil(w) ==
  /\ pc[w] = "fulfil"
  /\ \/ Patch(Redemption(w), "FULFILLED") /\ (UNCHANGED faults \/ Fault)
     \/ Fault /\ UNCHANGED twitch
  /\ Goto(w, "processed")
  /\ UNCHANGED <<acked, tables, cache, msg, todo>>

-----------------------------------------------------------------------------
(* handleRedemption for the slot pool.  The marker of the redemption is    *)
(* set before anything is done for it.                                     *)
ClaimRedemption(w) ==
  /\ pc[w] = "claim"
  /\ \/ Redemption(w) \notin seen /\ seen' = seen \union {Redemption(w)} /\ Goto(w, "lock") /\ UNCHANGED faults
     \/ Redemption(w) \in seen /\ Goto(w, "processed") /\ UNCHANGED <<seen, faults>>
     \/ Throw(w, "failed") /\ UNCHANGED seen
  /\ UNCHANGED <<acked, tables, marker, twitch, msg, todo>>

(* What it needs is read, and the activation lock taken: a busy lock       *)
(* throws, like a failed read.  (A reward that is not of the pool is       *)
(* ignored: no redemption here is of one.)                                 *)
LockActivation(w) ==
  /\ pc[w] = "lock"
  /\ \/ Goto(w, "settle") /\ UNCHANGED faults
     \/ Throw(w, "failed")
  /\ UNCHANGED <<acked, tables, cache, twitch, msg, todo>>

(* The activation transaction inserts the twitch_redemptions row, whose    *)
(* key is the redemption.  Every other verdict gives the points back, and  *)
(* so does a transaction that throws, even when it was the answer to its   *)
(* COMMIT that got lost.                                                   *)
SettleOr(w, onError) ==
  LET activated == /\ resolution[Redemption(w)] = "none"
                   /\ resolution' = [resolution EXCEPT ![Redemption(w)] = "FULFILLED"]
  IN  /\ pc[w] = "settle"
      /\ \/ activated /\ Goto(w, "keep") /\ UNCHANGED faults
         \/ activated /\ Throw(w, "refund")
         \/ Goto(w, "refund") /\ UNCHANGED <<resolution, faults>>
         \/ Throw(w, onError) /\ UNCHANGED resolution
      /\ UNCHANGED <<acked, row, attempts, old, credited, cache, twitch, msg, todo>>

(* Mutant: an error of the transaction is logged, like one of the PATCH.   *)
SettleOrLog(w) == SettleOr(w, "keep")

Settle(w) == SettleOr(w, "refund")

(* primeLiveNav may throw out of the handler; FULFILLED, the               *)
(* acknowledgement Twitch expects, may fail and is then only logged.       *)
Keep(w) ==
  /\ pc[w] = "keep"
  /\ \/ Patch(Redemption(w), "FULFILLED") /\ Goto(w, "release") /\ (UNCHANGED faults \/ Fault)
     \/ Throw(w, "release") /\ UNCHANGED twitch
     \/ Throw(w, "failed") /\ UNCHANGED twitch
  /\ UNCHANGED <<acked, tables, cache, msg, todo>>

(* refund tells its caller what Twitch answered...                         *)
RefundOr(w, onError) ==
  /\ pc[w] = "refund"
  /\ \/ /\ twitch[Redemption(w)] = "UNFULFILLED"
        /\ Patch(Redemption(w), "CANCELED")
        /\ \/ Goto(w, "refunded") /\ UNCHANGED faults
           \/ Throw(w, onError)
     \/ twitch[Redemption(w)] # "UNFULFILLED" /\ Goto(w, onError) /\ UNCHANGED <<twitch, faults>>
     \/ Throw(w, onError) /\ UNCHANGED twitch
  /\ UNCHANGED <<acked, tables, cache, msg, todo>>

(* Mutant: a refusal is taken for a refund.                                *)
RefundOrLog(w) == RefundOr(w, "refunded")

Refund(w) == RefundOr(w, "unrefunded")

(* Mutant: an upsert.                                                      *)
Upsert(d, answer) == [resolution EXCEPT ![d] = answer]

(* ...and recordRedemption writes that down, unless the redemption is      *)
(* already on record.                                                      *)
InsertRedemption(d, answer) == IF resolution[d] # "none" THEN resolution ELSE [resolution EXCEPT ![d] = answer]

Record(w) ==
  /\ pc[w] \in {"refunded", "unrefunded"}
  /\ \/ /\ resolution' = InsertRedemption(Redemption(w), IF pc[w] = "refunded" THEN "CANCELED" ELSE "FAILED")
        /\ Goto(w, "release") /\ UNCHANGED faults
     \/ Throw(w, "failed") /\ UNCHANGED resolution
  /\ UNCHANGED <<acked, row, attempts, old, credited, cache, twitch, msg, todo>>

(* The slots and quotes are cleaned up and the lock released, which may    *)
(* throw.                                                                  *)
Release(w) ==
  /\ pc[w] = "release"
  /\ \/ Goto(w, "processed") /\ UNCHANGED faults
     \/ Throw(w, "failed")
  /\ UNCHANGED <<acked, tables, cache, twitch, msg, todo>>

-----------------------------------------------------------------------------
(* A status update is copied to the redemption on record, if there is one; *)
(* an error of that UPDATE is dropped.                                     *)
RecordStatus(w) ==
  LET d == Redemption(w)
  IN  /\ pc[w] = "status"
      /\ \/ /\ resolution' = IF resolution[d] = "none" THEN resolution ELSE [resolution EXCEPT ![d] = twitch[d]]
            /\ Goto(w, "processed") /\ UNCHANGED faults
         \/ \E step \in EndSteps \ {"status"} : Throw(w, step) /\ UNCHANGED resolution
      /\ UNCHANGED <<acked, row, attempts, old, credited, cache, twitch, msg, todo>>

(* runEvent records how the run ended; the row may be pruned meanwhile.    *)
CountAttempt(w) ==
  attempts' = IF row[msg[w]] = "absent" THEN attempts ELSE [attempts EXCEPT ![msg[w]] = @ + 1]

MarkProcessed(w) ==
  /\ pc[w] = "processed"
  /\ \/ /\ row' = IF row[msg[w]] = "absent" THEN row ELSE [row EXCEPT ![msg[w]] = "processed"]
        /\ CountAttempt(w) /\ Finish(w) /\ UNCHANGED faults
     \/ Throw(w, "failed") /\ UNCHANGED <<row, attempts>>
  /\ UNCHANGED <<acked, old, credited, resolution, cache, twitch, msg, todo>>

MarkFailed(w) ==
  /\ pc[w] = "failed"
  /\ \/ CountAttempt(w) /\ UNCHANGED faults
     \/ Fault /\ UNCHANGED attempts
  /\ Finish(w)
  /\ UNCHANGED <<acked, row, old, credited, resolution, cache, twitch, msg, todo>>

-----------------------------------------------------------------------------
(* Time: rows grow old enough for the sweep, markers expire, the retention *)
(* sweep deletes rows that are processed.                                  *)
RowAges(m) ==
  /\ row[m] # "absent" /\ m \notin old
  /\ old' = old \union {m}
  /\ UNCHANGED <<acked, row, attempts, credited, resolution, cache, twitch, pc, msg, todo, faults>>

MarkersExpire ==
  /\ Expires
  /\ \/ \E m \in marker : marker' = marker \ {m} /\ UNCHANGED seen
     \/ \E d \in seen : seen' = seen \ {d} /\ UNCHANGED marker
  /\ UNCHANGED <<acked, tables, twitch, pc, msg, todo, faults>>

PruneRow(m) ==
  /\ Expires /\ row[m] = "processed" /\ m \in old
  /\ row' = [row EXCEPT ![m] = "absent"]
  /\ old' = old \ {m}
  /\ UNCHANGED <<acked, attempts, credited, resolution, cache, twitch, pc, msg, todo, faults>>

(* A moderator settles a redemption in Twitch's request queue.             *)
Moderate(d) ==
  /\ Moderated
  /\ twitch[d] = "UNFULFILLED"
  /\ \E status \in {"FULFILLED", "CANCELED"} : Patch(d, status)
  /\ UNCHANGED <<acked, tables, cache, pc, msg, todo, faults>>

(* The process dies and starts again.                                      *)
Crash ==
  /\ Fault
  /\ pc' = [w \in Workers |-> IF w \in Hooks /\ pc[w] # "idle" THEN "done" ELSE "idle"]
  /\ todo' = [s \in Sweeps |-> {}]
  /\ UNCHANGED <<acked, tables, cache, twitch, msg>>

-----------------------------------------------------------------------------
Init ==
  /\ acked = {} /\ marker = {} /\ old = {} /\ seen = {} /\ credited = {}
  /\ row = [m \in Messages |-> "absent"]
  /\ attempts = [m \in Messages |-> 0]
  /\ resolution = [d \in Redemptions |-> "none"]
  /\ twitch = [d \in Redemptions |-> "UNFULFILLED"]
  /\ pc = [w \in Workers |-> "idle"]
  /\ msg = [w \in Workers |-> NoMessage]
  /\ todo = [s \in Sweeps |-> {}]
  /\ faults = 0

Claim(h) == MarkSeen(h) \/ InsertRow(h) \/ UndoMark(h) \/ AnswerDuplicate(h) \/ Answer(h)
Run(w) ==
  \/ CreditFirst(w) \/ Fulfil(w)
  \/ ClaimRedemption(w) \/ LockActivation(w) \/ Settle(w) \/ Keep(w) \/ Refund(w) \/ Record(w) \/ Release(w)
  \/ RecordStatus(w) \/ MarkProcessed(w) \/ MarkFailed(w)

Next ==
  \/ \E h \in Hooks : Deliver(h) \/ Claim(h)
  \/ \E s \in Sweeps : StartSweep(s) \/ NextRow(s)
  \/ \E w \in Workers : Run(w)
  \/ \E m \in Messages : RowAges(m) \/ PruneRow(m)
  \/ \E d \in Redemptions : Moderate(d)
  \/ MarkersExpire \/ Crash

Spec == Init /\ [][Next]_vars

(* A run goes on, time passes, and the sweep's timer fires again and again.*)
Fairness ==
  /\ \A h \in Hooks : WF_vars(Claim(h))
  /\ \A w \in Workers : WF_vars(Run(w))
  /\ \A s \in Sweeps : WF_vars(StartSweep(s) \/ NextRow(s))
  /\ \A m \in Messages : WF_vars(RowAges(m))
FairSpec == Spec /\ Fairness

-----------------------------------------------------------------------------
(* Every variable has its type, and a step is one its worker can be at:    *)
(* a webhook call runs one event, a sweep takes nothing from Twitch.       *)
TypeOK ==
  /\ acked \subseteq Messages /\ marker \subseteq Messages /\ old \subseteq Messages
  /\ seen \subseteq Redemptions /\ credited \subseteq Redemptions
  /\ row \in [Messages -> RowStates]
  /\ attempts \in [Messages -> Nat]
  /\ resolution \in [Redemptions -> Resolutions]
  /\ twitch \in [Redemptions -> TwitchStates]
  /\ pc \in [Workers -> Steps]
  /\ \A h \in Hooks : pc[h] # "next"
  /\ \A s \in Sweeps : pc[s] \notin HookSteps
  /\ msg \in [Workers -> Messages \union {NoMessage}]
  /\ \A w \in Workers : msg[w] = NoMessage => pc[w] \in {"idle", "next"}
  /\ todo \in [Sweeps -> SUBSET Messages]
  /\ faults \in 0 .. MaxFaults

(* Points are for something: a redemption of the exchange reward whose     *)
(* event is done has its GTA$ (markEventProcessed after a credit or a      *)
(* duplicate, never after an error).                                       *)
ProcessedIsCredited == \A m \in Messages \ Updates :
  RedemptionOf[m] \in Exchange /\ row[m] = "processed" => RedemptionOf[m] \in credited

(* The server tells Twitch to keep the points only of a redemption whose   *)
(* GTA$ are booked or whose waypoint is on record, whichever run of        *)
(* whichever message tells it.                                             *)
KeptByServer(d) == twitch[d] = "UNFULFILLED" /\ twitch'[d] = "FULFILLED" /\ pc' # pc
PointsBuySomething == [][\A d \in Redemptions :
  KeptByServer(d) => IF d \in Exchange THEN d \in credited ELSE resolution[d] = "FULFILLED"]_vars

(* What is on record as refunded was refunded (the comment of refund: "the *)
(* caller records the truth").                                             *)
RefundIsTrue == \A d \in Redemptions : resolution[d] = "CANCELED" => twitch[d] = "CANCELED"

(* Once on record, a redemption changes only to what Twitch says of it: a  *)
(* second run does not overwrite the first.                                *)
RecordFollowsTwitch == [][\A d \in Redemptions :
  resolution[d] # "none" /\ resolution'[d] # resolution[d] => resolution'[d] = twitch[d]]_vars

(* An event on record is finished or given up: a crash, an error or a lost *)
(* answer only delays it.  That of an exchange is finished by its credit.  *)
EventEnds == \A m \in Messages :
  row[m] = "pending" ~> attempts[m] >= MaxAttempts
                        \/ (row[m] = "processed" /\ (m \notin Updates /\ RedemptionOf[m] \in Exchange
                                                       => RedemptionOf[m] \in credited))

-----------------------------------------------------------------------------
(* What a comment of eventsub.ts promises and the code does not keep.      *)

(* "anything that fails is retried from there": a redemption of the slot   *)
(* pool whose event is done got its waypoint or its refund.                *)
ProcessedIsSettled == \A m \in Messages \ Updates :
  RedemptionOf[m] \notin Exchange /\ row[m] = "processed" => resolution[RedemptionOf[m]] # "none"
=============================================================================
