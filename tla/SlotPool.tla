------------------------------ MODULE SlotPool ------------------------------
(* The legacy payment by Channel Points: a small pool of Twitch rewards, each *)
(* leased to one quote, shown at the quote's price, and handed back.          *)
(* Sources: src/server/src/domain/slots.ts, twitch/rewards.ts, the confirm,   *)
(* cancel and expiry of domain/waypointFlow.ts, handleRedemption of           *)
(* twitch/eventsub.ts, the slot reaper of jobs/maintenance.ts and the admin's *)
(* slot operations of http/routes/admin.ts.                                   *)
(*                                                                            *)
(* Every await of a handler is a step of its own.  What a handler read before *)
(* it (the slot's row, the quote) stays in work[w] and is used as it was      *)
(* read.  Left out: titles, prompts and the columns that only the admin page  *)
(* shows (current_title, current_cost, enabled), which no guard reads; the    *)
(* limit on an event's attempts (EventSub has it), without which an event may *)
(* run any number of times; and errors of Postgres outside the activation.    *)
EXTENDS Integers, FiniteSets

CONSTANTS
  Quotes,       \* one quote of one viewer each, already created
  Owner,        \* [Quotes -> viewers]
  Price,        \* [Quotes -> costs]
  Viewers,      \* who may redeem a reward that is shown
  Redemptions,
  Workers,      \* handlers that run at the same time
  MaxPool,      \* slots are 1..MaxPool
  MaxTrouble,   \* failed Twitch calls, crashes, lost locks, changes by the admin
  None

VARIABLES
  slot,      \* the row of twitch_reward_slots: status and quote_id; reserved_at
             \* is set and cleared with quote_id in every statement
  reward,    \* the reward at Twitch: shown or not, and its cost
  quote,     \* status and slot_id of the row of waypoint_quotes
  dead,      \* quotes whose expires_at has passed
  paid,      \* the redemption at Twitch
  seen,      \* K.redemptionSeen: redemptions whose handler has begun, until
             \* DEDUPE_TTL_SECONDS are over
  closed,    \* redemptions whose event has its processed_at
  record,    \* resolution of the row of twitch_redemptions
  active,    \* the quote of the active waypoint
  settings,  \* rewardSlotPoolSize and waypointsOpen
  lock,      \* holder of the activation lock
  work,      \* the handlers in progress
  bought,    \* the quote that a redemption has paid for (history)
  unsure,    \* redemptions whose marker was gone before their event was closed,
             \* or whose COMMIT was not answered (history)
  moderated, \* redemptions that a moderator settled at Twitch (history)
  trouble

vars == <<slot, reward, quote, dead, paid, seen, closed, record, active, settings, lock,
          work, bought, unsure, moderated, trouble>>

history == <<bought, unsure, moderated>>
payments == <<paid, seen, record, history>>

Slots == 1..MaxPool
Statuses == {"FREE", "RESERVED", "CONSUMED", "BROKEN"}
IdleCost == 0          \* TWITCH_MIN_COST, the cost of no quote
Live == {"QUOTED", "AWAITING_REDEMPTION"}
(* Whoever reads the slot_id of a quote asks for a live one: that of a quote*)
(* that has ended is left out.                                              *)
Ended(status) == [status |-> status, slot |-> None]
NoRow == [status |-> "NONE", quote |-> None]
Free == [status |-> "FREE", quote |-> None]
(* Mutant: the title and the cost go back, the reward stays enabled.        *)
StillShown == [shown |-> TRUE, cost |-> IdleCost]
Hidden == [shown |-> FALSE, cost |-> IdleCost]
Idle == [at |-> "idle", quote |-> None, slot |-> None, row |-> NoRow, redemption |-> None,
         open |-> TRUE, refunded |-> FALSE, todo |-> {}, lost |-> {}, then |-> "end"]
Unmade == [status |-> "NONE", user |-> None, cost |-> IdleCost, slot |-> None]

Init ==
  /\ slot = [s \in Slots |-> IF s = 1 THEN Free ELSE NoRow]
  /\ reward = [s \in Slots |-> [shown |-> FALSE, cost |-> IdleCost]]
  /\ quote = [q \in Quotes |-> [status |-> "QUOTED", slot |-> None]]
  /\ dead = {}
  /\ paid = [r \in Redemptions |-> Unmade]
  /\ seen = {} /\ closed = {}
  /\ record = [r \in Redemptions |-> "NONE"]
  /\ active = None
  /\ settings = [size |-> 1, open |-> TRUE]
  /\ lock = None
  /\ work = [w \in Workers |-> Idle]
  /\ bought = [r \in Redemptions |-> None] /\ unsure = {} /\ moderated = {}
  /\ trouble = 0

-----------------------------------------------------------------------------
(* Handlers begin, wait and end.                                            *)

Begin(w, job) == work[w] = Idle /\ work' = [work EXCEPT ![w] = job]
Goto(w, at) == work' = [work EXCEPT ![w].at = at]

(* releaseSlot is called for slot s; what the handler needs no more is      *)
(* dropped.                                                                 *)
Release(w, s) ==
  work' = [work EXCEPT ![w].at = "release", ![w].slot = s, ![w].todo = @ \ {s}, ![w].row = NoRow,
                       ![w].refunded = FALSE]

(* The lock is given back when the handler that holds it ends, and the event*)
(* of a redemption is closed (runEvent).                                    *)
End(w) ==
  /\ work' = [work EXCEPT ![w] = Idle]
  /\ lock' = IF lock = w THEN None ELSE lock
  /\ closed' = closed \cup ({work[w].redemption} \ {None})

(* A call of Twitch: it works, or it fails.                                 *)
Trouble == trouble < MaxTrouble /\ trouble' = trouble + 1
TwitchAnswers == UNCHANGED trouble
TwitchFails == Trouble

-----------------------------------------------------------------------------
(* A viewer confirms a quote: a slot is leased and its reward shown.        *)

Confirm(w, q) ==
  /\ quote[q].status = "QUOTED" /\ q \notin dead /\ active = None
  /\ Begin(w, [Idle EXCEPT !.at = "lease", !.quote = q])
  /\ UNCHANGED <<slot, reward, quote, dead, payments, active, settings, lock, closed, trouble>>

(* The confirm of a quote that is past its deadline.                        *)
ConfirmLate(q) ==
  /\ quote[q].status = "QUOTED" /\ q \in dead
  /\ quote' = [quote EXCEPT ![q] = Ended("EXPIRED")]
  /\ UNCHANGED <<slot, reward, dead, payments, active, settings, lock, closed, work, trouble>>

Leasable == {s \in Slots : slot[s].status = "FREE" /\ s <= settings.size}

LeaseSlot(w) ==
  /\ work[w].at = "lease"
  /\ IF Leasable = {}
     THEN End(w) /\ UNCHANGED slot
     ELSE \E s \in Leasable :
          /\ \A other \in Leasable : s <= other
          /\ slot' = [slot EXCEPT ![s] = [status |-> "RESERVED", quote |-> work[w].quote]]
          /\ work' = [work EXCEPT ![w].at = "show", ![w].slot = s]
          /\ UNCHANGED <<lock, closed>>
  /\ UNCHANGED <<reward, quote, dead, payments, active, settings, trouble>>

ActivateSlotReward(w) ==
  /\ work[w].at = "show"
  /\ \/ /\ TwitchAnswers
        /\ reward' = [reward EXCEPT ![work[w].slot] =
                        [shown |-> TRUE, cost |-> Price[work[w].quote]]]
        /\ Goto(w, "attach")
     \/ TwitchFails /\ Release(w, work[w].slot) /\ UNCHANGED reward
  /\ UNCHANGED <<slot, quote, dead, payments, active, settings, lock, closed>>

AttachSlot(w) ==
  LET q == work[w].quote IN
  /\ work[w].at = "attach"
  /\ IF quote[q].status = "QUOTED" /\ q \notin dead
     THEN /\ quote' = [quote EXCEPT ![q] = [status |-> "AWAITING_REDEMPTION",
                                            slot |-> work[w].slot]]
          /\ End(w)
     ELSE Release(w, work[w].slot) /\ UNCHANGED <<quote, lock, closed>>
  /\ UNCHANGED <<slot, reward, dead, payments, active, settings, trouble>>

-----------------------------------------------------------------------------
(* releaseSlot, on the row its caller read.                                 *)

(* What the caller does next.                                               *)
Released(w) ==
  IF work[w].then = "end" THEN End(w) ELSE Goto(w, work[w].then) /\ UNCHANGED <<lock, closed>>

ReleaseSlotReward(w) ==
  LET s == work[w].slot IN
  /\ work[w].at = "release"
  /\ \/ /\ TwitchAnswers
        /\ reward' = [reward EXCEPT ![s] = Hidden]
        /\ Goto(w, "free") /\ UNCHANGED slot
     \/ /\ TwitchFails
        /\ slot' = [slot EXCEPT ![s].status = "BROKEN"]
        /\ Goto(w, "degraded") /\ UNCHANGED reward
  /\ UNCHANGED <<quote, dead, payments, active, settings, lock, closed>>

MarkSlotFree(w) ==
  /\ work[w].at = "free"
  /\ slot' = [slot EXCEPT ![work[w].slot] = Free]
  /\ Released(w)
  /\ UNCHANGED <<reward, quote, dead, payments, active, settings, trouble>>

(* The slot stays BROKEN; it only forgets its quote.  The sync and the      *)
(* activation release a slot without this statement.                        *)
ReleaseDegraded(w) ==
  /\ work[w].at = "degraded"
  /\ slot' = IF work[w].then \in {"list", "sync"} THEN slot
             ELSE [slot EXCEPT ![work[w].slot].quote = None]
  /\ Released(w)
  /\ UNCHANGED <<reward, quote, dead, payments, active, settings, trouble>>

-----------------------------------------------------------------------------
(* A quote ends without a payment: canceled by its viewer or the admin, or  *)
(* swept when it is past its deadline.                                      *)

(* The quote is read, with the slot it had then.                            *)
EndQuote(w, q, to) ==
  /\ quote[q].status \in Live
  /\ IF to = "EXPIRED" THEN q \in dead /\ UNCHANGED trouble ELSE Trouble
  /\ Begin(w, [Idle EXCEPT !.at = to, !.quote = q, !.slot = quote[q].slot])
  /\ UNCHANGED <<slot, reward, quote, dead, payments, active, settings, lock, closed>>

SetQuoteStatus(w) ==
  LET q == work[w].quote IN
  /\ work[w].at \in {"CANCELED", "EXPIRED"}
  /\ IF quote[q].status \in Live
     THEN /\ quote' = [quote EXCEPT ![q] = Ended(work[w].at)]
          /\ IF work[w].slot = None THEN End(w) ELSE Goto(w, "look") /\ UNCHANGED <<lock, closed>>
     ELSE End(w) /\ UNCHANGED quote
  /\ UNCHANGED <<slot, reward, dead, payments, active, settings, trouble>>

LookAtSlot(w) ==
  /\ work[w].at = "look"
  /\ IF slot[work[w].slot].status = "RESERVED"
     THEN Release(w, work[w].slot) /\ UNCHANGED <<lock, closed>>
     ELSE End(w)
  /\ UNCHANGED <<slot, reward, quote, dead, payments, active, settings, trouble>>

(* The reaper: reserved longer ago than a quote lives, for no live quote.   *)
(* A quote is older than its slot's reservation, so by then it has expired, *)
(* and its confirm, which takes seconds, is over.                           *)
Orphaned(s) ==
  /\ slot[s].status = "RESERVED" /\ slot[s].quote \in dead
  /\ \A w \in Workers : work[w].quote # slot[s].quote
  /\ \A q \in Quotes : quote[q].slot = s => quote[q].status \notin Live

Reap(w, s) ==
  /\ Orphaned(s)
  /\ Begin(w, [Idle EXCEPT !.at = "release", !.slot = s])
  /\ UNCHANGED <<slot, reward, quote, dead, payments, active, settings, lock, closed, trouble>>

-----------------------------------------------------------------------------
(* A viewer redeems a reward that is shown; the event reaches its handler.  *)

(* Twitch charges what the reward costs at that moment.                     *)
Redeem(r, v, s) ==
  /\ paid[r] = Unmade /\ reward[s].shown
  /\ paid' = [paid EXCEPT ![r] = [status |-> "UNFULFILLED", user |-> v,
                                  cost |-> reward[s].cost, slot |-> s]]
  /\ UNCHANGED <<slot, reward, quote, dead, seen, closed, record, active, settings, lock, work,
                 history, trouble>>

(* Twitch settles a redemption once.                                        *)
Open(r) == paid[r].status = "UNFULFILLED"
Settled(r, status) == IF Open(r) THEN [paid EXCEPT ![r].status = status] ELSE paid

(* A run of the event, the first or one of the sweep's; it may start while  *)
(* another is under way.  With the marker set it is a duplicate, and that   *)
(* closes the event.  The slot's row and the settings are read before the   *)
(* wait for the activation lock.                                            *)
HandleRedemption(w, r) ==
  /\ paid[r].status # "NONE" /\ r \notin closed
  /\ IF r \in seen
     THEN closed' = closed \cup {r} /\ UNCHANGED <<seen, work>>
     ELSE /\ seen' = seen \cup {r}
          /\ Begin(w, [Idle EXCEPT !.at = "verdict", !.slot = paid[r].slot,
                                   !.row = slot[paid[r].slot], !.redemption = r,
                                   !.open = settings.open])
          /\ UNCHANGED closed
  /\ UNCHANGED <<slot, reward, quote, dead, paid, record, active, settings, lock, history, trouble>>

(* DEDUPE_TTL_SECONDS are over before the event was closed.  They are far   *)
(* longer than a handler takes.                                             *)
MarkerExpires(r) ==
  /\ r \in seen \ closed
  /\ seen' = seen \ {r} /\ unsure' = unsure \cup {r}
  /\ IF \E w \in Workers : work[w].redemption = r THEN Trouble ELSE UNCHANGED trouble
  /\ UNCHANGED <<slot, reward, quote, dead, paid, closed, record, active, settings, lock, work,
                 bought, moderated>>

(* A moderator settles a redemption at Twitch.                              *)
Moderate(r, status) ==
  /\ Open(r) /\ Trouble
  /\ paid' = Settled(r, status) /\ moderated' = moderated \cup {r}
  /\ UNCHANGED <<slot, reward, quote, dead, seen, closed, record, active, settings, lock, work,
                 bought, unsure>>

(* REDEMPTION_UPDATE: how it was settled, by whomever, is put on record.    *)
StatusUpdate(r) ==
  /\ paid[r].status \in {"CANCELED", "FULFILLED"}
  /\ record[r] \notin {"NONE", paid[r].status}
  /\ record' = [record EXCEPT ![r] = paid[r].status]
  /\ UNCHANGED <<slot, reward, quote, dead, paid, seen, closed, active, settings, lock, work,
                 history, trouble>>

(* The quote on the row that was read, or else the one waiting on the slot. *)
QuotesOf(w) ==
  IF work[w].row.quote # None THEN {work[w].row.quote}
  ELSE {q \in Quotes : /\ quote[q].slot = work[w].slot
                       /\ quote[q].status = "AWAITING_REDEMPTION"}

(* Mutant: whoever redeems at the price has paid.                           *)
AnyoneMayPay(w, q) ==
  LET cost == paid[work[w].redemption].cost IN
  IF quote[q].status # "AWAITING_REDEMPTION" \/ q \in dead \/ cost # Price[q]
     \/ active # None \/ ~work[w].open
  THEN "refund" ELSE "activate"

(* Why a redemption does not buy its quote; "stranger" leaves the slot be.  *)
Verdict(w, q) ==
  LET payment == paid[work[w].redemption] IN
  IF quote[q].status # "AWAITING_REDEMPTION" THEN "refund"
  ELSE IF Owner[q] # payment.user THEN "stranger"
  ELSE IF q \in dead \/ payment.cost # Price[q] \/ active # None \/ ~work[w].open
  THEN "refund" ELSE "activate"

(* The quote is kept if it was waiting for its payment when it was read.    *)
Decide(w) ==
  /\ work[w].at = "verdict" /\ lock = None
  /\ lock' = w
  /\ \/ QuotesOf(w) = {} /\ Goto(w, "refund")
     \/ \E q \in QuotesOf(w) :
          work' = [work EXCEPT ![w].at = Verdict(w, q), ![w].open = TRUE,
                     ![w].quote = IF quote[q].status = "AWAITING_REDEMPTION" THEN q ELSE None]
  /\ UNCHANGED <<slot, reward, quote, dead, payments, closed, active, settings, trouble>>

(* onBusy: the handler throws, and its event stays open.                    *)
LockIsBusy(w) ==
  /\ work[w].at = "verdict" /\ lock # None
  /\ work' = [work EXCEPT ![w] = Idle]
  /\ UNCHANGED <<slot, reward, quote, dead, payments, closed, active, settings, lock, trouble>>

(* The points go back, if Twitch lets them: what it answered is kept.  A    *)
(* call may fail before or after it was carried out.                        *)
Refund(w) ==
  LET r     == work[w].redemption
      after == IF work[w].at = "stranger" THEN "recordOnly" ELSE "record"
      Answer(refunded) == work' = [work EXCEPT ![w].at = after, ![w].refunded = refunded]
  IN
  /\ work[w].at \in {"refund", "stranger"}
  /\ \/ TwitchAnswers /\ paid' = Settled(r, "CANCELED") /\ Answer(Open(r))
     \/ TwitchFails /\ paid' \in {paid, Settled(r, "CANCELED")} /\ Answer(FALSE)
  /\ UNCHANGED <<slot, reward, quote, dead, seen, closed, record, active, settings, lock, history>>

(* ON CONFLICT DO NOTHING.                                                  *)
RecordRefund(w) ==
  LET r == work[w].redemption IN
  /\ work[w].at \in {"record", "recordOnly"}
  /\ record' = IF record[r] # "NONE" THEN record
               ELSE [record EXCEPT ![r] = IF work[w].refunded THEN "CANCELED" ELSE "FAILED"]
  /\ IF work[w].at = "record" /\ work[w].row.status = "RESERVED"
     THEN Goto(w, "kill") /\ UNCHANGED <<lock, closed>>
     ELSE End(w)
  /\ UNCHANGED <<slot, reward, quote, dead, paid, seen, active, settings, history, trouble>>

(* The rejected payment takes its quote with it, if that was waiting then   *)
(* and is now, and the slot.                                                *)
KillQuote(w) ==
  /\ work[w].at = "kill"
  /\ quote' = [q \in Quotes |-> IF q = work[w].quote /\ quote[q].status = "AWAITING_REDEMPTION"
                                THEN Ended("CANCELED") ELSE quote[q]]
  /\ Release(w, work[w].slot)
  /\ UNCHANGED <<slot, reward, dead, payments, closed, active, settings, lock, trouble>>

(* One transaction: the quote PAID, the waypoint, the redemption's row and  *)
(* the slot; the quote's status, the unique index of active waypoints, the  *)
(* redemption's key or a fault makes it fail, and the viewer is refunded, as*)
(* is one whose COMMIT was done but not answered.                           *)
Activate(w) ==
  LET q == work[w].quote  r == work[w].redemption IN
  /\ work[w].at = "activate"
  /\ \/ /\ quote[q].status = "AWAITING_REDEMPTION" /\ active = None /\ record[r] = "NONE"
        /\ quote' = [quote EXCEPT ![q] = Ended("PAID")]
        /\ active' = q /\ bought' = [bought EXCEPT ![r] = q]
        /\ record' = [record EXCEPT ![r] = "FULFILLED"]
        /\ slot' = [slot EXCEPT ![work[w].slot].status = "CONSUMED"]
        /\ \/ Goto(w, "fulfil") /\ UNCHANGED <<unsure, trouble>>
           \/ Trouble /\ Goto(w, "refund") /\ unsure' = unsure \cup {r}
     \/ /\ IF quote[q].status = "AWAITING_REDEMPTION" /\ active = None /\ record[r] = "NONE"
           THEN Trouble ELSE UNCHANGED trouble
        /\ Goto(w, "refund") /\ UNCHANGED <<slot, quote, active, record, bought, unsure>>
  /\ UNCHANGED <<reward, dead, paid, seen, closed, settings, lock, moderated>>

(* Twitch is told to keep the points; its answer is put on record.          *)
Fulfil(w) ==
  LET r == work[w].redemption IN
  /\ work[w].at = "fulfil"
  /\ \/ /\ TwitchAnswers /\ paid' = Settled(r, "FULFILLED")
        /\ record' = IF Open(r) THEN [record EXCEPT ![r] = "FULFILLED"] ELSE record
     \/ TwitchFails /\ paid' \in {paid, Settled(r, "FULFILLED")} /\ UNCHANGED record
  /\ work' = [work EXCEPT ![w] = [Idle EXCEPT !.at = "release", !.slot = work[w].slot,
                                              !.redemption = r, !.then = "list"]]
  /\ UNCHANGED <<slot, reward, quote, dead, seen, closed, active, settings, lock, history>>

(* releaseAllReservedExcept: the rows are listed, then released one by one, *)
(* then the quotes that the rows named are canceled.                        *)
ListReserved(w) ==
  LET reserved == {s \in Slots : slot[s].status = "RESERVED"} \ {work[w].slot} IN
  /\ work[w].at = "list"
  /\ work' = [work EXCEPT ![w].at = "others", ![w].then = "others", ![w].todo = reserved,
                          ![w].lost = {slot[s].quote : s \in reserved} \ {None}]
  /\ UNCHANGED <<slot, reward, quote, dead, payments, active, settings, lock, closed, trouble>>

ReleaseOthers(w) ==
  /\ work[w].at = "others"
  /\ IF work[w].todo = {}
     THEN /\ quote' = [q \in Quotes |->
                         IF q \in work[w].lost /\ quote[q].status = "AWAITING_REDEMPTION"
                         THEN Ended("CANCELED") ELSE quote[q]]
          /\ End(w)
     ELSE /\ \E s \in work[w].todo : Release(w, s)
          /\ UNCHANGED <<quote, lock, closed>>
  /\ UNCHANGED <<slot, reward, dead, payments, active, settings, trouble>>

-----------------------------------------------------------------------------
(* The admin: the running job, the doors, the size of the pool.             *)

(* Complete, cancel and clear; clear also ends the live quotes, one EndQuote*)
(* each.  A cancel with a refund finds the redemption that bought the       *)
(* waypoint on record as FULFILLED and leaves it, or as Twitch has settled  *)
(* it, and Twitch refuses; that it may find a later one of the quote, which *)
(* bought nothing and whose refund had failed, is left out.                 *)
EndWaypoint ==
  /\ active # None /\ active' = None
  /\ UNCHANGED <<slot, reward, quote, dead, payments, closed, settings, lock, work, trouble>>

SetOpen(open) ==
  /\ settings.open # open /\ settings' = [settings EXCEPT !.open = open]
  /\ Trouble
  /\ UNCHANGED <<slot, reward, quote, dead, payments, active, lock, closed, work>>

(* A new size is saved and ensureRewardPool is run; slots/sync runs it with *)
(* the size as it is.                                                       *)
Resize(w, size) ==
  /\ Trouble
  /\ settings' = [settings EXCEPT !.size = size]
  /\ Begin(w, [Idle EXCEPT !.at = "fill"])
  /\ UNCHANGED <<slot, reward, quote, dead, payments, active, lock, closed>>

(* The rewards and rows that the size asks for are created, then the stuck  *)
(* slots are listed.  When Twitch refuses, nothing else is done.            *)
FillPool(w) ==
  LET size    == settings.size
      missing == {s \in 1..size : slot[s] = NoRow} IN
  /\ work[w].at = "fill"
  /\ \/ /\ TwitchAnswers
        /\ slot' = [s \in Slots |-> IF s \in missing THEN Free ELSE slot[s]]
        /\ work' = [work EXCEPT ![w].at = "sync", ![w].then = "sync",
                       ![w].todo = {s \in 1..size : slot[s].status \in {"BROKEN", "CONSUMED"}},
                       ![w].lost = {s \in Slots \ 1..size : slot[s].status \notin
                                                            {"RESERVED", "NONE"}}]
        /\ UNCHANGED <<lock, closed>>
     \/ TwitchFails /\ End(w) /\ UNCHANGED slot
  /\ UNCHANGED <<reward, quote, dead, payments, active, settings>>

(* A stuck slot that no live quote holds is released like any other.        *)
RecoverStuck(w) ==
  /\ work[w].at = "sync" /\ work[w].todo # {}
  /\ \E s \in work[w].todo :
       IF \E q \in Quotes : quote[q].slot = s /\ quote[q].status \in Live
       THEN work' = [work EXCEPT ![w].todo = @ \ {s}]
       ELSE Release(w, s)
  /\ UNCHANGED <<slot, reward, quote, dead, payments, active, settings, lock, closed, trouble>>

(* Slots above the size, as they were listed, are hidden and stay in place. *)
HideExtra(w) ==
  /\ work[w].at = "sync" /\ work[w].todo = {}
  /\ IF work[w].lost = {} THEN End(w) /\ UNCHANGED <<slot, reward, trouble>>
     ELSE \E s \in work[w].lost :
       /\ work' = [work EXCEPT ![w].lost = @ \ {s}]
       /\ UNCHANGED <<lock, closed>>
       /\ \/ TwitchAnswers /\ reward' = [reward EXCEPT ![s] = Hidden] /\ UNCHANGED slot
          \/ /\ TwitchFails
             /\ slot' = [slot EXCEPT ![s].status = "BROKEN"] /\ UNCHANGED reward
  /\ UNCHANGED <<quote, dead, payments, active, settings>>

-----------------------------------------------------------------------------
(* Time, the activation lock's lease and the process.                       *)

Deadline(q) ==
  /\ q \notin dead /\ dead' = dead \cup {q}
  /\ quote[q].status \in Live \/ \E s \in Slots : slot[s].quote = q
  /\ UNCHANGED <<slot, reward, quote, payments, active, settings, lock, closed, work, trouble>>

LockExpires ==
  /\ lock # None /\ lock' = None
  /\ IF work[lock] = Idle THEN UNCHANGED trouble ELSE Trouble
  /\ UNCHANGED <<slot, reward, quote, dead, payments, active, settings, closed, work>>

(* Handlers die where they are; the lock waits for its expiry, the events   *)
(* for the sweep.                                                           *)
Crash ==
  /\ Trouble
  /\ work' = [w \in Workers |-> Idle]
  /\ UNCHANGED <<slot, reward, quote, dead, payments, active, settings, lock, closed>>

Step(w) ==
  /\ work[w].at # "idle"
  /\ \/ LeaseSlot(w) \/ ActivateSlotReward(w) \/ AttachSlot(w)
     \/ ReleaseSlotReward(w) \/ MarkSlotFree(w) \/ ReleaseDegraded(w)
     \/ SetQuoteStatus(w) \/ LookAtSlot(w)
     \/ Decide(w) \/ LockIsBusy(w) \/ Refund(w) \/ RecordRefund(w) \/ KillQuote(w)
     \/ Activate(w) \/ Fulfil(w) \/ ListReserved(w) \/ ReleaseOthers(w)
     \/ FillPool(w) \/ RecoverStuck(w) \/ HideExtra(w)

Sweep(w) ==
  /\ work[w].at = "idle"
  /\ \/ \E q \in Quotes : EndQuote(w, q, "EXPIRED")
     \/ \E s \in Slots : Reap(w, s)

Request(w) ==
  /\ work[w].at = "idle"
  /\ \/ \E q \in Quotes : Confirm(w, q) \/ EndQuote(w, q, "CANCELED")
     \/ \E r \in Redemptions : HandleRedemption(w, r)
     \/ \E size \in Slots : Resize(w, size)

Next ==
  \/ \E w \in Workers : Step(w) \/ Sweep(w) \/ Request(w)
  \/ \E q \in Quotes : ConfirmLate(q) \/ Deadline(q)
  \/ \E r \in Redemptions, v \in Viewers, s \in Slots : Redeem(r, v, s)
  \/ \E r \in Redemptions :
       MarkerExpires(r) \/ StatusUpdate(r)
       \/ \E status \in {"CANCELED", "FULFILLED"} : Moderate(r, status)
  \/ EndWaypoint \/ LockExpires \/ Crash
  \/ \E open \in BOOLEAN : SetOpen(open)

Spec == Init /\ [][Next]_vars

-----------------------------------------------------------------------------
TypeOK ==
  /\ slot \in [Slots -> [status : Statuses \cup {"NONE"}, quote : Quotes \cup {None}]]
  /\ \A s \in Slots : IF reward[s].shown THEN reward[s].cost \in {Price[q] : q \in Quotes}
                      ELSE reward[s].cost = IdleCost
  /\ \A q \in Quotes : quote[q].slot \in Slots \cup {None}
  /\ dead \subseteq Quotes /\ seen \cup closed \cup unsure \subseteq Redemptions
  /\ active \in Quotes \cup {None} /\ lock \in Workers \cup {None}
  /\ settings.size \in Slots

(* A waypoint bought with Channel Points was paid for, however often the    *)
(* reward was leased, shown and hidden and the redemption's event was run:  *)
(* a PAID quote was bought by a redemption of its own viewer at its own     *)
(* price, and by no other; that redemption keeps its price at Twitch, unless*)
(* a moderator gave it back, or the server could not know that it had done  *)
(* its work: the marker of it was gone when its event came again, or its    *)
(* COMMIT was not answered.  And no redemption is on record as a purchase   *)
(* that bought nothing, unless a moderator said so.                         *)
PaidByOwner ==
  /\ \A q \in Quotes : quote[q].status = "PAID" => \E r \in Redemptions : bought[r] = q
  /\ \A r \in Redemptions : bought[r] # None =>
       /\ quote[bought[r]].status = "PAID"
       /\ paid[r].user = Owner[bought[r]] /\ paid[r].cost = Price[bought[r]]
       /\ \A other \in Redemptions \ {r} : bought[other] # bought[r]
       /\ paid[r].status = "CANCELED" => r \in unsure \cup moderated
  /\ \A r \in Redemptions : record[r] = "FULFILLED" => bought[r] # None \/ r \in moderated

(* A viewer who redeems the reward of another viewer's offer is refunded    *)
(* and the offer stands (eventsub.ts:281): no redemption that bought        *)
(* nothing takes a slot from under a quote that waits for its payment on it,*)
(* unless the quote is the redeemer's own.                                  *)
StrangerLeavesOffer ==
  [][\A w \in Workers, q \in Quotes :
       LET s == work[w].slot  r == work[w].redemption IN
       /\ work[w].at = "free" /\ work'[w] = Idle /\ r # None
       /\ slot[s] = [status |-> "RESERVED", quote |-> q] /\ slot'[s] = Free
       /\ quote[q].status = "AWAITING_REDEMPTION"
       => bought[r] # None \/ paid[r].user = Owner[q]]_vars

(* Why PaidByOwner holds: a redemption has its marker, unless that had gone;*)
(* so it is judged by one handler, and not again once it has bought, but for*)
(* those that are unsure; a handler that is about to activate has seen who  *)
(* paid and how much; and a purchase stays on record as it is until Twitch  *)
(* has settled it.                                                          *)
Ats == {"idle", "lease", "show", "attach", "release", "free", "degraded", "CANCELED", "EXPIRED",
        "look", "verdict", "refund", "stranger", "record", "recordOnly", "kill", "activate",
        "fulfil", "list", "others", "fill", "sync"}
Row == [status : Statuses \cup {"NONE"}, quote : Quotes \cup {None}]
Job == [at : Ats, quote : Quotes \cup {None}, slot : Slots \cup {None}, row : Row,
        redemption : Redemptions \cup {None}, open : BOOLEAN, refunded : BOOLEAN, todo : SUBSET Slots,
        lost : SUBSET (Slots \cup Quotes), then : {"end", "list", "others", "sync"}]
Reward == [shown : BOOLEAN, cost : Nat]
Quote == [status : Live \cup {"CANCELED", "EXPIRED", "PAID"}, slot : Slots \cup {None}]
Payment == [status : {"NONE", "UNFULFILLED", "CANCELED", "FULFILLED"},
            user : Viewers \cup {None}, cost : Nat, slot : Slots \cup {None}]
RowsAreTyped ==
  /\ slot \in [Slots -> Row] /\ reward \in [Slots -> Reward] /\ quote \in [Quotes -> Quote]
  /\ paid \in [Redemptions -> Payment]
  /\ record \in [Redemptions -> {"NONE", "CANCELED", "FAILED", "FULFILLED"}]
  /\ bought \in [Redemptions -> Quotes \cup {None}]
  /\ settings \in [size : Slots, open : BOOLEAN]
JobsAreTyped ==
  /\ work \in [Workers -> Job]
  /\ \A w \in Workers : work[w].at \in {"lease", "show"} => work[w].quote # None
PaymentsAreWhole ==
  \A r \in Redemptions :
    /\ paid[r].status # "NONE" => paid[r].user # None /\ paid[r].slot # None
    /\ r \in seen \cup unsure \/ bought[r] # None => paid[r].status # "NONE"
    /\ bought[r] # None =>
         /\ record[r] # "NONE"
         /\ record[r] = "FULFILLED" \/ ~Open(r)
    /\ paid[r].status = "FULFILLED" => bought[r] # None \/ r \in moderated
Held(w, r) == work[w].redemption = r
JudgedOnce ==
  \A r \in Redemptions :
    r \notin unsure =>
      /\ bought[r] # None => r \in seen
      /\ paid[r].status \in {"CANCELED", "FULFILLED"} => r \in seen \cup moderated
      /\ \A w \in Workers : Held(w, r) =>
           r \in seen /\ \A x \in Workers \ {w} : ~Held(x, r)
Judging == {"verdict", "activate", "refund", "stranger"}
Holding == Judging \cup {"record", "recordOnly", "kill", "fulfil"}
Knows(w) ==
  LET r == work[w].redemption IN
  /\ work[w].at \in Holding => r # None
  /\ r # None => paid[r].status # "NONE"
  /\ work[w].at \in Judging =>
       /\ bought[r] # None => r \in unsure
       /\ Open(r) \/ r \in unsure \cup moderated
  /\ work[w].at = "fulfil" => bought[r] # None
  /\ work[w].at = "activate" =>
       /\ work[w].quote # None
       /\ paid[r].user = Owner[work[w].quote] /\ paid[r].cost = Price[work[w].quote]
JudgedAsPaid == \A w \in Workers : Knows(w)
=============================================================================
