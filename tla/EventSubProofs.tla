--------------------------- MODULE EventSubProofs ---------------------------
(***************************************************************************)
(* What EventSub keeps for every number of messages, calls, sweeps and     *)
(* failures.                                                               *)
(***************************************************************************)
EXTENDS EventSub, TLAPS

(* A status update is about a redemption that is settled, wherever it is:  *)
(* on record, in a sweep's list or in a run.                               *)
SentWhenSettled == \A m \in Updates :
  \/ row[m] # "absent"
  \/ \E w \in Workers : msg[w] = m
  \/ \E s \in Sweeps : m \in todo[s]
  => twitch[RedemptionOf[m]] # "UNFULFILLED"

(* A run takes the path of its message, and what it has done is done.      *)
RunIsRight(w) ==
  /\ pc[w] \in ExchangeSteps => msg[w] \notin Updates /\ Redemption(w) \in Exchange
  /\ pc[w] \in SlotSteps => msg[w] \notin Updates /\ Redemption(w) \notin Exchange
  /\ pc[w] = "status" => msg[w] \in Updates
  /\ pc[w] = "fulfil" => Redemption(w) \in credited
  /\ pc[w] = "processed" /\ msg[w] \notin Updates /\ Redemption(w) \in Exchange => Redemption(w) \in credited
  /\ pc[w] = "keep" /\ twitch[Redemption(w)] = "UNFULFILLED" => resolution[Redemption(w)] = "FULFILLED"
  /\ pc[w] = "refunded" => twitch[Redemption(w)] = "CANCELED"
RunsAreRight == \A w \in Workers : RunIsRight(w)

(* What is proved is inductive with these.                                 *)
EventInv == TypeOK /\ SentWhenSettled /\ RunsAreRight /\ ProcessedIsCredited /\ RefundIsTrue

USE EventSubAssumption DEF Workers, RowStates, Resolutions, TwitchStates, Steps, HookSteps, ExchangeSteps,
    SlotSteps, EndSteps, Redemption, Goto, Fault, Throw, tables, cache

(* It holds at the start.                                                  *)
LEMMA InitInv == Init => EventInv
BY DEF Init, EventInv, TypeOK, SentWhenSettled, RunsAreRight, RunIsRight, ProcessedIsCredited, RefundIsTrue

(* Each action keeps it.                                                   *)
LEMMA DeliverInv == ASSUME EventInv, NEW h \in Hooks, Deliver(h) PROVE EventInv'
<1> USE DEF EventInv, Deliver
<1>1. TypeOK'
  BY DEF TypeOK, SentWhenSettled, RunsAreRight, RunIsRight
<1>2. SentWhenSettled'
  BY DEF TypeOK, SentWhenSettled
<1>3. RunsAreRight'
  BY DEF TypeOK, SentWhenSettled, RunsAreRight, RunIsRight
<1>4. ProcessedIsCredited'
  BY DEF TypeOK, RunsAreRight, RunIsRight, ProcessedIsCredited
<1>5. RefundIsTrue'
  BY DEF TypeOK, RunsAreRight, RunIsRight, RefundIsTrue
<1> QED BY <1>1, <1>2, <1>3, <1>4, <1>5

LEMMA MarkSeenInv == ASSUME EventInv, NEW h \in Hooks, MarkSeen(h) PROVE EventInv'
<1> USE DEF EventInv, MarkSeen
<1>1. TypeOK'
  BY DEF TypeOK, SentWhenSettled, RunsAreRight, RunIsRight
<1>2. SentWhenSettled'
  BY DEF TypeOK, SentWhenSettled
<1>3. RunsAreRight'
  BY DEF TypeOK, SentWhenSettled, RunsAreRight, RunIsRight
<1>4. ProcessedIsCredited'
  BY DEF TypeOK, RunsAreRight, RunIsRight, ProcessedIsCredited
<1>5. RefundIsTrue'
  BY DEF TypeOK, RunsAreRight, RunIsRight, RefundIsTrue
<1> QED BY <1>1, <1>2, <1>3, <1>4, <1>5

LEMMA InsertRowInv == ASSUME EventInv, NEW h \in Hooks, InsertRow(h) PROVE EventInv'
<1> USE DEF EventInv, InsertRow
<1>1. TypeOK'
  BY DEF TypeOK, SentWhenSettled, RunsAreRight, RunIsRight
<1>2. SentWhenSettled'
  BY DEF TypeOK, SentWhenSettled
<1>3. RunsAreRight'
  BY DEF TypeOK, SentWhenSettled, RunsAreRight, RunIsRight
<1>4. ProcessedIsCredited'
  BY DEF TypeOK, RunsAreRight, RunIsRight, ProcessedIsCredited
<1>5. RefundIsTrue'
  BY DEF TypeOK, RunsAreRight, RunIsRight, RefundIsTrue
<1> QED BY <1>1, <1>2, <1>3, <1>4, <1>5

LEMMA UndoMarkInv == ASSUME EventInv, NEW h \in Hooks, UndoMark(h) PROVE EventInv'
<1> USE DEF EventInv, UndoMark
<1>1. TypeOK'
  BY DEF TypeOK, SentWhenSettled, RunsAreRight, RunIsRight
<1>2. SentWhenSettled'
  BY DEF TypeOK, SentWhenSettled
<1>3. RunsAreRight'
  BY DEF TypeOK, SentWhenSettled, RunsAreRight, RunIsRight
<1>4. ProcessedIsCredited'
  BY DEF TypeOK, RunsAreRight, RunIsRight, ProcessedIsCredited
<1>5. RefundIsTrue'
  BY DEF TypeOK, RunsAreRight, RunIsRight, RefundIsTrue
<1> QED BY <1>1, <1>2, <1>3, <1>4, <1>5

LEMMA AnswerDuplicateInv == ASSUME EventInv, NEW h \in Hooks, AnswerDuplicate(h) PROVE EventInv'
<1> USE DEF EventInv, AnswerDuplicate
<1>1. TypeOK'
  BY DEF TypeOK, SentWhenSettled, RunsAreRight, RunIsRight
<1>2. SentWhenSettled'
  BY DEF TypeOK, SentWhenSettled
<1>3. RunsAreRight'
  BY DEF TypeOK, SentWhenSettled, RunsAreRight, RunIsRight
<1>4. ProcessedIsCredited'
  BY DEF TypeOK, RunsAreRight, RunIsRight, ProcessedIsCredited
<1>5. RefundIsTrue'
  BY DEF TypeOK, RunsAreRight, RunIsRight, RefundIsTrue
<1> QED BY <1>1, <1>2, <1>3, <1>4, <1>5

LEMMA AnswerInv == ASSUME EventInv, NEW h \in Hooks, Answer(h) PROVE EventInv'
<1> USE DEF EventInv, Answer, FirstStep
<1>1. TypeOK'
  BY DEF TypeOK, SentWhenSettled, RunsAreRight, RunIsRight
<1>2. SentWhenSettled'
  BY DEF TypeOK, SentWhenSettled
<1>3. RunsAreRight'
  BY DEF TypeOK, SentWhenSettled, RunsAreRight, RunIsRight
<1>4. ProcessedIsCredited'
  BY DEF TypeOK, RunsAreRight, RunIsRight, ProcessedIsCredited
<1>5. RefundIsTrue'
  BY DEF TypeOK, RunsAreRight, RunIsRight, RefundIsTrue
<1> QED BY <1>1, <1>2, <1>3, <1>4, <1>5

LEMMA StartSweepInv == ASSUME EventInv, NEW s \in Sweeps, StartSweep(s) PROVE EventInv'
<1> USE DEF EventInv, StartSweep, Due, Pending
<1>1. TypeOK'
  BY DEF TypeOK, SentWhenSettled, RunsAreRight, RunIsRight
<1>2. SentWhenSettled'
  BY DEF TypeOK, SentWhenSettled
<1>3. RunsAreRight'
  BY DEF TypeOK, SentWhenSettled, RunsAreRight, RunIsRight
<1>4. ProcessedIsCredited'
  BY DEF TypeOK, RunsAreRight, RunIsRight, ProcessedIsCredited
<1>5. RefundIsTrue'
  BY DEF TypeOK, RunsAreRight, RunIsRight, RefundIsTrue
<1> QED BY <1>1, <1>2, <1>3, <1>4, <1>5

LEMMA NextRowInv == ASSUME EventInv, NEW s \in Sweeps, NextRow(s) PROVE EventInv'
<1> USE DEF EventInv, NextRow, FirstStep
<1>1. TypeOK'
  BY DEF TypeOK, SentWhenSettled, RunsAreRight, RunIsRight
<1>2. SentWhenSettled'
  BY DEF TypeOK, SentWhenSettled
<1>3. RunsAreRight'
  BY DEF TypeOK, SentWhenSettled, RunsAreRight, RunIsRight
<1>4. ProcessedIsCredited'
  BY DEF TypeOK, RunsAreRight, RunIsRight, ProcessedIsCredited
<1>5. RefundIsTrue'
  BY DEF TypeOK, RunsAreRight, RunIsRight, RefundIsTrue
<1> QED BY <1>1, <1>2, <1>3, <1>4, <1>5

LEMMA CreditFirstInv == ASSUME EventInv, NEW w \in Workers, CreditFirst(w) PROVE EventInv'
<1> USE DEF EventInv, CreditFirst, Credit
<1>1. TypeOK'
  BY DEF TypeOK, SentWhenSettled, RunsAreRight, RunIsRight
<1>2. SentWhenSettled'
  BY DEF TypeOK, SentWhenSettled
<1>3. RunsAreRight'
  BY DEF TypeOK, SentWhenSettled, RunsAreRight, RunIsRight
<1>4. ProcessedIsCredited'
  BY DEF TypeOK, RunsAreRight, RunIsRight, ProcessedIsCredited
<1>5. RefundIsTrue'
  BY DEF TypeOK, RunsAreRight, RunIsRight, RefundIsTrue
<1> QED BY <1>1, <1>2, <1>3, <1>4, <1>5

LEMMA FulfilInv == ASSUME EventInv, NEW w \in Workers, Fulfil(w) PROVE EventInv'
<1> USE DEF EventInv, Fulfil, Patch
<1>1. TypeOK'
  BY DEF TypeOK, SentWhenSettled, RunsAreRight, RunIsRight
<1>2. SentWhenSettled'
  BY DEF TypeOK, SentWhenSettled
<1>3. RunsAreRight'
  BY DEF TypeOK, SentWhenSettled, RunsAreRight, RunIsRight
<1>4. ProcessedIsCredited'
  BY DEF TypeOK, RunsAreRight, RunIsRight, ProcessedIsCredited
<1>5. RefundIsTrue'
  BY DEF TypeOK, RunsAreRight, RunIsRight, RefundIsTrue
<1> QED BY <1>1, <1>2, <1>3, <1>4, <1>5

LEMMA ClaimRedemptionInv == ASSUME EventInv, NEW w \in Workers, ClaimRedemption(w) PROVE EventInv'
<1> USE DEF EventInv, ClaimRedemption
<1>1. TypeOK'
  BY DEF TypeOK, SentWhenSettled, RunsAreRight, RunIsRight
<1>2. SentWhenSettled'
  BY DEF TypeOK, SentWhenSettled
<1>3. RunsAreRight'
  BY DEF TypeOK, SentWhenSettled, RunsAreRight, RunIsRight
<1>4. ProcessedIsCredited'
  BY DEF TypeOK, RunsAreRight, RunIsRight, ProcessedIsCredited
<1>5. RefundIsTrue'
  BY DEF TypeOK, RunsAreRight, RunIsRight, RefundIsTrue
<1> QED BY <1>1, <1>2, <1>3, <1>4, <1>5

LEMMA LockActivationInv == ASSUME EventInv, NEW w \in Workers, LockActivation(w) PROVE EventInv'
<1> USE DEF EventInv, LockActivation
<1>1. TypeOK'
  BY DEF TypeOK, SentWhenSettled, RunsAreRight, RunIsRight
<1>2. SentWhenSettled'
  BY DEF TypeOK, SentWhenSettled
<1>3. RunsAreRight'
  BY DEF TypeOK, SentWhenSettled, RunsAreRight, RunIsRight
<1>4. ProcessedIsCredited'
  BY DEF TypeOK, RunsAreRight, RunIsRight, ProcessedIsCredited
<1>5. RefundIsTrue'
  BY DEF TypeOK, RunsAreRight, RunIsRight, RefundIsTrue
<1> QED BY <1>1, <1>2, <1>3, <1>4, <1>5

LEMMA SettleInv == ASSUME EventInv, NEW w \in Workers, Settle(w) PROVE EventInv'
<1> USE DEF EventInv, Settle, SettleOr
<1>1. TypeOK'
  BY DEF TypeOK, SentWhenSettled, RunsAreRight, RunIsRight
<1>2. SentWhenSettled'
  BY DEF TypeOK, SentWhenSettled
<1>3. RunsAreRight'
  BY DEF TypeOK, SentWhenSettled, RunsAreRight, RunIsRight
<1>4. ProcessedIsCredited'
  BY DEF TypeOK, RunsAreRight, RunIsRight, ProcessedIsCredited
<1>5. RefundIsTrue'
  BY DEF TypeOK, RunsAreRight, RunIsRight, RefundIsTrue
<1> QED BY <1>1, <1>2, <1>3, <1>4, <1>5

LEMMA KeepInv == ASSUME EventInv, NEW w \in Workers, Keep(w) PROVE EventInv'
<1> USE DEF EventInv, Keep, Patch
<1>1. TypeOK'
  BY DEF TypeOK, SentWhenSettled, RunsAreRight, RunIsRight
<1>2. SentWhenSettled'
  BY DEF TypeOK, SentWhenSettled
<1>3. RunsAreRight'
  BY DEF TypeOK, SentWhenSettled, RunsAreRight, RunIsRight
<1>4. ProcessedIsCredited'
  BY DEF TypeOK, RunsAreRight, RunIsRight, ProcessedIsCredited
<1>5. RefundIsTrue'
  BY DEF TypeOK, RunsAreRight, RunIsRight, RefundIsTrue
<1> QED BY <1>1, <1>2, <1>3, <1>4, <1>5

LEMMA RefundInv == ASSUME EventInv, NEW w \in Workers, Refund(w) PROVE EventInv'
<1> USE DEF EventInv, Refund, RefundOr, Patch
<1>1. TypeOK'
  BY DEF TypeOK, SentWhenSettled, RunsAreRight, RunIsRight
<1>2. SentWhenSettled'
  BY DEF TypeOK, SentWhenSettled
<1>3. RunsAreRight'
  BY DEF TypeOK, SentWhenSettled, RunsAreRight, RunIsRight
<1>4. ProcessedIsCredited'
  BY DEF TypeOK, RunsAreRight, RunIsRight, ProcessedIsCredited
<1>5. RefundIsTrue'
  BY DEF TypeOK, RunsAreRight, RunIsRight, RefundIsTrue
<1> QED BY <1>1, <1>2, <1>3, <1>4, <1>5

LEMMA RecordInv == ASSUME EventInv, NEW w \in Workers, Record(w) PROVE EventInv'
<1> USE DEF EventInv, Record, InsertRedemption
<1>1. TypeOK'
  BY DEF TypeOK, SentWhenSettled, RunsAreRight, RunIsRight
<1>2. SentWhenSettled'
  BY DEF TypeOK, SentWhenSettled
<1>3. RunsAreRight'
  BY DEF TypeOK, SentWhenSettled, RunsAreRight, RunIsRight
<1>4. ProcessedIsCredited'
  BY DEF TypeOK, RunsAreRight, RunIsRight, ProcessedIsCredited
<1>5. RefundIsTrue'
  BY DEF TypeOK, RunsAreRight, RunIsRight, RefundIsTrue
<1> QED BY <1>1, <1>2, <1>3, <1>4, <1>5

LEMMA ReleaseInv == ASSUME EventInv, NEW w \in Workers, Release(w) PROVE EventInv'
<1> USE DEF EventInv, Release
<1>1. TypeOK'
  BY DEF TypeOK, SentWhenSettled, RunsAreRight, RunIsRight
<1>2. SentWhenSettled'
  BY DEF TypeOK, SentWhenSettled
<1>3. RunsAreRight'
  BY DEF TypeOK, SentWhenSettled, RunsAreRight, RunIsRight
<1>4. ProcessedIsCredited'
  BY DEF TypeOK, RunsAreRight, RunIsRight, ProcessedIsCredited
<1>5. RefundIsTrue'
  BY DEF TypeOK, RunsAreRight, RunIsRight, RefundIsTrue
<1> QED BY <1>1, <1>2, <1>3, <1>4, <1>5

LEMMA RecordStatusInv == ASSUME EventInv, NEW w \in Workers, RecordStatus(w) PROVE EventInv'
<1> USE DEF EventInv, RecordStatus
<1>1. TypeOK'
  BY DEF TypeOK, SentWhenSettled, RunsAreRight, RunIsRight
<1>2. SentWhenSettled'
  BY DEF TypeOK, SentWhenSettled
<1>3. RunsAreRight'
  BY DEF TypeOK, SentWhenSettled, RunsAreRight, RunIsRight
<1>4. ProcessedIsCredited'
  BY DEF TypeOK, RunsAreRight, RunIsRight, ProcessedIsCredited
<1>5. RefundIsTrue'
  BY DEF TypeOK, RunsAreRight, RunIsRight, RefundIsTrue
<1> QED BY <1>1, <1>2, <1>3, <1>4, <1>5

LEMMA MarkProcessedInv == ASSUME EventInv, NEW w \in Workers, MarkProcessed(w) PROVE EventInv'
<1> USE DEF EventInv, MarkProcessed, CountAttempt, Finish
<1>1. TypeOK'
  BY DEF TypeOK, SentWhenSettled, RunsAreRight, RunIsRight
<1>2. SentWhenSettled'
  BY DEF TypeOK, SentWhenSettled
<1>3. RunsAreRight'
  BY DEF TypeOK, SentWhenSettled, RunsAreRight, RunIsRight
<1>4. ProcessedIsCredited'
  BY DEF TypeOK, RunsAreRight, RunIsRight, ProcessedIsCredited
<1>5. RefundIsTrue'
  BY DEF TypeOK, RunsAreRight, RunIsRight, RefundIsTrue
<1> QED BY <1>1, <1>2, <1>3, <1>4, <1>5

LEMMA MarkFailedInv == ASSUME EventInv, NEW w \in Workers, MarkFailed(w) PROVE EventInv'
<1> USE DEF EventInv, MarkFailed, CountAttempt, Finish
<1>1. TypeOK'
  BY DEF TypeOK, SentWhenSettled, RunsAreRight, RunIsRight
<1>2. SentWhenSettled'
  BY DEF TypeOK, SentWhenSettled
<1>3. RunsAreRight'
  BY DEF TypeOK, SentWhenSettled, RunsAreRight, RunIsRight
<1>4. ProcessedIsCredited'
  BY DEF TypeOK, RunsAreRight, RunIsRight, ProcessedIsCredited
<1>5. RefundIsTrue'
  BY DEF TypeOK, RunsAreRight, RunIsRight, RefundIsTrue
<1> QED BY <1>1, <1>2, <1>3, <1>4, <1>5

LEMMA RowAgesInv == ASSUME EventInv, NEW m \in Messages, RowAges(m) PROVE EventInv'
<1> USE DEF EventInv, RowAges
<1>1. TypeOK'
  BY DEF TypeOK, SentWhenSettled, RunsAreRight, RunIsRight
<1>2. SentWhenSettled'
  BY DEF TypeOK, SentWhenSettled
<1>3. RunsAreRight'
  BY DEF TypeOK, SentWhenSettled, RunsAreRight, RunIsRight
<1>4. ProcessedIsCredited'
  BY DEF TypeOK, RunsAreRight, RunIsRight, ProcessedIsCredited
<1>5. RefundIsTrue'
  BY DEF TypeOK, RunsAreRight, RunIsRight, RefundIsTrue
<1> QED BY <1>1, <1>2, <1>3, <1>4, <1>5

LEMMA PruneRowInv == ASSUME EventInv, NEW m \in Messages, PruneRow(m) PROVE EventInv'
<1> USE DEF EventInv, PruneRow
<1>1. TypeOK'
  BY DEF TypeOK, SentWhenSettled, RunsAreRight, RunIsRight
<1>2. SentWhenSettled'
  BY DEF TypeOK, SentWhenSettled
<1>3. RunsAreRight'
  BY DEF TypeOK, SentWhenSettled, RunsAreRight, RunIsRight
<1>4. ProcessedIsCredited'
  BY DEF TypeOK, RunsAreRight, RunIsRight, ProcessedIsCredited
<1>5. RefundIsTrue'
  BY DEF TypeOK, RunsAreRight, RunIsRight, RefundIsTrue
<1> QED BY <1>1, <1>2, <1>3, <1>4, <1>5

LEMMA ModerateInv == ASSUME EventInv, NEW d \in Redemptions, Moderate(d) PROVE EventInv'
<1> USE DEF EventInv, Moderate, Patch
<1>1. TypeOK'
  BY DEF TypeOK, SentWhenSettled, RunsAreRight, RunIsRight
<1>2. SentWhenSettled'
  BY DEF TypeOK, SentWhenSettled
<1>3. RunsAreRight'
  BY DEF TypeOK, SentWhenSettled, RunsAreRight, RunIsRight
<1>4. ProcessedIsCredited'
  BY DEF TypeOK, RunsAreRight, RunIsRight, ProcessedIsCredited
<1>5. RefundIsTrue'
  BY DEF TypeOK, RunsAreRight, RunIsRight, RefundIsTrue
<1> QED BY <1>1, <1>2, <1>3, <1>4, <1>5

LEMMA MarkersExpireInv == ASSUME EventInv, MarkersExpire PROVE EventInv'
<1> USE DEF EventInv, MarkersExpire
<1>1. TypeOK'
  BY DEF TypeOK, SentWhenSettled, RunsAreRight, RunIsRight
<1>2. SentWhenSettled'
  BY DEF TypeOK, SentWhenSettled
<1>3. RunsAreRight'
  BY DEF TypeOK, SentWhenSettled, RunsAreRight, RunIsRight
<1>4. ProcessedIsCredited'
  BY DEF TypeOK, RunsAreRight, RunIsRight, ProcessedIsCredited
<1>5. RefundIsTrue'
  BY DEF TypeOK, RunsAreRight, RunIsRight, RefundIsTrue
<1> QED BY <1>1, <1>2, <1>3, <1>4, <1>5

LEMMA CrashInv == ASSUME EventInv, Crash PROVE EventInv'
<1> USE DEF EventInv, Crash
<1>1. TypeOK'
  BY DEF TypeOK, SentWhenSettled, RunsAreRight, RunIsRight
<1>2. SentWhenSettled'
  BY DEF TypeOK, SentWhenSettled
<1>3. RunsAreRight'
  BY DEF TypeOK, SentWhenSettled, RunsAreRight, RunIsRight
<1>4. ProcessedIsCredited'
  BY DEF TypeOK, RunsAreRight, RunIsRight, ProcessedIsCredited
<1>5. RefundIsTrue'
  BY DEF TypeOK, RunsAreRight, RunIsRight, RefundIsTrue
<1> QED BY <1>1, <1>2, <1>3, <1>4, <1>5

-----------------------------------------------------------------------------
(* Every step keeps it.                                                    *)
LEMMA StepInv == EventInv /\ [Next]_vars => EventInv'
<1> SUFFICES ASSUME EventInv, [Next]_vars PROVE EventInv'
  OBVIOUS
<1>1. ASSUME NEW h \in Hooks, Deliver(h) \/ Claim(h) PROVE EventInv'
  BY <1>1, DeliverInv, MarkSeenInv, InsertRowInv, UndoMarkInv, AnswerDuplicateInv, AnswerInv DEF Claim
<1>2. ASSUME NEW s \in Sweeps, StartSweep(s) \/ NextRow(s) PROVE EventInv'
  BY <1>2, StartSweepInv, NextRowInv
<1>3. ASSUME NEW w \in Workers, Run(w) PROVE EventInv'
  BY <1>3, CreditFirstInv, FulfilInv, ClaimRedemptionInv, LockActivationInv, SettleInv, KeepInv,
     RefundInv, RecordInv, ReleaseInv, RecordStatusInv, MarkProcessedInv, MarkFailedInv DEF Run
<1>4. ASSUME NEW m \in Messages, RowAges(m) \/ PruneRow(m) PROVE EventInv'
  BY <1>4, RowAgesInv, PruneRowInv
<1>5. ASSUME NEW d \in Redemptions, Moderate(d) PROVE EventInv'
  BY <1>5, ModerateInv
<1>6. CASE UNCHANGED vars
  BY <1>6 DEF vars, EventInv, TypeOK, SentWhenSettled, RunsAreRight, RunIsRight, ProcessedIsCredited, RefundIsTrue
<1> QED BY <1>1, <1>2, <1>3, <1>4, <1>5, <1>6, MarkersExpireInv, CrashInv DEF Next

(* The inductive invariant of the module.                                  *)
THEOREM EventInvIsInvariant == Spec => []EventInv
<1>1. EventInv /\ [Next]_vars => EventInv'
  BY StepInv
<1> QED BY InitInv, <1>1, PTL DEF Spec

(* Every variable keeps its type, a run its path: the record of a          *)
(* redemption never takes a status Twitch does not end with.               *)
THEOREM EventTypeCorrect == Spec => []TypeOK
<1>1. EventInv => TypeOK
  BY DEF EventInv
<1> QED BY EventInvIsInvariant, <1>1, PTL

(* An exchange whose event is done is credited, for any number of          *)
(* deliveries, sweeps, crashes and errors.                                 *)
THEOREM DoneExchangeIsCredited == Spec => []ProcessedIsCredited
<1>1. EventInv => ProcessedIsCredited
  BY DEF EventInv
<1> QED BY EventInvIsInvariant, <1>1, PTL

(* Nothing is on record as refunded that Twitch did not give back.         *)
THEOREM RecordedRefundIsTrue == Spec => []RefundIsTrue
<1>1. EventInv => RefundIsTrue
  BY DEF EventInv
<1> QED BY EventInvIsInvariant, <1>1, PTL

(* Only three actions settle a redemption at Twitch; the server's two do   *)
(* it where what the points bought is booked.                              *)
LEMMA StepBuys == ASSUME EventInv, [Next]_vars, NEW d \in Redemptions, KeptByServer(d)
                  PROVE  IF d \in Exchange THEN d \in credited ELSE resolution[d] = "FULFILLED"
<1> USE DEF EventInv, KeptByServer
<1>1. ASSUME NEW w \in Workers, Fulfil(w) PROVE d \in Exchange /\ d \in credited
  BY <1>1 DEF Fulfil, Patch, TypeOK, RunsAreRight, RunIsRight
<1>2. ASSUME NEW w \in Workers, Keep(w) PROVE d \notin Exchange /\ resolution[d] = "FULFILLED"
  BY <1>2 DEF Keep, Patch, TypeOK, RunsAreRight, RunIsRight
<1>3. ASSUME NEW w \in Workers, Refund(w) PROVE FALSE
  BY <1>3 DEF Refund, RefundOr, Patch, TypeOK
<1>4. ASSUME NEW e \in Redemptions, Moderate(e) PROVE FALSE
  BY <1>4 DEF Moderate
<1>5. CASE UNCHANGED twitch
  BY <1>5
<1>6. UNCHANGED twitch \/ (\E w \in Workers : Fulfil(w) \/ Keep(w) \/ Refund(w)) \/ \E e \in Redemptions : Moderate(e)
  <2>1. ASSUME NEW h \in Hooks, Deliver(h) \/ Claim(h) PROVE UNCHANGED twitch
    BY <2>1 DEF Deliver, Claim, MarkSeen, InsertRow, UndoMark, AnswerDuplicate, Answer
  <2>2. ASSUME NEW s \in Sweeps, StartSweep(s) \/ NextRow(s) PROVE UNCHANGED twitch
    BY <2>2 DEF StartSweep, NextRow
  <2>3. ASSUME NEW w \in Workers, Run(w) PROVE UNCHANGED twitch \/ Fulfil(w) \/ Keep(w) \/ Refund(w)
    BY <2>3 DEF Run, CreditFirst, Credit, ClaimRedemption, LockActivation, Settle, SettleOr, Record, Release,
                RecordStatus, MarkProcessed, MarkFailed
  <2>4. ASSUME NEW m \in Messages, RowAges(m) \/ PruneRow(m) PROVE UNCHANGED twitch
    BY <2>4 DEF RowAges, PruneRow
  <2>5. MarkersExpire \/ Crash \/ UNCHANGED vars => UNCHANGED twitch
    BY DEF MarkersExpire, Crash, vars
  <2> QED BY <2>1, <2>2, <2>3, <2>4, <2>5 DEF Next
<1> QED BY <1>1, <1>2, <1>3, <1>4, <1>5, <1>6

(* The server keeps no viewer's points for nothing.                        *)
THEOREM PointsAlwaysBuySomething == Spec => PointsBuySomething
<1>1. EventInv /\ [Next]_vars => [\A d \in Redemptions :
        KeptByServer(d) => IF d \in Exchange THEN d \in credited ELSE resolution[d] = "FULFILLED"]_vars
  BY StepBuys
<1> QED BY EventInvIsInvariant, <1>1, PTL DEF Spec, PointsBuySomething

(* What is on record of a redemption changes only to what Twitch says.     *)
LEMMA StepFollows == ASSUME EventInv, [Next]_vars, NEW d \in Redemptions, resolution[d] # "none", resolution'[d] # resolution[d]
                     PROVE  resolution'[d] = twitch[d]
<1> USE DEF EventInv
<1>1. ASSUME NEW w \in Workers, Settle(w) PROVE FALSE
  BY <1>1 DEF Settle, SettleOr, TypeOK
<1>2. ASSUME NEW w \in Workers, Record(w) PROVE FALSE
  BY <1>2 DEF Record, InsertRedemption, TypeOK
<1>3. ASSUME NEW w \in Workers, RecordStatus(w) PROVE resolution'[d] = twitch[d]
  BY <1>3 DEF RecordStatus, TypeOK
<1>4. UNCHANGED resolution \/ \E w \in Workers : Settle(w) \/ Record(w) \/ RecordStatus(w)
  <2>1. ASSUME NEW h \in Hooks, Deliver(h) \/ Claim(h) PROVE UNCHANGED resolution
    BY <2>1 DEF Deliver, Claim, MarkSeen, InsertRow, UndoMark, AnswerDuplicate, Answer
  <2>2. ASSUME NEW s \in Sweeps, StartSweep(s) \/ NextRow(s) PROVE UNCHANGED resolution
    BY <2>2 DEF StartSweep, NextRow
  <2>3. ASSUME NEW w \in Workers, Run(w) PROVE UNCHANGED resolution \/ Settle(w) \/ Record(w) \/ RecordStatus(w)
    BY <2>3 DEF Run, CreditFirst, Credit, Fulfil, ClaimRedemption, LockActivation, Keep, Refund, RefundOr, Release,
                MarkProcessed, MarkFailed
  <2>4. ASSUME NEW m \in Messages, RowAges(m) \/ PruneRow(m) PROVE UNCHANGED resolution
    BY <2>4 DEF RowAges, PruneRow
  <2>5. MarkersExpire \/ Crash \/ (\E e \in Redemptions : Moderate(e)) \/ UNCHANGED vars => UNCHANGED resolution
    BY DEF MarkersExpire, Crash, Moderate, vars
  <2> QED BY <2>1, <2>2, <2>3, <2>4, <2>5 DEF Next
<1> QED BY <1>1, <1>2, <1>3, <1>4

(* A second run of an event does not rewrite what the first recorded.      *)
THEOREM RecordAlwaysFollowsTwitch == Spec => RecordFollowsTwitch
<1>1. EventInv /\ [Next]_vars => [\A d \in Redemptions :
        resolution[d] # "none" /\ resolution'[d] # resolution[d] => resolution'[d] = twitch[d]]_vars
  BY StepFollows
<1> QED BY EventInvIsInvariant, <1>1, PTL DEF Spec, RecordFollowsTwitch
=============================================================================
