------------------------- MODULE ExchangeTermsProofs -------------------------
(***************************************************************************)
(* What the lock of the exchange reward gives for every number of syncs,   *)
(* saves and failures, as long as it outlives its holder's work.           *)
(***************************************************************************)
EXTENDS ExchangeTerms, TLAPS

(* A reward of an edited cost is a reward.                                 *)
LEMMA EditedReward ==
  ASSUME NEW C, C \subseteq Nat, NEW n \in Nat, NEW edited \in [id : {1}, cost : C, rate : {n}]
  PROVE  edited \in [id : Nat, cost : Nat, rate : Nat]
<1>1. edited = [id |-> edited.id, cost |-> edited.cost, rate |-> edited.rate]
  OBVIOUS
<1>2. edited.id = 1 /\ edited.cost \in C /\ edited.rate = n
  OBVIOUS
<1>3. edited.cost \in Nat
  BY <1>2, Zenon
<1> QED BY <1>1, <1>2, <1>3

USE TermsAssumption DEF Requests, Locked, TermsSaves, Fields, Steps, Goto, Fault, stored, twitch, local

(* A patch merged over settings gives settings.                            *)
LEMMA MergedSettings ==
  ASSUME NEW s \in Saves, NEW settings \in Settings PROVE Merged(settings, Patch[s]) \in Settings
BY DEF Merged, Settings

(* So what a request wants the reward to say is a cost and a rate.         *)
LEMMA WantedTerms ==
  ASSUME TypeOK, NEW r \in Locked PROVE Wanted(r)["cost"] \in Nat /\ Wanted(r)["rate"] \in Nat
<1>1. snap[r] \in Settings
  BY DEF TypeOK
<1>2. Wanted(r) \in Settings
  BY <1>1, MergedSettings DEF Wanted
<1> QED BY <1>2 DEF Settings

(* A PATCH leaves a reward with its id.                                    *)
LEMMA PatchedReward ==
  ASSUME TypeOK, NEW r \in Locked, IsLive(target[r]),
         live' = Patched(r)
  PROVE  live' \in Rewards /\ live'.id = live.id /\ live' # Nothing
<1>1. live \in Rewards
  BY DEF IsLive, TypeOK
<1>2. live' \in Rewards /\ live'.id = live.id
  BY <1>1, WantedTerms DEF Patched, Rewards
<1>3. Nothing \notin Rewards
  BY DEF Rewards
<1> QED BY <1>2, <1>3

(* Whatever a request does with the settings it has read keeps the types.  *)
LEMMA GotSettingsType ==
  ASSUME TypeOK, NEW r \in Requests, NEW settings \in Settings, GotSettings(r, settings)
  PROVE  /\ snap' \in [Requests -> Settings] /\ pc' \in [Requests -> Steps]
         /\ goal' \in [Requests -> {"terms", "save", "answer"}]
         /\ reply' \in [Requests -> {"none", "ok", "busy", "error"}]
         /\ \A q \in Requests : /\ pc'[q] \in {"keep", "record"} => told[q] # Nothing
                                /\ pc'[q] \in {"store", "publish"} => goal'[q] = "save"
                                /\ goal'[q] = "save" => q \in Saves
                                /\ goal'[q] = "terms" => q \in Locked
<1> USE DEF TypeOK, GotSettings
<1>1. CASE goal[r] = "answer"
  BY <1>1 DEF Answer
<1>2. CASE goal[r] = "save"
  BY <1>2
<1>3. CASE goal[r] = "terms"
  BY <1>3 DEF SaveNext, AsksTwitch
<1> QED BY <1>1, <1>2, <1>3

(* Each step keeps the types.                                              *)
LEMMA TypeStep == ASSUME TypeOK, [Next]_vars PROVE TypeOK'
<1>1. ASSUME NEW r \in Locked, AcquireLock(r) PROVE TypeOK'
  BY <1>1 DEF AcquireLock, TypeOK
<1>2. ASSUME NEW r \in Locked, GiveUpWaiting(r) PROVE TypeOK'
  BY <1>2 DEF GiveUpWaiting, TypeOK, Answer
<1>3. ASSUME NEW r \in Locked, ReadRewardRow(r) PROVE TypeOK'
  BY <1>3 DEF ReadRewardRow, TypeOK, SaveNext
<1>4. ASSUME NEW r \in Locked, PatchReward(r) PROVE TypeOK'
  <2> USE <1>4 DEF PatchReward, TypeOK
  <2>1. IsLive(target[r]) => live' \in Rewards /\ live' # Nothing
    BY PatchedReward
  <2>2. live' \in Rewards \union {Nothing}
    BY <2>1
  <2>3. CASE pc'[r] = "record" /\ told' = [told EXCEPT ![r] = live'] /\ UNCHANGED <<reply, goal, faults>>
    BY <2>1, <2>2, <2>3 DEF Fails, Caught, SaveNext, Answer
  <2>4. CASE Fails(r) /\ UNCHANGED told
    BY <2>1, <2>4 DEF Fails, Caught, SaveNext, Answer
  <2> QED BY <2>1, <2>3, <2>4
<1>5. ASSUME NEW r \in Locked, RecordReward(r) PROVE TypeOK'
  BY <1>5 DEF RecordReward, TypeOK, Answer, SaveNext, Rewards
<1>6. ASSUME NEW r \in Locked, Unlock(r) PROVE TypeOK'
  <2> USE <1>6 DEF Unlock, TypeOK
  <2>1. snap' \in [Requests -> Settings] /\ target' \in [Requests -> Nat]
    OBVIOUS
  <2>2. told' \in [Requests -> Rewards \union {Nothing}] /\ pc' \in [Requests -> Steps]
    OBVIOUS
  <2>3. lock' \in Locked \union {Nothing}
    OBVIOUS
  <2> QED BY <2>1, <2>2, <2>3
<1>7. ASSUME NEW r \in Requests, ReadCache(r) PROVE TypeOK'
  <2> USE <1>7 DEF ReadCache, TypeOK
  <2>1. CASE GotSettings(r, cache) /\ cache # Nothing
    BY <2>1, GotSettingsType
  <2>2. CASE pc' = [pc EXCEPT ![r] = "select"] /\ UNCHANGED <<snap, reply, goal>>
    BY <2>2
  <2> QED BY <2>1, <2>2
<1>8. ASSUME NEW r \in Requests, SelectSettings(r) PROVE TypeOK'
  BY <1>8 DEF SelectSettings, TypeOK
<1>9. ASSUME NEW r \in Requests, RefillCache(r) PROVE TypeOK'
  BY <1>9, GotSettingsType DEF RefillCache, TypeOK
<1>10. ASSUME NEW r \in Requests, Throws(r) PROVE TypeOK'
  BY <1>10 DEF Throws, TypeOK, Fails, Caught, Answer, SaveNext
<1>11. ASSUME NEW r \in Saves, StoreSettings(r) PROVE TypeOK'
  BY <1>11, MergedSettings DEF StoreSettings, TypeOK
<1>12. ASSUME NEW r \in Saves, PublishSettings(r) PROVE TypeOK'
  BY <1>12 DEF PublishSettings, TypeOK, Answer
<1>13. ASSUME NEW r \in Syncs, GetReward(r) PROVE TypeOK'
  BY <1>13 DEF GetReward, TypeOK, Reconcile, IsLive, Rewards
<1>14. ASSUME NEW r \in Syncs, DropRow(r) PROVE TypeOK'
  BY <1>14 DEF DropRow, TypeOK
<1>15. ASSUME NEW r \in Syncs, CreateReward(r) PROVE TypeOK'
  BY <1>15 DEF CreateReward, TypeOK, Fails, Caught, SaveNext, Answer, Rewards, Settings
<1>16. ASSUME NEW r \in Syncs, AdoptReward(r) PROVE TypeOK'
  BY <1>16 DEF AdoptReward, TypeOK, Fails, Caught, SaveNext, Answer
<1>17. ASSUME NEW r \in Syncs, KeepReward(r) PROVE TypeOK'
  BY <1>17 DEF KeepReward, TypeOK, Reconcile, Rewards
<1>18. ASSUME Crash PROVE TypeOK'
  BY <1>18 DEF Crash, TypeOK, FirstStep
<1>19. ASSUME LockExpires PROVE TypeOK'
  BY <1>19 DEF LockExpires, TypeOK
<1>20. ASSUME CacheExpires PROVE TypeOK'
  BY <1>20 DEF CacheExpires, TypeOK
<1>21. ASSUME EditAtTwitch PROVE TypeOK'
  BY <1>21 DEF EditAtTwitch, TypeOK, Rewards
<1>22. CASE UNCHANGED vars
  BY <1>22 DEF vars, TypeOK
<1> QED BY <1>1, <1>2, <1>3, <1>4, <1>5, <1>6, <1>7, <1>8, <1>9, <1>10, <1>11, <1>12,
       <1>13, <1>14, <1>15, <1>16, <1>17, <1>18, <1>19, <1>20, <1>21, <1>22 DEF Next

(* The types hold at the start.                                           *)
LEMMA InitTypes == Init => TypeOK
<1> SUFFICES ASSUME Init PROVE TypeOK
  OBVIOUS
<1>1. live \in Rewards \union {Nothing}
  <2>1. Default["rate"] \in Nat
    BY DEF Settings
  <2>2. live = Nothing \/ live \in [id : {1}, cost : Costs, rate : {Default["rate"]}]
    BY DEF Init
  <2> QED BY <2>1, <2>2, EditedReward DEF Rewards
<1>2. reward \in [id : Nat, cost : Nat] \union {Nothing}
  BY DEF Init, Settings
<1>3. row \in Settings /\ cache \in Settings \union {Nothing} /\ snap \in [Requests -> Settings]
  BY DEF Init
<1>4. pc \in [Requests -> Steps] /\ goal \in [Requests -> {"terms", "save", "answer"}]
  BY DEF Init, FirstStep, FirstGoal
<1>5. \A r \in Requests : /\ pc[r] \in {"keep", "record"} => told[r] # Nothing
                          /\ pc[r] \in {"store", "publish"} => goal[r] = "save"
                          /\ goal[r] = "save" => r \in Saves
                          /\ goal[r] = "terms" => r \in Locked
  BY DEF Init, FirstStep, FirstGoal
<1>6. /\ created \in Nat /\ target \in [Requests -> Nat]
      /\ told \in [Requests -> Rewards \union {Nothing}]
      /\ reply \in [Requests -> {"none", "ok", "busy", "error"}]
  BY DEF Init
<1>7. lock \in Locked \union {Nothing} /\ faults \in 0 .. MaxFaults /\ edits \in 0 .. MaxEdits
  BY DEF Init
<1> QED BY <1>1, <1>2, <1>3, <1>4, <1>5, <1>6, <1>7 DEF TypeOK

(* Types are kept, and nobody is asked to write settings but a save.       *)
THEOREM TermsTypeCorrect == Spec => []TypeOK
BY InitTypes, TypeStep, PTL DEF Spec


-----------------------------------------------------------------------------
(* As long as the lock outlives its holder's work, whoever is past the     *)
(* lock holds it.                                                          *)
OneWorker == \A r \in Locked : pc[r] \notin {"lock", "done"} => lock = r

(* What the holder knows of the row is still so: the reward it works on is *)
(* the row's, or it found none, or found it gone.                          *)
RowIsKnown == \A r \in Locked :
  /\ pc[r] \in {"get", "drop", "patch", "record"} => reward # Nothing /\ reward.id = target[r]
  /\ pc[r] = "drop" => ~IsLive(target[r])
  /\ pc[r] \in {"create", "adopt", "keep"} => reward = Nothing
  /\ pc[r] = "record" => told[r].id = target[r]

(* A new reward has an id that was never seen.                             *)
IdsAreOld ==
  /\ reward # Nothing => reward.id <= created
  /\ live # Nothing => live.id <= created
  /\ \A r \in Requests : told[r] # Nothing => told[r].id <= created

RewardInv == TypeOK /\ OneWorker /\ RowIsKnown /\ IdsAreOld

(* The lock keeps its holder the only one at work, since it never expires  *)
(* under it.                                                               *)
LEMMA OneWorkerStep == ASSUME ~Perishable, TypeOK, OneWorker, [Next]_vars PROVE OneWorker'
<1> USE DEF OneWorker, TypeOK
<1>1. ASSUME NEW r \in Locked, AcquireLock(r) PROVE OneWorker'
  BY <1>1 DEF AcquireLock
<1>2. ASSUME NEW r \in Locked, GiveUpWaiting(r) PROVE OneWorker'
  BY <1>2 DEF GiveUpWaiting, Answer
<1>3. ASSUME NEW r \in Locked, ReadRewardRow(r) PROVE OneWorker'
  BY <1>3 DEF ReadRewardRow, SaveNext
<1>4. ASSUME NEW r \in Locked, PatchReward(r) PROVE OneWorker'
  BY <1>4 DEF PatchReward, Fails, SaveNext, Answer
<1>5. ASSUME NEW r \in Locked, RecordReward(r) PROVE OneWorker'
  BY <1>5 DEF RecordReward, Answer, SaveNext
<1>6. ASSUME NEW r \in Locked, Unlock(r) PROVE OneWorker'
  BY <1>6 DEF Unlock
<1>7. ASSUME NEW r \in Requests, ReadCache(r) PROVE OneWorker'
  BY <1>7 DEF ReadCache, GotSettings, Answer, SaveNext
<1>8. ASSUME NEW r \in Requests, SelectSettings(r) PROVE OneWorker'
  BY <1>8 DEF SelectSettings
<1>9. ASSUME NEW r \in Requests, RefillCache(r) PROVE OneWorker'
  BY <1>9 DEF RefillCache, GotSettings, Answer, SaveNext
<1>10. ASSUME NEW r \in Requests, Throws(r) PROVE OneWorker'
  BY <1>10 DEF Throws, Fails, Caught, Answer, SaveNext
<1>11. ASSUME NEW s \in Saves, StoreSettings(s) PROVE OneWorker'
  BY <1>11 DEF StoreSettings
<1>12. ASSUME NEW s \in Saves, PublishSettings(s) PROVE OneWorker'
  BY <1>12 DEF PublishSettings, Answer
<1>13. ASSUME NEW y \in Syncs, GetReward(y) PROVE OneWorker'
  BY <1>13 DEF GetReward, Reconcile
<1>14. ASSUME NEW y \in Syncs, DropRow(y) PROVE OneWorker'
  BY <1>14 DEF DropRow
<1>15. ASSUME NEW y \in Syncs, CreateReward(y) PROVE OneWorker'
  BY <1>15 DEF CreateReward, Fails, SaveNext, Answer
<1>16. ASSUME NEW y \in Syncs, AdoptReward(y) PROVE OneWorker'
  BY <1>16 DEF AdoptReward, Fails, SaveNext, Answer
<1>17. ASSUME NEW y \in Syncs, KeepReward(y) PROVE OneWorker'
  BY <1>17 DEF KeepReward, Reconcile
<1>18. ASSUME Crash PROVE OneWorker'
  BY <1>18 DEF Crash, FirstStep
<1>19. ASSUME LockExpires PROVE OneWorker'
  BY <1>19 DEF LockExpires
<1>20. ASSUME CacheExpires PROVE OneWorker'
  BY <1>20 DEF CacheExpires
<1>21. ASSUME EditAtTwitch PROVE OneWorker'
  BY <1>21 DEF EditAtTwitch
<1>22. CASE UNCHANGED vars
  BY <1>22 DEF vars
<1> QED
  BY <1>1, <1>2, <1>3, <1>4, <1>5, <1>6, <1>7, <1>8, <1>9, <1>10, <1>11, <1>12,
     <1>13, <1>14, <1>15, <1>16, <1>17, <1>18, <1>19, <1>20, <1>21, <1>22 DEF Next

(* So nobody else moves the row that the holder knows, and a reward that   *)
(* is gone from Twitch stays gone: a new one has a new id.                 *)
LEMMA RowStep ==
  ASSUME TypeOK, OneWorker, RowIsKnown, IdsAreOld, [Next]_vars
  PROVE  RowIsKnown' /\ IdsAreOld'
<1> USE DEF TypeOK, OneWorker, RowIsKnown, IdsAreOld, IsLive, Rewards
<1>1. ASSUME NEW r \in Locked, AcquireLock(r) PROVE RowIsKnown' /\ IdsAreOld'
  BY <1>1 DEF AcquireLock
<1>2. ASSUME NEW r \in Locked, GiveUpWaiting(r) PROVE RowIsKnown' /\ IdsAreOld'
  BY <1>2 DEF GiveUpWaiting, Answer
<1>3. ASSUME NEW r \in Locked, ReadRewardRow(r) PROVE RowIsKnown' /\ IdsAreOld'
  BY <1>3 DEF ReadRewardRow, SaveNext
<1>4. ASSUME NEW r \in Locked, PatchReward(r) PROVE RowIsKnown' /\ IdsAreOld'
  <2> USE <1>4 DEF PatchReward
  <2>1. CASE ~IsLive(target[r])
    BY <2>1 DEF Fails, SaveNext, Answer
  <2>2. CASE IsLive(target[r])
    <3>1. live' = Patched(r)
      BY <2>2
    <3>2. live' \in Rewards /\ live'.id = live.id /\ live' # Nothing
      BY <2>2, <3>1, PatchedReward
    <3>3. CASE pc' = [pc EXCEPT ![r] = "record"] /\ told' = [told EXCEPT ![r] = live']
      BY <2>2, <3>2, <3>3
    <3>4. CASE Fails(r) /\ UNCHANGED told
      BY <2>2, <3>2, <3>4 DEF Fails, SaveNext, Answer
    <3> QED BY <2>2, <3>3, <3>4
  <2> QED BY <2>1, <2>2
<1>5. ASSUME NEW r \in Locked, RecordReward(r) PROVE RowIsKnown' /\ IdsAreOld'
  BY <1>5 DEF RecordReward, Answer, SaveNext
<1>6. ASSUME NEW r \in Locked, Unlock(r) PROVE RowIsKnown' /\ IdsAreOld'
  BY <1>6 DEF Unlock
<1>7. ASSUME NEW r \in Requests, ReadCache(r) PROVE RowIsKnown' /\ IdsAreOld'
  BY <1>7 DEF ReadCache, GotSettings, Answer, SaveNext
<1>8. ASSUME NEW r \in Requests, SelectSettings(r) PROVE RowIsKnown' /\ IdsAreOld'
  BY <1>8 DEF SelectSettings
<1>9. ASSUME NEW r \in Requests, RefillCache(r) PROVE RowIsKnown' /\ IdsAreOld'
  BY <1>9 DEF RefillCache, GotSettings, Answer, SaveNext
<1>10. ASSUME NEW r \in Requests, Throws(r) PROVE RowIsKnown' /\ IdsAreOld'
  BY <1>10 DEF Throws, Fails, Answer, SaveNext
<1>11. ASSUME NEW s \in Saves, StoreSettings(s) PROVE RowIsKnown' /\ IdsAreOld'
  BY <1>11 DEF StoreSettings
<1>12. ASSUME NEW s \in Saves, PublishSettings(s) PROVE RowIsKnown' /\ IdsAreOld'
  BY <1>12 DEF PublishSettings, Answer
<1>13. ASSUME NEW y \in Syncs, GetReward(y) PROVE RowIsKnown' /\ IdsAreOld'
  BY <1>13 DEF GetReward, Reconcile
<1>14. ASSUME NEW y \in Syncs, DropRow(y) PROVE RowIsKnown' /\ IdsAreOld'
  BY <1>14 DEF DropRow
<1>15. ASSUME NEW y \in Syncs, CreateReward(y) PROVE RowIsKnown' /\ IdsAreOld'
  BY <1>15 DEF CreateReward, Fails, SaveNext, Answer
<1>16. ASSUME NEW y \in Syncs, AdoptReward(y) PROVE RowIsKnown' /\ IdsAreOld'
  BY <1>16 DEF AdoptReward, Fails, SaveNext, Answer
<1>17. ASSUME NEW y \in Syncs, KeepReward(y) PROVE RowIsKnown' /\ IdsAreOld'
  BY <1>17 DEF KeepReward, Reconcile
<1>18. ASSUME Crash PROVE RowIsKnown' /\ IdsAreOld'
  BY <1>18 DEF Crash, FirstStep
<1>19. ASSUME LockExpires PROVE RowIsKnown' /\ IdsAreOld'
  BY <1>19 DEF LockExpires
<1>20. ASSUME CacheExpires PROVE RowIsKnown' /\ IdsAreOld'
  BY <1>20 DEF CacheExpires
<1>21. ASSUME EditAtTwitch PROVE RowIsKnown' /\ IdsAreOld'
  BY <1>21 DEF EditAtTwitch
<1>22. CASE UNCHANGED vars
  BY <1>22 DEF vars
<1> QED
  BY <1>1, <1>2, <1>3, <1>4, <1>5, <1>6, <1>7, <1>8, <1>9, <1>10, <1>11, <1>12,
     <1>13, <1>14, <1>15, <1>16, <1>17, <1>18, <1>19, <1>20, <1>21, <1>22 DEF Next

(* Three statements write the row.  A sync drops it when Twitch has just   *)
(* said the reward is gone, keeps a new one where there was none, and      *)
(* records, like a save, the reward the row already names.                 *)
LEMMA RewardChanges ==
  ASSUME RewardInv, [Next]_vars, reward # Nothing, IsLive(reward.id)
  PROVE  reward' # Nothing /\ reward'.id = reward.id
<1> USE DEF RewardInv, TypeOK, OneWorker, RowIsKnown
<1>1. ASSUME NEW r \in Locked, RecordReward(r) PROVE reward' # Nothing /\ reward'.id = reward.id
  BY <1>1 DEF RecordReward, Rewards
<1>2. ASSUME NEW y \in Syncs, DropRow(y) \/ KeepReward(y) PROVE FALSE
  BY <1>2 DEF DropRow, KeepReward
<1>3. CASE UNCHANGED reward
  BY <1>3
<1> QED
  BY <1>1, <1>2, <1>3
  DEF Next, vars, AcquireLock, GiveUpWaiting, ReadRewardRow, PatchReward, Unlock, ReadCache,
      SelectSettings, RefillCache, Throws, StoreSettings, PublishSettings, GetReward,
      CreateReward, AdoptReward, Crash, LockExpires, CacheExpires, EditAtTwitch

(* While the lock outlives its holder's work, the id of a reward that      *)
(* viewers can redeem is never lost, however often syncs and saves meet,   *)
(* fail or die.                                                            *)
THEOREM LiveRewardIsKept == ~Perishable => (Spec => RewardIsKept)
<1> SUFFICES ASSUME ~Perishable PROVE Spec => RewardIsKept
  OBVIOUS
<1>1. Init => RewardInv
  <2> SUFFICES ASSUME Init PROVE OneWorker /\ RowIsKnown /\ IdsAreOld
    BY InitTypes DEF RewardInv
  <2>1. OneWorker /\ RowIsKnown
    BY DEF Init, FirstStep, OneWorker, RowIsKnown
  <2>2. IdsAreOld
    BY DEF Init, IdsAreOld
  <2> QED BY <2>1, <2>2
<1>2. RewardInv /\ [Next]_vars => RewardInv'
  BY TypeStep, OneWorkerStep, RowStep DEF RewardInv
<1>3. RewardInv /\ [Next]_vars => [(reward # Nothing /\ live # Nothing /\ live.id = reward.id) =>
                                      reward' # Nothing /\ reward'.id = reward.id]_vars
  <2> SUFFICES ASSUME RewardInv, [Next]_vars, reward # Nothing, IsLive(reward.id)
               PROVE  reward' # Nothing /\ reward'.id = reward.id
    BY DEF IsLive
  <2> QED BY RewardChanges
<1> QED BY <1>1, <1>2, <1>3, PTL DEF Spec, RewardIsKept

-----------------------------------------------------------------------------
(* As long as the streamer edits nothing, what the holder of the lock was  *)
(* shown of the reward is how the reward is, and what a sync records is as *)
(* its settings say.                                                       *)
ShownIsLive == \A r \in Locked :
  /\ edits = 0 /\ (pc[r] \in {"keep", "record"} \/ (pc[r] = "patch" /\ r \in Syncs)) =>
       live # Nothing /\ told[r] = live
  /\ edits = 0 /\ pc[r] = "record" /\ r \in Syncs => InLine(r, told[r])

(* Only a read of the settings answers with them.                          *)
GoalIsOwn == \A r \in Locked : goal[r] # "answer"

(* Once a sync has ended well, the row is of the live reward, and carries  *)
(* its cost unless the holder of the lock is about to record it.           *)
RowIsInLine ==
  faults = 0 /\ edits = 0 /\ (\E y \in Syncs : reply[y] = "ok") =>
    /\ reward # Nothing /\ live # Nothing /\ reward.id = live.id
    /\ reward.cost = live.cost \/ \E r \in Locked : pc[r] = "record"

(* What is proved to be inductive.                                         *)
TermsInv == RewardInv /\ ShownIsLive /\ GoalIsOwn /\ RowIsInLine

(* Who reads the settings only to answer with them never asks the lock.    *)
LEMMA GoalStep ==
  ASSUME ~Perishable, TermsInv, [Next]_vars PROVE GoalIsOwn'
<1> USE DEF TermsInv, RewardInv, TypeOK, OneWorker, GoalIsOwn
<1>1. ASSUME NEW r \in Locked, AcquireLock(r) PROVE GoalIsOwn'
  BY <1>1 DEF AcquireLock
<1>2. ASSUME NEW r \in Locked, GiveUpWaiting(r) PROVE GoalIsOwn'
  BY <1>2 DEF GiveUpWaiting, Answer
<1>3. ASSUME NEW r \in Locked, ReadRewardRow(r) PROVE GoalIsOwn'
  BY <1>3 DEF ReadRewardRow, SaveNext
<1>4. ASSUME NEW r \in Locked, PatchReward(r) PROVE GoalIsOwn'
  BY <1>4 DEF PatchReward, Fails, Caught, SaveNext, Answer, Patched, Sends
<1>5. ASSUME NEW r \in Locked, RecordReward(r) PROVE GoalIsOwn'
  BY <1>5 DEF RecordReward, Answer, SaveNext
<1>6. ASSUME NEW r \in Locked, Unlock(r) PROVE GoalIsOwn'
  BY <1>6 DEF Unlock
<1>7. ASSUME NEW r \in Requests, ReadCache(r) PROVE GoalIsOwn'
  BY <1>7 DEF ReadCache, GotSettings, Answer, SaveNext
<1>8. ASSUME NEW r \in Requests, SelectSettings(r) PROVE GoalIsOwn'
  BY <1>8 DEF SelectSettings
<1>9. ASSUME NEW r \in Requests, RefillCache(r) PROVE GoalIsOwn'
  BY <1>9 DEF RefillCache, GotSettings, Answer, SaveNext
<1>10. ASSUME NEW r \in Requests, Throws(r) PROVE GoalIsOwn'
  BY <1>10 DEF Throws, Fails, Caught, Answer, SaveNext
<1>11. ASSUME NEW s \in Saves, StoreSettings(s) PROVE GoalIsOwn'
  BY <1>11 DEF StoreSettings
<1>12. ASSUME NEW s \in Saves, PublishSettings(s) PROVE GoalIsOwn'
  BY <1>12 DEF PublishSettings, Answer
<1>13. ASSUME NEW y \in Syncs, GetReward(y) PROVE GoalIsOwn'
  BY <1>13 DEF GetReward, Reconcile
<1>14. ASSUME NEW y \in Syncs, DropRow(y) PROVE GoalIsOwn'
  BY <1>14 DEF DropRow
<1>15. ASSUME NEW y \in Syncs, CreateReward(y) PROVE GoalIsOwn'
  BY <1>15 DEF CreateReward, Fails, Caught, SaveNext, Answer
<1>16. ASSUME NEW y \in Syncs, AdoptReward(y) PROVE GoalIsOwn'
  BY <1>16 DEF AdoptReward, Fails, Caught, SaveNext, Answer
<1>17. ASSUME NEW y \in Syncs, KeepReward(y) PROVE GoalIsOwn'
  BY <1>17 DEF KeepReward, Reconcile
<1>18. ASSUME Crash PROVE GoalIsOwn'
  BY <1>18 DEF Crash, FirstStep
<1>19. ASSUME LockExpires PROVE GoalIsOwn'
  BY <1>19 DEF LockExpires
<1>20. ASSUME CacheExpires PROVE GoalIsOwn'
  BY <1>20 DEF CacheExpires
<1>21. ASSUME EditAtTwitch PROVE GoalIsOwn'
  BY <1>21 DEF EditAtTwitch
<1>22. CASE UNCHANGED vars
  BY <1>22 DEF vars
<1> QED
  BY <1>1, <1>2, <1>3, <1>4, <1>5, <1>6, <1>7, <1>8, <1>9, <1>10, <1>11, <1>12,
     <1>13, <1>14, <1>15, <1>16, <1>17, <1>18, <1>19, <1>20, <1>21, <1>22 DEF Next

(* What a sync sends brings a reward that it has seen in line.             *)
LEMMA PatchedInLine ==
  ASSUME TypeOK, NEW y \in Syncs, IsLive(target[y]), told[y] = live, live' = Patched(y),
         told'[y] = live', UNCHANGED snap
  PROVE  InLine(y, told[y])'
<1>1. live \in Rewards /\ Wanted(y)["cost"] \in Nat /\ Wanted(y)["rate"] \in Nat /\ Syncs \intersect Saves = {}
  BY WantedTerms DEF IsLive, TypeOK
<1>2. live'.cost = Wanted(y)["cost"] /\ live'.rate = Wanted(y)["rate"]
  BY <1>1 DEF Patched, Sends, Rewards
<1>3. Wanted(y)["cost"] = snap'[y]["cost"] /\ Wanted(y)["rate"] = snap'[y]["rate"]
  BY DEF Wanted
<1>4. QED
  BY <1>2, <1>3 DEF InLine, Wanted

(* Whoever is shown the reward holds the lock, so only the streamer can    *)
(* change it before the holder is done with it.                            *)
LEMMA ShownStep ==
  ASSUME ~Perishable, TermsInv, [Next]_vars PROVE ShownIsLive'
<1> USE DEF TermsInv, RewardInv, TypeOK, OneWorker, ShownIsLive, InLine, Wanted, IsLive
<1>1. ASSUME NEW r \in Locked, AcquireLock(r) PROVE ShownIsLive'
  BY <1>1 DEF AcquireLock
<1>2. ASSUME NEW r \in Locked, GiveUpWaiting(r) PROVE ShownIsLive'
  BY <1>2 DEF GiveUpWaiting, Answer
<1>3. ASSUME NEW r \in Locked, ReadRewardRow(r) PROVE ShownIsLive'
  BY <1>3 DEF ReadRewardRow, SaveNext
<1>4. ASSUME NEW r \in Locked, PatchReward(r) PROVE ShownIsLive'
  <2> USE <1>4 DEF PatchReward
  <2>1. \A p \in Locked \ {r} : pc'[p] = pc[p] /\ pc[p] \in {"lock", "done"}
    BY DEF Fails, SaveNext, Answer
  <2>2. CASE Fails(r)
    BY <2>1, <2>2 DEF Fails, SaveNext, Answer
  <2>3. CASE IsLive(target[r]) /\ live' = Patched(r) /\ told' = [told EXCEPT ![r] = live'] /\ pc' = [pc EXCEPT ![r] = "record"]
    <3>1. live' # Nothing
      BY <2>3, PatchedReward
    <3>2. told'[r] = live' /\ pc'[r] = "record" /\ snap' = snap /\ edits' = edits
      BY <2>3
    <3>3. edits = 0 /\ r \in Syncs => InLine(r, told[r])'
      BY <2>3, <3>2, PatchedInLine
    <3>4. ASSUME NEW p \in Locked, edits' = 0, pc'[p] \in {"keep", "record"} \/ (pc'[p] = "patch" /\ p \in Syncs)
          PROVE  /\ live' # Nothing /\ told'[p] = live'
                 /\ pc'[p] = "record" /\ p \in Syncs => InLine(p, told[p])'
      <4>1. p = r
        BY <2>1, <3>4
      <4>2. QED
        BY <3>1, <3>2, <3>3, <3>4, <4>1
    <3>5. QED
      BY <3>4
  <2>4. QED
    BY <2>2, <2>3
<1>5. ASSUME NEW r \in Locked, RecordReward(r) PROVE ShownIsLive'
  BY <1>5 DEF RecordReward, Answer, SaveNext
<1>6. ASSUME NEW r \in Locked, Unlock(r) PROVE ShownIsLive'
  BY <1>6 DEF Unlock
<1>7. ASSUME NEW r \in Requests, ReadCache(r) PROVE ShownIsLive'
  BY <1>7 DEF ReadCache, GotSettings, Answer, SaveNext
<1>8. ASSUME NEW r \in Requests, SelectSettings(r) PROVE ShownIsLive'
  BY <1>8 DEF SelectSettings
<1>9. ASSUME NEW r \in Requests, RefillCache(r) PROVE ShownIsLive'
  BY <1>9 DEF RefillCache, GotSettings, Answer, SaveNext
<1>10. ASSUME NEW r \in Requests, Throws(r) PROVE ShownIsLive'
  BY <1>10 DEF Throws, Fails, Caught, Answer, SaveNext
<1>11. ASSUME NEW s \in Saves, StoreSettings(s) PROVE ShownIsLive'
  BY <1>11 DEF StoreSettings
<1>12. ASSUME NEW s \in Saves, PublishSettings(s) PROVE ShownIsLive'
  BY <1>12 DEF PublishSettings, Answer
<1>13. ASSUME NEW y \in Syncs, GetReward(y) PROVE ShownIsLive'
  BY <1>13 DEF GetReward, Reconcile
<1>14. ASSUME NEW y \in Syncs, DropRow(y) PROVE ShownIsLive'
  BY <1>14 DEF DropRow
<1>15. ASSUME NEW y \in Syncs, CreateReward(y) PROVE ShownIsLive'
  <2> USE <1>15 DEF CreateReward
  <2>1. \A p \in Locked \ {y} : pc'[p] = pc[p] /\ pc[p] \in {"lock", "done"}
    BY DEF Fails, Caught, SaveNext, Answer
  <2>2. CASE Fails(y)
    BY <2>1, <2>2 DEF Fails, Caught, SaveNext, Answer
  <2>3. CASE UNCHANGED <<live, told, edits>> /\ pc' = [pc EXCEPT ![y] = "adopt"]
    <3>1. \A p \in Locked : pc'[p] \notin {"keep", "record", "patch"}
      BY <2>1, <2>3
    <3>2. QED
      BY <3>1
  <2>4. CASE /\ live' = [id |-> created', cost |-> snap[y]["cost"], rate |-> snap[y]["rate"]]
             /\ created' = created + 1 /\ told' = [told EXCEPT ![y] = live'] /\ pc' = [pc EXCEPT ![y] = "keep"]
    <3>1. created + 1 \in Nat /\ snap[y]["cost"] \in Nat /\ snap[y]["rate"] \in Nat
      BY DEF Settings
    <3>2. live' \in [id : Nat, cost : Nat, rate : Nat]
      BY <2>4, <3>1
    <3>3. live' # Nothing
      BY <3>2
    <3>4. told'[y] = live' /\ pc'[y] = "keep" /\ edits' = edits
      BY <2>4
    <3>5. ASSUME NEW p \in Locked, pc'[p] \in {"keep", "record", "patch"} PROVE p = y
      BY <2>1, <3>5
    <3>6. QED
      BY <3>3, <3>4, <3>5
  <2>5. QED
    BY <2>2, <2>3, <2>4
<1>16. ASSUME NEW y \in Syncs, AdoptReward(y) PROVE ShownIsLive'
  BY <1>16 DEF AdoptReward, Fails, Caught, SaveNext, Answer
<1>17. ASSUME NEW y \in Syncs, KeepReward(y) PROVE ShownIsLive'
  BY <1>17 DEF KeepReward, Reconcile
<1>18. ASSUME Crash PROVE ShownIsLive'
  BY <1>18 DEF Crash, FirstStep
<1>19. ASSUME LockExpires PROVE ShownIsLive'
  BY <1>19 DEF LockExpires
<1>20. ASSUME CacheExpires PROVE ShownIsLive'
  BY <1>20 DEF CacheExpires
<1>21. ASSUME EditAtTwitch PROVE ShownIsLive'
  BY <1>21 DEF EditAtTwitch
<1>22. CASE UNCHANGED vars
  BY <1>22 DEF vars
<1> QED
  BY <1>1, <1>2, <1>3, <1>4, <1>5, <1>6, <1>7, <1>8, <1>9, <1>10, <1>11, <1>12,
     <1>13, <1>14, <1>15, <1>16, <1>17, <1>18, <1>19, <1>20, <1>21, <1>22 DEF Next

(* From the first sync that ends well the row stays of the live reward:    *)
(* a PATCH moves its cost, and whoever sent it is about to record it.      *)
LEMMA InLineStep ==
  ASSUME ~Perishable, TermsInv, [Next]_vars PROVE RowIsInLine'
<1> USE DEF TermsInv, RewardInv, TypeOK, OneWorker, ShownIsLive, GoalIsOwn, RowIsInLine, RowIsKnown, IsLive
<1>1. ASSUME NEW r \in Locked, AcquireLock(r) PROVE RowIsInLine'
  BY <1>1 DEF AcquireLock
<1>2. ASSUME NEW r \in Locked, GiveUpWaiting(r) PROVE RowIsInLine'
  BY <1>2 DEF GiveUpWaiting, Answer
<1>3. ASSUME NEW r \in Locked, ReadRewardRow(r) PROVE RowIsInLine'
  BY <1>3 DEF ReadRewardRow, SaveNext
<1>4. ASSUME NEW r \in Locked, PatchReward(r) PROVE RowIsInLine'
  <2> USE <1>4 DEF PatchReward
  <2>1. CASE IsLive(target[r]) /\ live' = Patched(r) /\ pc' = [pc EXCEPT ![r] = "record"]
    <3>1. live' # Nothing /\ live'.id = live.id
      BY <2>1, PatchedReward
    <3>2. pc'[r] = "record"
      BY <2>1
    <3>3. reward # Nothing /\ reward.id = live.id
      BY <2>1
    <3>4. UNCHANGED reward
      OBVIOUS
    <3>5. QED
      BY <3>1, <3>2, <3>3, <3>4
  <2>2. CASE faults' = faults + 1
    <3>1. faults' # 0
      BY <2>2
    <3>2. QED
      BY <3>1
  <2>3. CASE Fails(r) /\ UNCHANGED live
    BY <2>3 DEF Fails, Caught, SaveNext, Answer
  <2>4. QED
    BY <2>1, <2>2, <2>3
<1>5. ASSUME NEW r \in Locked, RecordReward(r) PROVE RowIsInLine'
  <2>1. reward' = [id |-> told[r].id, cost |-> told[r].cost] /\ told[r] \in Rewards /\ UNCHANGED <<live, faults, edits>>
    BY <1>5 DEF RecordReward
  <2>2. reward' # Nothing /\ reward'.id = told[r].id /\ reward'.cost = told[r].cost
    BY <2>1 DEF Rewards
  <2>3. edits = 0 => live # Nothing /\ told[r] = live
    BY <1>5 DEF RecordReward
  <2>4. QED
    BY <2>1, <2>2, <2>3
<1>6. ASSUME NEW r \in Locked, Unlock(r) PROVE RowIsInLine'
  BY <1>6 DEF Unlock
<1>7. ASSUME NEW r \in Requests, ReadCache(r) PROVE RowIsInLine'
  BY <1>7 DEF ReadCache, GotSettings, Answer, SaveNext
<1>8. ASSUME NEW r \in Requests, SelectSettings(r) PROVE RowIsInLine'
  BY <1>8 DEF SelectSettings
<1>9. ASSUME NEW r \in Requests, RefillCache(r) PROVE RowIsInLine'
  BY <1>9 DEF RefillCache, GotSettings, Answer, SaveNext
<1>10. ASSUME NEW r \in Requests, Throws(r) PROVE RowIsInLine'
  BY <1>10 DEF Throws, Fails, Caught, Answer, SaveNext
<1>11. ASSUME NEW s \in Saves, StoreSettings(s) PROVE RowIsInLine'
  BY <1>11 DEF StoreSettings
<1>12. ASSUME NEW s \in Saves, PublishSettings(s) PROVE RowIsInLine'
  BY <1>12 DEF PublishSettings, Answer
<1>13. ASSUME NEW y \in Syncs, GetReward(y) PROVE RowIsInLine'
  BY <1>13 DEF GetReward, Reconcile
<1>14. ASSUME NEW y \in Syncs, DropRow(y) PROVE RowIsInLine'
  BY <1>14 DEF DropRow
<1>15. ASSUME NEW y \in Syncs, CreateReward(y) PROVE RowIsInLine'
  BY <1>15 DEF CreateReward, Fails, Caught, SaveNext, Answer
<1>16. ASSUME NEW y \in Syncs, AdoptReward(y) PROVE RowIsInLine'
  BY <1>16 DEF AdoptReward, Fails, Caught, SaveNext, Answer
<1>17. ASSUME NEW y \in Syncs, KeepReward(y) PROVE RowIsInLine'
  BY <1>17 DEF KeepReward, Reconcile
<1>18. ASSUME Crash PROVE RowIsInLine'
  BY <1>18 DEF Crash, FirstStep
<1>19. ASSUME LockExpires PROVE RowIsInLine'
  BY <1>19 DEF LockExpires
<1>20. ASSUME CacheExpires PROVE RowIsInLine'
  BY <1>20 DEF CacheExpires
<1>21. ASSUME EditAtTwitch PROVE RowIsInLine'
  BY <1>21 DEF EditAtTwitch
<1>22. CASE UNCHANGED vars
  BY <1>22 DEF vars
<1> QED
  BY <1>1, <1>2, <1>3, <1>4, <1>5, <1>6, <1>7, <1>8, <1>9, <1>10, <1>11, <1>12,
     <1>13, <1>14, <1>15, <1>16, <1>17, <1>18, <1>19, <1>20, <1>21, <1>22 DEF Next

(* It holds at first, and every step keeps it.                             *)
LEMMA InitTerms == Init => TermsInv
<1> SUFFICES ASSUME Init PROVE TermsInv
  OBVIOUS
<1>1. OneWorker /\ RowIsKnown
  BY DEF Init, FirstStep, OneWorker, RowIsKnown
<1>2. IdsAreOld
  BY DEF Init, IdsAreOld
<1>3. ShownIsLive /\ GoalIsOwn
  BY DEF Init, FirstStep, FirstGoal, ShownIsLive, GoalIsOwn
<1>4. RowIsInLine
  BY DEF Init, RowIsInLine
<1>5. QED
  BY <1>1, <1>2, <1>3, <1>4, InitTypes DEF TermsInv, RewardInv

(* None of its parts is kept without the others.                           *)
LEMMA NextTerms == ~Perishable => (TermsInv /\ [Next]_vars => TermsInv')
BY TypeStep, OneWorkerStep, RowStep, ShownStep, GoalStep, InLineStep DEF TermsInv, RewardInv

(* While the lock outlives its holder's work and no call fails, what the   *)
(* map says an exchange costs is what Twitch charges, whenever the lock is *)
(* free after a sync has ended well: whatever saves came before, between   *)
(* and after (saveSettings and ensureExchangeReward under one lock).       *)
THEOREM StoredIsAlwaysCharged == ~Perishable => (Spec => []StoredIsCharged)
<1> SUFFICES ASSUME ~Perishable PROVE Spec => []StoredIsCharged
  OBVIOUS
<1>1. TermsInv => StoredIsCharged
  BY DEF TermsInv, RewardInv, TypeOK, OneWorker, RowIsInLine, StoredIsCharged
<1>2. TermsInv /\ [Next]_vars => TermsInv'
  BY NextTerms
<1>3. QED
  BY <1>1, <1>2, InitTerms, PTL DEF Spec

(* A sync ends well only by recording the reward.                          *)
LEMMA SyncsEnd ==
  ASSUME TermsInv, [Next]_vars, NEW y \in Syncs, reply[y] = "none", reply'[y] = "ok"
  PROVE  RecordReward(y)
<1> USE DEF TermsInv, RewardInv, TypeOK, GoalIsOwn
<1>1. ASSUME NEW r \in Locked, GiveUpWaiting(r) PROVE FALSE
  BY <1>1 DEF GiveUpWaiting, Answer
<1>2. ASSUME NEW r \in Locked, ReadRewardRow(r) PROVE FALSE
  <2>1. UNCHANGED reply
    <3>1. CASE reward # Nothing
      BY <1>2, <3>1 DEF ReadRewardRow, SaveNext
    <3>2. CASE reward = Nothing
      BY <1>2, <3>2 DEF ReadRewardRow, SaveNext
    <3>3. QED
      BY <3>1, <3>2
  <2>2. QED
    BY <2>1
<1>3. ASSUME NEW r \in Locked, PatchReward(r) PROVE FALSE
  BY <1>3 DEF PatchReward, Fails, Answer, SaveNext
<1>4. ASSUME NEW r \in Locked, RecordReward(r) PROVE RecordReward(y)
  BY <1>4 DEF RecordReward, Answer, SaveNext
<1>5. ASSUME NEW r \in Requests, ReadCache(r) PROVE FALSE
  BY <1>5 DEF ReadCache, GotSettings, Answer, SaveNext
<1>6. ASSUME NEW r \in Requests, RefillCache(r) PROVE FALSE
  BY <1>6 DEF RefillCache, GotSettings, Answer, SaveNext
<1>7. ASSUME NEW r \in Requests, Throws(r) PROVE FALSE
  BY <1>7 DEF Throws, Fails, Answer, SaveNext
<1>8. ASSUME NEW s \in Saves, PublishSettings(s) PROVE FALSE
  BY <1>8 DEF PublishSettings, Answer
<1>9. ASSUME NEW z \in Syncs, CreateReward(z) PROVE FALSE
  BY <1>9 DEF CreateReward, Fails, Answer, SaveNext
<1>10. ASSUME NEW z \in Syncs, AdoptReward(z) PROVE FALSE
  BY <1>10 DEF AdoptReward, Fails, Answer, SaveNext
<1>11. CASE UNCHANGED reply
  BY <1>11
<1> QED
  BY <1>1, <1>2, <1>3, <1>4, <1>5, <1>6, <1>7, <1>8, <1>9, <1>10, <1>11
  DEF Next, vars, AcquireLock, Unlock, SelectSettings, StoreSettings, GetReward, DropRow, KeepReward,
      Crash, LockExpires, CacheExpires, EditAtTwitch

(* While the lock outlives its holder's work, and the streamer edits       *)
(* nothing, a sync that ends well has brought the reward in line with the  *)
(* settings it read, and stored it as it is, whatever failed before.       *)
THEOREM SyncAlwaysBringsInLine == ~Perishable => (Spec => SyncBringsInLine)
<1> SUFFICES ASSUME ~Perishable PROVE Spec => SyncBringsInLine
  OBVIOUS
<1>1. ASSUME TermsInv, [Next]_vars, NEW y \in Syncs,
             pc[y] # "done", reply[y] = "none", reply'[y] = "ok", edits = 0
      PROVE  /\ live # Nothing /\ InLine(y, live)
             /\ reward' = [id |-> live.id, cost |-> live.cost]
  BY <1>1, SyncsEnd DEF RecordReward, TermsInv, ShownIsLive
<1>2. TermsInv /\ [Next]_vars =>
        [\A y \in Syncs : (pc[y] # "done" /\ reply[y] = "none" /\ reply'[y] = "ok" /\ edits = 0) =>
           /\ live # Nothing /\ InLine(y, live)
           /\ reward' = [id |-> live.id, cost |-> live.cost]]_vars
  BY <1>1
<1>3. TermsInv /\ [Next]_vars => TermsInv'
  BY NextTerms
<1>4. QED
  BY <1>2, <1>3, InitTerms, PTL DEF Spec, SyncBringsInLine
=============================================================================
