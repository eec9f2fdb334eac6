---------------------------- MODULE ExchangeTerms ----------------------------
(***************************************************************************)
(* The terms of the exchange: the saved settings and their cache, the      *)
(* row of the exchange reward, and the reward itself at Twitch.            *)
(* Source: server/src/domain/settings.ts and the first half of             *)
(* server/src/twitch/exchangeReward.ts.                                    *)
(*                                                                         *)
(* A sync (ensureExchangeReward) brings the reward in line with the        *)
(* settings; a save that touches the terms pushes them to Twitch before it *)
(* stores them.  These two exclude each other by a Redis lock.  Every      *)
(* other save, and every read that refills the cache, runs beside them.    *)
(***************************************************************************)
EXTENDS Naturals

CONSTANTS
  Syncs,       \* runs of ensureExchangeReward: at boot, after OAuth, by the admin
  Saves,       \* saves of settings
  Patch,       \* the fields each save sets
  Reads,       \* other calls of getSettings
  Default,     \* the settings before any save
  Costs,       \* what the reward may cost at Twitch before any sync
  Perishable,  \* the lock's TTL may end while its holder is at work
  MaxFaults,   \* how many calls fail and processes die (bounds a run)
  MaxEdits,    \* how often the streamer edits the reward (bounds a run)
  Nothing

Fields == {"cost", "rate", "open"}
Settings == [Fields -> Nat]
Requests == Syncs \union Saves \union Reads

ASSUME TermsAssumption ==
  /\ Syncs \intersect Saves = {} /\ Reads \intersect (Syncs \union Saves) = {}
  /\ Nothing \notin Requests /\ Nothing \notin Settings
  /\ Nothing \notin [id : Nat, cost : Nat] /\ Nothing \notin [id : Nat, cost : Nat, rate : Nat]
  /\ Default \in Settings
  /\ \A s \in Saves : /\ DOMAIN Patch[s] \subseteq Fields
                      /\ \A f \in DOMAIN Patch[s] : Patch[s][f] \in Nat
  /\ Costs \subseteq Nat
  /\ Perishable \in BOOLEAN /\ MaxFaults \in Nat /\ MaxEdits \in Nat

VARIABLES
  row,      \* channel_settings, merged over the defaults
  cache,    \* K.settings
  reward,   \* gta_exchange_rewards
  live,     \* the reward of our title at Twitch; its rate is in its prompt
  created,  \* how many rewards of that title there ever were; the newest's id
  lock,     \* K.lockExchangeReward
  pc,       \* the next statement of each request
  goal,     \* what a request reads the settings for
  snap,     \* the settings it has read
  target,   \* the id of the reward it works on
  told,     \* the reward as Twitch last showed it to the request
  reply,
  faults, edits

stored == <<row, cache, reward>>
twitch == <<live, created>>
local == <<goal, snap, target, told>>
vars == <<stored, twitch, lock, pc, local, reply, faults, edits>>

TermsSaves == {s \in Saves : DOMAIN Patch[s] \intersect {"cost", "rate"} # {}}
Locked == Syncs \union TermsSaves

Merged(settings, patch) ==
  [f \in Fields |-> IF f \in DOMAIN patch THEN patch[f] ELSE settings[f]]

FirstStep(r) == IF r \in Locked THEN "lock" ELSE "cache"
FirstGoal(r) == IF r \in Locked THEN "terms" ELSE IF r \in Saves THEN "save" ELSE "answer"

Goto(r, step) == pc' = [pc EXCEPT ![r] = step]
Fault == faults < MaxFaults /\ faults' = faults + 1

(* The lock is released in a finally, then the request answers.            *)
Answer(r, answer) ==
  /\ reply' = [reply EXCEPT ![r] = answer]
  /\ Goto(r, IF r \in Locked /\ pc[r] \notin {"lock", "unlock"} THEN "unlock" ELSE "done")

(* What a request wants the reward to say.                                 *)
Wanted(r) == IF r \in Syncs THEN snap[r] ELSE Merged(snap[r], Patch[r])
Changes(s, before, f) == f \in DOMAIN Patch[s] /\ Patch[s][f] # before[f]

(* pushExchangeTerms is over: saveSettings reads the settings again.       *)
SaveNext(s) ==
  /\ goal' = [goal EXCEPT ![s] = "save"]
  /\ Goto(s, "cache")
  /\ UNCHANGED reply

(* The one error that is swallowed: of a PATCH that only rewrites the      *)
(* prompt, or of recording it.                                             *)
Caught(r) == r \in Saves /\ pc[r] \in {"patch", "record"} /\ ~Changes(r, snap[r], "cost")
Fails(r) ==
  \/ Caught(r) /\ SaveNext(r)
  \/ ~Caught(r) /\ Answer(r, "error") /\ UNCHANGED goal

-----------------------------------------------------------------------------
(* Mutant: a save of the terms does not wait for a sync.                   *)
AcquireLockAnyhow(r) ==
  /\ pc[r] = "lock" /\ (lock = Nothing \/ r \in Saves)
  /\ lock' = r
  /\ Goto(r, "cache")
  /\ UNCHANGED <<stored, twitch, local, reply, faults, edits>>

AcquireLock(r) ==
  /\ pc[r] = "lock" /\ lock = Nothing
  /\ lock' = r
  /\ Goto(r, "cache")
  /\ UNCHANGED <<stored, twitch, local, reply, faults, edits>>

GiveUpWaiting(r) ==
  /\ pc[r] = "lock" /\ lock # Nothing
  /\ Answer(r, "busy")
  /\ UNCHANGED <<stored, twitch, lock, local, faults, edits>>

-----------------------------------------------------------------------------
(* getSettings has its answer, the request goes on.                        *)
AsksTwitch(r, settings) ==
  r \in Saves => \E f \in {"cost", "rate"} : Changes(r, settings, f)
GotSettings(r, settings) ==
  /\ snap' = [snap EXCEPT ![r] = settings]
  /\ \/ goal[r] = "answer" /\ Answer(r, "ok") /\ UNCHANGED goal
     \/ goal[r] = "save" /\ Goto(r, "store") /\ UNCHANGED <<reply, goal>>
     \/ /\ goal[r] = "terms" /\ AsksTwitch(r, settings)
        /\ Goto(r, "stored") /\ UNCHANGED <<reply, goal>>
     \/ goal[r] = "terms" /\ ~AsksTwitch(r, settings) /\ SaveNext(r)

ReadCache(r) ==
  /\ pc[r] = "cache"
  /\ \/ cache # Nothing /\ GotSettings(r, cache)
     \/ cache = Nothing /\ Goto(r, "select") /\ UNCHANGED <<snap, reply, goal>>
  /\ UNCHANGED <<stored, twitch, lock, target, told, faults, edits>>

SelectSettings(r) ==
  /\ pc[r] = "select"
  /\ snap' = [snap EXCEPT ![r] = row]
  /\ Goto(r, "refill")
  /\ UNCHANGED <<stored, twitch, lock, goal, target, told, reply, faults, edits>>

RefillCache(r) ==
  /\ pc[r] = "refill"
  /\ cache' = snap[r]
  /\ GotSettings(r, snap[r])
  /\ UNCHANGED <<row, reward, twitch, lock, target, told, faults, edits>>

(* saveSettings writes all the settings, merged over the ones it read.     *)
StoreSettings(s) ==
  /\ pc[s] = "store"
  /\ snap' = [snap EXCEPT ![s] = Merged(snap[s], Patch[s])]
  /\ row' = snap'[s]
  /\ Goto(s, "publish")
  /\ UNCHANGED <<cache, reward, twitch, lock, goal, target, told, reply, faults, edits>>

PublishSettings(s) ==
  /\ pc[s] = "publish"
  /\ cache' = snap[s]
  /\ Answer(s, "ok")
  /\ UNCHANGED <<row, reward, twitch, lock, local, faults, edits>>

-----------------------------------------------------------------------------
(* getExchangeReward, in a sync and in pushExchangeTerms.                  *)
ReadRewardRow(r) ==
  /\ pc[r] = "stored"
  /\ \/ /\ reward # Nothing
        /\ target' = [target EXCEPT ![r] = reward.id]
        /\ Goto(r, IF r \in Syncs THEN "get" ELSE "patch")
        /\ UNCHANGED <<reply, goal>>
     \/ /\ reward = Nothing /\ UNCHANGED target
        /\ IF r \in Syncs THEN Goto(r, "create") /\ UNCHANGED <<reply, goal>> ELSE SaveNext(r)
  /\ UNCHANGED <<stored, twitch, lock, snap, told, faults, edits>>

IsLive(id) == live # Nothing /\ live.id = id
InLine(r, shown) == shown.cost = Wanted(r)["cost"] /\ shown.rate = Wanted(r)["rate"]

(* reconcile: a PATCH if anything differs, then the row.                   *)
Reconcile(r, shown) ==
  /\ told' = [told EXCEPT ![r] = shown]
  /\ target' = [target EXCEPT ![r] = shown.id]
  /\ Goto(r, IF InLine(r, shown) THEN "record" ELSE "patch")

(* Mutant: any failure to read the reward is taken for a 404.              *)
GetRewardOrGone(y) ==
  /\ pc[y] = "get"
  /\ \/ IsLive(target[y]) /\ Reconcile(y, live)
     \/ Goto(y, "drop") /\ UNCHANGED <<target, told>>
  /\ UNCHANGED <<stored, twitch, lock, goal, snap, reply, faults, edits>>

(* getCustomReward: only a 404 is "gone".                                  *)
GetReward(y) ==
  /\ pc[y] = "get"
  /\ \/ IsLive(target[y]) /\ Reconcile(y, live)
     \/ ~IsLive(target[y]) /\ Goto(y, "drop") /\ UNCHANGED <<target, told>>
  /\ UNCHANGED <<stored, twitch, lock, goal, snap, reply, faults, edits>>

DropRow(y) ==
  /\ pc[y] = "drop"
  /\ reward' = Nothing
  /\ Goto(y, "create")
  /\ UNCHANGED <<row, cache, twitch, lock, local, reply, faults, edits>>

(* Twitch refuses a second reward of the same title.                       *)
CreateReward(y) ==
  /\ pc[y] = "create"
  /\ \/ /\ live = Nothing
        /\ created' = created + 1
        /\ live' = [id |-> created', cost |-> snap[y]["cost"], rate |-> snap[y]["rate"]]
        /\ \/ /\ told' = [told EXCEPT ![y] = live'] /\ Goto(y, "keep")
              /\ UNCHANGED <<reply, goal, faults>>
           \/ Fault /\ Fails(y) /\ UNCHANGED told
     \/ live # Nothing /\ Goto(y, "adopt") /\ UNCHANGED <<twitch, told, reply, goal, faults>>
  /\ UNCHANGED <<stored, lock, snap, target, edits>>

(* The one place a reward is identified by its title.                      *)
AdoptReward(y) ==
  /\ pc[y] = "adopt"
  /\ \/ /\ live # Nothing
        /\ told' = [told EXCEPT ![y] = live] /\ Goto(y, "keep")
        /\ UNCHANGED <<reply, goal>>
     \/ live = Nothing /\ Fails(y) /\ UNCHANGED told
  /\ UNCHANGED <<stored, twitch, lock, snap, target, faults, edits>>

(* Mutant: an adopted reward is taken as it is.                            *)
KeepAsIs(y) ==
  /\ pc[y] = "keep"
  /\ reward' = [id |-> told[y].id, cost |-> told[y].cost]
  /\ Answer(y, "ok")
  /\ UNCHANGED <<row, cache, twitch, lock, local, faults, edits>>

(* storeExchangeReward of a created or adopted reward, then reconcile.     *)
KeepReward(y) ==
  /\ pc[y] = "keep"
  /\ reward' = [id |-> told[y].id, cost |-> told[y].cost]
  /\ Reconcile(y, told[y])
  /\ UNCHANGED <<row, cache, twitch, lock, goal, snap, reply, faults, edits>>

(* A save sends cost and prompt, a sync what it saw to differ.             *)
Sends(r, f, seen) == r \in Saves \/ seen # Wanted(r)[f]
Patched(r) ==
  [live EXCEPT !.cost = IF Sends(r, "cost", told[r].cost) THEN Wanted(r)["cost"] ELSE @,
               !.rate = IF Sends(r, "rate", told[r].rate) THEN Wanted(r)["rate"] ELSE @]

(* Mutant: a lost answer is taken for a success.                           *)
PatchAnyhow(r) ==
  /\ pc[r] = "patch"
  /\ \/ /\ IsLive(target[r])
        /\ live' = Patched(r)
        /\ Goto(r, "record")
        /\ \/ told' = [told EXCEPT ![r] = live'] /\ UNCHANGED faults
           \/ Fault /\ UNCHANGED told
        /\ UNCHANGED <<reply, goal>>
     \/ ~IsLive(target[r]) /\ Fails(r) /\ UNCHANGED <<live, told, faults>>
  /\ UNCHANGED <<stored, created, lock, snap, target, edits>>

(* updateCustomReward.  It answers with the reward as it is then, or 404.  *)
PatchReward(r) ==
  /\ pc[r] = "patch"
  /\ \/ /\ IsLive(target[r])
        /\ live' = Patched(r)
        /\ \/ /\ told' = [told EXCEPT ![r] = live'] /\ Goto(r, "record")
              /\ UNCHANGED <<reply, goal, faults>>
           \/ Fault /\ Fails(r) /\ UNCHANGED told
     \/ ~IsLive(target[r]) /\ Fails(r) /\ UNCHANGED <<live, told, faults>>
  /\ UNCHANGED <<stored, created, lock, snap, target, edits>>

RecordReward(r) ==
  /\ pc[r] = "record"
  /\ reward' = [id |-> told[r].id, cost |-> told[r].cost]
  /\ IF r \in Syncs THEN Answer(r, "ok") /\ UNCHANGED goal ELSE SaveNext(r)
  /\ UNCHANGED <<row, cache, twitch, lock, snap, target, told, faults, edits>>

-----------------------------------------------------------------------------
(* The request is over, and what it knew goes with it.                     *)
Unlock(r) ==
  /\ pc[r] = "unlock"
  /\ lock' = IF lock = r THEN Nothing ELSE lock
  /\ snap' = [snap EXCEPT ![r] = Default]
  /\ target' = [target EXCEPT ![r] = 0]
  /\ told' = [told EXCEPT ![r] = Nothing]
  /\ Goto(r, "done")
  /\ UNCHANGED <<stored, twitch, goal, reply, faults, edits>>

(* Any statement or call may fail without effect; one of Twitch may also   *)
(* take effect and lose its answer (CreateReward, PatchReward).            *)
Throws(r) ==
  /\ pc[r] # "done" /\ Fault
  /\ Fails(r)
  /\ UNCHANGED <<stored, twitch, lock, snap, target, told, edits>>

(* The process dies; Redis keeps the lock until its TTL.                   *)
Crash ==
  /\ Fault
  /\ pc' = [r \in Requests |-> IF pc[r] = FirstStep(r) THEN pc[r] ELSE "done"]
  /\ UNCHANGED <<stored, twitch, lock, local, reply, edits>>

LockExpires ==
  /\ lock # Nothing /\ (Perishable \/ pc[lock] = "done")
  /\ lock' = Nothing
  /\ UNCHANGED <<stored, twitch, pc, local, reply, faults, edits>>

CacheExpires ==
  /\ cache # Nothing
  /\ cache' = Nothing
  /\ UNCHANGED <<row, reward, twitch, lock, pc, local, reply, faults, edits>>

(* The streamer deletes the reward in the dashboard, or edits its cost.    *)
EditAtTwitch ==
  /\ live # Nothing /\ edits < MaxEdits
  /\ edits' = edits + 1
  /\ live' \in {Nothing} \union {[live EXCEPT !.cost = c] : c \in Costs}
  /\ UNCHANGED <<stored, created, lock, pc, local, reply, faults>>

-----------------------------------------------------------------------------
(* Before: no reward, one of a former database, one deleted, one edited.   *)
Init ==
  /\ row = Default /\ cache \in {Nothing, Default}
  /\ created = 1
  /\ reward \in {Nothing, [id |-> 1, cost |-> Default["cost"]]}
  /\ live \in {Nothing} \union [id : {1}, cost : Costs, rate : {Default["rate"]}]
  /\ lock = Nothing
  /\ pc = [r \in Requests |-> FirstStep(r)]
  /\ goal = [r \in Requests |-> FirstGoal(r)]
  /\ snap = [r \in Requests |-> Default]
  /\ target = [r \in Requests |-> 0]
  /\ told = [r \in Requests |-> Nothing]
  /\ reply = [r \in Requests |-> "none"]
  /\ faults = 0 /\ edits = 0

Next ==
  \/ \E r \in Locked : \/ AcquireLock(r) \/ GiveUpWaiting(r) \/ ReadRewardRow(r)
                       \/ PatchReward(r) \/ RecordReward(r) \/ Unlock(r)
  \/ \E r \in Requests : ReadCache(r) \/ SelectSettings(r) \/ RefillCache(r) \/ Throws(r)
  \/ \E s \in Saves : StoreSettings(s) \/ PublishSettings(s)
  \/ \E y \in Syncs : \/ GetReward(y) \/ DropRow(y) \/ CreateReward(y)
                      \/ AdoptReward(y) \/ KeepReward(y)
  \/ Crash \/ LockExpires \/ CacheExpires \/ EditAtTwitch

Spec == Init /\ [][Next]_vars

-----------------------------------------------------------------------------
Rewards == [id : Nat, cost : Nat, rate : Nat]
Steps == {"lock", "cache", "select", "refill", "store", "publish", "stored", "get", "drop",
          "create", "adopt", "keep", "patch", "record", "unlock", "done"}

(* Every variable has its type; only a save writes settings, only requests *)
(* of the lock ask for the terms, and the reward that is to be recorded is *)
(* one that Twitch has shown.                                              *)
TypeOK ==
  /\ row \in Settings /\ cache \in Settings \union {Nothing}
  /\ reward \in [id : Nat, cost : Nat] \union {Nothing}
  /\ live \in Rewards \union {Nothing} /\ created \in Nat
  /\ lock \in Locked \union {Nothing}
  /\ pc \in [Requests -> Steps]
  /\ goal \in [Requests -> {"terms", "save", "answer"}]
  /\ snap \in [Requests -> Settings]
  /\ target \in [Requests -> Nat]
  /\ told \in [Requests -> Rewards \union {Nothing}]
  /\ reply \in [Requests -> {"none", "ok", "busy", "error"}]
  /\ faults \in 0 .. MaxFaults /\ edits \in 0 .. MaxEdits
  /\ \A r \in Requests : /\ pc[r] \in {"keep", "record"} => told[r] # Nothing
                         /\ pc[r] \in {"store", "publish"} => goal[r] = "save"
                         /\ goal[r] = "save" => r \in Saves
                         /\ goal[r] = "terms" => r \in Locked

(* What the map says an exchange costs is what Twitch charges: once a sync *)
(* has ended well and whenever the lock is free, the row carries the cost  *)
(* of the live reward.  A sync that read the reward before a save must not *)
(* store its old cost over the new one.                                    *)
StoredIsCharged ==
  (faults = 0 /\ edits = 0 /\ lock = Nothing /\ \E y \in Syncs : reply[y] = "ok") =>
    reward # Nothing /\ live # Nothing /\ reward.id = live.id /\ reward.cost = live.cost

(* The id of a reward that viewers can still redeem is never lost: the row *)
(* is dropped or replaced only when its reward is gone from Twitch.  The   *)
(* webhook ignores every redemption of a reward it has no row of.          *)
RewardIsKept == [][
  (reward # Nothing /\ live # Nothing /\ live.id = reward.id) =>
    reward' # Nothing /\ reward'.id = reward.id]_vars

(* A sync that ends well has brought cost and prompt in line with the      *)
(* settings it read, however it found the reward: known, deleted, created  *)
(* before with the answer lost, or edited by the streamer.                 *)
SyncBringsInLine == [][\A y \in Syncs :
  (pc[y] # "done" /\ reply[y] = "none" /\ reply'[y] = "ok" /\ edits = 0) =>
    /\ live # Nothing /\ InLine(y, live)
    /\ reward' = [id |-> live.id, cost |-> live.cost]]_vars

(* A sync never takes Twitch back to a cost that is no longer the saved    *)
(* one, which the lock and the re-reading of the settings are meant to     *)
(* prevent.                                                                *)
NoOldCost == [][\A y \in Syncs :
  (pc[y] = "patch" /\ pc'[y] = "record" /\ live'.cost # live.cost) =>
    live'.cost = row["cost"]]_vars
=============================================================================
