---------------------------- MODULE Subscriptions ----------------------------
(* The synchronisation of the EventSub subscriptions: the list at Twitch,     *)
(* the stale ones deleted, the missing ones created, with the app token.      *)
(* Sources: ensureEventSubSubscriptions of src/server/src/twitch/eventsub.ts, *)
(* the EventSub calls and the retry after a 401 of twitch/helix.ts,           *)
(* getAppAccessToken of twitch/tokens.ts.                                     *)
EXTENDS Integers, FiniteSets

CONSTANTS
  Procs,       \* synchronisations that run at the same time: the authorisation's
               \* last step and the admin's button
  MaxMade,     \* subscriptions ever created
  MaxTrouble   \* failed calls, dead processes, what Twitch takes back

VARIABLES
  app,      \* APP_TOKEN_KEY: no token, a good one, one that Twitch took back
  subs,     \* the subscriptions at Twitch: type, whether they point at this
            \* deployment's callback, status, and a number for the id
  made,
  work,
  trouble

vars == <<app, subs, made, work, trouble>>

Types == {"add", "update"}
Idle == [at |-> "idle", stale |-> {}, missing |-> {}, dropped |-> {}]

Init ==
  /\ app = "none"
  /\ subs = {[type |-> "add", ours |-> FALSE, status |-> "enabled", id |-> 1]}
  /\ made = 1
  /\ work = [p \in Procs |-> Idle]
  /\ trouble = 0

Goto(p, at) == work' = [work EXCEPT ![p].at = at]
End(p) == work' = [work EXCEPT ![p] = Idle]
Trouble == trouble < MaxTrouble /\ trouble' = trouble + 1
Smooth == UNCHANGED trouble

-----------------------------------------------------------------------------
(* A cached token that Twitch took back costs one more call.                *)
AppToken == app' = "good"

(* History: what another party removes after p read the list.               *)
DroppedFor(p, type) == IF work[p].at \in {"delete", "create"}
                       THEN work[p].dropped \cup {type} ELSE work[p].dropped

Resync(p) ==
  /\ work[p] = Idle
  /\ Goto(p, "list")
  /\ UNCHANGED <<app, subs, made, trouble>>

(* Mutant: any enabled subscription will do, wherever it points.            *)
AnyCallback(s) == s.status = "enabled"
Healthy(s) == s.ours /\ s.status = "enabled"

List(p) ==
  /\ work[p].at = "list"
  /\ \/ /\ Smooth /\ AppToken
        /\ work' = [work EXCEPT ![p].at = "delete", ![p].dropped = {},
                       ![p].stale = {s \in subs : ~Healthy(s)},
                       ![p].missing = Types \ {s.type : s \in {x \in subs : Healthy(x)}}]
     \/ Trouble /\ End(p) /\ UNCHANGED app
  /\ UNCHANGED <<subs, made>>

(* One stale subscription after the other; a failure is only logged.        *)
Delete(p) ==
  /\ work[p].at = "delete"
  /\ IF work[p].stale = {} THEN Goto(p, "create") /\ UNCHANGED <<app, subs, made, trouble>>
     ELSE \E s \in work[p].stale :
       \/ /\ Smooth /\ AppToken
          /\ subs' = {x \in subs : x.id # s.id}
          /\ work' = [r \in Procs |-> IF r = p THEN [work[p] EXCEPT !.stale = @ \ {s}]
                                      ELSE [work[r] EXCEPT !.dropped = DroppedFor(r, s.type)]]
          /\ UNCHANGED made
       \/ /\ Trouble /\ UNCHANGED <<app, subs, made>>
          /\ work' = [work EXCEPT ![p].stale = @ \ {s}]

(* Twitch refuses a second subscription to one type at one callback (409).  *)
Create(p) ==
  /\ work[p].at = "create"
  /\ IF work[p].missing = {} THEN End(p) /\ UNCHANGED <<app, subs, made, trouble>>
     ELSE \E type \in work[p].missing :
       \/ /\ Smooth /\ AppToken
          /\ IF \E s \in subs : s.type = type /\ s.ours
             THEN End(p) /\ UNCHANGED <<subs, made>>
             ELSE /\ made < MaxMade /\ made' = made + 1
                  /\ subs' = subs \cup {[type |-> type, ours |-> TRUE, status |-> "pending",
                                         id |-> made + 1]}
                  /\ work' = [work EXCEPT ![p].missing = @ \ {type}]
       \/ Trouble /\ End(p) /\ UNCHANGED <<app, subs, made>>

-----------------------------------------------------------------------------
(* Twitch and the process.                                                  *)

(* Our webhook answers the challenge of a new subscription.                 *)
Challenge(s) ==
  /\ s.status = "pending"
  /\ subs' = (subs \ {s}) \cup {[s EXCEPT !.status = "enabled"]}
  /\ UNCHANGED <<app, made, work, trouble>>

DropSubscription(s) ==
  /\ s.status # "revoked" /\ Trouble
  /\ subs' = (subs \ {s}) \cup {[s EXCEPT !.status = "revoked"]}
  /\ work' = [p \in Procs |-> [work[p] EXCEPT !.dropped = DroppedFor(p, s.type)]]
  /\ UNCHANGED <<app, made>>

AppTokenGone ==
  /\ app = "good" /\ app' \in {"none", "revoked"} /\ Trouble
  /\ UNCHANGED <<subs, made, work>>

Crash == Trouble /\ work' = [p \in Procs |-> Idle] /\ UNCHANGED <<app, subs, made>>

Next ==
  \/ \E p \in Procs : Resync(p) \/ List(p) \/ Delete(p) \/ Create(p)
  \/ \E s \in subs : Challenge(s) \/ DropSubscription(s)
  \/ AppTokenGone \/ Crash

Spec == Init /\ [][Next]_vars

-----------------------------------------------------------------------------
TypeOK ==
  /\ app \in {"none", "good", "revoked"} /\ made <= MaxMade
  /\ \A s \in subs : s.id \in 1..made /\ s.status \in {"pending", "enabled", "revoked"}
  /\ \A p \in Procs : work[p].stale \subseteq [type : Types, ours : BOOLEAN, id : 1..made,
                                              status : {"pending", "enabled", "revoked"}]

(* A synchronisation that ends without an error leaves a subscription to    *)
(* every wanted type at this deployment's callback, whatever was registered *)
(* before and whichever deletion failed, unless Twitch or another           *)
(* synchronisation removed it since.                                        *)
SyncEndsSubscribed ==
  \A p \in Procs :
    work[p].at = "create" /\ work[p].missing = {} /\ work'[p] = Idle /\ trouble' = trouble =>
      \A type \in Types \ work[p].dropped : \E s \in subs : s.type = type /\ s.ours

(* Why: an id is of one subscription, and of the types that p does not miss *)
(* there is one at our callback that p is not about to delete, unless       *)
(* somebody else has removed one since p read the list.                     *)
Subscription == [type : Types, ours : BOOLEAN, status : {"pending", "enabled", "revoked"}, id : Nat]
Sync == [at : {"idle", "list", "delete", "create"}, stale : SUBSET Subscription,
         missing : SUBSET Types, dropped : SUBSET Types]
SyncsAreTyped ==
  /\ subs \subseteq Subscription /\ made \in Nat /\ work \in [Procs -> Sync]
IdsAreOne ==
  /\ \A s \in subs : s.id <= made
  /\ \A s, x \in subs : s.id = x.id => s = x
  /\ \A p \in Procs : \A s \in work[p].stale :
       /\ s.id <= made
       /\ \A x \in subs : s.id = x.id => s.type = x.type
Stands(p, type) ==
  \E y \in subs : y.type = type /\ y.ours /\ \A s \in work[p].stale : s.id # y.id
OthersStand ==
  \A p \in Procs : work[p].at \in {"delete", "create"} =>
    \A type \in Types \ (work[p].missing \cup work[p].dropped) : Stands(p, type)
=============================================================================
