---------------------------- MODULE OAuthConnect ----------------------------
(* How the broadcaster connects the channel: the trip through Twitch's        *)
(* consent page and back, and what is set up when the browser returns.        *)
(* Sources: src/server/src/twitch/oauth.ts, http/routes/oauth.ts,             *)
(* storeBroadcasterTokens of twitch/tokens.ts.                                *)
(*                                                                            *)
(* What the reward pool, the exchange reward and the subscriptions come to is *)
(* SlotPool, ExchangeTerms and Subscriptions; here each is done or fails.  A  *)
(* browser may send a callback again.  Where it is sent afterwards (only to   *)
(* PUBLIC_WEB_URL) is left out, and so is a server that was never told which  *)
(* channel is its own.                                                        *)
EXTENDS Integers, FiniteSets

CONSTANTS
  Visits,      \* trips to Twitch, each with its state
  Handlers,    \* callbacks under way
  MaxTrouble,  \* calls that fail
  None

VARIABLES
  state,     \* oauth_states: the row of each visit: fresh, or past STATE_TTL_MINUTES
  code,      \* what Twitch gave each visit's browser: account, scopes, whether spent
  work,      \* the callbacks
  tokens,    \* broadcaster_oauth: the scopes each account granted
  setUp,     \* what was set up for each account
  connects,  \* tokens stored for each visit (history)
  trouble

vars == <<state, code, work, tokens, setUp, connects, trouble>>

Accounts == {"own", "foreign"}     \* own: TWITCH_CHANNEL_ID
Scopes == {"all", "some"}          \* BROADCASTER_SCOPES, or fewer
Steps == {"pool", "reward", "eventsub"}
Idle == [at |-> "idle"]

Init ==
  /\ state = [v \in Visits |-> None] /\ code = [v \in Visits |-> None]
  /\ work = [h \in Handlers |-> Idle]
  /\ tokens = [a \in Accounts |-> None] /\ setUp = [a \in Accounts |-> {}]
  /\ connects = [v \in Visits |-> 0] /\ trouble = 0

Trouble == trouble < MaxTrouble /\ trouble' = trouble + 1

-----------------------------------------------------------------------------
(* The browser.                                                             *)

(* createOAuthState: the new row is written and the old ones are deleted.   *)
Start(v) ==
  /\ state[v] = None /\ code[v] = None /\ connects[v] = 0
  /\ state' = [u \in Visits |-> IF u = v THEN "fresh"
                                ELSE IF state[u] = "old" THEN None ELSE state[u]]
  /\ UNCHANGED <<code, work, tokens, setUp, connects, trouble>>

(* force_verify: the consent page is always shown, to whoever is logged in. *)
Approve(v) ==
  /\ state[v] # None /\ code[v] = None
  /\ \E account \in Accounts, scopes \in Scopes :
       code' = [code EXCEPT ![v] = [account |-> account, scopes |-> scopes, spent |-> FALSE]]
  /\ UNCHANGED <<state, work, tokens, setUp, connects, trouble>>

TenMinutes(v) ==
  /\ state[v] = "fresh" /\ state' = [state EXCEPT ![v] = "old"]
  /\ UNCHANGED <<code, work, tokens, setUp, connects, trouble>>

-----------------------------------------------------------------------------
(* GET callback.                                                            *)

Taken(v) == [state EXCEPT ![v] = None]

(* consumeOAuthState: the row is deleted as it is read; none, or an old one,*)
(* is bad_state.                                                            *)
Callback(h, v) ==
  /\ work[h] = Idle /\ code[v] # None
  /\ state' = Taken(v)
  /\ work' = [work EXCEPT ![h] =
       IF state[v] = "fresh"
       THEN [at |-> "exchange", visit |-> v, todo |-> Steps, warned |-> {}]
       ELSE Idle]
  /\ UNCHANGED <<code, tokens, setUp, connects, trouble>>

Fail(h) ==
  /\ work[h].at \in {"exchange", "store"} /\ Trouble
  /\ work' = [work EXCEPT ![h] = Idle]
  /\ UNCHANGED <<state, code, tokens, setUp, connects>>

(* exchangeCodeForTokens: Twitch takes a code once.                         *)
Exchange(h) ==
  /\ work[h].at = "exchange"
  /\ LET v == work[h].visit IN
     /\ code' = [code EXCEPT ![v].spent = TRUE]
     /\ work' = [work EXCEPT ![h] = IF code[v].spent THEN Idle ELSE [@ EXCEPT !.at = "store"]]
  /\ UNCHANGED <<state, tokens, setUp, connects, trouble>>

(* storeBroadcasterTokens: under the account that Twitch says it is.        *)
Granted(h) == code[work[h].visit]
IsForeign(h) == Granted(h).account = "foreign"
Store(h) ==
  /\ work[h].at = "store"
  /\ tokens' = [tokens EXCEPT ![Granted(h).account] = Granted(h).scopes]
  /\ connects' = [connects EXCEPT ![work[h].visit] = @ + 1]
  /\ work' = [work EXCEPT ![h].at = "set up",
       ![h].warned = (IF Granted(h).scopes = "some" THEN {"scopes"} ELSE {})
                       \cup (IF IsForeign(h) THEN {"account"} ELSE {})]
  /\ UNCHANGED <<state, code, setUp, trouble>>

(* ensureRewardPool, ensureExchangeReward, ensureEventSubSubscriptions, in  *)
(* this order, each best effort.  The exchange reward is live the moment it *)
(* exists: an account that is not the channel's never gets one.             *)
Turn(h, step) ==
  /\ work[h].at = "set up" /\ step \in work[h].todo
  /\ step = "reward" => "pool" \notin work[h].todo
  /\ step = "eventsub" => work[h].todo = {"eventsub"}
Skipped(h, step) == step = "reward" /\ IsForeign(h)

SetUp(h, step) ==
  /\ Turn(h, step)
  /\ \/ /\ ~Skipped(h, step) /\ UNCHANGED trouble
        /\ setUp' = [setUp EXCEPT ![Granted(h).account] = @ \cup {step}]
        /\ work' = [work EXCEPT ![h].todo = @ \ {step}]
     \/ /\ \/ Skipped(h, step) /\ UNCHANGED trouble
           \/ ~Skipped(h, step) /\ Trouble
        /\ work' = [work EXCEPT ![h].todo = @ \ {step}, ![h].warned = @ \cup {step}]
        /\ UNCHANGED setUp
  /\ UNCHANGED <<state, code, tokens, connects>>

(* connected=1, with the warnings.                                          *)
Answer(h) ==
  /\ work[h].at = "set up" /\ work[h].todo = {}
  /\ work' = [work EXCEPT ![h] = Idle]
  /\ UNCHANGED <<state, code, tokens, setUp, connects, trouble>>

Die(h) ==
  /\ work[h] # Idle /\ Trouble /\ work' = [work EXCEPT ![h] = Idle]
  /\ UNCHANGED <<state, code, tokens, setUp, connects>>

Next ==
  \/ \E v \in Visits : Start(v) \/ Approve(v) \/ TenMinutes(v)
  \/ \E h \in Handlers :
       \/ Fail(h) \/ Exchange(h) \/ Store(h) \/ Answer(h) \/ Die(h)
       \/ \E v \in Visits : Callback(h, v)
       \/ \E step \in Steps : SetUp(h, step)

Spec == Init /\ [][Next]_vars

-----------------------------------------------------------------------------
TypeOK ==
  /\ \A v \in Visits : state[v] \in {None, "fresh", "old"}
  /\ tokens \in [Accounts -> Scopes \cup {None}] /\ setUp \in [Accounts -> SUBSET Steps]

Grant == [account : Accounts, scopes : Scopes, spent : BOOLEAN]
Trip ==
  [at : {"exchange", "store", "set up"}, visit : Visits, todo : SUBSET Steps,
   warned : SUBSET (Steps \cup {"scopes", "account"})]
IsConnecting(trip) == trip.at \in {"exchange", "store"}
IsTrip(trip) == trip = Idle \/ (trip \in Trip /\ code[trip.visit] # None)

(* Who comes back from Twitch has a code for good.                          *)
TripsAreTyped ==
  /\ DOMAIN state = Visits /\ code \in [Visits -> Grant \cup {None}]
  /\ connects \in [Visits -> 0..1] /\ setUp \in [Accounts -> SUBSET Steps]
  /\ DOMAIN work = Handlers /\ \A h \in Handlers : IsTrip(work[h])

(* A visit that may still be connected has not been, and has its state or   *)
(* one handler.                                                             *)
OneToConnect ==
  /\ \A v \in Visits : state[v] # None => connects[v] = 0
  /\ \A h \in Handlers : IsConnecting(work[h]) =>
       /\ state[work[h].visit] = None /\ connects[work[h].visit] = 0
       /\ \A other \in Handlers \ {h} :
            IsConnecting(work[other]) => work[other].visit # work[h].visit

(* Of whatever is not as it should be the browser will be warned.           *)
Warns(trip) ==
  /\ IsConnecting(trip) => trip.todo = Steps
  /\ trip.at \in {"store", "set up"} => code[trip.visit].spent
  /\ trip.at = "set up" =>
       /\ code[trip.visit].scopes = "some" => "scopes" \in trip.warned
       /\ code[trip.visit].account = "foreign" => "account" \in trip.warned
       /\ Steps \ (trip.todo \cup trip.warned) \subseteq setUp[code[trip.visit].account]
RestIsWarnedOf == "reward" \notin setUp["foreign"] /\ \A h \in Handlers : Warns(work[h])

(* A state that was issued connects once, however often and in how many     *)
(* handlers its callback comes; an account that is not the channel's gets   *)
(* no exchange reward; and the browser is told of a connection without a    *)
(* warning only when the channel itself was connected and all was set up.   *)
ConnectedIsSo ==
  /\ \A v \in Visits : connects[v] <= 1
  /\ "reward" \notin setUp["foreign"]
  /\ \A h \in Handlers :
       work[h].at = "set up" /\ work[h].todo = {} /\ work[h].warned = {} =>
         Granted(h) = [account |-> "own", scopes |-> "all", spent |-> TRUE] /\ setUp["own"] = Steps
=============================================================================
