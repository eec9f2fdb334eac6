----------------------------- MODULE Connection -----------------------------
(* How the server stays connected to Twitch: the authorisation of the         *)
(* broadcaster and the refresh of the tokens under a Redis lock.              *)
(* Sources: src/server/src/twitch/tokens.ts, oauth.ts, the request of         *)
(* helix.ts, http/routes/oauth.ts.                                            *)
(*                                                                            *)
(* A refresh token is a number; Twitch keeps it at a refresh, or answers with *)
(* a new one and forgets the old one.  What completeOAuth sets up after it    *)
(* stored the tokens is in SlotPool, ExchangeTerms and Subscriptions.         *)
EXTENDS Integers, FiniteSets

CONSTANTS
  Procs,       \* requests that run at the same time
  MaxTokens,   \* refresh tokens Twitch ever issues
  MaxTrouble,  \* crashes, lost answers, lost locks, what Twitch takes back
  None

VARIABLES
  rotates,  \* whether Twitch answers a refresh with a new refresh token
  row,      \* broadcaster_oauth: refresh token, and whether the access token is
            \* within REFRESH_MARGIN_MS of its expiry
  live,     \* the refresh tokens Twitch accepts
  issued,
  state,    \* one row of oauth_states
  lock,     \* holder of K.lockTokenRefresh
  work,
  spoiled,  \* refresh tokens that may be refused (history): taken back by Twitch,
            \* or spent by a refresh that was lost or outlived its lock
  trouble

vars == <<rotates, row, live, issued, state, lock, work, spoiled, trouble>>

NotConnected == [refresh |-> 0, due |-> FALSE]
Idle == [at |-> "idle", token |-> 0, old |-> 0, retried |-> FALSE, authorising |-> FALSE]

Init ==
  /\ rotates \in BOOLEAN
  /\ row = NotConnected /\ live = {} /\ issued = 0
  /\ state = "none"
  /\ lock = None /\ work = [p \in Procs |-> Idle]
  /\ spoiled = {} /\ trouble = 0

Goto(p, at) == work' = [work EXCEPT ![p].at = at]
Trouble == trouble < MaxTrouble /\ trouble' = trouble + 1
Smooth == UNCHANGED trouble
tokens == <<rotates, row, live, issued, spoiled>>

(* The request is over; the lock it holds is given back by its token.       *)
End(p) ==
  /\ work' = [work EXCEPT ![p] = Idle]
  /\ lock' = IF lock = p THEN None ELSE lock

-----------------------------------------------------------------------------
(* The authorisation.                                                       *)

(* A new state; the rows past STATE_TTL_MINUTES go.                         *)
StartOAuth ==
  /\ state \in {"none", "old"} /\ issued < MaxTokens
  /\ state' = "issued"
  /\ UNCHANGED <<tokens, lock, work, trouble>>

StateAges ==
  /\ state = "issued" /\ state' = "old"
  /\ UNCHANGED <<tokens, lock, work, trouble>>

(* The row is deleted as it is read; only a state that was issued, within   *)
(* its time, goes on.                                                       *)
Callback(p) ==
  /\ work[p] = Idle /\ state \in {"issued", "old"}
  /\ state' = "none"
  /\ IF state = "issued" THEN Goto(p, "exchange") ELSE UNCHANGED work
  /\ UNCHANGED <<tokens, lock, trouble>>

(* The code becomes tokens, and the account behind them is asked for; an    *)
(* error of either call ends the callback, the second with the tokens lost. *)
ExchangeCode(p) ==
  /\ work[p].at = "exchange"
  /\ \/ /\ Smooth /\ issued < MaxTokens
        /\ issued' = issued + 1 /\ live' = live \cup {issued + 1}
        /\ work' = [work EXCEPT ![p].at = "store", ![p].token = issued + 1, ![p].authorising = TRUE]
        /\ UNCHANGED lock
     \/ Trouble /\ End(p) /\ UNCHANGED <<issued, live>>
  /\ UNCHANGED <<rotates, row, spoiled, state>>

-----------------------------------------------------------------------------
(* getBroadcasterAccessToken, and the Helix call it is wanted for.          *)

Request(p) ==
  /\ work[p] = Idle
  /\ Goto(p, "load")
  /\ UNCHANGED <<tokens, state, lock, trouble>>

Load(p) ==
  /\ work[p].at = "load"
  /\ IF row = NotConnected THEN End(p)
     ELSE /\ work' = [work EXCEPT ![p].token = row.refresh,
                                  ![p].at = IF row.due THEN "acquire" ELSE "call"]
          /\ UNCHANGED lock
  /\ UNCHANGED <<tokens, state, trouble>>

(* The lock is waited for, or given up after waitMs.                        *)
Acquire(p) ==
  /\ work[p].at = "acquire"
  /\ IF lock = None THEN lock' = p /\ Goto(p, "reload") ELSE End(p)
  /\ UNCHANGED <<tokens, state, trouble>>

(* Mutant: the tokens read before the wait are presented.                   *)
PresentWhatWasRead(p) == Goto(p, "present")

(* Another request may have refreshed meanwhile.                            *)
ReadAgain(p) ==
  work' = [work EXCEPT ![p].at = IF row.due THEN "present" ELSE "call",
                       ![p].token = row.refresh]

Reload(p) ==
  /\ work[p].at = "reload"
  /\ ReadAgain(p)
  /\ lock' = IF work'[p].at = "call" /\ lock = p THEN None ELSE lock
  /\ UNCHANGED <<tokens, state, trouble>>

(* Twitch answers with new tokens, and a new refresh token if it rotates.   *)
(* The answer may be lost; a token it does not know is refused; and it may  *)
(* answer 429 or a server error and do nothing.  Whatever answer is not OK, *)
(* the caller is told that the broadcaster must reconnect.                  *)
Present(p) ==
  LET t == work[p].token IN
  /\ work[p].at = "present"
  /\ \/ /\ t \in live /\ ~rotates /\ Smooth
        /\ Goto(p, "store")
        /\ UNCHANGED <<live, issued, spoiled, lock>>
     \/ /\ t \in live /\ rotates /\ issued < MaxTokens
        /\ issued' = issued + 1 /\ live' = (live \ {t}) \cup {issued + 1}
        /\ \/ /\ Smooth
              /\ work' = [work EXCEPT ![p].at = "store", ![p].token = issued + 1, ![p].old = t]
              /\ spoiled' = IF lock = p THEN spoiled ELSE spoiled \cup {t}
              /\ UNCHANGED lock
           \/ Trouble /\ spoiled' = spoiled \cup {t} /\ End(p)
     \/ t \notin live /\ Smooth /\ End(p) /\ UNCHANGED <<live, issued, spoiled>>
     \/ Trouble /\ End(p) /\ UNCHANGED <<live, issued, spoiled>>
  /\ UNCHANGED <<rotates, row, state>>

StoredRow(p) == [refresh |-> work[p].token, due |-> FALSE]

(* The upsert; a refresh then gives the lock back.  An authorisation, which *)
(* took no lock, goes on to set the channel up.                             *)
Store(p) ==
  /\ work[p].at = "store"
  /\ row' = StoredRow(p)
  /\ IF work[p].authorising THEN End(p)
     ELSE Goto(p, "call") /\ lock' = IF lock = p THEN None ELSE lock
  /\ UNCHANGED <<rotates, live, issued, spoiled, state, trouble>>

(* A 401 is tried once more, with the token as it is then.                  *)
CallHelix(p) ==
  /\ work[p].at = "call"
  /\ IF live = {} /\ ~work[p].retried
     THEN work' = [work EXCEPT ![p].at = "load", ![p].retried = TRUE] /\ UNCHANGED lock
     ELSE End(p)
  /\ UNCHANGED <<tokens, state, trouble>>

-----------------------------------------------------------------------------
(* Twitch, the clock and the process.                                       *)

Disconnect ==
  /\ live # {} /\ Trouble
  /\ live' = {} /\ spoiled' = spoiled \cup live
  /\ UNCHANGED <<rotates, row, issued, state, lock, work>>

TokenAges ==
  /\ row # NotConnected /\ ~row.due
  /\ row' = [row EXCEPT !.due = TRUE]
  /\ UNCHANGED <<rotates, live, issued, spoiled, state, lock, work, trouble>>

(* A refresh that outlives its lock may find its token spent by another.    *)
LockExpires ==
  /\ lock # None /\ lock' = None
  /\ IF work[lock] = Idle THEN UNCHANGED trouble ELSE Trouble
  /\ spoiled' = spoiled \cup {work[lock].old, work[lock].token}
  /\ UNCHANGED <<rotates, row, live, issued, state, work>>

Crash ==
  /\ Trouble
  /\ work' = [p \in Procs |-> Idle]
  /\ spoiled' = spoiled \cup {work[p].old : p \in Procs}
  /\ UNCHANGED <<rotates, row, live, issued, state, lock>>

Step(p) ==
  \/ ExchangeCode(p) \/ Load(p) \/ Acquire(p) \/ Reload(p) \/ Present(p) \/ Store(p)
  \/ CallHelix(p)

Next ==
  \/ \E p \in Procs : Callback(p) \/ Request(p) \/ Step(p)
  \/ StartOAuth \/ StateAges \/ TokenAges \/ LockExpires \/ Crash
  \/ Disconnect

Spec == Init /\ [][Next]_vars

-----------------------------------------------------------------------------
TypeOK ==
  /\ row.refresh \in 0..issued /\ live \subseteq 1..issued /\ issued <= MaxTokens
  /\ lock \in Procs \cup {None}
  /\ \A p \in Procs : work[p].token \in 0..issued

(* A refresh presents a token that Twitch still takes: one it does not know *)
(* is presented under the lock only if the streamer disconnected, a new     *)
(* token was lost before it was stored, or a refresh outlived its lock;     *)
(* requests that wait for each other, an authorisation in the middle of a   *)
(* refresh and rotated tokens are no reason.  (That the broadcaster must    *)
(* reconnect is also said when Twitch only fails; that is not claimed.)     *)
PresentsGoodToken ==
  \A p \in Procs : work[p].at = "present" /\ lock = p => work[p].token \in live \cup spoiled

(* Why: the row's token is good, unless the holder of the lock has just     *)
(* spent it and is about to store the next; a token that waits to be stored *)
(* is good and, when tokens rotate, nobody else knows it yet.               *)
Ats == {"idle", "exchange", "store", "load", "acquire", "reload", "present", "call"}
Job == [at : Ats, token : Nat, old : Nat, retried : BOOLEAN, authorising : BOOLEAN]
TokensAreTyped ==
  /\ row \in [refresh : Nat, due : BOOLEAN] /\ row.refresh <= issued
  /\ issued \in Nat /\ live \subseteq Nat \ {0} /\ \A t \in live : t <= issued
  /\ work \in [Procs -> Job] /\ \A p \in Procs : work[p].token <= issued
  /\ lock \in Procs \cup {None} /\ rotates \in BOOLEAN
  /\ row.refresh = 0 => row = NotConnected
Good == live \cup spoiled
RowIsGood ==
  row # NotConnected =>
    \/ row.refresh \in Good
    \/ lock # None /\ work[lock].at = "store" /\ work[lock].old = row.refresh
StoredIsGood ==
  \A p \in Procs : work[p].at = "store" =>
    /\ work[p].token \in Good /\ work[p].token # 0
    /\ rotates => /\ work[p].token # row.refresh
                  /\ \A q \in Procs \ {p} : work[q].token # work[p].token
=============================================================================
