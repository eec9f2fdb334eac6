----------------------------- MODULE ConfigPage -----------------------------
(* The broadcaster's Config page: it asks every POLL_MS whether the extension *)
(* is wired up, and shows READY or which part is missing.                     *)
(* Sources: src/web/src/config/App.tsx, GET broadcaster/status of             *)
(* src/server/src/http/routes/ext.ts, getGpsState of domain/gps.ts.           *)
(*                                                                            *)
(* The parts change under the page and under the request that reads them.     *)
(* Answers may overtake each other.  The local stub of Twitch, the answers of *)
(* an older server, names, prices and links are left out.                     *)
EXTENDS Integers, FiniteSets

CONSTANTS
  None,
  Loads,          \* requests of the page that may be under way at once
  MaxChanges,     \* bound: changes of a part
  MaxAuths,       \* bound: authorizations by Twitch
  MaxTrouble      \* bound: answers that fail, of Twitch or of the server

VARIABLES
  parts,          \* what the status is about
  role,           \* of the token in hand, None before the first authorization
  visible,        \* the dashboard's tab
  load,           \* per request: where it is, its token's role and what it has read
  status,         \* what the page was told last
  error,
  notBroadcaster,
  changes, auths, trouble

vars == <<parts, role, visible, load, status, error, notBroadcaster, changes, auths, trouble>>

Rewards == {"none", "off", "on"}
Gps == {"ok", "inaccurate", "stale", "missing"}
Parts == [connected : BOOLEAN, subs : 0..1, reward : Rewards, gps : Gps, demo : BOOLEAN,
          mapbox : BOOLEAN]
Unasked == -1       \* Twitch did not say how many subscriptions there are
Unread == [connected |-> FALSE, subs |-> 0, reward |-> FALSE, gps |-> "missing", demo |-> FALSE,
           mapbox |-> FALSE]
Free == [at |-> "free", role |-> None, row |-> FALSE, got |-> Unread]

Wired == [connected |-> TRUE, subs |-> 1, reward |-> "on", gps |-> "ok", demo |-> FALSE,
          mapbox |-> TRUE]
(* At most one part is missing, or the demo hides that it is.               *)
AlmostWired ==
  {Wired, [Wired EXCEPT !.connected = FALSE], [Wired EXCEPT !.reward = "off"],
   [Wired EXCEPT !.gps = "missing", !.demo = TRUE]}

Init ==
  /\ parts \in AlmostWired /\ changes = 0
  /\ role = None /\ auths = 0 /\ visible = TRUE
  /\ load = [l \in Loads |-> Free]
  /\ status = None /\ error = FALSE /\ notBroadcaster = FALSE
  /\ trouble = 0

Trouble == trouble < MaxTrouble /\ trouble' = trouble + 1
page == <<role, visible, status, error, notBroadcaster, auths>>

-----------------------------------------------------------------------------
(* The server.                                                              *)

(* While the demo is on the stored fix plays no part.                       *)
GpsState(p) == IF p.demo THEN "ok" ELSE p.gps

(* A fresh fix too inaccurate to price from reads as stale.                 *)
ToldGps(gps) == IF gps = "inaccurate" THEN "stale" ELSE gps

ServerReady(got) ==
  got.connected /\ got.subs > 0 /\ got.mapbox /\ got.reward /\ (got.gps = "ok" \/ got.demo)

(* Only the owner's token gets an answer; the handler then reads what the   *)
(* server has itself: the fix, the tokens and the reward's row.             *)
ReadOwn(l) ==
  /\ load[l].at = "sent"
  /\ load' = [load EXCEPT ![l] =
       IF @.role # "broadcaster" THEN [@ EXCEPT !.at = "forbidden"]
       ELSE [@ EXCEPT !.at = "asking", !.row = parts.reward # "none",
                      !.got = [@ EXCEPT !.connected = parts.connected, !.demo = parts.demo,
                                        !.mapbox = parts.mapbox,
                                        !.gps = ToldGps(GpsState(parts))]]]
  /\ UNCHANGED <<parts, page, changes, trouble>>

(* eventSubCounts and exchangeRewardLive, when there is a token to ask with.*)
(* Twitch not answering is no subscription to rely on and no live reward.   *)
AskTwitch(l) ==
  /\ load[l].at = "asking"
  /\ \E subs \in {parts.subs, Unasked}, live \in {parts.reward = "on", FALSE} :
       LET asked == load[l].got.connected
           fails == asked /\ (subs = Unasked \/ live # (parts.reward = "on"))
       IN /\ IF fails THEN Trouble ELSE UNCHANGED trouble
          /\ load' = [load EXCEPT ![l].at = "answered",
                        ![l].got.subs = IF asked THEN subs ELSE 0,
                        ![l].got.reward = asked /\ load[l].row /\ live]
  /\ UNCHANGED <<parts, page, changes>>

(* The server, or the way to it, fails.                                     *)
RequestFails(l) ==
  /\ load[l].at \in {"sent", "asking"}
  /\ Trouble
  /\ load' = [load EXCEPT ![l].at = "failed"]
  /\ UNCHANGED <<parts, page, changes>>

-----------------------------------------------------------------------------
(* The page.                                                                *)

(* load: nothing is asked without a token.                                  *)
Ask(l, as) ==
  /\ load[l] = Free
  /\ load' = [load EXCEPT ![l] = [Free EXCEPT !.at = "sent", !.role = as]]

Busy == \A l \in Loads : load[l] # Free

(* Twitch authorizes again from time to time, and each time the page asks.  *)
OnAuthorized(l, as) ==
  /\ auths < MaxAuths /\ auths' = auths + 1
  /\ role' = as
  /\ Ask(l, as)
  /\ UNCHANGED <<parts, visible, status, error, notBroadcaster, changes, trouble>>

(* Twitch's helper reports an error.                                        *)
OnError ==
  /\ Trouble /\ error' = TRUE
  /\ UNCHANGED <<parts, role, visible, load, status, notBroadcaster, changes, auths>>

(* The interval, only while the tab is in view.                             *)
Poll(l) ==
  /\ role # None /\ visible
  /\ Ask(l, role)
  /\ UNCHANGED <<parts, page, changes, trouble>>

OnVisible(l) ==
  /\ ~visible /\ visible' = TRUE
  /\ IF role = None \/ Busy THEN UNCHANGED load ELSE Ask(l, role)
  /\ UNCHANGED <<parts, role, status, error, notBroadcaster, changes, auths, trouble>>
Hide ==
  /\ visible /\ visible' = FALSE
  /\ UNCHANGED <<parts, role, load, status, error, notBroadcaster, changes, auths, trouble>>

(* missingParts, the page's own list of what to do.                         *)
Problems(s) ==
  {p \in {"twitch", "eventsub", "mapbox", "reward", "gps"} :
     \/ p = "twitch" /\ ~s.connected
     \/ p = "eventsub" /\ s.subs <= 0
     \/ p = "mapbox" /\ ~s.mapbox
     \/ p = "reward" /\ ~s.reward
     \/ p = "gps" /\ s.gps # "ok" /\ ~s.demo}

(* parseStatus: the server's verdict wins.                                  *)
ParseStatus(got) == [got |-> got, ready |-> ServerReady(got)]

(* An answer settles that the page is somebody else's.                      *)
StaysBarred == notBroadcaster
Barred == FALSE

TakeStatus(l) ==
  /\ load[l].at = "answered"
  /\ status' = ParseStatus(load[l].got)
  /\ error' = FALSE /\ notBroadcaster' = Barred
  /\ load' = [load EXCEPT ![l] = Free]
  /\ UNCHANGED <<parts, role, visible, changes, auths, trouble>>

TakeFailure(l) ==
  /\ load[l].at \in {"failed", "forbidden"}
  /\ IF load[l].at = "forbidden" THEN notBroadcaster' = TRUE /\ UNCHANGED error
     ELSE error' = TRUE /\ UNCHANGED notBroadcaster
  /\ load' = [load EXCEPT ![l] = Free]
  /\ UNCHANGED <<parts, role, visible, status, changes, auths, trouble>>

(* What the page is about when it is on screen.                             *)
View ==
  IF notBroadcaster THEN "not yours"
  ELSE IF status = None THEN IF error THEN "unavailable" ELSE "waiting"
  ELSE IF status.ready THEN "ready" ELSE "missing"

(* The tones of the rows under the verdict.                                 *)
GpsTone(s) ==
  IF s.demo \/ s.gps = "inaccurate" THEN "warn" ELSE IF s.gps = "ok" THEN "ok" ELSE "bad"
Tones(s) ==
  {IF s.connected THEN "ok" ELSE "bad", IF s.mapbox THEN "ok" ELSE "bad",
   IF s.subs > 0 THEN "ok" ELSE "bad", IF s.reward THEN "ok" ELSE "bad", GpsTone(s)}

-----------------------------------------------------------------------------
Change ==
  /\ changes < MaxChanges /\ changes' = changes + 1
  /\ parts' \in AlmostWired /\ parts' # parts
  /\ parts'.demo = parts.demo /\ parts'.mapbox = parts.mapbox    \* of the environment
  /\ UNCHANGED <<page, load, trouble>>

Next ==
  \/ Change \/ OnError \/ Hide
  \/ \E l \in Loads :
       \/ ReadOwn(l) \/ AskTwitch(l) \/ RequestFails(l)
       \/ Poll(l) \/ OnVisible(l) \/ TakeStatus(l) \/ TakeFailure(l)
       \/ \E as \in {"broadcaster", "viewer"} : OnAuthorized(l, as)

(* Requests end, with an answer or without, and the interval keeps firing.  *)
Proceed(l) == ReadOwn(l) \/ AskTwitch(l) \/ Poll(l) \/ TakeStatus(l) \/ TakeFailure(l)
Fairness == \A l \in Loads : WF_vars(Proceed(l))

Spec == Init /\ [][Next]_vars /\ Fairness

-----------------------------------------------------------------------------
Stages == {"free", "sent", "asking", "answered", "failed", "forbidden"}
TypeOK ==
  /\ parts \in Parts /\ role \in {None, "broadcaster", "viewer"}
  /\ \A l \in Loads : load[l].at \in Stages
  /\ visible \in BOOLEAN /\ error \in BOOLEAN /\ notBroadcaster \in BOOLEAN

(* What the parts really lack, and whether the page says so: the verdict, the *)
(* rows under it and the list of what to do.                                *)
Lacking ==
  Problems([connected |-> parts.connected, subs |-> parts.subs, mapbox |-> parts.mapbox,
            reward |-> parts.reward = "on", gps |-> ToldGps(GpsState(parts)), demo |-> parts.demo])
RightlyShown ==
  /\ View = IF Lacking = {} THEN "ready" ELSE "missing"
  /\ Lacking \subseteq Problems(status.got)
  /\ (View = "missing") <=> ("bad" \in Tones(status.got))

InView == visible /\ role = "broadcaster"

(* An owner who keeps the page in view is shown the right verdict in the    *)
(* end, and what to do about it, although answers overtake each other, fail,*)
(* and mix what was read before and after a change.                         *)
StatusCatchesUp == <>[]InView => []<>RightlyShown
=============================================================================
