---------------------------- MODULE ChannelPanel ----------------------------
(* The extension's Panel under the stream: prices, the last waypoint, and     *)
(* whether the channel is live.  It never sells.                              *)
(* Sources: src/web/src/panel/App.tsx, panel/useLiveStatus.ts, GET state of   *)
(* src/server/src/http/routes/ext.ts, buildViewerState of                     *)
(* domain/waypointFlow.ts.  Its wallet is the viewer's (ViewerWallet).        *)
(*                                                                            *)
(* A person is who stands behind the token, a version is the state of the     *)
(* last waypoint, and what Twitch says of the channel is a version too: odd   *)
(* while it is live.  Prices, the waypoint and the channel share the token    *)
(* and nothing else, so a behaviour follows one of the three.                 *)
EXTENDS Integers, FiniteSets

CONSTANTS
  None,
  Viewers,
  MaxPicks,       \* bound: clicks on the map, and choices of the search
  MaxVersion,     \* bound: changes of the waypoint
  MaxStreams,     \* bound: the channel goes on and off the air
  MaxDrops,       \* bound: connections lost, and requests that fail
  MaxAuths        \* bound: authorizations by Twitch

VARIABLES
  about,          \* bound: "price", "last" or "air", what the behaviour follows
  who,            \* linked viewer, "anonymous", "unlinked" or None, behind the token
  auths,
  picks,          \* pickSeqRef
  card,           \* what is priced: kind, and the pick it was for
  quotes,         \* requests for a price under way
  version, link,  \* the last waypoint at the server, the socket
  signals,        \* events sent and not yet received
  reads,          \* requests of the state: in order, and what was read
  state,          \* version shown
  newest,         \* the newest version the page was told
  stream,         \* at Twitch
  checks,         \* requests of useLiveStatus
  live,
  drops

vars == <<about, who, auths, picks, card, quotes, version, link, signals, reads, state, newest, stream,
          checks, live, drops>>
prices == <<picks, card, quotes>>
lasts == <<version, link, signals, reads, state, newest>>
airs == <<stream, checks, live>>

Strangers == {"anonymous", "unlinked"}
Linked == who \in Viewers
Idle == [kind |-> "idle", pick |-> 0]
Unread == 0 - 1
Unanswered == 0 - 2

Follows(aspect) == about = aspect /\ UNCHANGED about

Init ==
  /\ about \in {"price", "last", "air"}
  /\ who = None /\ auths = 0
  /\ picks = 0 /\ card = Idle /\ quotes = {}
  /\ version = 0 /\ link = FALSE /\ signals = 0 /\ reads = {} /\ state = None /\ newest = None
  /\ stream = 0 /\ checks = {} /\ live = "unknown"
  /\ drops = 0

Drop == drops < MaxDrops /\ drops' = drops + 1

-----------------------------------------------------------------------------
(* refresh, at every authorization, connection and event of the waypoint:   *)
(* the answers are taken in the order in which they come.                   *)
Refresh == reads' = reads \cup {[n |-> 1 + Cardinality(reads), read |-> Unread]}
RoomToRead == Cardinality(reads) < 2        \* bound: two under way at once

(* useLiveStatus starts over with every token: what was asked with the old  *)
(* one is forgotten.                                                        *)
Check == [stream |-> Unread, current |-> TRUE]
Forgotten == {[c EXCEPT !.current = FALSE] : c \in checks}

(* A different person loses the error that was shown to the last.           *)
OnAuthorized(person) ==
  /\ auths < MaxAuths /\ auths' = auths + 1
  /\ who' = person
  /\ card' = IF person # who /\ person \in Viewers /\ card.kind = "error" THEN Idle ELSE card
  /\ IF about = "last" THEN RoomToRead /\ Refresh ELSE UNCHANGED reads
  /\ IF about = "air" THEN checks' = Forgotten \cup {Check} ELSE UNCHANGED checks
  /\ UNCHANGED <<about, picks, quotes, version, link, signals, state, newest, stream, live, drops>>

-----------------------------------------------------------------------------
(* handlePick: a price only, and only for somebody to quote it to.          *)
HandlePick ==
  /\ Follows("price")
  /\ IF Linked
     THEN /\ picks < MaxPicks /\ picks' = picks + 1
          /\ card' = [kind |-> "loading", pick |-> picks + 1]
          /\ quotes' = quotes \cup {[pick |-> picks + 1, answer |-> None]}
     ELSE /\ card' = [kind |-> "error", pick |-> 0]
          /\ UNCHANGED <<picks, quotes>>
  /\ UNCHANGED <<who, auths, lasts, airs, drops>>

PriceIt(q, answer) ==
  /\ Follows("price")
  /\ q \in quotes /\ q.answer = None
  /\ answer = "error" => drops < MaxDrops
  /\ drops' = IF answer = "error" THEN drops + 1 ELSE drops
  /\ quotes' = (quotes \ {q}) \cup {[q EXCEPT !.answer = answer]}
  /\ UNCHANGED <<who, auths, picks, card, lasts, airs>>

IsLastPick(q) == q.pick = picks
AnyPick(q) == TRUE

TakePrice(q) ==
  /\ Follows("price")
  /\ q \in quotes /\ q.answer # None
  /\ quotes' = quotes \ {q}
  /\ card' = IF IsLastPick(q) THEN [kind |-> q.answer, pick |-> q.pick] ELSE card
  /\ UNCHANGED <<who, auths, picks, lasts, airs, drops>>

-----------------------------------------------------------------------------
(* The waypoint changes at the server, which tells whoever is connected.    *)
WaypointChanges ==
  /\ Follows("last")
  /\ version < MaxVersion /\ version' = version + 1
  /\ signals' = IF link THEN signals + 1 ELSE signals
  /\ UNCHANGED <<who, auths, prices, link, reads, state, newest, airs, drops>>

Connect ==
  /\ Follows("last")
  /\ who # None /\ ~link /\ link' = TRUE
  /\ RoomToRead /\ Refresh
  /\ UNCHANGED <<who, auths, prices, version, signals, state, newest, airs, drops>>

Disconnect ==
  /\ Follows("last")
  /\ link /\ Drop
  /\ link' = FALSE /\ signals' = 0
  /\ UNCHANGED <<who, auths, prices, version, reads, state, newest, airs>>

OnWaypointEvent ==
  /\ Follows("last")
  /\ signals > 0 /\ signals' = signals - 1
  /\ RoomToRead /\ Refresh
  /\ UNCHANGED <<who, auths, prices, version, link, state, newest, airs, drops>>

BuildViewerState(r) ==
  /\ Follows("last")
  /\ r \in reads /\ r.read = Unread
  /\ reads' = (reads \ {r}) \cup {[r EXCEPT !.read = version]}
  /\ UNCHANGED <<who, auths, prices, version, link, signals, state, newest, airs, drops>>

(* refresh swallows an error and keeps what is shown.                       *)
ReadFails(r) ==
  /\ Follows("last")
  /\ r \in reads /\ r.read = Unread /\ Drop
  /\ reads' = (reads \ {r}) \cup {[r EXCEPT !.read = Unanswered]}
  /\ UNCHANGED <<who, auths, prices, version, link, signals, state, newest, airs>>

Renumber(rs) == {[r EXCEPT !.n = Cardinality({x \in rs : x.n <= r.n})] : r \in rs}
TakeState(r) ==
  /\ Follows("last")
  /\ r \in reads /\ r.read # Unread
  /\ reads' = Renumber(reads \ {r})
  /\ IF r.read = Unanswered THEN UNCHANGED <<state, newest>>
     ELSE /\ state' = r.read
          /\ newest' = IF newest = None \/ r.read > newest THEN r.read ELSE newest
  /\ UNCHANGED <<who, auths, prices, version, link, signals, airs, drops>>

-----------------------------------------------------------------------------
StreamChanges ==
  /\ Follows("air")
  /\ stream < MaxStreams /\ stream' = stream + 1
  /\ UNCHANGED <<who, auths, prices, lasts, checks, live, drops>>

(* Every minute, besides the first time.                                    *)
CheckAgain ==
  /\ Follows("air")
  /\ who # None /\ Cardinality(checks) < 2 /\ Check \notin checks
  /\ checks' = checks \cup {Check}
  /\ UNCHANGED <<who, auths, prices, lasts, stream, live, drops>>

GetStreams(c, said) ==
  /\ Follows("air")
  /\ c \in checks /\ c.stream = Unread
  /\ said = Unanswered => drops < MaxDrops
  /\ drops' = IF said = Unanswered THEN drops + 1 ELSE drops
  /\ checks' = (checks \ {c}) \cup {[c EXCEPT !.stream = said]}
  /\ UNCHANGED <<who, auths, prices, lasts, stream, live>>

TakeLive(c) ==
  /\ Follows("air")
  /\ c \in checks /\ c.stream # Unread
  /\ checks' = checks \ {c}
  /\ live' = IF ~c.current THEN live
             ELSE IF c.stream = Unanswered THEN "unknown"
             ELSE IF c.stream % 2 = 1 THEN "live" ELSE "offline"
  /\ UNCHANGED <<who, auths, prices, lasts, stream, drops>>

(* The only button under a price: the way to the stream, or nothing.        *)
Button == IF card.kind # "quoted" THEN "none" ELSE IF live = "live" THEN "to the stream" ELSE "disabled"

Next ==
  \/ \E person \in Viewers \cup Strangers : OnAuthorized(person)
  \/ HandlePick
  \/ \E q \in quotes : PriceIt(q, "quoted") \/ PriceIt(q, "error") \/ TakePrice(q)
  \/ WaypointChanges \/ Connect \/ Disconnect \/ OnWaypointEvent
  \/ \E r \in reads : BuildViewerState(r) \/ ReadFails(r) \/ TakeState(r)
  \/ StreamChanges \/ CheckAgain
  \/ \E c \in checks : GetStreams(c, stream) \/ GetStreams(c, Unanswered) \/ TakeLive(c)

Spec == Init /\ [][Next]_vars

-----------------------------------------------------------------------------
TypeOK ==
  /\ who \in Viewers \cup Strangers \cup {None} /\ picks \in 0..MaxPicks
  /\ card.kind \in {"idle", "loading", "error", "quoted"} /\ card.pick \in 0..MaxPicks
  /\ live \in {"live", "offline", "unknown"}

(* A price on the card is of the place that was clicked last: the answer to *)
(* an earlier click does not take its place, however late it comes.         *)
PriceIsOfLastPick == card.kind = "quoted" => card.pick = picks

(* With nothing under way the Panel shows the last waypoint as it is, unless*)
(* the connection or a request was lost, or a late answer took over.        *)
LastIsShown ==
  link /\ signals = 0 /\ reads = {} /\ drops = 0 => state = version \/ state # newest

(* Why: as long as nothing was lost, what the Panel has not been told of    *)
(* the waypoint is on its way.                                              *)
Known(v) == v \in Nat /\ v <= version
LastIsTyped ==
  /\ version \in Nat /\ signals \in Nat /\ drops \in Nat
  /\ newest = None \/ Known(newest)
  /\ \A r \in reads : DOMAIN r = {"n", "read"} /\ (r.read \in {Unread, Unanswered} \/ Known(r.read))
LastIsOnItsWay ==
  drops = 0 =>
    /\ \A r \in reads : r.read # Unanswered
    /\ link => newest = version \/ signals > 0 \/ \E r \in reads : r.read \in {Unread, version}
=============================================================================
