----------------------------- MODULE ProvedParts -----------------------------
(* Small modules that share no state, each on its own instance: part names    *)
(* the one that runs.  They take turns on the variables s1 to s16.  Here are  *)
(* the parts of which something is proved, for any number of processes,       *)
(* sockets, viewers, offers, quotes and tokens: each one's inductive invariant*)
(* with what keeps it.  MCParts adds the other parts, those of the books, of  *)
(* the reports of a page and of the page load under the verdict with their    *)
(* lemmas, runs them all, and has the theorems that follow.                   *)
EXTENDS Integers, FiniteSets, Sequences, TLAPS

CONSTANTS
  Procs,        \* processes of the server, or the requests it works on at a time
  Viewers,
  MaxTokens, MaxMade,    \* refresh tokens and subscriptions that Twitch issues
  Instances, Sockets,
  Offers, Owner, OfferPrice, Redemptions, MaxPool,  \* of the pool of slots
  MaxRows, MaxReads, MaxTurns,                 \* of the viewer's wallet
  Quotes, MaxNews,                             \* of the viewer's page
  Terms, Places,                               \* what there is to be found, and where
  Spots, Timeouts, MaxAge, Jobs,               \* of the maps and the HUD
  Values, Loads,                               \* of the forms
  GpsTimeout, ClockSkew, ClockAhead,           \* of the phone, in rounds
  Askers, Earlier, Ground, Marks, NoGo, RouteOf, MaxWalk, MaxSnap, QuoteCodes, MaxTries,  \* of quotes
  Visits,                                      \* trips to Twitch's consent page
  Bids,                                        \* quotes that the acceptance list follows
  Openings, SilentAfter, RetainedFor,          \* of the page load that the verdict is about
  MaxReports,                                  \* events that a page load reports
  LineSize, BufferSize, KeepBurst,             \* of the request log
  MaxBuild,                                    \* of the service worker
  MaxVersion, MaxMoves, MaxEdits, MaxDrops, MaxTrouble,
  None, Asked, Lost, Half, Refused, Failed, Stranger, Other

(* A model value is not a name, a row or a number of the program.             *)
ASSUME PartsAssumption ==
  /\ None \notin Procs \union Viewers \union Offers \union Redemptions \union Quotes \union Int
  /\ (Viewers \union {None}) \intersect {"all", "viewers", "trusted"} = {}
  /\ None \notin [for : {"all", "viewers", "trusted"} \union Viewers, at : Procs, origin : Instances]
  /\ Owner \in [Offers -> Viewers] /\ OfferPrice \in [Offers -> Nat] /\ MaxPool \in Nat \ {0}
  /\ Quotes \subseteq Int /\ Quotes \intersect {Asked, Refused, Other} = {}
  /\ None # Asked /\ None # Refused /\ Asked # Refused /\ Lost \notin {None, Asked}
  /\ {None, Asked, Lost} \intersect {"active", "completed", "canceled", "refused", "poor", "limited",
                             "identity", "dead", "busy", "network"} = {}
  /\ {Asked, Lost, Refused, Half} \intersect Int = {} /\ None \notin Terms \union Spots \union Jobs
  /\ {None, Asked, Lost} \intersect [{"minimumCost", "maximumCost"} -> Int \union {Half}] = {}
  /\ Values \subseteq Int /\ (\E v \in Values : \A w \in Values : v <= w)
  /\ Timeouts \subseteq Nat /\ (\E l \in Timeouts : \A m \in Timeouts : l <= m)
  /\ {GpsTimeout, ClockSkew, ClockAhead, MaxWalk, MaxSnap, MaxTries, MaxRows} \subseteq Nat
  /\ Ground \subseteq Nat /\ Marks \subseteq Nat /\ None \notin Askers /\ IsFiniteSet(Askers)
  /\ RouteOf \in [Ground \X (Marks \ NoGo) -> [distance : Nat, snap : Nat] \union {None}]
  /\ None \notin [distance : Nat, snap : Nat]
  /\ None \notin {"fresh", "old"}
  /\ None \notin [account : {"own", "foreign"}, scopes : {"all", "some"}, spent : BOOLEAN]
  /\ None \notin {"needs_login", "forbidden", "price_changed", "provider_error", "not_found",
                  "invalid_request", "internal"}
  /\ None \notin [from : {"api", "front"}, status : Nat, text : {"empty", "prose", "json"},
                  code : {"needs_login", "forbidden", "price_changed", "provider_error", "not_found",
                          "invalid_request", "internal", "strange", None}, russian : BOOLEAN]
  /\ None \notin Openings /\ None \notin {"video_overlay", "mobile"}
  /\ None \notin [id : Nat, load : Openings, ts : Nat]
  /\ {SilentAfter, RetainedFor, MaxReports, LineSize, BufferSize, KeepBurst} \subseteq Nat
  /\ None \notin {"on", "off", "hidden", "shown"}
  /\ MaxAge \in Nat /\ (\A l \in Timeouts : l < MaxAge) /\ MaxBuild \in Nat \ {0}

VARIABLES part, s1, s2, s3, s4, s5, s6, s7, s8, s9, s10, s11, s12, s13, s14, s15, s16

Con == INSTANCE Connection WITH
  rotates <- s1, row <- s2, live <- s3, issued <- s4, state <- s5, lock <- s6, work <- s7,
  spoiled <- s8, trouble <- s9
Sub == INSTANCE Subscriptions WITH
  app <- s1, subs <- s2, made <- s3, work <- s4, trouble <- s5
Start == INSTANCE Startup WITH
  proc <- s1, effects <- s2, recorded <- s3, row <- s4, up <- s5, trouble <- s6
Fan == INSTANCE Fanout WITH
  instance <- s1, socket <- s2, event <- s3, transit <- s4, missed <- s5, present <- s6,
  heard <- s7
News == INSTANCE JobNews WITH
  MaxLoads <- MaxEdits, page <- s1, version <- s2, emits <- s3, link <- s4,
  snapshot <- s5, queue <- s6, load <- s7, loads <- s8, request <- s9, shown <- s10,
  seen <- s11, arm <- s12, replaced <- s13, drops <- s14
Slot == INSTANCE SlotPool WITH
  Quotes <- Offers, Price <- OfferPrice, Workers <- Procs, slot <- s1, reward <- s2,
  quote <- s3, dead <- s4, paid <- s5, seen <- s6, record <- s7, active <- s8,
  settings <- s9, lock <- s10, work <- s11, trouble <- s12, closed <- s13, bought <- s14,
  unsure <- s15, moderated <- s16
Page == INSTANCE ViewerPage WITH
  gta <- s1, status <- s2, charged <- s3, running <- s4, news <- s5, pick <- s6, buy <- s7,
  confirm <- s8, orphans <- s9, overtaken <- s10, card <- s11
Wallet == INSTANCE ViewerWallet WITH
  MaxTokens <- MaxTurns, rows <- s1, identity <- s2, tokens <- s3, reads <- s4,
  wallet <- s5, toast <- s6, load <- s7, topUp <- s8, announced <- s9, room <- s10,
  signals <- s11
Map == INSTANCE ViewerMap WITH
  Positions <- Spots, Destinations <- Spots, MaxAuths <- MaxVersion, auths <- s1,
  asked <- s2, fallback <- s3, config <- s4, mounted <- s5, player <- s6, route <- s7,
  map <- s8
Search == INSTANCE PlaceSearch WITH
  MaxTyped <- MaxVersion, enabled <- s1, query <- s2, results <- s3, loading <- s4,
  error <- s5, open <- s6, timer <- s7, asks <- s8, typed <- s9, cache <- s10,
  picked <- s11, trouble <- s12
Helper == INSTANCE HelperBridge WITH
  MaxAuths <- MaxMoves, said <- s1, wired <- s2, latest <- s3, bundle <- s4, config <- s5,
  viewer <- s6
Panel == INSTANCE ChannelPanel WITH
  MaxPicks <- MaxMoves, MaxVersion <- MaxMoves, MaxStreams <- MaxMoves,
  MaxAuths <- MaxMoves, about <- s1, who <- s2, auths <- s3, picks <- s4, card <- s5,
  quotes <- s6, version <- s7, link <- s8, signals <- s9, reads <- s10, state <- s11,
  newest <- s12, stream <- s13, checks <- s14, live <- s15, drops <- s16
Set == INSTANCE SettingsForm WITH
  MaxTyped <- MaxEdits, MaxOthers <- MaxEdits, stored <- s1, others <- s2,
  external <- s3, poll <- s4, wire <- s5, server <- s6, draft <- s7, stale <- s8,
  loading <- s9, loads <- s10, put <- s11, typed <- s12, edits <- s13, trouble <- s14
Econ == INSTANCE EconomyForm WITH
  MaxChanges <- MaxVersion, setting <- s1, version <- s2, polled <- s3, statePoll <- s4,
  data <- s5, failed <- s6, inFlight <- s7, again <- s8, busy <- s9, done <- s10,
  saved <- s11, draft <- s12, adopted <- s13, edits <- s14, trouble <- s15
Obs == INSTANCE ObsPage WITH
  Positions <- Spots, Limits <- Timeouts, fix <- s1, config <- s2, link <- s3, gps <- s4,
  limit <- s5, job <- s6, map <- s7, drops <- s8, news <- s9
Shell == INSTANCE ServiceWorker WITH
  build <- s1, online <- s2, worker <- s3, earlier <- s4, cache <- s5, puts <- s6,
  page <- s7, kept <- s8, moves <- s9
Phone == INSTANCE PhoneGps WITH
  Timeout <- GpsTimeout, Skew <- ClockSkew, Ahead <- ClockAhead, ahead <- s1, state <- s2,
  hasFix <- s3, armed <- s4, last <- s5, pending <- s6, sent <- s7, rested <- s8,
  link <- s9, wire <- s10, latest <- s11
Quote == INSTANCE ViewerQuote WITH
  Workers <- Procs, Viewers <- Askers, Others <- Earlier, Positions <- Ground,
  Places <- Marks, Zone <- NoGo, Codes <- QuoteCodes, cache <- s1, work <- s2, lock <- s3,
  quotes <- s4, trouble <- s5
Call == INSTANCE ApiCall WITH
  call <- s1, engine <- s2, answer <- s3, aborted <- s4, result <- s5
OAuth == INSTANCE OAuthConnect WITH
  Handlers <- Procs, state <- s1, code <- s2, work <- s3, tokens <- s4, setUp <- s5,
  connects <- s6, trouble <- s7
Acc == INSTANCE Acceptance WITH
  Quotes <- Bids, MaxLost <- MaxDrops, linked <- s1, received <- s2, ledger <- s3,
  quotes <- s4, waypoints <- s5, notes <- s6, toEmit <- s7, emitted <- s8, at <- s9,
  reads <- s10, report <- s11, lost <- s12

-----------------------------------------------------------------------------
(* The tokens of the channel: Connection.                                   *)

(* No channel is connected yet, and no process refreshes.                   *)
LEMMA ConBegins ==
  ASSUME Con!Init PROVE Con!TokensAreTyped /\ Con!RowIsGood /\ Con!StoredIsGood /\ Con!PresentsGoodToken
BY DEF Con!Init, Con!TokensAreTyped, Con!RowIsGood, Con!StoredIsGood, Con!PresentsGoodToken, Con!Idle,
   Con!NotConnected, Con!Job, Con!Ats

(* What a process knows of the tokens was issued.                           *)
LEMMA ConTypes ==
  ASSUME Con!TokensAreTyped, Con!Next PROVE Con!TokensAreTyped'
<1> USE DEF Con!TokensAreTyped, Con!Job, Con!Ats, Con!Goto, Con!tokens, Con!NotConnected
<1> DEFINE T == Con!TokensAreTyped'
<1>0. Con!Idle \in Con!Job /\ Con!Idle.token = 0
  BY DEF Con!Idle
<1>1. ASSUME NEW p \in Procs, Con!Callback(p) PROVE T
  BY <1>1 DEF Con!Callback
<1>2. ASSUME NEW p \in Procs, Con!Request(p) PROVE T
  BY <1>2 DEF Con!Request
<1>3. ASSUME NEW p \in Procs, Con!ExchangeCode(p) PROVE T
  BY <1>0, <1>3 DEF Con!ExchangeCode, Con!End
<1>4. ASSUME NEW p \in Procs, Con!Load(p) PROVE T
  BY <1>0, <1>4 DEF Con!Load, Con!End
<1>5. ASSUME NEW p \in Procs, Con!Acquire(p) PROVE T
  BY <1>0, <1>5 DEF Con!Acquire, Con!End
<1>6. ASSUME NEW p \in Procs, Con!Reload(p) PROVE T
  <2>0. s2.refresh \in Nat /\ s2.refresh <= s4
    OBVIOUS
  <2>1. s7' \in [Procs -> Con!Job] /\ \A q \in Procs : s7'[q].token <= s4
    <3>1. s7' = [s7 EXCEPT ![p].at = IF s2.due THEN "present" ELSE "call", ![p].token = s2.refresh]
      BY <1>6 DEF Con!Reload, Con!ReadAgain
    <3>2. PICK at \in {"present", "call"} : s7' = [s7 EXCEPT ![p].at = at, ![p].token = s2.refresh]
      BY <3>1
    <3>3. [s7[p] EXCEPT !.at = at, !.token = s2.refresh] \in Con!Job
      BY <2>0, ZenonT(60)
    <3>4. s7' = [s7 EXCEPT ![p] = [s7[p] EXCEPT !.at = at, !.token = s2.refresh]]
      BY <3>2
    <3>5. s7'[p].token = s2.refresh /\ \A q \in Procs \ {p} : s7'[q] = s7[q]
      BY <3>4
    <3>6. QED
      BY <2>0, <3>3, <3>4, <3>5
  <2>2. UNCHANGED <<s1, s2, s3, s4>> /\ s6' \in {s6, None}
    BY <1>6 DEF Con!Reload
  <2>3. QED
    BY <2>1, <2>2
<1>7. ASSUME NEW p \in Procs, Con!Present(p) PROVE T
  <2>1. s7' \in [Procs -> Con!Job]
    BY <1>0, <1>7 DEF Con!Present, Con!End
  <2>6. UNCHANGED <<s3, s4>> \/ (s4' = s4 + 1 /\ s3' = (s3 \ {s7[p].token}) \union {s4 + 1})
    BY <1>7 DEF Con!Present
  <2>2. s4' \in Nat /\ s4 <= s4' /\ s3' \subseteq Nat \ {0} /\ \A t \in s3' : t <= s4'
    <3>1. CASE UNCHANGED <<s3, s4>>
      BY <3>1
    <3>2. CASE s4' = s4 + 1 /\ s3' = (s3 \ {s7[p].token}) \union {s4 + 1}
      <4>1. s4 \in Nat /\ s3 \subseteq Nat \ {0} /\ \A t \in s3 : t <= s4
        OBVIOUS
      <4>2. \A t \in s3' : t \in s3 \/ t = s4 + 1
        BY <3>2
      <4>3. ASSUME NEW t \in s3' PROVE t \in Nat \ {0} /\ t <= s4 + 1
        <5>1. s4 \in Nat
          BY <4>1
        <5>2. CASE t = s4 + 1
          BY <5>1, <5>2
        <5>3. CASE t \in s3
          BY <4>1, <5>3
        <5>4. QED
          BY <4>2, <5>2, <5>3
      <4>4. s4' = s4 + 1 /\ s4 + 1 \in Nat /\ s4 <= s4 + 1
        BY <3>2, <4>1
      <4>5. QED
        BY <4>3, <4>4
    <3>3. QED
      BY <2>6, <3>1, <3>2
  <2>3. UNCHANGED <<s1, s2>> /\ s6' \in Procs \union {None}
    BY <1>7 DEF Con!Present, Con!End
  <2>4. \A q \in Procs : s7'[q].token <= s4'
    BY <1>0, <1>7 DEF Con!Present, Con!End
  <2>5. QED
    BY <2>1, <2>2, <2>3, <2>4
<1>8. ASSUME NEW p \in Procs, Con!Store(p) PROVE T
  <2>1. s7' \in [Procs -> Con!Job] /\ \A q \in Procs : s7'[q].token <= s4
    BY <1>0, <1>8 DEF Con!Store, Con!End
  <2>2. s2' = [refresh |-> s7[p].token, due |-> FALSE]
    BY <1>8 DEF Con!Store, Con!StoredRow
  <2>3. UNCHANGED <<s1, s3, s4>> /\ s6' \in Procs \union {None}
    BY <1>8 DEF Con!Store, Con!End
  <2>4. s7[p] \in Con!Job /\ s7[p].token <= s4
    OBVIOUS
  <2>5. s2' \in [refresh : Nat, due : BOOLEAN] /\ s2'.refresh <= s4 /\ (s2'.refresh = 0 => s2' = Con!NotConnected)
    BY <2>2, <2>4
  <2>6. QED
    BY <2>1, <2>3, <2>5
<1>9. ASSUME NEW p \in Procs, Con!CallHelix(p) PROVE T
  BY <1>0, <1>9 DEF Con!CallHelix, Con!End
<1>10. ASSUME Con!StartOAuth \/ Con!StateAges \/ Con!TokenAges PROVE T
  BY <1>10 DEF Con!StartOAuth, Con!StateAges, Con!TokenAges
<1>11. ASSUME Con!LockExpires \/ Con!Disconnect PROVE T
  BY <1>11 DEF Con!LockExpires, Con!Disconnect
<1>12. ASSUME Con!Crash PROVE T
  BY <1>0, <1>12 DEF Con!Crash
<1>13. QED
  BY <1>1, <1>2, <1>3, <1>4, <1>5, <1>6, <1>7, <1>8, <1>9, <1>10, <1>11, <1>12 DEF Con!Next,
     Con!Step

(* The row holds a live token, unless it was spoiled in a crash; a process  *)
(* that has exchanged one holds the lock until it has stored the next.      *)
LEMMA ConStep ==
  ASSUME Con!TokensAreTyped, Con!RowIsGood, Con!StoredIsGood, Con!PresentsGoodToken, Con!Next
  PROVE  Con!RowIsGood' /\ Con!StoredIsGood' /\ Con!PresentsGoodToken'
<1> USE DEF Con!RowIsGood, Con!StoredIsGood, Con!PresentsGoodToken, Con!Good, Con!NotConnected
<1> DEFINE R == Con!RowIsGood'
           S == Con!StoredIsGood'
           P == Con!PresentsGoodToken'
<1>0. Con!Idle.at = "idle" /\ Con!Idle.token = 0
  BY DEF Con!Idle
<1>t. /\ s7 \in [Procs -> Con!Job] /\ \A q \in Procs : s7[q].token \in Nat /\ s7[q].token <= s4
      /\ s4 \in Nat /\ s2.refresh \in Nat /\ s2.refresh <= s4 /\ (s2.refresh = 0 => s2 = Con!NotConnected)
      /\ s6 \in Procs \union {None} /\ None \notin Procs
  BY PartsAssumption DEF Con!TokensAreTyped, Con!Job
<1>j. ASSUME NEW p \in Procs, NEW j, s7' = [s7 EXCEPT ![p] = j], UNCHANGED <<s1, s2>>,
             s7[p].at # "store", j.at \notin {"store", "present"}, j.token \in {0, s2.refresh, s7[p].token},
             s3 \union s8 \subseteq s3' \union s8', s6' \in {s6, None} \/ (s6 = None /\ s6' = p),
             s6' # s6 => s6 \in {p, None}
      PROVE  R /\ S /\ P
  <2>1. s7'[p] = j /\ \A q \in Procs \ {p} : s7'[q] = s7[q]
    BY <1>j, <1>t
  <2>2. R
    BY <1>j, <1>t, <2>1
  <2>3. S
    BY <1>j, <1>t, <2>1
  <2>4. P
    BY <1>j, <1>t, <2>1
  <2>5. QED
    BY <2>2, <2>3, <2>4
<1>e. ASSUME NEW p \in Procs, Con!End(p), UNCHANGED <<s1, s2>>, s7[p].at # "store",
             s3 \union s8 \subseteq s3' \union s8'
      PROVE  R /\ S /\ P
  <2>1. s7' = [s7 EXCEPT ![p] = Con!Idle] /\ s6' \in {s6, None} /\ (s6' # s6 => s6 \in {p, None})
    BY <1>e DEF Con!End
  <2>2. QED
    BY <1>0, <1>e, <1>j, <2>1
<1>g. ASSUME NEW p \in Procs, NEW at, Con!Goto(p, at), UNCHANGED <<s1, s2, s3, s8>>, s7[p].at # "store",
             at \notin {"store", "present"}, s6' = s6 \/ (s6 = None /\ s6' = p)
      PROVE  R /\ S /\ P
  <2>1. s7' = [s7 EXCEPT ![p] = [s7[p] EXCEPT !.at = at]]
    BY <1>g DEF Con!Goto
  <2>2. [s7[p] EXCEPT !.at = at].at = at /\ [s7[p] EXCEPT !.at = at].token = s7[p].token
    BY <1>t DEF Con!Job
  <2>3. QED
    BY <1>g, <1>j, <2>1, <2>2
<1>1. ASSUME NEW p \in Procs, Con!Callback(p) \/ Con!Request(p) \/ Con!Acquire(p) PROVE R /\ S /\ P
  <2>1. UNCHANGED <<s1, s2, s3, s8>> /\ s7[p].at # "store"
    BY <1>0, <1>1 DEF Con!Callback, Con!Request, Con!Acquire, Con!tokens
  <2>2. CASE UNCHANGED <<s6, s7>>
    BY <2>1, <2>2
  <2>3. CASE \E at \in {"exchange", "load", "reload"} : Con!Goto(p, at) /\ (s6' = s6 \/ (s6 = None /\ s6' = p))
    BY <1>g, <2>1, <2>3
  <2>4. CASE Con!End(p)
    BY <1>e, <2>1, <2>4
  <2>5. QED
    BY <1>1, <2>2, <2>3, <2>4 DEF Con!Callback, Con!Request, Con!Acquire
<1>2. ASSUME NEW p \in Procs, Con!ExchangeCode(p) PROVE R /\ S /\ P
  <2>1. CASE Con!End(p)
    BY <1>2, <1>e, <2>1 DEF Con!ExchangeCode
  <2>2. CASE ~Con!End(p)
    <3>1. /\ s3' = s3 \union {s4 + 1} /\ UNCHANGED <<s1, s2, s6, s8>> /\ s7[p].at = "exchange"
          /\ s7' = [s7 EXCEPT ![p].at = "store", ![p].token = s4 + 1, ![p].authorising = TRUE]
      BY <1>2, <2>2 DEF Con!ExchangeCode
    <3>2. /\ s7'[p].at = "store" /\ s7'[p].token = s4 + 1
          /\ \A q \in Procs \ {p} : s7'[q] = s7[q]
      BY <1>t, <3>1 DEF Con!Job
    <3>3. R
      BY <1>t, <3>1, <3>2
    <3>4. S
      BY <1>t, <3>1, <3>2
    <3>5. P
      BY <1>t, <3>1, <3>2
    <3>6. QED
      BY <3>3, <3>4, <3>5
  <2>3. QED
    BY <2>1, <2>2
<1>3. ASSUME NEW p \in Procs, Con!Load(p) PROVE R /\ S /\ P
  <2>1. UNCHANGED <<s1, s2, s3, s8>> /\ s7[p].at = "load"
    BY <1>3 DEF Con!Load, Con!tokens
  <2>2. CASE Con!End(p)
    BY <1>e, <2>1, <2>2
  <2>3. CASE ~Con!End(p)
    <3>1. s7' = [s7 EXCEPT ![p].token = s2.refresh, ![p].at = IF s2.due THEN "acquire" ELSE "call"] /\ UNCHANGED s6
      BY <1>3, <2>3 DEF Con!Load
    <3>2. PICK j : s7' = [s7 EXCEPT ![p] = j] /\ j.token = s2.refresh /\ j.at \in {"acquire", "call"}
      <4>1. /\ s7' = [s7 EXCEPT ![p] = s7'[p]] /\ s7'[p].token = s2.refresh
            /\ s7'[p].at \in {"acquire", "call"}
        BY <1>t, <3>1 DEF Con!Job
      <4>2. QED
        BY <4>1
    <3>3. QED
      BY <1>j, <2>1, <3>1, <3>2
  <2>4. QED
    BY <2>2, <2>3
<1>4. ASSUME NEW p \in Procs, Con!Reload(p) PROVE R /\ S /\ P
  <2>1. /\ UNCHANGED <<s1, s2, s3, s8>> /\ s7[p].at = "reload" /\ s6' \in {s6, None}
        /\ s6' # s6 => s6 = p
        /\ s7' = [s7 EXCEPT ![p].at = IF s2.due THEN "present" ELSE "call", ![p].token = s2.refresh]
    BY <1>4 DEF Con!Reload, Con!ReadAgain, Con!tokens
  <2>2. /\ s7'[p].token = s2.refresh /\ s7'[p].at \in {"present", "call"} /\ (s7'[p].at = "present" => s2.due)
        /\ \A q \in Procs \ {p} : s7'[q] = s7[q]
    BY <1>t, <2>1 DEF Con!Job
  <2>3. R
    BY <1>t, <2>1, <2>2
  <2>4. S
    BY <1>t, <2>1, <2>2
  <2>5. P
    BY <1>t, <2>1, <2>2
  <2>6. QED
    BY <2>3, <2>4, <2>5
<1>5. ASSUME NEW p \in Procs, Con!Present(p) PROVE R /\ S /\ P
  <2>0. s7[p].at = "present" /\ UNCHANGED <<s1, s2>>
    BY <1>5 DEF Con!Present
  <2>1. CASE UNCHANGED <<s3, s8>> /\ Con!End(p)
    BY <1>e, <2>0, <2>1
  <2>2. CASE s7[p].token \in s3 /\ ~s1 /\ Con!Goto(p, "store") /\ UNCHANGED <<s3, s8, s6>>
    <3>1. /\ s7'[p].at = "store" /\ s7'[p].token = s7[p].token /\ s7[p].token # 0
          /\ \A q \in Procs \ {p} : s7'[q] = s7[q]
      BY <1>t, <2>2 DEF Con!Goto, Con!Job, Con!TokensAreTyped
    <3>2. R
      BY <1>t, <2>0, <2>2, <3>1
    <3>3. S
      BY <1>t, <2>0, <2>2, <3>1
    <3>4. P
      BY <1>t, <2>0, <2>2, <3>1
    <3>5. QED
      BY <3>2, <3>3, <3>4
  <2>3. CASE /\ s7[p].token \in s3 /\ s1 /\ s3' = (s3 \ {s7[p].token}) \union {s4 + 1}
             /\ s7' = [s7 EXCEPT ![p].at = "store", ![p].token = s4 + 1, ![p].old = s7[p].token]
             /\ s8' = IF s6 = p THEN s8 ELSE s8 \union {s7[p].token}
             /\ UNCHANGED s6
    <3>1. /\ s7'[p].at = "store" /\ s7'[p].token = s4 + 1 /\ s7'[p].old = s7[p].token
          /\ \A q \in Procs \ {p} : s7'[q] = s7[q]
      BY <1>t, <2>3 DEF Con!Job
    <3>2. s3 \union s8 \subseteq s3' \union s8' \union {s7[p].token} /\ (s6 # p => s3 \union s8 \subseteq s3' \union s8')
      BY <2>3
    <3>3. R
      BY <1>t, <2>0, <2>3, <3>1, <3>2
    <3>4. S
      BY <1>t, <2>0, <2>3, <3>1, <3>2
    <3>5. P
      BY <1>t, <2>0, <2>3, <3>1, <3>2
    <3>6. QED
      BY <3>3, <3>4, <3>5
  <2>4. CASE /\ s3' = (s3 \ {s7[p].token}) \union {s4 + 1}
             /\ s8' = s8 \union {s7[p].token} /\ Con!End(p)
    BY <1>e, <2>0, <2>4
  <2>5. QED
    BY <1>5, <2>1, <2>2, <2>3, <2>4 DEF Con!Present
<1>6. ASSUME NEW p \in Procs, Con!Store(p) PROVE R /\ S /\ P
  <2>1. /\ s7[p].at = "store" /\ UNCHANGED <<s1, s3, s8>> /\ s2' = [refresh |-> s7[p].token, due |-> FALSE]
        /\ s6' \in {s6, None}
    BY <1>6 DEF Con!Store, Con!StoredRow, Con!End
  <2>2. /\ s7'[p].at \in {"idle", "call"} /\ s7'[p].token \in {0, s7[p].token}
        /\ \A q \in Procs \ {p} : s7'[q] = s7[q]
    BY <1>0, <1>6, <1>t DEF Con!Store, Con!End, Con!Goto, Con!Job
  <2>3. s2'.refresh = s7[p].token
    BY <2>1
  <2>4. R
    BY <1>t, <2>1, <2>2, <2>3
  <2>5. S
    BY <1>t, <2>1, <2>2, <2>3
  <2>6. P
    BY <1>t, <2>1, <2>2
  <2>7. QED
    BY <2>4, <2>5, <2>6
<1>7. ASSUME NEW p \in Procs, Con!CallHelix(p) PROVE R /\ S /\ P
  <2>1. UNCHANGED <<s1, s2, s3, s8>> /\ s7[p].at = "call"
    BY <1>7 DEF Con!CallHelix, Con!tokens
  <2>2. CASE Con!End(p)
    BY <1>e, <2>1, <2>2
  <2>3. CASE s7' = [s7 EXCEPT ![p].at = "load", ![p].retried = TRUE] /\ UNCHANGED s6
    <3>1. s7' = [s7 EXCEPT ![p] = s7'[p]] /\ s7'[p].token = s7[p].token /\ s7'[p].at = "load"
      BY <1>t, <2>3 DEF Con!Job
    <3>2. PICK j : s7' = [s7 EXCEPT ![p] = j] /\ j.token = s7[p].token /\ j.at = "load"
      BY <3>1
    <3>3. QED
      BY <1>j, <2>1, <2>3, <3>2
  <2>4. QED
    BY <1>7, <2>2, <2>3 DEF Con!CallHelix
<1>8. ASSUME Con!StartOAuth \/ Con!StateAges \/ Con!TokenAges PROVE R /\ S /\ P
  <2>1. UNCHANGED <<s1, s3, s6, s7, s8>> /\ s2'.refresh = s2.refresh /\ (s2 = Con!NotConnected => s2' = s2)
    BY <1>8 DEF Con!StartOAuth, Con!StateAges, Con!TokenAges, Con!tokens, Con!TokensAreTyped
  <2>2. QED
    BY <2>1
<1>9. ASSUME Con!LockExpires PROVE R /\ S /\ P
  BY <1>9, <1>t DEF Con!LockExpires
<1>10. ASSUME Con!Disconnect PROVE R /\ S /\ P
  BY <1>10, <1>t DEF Con!Disconnect
<1>11. ASSUME Con!Crash PROVE R /\ S /\ P
  BY <1>0, <1>11, <1>t DEF Con!Crash
<1>12. QED
  BY <1>1, <1>2, <1>3, <1>4, <1>5, <1>6, <1>7, <1>8, <1>9, <1>10, <1>11 DEF Con!Next, Con!Step

-----------------------------------------------------------------------------
(* The subscriptions to EventSub: Subscriptions.                            *)

SubInv == Sub!SyncsAreTyped /\ Sub!IdsAreOne /\ Sub!OthersStand

(* At the start another party's subscription is all there is.               *)
LEMMA SubBegins ==
  ASSUME Sub!Init PROVE Sub!SyncsAreTyped /\ Sub!IdsAreOne /\ Sub!OthersStand
BY DEF Sub!Init, Sub!SyncsAreTyped, Sub!IdsAreOne, Sub!OthersStand, Sub!Stands, Sub!Idle,
   Sub!Subscription,
   Sub!Sync, Sub!Types

(* What a synchronisation has in hand, step by step.                        *)
LEMMA SubTypes ==
  ASSUME Sub!SyncsAreTyped, Sub!Next PROVE Sub!SyncsAreTyped'
<1> USE DEF Sub!SyncsAreTyped, Sub!Subscription, Sub!Sync, Sub!Types
<1> DEFINE T == Sub!SyncsAreTyped'
<1>1. ASSUME NEW p \in Procs, Sub!Resync(p) PROVE T
  BY <1>1 DEF Sub!Resync, Sub!Goto
<1>2. ASSUME NEW p \in Procs, Sub!List(p) PROVE T
  <2>1. CASE Sub!End(p)
    BY <1>2, <2>1 DEF Sub!List, Sub!End, Sub!Idle
  <2>2. CASE ~Sub!End(p)
    <3> DEFINE X == {s \in s2 : ~Sub!Healthy(s)}
               M == {"add", "update"} \ {s.type : s \in {x \in s2 : Sub!Healthy(x)}}
    <3>1. /\ s4' = [s4 EXCEPT ![p].at = "delete", ![p].dropped = {}, ![p].stale = X, ![p].missing = M]
          /\ UNCHANGED <<s2, s3>>
      BY <1>2, <2>2 DEF Sub!List
    <3>2. X \in SUBSET Sub!Subscription /\ M \in SUBSET {"add", "update"}
      OBVIOUS
    <3> HIDE DEF X, M
    <3> DEFINE w == [s4[p] EXCEPT !.at = "delete", !.dropped = {}, !.stale = X, !.missing = M]
    <3>3. w \in Sub!Sync
      BY <3>2
    <3>4. s4' = [s4 EXCEPT ![p] = w]
      BY <3>1
    <3>5. QED
      BY <3>1, <3>3, <3>4
  <2>3. QED
    BY <2>1, <2>2
<1>3. ASSUME NEW p \in Procs, Sub!Delete(p) PROVE T
  <2>1. CASE Sub!Goto(p, "create") /\ UNCHANGED <<s2, s3>>
    BY <2>1 DEF Sub!Goto
  <2>2. ASSUME NEW s \in s4[p].stale,
               s2' = {x \in s2 : x.id # s.id} /\ UNCHANGED s3,
               s4' = [r \in Procs |-> IF r = p THEN [s4[p] EXCEPT !.stale = @ \ {s}]
                                      ELSE [s4[r] EXCEPT !.dropped = Sub!DroppedFor(r, s.type)]]
        PROVE T
    <3>1. s.type \in {"add", "update"}
      OBVIOUS
    <3>2. \A r \in Procs : Sub!DroppedFor(r, s.type) \in SUBSET {"add", "update"}
      BY <3>1 DEF Sub!DroppedFor
    <3>3. s4' \in [Procs -> Sub!Sync]
      BY <2>2, <3>2
    <3>4. QED
      BY <2>2, <3>3
  <2>3. ASSUME NEW s \in s4[p].stale, UNCHANGED <<s2, s3>>, s4' = [s4 EXCEPT ![p].stale = @ \ {s}]
        PROVE T
    BY <2>3
  <2>4. QED
    BY <1>3, <2>1, <2>2, <2>3 DEF Sub!Delete
<1>4. ASSUME NEW p \in Procs, Sub!Create(p) PROVE T
  <2>1. CASE Sub!End(p) /\ UNCHANGED <<s2, s3>>
    BY <2>1 DEF Sub!End, Sub!Idle
  <2>2. ASSUME NEW type \in s4[p].missing, s3' = s3 + 1,
               s2' = s2 \union {[type |-> type, ours |-> TRUE, status |-> "pending", id |-> s3 + 1]},
               s4' = [s4 EXCEPT ![p].missing = @ \ {type}]
        PROVE T
    <3>0. type \in {"add", "update"} /\ s3 + 1 \in Nat
      OBVIOUS
    <3>1. s2' \subseteq Sub!Subscription /\ s3' \in Nat
      <4> DEFINE y == [type |-> type, ours |-> TRUE, status |-> "pending", id |-> s3 + 1]
      <4>1. y \in Sub!Subscription
        BY <3>0
      <4> HIDE DEF y
      <4>2. QED
        BY <2>2, <3>0, <4>1 DEF y
    <3>2. s4' \in [Procs -> Sub!Sync]
      BY <2>2
    <3>3. QED
      BY <3>1, <3>2
  <2>3. QED
    BY <1>4, <2>1, <2>2 DEF Sub!Create
<1>5. ASSUME NEW s \in s2, Sub!Challenge(s) PROVE T
  BY <1>5 DEF Sub!Challenge
<1>6. ASSUME NEW s \in s2, Sub!DropSubscription(s) PROVE T
  <2>1. \A r \in Procs : Sub!DroppedFor(r, s.type) \in SUBSET {"add", "update"}
    BY DEF Sub!DroppedFor
  <2>2. /\ s2' = (s2 \ {s}) \union {[s EXCEPT !.status = "revoked"]} /\ UNCHANGED s3
        /\ s4' = [p \in Procs |-> [s4[p] EXCEPT !.dropped = Sub!DroppedFor(p, s.type)]]
    BY <1>6 DEF Sub!DropSubscription
  <2>3. s4' \in [Procs -> Sub!Sync]
    BY <2>1, <2>2
  <2>4. QED
    BY <2>2, <2>3
<1>7. ASSUME Sub!AppTokenGone \/ Sub!Crash PROVE T
  BY <1>7 DEF Sub!AppTokenGone, Sub!Crash, Sub!Idle
<1>8. QED
  BY <1>1, <1>2, <1>3, <1>4, <1>5, <1>6, <1>7 DEF Sub!Next

(* An id is given once, and an entry of a list that was read names the same *)
(* type as what is registered under its id.                                 *)
LEMMA SubIds ==
  ASSUME Sub!SyncsAreTyped, Sub!SyncsAreTyped', Sub!IdsAreOne, Sub!Next PROVE Sub!IdsAreOne'
<1> USE DEF Sub!SyncsAreTyped, Sub!Subscription, Sub!Sync
<1>e. ASSUME NEW X, NEW m \in Nat, X \subseteq Sub!Subscription, s3 <= m,
             \A x \in X : x.id <= m /\ (x \in s2 \/ x.id > s3),
             \A x, y \in X : x.id = y.id => x = y,
             s2' = X, s3' = m, \A p \in Procs : s4'[p].stale \subseteq s4[p].stale \union s2
      PROVE  Sub!IdsAreOne'
  BY <1>e DEF Sub!IdsAreOne
<1>f. ASSUME NEW s \in s2, NEW status, [s EXCEPT !.status = status] \in Sub!Subscription,
             s2' = (s2 \ {s}) \union {[s EXCEPT !.status = status]},
             UNCHANGED s3, \A p \in Procs : s4'[p].stale = s4[p].stale
      PROVE  Sub!IdsAreOne'
  <2>1. PICK y : y = [s EXCEPT !.status = status]
    OBVIOUS
  <2>2. y.id = s.id /\ y.type = s.type
    BY <2>1
  <2>3. s2' = (s2 \ {s}) \union {y}
    BY <1>f, <2>1
  <2>4. QED
    BY <1>f, <2>2, <2>3 DEF Sub!IdsAreOne
<1>1. ASSUME NEW p \in Procs, Sub!Resync(p) PROVE Sub!IdsAreOne'
  BY <1>1, <1>e DEF Sub!Resync, Sub!Goto, Sub!IdsAreOne
<1>2. ASSUME NEW p \in Procs, Sub!List(p) PROVE Sub!IdsAreOne'
  <2>1. UNCHANGED <<s2, s3>>
    BY <1>2 DEF Sub!List
  <2>2. CASE Sub!End(p)
    BY <1>e, <2>1, <2>2 DEF Sub!End, Sub!Idle, Sub!IdsAreOne
  <2>3. CASE ~Sub!End(p)
    <3> DEFINE X == {s \in s2 : ~Sub!Healthy(s)}
               M == Sub!Types \ {s.type : s \in {x \in s2 : Sub!Healthy(x)}}
    <3>1. s4' = [s4 EXCEPT ![p].at = "delete", ![p].dropped = {}, ![p].stale = X, ![p].missing = M]
      BY <1>2, <2>3 DEF Sub!List
    <3> HIDE DEF X, M
    <3>2. s4'[p].stale = X /\ s4'[p].missing = M /\ \A q \in Procs \ {p} : s4'[q] = s4[q]
      BY <3>1
    <3>3. X \subseteq s2
      BY DEF X
    <3>4. QED
      BY <1>e, <2>1, <3>2, <3>3 DEF Sub!IdsAreOne
  <2>4. QED
    BY <2>2, <2>3
<1>3. ASSUME NEW p \in Procs, Sub!Delete(p) PROVE Sub!IdsAreOne'
  <2>1. s2' \subseteq s2 /\ UNCHANGED s3 /\ \A q \in Procs : s4'[q].stale \subseteq s4[q].stale
    BY <1>3 DEF Sub!Delete, Sub!Goto
  <2>2. QED
    BY <2>1 DEF Sub!IdsAreOne
<1>4. ASSUME NEW p \in Procs, Sub!Create(p) PROVE Sub!IdsAreOne'
  <2>1. CASE UNCHANGED <<s2, s3>> /\ \A q \in Procs : s4'[q].stale \subseteq s4[q].stale
    BY <2>1 DEF Sub!IdsAreOne
  <2>2. ASSUME NEW y, y.id = s3 + 1, s2' = s2 \union {y}, s3' = s3 + 1,
               \A q \in Procs : s4'[q].stale = s4[q].stale
        PROVE  Sub!IdsAreOne'
    BY <2>2 DEF Sub!IdsAreOne
  <2>3. CASE Sub!End(p) /\ UNCHANGED <<s2, s3>>
    BY <2>1, <2>3 DEF Sub!End, Sub!Idle
  <2>4. CASE ~(Sub!End(p) /\ UNCHANGED <<s2, s3>>)
    <3>1. PICK type \in s4[p].missing :
            /\ s3' = s3 + 1 /\ s4' = [s4 EXCEPT ![p].missing = @ \ {type}]
            /\ s2' = s2 \union {[type |-> type, ours |-> TRUE, status |-> "pending", id |-> s3 + 1]}
      BY <1>4, <2>4 DEF Sub!Create
    <3>2. \A q \in Procs : s4'[q].stale = s4[q].stale
      BY <3>1
    <3>3. QED
      BY <2>2, <3>1, <3>2
  <2>5. QED
    BY <2>3, <2>4
<1>5. ASSUME NEW s \in s2, Sub!Challenge(s) PROVE Sub!IdsAreOne'
  BY <1>5, <1>f DEF Sub!Challenge
<1>6. ASSUME NEW s \in s2, Sub!DropSubscription(s) PROVE Sub!IdsAreOne'
  <2>1. \A q \in Procs : s4'[q].stale = s4[q].stale
    BY <1>6 DEF Sub!DropSubscription
  <2>2. QED
    BY <1>6, <1>f, <2>1 DEF Sub!DropSubscription
<1>7. ASSUME Sub!AppTokenGone \/ Sub!Crash PROVE Sub!IdsAreOne'
  BY <1>7 DEF Sub!AppTokenGone, Sub!Crash, Sub!Idle, Sub!IdsAreOne
<1>8. QED
  BY <1>1, <1>2, <1>3, <1>4, <1>5, <1>6, <1>7 DEF Sub!Next

(* What p does not miss stands, unless it was dropped since p read the list.*)
LEMMA SubStands ==
  ASSUME Sub!SyncsAreTyped, Sub!IdsAreOne, Sub!OthersStand, Sub!Next
  PROVE  Sub!OthersStand'
<1> USE DEF Sub!SyncsAreTyped, Sub!Subscription, Sub!Sync
<1> DEFINE T == Sub!OthersStand'
<1>s. ASSUME s2 \subseteq s2', \A q \in Procs :
               \/ s4'[q].at \notin {"delete", "create"}
               \/ /\ s4[q].at \in {"delete", "create"} /\ s4'[q].stale \subseteq s4[q].stale
                  /\ s4'[q].missing = s4[q].missing /\ s4'[q].dropped = s4[q].dropped
      PROVE  T
  BY <1>s DEF Sub!OthersStand, Sub!Stands
<1>f. ASSUME NEW s \in s2, NEW status, s2' = (s2 \ {s}) \union {[s EXCEPT !.status = status]},
             \A q \in Procs : /\ s4'[q].at = s4[q].at /\ s4'[q].stale = s4[q].stale
                              /\ s4'[q].missing = s4[q].missing /\ s4[q].dropped \subseteq s4'[q].dropped
      PROVE  T
  <2>1. PICK y : y = [s EXCEPT !.status = status]
    OBVIOUS
  <2>2. y.id = s.id /\ y.type = s.type /\ y.ours = s.ours
    BY <2>1
  <2>3. s2' = (s2 \ {s}) \union {y}
    BY <1>f, <2>1
  <2>4. SUFFICES ASSUME NEW q \in Procs, s4'[q].at \in {"delete", "create"},
                        NEW type \in Sub!Types \ (s4'[q].missing \union s4'[q].dropped)
                 PROVE  \E x \in s2' : x.type = type /\ x.ours /\ \A z \in s4'[q].stale : z.id # x.id
    BY DEF Sub!OthersStand, Sub!Stands
  <2>5. PICK x \in s2 : x.type = type /\ x.ours /\ \A z \in s4[q].stale : z.id # x.id
    BY <1>f, <2>4 DEF Sub!OthersStand, Sub!Stands
  <2>6. CASE x = s
    BY <1>f, <2>2, <2>3, <2>5, <2>6
  <2>7. CASE x # s
    BY <1>f, <2>3, <2>5, <2>7
  <2>8. QED
    BY <2>6, <2>7
<1>1. ASSUME NEW p \in Procs, Sub!Resync(p) PROVE T
  BY <1>1, <1>s DEF Sub!Resync, Sub!Goto, Sub!Idle
<1>2. ASSUME NEW p \in Procs, Sub!List(p) PROVE T
  <2>1. UNCHANGED s2 /\ \A q \in Procs \ {p} : s4'[q] = s4[q]
    BY <1>2 DEF Sub!List, Sub!End
  <2>2. CASE Sub!End(p)
    BY <1>s, <2>1, <2>2 DEF Sub!End, Sub!Idle
  <2>3. CASE ~Sub!End(p)
    <3> DEFINE X == {s \in s2 : ~Sub!Healthy(s)}
               M == Sub!Types \ {s.type : s \in {x \in s2 : Sub!Healthy(x)}}
    <3>1. s4' = [s4 EXCEPT ![p].at = "delete", ![p].dropped = {}, ![p].stale = X, ![p].missing = M]
      BY <1>2, <2>3 DEF Sub!List
    <3> HIDE DEF X, M
    <3>2. s4'[p].stale = X /\ s4'[p].missing = M /\ \A q \in Procs \ {p} : s4'[q] = s4[q]
      BY <3>1
    <3>3. \A type \in Sub!Types \ M :
            \E y \in s2 : y.type = type /\ y.ours /\ \A s \in X : s.id # y.id
      BY DEF Sub!Healthy, Sub!IdsAreOne, X, M
    <3>4. QED
      BY <2>1, <3>2, <3>3 DEF Sub!OthersStand, Sub!Stands
  <2>4. QED
    BY <2>2, <2>3
<1>3. ASSUME NEW p \in Procs, Sub!Delete(p) PROVE T
  <2>1. s4[p].at = "delete"
    BY <1>3 DEF Sub!Delete
  <2>2. CASE Sub!Goto(p, "create") /\ UNCHANGED <<s2, s3>>
    BY <1>s, <2>1, <2>2 DEF Sub!Goto
  <2>3. ASSUME NEW s \in s4[p].stale,
               s2' = {x \in s2 : x.id # s.id},
               s4' = [r \in Procs |-> IF r = p THEN [s4[p] EXCEPT !.stale = @ \ {s}]
                                      ELSE [s4[r] EXCEPT !.dropped = Sub!DroppedFor(r, s.type)]]
        PROVE T
    <3>1. SUFFICES ASSUME NEW q \in Procs, s4'[q].at \in {"delete", "create"},
                          NEW type \in Sub!Types \ (s4'[q].missing \union s4'[q].dropped)
                   PROVE  \E x \in s2' : x.type = type /\ x.ours /\ \A z \in s4'[q].stale : z.id # x.id
      BY DEF Sub!OthersStand, Sub!Stands
    <3>2. /\ s4'[q].at = s4[q].at /\ s4'[q].stale \subseteq s4[q].stale /\ s4'[q].missing = s4[q].missing
          /\ s4[q].dropped \subseteq s4'[q].dropped /\ (q # p => s.type \in s4'[q].dropped)
      BY <2>3, <3>1 DEF Sub!DroppedFor
    <3>3. PICK x \in s2 : x.type = type /\ x.ours /\ \A z \in s4[q].stale : z.id # x.id
      BY <3>1, <3>2 DEF Sub!OthersStand, Sub!Stands
    <3>4. x.id # s.id
      BY <3>1, <3>2, <3>3 DEF Sub!IdsAreOne
    <3>5. QED
      BY <2>3, <3>2, <3>3, <3>4
  <2>4. ASSUME NEW s \in s4[p].stale, UNCHANGED s2, s4' = [s4 EXCEPT ![p].stale = @ \ {s}]
        PROVE T
    BY <1>s, <2>1, <2>4
  <2>5. QED
    BY <1>3, <2>2, <2>3, <2>4 DEF Sub!Delete
<1>4. ASSUME NEW p \in Procs, Sub!Create(p) PROVE T
  <2>1. s4[p].at = "create"
    BY <1>4 DEF Sub!Create
  <2>2. CASE Sub!End(p) /\ UNCHANGED s2
    BY <1>s, <2>2 DEF Sub!End, Sub!Idle
  <2>3. ASSUME NEW type \in s4[p].missing, NEW y, y.id = s3 + 1, y.type = type, y.ours = TRUE,
               s2' = s2 \union {y}, s4' = [s4 EXCEPT ![p].missing = @ \ {type}]
        PROVE T
    <3>1. \A s \in s4[p].stale : s.id # y.id
      BY <2>3 DEF Sub!IdsAreOne
    <3>2. /\ s4'[p].missing = s4[p].missing \ {type} /\ s4'[p].stale = s4[p].stale
          /\ s4'[p].dropped = s4[p].dropped /\ \A q \in Procs \ {p} : s4'[q] = s4[q]
      BY <2>3
    <3>3. QED
      BY <2>1, <2>3, <3>1, <3>2 DEF Sub!OthersStand, Sub!Stands
  <2>4. CASE ~(Sub!End(p) /\ UNCHANGED s2)
    <3>1. PICK type \in s4[p].missing :
            /\ s4' = [s4 EXCEPT ![p].missing = @ \ {type}]
            /\ s2' = s2 \union {[type |-> type, ours |-> TRUE, status |-> "pending", id |-> s3 + 1]}
      BY <1>4, <2>4 DEF Sub!Create
    <3>2. QED
      BY <2>3, <3>1
  <2>5. QED
    BY <2>2, <2>4
<1>5. ASSUME NEW s \in s2, Sub!Challenge(s) PROVE T
  BY <1>5, <1>f DEF Sub!Challenge
<1>6. ASSUME NEW s \in s2, Sub!DropSubscription(s) PROVE T
  <2>1. \A q \in Procs : /\ s4'[q].at = s4[q].at /\ s4'[q].stale = s4[q].stale
                         /\ s4'[q].missing = s4[q].missing /\ s4[q].dropped \subseteq s4'[q].dropped
    BY <1>6 DEF Sub!DropSubscription, Sub!DroppedFor
  <2>2. QED
    BY <1>6, <1>f, <2>1 DEF Sub!DropSubscription
<1>7. ASSUME Sub!AppTokenGone PROVE T
  BY <1>7, <1>s DEF Sub!AppTokenGone, Sub!OthersStand, Sub!Stands
<1>8. ASSUME Sub!Crash PROVE T
  BY <1>8, <1>s DEF Sub!Crash, Sub!Idle
<1>9. QED
  BY <1>1, <1>2, <1>3, <1>4, <1>5, <1>6, <1>7, <1>8 DEF Sub!Next

(* A synchronisation that ends at its last step ends with what stands.      *)
LEMMA SubEnds ==
  ASSUME Sub!SyncsAreTyped, Sub!OthersStand, Sub!Next PROVE Sub!SyncEndsSubscribed
BY DEF Sub!SyncsAreTyped, Sub!OthersStand, Sub!Stands, Sub!SyncEndsSubscribed, Sub!Sync

(* What leaves its variables alone leaves it alone.                         *)
LEMMA SubStays == ASSUME SubInv, UNCHANGED <<s1, s2, s3, s4, s5>> PROVE SubInv'
BY DEF SubInv, Sub!SyncsAreTyped, Sub!IdsAreOne, Sub!OthersStand, Sub!Stands

-----------------------------------------------------------------------------
(* The start of the processes: Startup.                                     *)

StartInv == Start!MigratesInOrder /\ Start!ServesWhole

(* A new database has had no migration, and every process is down.          *)
LEMMA StartBegins ==
  ASSUME Start!Init PROVE StartInv
<1>1. Start!MigratesInOrder
  <2>1. ASSUME NEW build \in Start!Builds PROVE Start!Off(build) \in Start!Process
    BY DEF Start!Off, Start!Process
  <2>2. s1 \in [Procs -> Start!Process] /\ \A p \in Procs : s1[p].found = {} /\ s1[p].tx = None
    <3>1. \A p \in Procs : \E build \in Start!Builds : s1[p] = Start!Off(build)
      BY DEF Start!Init
    <3>2. QED
      BY <2>1, <3>1 DEF Start!Init, Start!Off
  <2>3. s3 = {} /\ s4 = FALSE /\ s2 \in [Start!Migrations -> Nat]
    BY DEF Start!Init
  <2>4. QED
    BY <2>2, <2>3 DEF Start!MigratesInOrder
<1>2. Start!ServesWhole
  BY DEF Start!Init, Start!ServesWhole, Start!Off, Start!Answers, Start!Builds, Start!Migrations
<1>3. QED
  BY <1>1, <1>2 DEF StartInv

(* A process that is down, or goes on to what asks no more of it, spoils    *)
(* nothing.                                                                 *)
LEMMA StartMoves ==
  ASSUME StartInv, NEW p \in Procs, NEW w \in Start!Process, s1' = [s1 EXCEPT ![p] = w],
         UNCHANGED <<s2, s3, s4>>, w.found \subseteq s3,
         w.tx # None => /\ w.at = "migrating" /\ w.tx \in w.build \ w.found
                        /\ \A n \in w.build \ w.found : w.tx <= n,
         w.at \in {"listening", "live", "closing"} => w.build \subseteq s3 /\ s4
  PROVE  StartInv'
<1>1. s1'[p] = w /\ (\A q \in Procs \ {p} : s1'[q] = s1[q]) /\ s1' \in [Procs -> Start!Process]
  BY DEF StartInv, Start!MigratesInOrder
<1>2. Start!MigratesInOrder'
  BY <1>1 DEF StartInv, Start!MigratesInOrder, Start!Left
<1>3. Start!ServesWhole'
  BY <1>1 DEF StartInv, Start!ServesWhole, Start!Answers
<1>4. QED
  BY <1>2, <1>3 DEF StartInv

(* The migrations take effect once and in order, and who answers has them.  *)
LEMMA StartStep ==
  ASSUME StartInv, Start!Next PROVE StartInv'
<1>p. ASSUME NEW p \in Procs
      PROVE  /\ s1[p] \in Start!Process /\ s1[p].found \subseteq s3
             /\ s1[p].tx # None => /\ s1[p].at = "migrating" /\ s1[p].tx \in s1[p].build \ s1[p].found
                                   /\ \A n \in s1[p].build \ s1[p].found : s1[p].tx <= n
             /\ s1[p].at \in {"listening", "live", "closing"} => s1[p].build \subseteq s3 /\ s4
  BY <1>p DEF StartInv, Start!MigratesInOrder, Start!ServesWhole, Start!Answers, Start!Left
<1>o. ASSUME NEW build \in Start!Builds
      PROVE  /\ Start!Off(build) \in Start!Process /\ Start!Off(build).found = {}
             /\ Start!Off(build).tx = None /\ Start!Off(build).at = "off"
  BY DEF Start!Off, Start!Process
<1>x. ASSUME NEW p \in Procs, Start!Exit(p), UNCHANGED <<s2, s3, s4>> PROVE StartInv'
  <2>1. s1' = [s1 EXCEPT ![p] = Start!Off(s1[p].build)] /\ s1[p].build \in Start!Builds
    BY <1>p, <1>x DEF Start!Exit, Start!Process
  <2>2. QED
    BY <1>o, <1>x, <2>1, StartMoves
<1>g. ASSUME NEW p \in Procs, NEW at \in {"off", "waiting", "migrating", "listening", "live", "closing", "closed"},
             Start!Goes(p, at), UNCHANGED <<s2, s3>>, s4' = s4 \/ s4' = TRUE,
             s1[p].tx = None \/ at = "migrating",
             at \in {"listening", "live", "closing"} => s1[p].build \subseteq s3 /\ s4'
      PROVE  StartInv'
  <2>1. PICK w : w = [s1[p] EXCEPT !.at = at]
    OBVIOUS
  <2>2. /\ w \in Start!Process /\ w.found = s1[p].found /\ w.tx = s1[p].tx /\ w.build = s1[p].build
        /\ w.at = at /\ s1' = [s1 EXCEPT ![p] = w]
    BY <1>g, <1>p, <2>1 DEF Start!Process, Start!Goes
  <2>3. s1'[p] = w /\ (\A q \in Procs \ {p} : s1'[q] = s1[q]) /\ s1' \in [Procs -> Start!Process]
    BY <2>2 DEF StartInv, Start!MigratesInOrder
  <2>4. Start!MigratesInOrder'
    BY <1>g, <1>p, <2>2, <2>3 DEF StartInv, Start!MigratesInOrder, Start!Left
  <2>5. Start!ServesWhole'
    BY <1>g, <2>2, <2>3 DEF StartInv, Start!ServesWhole, Start!Answers
  <2>6. QED
    BY <2>4, <2>5 DEF StartInv
<1>1. ASSUME NEW p \in Procs, Start!Start(p) PROVE StartInv'
  <2>1. s1[p].tx = None
    BY <1>1, <1>p DEF Start!Start
  <2>2. QED
    BY <1>1, <1>g, <2>1 DEF Start!Start
<1>2. ASSUME NEW p \in Procs, Start!GiveUp(p) \/ Start!BootFails(p) \/ Start!ClosePools(p) \/ Start!Kill(p)
      PROVE  StartInv'
  BY <1>2, <1>x DEF Start!GiveUp, Start!BootFails, Start!ClosePools, Start!Kill
<1>3. ASSUME NEW p \in Procs, Start!ReadApplied(p) PROVE StartInv'
  <2>0. s1[p].tx = None /\ s3 \subseteq Start!Migrations
    BY <1>3, <1>p DEF Start!ReadApplied, StartInv, Start!MigratesInOrder
  <2>1. PICK w : w = [s1[p] EXCEPT !.at = "migrating", !.found = s3]
    OBVIOUS
  <2>2. w \in Start!Process /\ w.found = s3 /\ w.tx = None /\ w.at = "migrating"
    BY <1>p, <2>0, <2>1 DEF Start!Process
  <2>3. s1' = [s1 EXCEPT ![p] = w]
    BY <1>3, <2>1 DEF Start!ReadApplied
  <2>4. QED
    BY <1>3, <2>2, <2>3, StartMoves DEF Start!ReadApplied
<1>4. ASSUME NEW p \in Procs, Start!RunSql(p) PROVE StartInv'
  <2>1. Start!Left(p) # {} /\ Start!Left(p) \subseteq {1, 2} /\ s1[p].at = "migrating"
    BY <1>4, <1>p DEF Start!RunSql, Start!Left, Start!Process, Start!Builds
  <2>2. \E m \in Start!Left(p) : \A n \in Start!Left(p) : m <= n
    BY <2>1
  <2>3. PICK m : m = Start!Following(p)
    OBVIOUS
  <2>4. m \in Start!Left(p) /\ \A n \in Start!Left(p) : m <= n
    BY <2>2, <2>3 DEF Start!Following
  <2>5. PICK w : w = [s1[p] EXCEPT !.tx = m]
    OBVIOUS
  <2>6. w \in Start!Process /\ w.found = s1[p].found /\ w.tx = m /\ w.build = s1[p].build /\ w.at = "migrating"
    <3>1. m \in 1..2
      BY <2>1, <2>4
    <3>2. QED
      BY <1>p, <2>1, <2>5, <3>1 DEF Start!Process, Start!Migrations
  <2>7. s1' = [s1 EXCEPT ![p] = w] /\ UNCHANGED <<s2, s3, s4>>
    BY <1>4, <2>3, <2>5 DEF Start!RunSql
  <2>8. QED
    BY <1>p, <2>4, <2>6, <2>7, StartMoves DEF Start!Left
<1>5. ASSUME NEW p \in Procs, Start!Commit(p) PROVE StartInv'
  <2>1. CASE Start!Exit(p) /\ UNCHANGED <<s2, s3, s4>>
    BY <1>x, <2>1
  <2>2. CASE ~(Start!Exit(p) /\ UNCHANGED <<s2, s3, s4>>)
    <3>1. PICK m : m = s1[p].tx
      OBVIOUS
    <3>2. /\ m # None /\ m \notin s3 /\ s2' = [s2 EXCEPT ![m] = @ + 1] /\ s3' = s3 \union {m} /\ UNCHANGED s4
          /\ s1' = [s1 EXCEPT ![p].tx = None, ![p].found = @ \union {m}]
      BY <1>5, <2>2, <3>1 DEF Start!Commit, Start!IsNew
    <3>3. m \in Start!Migrations
      BY <1>p, <3>1, <3>2 DEF Start!Process
    <3>4. PICK w : w = [s1[p] EXCEPT !.tx = None, !.found = s1[p].found \union {m}]
      OBVIOUS
    <3>5. /\ w \in Start!Process /\ w.tx = None /\ w.found = s1[p].found \union {m}
          /\ w.build = s1[p].build /\ w.at = s1[p].at
      BY <1>p, <3>3, <3>4 DEF Start!Process
    <3>6. s1' = [s1 EXCEPT ![p] = w]
      BY <3>2, <3>4
    <3>7. s1'[p] = w /\ (\A q \in Procs \ {p} : s1'[q] = s1[q]) /\ s1' \in [Procs -> Start!Process]
      BY <3>5, <3>6 DEF StartInv, Start!MigratesInOrder
    <3>8. s2' \in [Start!Migrations -> Nat] /\ s2'[m] = s2[m] + 1 /\ \A n \in Start!Migrations \ {m} : s2'[n] = s2[n]
      BY <3>2, <3>3 DEF StartInv, Start!MigratesInOrder
    <3>9. Start!MigratesInOrder'
      BY <1>p, <3>2, <3>3, <3>5, <3>7, <3>8 DEF StartInv, Start!MigratesInOrder, Start!Left
    <3>10. \A n \in 1..m : n \in s3'
      BY <1>p, <3>1, <3>2, <3>3 DEF Start!Process, Start!Builds, Start!Migrations
    <3>11. \A n \in Start!Migrations : s2'[n] = (IF n \in s3' THEN 1 ELSE 0)
      BY <3>2, <3>3, <3>8 DEF StartInv, Start!ServesWhole
    <3>12. Start!ServesWhole'
      BY <3>2, <3>5, <3>7, <3>10, <3>11 DEF StartInv, Start!ServesWhole, Start!Answers
    <3>13. QED
      BY <3>9, <3>12 DEF StartInv
  <2>3. QED
    BY <2>1, <2>2
<1>6. ASSUME NEW p \in Procs, Start!Listen(p) PROVE StartInv'
  <2>1. s1[p].build \subseteq s3 /\ s1[p].tx = None
    BY <1>6, <1>p DEF Start!Listen, Start!Left
  <2>2. QED
    BY <1>6, <1>g, <2>1 DEF Start!Listen
<1>7. ASSUME NEW p \in Procs, Start!GoLive(p) \/ Start!Sigterm(p) \/ Start!CloseServers(p) PROVE StartInv'
  <2>1. s1[p].tx = None /\ s1[p].at \in {"listening", "live", "closing"}
    BY <1>7, <1>p DEF Start!GoLive, Start!Sigterm, Start!CloseServers
  <2>2. s1[p].build \subseteq s3 /\ s4 /\ UNCHANGED <<s2, s3, s4>>
    BY <1>7, <1>p, <2>1 DEF Start!GoLive, Start!Sigterm, Start!CloseServers
  <2>3. \E at \in {"live", "closing", "closed"} : Start!Goes(p, at)
    BY <1>7 DEF Start!GoLive, Start!Sigterm, Start!CloseServers
  <2>4. QED
    BY <1>g, <2>1, <2>2, <2>3
<1>8. ASSUME NEW p \in Procs, Start!Deploy(p) PROVE StartInv'
  <2>1. Start!Migrations \in Start!Builds
    BY DEF Start!Migrations, Start!Builds
  <2>2. QED
    BY <1>8, <1>o, <2>1, StartMoves DEF Start!Deploy
<1>9. ASSUME NEW service, Start!Outage(service) PROVE StartInv'
  BY <1>9 DEF Start!Outage, StartInv, Start!MigratesInOrder, Start!ServesWhole, Start!Left,
     Start!Answers
<1>10. QED
  BY <1>1, <1>2, <1>3, <1>4, <1>5, <1>6, <1>7, <1>8, <1>9 DEF Start!Next

(* What leaves its variables alone leaves it alone.                         *)
LEMMA StartStays == ASSUME StartInv, UNCHANGED <<s1, s2, s3, s4, s5, s6>> PROVE StartInv'
BY DEF StartInv, Start!MigratesInOrder, Start!ServesWhole, Start!Left, Start!Answers

-----------------------------------------------------------------------------
(* The realtime events on their way to the sockets: Fanout.                 *)

(* What the sockets have heard stays countable.                             *)
LEMMA FanCounts ==
  ASSUME Fan!RoomsAreProved, NEW p \in Procs, NEW a PROVE Fan!Delivered(p, a) \in [Sockets -> Nat]
BY DEF Fan!Delivered, Fan!RoomsAreProved

(* Who it is for hears it, and nobody else.                                *)
LEMMA FanHears ==
  ASSUME Fan!RoomsAreProved, NEW p \in Procs, NEW a \in Fan!Audiences \union Viewers,
         NEW s \in Sockets
  PROVE  Fan!Delivered(p, a)[s] # s7[s] =>
           /\ s2[s] # Fan!Closed
           /\ a \in Viewers => s2[s].proved = a
           /\ a = "trusted" => s2[s].proved \in {"device", "admin", "obs"}
<1>1. ASSUME Fan!Delivered(p, a)[s] # s7[s] PROVE Fan!IsFor(s, a)
  BY <1>1 DEF Fan!Delivered, Fan!RoomsAreProved
<1>2. ASSUME Fan!IsFor(s, a)
      PROVE  /\ s2[s] # Fan!Closed
             /\ a \in Viewers => s2[s].proved = a
             /\ a = "trusted" => s2[s].proved \in {"device", "admin", "obs"}
  <2>1. s2[s] # Fan!Closed /\ a \in {"all", s2[s].room, s2[s].wallet}
    BY <1>2 DEF Fan!IsFor
  <2>2. s2[s].wallet \in Viewers \union {None} /\ s2[s].room \in {"viewers", "trusted", None}
    BY DEF Fan!RoomsAreProved, Fan!Socket
  <2>3. /\ None # a /\ (a = "trusted" => a \notin Viewers \union {None, "all"})
        /\ a \in Viewers => a \notin {"all", "viewers", "trusted"}
    BY PartsAssumption DEF Fan!Audiences
  <2>4. a = "trusted" => s2[s].room = "trusted"
    BY <2>1, <2>2, <2>3
  <2>5. a \in Viewers => s2[s].wallet = a
    BY <2>1, <2>2, <2>3
  <2>6. QED
    BY <2>1, <2>3, <2>4, <2>5 DEF Fan!RoomsAreProved
<1>3. QED
  BY <1>1, <1>2

(* Sockets that close are in no room.                                       *)
LEMMA FanCloses ==
  ASSUME Fan!RoomsAreProved, Fan!HeardByWhoMay, NEW S, Fan!Closing(S), UNCHANGED s3,
         s1' \in [Procs -> Instances], s4' \subseteq s4
  PROVE  Fan!RoomsAreProved' /\ Fan!HeardByWhoMay'
<1> USE DEF Fan!RoomsAreProved, Fan!HeardByWhoMay
<1>1. Fan!Closed \in Fan!Socket /\ Fan!Closed.room = None /\ Fan!Closed.wallet = None
  BY DEF Fan!Closed, Fan!Socket, Fan!Tokens
<1>2. None # "trusted"
  BY PartsAssumption
<1>3. s2' \in [Sockets -> Fan!Socket] /\ s7' \in [Sockets -> Nat]
  BY <1>1 DEF Fan!Closing
<1>4. ASSUME NEW s \in Sockets
      PROVE  (s2'[s] = Fan!Closed /\ s7'[s] = 0) \/ (s2'[s] = s2[s] /\ s7'[s] = s7[s])
  BY DEF Fan!Closing
<1>5. QED
  BY <1>1, <1>2, <1>3, <1>4

(* A socket stays in the room that its token has proved.                    *)
LEMMA FanStep ==
  ASSUME Fan!RoomsAreProved, Fan!HeardByWhoMay,
         Fan!Next PROVE Fan!RoomsAreProved' /\ Fan!HeardByWhoMay'
<1> USE DEF Fan!RoomsAreProved, Fan!HeardByWhoMay
<1>1. ASSUME NEW s \in Sockets, Fan!Connect(s) PROVE Fan!RoomsAreProved' /\ Fan!HeardByWhoMay'
  <2>1. PICK p \in Procs, role \in Fan!Roles, token \in Fan!Tokens :
          ~Fan!IsRefused(role, token) /\ s2' = [s2 EXCEPT ![s] = Fan!Joined(p, role, token)]
    BY <1>1 DEF Fan!Connect
  <2>2. /\ Fan!Joined(p, role, token) \in Fan!Socket
        /\ Fan!Joined(p, role, token).room = "trusted" => Fan!Joined(p, role, token).proved \in {"device", "admin", "obs"}
        /\ Fan!Joined(p, role, token).wallet # None => Fan!Joined(p, role, token).wallet = Fan!Joined(p, role, token).proved
    BY DEF Fan!Joined, Fan!Socket, Fan!IsTrusted, Fan!VerifyDeviceToken, Fan!VerifyAdminToken,
       Fan!IsObsToken, Fan!Roles
  <2>3. s7[s] = 0 /\ UNCHANGED <<s1, s3, s4, s7>>
    BY <1>1 DEF Fan!Connect
  <2>4. QED
    BY <2>1, <2>2, <2>3
<1>2. ASSUME NEW s \in Sockets, Fan!Disconnect(s) PROVE Fan!RoomsAreProved' /\ Fan!HeardByWhoMay'
  BY <1>2, FanCloses DEF Fan!Disconnect
<1>3. ASSUME NEW p \in Procs, Fan!Emit(p) PROVE Fan!RoomsAreProved' /\ Fan!HeardByWhoMay'
  <2>1. PICK a \in Fan!Audiences \union Viewers, reached \in SUBSET Procs :
          /\ s3' = [for |-> a, at |-> p, origin |-> s1[p]]
          /\ s7' = Fan!Delivered(p, a) /\ s4' = reached
    BY <1>3 DEF Fan!Emit
  <2>2. s3' \in Fan!Event /\ s3'.for = a /\ s3' # None
    BY <2>1, PartsAssumption DEF Fan!Event, Fan!Audiences
  <2>3. s3 = None /\ UNCHANGED <<s1, s2>>
    BY <1>3 DEF Fan!Emit
  <2>4. \A s \in Sockets : s7[s] = 0
    BY <2>3
  <2>5. ASSUME NEW s \in Sockets, s7'[s] # 0
        PROVE  /\ s2[s] # Fan!Closed
               /\ a \in Viewers => s2[s].proved = a
               /\ a = "trusted" => s2[s].proved \in {"device", "admin", "obs"}
    BY <2>1, <2>4, <2>5, FanHears
  <2>6. s7' \in [Sockets -> Nat]
    BY <2>1, FanCounts
  <2>7. Fan!RoomsAreProved'
    <3>1. s4' \subseteq Procs /\ s3' \in Fan!Event /\ s3' # None
      BY <2>1, <2>2
    <3>2. \A s \in Sockets : s2[s] = Fan!Closed => s7'[s] = 0
      BY <2>5
    <3>3. QED
      BY <2>3, <2>6, <3>1, <3>2
  <2>8. Fan!HeardByWhoMay'
    <3>1. s3'.for = a
      BY <2>2
    <3>2. QED
      BY <2>3, <2>5, <2>6, <3>1
  <2>9. QED
    BY <2>7, <2>8
<1>4. ASSUME NEW p \in Procs, Fan!OnMessage(p) PROVE Fan!RoomsAreProved' /\ Fan!HeardByWhoMay'
  <2>1. s3 # None /\ UNCHANGED <<s1, s2, s3>> /\ s4' \subseteq Procs
    BY <1>4 DEF Fan!OnMessage
  <2>2. s3.for \in Fan!Audiences \union Viewers
    BY <2>1 DEF Fan!Event
  <2>3. s7' = s7 \/ s7' = Fan!Delivered(p, s3.for)
    BY <1>4 DEF Fan!OnMessage
  <2>4. ASSUME NEW s \in Sockets, s7'[s] # s7[s]
        PROVE  /\ s2[s] # Fan!Closed
               /\ s3.for \in Viewers => s2[s].proved = s3.for
               /\ s3.for = "trusted" => s2[s].proved \in {"device", "admin", "obs"}
    BY <2>2, <2>3, <2>4, FanHears
  <2>5. s7' \in [Sockets -> Nat]
    BY <2>3, FanCounts
  <2>6. Fan!RoomsAreProved'
    <3>1. \A s \in Sockets : s2[s] = Fan!Closed => s7'[s] = 0
      BY <2>4
    <3>2. QED
      BY <2>1, <2>5, <3>1
  <2>7. Fan!HeardByWhoMay'
    <3>1. UNCHANGED <<s2, s3>>
      BY <2>1
    <3>2. QED
      BY <2>4, <2>5, <3>1
  <2>8. QED
    BY <2>6, <2>7
<1>5. ASSUME NEW p \in Procs, Fan!Restart(p) PROVE Fan!RoomsAreProved' /\ Fan!HeardByWhoMay'
  <2>1. /\ Fan!Closing({s \in Sockets : s2[s].at = p}) /\ UNCHANGED s3
        /\ s1' \in [Procs -> Instances] /\ s4' \subseteq s4
    BY <1>5 DEF Fan!Restart
  <2>2. QED
    BY <2>1, FanCloses
<1>6. QED
  BY <1>1, <1>2, <1>3, <1>4, <1>5 DEF Fan!Next

(* At the start there are no sockets.                                       *)
LEMMA FanBegins == ASSUME Fan!Init PROVE Fan!RoomsAreProved /\ Fan!HeardByWhoMay
BY PartsAssumption DEF Fan!Init, Fan!RoomsAreProved, Fan!HeardByWhoMay, Fan!Closed, Fan!Socket,
   Fan!Tokens

FanInv == Fan!RoomsAreProved /\ Fan!HeardByWhoMay /\ Fan!HeardIsDone /\ Fan!PresentHears

(* No socket is open, and no event has been emitted.                        *)
LEMMA FanWaits == ASSUME Fan!Init PROVE Fan!HeardIsDone /\ Fan!PresentHears
BY DEF Fan!Init, Fan!HeardIsDone, Fan!PresentHears

(* A socket hears when the event is emitted at its process, or when that one*)
(* gets it from Redis and does not take it for its own.                     *)
LEMMA FanDelivers ==
  ASSUME Fan!RoomsAreProved, NEW p \in Procs, NEW a, NEW s \in Sockets
  PROVE  /\ s2[s].at = p /\ Fan!IsFor(s, a) => Fan!Delivered(p, a)[s] = s7[s] + 1
         /\ ~(s2[s].at = p /\ Fan!IsFor(s, a)) => Fan!Delivered(p, a)[s] = s7[s]
         /\ s7[s] \in Nat
BY DEF Fan!Delivered, Fan!RoomsAreProved

LEMMA FanHeard ==
  ASSUME Fan!RoomsAreProved, Fan!HeardIsDone, Fan!PresentHears, Fan!Next
  PROVE  Fan!HeardIsDone' /\ Fan!PresentHears'
<1> DEFINE T == Fan!HeardIsDone' /\ Fan!PresentHears'
           For(socket, a) == socket # Fan!Closed /\ a \in {"all", socket.room, socket.wallet}
           Done(socket, heard, transit, instance, origin) ==
             /\ heard <= 1 /\ (socket.at = None => socket = Fan!Closed)
             /\ heard = 1 /\ socket.at \in transit => origin = instance[socket.at]
           There(socket, heard, transit, missed, instance, event) ==
             /\ For(socket, event.for)
             /\ socket.at = event.at => heard = 1
             /\ heard = 1 \/ socket.at \in transit \union missed \/ event.origin = instance[socket.at]
<1>b. /\ \A s \in Sockets : Done(s2[s], s7[s], s4, s1, s3.origin)
      /\ \A s \in s6 : There(s2[s], s7[s], s4, s5, s1, s3)
      /\ s6 \subseteq Sockets /\ (s3 = None => s6 = {})
  BY DEF Fan!HeardIsDone, Fan!PresentHears, Fan!IsFor, Fan!IsMine
<1>e. ASSUME \A s \in Sockets : Done(s2'[s], s7'[s], s4', s1', s3'.origin),
             \A s \in s6' : There(s2'[s], s7'[s], s4', s5', s1', s3'),
             s6' \subseteq Sockets, s3' = None => s6' = {}
      PROVE  T
  BY <1>e DEF Fan!HeardIsDone, Fan!PresentHears, Fan!IsFor, Fan!IsMine
<1>y. /\ s1 \in [Procs -> Instances] /\ s2 \in [Sockets -> Fan!Socket] /\ s4 \subseteq Procs
      /\ \A s \in Sockets : s7[s] \in Nat /\ (s2[s] = Fan!Closed \/ s3 = None => s7[s] = 0)
      /\ \A s \in Sockets : s2[s].at \in Procs \union {None}
      /\ s3 \in Fan!Event \union {None} /\ None \notin Procs /\ Fan!Closed.at = None
  BY PartsAssumption DEF Fan!RoomsAreProved, Fan!Socket, Fan!Closed
<1> HIDE DEF T, For, Done, There
<1>c. ASSUME NEW S, Fan!Closing(S), UNCHANGED s3, s4' \subseteq s4, s5 \subseteq s5',
             \A s \in Sockets \ S : s2[s].at \in s4 \union s5 => s2[s].at \in s4' \union s5',
             \A s \in Sockets \ S : s2[s].at \in Procs => s1'[s2[s].at] = s1[s2[s].at]
      PROVE  T
  <2>1. /\ \A s \in Sockets \ S : s2'[s] = s2[s] /\ s7'[s] = s7[s]
        /\ \A s \in Sockets : s \in S => s2'[s] = Fan!Closed /\ s7'[s] = 0
        /\ s6' = s6 \ S
    BY <1>c DEF Fan!Closing
  <2>2. ASSUME NEW s \in Sockets PROVE Done(s2'[s], s7'[s], s4', s1', s3'.origin)
    <3>1. CASE s \in S
      BY <2>1, <3>1 DEF Done
    <3>2. CASE s \notin S
      <4>1. Done(s2[s], s7[s], s4, s1, s3.origin)
        BY <1>b
      <4>2. s2[s].at \in s4' => s2[s].at \in s4 /\ s1'[s2[s].at] = s1[s2[s].at]
        BY <1>c, <1>y, <3>2
      <4>3. QED
        BY <1>c, <2>1, <3>2, <4>1, <4>2 DEF Done
    <3>3. QED
      BY <3>1, <3>2
  <2>3. ASSUME NEW s \in s6' PROVE There(s2'[s], s7'[s], s4', s5', s1', s3')
    <3>1. s \in Sockets \ S /\ There(s2[s], s7[s], s4, s5, s1, s3)
      BY <1>b, <2>1
    <3>2. s2[s].at \in Procs
      BY <1>b, <1>y, <3>1 DEF There, For, Done
    <3>3. QED
      BY <1>c, <2>1, <3>1, <3>2 DEF There
  <2>4. QED
    BY <1>b, <1>c, <1>e, <2>1, <2>2, <2>3
<1>1. ASSUME NEW s \in Sockets, Fan!Connect(s) PROVE T
  <2>1. PICK p \in Procs, role \in Fan!Roles, token \in Fan!Tokens : s2' = [s2 EXCEPT ![s] = Fan!Joined(p, role, token)]
    BY <1>1 DEF Fan!Connect
  <2>2. s2[s] = Fan!Closed /\ UNCHANGED <<s1, s3, s4, s5, s6, s7>>
    BY <1>1 DEF Fan!Connect
  <2>3. s \notin s6 /\ s7[s] = 0
    BY <1>b, <1>y, <2>2 DEF There, For
  <2>4. Fan!Joined(p, role, token).at = p
    BY DEF Fan!Joined
  <2>5. s2'[s].at = p /\ \A t \in Sockets \ {s} : s2'[t] = s2[t]
    BY <1>y, <2>1, <2>4
  <2>6. Done(s2'[s], s7[s], s4, s1, s3.origin)
    BY <1>y, <2>3, <2>5 DEF Done
  <2>7. \A t \in Sockets : Done(s2'[t], s7[t], s4, s1, s3.origin)
    BY <1>b, <2>5, <2>6
  <2>8. \A t \in s6 : There(s2'[t], s7[t], s4, s5, s1, s3)
    BY <1>b, <2>3, <2>5
  <2>9. QED
    BY <1>b, <1>e, <2>2, <2>7, <2>8
<1>2. ASSUME NEW s \in Sockets, Fan!Disconnect(s) PROVE T
  BY <1>2, <1>c DEF Fan!Disconnect
<1>3. ASSUME NEW p \in Procs, Fan!Emit(p) PROVE T
  <2>1. PICK a \in Fan!Audiences \union Viewers, reached \in SUBSET Procs :
          /\ s3' = [for |-> a, at |-> p, origin |-> s1[p]]
          /\ s7' = Fan!Delivered(p, a) /\ s6' = {s \in Sockets : Fan!IsFor(s, a)}
          /\ s4' = reached /\ s5' = Procs \ reached
    BY <1>3 DEF Fan!Emit
  <2>2. s3 = None /\ UNCHANGED <<s1, s2>>
    BY <1>3 DEF Fan!Emit
  <2>3. s3'.for = a /\ s3'.at = p /\ s3'.origin = s1[p] /\ s3' # None
    <3>1. s3' \in Fan!Event
      BY <1>y, <2>1 DEF Fan!Event
    <3>2. QED
      BY <2>1, <3>1, PartsAssumption DEF Fan!Event, Fan!Audiences
  <2>4. ASSUME NEW s \in Sockets PROVE Done(s2'[s], s7'[s], s4', s1', s3'.origin)
    <3>1. s7[s] = 0 /\ Done(s2[s], s7[s], s4, s1, s3.origin)
      BY <1>b, <1>y, <2>2
    <3>2. s7'[s] = 0 \/ (s7'[s] = 1 /\ s2[s].at = p)
      BY <2>1, <3>1, FanDelivers
    <3>3. QED
      BY <2>2, <2>3, <3>1, <3>2 DEF Done
  <2>5. ASSUME NEW s \in s6' PROVE There(s2'[s], s7'[s], s4', s5', s1', s3')
    <3>1. s \in Sockets /\ Fan!IsFor(s, a) /\ For(s2[s], a)
      BY <2>1 DEF Fan!IsFor, For
    <3>2. s2[s].at \in Procs
      BY <1>b, <1>y, <3>1 DEF For, Done
    <3>3. s2[s].at = p => s7'[s] = 1
      <4>1. s7[s] = 0
        BY <1>y, <2>2, <3>1
      <4>2. QED
        BY <2>1, <3>1, <4>1, FanDelivers
    <3>4. QED
      BY <2>1, <2>2, <2>3, <3>1, <3>2, <3>3 DEF There
  <2>6. QED
    BY <1>e, <2>1, <2>3, <2>4, <2>5
<1>4. ASSUME NEW p \in Procs, Fan!OnMessage(p) PROVE T
  <2>1. /\ p \in s4 /\ s4' = s4 \ {p} /\ UNCHANGED <<s1, s2, s3, s5, s6>>
        /\ s7' = IF s3.origin = s1[p] THEN s7 ELSE Fan!Delivered(p, s3.for)
    BY <1>4 DEF Fan!OnMessage, Fan!IsMine
  <2>2. CASE s3.origin = s1[p]
    <3>1. s7' = s7
      BY <2>1, <2>2
    <3>2. \A s \in Sockets : Done(s2[s], s7[s], s4', s1, s3.origin)
      BY <1>b, <2>1 DEF Done
    <3>3. \A s \in s6 : There(s2[s], s7[s], s4', s5, s1, s3)
      BY <1>b, <2>1, <2>2 DEF There
    <3>4. QED
      BY <1>b, <1>e, <2>1, <3>1, <3>2, <3>3
  <2>3. CASE s3.origin # s1[p]
    <3>1. s7' = Fan!Delivered(p, s3.for)
      BY <2>1, <2>3
    <3>2. ASSUME NEW s \in Sockets
          PROVE  /\ s2[s].at = p => s7[s] = 0 /\ (For(s2[s], s3.for) => s7'[s] = 1) /\ s7'[s] <= 1
                 /\ s2[s].at # p => s7'[s] = s7[s]
      <4>1. Done(s2[s], s7[s], s4, s1, s3.origin) /\ s7[s] \in Nat
        BY <1>b, <1>y
      <4>2. s2[s].at = p => s7[s] = 0
        BY <2>1, <2>3, <4>1 DEF Done
      <4>3. For(s2[s], s3.for) => Fan!IsFor(s, s3.for)
        BY DEF For, Fan!IsFor
      <4>4. QED
        BY <3>1, <4>2, <4>3, FanDelivers
    <3>3. ASSUME NEW s \in Sockets PROVE Done(s2[s], s7'[s], s4', s1, s3.origin)
      <4>1. Done(s2[s], s7[s], s4, s1, s3.origin)
        BY <1>b
      <4>2. QED
        BY <2>1, <3>2, <4>1 DEF Done
    <3>4. ASSUME NEW s \in s6 PROVE There(s2[s], s7'[s], s4', s5, s1, s3)
      <4>1. There(s2[s], s7[s], s4, s5, s1, s3) /\ s \in Sockets
        BY <1>b
      <4>2. QED
        BY <2>1, <3>2, <4>1 DEF There
    <3>5. QED
      BY <1>b, <1>e, <2>1, <3>3, <3>4
  <2>4. QED
    BY <2>2, <2>3
<1>5. ASSUME NEW p \in Procs, Fan!Restart(p) PROVE T
  <2>1. PICK S : S = {s \in Sockets : s2[s].at = p}
    OBVIOUS
  <2>2. /\ Fan!Closing(S) /\ UNCHANGED s3 /\ s4' = s4 \ {p}
        /\ s5' = IF p \in s4 THEN s5 \union {p} ELSE s5
        /\ \E i \in Instances : s1' = [s1 EXCEPT ![p] = i]
    BY <1>5, <2>1 DEF Fan!Restart
  <2>3. \A s \in Sockets \ S : s2[s].at # p
    BY <2>1
  <2>4. \A q \in Procs \ {p} : s1'[q] = s1[q]
    BY <1>y, <2>2
  <2>5. QED
    BY <1>c, <2>2, <2>3, <2>4
<1>6. QED
  BY <1>1, <1>2, <1>3, <1>4, <1>5 DEF Fan!Next, T

(* Who has not heard waits for no process, unless Redis failed it.          *)
LEMMA FanEnds ==
  ASSUME Fan!RoomsAreProved, Fan!HeardIsDone, Fan!PresentHears PROVE Fan!HeardOnce
BY DEF Fan!HeardIsDone, Fan!PresentHears, Fan!HeardOnce, Fan!IsMine

(* What leaves its variables alone leaves it alone.                         *)
LEMMA FanStays == ASSUME FanInv, UNCHANGED <<s1, s2, s3, s4, s5, s6, s7>> PROVE FanInv'
BY DEF FanInv, Fan!RoomsAreProved, Fan!HeardByWhoMay, Fan!HeardIsDone, Fan!PresentHears, Fan!IsFor,
   Fan!IsMine

-----------------------------------------------------------------------------
(* The job on the pages of the streamer, of OBS and of the admin: JobNews.  *)

NewsInv == News!NewsIsTyped /\ News!NewsIsOnItsWay /\ News!ArmedForShown

(* No page is connected, and no job has run.                                *)
LEMMA NewsBegins ==
  ASSUME News!Init PROVE NewsInv
BY DEF News!Init, NewsInv, News!NewsIsTyped, News!Known, News!NewsIsOnItsWay, News!ArmedForShown

(* What a page is told, shows and sends.                                    *)
LEMMA NewsTypes ==
  ASSUME News!NewsIsTyped, News!Next PROVE News!NewsIsTyped'
<1> USE DEF News!NewsIsTyped, News!Kinds, News!Known
<1> DEFINE T == News!NewsIsTyped'
           Messages == [kind : {"activated", "ended", "snapshot"}, version : Nat]
<1>0. {Asked, Refused, None} \intersect Int = {}
  BY PartsAssumption
<1>c. ASSUME News!Commit PROVE s2' = s2 + 1 /\ \A v \in s3' : v \in Nat /\ v <= s2'
  BY <1>c DEF News!Commit
<1>s. ASSUME NEW v \in Nat, v <= s2, News!Show(v) \/ UNCHANGED <<s10, s11>>
      PROVE  s10' \in Nat /\ s11' \in Nat /\ s10' <= s11' /\ s11' <= s2
  BY <1>s DEF News!Show
<1>a. ASSUME NEW m \in Messages, m.version <= s2, s6' = Append(s6, m)
      PROVE  s6' \in Seq(Messages) /\ \A i \in 1..Len(s6') : s6'[i].version <= s2
  <2>1. Len(s6') = Len(s6) + 1 /\ s6'[Len(s6) + 1] = m /\ \A i \in 1..Len(s6) : s6'[i] = s6[i]
    BY <1>a
  <2>2. QED
    BY <1>a, <2>1
<1>1. ASSUME News!Elsewhere PROVE T
  BY <1>1, <1>c DEF News!Elsewhere, News!socket, News!loading, News!button
<1>2. ASSUME NEW v \in News!Versions, News!Emit(v) PROVE T
  <2>1. PICK m : m = [kind |-> IF News!Job(v) THEN "activated" ELSE "ended", version |-> v]
    OBVIOUS
  <2>2. v \in Nat /\ v <= s2 /\ m \in Messages /\ m.version = v /\ (s6' = Append(s6, m) \/ s6' = s6)
    BY <1>2, <2>1 DEF News!Emit
  <2>3. s6' \in Seq(Messages) /\ \A i \in 1..Len(s6') : s6'[i].version <= s2
    BY <1>a, <2>2
  <2>4. QED
    BY <1>2, <2>3 DEF News!Emit, News!loading, News!button
<1>3. ASSUME News!ReadSnapshot \/ News!ReadState PROVE T
  BY <1>3 DEF News!ReadSnapshot, News!ReadState, News!server, News!loading, News!button, News!socket
<1>4. ASSUME News!SendSnapshot PROVE T
  <2>1. PICK m : m = [kind |-> "snapshot", version |-> s5]
    OBVIOUS
  <2>2. s5 \in Nat /\ s5 <= s2 /\ m \in Messages /\ m.version = s5 /\ s6' = Append(s6, m)
    BY <1>4, <2>1 DEF News!SendSnapshot
  <2>3. s6' \in Seq(Messages) /\ \A i \in 1..Len(s6') : s6'[i].version <= s2
    BY <1>a, <2>2
  <2>4. QED
    BY <1>4, <2>3 DEF News!SendSnapshot, News!server, News!loading, News!button
<1>5. ASSUME News!EndActive PROVE T
  <2>1. UNCHANGED <<s1, s4, s5, s6, s7, s10, s11>>
    BY <1>5 DEF News!EndActive, News!socket, News!loading, News!button
  <2>2. CASE News!Commit /\ s9' = s2'
    BY <1>c, <2>1, <2>2
  <2>3. CASE s9' = Refused /\ UNCHANGED <<s2, s3>>
    BY <2>1, <2>3
  <2>4. QED
    BY <1>5, <2>2, <2>3 DEF News!EndActive, News!server
<1>6. ASSUME News!Connect \/ News!Disconnect PROVE T
  <2>1. /\ UNCHANGED <<s1, s2, s3, s7, s9, s10, s11>> /\ s5' \in {Asked, None} /\ s6' \in {s6, <<>>}
    BY <1>6 DEF News!Connect, News!Disconnect, News!server, News!loading, News!button
  <2>2. s6' \in Seq(Messages) /\ \A i \in 1..Len(s6') : News!Known(s6'[i].version)
    <3>1. CASE s6' = s6
      BY <3>1
    <3>2. CASE s6' = <<>>
      BY <3>2
    <3>3. QED
      BY <2>1, <3>1, <3>2
  <2>3. QED
    BY <2>1, <2>2
<1>7. ASSUME News!Receive PROVE T
  <2>0. s6 # <<>> /\ s6' = Tail(s6) /\ s6 \in Seq(Messages)
    BY <1>7 DEF News!Receive
  <2>1. s6 # <<>> /\ Head(s6) = s6[1] /\ s6[1] \in Messages /\ s6[1].version \in Nat /\ s6[1].version <= s2 /\ s6' = Tail(s6)
    <3>1. Head(s6) = s6[1] /\ 1 \in 1..Len(s6)
      BY <2>0
    <3>2. s6[1] \in Messages
      <4> DEFINE M == Messages
      <4>1. s6 \in Seq(M)
        BY <2>0
      <4> HIDE DEF M
      <4>2. s6[1] \in M
        BY <3>1, <4>1
      <4>3. QED
        BY <4>2 DEF M
    <3>3. QED
      BY <2>0, <3>1, <3>2
  <2>2. s6' \in Seq(Messages) /\ \A i \in 1..Len(s6') : s6'[i].version <= s2
    BY <2>1
  <2>3. s10' \in Nat /\ s11' \in Nat /\ s10' <= s11' /\ s11' <= s2
    BY <1>7, <1>s, <2>1 DEF News!Receive, News!Told
  <2>4. QED
    BY <1>7, <2>2, <2>3 DEF News!Receive, News!server, News!loading
<1>8. ASSUME News!Load \/ News!Arm \/ News!Disarm \/ News!Confirm PROVE T
  BY <1>8 DEF News!Load, News!Arm, News!Disarm, News!Confirm, News!server, News!socket, News!loading
<1>9. ASSUME News!TakeState PROVE T
  <2>1. s7 \in Nat /\ s7 <= s2 /\ News!Show(s7)
    BY <1>9 DEF News!TakeState
  <2>2. s10' \in Nat /\ s11' \in Nat /\ s10' <= s11' /\ s11' <= s2
    BY <1>s, <2>1
  <2>3. QED
    BY <1>9, <2>2 DEF News!TakeState, News!server, News!socket
<1>10. ASSUME News!Answered PROVE T
  <2>1. s10' \in Nat /\ s11' \in Nat /\ s10' <= s11' /\ s11' <= s2
    BY <1>10, <1>s DEF News!Answered
  <2>2. QED
    BY <1>10, <2>1 DEF News!Answered, News!server, News!socket, News!loading, News!button
<1>11. QED
  BY <1>1, <1>2, <1>3, <1>4, <1>5, <1>6, <1>7, <1>8, <1>9, <1>10 DEF News!Next

(* What a connected page has not been told of is on its way to it.          *)
LEMMA NewsStep ==
  ASSUME News!NewsIsTyped, News!NewsIsOnItsWay, News!Next PROVE News!NewsIsOnItsWay'
<1> USE DEF News!NewsIsTyped, News!Known
<1> DEFINE T == News!NewsIsOnItsWay'
<1>0. {Asked, Refused, None} \intersect Int = {}
  BY PartsAssumption
<1>1. ASSUME News!Commit PROVE T
  BY <1>1 DEF News!Commit, News!NewsIsOnItsWay
<1>s. ASSUME NEW v \in Nat, v <= s2, News!Show(v) \/ UNCHANGED <<s10, s11>>
      PROVE  (v = s2 /\ News!Show(v) => s11' = s2) /\ (s11 = s2 => s11' = s2)
  BY <1>s DEF News!Show
<1>a. ASSUME NEW m, s6' = Append(s6, m)
      PROVE  Len(s6') = Len(s6) + 1 /\ s6'[Len(s6) + 1] = m /\ \A i \in 1..Len(s6) : s6'[i] = s6[i]
  BY <1>a
<1>2. ASSUME NEW v \in News!Versions, News!Emit(v) PROVE T
  <2>1. /\ s3' = s3 \ {v} /\ UNCHANGED <<s2, s4, s5, s11>>
        /\ s4 => \E m : m.version = v /\ s6' = Append(s6, m)
    BY <1>2 DEF News!Emit
  <2>2. CASE s4
    <3>1. PICK m : m.version = v /\ s6' = Append(s6, m)
      BY <2>1, <2>2
    <3>2. Len(s6) \in Nat
      OBVIOUS
    <3>3. QED
      BY <1>a, <2>1, <2>2, <3>1, <3>2 DEF News!NewsIsOnItsWay
  <2>3. CASE ~s4
    BY <2>1, <2>3 DEF News!NewsIsOnItsWay
  <2>4. QED
    BY <2>2, <2>3
<1>3. ASSUME News!ReadSnapshot \/ News!ReadState PROVE T
  <2>1. UNCHANGED <<s2, s3, s4, s6, s11>> /\ s5' \in {s5, s2} /\ (s5' # s5 => s5' = s2)
    BY <1>3 DEF News!ReadSnapshot, News!ReadState, News!server, News!socket
  <2>2. QED
    BY <1>3, <2>1 DEF News!NewsIsOnItsWay, News!ReadSnapshot, News!ReadState, News!socket
<1>4. ASSUME News!SendSnapshot PROVE T
  <2>1. /\ UNCHANGED <<s2, s3, s4, s11>> /\ s5 # Asked
        /\ \E m : m.version = s5 /\ s6' = Append(s6, m)
    BY <1>4 DEF News!SendSnapshot, News!server
  <2>2. PICK m : m.version = s5 /\ s6' = Append(s6, m)
    BY <2>1
  <2>3. Len(s6) \in Nat
    OBVIOUS
  <2>4. QED
    BY <1>a, <2>1, <2>2, <2>3 DEF News!NewsIsOnItsWay
<1>5. ASSUME News!Connect \/ News!Disconnect PROVE T
  BY <1>5 DEF News!Connect, News!Disconnect, News!NewsIsOnItsWay
<1>6. ASSUME News!Receive PROVE T
  <2>1. /\ s6 # <<>> /\ Head(s6) = s6[1] /\ s6[1].version \in Nat /\ s6[1].version <= s2 /\ s6' = Tail(s6)
        /\ News!Show(s6[1].version) /\ UNCHANGED <<s2, s3, s4, s5>>
    BY <1>6 DEF News!Receive, News!Told, News!server
  <2>2. (s6[1].version = s2 => s11' = s2) /\ (s11 = s2 => s11' = s2)
    BY <1>s, <2>1
  <2>3. Len(s6') = Len(s6) - 1 /\ Len(s6) \in Nat /\ \A i \in 2..Len(s6) : s6'[i - 1] = s6[i]
    BY <2>1
  <2>4. ASSUME NEW i \in 2..Len(s6), s6[i].version = s2 PROVE \E j \in 1..Len(s6') : s6'[j].version = s2
    <3>1. i - 1 \in 1..Len(s6') /\ s6'[i - 1] = s6[i]
      BY <2>3
    <3>2. QED
      BY <2>4, <3>1
  <2>5. QED
    BY <2>1, <2>2, <2>4 DEF News!NewsIsOnItsWay
<1>7. ASSUME News!TakeState \/ News!Answered PROVE T
  <2>1. /\ UNCHANGED <<s2, s3, s4, s5, s6>>
        /\ \E v \in Nat : v <= s2 /\ (News!Show(v) \/ UNCHANGED <<s10, s11>>)
    BY <1>7 DEF News!TakeState, News!Answered, News!server, News!socket
  <2>2. s11 = s2 => s11' = s2
    BY <1>s, <2>1
  <2>3. QED
    BY <2>1, <2>2 DEF News!NewsIsOnItsWay
<1>8. ASSUME News!Load \/ News!Arm \/ News!Disarm \/ News!Confirm PROVE T
  <2>1. UNCHANGED <<s2, s3, s4, s5, s6, s11>>
    BY <1>8 DEF News!Load, News!Arm, News!Disarm, News!Confirm, News!server, News!socket
  <2>2. QED
    BY <2>1 DEF News!NewsIsOnItsWay
<1>9. ASSUME News!Elsewhere PROVE T
  BY <1>1, <1>9 DEF News!Elsewhere
<1>10. ASSUME News!EndActive PROVE T
  BY <1>1, <1>10 DEF News!EndActive, News!server, News!socket, News!NewsIsOnItsWay
<1>11. QED
  BY <1>2, <1>3, <1>4, <1>5, <1>6, <1>7, <1>8, <1>9, <1>10 DEF News!Next

(* The phone's button is armed for the job that it shows.                   *)
LEMMA NewsArms ==
  ASSUME News!NewsIsTyped, News!ArmedForShown, News!Next PROVE News!ArmedForShown'
<1> USE DEF News!ArmedForShown
<1>0. None \notin {Asked, Refused} /\ {Asked, Refused, None} \intersect Int = {}
  BY PartsAssumption
<1>1. ASSUME News!Elsewhere \/ News!ReadSnapshot \/ News!SendSnapshot \/ News!ReadState \/ News!EndActive
      PROVE  News!ArmedForShown'
  BY <1>0, <1>1 DEF News!Elsewhere, News!ReadSnapshot, News!SendSnapshot, News!ReadState,
     News!EndActive,
     News!socket, News!loading, News!server, News!button
<1>2. ASSUME (\E v \in News!Versions : News!Emit(v)) \/ News!Connect \/ News!Disconnect \/ News!Load
      PROVE  News!ArmedForShown'
  BY <1>2 DEF News!Emit, News!Connect, News!Disconnect, News!Load, News!socket, News!loading,
     News!server,
     News!button
<1>3. ASSUME News!Receive \/ News!TakeState PROVE News!ArmedForShown'
  BY <1>3 DEF News!Receive, News!TakeState, News!ArmAfter, News!socket, News!server, News!loading
<1>4. ASSUME News!Arm \/ News!Disarm \/ News!Confirm \/ News!Answered PROVE News!ArmedForShown'
  BY <1>4 DEF News!Arm, News!Disarm, News!Confirm, News!Answered, News!socket, News!server,
     News!loading,
     News!button
<1>5. QED
  BY <1>1, <1>2, <1>3, <1>4 DEF News!Next

(* A page that is up to date with its news shows the job that runs.         *)
LEMMA NewsShows ==
  ASSUME NewsInv PROVE News!LostOnlyToLateNews
BY PartsAssumption DEF NewsInv, News!NewsIsTyped, News!Known, News!NewsIsOnItsWay,
   News!LostOnlyToLateNews, News!AllDelivered

(* Only the second tap sends a request.                                     *)
LEMMA NewsConfirms ==
  ASSUME News!ArmedForShown, News!Next PROVE News!ConfirmsWhatWasArmed
<1>0. None # Asked
  BY PartsAssumption
<1>1. ASSUME s9 = None, s9' = Asked PROVE News!Confirm
  BY <1>0, <1>1 DEF News!Next, News!Elsewhere, News!ReadSnapshot, News!SendSnapshot, News!ReadState,
     News!EndActive, News!Emit, News!Connect, News!Disconnect, News!Load, News!Receive, News!TakeState,
     News!Arm, News!Disarm, News!Answered
<1>2. QED
  BY <1>1 DEF News!ArmedForShown, News!Confirm, News!ConfirmsWhatWasArmed

(* What leaves its variables alone leaves it alone.                         *)
LEMMA NewsStays == ASSUME NewsInv, UNCHANGED <<s1, s2, s3, s4, s5, s6, s7, s8, s9, s10, s11, s12, s13, s14>> PROVE NewsInv'
BY DEF NewsInv, News!NewsIsTyped, News!Known, News!NewsIsOnItsWay, News!ArmedForShown

-----------------------------------------------------------------------------
(* The Panel of the channel: ChannelPanel.                                  *)

PanelInv == Panel!PriceIsOfLastPick /\ Panel!LastIsTyped /\ Panel!LastIsOnItsWay

(* Nobody has clicked, and the Panel has not been told of a waypoint.       *)
LEMMA PanelBegins ==
  ASSUME Panel!Init PROVE PanelInv
BY DEF Panel!Init, PanelInv, Panel!PriceIsOfLastPick, Panel!LastIsTyped, Panel!LastIsOnItsWay,
   Panel!Known,
   Panel!Idle

(* Only the answer to the last click is put on the card.                    *)
LEMMA PanelPrices ==
  ASSUME Panel!PriceIsOfLastPick, Panel!Next PROVE Panel!PriceIsOfLastPick'
<1> USE DEF Panel!PriceIsOfLastPick
<1> DEFINE T == Panel!PriceIsOfLastPick'
<1>u. ASSUME UNCHANGED <<s4, s5>> PROVE T
  BY <1>u
<1>1. ASSUME NEW person, Panel!OnAuthorized(person) PROVE T
  BY <1>1 DEF Panel!OnAuthorized, Panel!Idle
<1>2. ASSUME Panel!HandlePick PROVE T
  BY <1>2 DEF Panel!HandlePick
<1>3. ASSUME NEW q, Panel!PriceIt(q, "quoted") \/ Panel!PriceIt(q, "error") PROVE T
  BY <1>3 DEF Panel!PriceIt
<1>4. ASSUME NEW q, Panel!TakePrice(q) PROVE T
  BY <1>4 DEF Panel!TakePrice, Panel!IsLastPick
<1>5. ASSUME Panel!WaypointChanges \/ Panel!Connect \/ Panel!Disconnect \/ Panel!OnWaypointEvent PROVE T
  BY <1>5 DEF Panel!WaypointChanges, Panel!Connect, Panel!Disconnect, Panel!OnWaypointEvent,
     Panel!prices
<1>6. ASSUME NEW r, Panel!BuildViewerState(r) \/ Panel!ReadFails(r) \/ Panel!TakeState(r) PROVE T
  BY <1>6 DEF Panel!BuildViewerState, Panel!ReadFails, Panel!TakeState, Panel!prices
<1>7. ASSUME Panel!StreamChanges \/ Panel!CheckAgain PROVE T
  BY <1>7 DEF Panel!StreamChanges, Panel!CheckAgain, Panel!prices
<1>8. ASSUME NEW c, NEW said, Panel!GetStreams(c, said) \/ Panel!TakeLive(c) PROVE T
  BY <1>8 DEF Panel!GetStreams, Panel!TakeLive, Panel!prices
<1>9. QED
  BY <1>1, <1>2, <1>3, <1>4, <1>5, <1>6, <1>7, <1>8 DEF Panel!Next

(* As long as nothing was lost, what the Panel has not been told of the     *)
(* waypoint is on its way.                                                  *)
LEMMA PanelHears ==
  ASSUME Panel!LastIsTyped, Panel!LastIsOnItsWay, Panel!Next
  PROVE  Panel!LastIsTyped' /\ Panel!LastIsOnItsWay'
<1> DEFINE T == Panel!LastIsTyped' /\ Panel!LastIsOnItsWay'
           Read(r) == DOMAIN r = {"n", "read"} /\ (r.read \in {-1, -2} \/ (r.read \in Nat /\ r.read <= s7))
<1>n. Panel!Unread = -1 /\ Panel!Unanswered = -2 /\ None \notin Int
  BY PartsAssumption DEF Panel!Unread, Panel!Unanswered
<1>b. /\ s7 \in Nat /\ s9 \in Nat /\ s16 \in Nat
      /\ s12 = None \/ (s12 \in Nat /\ s12 <= s7)
      /\ \A r \in s10 : Read(r)
      /\ s16 = 0 => /\ \A r \in s10 : r.read # -2
                    /\ s8 => s12 = s7 \/ s9 > 0 \/ \E r \in s10 : r.read \in {-1, s7}
  BY <1>n DEF Panel!LastIsTyped, Panel!LastIsOnItsWay, Panel!Known
<1>e. ASSUME s7' \in Nat, s9' \in Nat, s16' \in Nat,
             s12' = None \/ (s12' \in Nat /\ s12' <= s7'),
             \A r \in s10' : DOMAIN r = {"n", "read"} /\ (r.read \in {-1, -2} \/ (r.read \in Nat /\ r.read <= s7')),
             s16' = 0 => /\ \A r \in s10' : r.read # -2
                         /\ s8' => s12' = s7' \/ s9' > 0 \/ \E r \in s10' : r.read \in {-1, s7'}
      PROVE  T
  BY <1>e, <1>n DEF Panel!LastIsTyped, Panel!LastIsOnItsWay, Panel!Known
<1>l. ASSUME UNCHANGED <<s7, s8, s9, s10, s12>>, s16' = s16 \/ s16' = s16 + 1 PROVE T
  BY <1>b, <1>e, <1>l
<1>r. ASSUME Panel!Refresh, UNCHANGED <<s7, s12, s16>>, s9' \in Nat PROVE T
  <2>1. PICK y : y = [n |-> 1 + Panel!Cardinality(s10), read |-> Panel!Unread]
    OBVIOUS
  <2>2. DOMAIN y = {"n", "read"} /\ y.read = -1
    BY <1>n, <2>1
  <2>3. s10' = s10 \union {y}
    BY <1>r, <2>1 DEF Panel!Refresh
  <2>4. QED
    BY <1>b, <1>e, <1>r, <2>2, <2>3
<1>1. ASSUME NEW person, Panel!OnAuthorized(person) PROVE T
  <2>1. UNCHANGED <<s7, s8, s9, s12, s16>> /\ (Panel!Refresh \/ UNCHANGED s10)
    BY <1>1 DEF Panel!OnAuthorized
  <2>2. QED
    BY <1>b, <1>l, <1>r, <2>1
<1>2. ASSUME Panel!HandlePick PROVE T
  BY <1>2, <1>l DEF Panel!HandlePick, Panel!lasts
<1>3. ASSUME NEW q, Panel!PriceIt(q, "quoted") \/ Panel!PriceIt(q, "error") \/ Panel!TakePrice(q) PROVE T
  BY <1>3, <1>l DEF Panel!PriceIt, Panel!TakePrice, Panel!lasts
<1>4. ASSUME Panel!WaypointChanges PROVE T
  <2>1. s7' = s7 + 1 /\ (s8 => s9' = s9 + 1) /\ s9' \in Nat /\ UNCHANGED <<s8, s10, s12, s16>>
    BY <1>4, <1>b DEF Panel!WaypointChanges
  <2>2. QED
    BY <1>b, <1>e, <2>1
<1>5. ASSUME Panel!Connect \/ Panel!OnWaypointEvent PROVE T
  <2>1. Panel!Refresh /\ UNCHANGED <<s7, s12, s16>> /\ s9' \in Nat
    BY <1>5, <1>b DEF Panel!Connect, Panel!OnWaypointEvent
  <2>2. QED
    BY <1>r, <2>1
<1>6. ASSUME Panel!Disconnect PROVE T
  BY <1>6, <1>b, <1>e DEF Panel!Disconnect, Panel!Drop
<1>w. ASSUME NEW r \in s10, NEW v, [r EXCEPT !.read = v] \in s10', s10' = (s10 \ {r}) \union {[r EXCEPT !.read = v]},
             UNCHANGED <<s7, s8, s9, s12>>, s16' \in Nat,
             (v = -2 /\ s16' # 0) \/ (v = s7 /\ s16' = s16)
      PROVE  T
  <2>1. PICK y : y = [r EXCEPT !.read = v]
    OBVIOUS
  <2>2. DOMAIN y = {"n", "read"} /\ y.read = v
    BY <1>b, <2>1
  <2>3. s10' = (s10 \ {r}) \union {y}
    BY <1>w, <2>1
  <2>4. CASE v = -2 /\ s16' # 0
    BY <1>b, <1>e, <1>w, <2>2, <2>3, <2>4
  <2>5. CASE v = s7 /\ s16' = s16
    <3>1. \A x \in s10' : Read(x) /\ (s16 = 0 => x.read # -2)
      BY <1>b, <2>2, <2>3, <2>5
    <3>2. y \in s10' /\ y.read = s7
      BY <2>2, <2>3, <2>5
    <3>3. QED
      BY <1>b, <1>e, <1>w, <2>5, <3>1, <3>2
  <2>6. QED
    BY <1>w, <2>4, <2>5
<1>7. ASSUME NEW r, Panel!BuildViewerState(r) PROVE T
  BY <1>7, <1>b, <1>w DEF Panel!BuildViewerState
<1>8. ASSUME NEW r, Panel!ReadFails(r) PROVE T
  <2>1. /\ r \in s10 /\ s10' = (s10 \ {r}) \union {[r EXCEPT !.read = -2]} /\ UNCHANGED <<s7, s8, s9, s12>>
        /\ s16' \in Nat /\ s16' # 0
    BY <1>8, <1>b, <1>n DEF Panel!ReadFails, Panel!Drop
  <2>2. QED
    BY <1>w, <2>1
<1>9. ASSUME NEW r, Panel!TakeState(r) PROVE T
  <2>1. r \in s10 /\ r.read # -1 /\ s10' = Panel!Renumber(s10 \ {r}) /\ UNCHANGED <<s7, s8, s9, s16>>
    BY <1>9, <1>n DEF Panel!TakeState
  <2>2. \A y \in s10' : \E x \in s10 : DOMAIN y = DOMAIN x /\ y.read = x.read
    BY <1>b, <2>1 DEF Panel!Renumber
  <2>3. ASSUME NEW x \in s10 \ {r} PROVE \E y \in s10' : y.read = x.read
    <3>1. PICK k : k = Panel!Cardinality({z \in s10 \ {r} : z.n <= x.n})
      OBVIOUS
    <3>2. PICK y : y = [x EXCEPT !.n = k]
      OBVIOUS
    <3>3. y \in s10'
      BY <2>1, <3>1, <3>2 DEF Panel!Renumber
    <3>4. y.read = x.read
      BY <1>b, <3>2
    <3>5. QED
      BY <3>3, <3>4
  <2>4. /\ s12' = None \/ (s12' \in Nat /\ s12' <= s7)
        /\ r.read = s7 \/ s12 = s7 => s12' = s7
    BY <1>9, <1>b, <1>n, <2>1 DEF Panel!TakeState
  <2>5. QED
    BY <1>b, <1>e, <2>1, <2>2, <2>3, <2>4
<1>10. ASSUME Panel!StreamChanges \/ Panel!CheckAgain PROVE T
  BY <1>10, <1>l DEF Panel!StreamChanges, Panel!CheckAgain, Panel!lasts
<1>11. ASSUME NEW c, NEW said, Panel!GetStreams(c, said) \/ Panel!TakeLive(c) PROVE T
  BY <1>11, <1>l DEF Panel!GetStreams, Panel!TakeLive, Panel!lasts
<1>12. QED
  BY <1>1, <1>2, <1>3, <1>4, <1>5, <1>6, <1>7, <1>8, <1>9, <1>10, <1>11 DEF Panel!Next

LEMMA PanelStep ==
  ASSUME PanelInv, Panel!Next PROVE PanelInv'
BY PanelPrices, PanelHears DEF PanelInv

(* A Panel that has heard of all shows the waypoint as it is.               *)
LEMMA PanelShows ==
  ASSUME PanelInv PROVE Panel!LastIsShown
BY DEF PanelInv, Panel!LastIsOnItsWay, Panel!LastIsTyped, Panel!LastIsShown

(* What leaves its variables alone leaves it alone.                         *)
LEMMA PanelStays == ASSUME PanelInv, UNCHANGED <<s1, s2, s3, s4, s5, s6, s7, s8, s9, s10, s11, s12, s13, s14, s15, s16>> PROVE PanelInv'
BY DEF PanelInv, Panel!PriceIsOfLastPick, Panel!LastIsTyped, Panel!Known, Panel!LastIsOnItsWay

-----------------------------------------------------------------------------
(* The wallet that a viewer is shown: ViewerWallet.                         *)

(* The first page is of whoever is there, and shows nothing yet.            *)
LEMMA WalletBegins ==
  ASSUME Wallet!Init PROVE Wallet!ReadsAreOwn /\ Wallet!PageIsOwn
BY DEF Wallet!Init, Wallet!ReadsAreOwn, Wallet!PageIsOwn, Wallet!Person, Wallet!FirstLoad,
       Wallet!Load, Wallet!NoWallet, Wallet!Closed

(* What the page keeps is enough for what it shows.                         *)
LEMMA WalletShows ==
  ASSUME Wallet!ReadsAreOwn, Wallet!PageIsOwn PROVE Wallet!ShownIsOwn
<1> USE DEF Wallet!ReadsAreOwn, Wallet!PageIsOwn
<1>1. s7.viewer = s2 /\ (s5 # Wallet!NoWallet => s5.viewer = s2)
  OBVIOUS
<1>2. Wallet!BalanceText.viewer = s2
  BY <1>1 DEF Wallet!BalanceText
<1>3. Wallet!WalletChip.viewer = s2
  BY <1>1, <1>2 DEF Wallet!WalletChip
<1>4. \A shown \in Wallet!TopUpDialog : shown.viewer = s2
  BY <1>2 DEF Wallet!TopUpDialog
<1>5. \A shown \in Wallet!WalletToast : shown.viewer = s2
  BY DEF Wallet!WalletToast
<1>6. QED
  BY <1>3, <1>4, <1>5 DEF Wallet!ShownIsOwn

(* A new read is of whoever is there. *)
LEMMA WalletLoads ==
  ASSUME Wallet!ReadsAreOwn, Wallet!PageIsOwn, NEW row, Wallet!LoadWallet(row),
         UNCHANGED <<s1, s2>>,
         s10' \in {s10, s2},
         row = None \/ (row \in Wallet!Row /\ row.viewer = s2), s11' \subseteq s11
  PROVE  Wallet!ReadsAreOwn' /\ Wallet!PageIsOwn'
<1> USE DEF Wallet!ReadsAreOwn, Wallet!PageIsOwn
<1>1. \A r \in Wallet!Older : /\ r \in Wallet!Answer /\ r.newest = FALSE
                              /\ r.row # None => r.row.viewer = r.viewer
  BY ZenonT(60) DEF Wallet!Older, Wallet!Answer
<1>2. s2 # None => Wallet!Read(s2, row) \in Wallet!Answer /\ Wallet!Read(s2, row).viewer = s2 /\ Wallet!Read(s2, row).row = row
  BY DEF Wallet!Read, Wallet!Answer, Wallet!Person
<1>3. \A r \in s4' : r \in Wallet!Older \/ (s2 # None /\ r = Wallet!Read(s2, row))
  BY DEF Wallet!LoadWallet
<1>4. Wallet!ReadsAreOwn'
  BY <1>1, <1>2, <1>3
<1>5. Wallet!PageIsOwn'
  BY DEF Wallet!LoadWallet, Wallet!Loading, Wallet!Load
<1>6. QED
  BY <1>4, <1>5

(* Answers, events and changes of identity keep the page to its viewer.     *)
LEMMA WalletStep ==
  ASSUME Wallet!ReadsAreOwn, Wallet!PageIsOwn,
         Wallet!Next PROVE Wallet!ReadsAreOwn' /\ Wallet!PageIsOwn'
<1> USE DEF Wallet!ReadsAreOwn, Wallet!PageIsOwn
<1>1. ASSUME NEW v \in Wallet!Person, Wallet!OnAuthorized(v) PROVE Wallet!ReadsAreOwn' /\ Wallet!PageIsOwn'
  <2>1. \A r \in Wallet!Older : /\ r \in Wallet!Answer /\ r.newest = FALSE
                                /\ r.row # None => r.row.viewer = r.viewer
    BY ZenonT(60) DEF Wallet!Older, Wallet!Answer
  <2>2. v # None => Wallet!Read(v, None) \in Wallet!Answer /\ Wallet!Read(v, None).viewer = v /\ Wallet!Read(v, None).row = None
    BY DEF Wallet!Read, Wallet!Answer, Wallet!Person
  <2>3. \A r \in s4' : r \in Wallet!Older \/ (v # None /\ r = Wallet!Read(v, None))
    BY <1>1 DEF Wallet!OnAuthorized
  <2>4. s2' = v /\ s10' = None /\ s11' = {} /\ UNCHANGED s1
    BY <1>1 DEF Wallet!OnAuthorized
  <2>5. Wallet!ReadsAreOwn'
    BY <2>1, <2>2, <2>3, <2>4
  <2>6. s7' \in [viewer : {v}, is : {"idle", "needs", "loading"}]
    BY <1>1 DEF Wallet!OnAuthorized, Wallet!FirstLoad, Wallet!Load
  <2>7. s5' = Wallet!NoWallet /\ s6' = None /\ s8'.credit = None
    BY <1>1 DEF Wallet!OnAuthorized, Wallet!Dialog, Wallet!Closed
  <2>8. Wallet!PageIsOwn'
    BY <2>4, <2>6, <2>7
  <2>9. QED
    BY <2>5, <2>8
<1>2. ASSUME Wallet!Resync PROVE Wallet!ReadsAreOwn' /\ Wallet!PageIsOwn'
  BY <1>2, WalletLoads DEF Wallet!Resync
<1>3. ASSUME Wallet!ToastExpires PROVE Wallet!ReadsAreOwn' /\ Wallet!PageIsOwn'
  BY <1>3 DEF Wallet!ToastExpires
<1>4. ASSUME Wallet!OpenTopUp PROVE Wallet!ReadsAreOwn' /\ Wallet!PageIsOwn'
  BY <1>4 DEF Wallet!OpenTopUp, Wallet!Dialog
<1>5. ASSUME Wallet!CloseTopUp PROVE Wallet!ReadsAreOwn' /\ Wallet!PageIsOwn'
  BY <1>5 DEF Wallet!CloseTopUp, Wallet!Closed
<1>6. ASSUME Wallet!Disconnect PROVE Wallet!ReadsAreOwn' /\ Wallet!PageIsOwn'
  BY <1>6 DEF Wallet!Disconnect, Wallet!page
<1>7. ASSUME NEW r \in s4, Wallet!ReadWallet(r) PROVE Wallet!ReadsAreOwn' /\ Wallet!PageIsOwn'
  <2>1. PICK n \in {s1[r.viewer], Failed, Stranger} : s4' = (s4 \ {r}) \union {[r EXCEPT !.rows = n]}
    BY <1>7 DEF Wallet!ReadWallet
  <2>2. r \in Wallet!Answer /\ n \in Nat \union {Failed, Stranger}
    BY <2>1 DEF Wallet!Answer
  <2>3. [r EXCEPT !.rows = n] \in Wallet!Answer /\ [r EXCEPT !.rows = n].newest = r.newest
        /\ [r EXCEPT !.rows = n].viewer = r.viewer /\ [r EXCEPT !.rows = n].row = r.row
    BY <2>2 DEF Wallet!Answer
  <2>4. UNCHANGED <<s1, s2, s5, s6, s7, s8, s10, s11>>
    BY <1>7 DEF Wallet!ReadWallet, Wallet!page
  <2>5. QED
    BY <2>1, <2>3, <2>4, ZenonT(60)
<1>8. ASSUME NEW r \in s4, Wallet!TakeWallet(r) PROVE Wallet!ReadsAreOwn' /\ Wallet!PageIsOwn'
  <2>1. UNCHANGED <<s1, s2, s10, s11>> /\ s4' \subseteq s4
    BY <1>8 DEF Wallet!TakeWallet
  <2>2. r \in Wallet!Answer /\ r.rows # None
    BY <1>8 DEF Wallet!TakeWallet
  <2>3. /\ s7' \in [viewer : {s2}, is : {"idle", "needs", "loading", "ready", "error"}]
        /\ s5' \in [viewer : {s2}, rows : Nat] \union {Wallet!NoWallet}
        /\ s7'.is = "ready" <=> s5' # Wallet!NoWallet
    <3>1. CASE Wallet!NewestIsShown(r) /\ Wallet!Take(r)
      <4>1. r.viewer = s2 /\ r.viewer \in Viewers /\ r.rows \in Nat \union {Failed, Stranger}
        BY <2>2, <3>1 DEF Wallet!NewestIsShown, Wallet!Answer
      <4>2. \A n : [viewer |-> s2, rows |-> n] # Wallet!NoWallet
        BY <4>1, PartsAssumption DEF Wallet!NoWallet
      <4>3. QED
        BY <3>1, <4>1, <4>2 DEF Wallet!Take, Wallet!Load
    <3>2. CASE UNCHANGED <<s5, s7>>
      BY <3>2
    <3>3. QED
      BY <1>8, <3>1, <3>2 DEF Wallet!TakeWallet
  <2>4. /\ s6' = None \/ (s6' \in Wallet!Row /\ s6'.viewer = s2)
        /\ s8'.credit = None \/ (s8'.credit \in Wallet!Row /\ s8'.credit.viewer = s2)
    <3>1. CASE Wallet!Notice(r) /\ Wallet!AnnounceCredit(r.row)
      <4>1. r.row \in Wallet!Row /\ r.row.viewer = s2
        BY <2>2, <3>1 DEF Wallet!Notice, Wallet!Answer
      <4>2. QED
        BY <3>1, <4>1 DEF Wallet!AnnounceCredit, Wallet!Dialog, Wallet!Closed
    <3>2. CASE UNCHANGED <<s6, s8>>
      BY <3>2
    <3>3. QED
      BY <1>8, <3>1, <3>2 DEF Wallet!TakeWallet
  <2>5. QED
    BY <2>1, <2>3, <2>4
<1>9. ASSUME NEW again \in BOOLEAN, Wallet!Connect(again) PROVE Wallet!ReadsAreOwn' /\ Wallet!PageIsOwn'
  <2>1. UNCHANGED <<s1, s2, s11>> /\ s10' = s2
    BY <1>9 DEF Wallet!Connect
  <2>2. CASE UNCHANGED <<s4, s5, s6, s7, s8>>
    BY <2>1, <2>2
  <2>3. CASE Wallet!LoadWallet(None)
    BY <2>1, <2>3, WalletLoads
  <2>4. QED
    BY <1>9, <2>2, <2>3 DEF Wallet!Connect, Wallet!page
<1>10. ASSUME NEW v \in Viewers, Wallet!Credit(v) PROVE Wallet!ReadsAreOwn' /\ Wallet!PageIsOwn'
  <2>1. s1[v] \in Nat /\ s1' = [s1 EXCEPT ![v] = s1[v] + 1]
    BY <1>10 DEF Wallet!Credit
  <2>2. s1' \in [Viewers -> Nat]
    BY <2>1
  <2>3. \A s \in s11' : s \in s11 \/ (s10 = v /\ s = [viewer |-> v, row |-> s1[v] + 1])
    BY <1>10 DEF Wallet!Credit
  <2>4. \A s \in s11' : s \in Wallet!Row /\ s.viewer = s2
    BY <2>1, <2>3, PartsAssumption DEF Wallet!Row
  <2>5. UNCHANGED <<s2, s4, s5, s6, s7, s8, s10>>
    BY <1>10 DEF Wallet!Credit, Wallet!page
  <2>6. QED
    BY <2>2, <2>4, <2>5
<1>11. ASSUME NEW s \in s11, Wallet!OnWalletUpdated(s) PROVE Wallet!ReadsAreOwn' /\ Wallet!PageIsOwn'
  BY <1>11, WalletLoads DEF Wallet!OnWalletUpdated
<1>12. QED
  BY <1>1, <1>2, <1>3, <1>4, <1>5, <1>6, <1>7, <1>8, <1>9, <1>10, <1>11 DEF Wallet!Next

-----------------------------------------------------------------------------
(* The pool of slots: SlotPool.                                             *)

(* All slots are free, and nobody has redeemed anything.                    *)
LEMMA SlotBegins ==
  ASSUME Slot!Init
  PROVE  /\ Slot!RowsAreTyped /\ Slot!JobsAreTyped /\ Slot!PaymentsAreWhole
         /\ Slot!JudgedOnce /\ Slot!JudgedAsPaid /\ Slot!PaidByOwner
<1> USE PartsAssumption DEF Slot!Init, Slot!Live
<1>1. Slot!Idle \in Slot!Job /\ Slot!Idle.at = "idle" /\ Slot!Idle.redemption = None
  BY DEF Slot!Idle, Slot!Job, Slot!Ats, Slot!Row, Slot!NoRow
<1>2. Slot!RowsAreTyped
  BY DEF Slot!RowsAreTyped, Slot!Reward, Slot!Quote, Slot!Payment, Slot!Row, Slot!Free, Slot!NoRow,
     Slot!Statuses, Slot!Hidden, Slot!IdleCost, Slot!Unmade, Slot!Slots
<1>3. Slot!JobsAreTyped
  BY <1>1 DEF Slot!JobsAreTyped
<1>4. Slot!JudgedOnce
  BY <1>1 DEF Slot!JudgedOnce, Slot!Held, Slot!Unmade
<1>5. Slot!JudgedAsPaid
  BY <1>1 DEF Slot!JudgedAsPaid, Slot!Knows, Slot!Judging, Slot!Holding
<1>6. Slot!PaidByOwner /\ Slot!PaymentsAreWhole
  BY DEF Slot!PaidByOwner, Slot!PaymentsAreWhole, Slot!Unmade
<1>7. QED
  BY <1>2, <1>3, <1>4, <1>5, <1>6

(* What a handler goes on with is a job.                                    *)
LEMMA SlotGoes ==
  ASSUME Slot!JobsAreTyped, NEW w \in Procs, NEW j \in Slot!Job, s11' = [s11 EXCEPT ![w] = j],
         j.at \in {"lease", "show"} => j.quote # None
  PROVE  Slot!JobsAreTyped'
BY DEF Slot!JobsAreTyped

(* The small changes of a job.                                              *)
LEMMA SlotJobs ==
  ASSUME NEW j \in Slot!Job
  PROVE  /\ \A at \in Slot!Ats : /\ [j EXCEPT !.at = at] \in Slot!Job
                                 /\ [j EXCEPT !.at = at].at = at
                                 /\ [j EXCEPT !.at = at].quote = j.quote
                                 /\ [j EXCEPT !.at = at].redemption = j.redemption
         /\ \A s \in Slot!Slots \union {None} : LET k == [j EXCEPT !.at = "release", !.slot = s, !.todo = @ \ {s}, !.row = Slot!NoRow, !.refunded = FALSE] IN
              k \in Slot!Job /\ k.at = "release" /\ k.redemption = j.redemption
         /\ Slot!Idle \in Slot!Job /\ Slot!Idle.at = "idle" /\ Slot!Idle.redemption = None
         /\ Slot!NoRow \in Slot!Row
<1>1. Slot!NoRow \in Slot!Row
  BY DEF Slot!NoRow, Slot!Row
<1>2. Slot!Idle \in Slot!Job /\ Slot!Idle.at = "idle" /\ Slot!Idle.redemption = None
  BY <1>1 DEF Slot!Idle, Slot!Job, Slot!Ats
<1>3. ASSUME NEW at \in Slot!Ats
      PROVE  /\ [j EXCEPT !.at = at] \in Slot!Job
             /\ [j EXCEPT !.at = at].at = at
             /\ [j EXCEPT !.at = at].quote = j.quote
             /\ [j EXCEPT !.at = at].redemption = j.redemption
  BY DEF Slot!Job
<1>4. ASSUME NEW s \in Slot!Slots \union {None}, NEW k, k = [j EXCEPT !.at = "release", !.slot = s, !.todo = @ \ {s}, !.row = Slot!NoRow, !.refunded = FALSE]
      PROVE  k \in Slot!Job /\ k.at = "release" /\ k.redemption = j.redemption
  BY <1>1, <1>4 DEF Slot!Job, Slot!Ats
<1>5. QED
  BY <1>1, <1>2, <1>3, <1>4

(* A step that pays nothing, judges nothing and records nothing.            *)
SlotQuiet(w, j) ==
  /\ s11' = [s11 EXCEPT ![w] = j]
  /\ j.redemption \in {None, s11[w].redemption}
  /\ j.at \notin Slot!Holding
  /\ UNCHANGED <<s5, s6, s7, s14, s15, s16>>
  /\ \A q \in Offers : s3'[q].status = "PAID" <=> s3[q].status = "PAID"

(* A quiet step leaves every judgement as it was.                           *)
LEMMA SlotIsQuiet ==
  ASSUME Slot!RowsAreTyped, Slot!JobsAreTyped, Slot!JudgedOnce, Slot!JudgedAsPaid, Slot!PaidByOwner,
         NEW w \in Procs, NEW j \in Slot!Job, SlotQuiet(w, j)
  PROVE  Slot!JudgedOnce' /\ Slot!JudgedAsPaid' /\ Slot!PaidByOwner'
<1> USE DEF SlotQuiet
<1>1. s11'[w] = j /\ \A x \in Procs \ {w} : s11'[x] = s11[x]
  BY DEF Slot!JobsAreTyped
<1>2. Slot!JudgedOnce'
  BY <1>1, PartsAssumption DEF Slot!JudgedOnce, Slot!Held
<1>3. ASSUME NEW x \in Procs PROVE Slot!Knows(x)'
  <2>1. CASE x = w
    <3>1. j.redemption # None => s5[j.redemption].status # "NONE"
      BY DEF Slot!JudgedAsPaid, Slot!Knows
    <3>2. QED
      BY <1>1, <2>1, <3>1 DEF Slot!Knows, Slot!Judging, Slot!Holding
  <2>2. CASE x # w
    BY <1>1, <2>2 DEF Slot!JudgedAsPaid, Slot!Knows, Slot!Open
  <2>3. QED
    BY <2>1, <2>2
<1>4. Slot!PaidByOwner'
  <2>1. \A r \in Redemptions : s14[r] # None => s14[r] \in Offers
    BY DEF Slot!RowsAreTyped
  <2>2. QED
    BY <2>1 DEF Slot!PaidByOwner
<1>5. QED
  BY <1>2, <1>3, <1>4 DEF Slot!JudgedAsPaid

(* Most steps are quiet.                                                    *)
SlotGoesQuietly(w) ==
  \E j \in Slot!Job : SlotQuiet(w, j) /\ (j.at \in {"lease", "show"} => j.quote # None)

(* The ways in which a handler goes on.                                     *)
LEMMA SlotWays ==
  ASSUME Slot!JobsAreTyped, NEW w \in Procs, UNCHANGED <<s5, s6, s7, s14, s15, s16>>,
         \A q \in Offers : s3'[q].status = "PAID" <=> s3[q].status = "PAID"
  PROVE  /\ s11' = [s11 EXCEPT ![w] = Slot!Idle] => SlotGoesQuietly(w)
         /\ Slot!End(w) => SlotGoesQuietly(w)
         /\ Slot!Released(w) => SlotGoesQuietly(w)
         /\ \A at \in Slot!Ats \ (Slot!Holding \union {"lease"}) :
              Slot!Goto(w, at) /\ (at = "show" => s11[w].quote # None) => SlotGoesQuietly(w)
         /\ \A s \in Slot!Slots \union {None} : Slot!Release(w, s) => SlotGoesQuietly(w)
<1>0. s11 \in [Procs -> Slot!Job] /\ s11[w] \in Slot!Job
  BY DEF Slot!JobsAreTyped
<1>6. ASSUME s11' = [s11 EXCEPT ![w] = Slot!Idle] PROVE SlotGoesQuietly(w)
  <2>1. SlotQuiet(w, Slot!Idle) /\ Slot!Idle \in Slot!Job /\ Slot!Idle.at = "idle"
    BY <1>0, <1>6, SlotJobs DEF SlotQuiet, Slot!Judging, Slot!Holding
  <2>2. QED
    BY <2>1 DEF SlotGoesQuietly
<1>1. ASSUME Slot!End(w) PROVE SlotGoesQuietly(w)
  BY <1>1, <1>6 DEF Slot!End
<1>2. ASSUME NEW at \in Slot!Ats \ (Slot!Holding \union {"lease"}),
             Slot!Goto(w, at), at = "show" => s11[w].quote # None
      PROVE  SlotGoesQuietly(w)
  <2>1. PICK j \in Slot!Job : j = [s11[w] EXCEPT !.at = at]
    BY <1>0, SlotJobs
  <2>2. j.at = at /\ j.redemption = s11[w].redemption /\ j.quote = s11[w].quote
    BY <1>0, <2>1, SlotJobs, ZenonT(60)
  <2>3. s11' = [s11 EXCEPT ![w] = j]
    BY <1>2, <2>1 DEF Slot!Goto
  <2>4. SlotQuiet(w, j)
    BY <1>2, <2>2, <2>3 DEF SlotQuiet
  <2>5. j.at \in {"lease", "show"} => j.quote # None
    BY <1>2, <2>2
  <2>6. QED
    BY <2>4, <2>5 DEF SlotGoesQuietly
<1>3. ASSUME Slot!Released(w) PROVE SlotGoesQuietly(w)
  <2>1. CASE s11[w].then = "end"
    BY <1>1, <1>3, <2>1 DEF Slot!Released
  <2>2. CASE s11[w].then # "end"
    <3>1. s11[w].then \in {"list", "others", "sync"}
      BY <1>0, <2>2 DEF Slot!Job
    <3>2. s11[w].then \in Slot!Ats \ (Slot!Holding \union {"lease"}) /\ s11[w].then # "show"
      BY <3>1 DEF Slot!Ats, Slot!Judging, Slot!Holding
    <3>3. QED
      BY <1>2, <1>3, <2>2, <3>2 DEF Slot!Released
  <2>3. QED
    BY <2>1, <2>2
<1>4. ASSUME NEW s \in Slot!Slots \union {None}, Slot!Release(w, s) PROVE SlotGoesQuietly(w)
  <2>1. PICK j : j = [s11[w] EXCEPT !.at = "release", !.slot = s, !.todo = @ \ {s}, !.row = Slot!NoRow, !.refunded = FALSE]
    OBVIOUS
  <2>2. j \in Slot!Job /\ j.at = "release" /\ j.redemption = s11[w].redemption
    BY <1>0, <2>1, SlotJobs
  <2>3. s11' = [s11 EXCEPT ![w] = j]
    BY <1>4, <2>1 DEF Slot!Release
  <2>4. SlotQuiet(w, j)
    BY <2>2, <2>3 DEF SlotQuiet, Slot!Judging, Slot!Holding
  <2>5. QED
    BY <2>2, <2>4 DEF SlotGoesQuietly
<1>5. QED
  BY <1>1, <1>2, <1>3, <1>4, <1>6

(* A handler that begins.                                                   *)
LEMMA SlotStarts ==
  ASSUME Slot!JobsAreTyped, NEW w \in Procs, NEW j \in Slot!Job, Slot!Begin(w, j),
         UNCHANGED <<s3, s5, s6, s7, s14, s15, s16>>,
         j.redemption = None, j.at \notin Slot!Holding,
         j.at \in {"lease", "show"} => j.quote # None
  PROVE  SlotGoesQuietly(w)
BY DEF Slot!Begin, SlotGoesQuietly, SlotQuiet

(* The other changes of a job.                                              *)
LEMMA SlotLeases ==
  ASSUME NEW j \in Slot!Job, NEW s \in Slot!Slots, NEW k, k = [j EXCEPT !.at = "show", !.slot = s]
  PROVE  k \in Slot!Job /\ k.quote = j.quote /\ k.redemption = j.redemption /\ k.at = "show"
BY DEF Slot!Job, Slot!Ats

(* The changes of the rows.                                                 *)
LEMMA SlotRowEdits ==
  ASSUME NEW f \in [Slot!Slots -> Slot!Row], NEW g, NEW s,
         \/ g = f
         \/ g = [f EXCEPT ![s] = Slot!Free]
         \/ g = [f EXCEPT ![s].status = "BROKEN"]
         \/ g = [f EXCEPT ![s].status = "CONSUMED"]
         \/ g = [f EXCEPT ![s].quote = None]
         \/ \E q \in Offers : g = [f EXCEPT ![s] = [status |-> "RESERVED", quote |-> q]]
  PROVE  g \in [Slot!Slots -> Slot!Row]
<1>1. /\ Slot!Free \in Slot!Row
      /\ \A q \in Offers : [status |-> "RESERVED", quote |-> q] \in Slot!Row
      /\ \A x \in Slot!Row : /\ [x EXCEPT !.status = "BROKEN"] \in Slot!Row
                             /\ [x EXCEPT !.status = "CONSUMED"] \in Slot!Row
                             /\ [x EXCEPT !.quote = None] \in Slot!Row
  BY DEF Slot!Free, Slot!Row, Slot!Statuses
<1>2. \A x \in Slot!Slots : g[x] \in Slot!Row
  BY <1>1
<1>3. DOMAIN g = Slot!Slots /\ g = [x \in Slot!Slots |-> g[x]]
  OBVIOUS
<1>4. QED
  BY <1>2, <1>3

(* The changes of a reward.                                                 *)
LEMMA SlotRewardEdits ==
  ASSUME NEW f \in [Slot!Slots -> Slot!Reward], NEW g, NEW s,
         \/ g = f \/ g = [f EXCEPT ![s] = Slot!Hidden]
         \/ \E q \in Offers : g = [f EXCEPT ![s] = [shown |-> TRUE, cost |-> OfferPrice[q]]]
  PROVE  g \in [Slot!Slots -> Slot!Reward]
<1>1. Slot!Hidden \in Slot!Reward /\ \A q \in Offers : [shown |-> TRUE, cost |-> OfferPrice[q]] \in Slot!Reward
  BY PartsAssumption DEF Slot!Hidden, Slot!Reward, Slot!IdleCost
<1>2. QED
  BY <1>1

(* A quote that is paid stays so, and no other becomes it.                  *)
SlotSamePaid(f, g) ==
  g \in [Offers -> Slot!Quote] /\ \A q \in Offers : g[q].status = "PAID" <=> f[q].status = "PAID"

(* Whatever ends a live quote, what was paid stays paid.                    *)
LEMMA SlotQuoteEnds ==
  ASSUME NEW f \in [Offers -> Slot!Quote], NEW g, NEW to \in {"CANCELED", "EXPIRED"}, NEW x,
         f[x].status \in Slot!Live, g = [f EXCEPT ![x] = Slot!Ended(to)]
  PROVE  SlotSamePaid(f, g)
<1>1. Slot!Ended(to) \in Slot!Quote /\ Slot!Ended(to).status = to
  BY DEF Slot!Quote, Slot!Ended
<1>2. "PAID" \notin Slot!Live
  BY DEF Slot!Live
<1>3. g \in [Offers -> Slot!Quote]
  BY <1>1
<1>4. \A q \in Offers : g[q].status = "PAID" <=> f[q].status = "PAID"
  BY <1>1, <1>2
<1>5. QED
  BY <1>3, <1>4 DEF SlotSamePaid

(* Nor does putting a quote on sale touch what was paid.                    *)
LEMMA SlotQuoteWaits ==
  ASSUME NEW f \in [Offers -> Slot!Quote], NEW g, NEW s \in Slot!Slots \union {None}, NEW x,
         f[x].status \in Slot!Live,
         g = [f EXCEPT ![x] = [status |-> "AWAITING_REDEMPTION", slot |-> s]]
  PROVE  SlotSamePaid(f, g)
<1>1. [status |-> "AWAITING_REDEMPTION", slot |-> s] \in Slot!Quote
  BY DEF Slot!Quote, Slot!Live
<1>2. "PAID" \notin Slot!Live
  BY DEF Slot!Live
<1>3. g \in [Offers -> Slot!Quote]
  BY <1>1
<1>4. \A q \in Offers : g[q].status = "PAID" <=> f[q].status = "PAID"
  BY <1>2
<1>5. QED
  BY <1>3, <1>4 DEF SlotSamePaid

(* Nor does ending the quotes of slots that are taken away.                 *)
LEMMA SlotQuotesEnd ==
  ASSUME NEW f \in [Offers -> Slot!Quote], NEW g, NEW S,
         g = [q \in Offers |-> IF q \in S /\ f[q].status = "AWAITING_REDEMPTION"
                               THEN Slot!Ended("CANCELED") ELSE f[q]]
  PROVE  SlotSamePaid(f, g)
<1>1. Slot!Ended("CANCELED") \in Slot!Quote /\ Slot!Ended("CANCELED").status = "CANCELED"
  BY DEF Slot!Quote, Slot!Ended
<1>2. g \in [Offers -> Slot!Quote]
  BY <1>1
<1>3. \A q \in Offers : g[q].status = "PAID" <=> f[q].status = "PAID"
  BY <1>1
<1>4. QED
  BY <1>2, <1>3 DEF SlotSamePaid

(* The rows of a step that is neither of a payment nor of a record.         *)
LEMMA SlotRowsStay ==
  ASSUME Slot!RowsAreTyped, UNCHANGED <<s5, s7, s14>>, s1' \in [Slot!Slots -> Slot!Row],
         s2' \in [Slot!Slots -> Slot!Reward], s3' \in [Offers -> Slot!Quote],
         s9' \in [size : Slot!Slots, open : BOOLEAN]
  PROVE  Slot!RowsAreTyped'
BY DEF Slot!RowsAreTyped

(* The steps of a handler that are quiet.                                   *)
SlotQuietStep(w) ==
  \/ Slot!LeaseSlot(w) \/ Slot!ActivateSlotReward(w) \/ Slot!AttachSlot(w)
  \/ Slot!ReleaseSlotReward(w) \/ Slot!MarkSlotFree(w) \/ Slot!ReleaseDegraded(w)
  \/ Slot!SetQuoteStatus(w) \/ Slot!LookAtSlot(w) \/ Slot!LockIsBusy(w) \/ Slot!KillQuote(w)
  \/ Slot!ListReserved(w) \/ Slot!ReleaseOthers(w)
  \/ Slot!FillPool(w) \/ Slot!RecoverStuck(w) \/ Slot!HideExtra(w)
  \/ Slot!Sweep(w) \/ (\E q \in Offers : Slot!Confirm(w, q) \/ Slot!EndQuote(w, q, "CANCELED"))
  \/ \E size \in Slot!Slots : Slot!Resize(w, size)

(* All but the steps of a redemption are quiet.                             *)
LEMMA SlotStepsQuietly ==
  ASSUME Slot!RowsAreTyped, Slot!JobsAreTyped, NEW w \in Procs, SlotQuietStep(w)
  PROVE  SlotGoesQuietly(w) /\ Slot!RowsAreTyped'
<1> USE DEF Slot!payments, Slot!history
<1> DEFINE Q == SlotGoesQuietly(w)
           R == Slot!RowsAreTyped'
<1>0. /\ s1 \in [Slot!Slots -> Slot!Row] /\ s2 \in [Slot!Slots -> Slot!Reward]
      /\ s3 \in [Offers -> Slot!Quote] /\ s9 \in [size : Slot!Slots, open : BOOLEAN]
  BY DEF Slot!RowsAreTyped
<1>j. s11 \in [Procs -> Slot!Job] /\ s11[w] \in Slot!Job
  BY DEF Slot!JobsAreTyped
<1>t. /\ s11[w].slot \in Slot!Slots \union {None} /\ s11[w].todo \subseteq Slot!Slots
      /\ s11[w].lost \subseteq Slot!Slots \union Offers /\ s11[w].quote \in Offers \union {None}
  BY <1>j DEF Slot!Job
<1>l. s11[w].at \in {"lease", "show"} => s11[w].quote \in Offers
  BY <1>t DEF Slot!JobsAreTyped
<1>a. \A at \in {"show", "attach", "free", "degraded", "look", "others", "sync"} :
        at \in Slot!Ats \ (Slot!Holding \union {"lease"})
  BY DEF Slot!Ats, Slot!Judging, Slot!Holding
<1>e. ASSUME NEW j \in Slot!Job, s11' = [s11 EXCEPT ![w] = j], UNCHANGED <<s5, s6, s7, s14, s15, s16>>,
             \A q \in Offers : s3'[q].status = "PAID" <=> s3[q].status = "PAID",
             j.redemption = s11[w].redemption, j.at \in {"show", "others", "sync"},
             j.at = "show" => j.quote # None
      PROVE  Q
  <2>1. j.at \notin Slot!Holding \union {"lease"}
    BY <1>a, <1>e
  <2>2. SlotQuiet(w, j)
    BY <1>e, <2>1 DEF SlotQuiet
  <2>3. QED
    BY <1>e, <2>1, <2>2 DEF SlotGoesQuietly
<1>1. ASSUME Slot!LeaseSlot(w) PROVE Q /\ R
  <2>0. UNCHANGED <<s2, s3, s5, s6, s7, s9, s14, s15, s16>> /\ s11[w].at = "lease"
    BY <1>1 DEF Slot!LeaseSlot
  <2>1. CASE Slot!End(w) /\ UNCHANGED s1
    BY <1>0, <2>0, <2>1, SlotWays, SlotRowsStay
  <2>2. ASSUME NEW s \in Slot!Slots, s1' = [s1 EXCEPT ![s] = [status |-> "RESERVED", quote |-> s11[w].quote]],
               s11' = [s11 EXCEPT ![w].at = "show", ![w].slot = s]
        PROVE  Q /\ R
    <3>1. s11[w].quote \in Offers
      BY <1>l, <2>0
    <3>2. s1' \in [Slot!Slots -> Slot!Row]
      BY <1>0, <2>2, <3>1, SlotRowEdits
    <3>3. PICK j : j = [s11[w] EXCEPT !.at = "show", !.slot = s]
      OBVIOUS
    <3>6. j \in Slot!Job /\ j.quote = s11[w].quote /\ j.redemption = s11[w].redemption /\ j.at = "show"
      BY <1>j, <3>3, SlotLeases, ZenonT(60)
    <3>7. s11' = [s11 EXCEPT ![w] = j]
      BY <2>2, <3>3
    <3>8. s11[w].quote # None
      BY <3>1, PartsAssumption
    <3>9. Q
      BY <1>e, <2>0, <3>6, <3>7, <3>8
    <3>10. R
      BY <1>0, <2>0, <3>2, SlotRowsStay
    <3>11. QED
      BY <3>9, <3>10
  <2>3. QED
    BY <1>1, <2>1, <2>2 DEF Slot!LeaseSlot, Slot!Leasable
<1>2. ASSUME Slot!ActivateSlotReward(w) PROVE Q /\ R
  <2>0. UNCHANGED <<s1, s3, s5, s6, s7, s9, s14, s15, s16>> /\ s11[w].quote \in Offers
    BY <1>l, <1>2 DEF Slot!ActivateSlotReward
  <2>1. s2' = s2 \/ s2' = [s2 EXCEPT ![s11[w].slot] = [shown |-> TRUE, cost |-> OfferPrice[s11[w].quote]]]
    BY <1>2 DEF Slot!ActivateSlotReward
  <2>2. s2' \in [Slot!Slots -> Slot!Reward]
    BY <1>0, <2>0, <2>1, SlotRewardEdits
  <2>3. Slot!Goto(w, "attach") \/ Slot!Release(w, s11[w].slot)
    BY <1>2 DEF Slot!ActivateSlotReward
  <2>4. "attach" \in Slot!Ats \ (Slot!Holding \union {"lease"}) /\ "attach" # "show"
    BY <1>a
  <2>5. Q
    BY <1>t, <2>0, <2>3, <2>4, SlotWays
  <2>6. QED
    BY <1>0, <2>0, <2>2, <2>5, SlotRowsStay
<1>3. ASSUME Slot!AttachSlot(w) PROVE Q /\ R
  <2>0. UNCHANGED <<s1, s2, s5, s6, s7, s9, s14, s15, s16>>
    BY <1>3 DEF Slot!AttachSlot
  <2>1. \/ s3' = s3
        \/ /\ s3[s11[w].quote].status \in Slot!Live
           /\ s3' = [s3 EXCEPT ![s11[w].quote] = [status |-> "AWAITING_REDEMPTION", slot |-> s11[w].slot]]
    BY <1>3 DEF Slot!AttachSlot, Slot!Live
  <2>2. SlotSamePaid(s3, s3')
    <3>1. SlotSamePaid(s3, s3)
      BY <1>0 DEF SlotSamePaid
    <3>2. QED
      BY <1>0, <1>t, <2>1, <3>1, SlotQuoteWaits
  <2>3. Slot!End(w) \/ Slot!Release(w, s11[w].slot)
    BY <1>3 DEF Slot!AttachSlot
  <2>4. Q
    BY <1>t, <2>0, <2>2, <2>3, SlotWays DEF SlotSamePaid
  <2>5. QED
    BY <1>0, <2>0, <2>2, <2>4, SlotRowsStay DEF SlotSamePaid
<1>4. ASSUME Slot!ReleaseSlotReward(w) PROVE Q /\ R
  <2>0. UNCHANGED <<s3, s5, s6, s7, s9, s14, s15, s16>>
    BY <1>4 DEF Slot!ReleaseSlotReward
  <2>1. Slot!Goto(w, "free") \/ Slot!Goto(w, "degraded")
    BY <1>4 DEF Slot!ReleaseSlotReward
  <2>2. /\ s2' = s2 \/ s2' = [s2 EXCEPT ![s11[w].slot] = Slot!Hidden]
        /\ s1' = s1 \/ s1' = [s1 EXCEPT ![s11[w].slot].status = "BROKEN"]
    BY <1>4 DEF Slot!ReleaseSlotReward
  <2>3. s1' \in [Slot!Slots -> Slot!Row]
    BY <1>0, <2>2, SlotRowEdits
  <2>4. s2' \in [Slot!Slots -> Slot!Reward]
    BY <1>0, <2>2, SlotRewardEdits
  <2>5. Q
    BY <1>a, <2>0, <2>1, SlotWays
  <2>6. QED
    BY <1>0, <2>0, <2>3, <2>4, <2>5, SlotRowsStay
<1>5. ASSUME Slot!MarkSlotFree(w) \/ Slot!ReleaseDegraded(w) PROVE Q /\ R
  <2>0. UNCHANGED <<s2, s3, s5, s6, s7, s9, s14, s15, s16>> /\ Slot!Released(w)
    BY <1>5 DEF Slot!MarkSlotFree, Slot!ReleaseDegraded
  <2>1. \/ s1' = s1 \/ s1' = [s1 EXCEPT ![s11[w].slot] = Slot!Free]
        \/ s1' = [s1 EXCEPT ![s11[w].slot].quote = None]
    BY <1>5 DEF Slot!MarkSlotFree, Slot!ReleaseDegraded
  <2>2. s1' \in [Slot!Slots -> Slot!Row]
    BY <1>0, <2>1, SlotRowEdits
  <2>3. Q
    BY <2>0, SlotWays
  <2>4. QED
    BY <1>0, <2>0, <2>2, <2>3, SlotRowsStay
<1>6. ASSUME Slot!SetQuoteStatus(w) PROVE Q /\ R
  <2>0. UNCHANGED <<s1, s2, s5, s6, s7, s9, s14, s15, s16>> /\ s11[w].at \in {"CANCELED", "EXPIRED"}
    BY <1>6 DEF Slot!SetQuoteStatus
  <2>1. s3' = s3 \/ (s3[s11[w].quote].status \in Slot!Live /\ s3' = [s3 EXCEPT ![s11[w].quote] = Slot!Ended(s11[w].at)])
    BY <1>6 DEF Slot!SetQuoteStatus
  <2>2. SlotSamePaid(s3, s3')
    <3>1. SlotSamePaid(s3, s3)
      BY <1>0 DEF SlotSamePaid
    <3>2. QED
      BY <1>0, <2>0, <2>1, <3>1, SlotQuoteEnds
  <2>3. Slot!End(w) \/ Slot!Goto(w, "look")
    BY <1>6 DEF Slot!SetQuoteStatus
  <2>4. Q
    BY <1>a, <2>0, <2>2, <2>3, SlotWays DEF SlotSamePaid
  <2>5. QED
    BY <1>0, <2>0, <2>2, <2>4, SlotRowsStay DEF SlotSamePaid
<1>7. ASSUME Slot!LookAtSlot(w) \/ Slot!LockIsBusy(w) PROVE Q /\ R
  <2>0. UNCHANGED <<s1, s2, s3, s5, s6, s7, s9, s14, s15, s16>>
    BY <1>7 DEF Slot!LookAtSlot, Slot!LockIsBusy
  <2>1. s11' = [s11 EXCEPT ![w] = Slot!Idle] \/ Slot!Release(w, s11[w].slot)
    BY <1>7 DEF Slot!LookAtSlot, Slot!LockIsBusy, Slot!End
  <2>2. Q
    BY <1>t, <2>0, <2>1, SlotWays
  <2>3. QED
    BY <1>0, <2>0, <2>2, SlotRowsStay
<1>8. ASSUME Slot!KillQuote(w) PROVE Q /\ R
  <2>0. UNCHANGED <<s1, s2, s5, s6, s7, s9, s14, s15, s16>> /\ Slot!Release(w, s11[w].slot)
    BY <1>8 DEF Slot!KillQuote
  <2>1. s3' = [q \in Offers |-> IF q \in {s11[w].quote} /\ s3[q].status = "AWAITING_REDEMPTION"
                                THEN Slot!Ended("CANCELED") ELSE s3[q]]
    BY <1>8 DEF Slot!KillQuote
  <2>2. SlotSamePaid(s3, s3')
    <3>1. SlotSamePaid(s3, s3)
      BY <1>0 DEF SlotSamePaid
    <3>2. QED
      BY <1>0, <2>1, <3>1, SlotQuotesEnd
  <2>3. Q
    BY <1>t, <2>0, <2>2, SlotWays DEF SlotSamePaid
  <2>4. QED
    BY <1>0, <2>0, <2>2, <2>3, SlotRowsStay DEF SlotSamePaid
<1>9. ASSUME NEW j, NEW at \in {"others", "sync"}, NEW todo \in SUBSET Slot!Slots,
             NEW lost \in SUBSET (Slot!Slots \union Offers), UNCHANGED <<s3, s5, s6, s7, s14, s15, s16>>,
             \/ j = [s11[w] EXCEPT !.at = at, !.then = at, !.todo = todo, !.lost = lost]
             \/ s11[w].at = at /\ j = [s11[w] EXCEPT !.todo = todo]
             \/ s11[w].at = at /\ j = [s11[w] EXCEPT !.lost = lost],
             s11' = [s11 EXCEPT ![w] = j]
      PROVE  Q
  <2>1. j \in Slot!Job /\ j.redemption = s11[w].redemption /\ j.at = at
    <3>1. CASE j = [s11[w] EXCEPT !.at = at, !.then = at, !.todo = todo, !.lost = lost]
      BY <1>j, <3>1 DEF Slot!Job, Slot!Ats
    <3>2. CASE s11[w].at = at /\ j = [s11[w] EXCEPT !.todo = todo]
      BY <1>j, <3>2 DEF Slot!Job
    <3>3. CASE s11[w].at = at /\ j = [s11[w] EXCEPT !.lost = lost]
      BY <1>j, <3>3 DEF Slot!Job
    <3>4. QED
      BY <1>9, <3>1, <3>2, <3>3
  <2>2. QED
    BY <1>e, <1>9, <2>1
<1>10. ASSUME Slot!ListReserved(w) PROVE Q /\ R
  <2>0. UNCHANGED <<s1, s2, s3, s5, s6, s7, s9, s14, s15, s16>>
    BY <1>10 DEF Slot!ListReserved
  <2>1. \A s \in Slot!Slots : s1[s].quote \in Offers \union {None}
    BY <1>0 DEF Slot!Row
  <2>2. PICK todo, lost :
          /\ s11' = [s11 EXCEPT ![w].at = "others", ![w].then = "others", ![w].todo = todo, ![w].lost = lost]
          /\ todo \subseteq Slot!Slots /\ lost = {s1[s].quote : s \in todo} \ {None}
    BY <1>10, ZenonT(60) DEF Slot!ListReserved
  <2>3. lost \subseteq Slot!Slots \union Offers
    BY <2>1, <2>2
  <2>4. PICK j : j = [s11[w] EXCEPT !.at = "others", !.then = "others", !.todo = todo, !.lost = lost]
    OBVIOUS
  <2>5. s11' = [s11 EXCEPT ![w] = j]
    BY <2>2, <2>4
  <2>6. Q
    BY <1>9, <2>0, <2>2, <2>3, <2>4, <2>5
  <2>7. QED
    BY <1>0, <2>0, <2>6, SlotRowsStay
<1>11. ASSUME Slot!ReleaseOthers(w) PROVE Q /\ R
  <2>0. UNCHANGED <<s1, s2, s5, s6, s7, s9, s14, s15, s16>>
    BY <1>11 DEF Slot!ReleaseOthers
  <2>1. \/ s3' = s3
        \/ s3' = [q \in Offers |-> IF q \in s11[w].lost /\ s3[q].status = "AWAITING_REDEMPTION"
                                   THEN Slot!Ended("CANCELED") ELSE s3[q]]
    BY <1>11 DEF Slot!ReleaseOthers
  <2>2. SlotSamePaid(s3, s3')
    <3>1. SlotSamePaid(s3, s3)
      BY <1>0 DEF SlotSamePaid
    <3>2. QED
      BY <1>0, <2>1, <3>1, SlotQuotesEnd
  <2>3. Slot!End(w) \/ \E s \in s11[w].todo : Slot!Release(w, s)
    BY <1>11 DEF Slot!ReleaseOthers
  <2>4. Q
    BY <1>t, <2>0, <2>2, <2>3, SlotWays DEF SlotSamePaid
  <2>5. QED
    BY <1>0, <2>0, <2>2, <2>4, SlotRowsStay DEF SlotSamePaid
<1>12. ASSUME Slot!FillPool(w) PROVE Q /\ R
  <2>0. UNCHANGED <<s2, s3, s5, s6, s7, s9, s14, s15, s16>>
    BY <1>12 DEF Slot!FillPool
  <2>1. CASE Slot!End(w) /\ UNCHANGED s1
    BY <1>0, <2>0, <2>1, SlotWays, SlotRowsStay
  <2>2. CASE ~(Slot!End(w) /\ UNCHANGED s1)
    <3>1. PICK missing : s1' = [s \in Slot!Slots |-> IF s \in missing THEN Slot!Free ELSE s1[s]]
      BY <1>12, <2>2 DEF Slot!FillPool
    <3>2. Slot!Free \in Slot!Row
      BY DEF Slot!Free, Slot!Row, Slot!Statuses
    <3>3. s1' \in [Slot!Slots -> Slot!Row]
      BY <1>0, <3>1, <3>2
    <3>4. 1..s9.size \subseteq Slot!Slots
      BY <1>0, PartsAssumption DEF Slot!Slots
    <3>5. PICK todo, lost :
            /\ s11' = [s11 EXCEPT ![w].at = "sync", ![w].then = "sync", ![w].todo = todo, ![w].lost = lost]
            /\ todo \subseteq 1..s9.size /\ lost \subseteq Slot!Slots
      <4>1. s11' = [s11 EXCEPT ![w].at = "sync", ![w].then = "sync",
                       ![w].todo = {s \in 1..s9.size : s1[s].status \in {"BROKEN", "CONSUMED"}},
                       ![w].lost = {s \in Slot!Slots \ 1..s9.size : s1[s].status \notin {"RESERVED", "NONE"}}]
        BY <1>12, <2>2 DEF Slot!FillPool
      <4>2. /\ {s \in 1..s9.size : s1[s].status \in {"BROKEN", "CONSUMED"}} \subseteq 1..s9.size
            /\ {s \in Slot!Slots \ 1..s9.size : s1[s].status \notin {"RESERVED", "NONE"}} \subseteq Slot!Slots
        OBVIOUS
      <4>3. QED
        BY <4>1, <4>2
    <3>6. PICK j : j = [s11[w] EXCEPT !.at = "sync", !.then = "sync", !.todo = todo, !.lost = lost]
      OBVIOUS
    <3>7. s11' = [s11 EXCEPT ![w] = j]
      BY <3>5, <3>6
    <3>8. todo \in SUBSET Slot!Slots /\ lost \in SUBSET (Slot!Slots \union Offers)
      BY <3>4, <3>5
    <3>9. Q
      BY <1>9, <2>0, <3>6, <3>7, <3>8
    <3>10. QED
      BY <1>0, <2>0, <3>3, <3>9, SlotRowsStay
  <2>3. QED
    BY <2>1, <2>2
<1>13. ASSUME Slot!RecoverStuck(w) PROVE Q /\ R
  <2>0. UNCHANGED <<s1, s2, s3, s5, s6, s7, s9, s14, s15, s16>> /\ s11[w].at = "sync"
    BY <1>13 DEF Slot!RecoverStuck
  <2>1. R
    BY <1>0, <2>0, SlotRowsStay
  <2>2. PICK s \in s11[w].todo : s11' = [s11 EXCEPT ![w].todo = s11[w].todo \ {s}] \/ Slot!Release(w, s)
    BY <1>13 DEF Slot!RecoverStuck
  <2>3. CASE Slot!Release(w, s)
    BY <1>t, <2>0, <2>1, <2>2, <2>3, SlotWays
  <2>4. CASE s11' = [s11 EXCEPT ![w].todo = s11[w].todo \ {s}]
    <3>1. PICK j : j = [s11[w] EXCEPT !.todo = s11[w].todo \ {s}]
      OBVIOUS
    <3>2. s11' = [s11 EXCEPT ![w] = j]
      BY <2>4, <3>1
    <3>3. s11[w].todo \ {s} \in SUBSET Slot!Slots /\ {} \in SUBSET (Slot!Slots \union Offers)
      BY <1>t
    <3>4. QED
      BY <1>9, <2>0, <2>1, <3>1, <3>2, <3>3
  <2>5. QED
    BY <2>2, <2>3, <2>4
<1>14. ASSUME Slot!HideExtra(w) PROVE Q /\ R
  <2>0. UNCHANGED <<s3, s5, s6, s7, s9, s14, s15, s16>> /\ s11[w].at = "sync"
    BY <1>14 DEF Slot!HideExtra
  <2>1. /\ s1' = s1 \/ \E s \in s11[w].lost : s1' = [s1 EXCEPT ![s].status = "BROKEN"]
        /\ s2' = s2 \/ \E s \in s11[w].lost : s2' = [s2 EXCEPT ![s] = Slot!Hidden]
    BY <1>14 DEF Slot!HideExtra
  <2>2. s1' \in [Slot!Slots -> Slot!Row]
    BY <1>0, <2>1, SlotRowEdits
  <2>3. s2' \in [Slot!Slots -> Slot!Reward]
    BY <1>0, <2>1, SlotRewardEdits
  <2>4. R
    BY <1>0, <2>0, <2>2, <2>3, SlotRowsStay
  <2>5. CASE Slot!End(w)
    BY <2>0, <2>4, <2>5, SlotWays
  <2>6. ASSUME NEW s \in s11[w].lost, s11' = [s11 EXCEPT ![w].lost = s11[w].lost \ {s}] PROVE Q
    <3>1. PICK j : j = [s11[w] EXCEPT !.lost = s11[w].lost \ {s}]
      OBVIOUS
    <3>2. s11' = [s11 EXCEPT ![w] = j]
      BY <2>6, <3>1
    <3>3. s11[w].lost \ {s} \in SUBSET (Slot!Slots \union Offers) /\ {} \in SUBSET Slot!Slots
      BY <1>t
    <3>4. QED
      BY <1>9, <2>0, <3>1, <3>2, <3>3
  <2>7. QED
    BY <1>14, <2>4, <2>5, <2>6 DEF Slot!HideExtra
<1>15. ASSUME NEW j \in Slot!Job, Slot!Begin(w, j), UNCHANGED <<s3, s5, s6, s7, s14, s15, s16>>, j.redemption = None,
              j.at \in {"lease", "CANCELED", "EXPIRED", "release", "fill"}, j.at = "lease" => j.quote # None
       PROVE  Q
  <2>1. j.at \notin Slot!Holding \union {"show"}
    BY <1>15 DEF Slot!Judging, Slot!Holding
  <2>2. QED
    BY <1>15, <2>1, SlotStarts
<1>i. Slot!Idle \in Slot!Job /\ Slot!Idle.redemption = None
  BY <1>j, SlotJobs
<1>16. ASSUME NEW q \in Offers, Slot!Confirm(w, q) PROVE Q /\ R
  <2>0. UNCHANGED <<s1, s2, s3, s5, s6, s7, s9, s14, s15, s16>>
    BY <1>16 DEF Slot!Confirm
  <2>1. PICK j : j = [Slot!Idle EXCEPT !.at = "lease", !.quote = q]
    OBVIOUS
  <2>2. j \in Slot!Job /\ j.at = "lease" /\ j.redemption = None /\ j.quote = q
    BY <1>i, <2>1 DEF Slot!Job, Slot!Ats
  <2>3. Slot!Begin(w, j)
    BY <1>16, <2>1 DEF Slot!Confirm
  <2>4. q # None
    BY PartsAssumption
  <2>5. Q
    BY <1>15, <2>0, <2>2, <2>3, <2>4
  <2>6. QED
    BY <1>0, <2>0, <2>5, SlotRowsStay
<1>17. ASSUME NEW q \in Offers, NEW to \in {"EXPIRED", "CANCELED"}, Slot!EndQuote(w, q, to) PROVE Q /\ R
  <2>0. UNCHANGED <<s1, s2, s3, s5, s6, s7, s9, s14, s15, s16>>
    BY <1>17 DEF Slot!EndQuote
  <2>1. PICK j : j = [Slot!Idle EXCEPT !.at = to, !.quote = q, !.slot = s3[q].slot]
    OBVIOUS
  <2>2. s3[q].slot \in Slot!Slots \union {None}
    BY <1>0 DEF Slot!Quote
  <2>3. j \in Slot!Job /\ j.at = to /\ j.redemption = None
    BY <1>i, <2>1, <2>2 DEF Slot!Job, Slot!Ats
  <2>6. Slot!Begin(w, j)
    BY <1>17, <2>1 DEF Slot!EndQuote
  <2>4. Q
    BY <1>15, <2>0, <2>3, <2>6
  <2>5. QED
    BY <1>0, <2>0, <2>4, SlotRowsStay
<1>18. ASSUME NEW s \in Slot!Slots, Slot!Reap(w, s) PROVE Q /\ R
  <2>0. UNCHANGED <<s1, s2, s3, s5, s6, s7, s9, s14, s15, s16>>
    BY <1>18 DEF Slot!Reap
  <2>1. PICK j : j = [Slot!Idle EXCEPT !.at = "release", !.slot = s]
    OBVIOUS
  <2>2. j \in Slot!Job /\ j.at = "release" /\ j.redemption = None
    BY <1>i, <2>1 DEF Slot!Job, Slot!Ats
  <2>3. Slot!Begin(w, j)
    BY <1>18, <2>1 DEF Slot!Reap
  <2>4. Q
    BY <1>15, <2>0, <2>2, <2>3
  <2>5. QED
    BY <1>0, <2>0, <2>4, SlotRowsStay
<1>19. ASSUME NEW size \in Slot!Slots, Slot!Resize(w, size) PROVE Q /\ R
  <2>0. UNCHANGED <<s1, s2, s3, s5, s6, s7, s14, s15, s16>> /\ s9' = [s9 EXCEPT !.size = size]
    BY <1>19 DEF Slot!Resize
  <2>1. PICK j : j = [Slot!Idle EXCEPT !.at = "fill"]
    OBVIOUS
  <2>2. j \in Slot!Job /\ j.at = "fill" /\ j.redemption = None
    BY <1>i, <2>1 DEF Slot!Job, Slot!Ats
  <2>3. Slot!Begin(w, j)
    BY <1>19, <2>1 DEF Slot!Resize
  <2>4. Q
    BY <1>15, <2>0, <2>2, <2>3
  <2>5. s9' \in [size : Slot!Slots, open : BOOLEAN]
    BY <1>0, <2>0
  <2>6. QED
    BY <1>0, <2>0, <2>4, <2>5, SlotRowsStay
<1>20. QED
  <2>1. CASE Slot!Sweep(w)
    BY <1>17, <1>18, <2>1 DEF Slot!Sweep
  <2>2. CASE \/ \E q \in Offers : Slot!Confirm(w, q) \/ Slot!EndQuote(w, q, "CANCELED")
             \/ \E size \in Slot!Slots : Slot!Resize(w, size)
    BY <1>16, <1>17, <1>19, <2>2
  <2>3. QED
    BY <1>1, <1>2, <1>3, <1>4, <1>5, <1>6, <1>7, <1>8, <1>10, <1>11, <1>12, <1>13, <1>14, <2>1, <2>2
       DEF SlotQuietStep

(* Everything that is known of the pool.                                    *)
SlotInv ==
  /\ Slot!RowsAreTyped /\ Slot!JobsAreTyped /\ Slot!PaymentsAreWhole
  /\ Slot!JudgedOnce /\ Slot!JudgedAsPaid /\ Slot!PaidByOwner

(* The invariant after a quiet step.                                        *)
LEMMA SlotKeepsQuietly ==
  ASSUME SlotInv, NEW w \in Procs, SlotQuietStep(w) PROVE SlotInv'
<1>1. SlotGoesQuietly(w) /\ Slot!RowsAreTyped'
  BY SlotStepsQuietly DEF SlotInv
<1>2. PICK j \in Slot!Job : SlotQuiet(w, j) /\ (j.at \in {"lease", "show"} => j.quote # None)
  BY <1>1 DEF SlotGoesQuietly
<1>3. Slot!JudgedOnce' /\ Slot!JudgedAsPaid' /\ Slot!PaidByOwner'
  BY <1>2, SlotIsQuiet DEF SlotInv
<1>4. Slot!JobsAreTyped'
  BY <1>2, SlotGoes DEF SlotInv, SlotQuiet
<1>5. Slot!PaymentsAreWhole'
  BY <1>2 DEF SlotInv, SlotQuiet, Slot!PaymentsAreWhole, Slot!Open
<1>6. QED
  BY <1>1, <1>3, <1>4, <1>5 DEF SlotInv

(* What a step may do to the payments: settle some that are open.           *)
SlotSettles ==
  /\ s5' \in [Redemptions -> Slot!Payment]
  /\ \A r \in Redemptions :
       /\ s5'[r].user = s5[r].user /\ s5'[r].cost = s5[r].cost /\ s5'[r].slot = s5[r].slot
       /\ s5'[r].status = s5[r].status \/ (Slot!Open(r) /\ s5'[r].status \in {"CANCELED", "FULFILLED"})

(* One redemption is settled by a call of Twitch, or none.                  *)
LEMMA SlotSettled ==
  ASSUME Slot!RowsAreTyped, NEW r \in Redemptions, NEW to \in {"CANCELED", "FULFILLED"},
         s5' = s5 \/ s5' = Slot!Settled(r, to)
  PROVE  /\ SlotSettles
         /\ \A x \in Redemptions : s5'[x] # s5[x] => x = r /\ Slot!Open(r) /\ s5'[r].status = to
<1>1. s5 \in [Redemptions -> Slot!Payment] /\ s5[r] \in Slot!Payment
  BY DEF Slot!RowsAreTyped
<1>2. PICK p : p = [s5[r] EXCEPT !.status = to]
  OBVIOUS
<1>3. p \in Slot!Payment /\ p.status = to /\ p.user = s5[r].user /\ p.cost = s5[r].cost /\ p.slot = s5[r].slot
  BY <1>1, <1>2 DEF Slot!Payment
<1>4. s5' = s5 \/ (Slot!Open(r) /\ s5' = [s5 EXCEPT ![r] = p])
  BY <1>2 DEF Slot!Settled
<1>5. QED
  BY <1>1, <1>3, <1>4 DEF SlotSettles

(* A redemption stays judged once when handlers keep theirs or drop it, and *)
(* when only what has its marker, or is unsure, is bought or settled.       *)
LEMMA SlotJudges ==
  ASSUME SlotInv, s6' = s6, s15 \subseteq s15', s16 \subseteq s16',
         \A x \in Procs : s11'[x].redemption \in {None, s11[x].redemption},
         \A r \in Redemptions : s14'[r] # s14[r] => r \in s6 \union s15',
         \A r \in Redemptions : s5'[r].status # s5[r].status => r \in s6 \union s15' \union s16'
  PROVE  Slot!JudgedOnce'
<1>1. SUFFICES ASSUME NEW r \in Redemptions, r \notin s15'
               PROVE  /\ s14'[r] # None => r \in s6
                      /\ s5'[r].status \in {"CANCELED", "FULFILLED"} => r \in s6 \union s16'
                      /\ \A w \in Procs : s11'[w].redemption = r =>
                           r \in s6 /\ \A x \in Procs \ {w} : s11'[x].redemption # r
  BY DEF Slot!JudgedOnce, Slot!Held
<1>2. r \notin s15 /\ r # None
  BY <1>1, PartsAssumption
<1>3. /\ s14[r] # None => r \in s6
      /\ s5[r].status \in {"CANCELED", "FULFILLED"} => r \in s6 \union s16
      /\ \A w \in Procs : s11[w].redemption = r =>
           r \in s6 /\ \A x \in Procs \ {w} : s11[x].redemption # r
  BY <1>2 DEF SlotInv, Slot!JudgedOnce, Slot!Held
<1>4. /\ s14'[r] # None => r \in s6
      /\ s5'[r].status \in {"CANCELED", "FULFILLED"} => r \in s6 \union s16'
  BY <1>1, <1>3
<1>5. \A w \in Procs : s11'[w].redemption = r => s11[w].redemption = r
  BY <1>2
<1>6. QED
  BY <1>3, <1>4, <1>5

(* What a handler knows stays so when payments are settled and purchases    *)
(* made, unless those are of its own redemption and that is not unsure.     *)
LEMMA SlotKnows ==
  ASSUME SlotInv, NEW x \in Procs, s11'[x] = s11[x], SlotSettles,
         s15 \subseteq s15', s16 \subseteq s16',
         \A r \in Redemptions : s14[r] # None => s14'[r] # None,
         \A r \in Redemptions : s11[x].redemption = r =>
           /\ s14'[r] # s14[r] => r \in s15'
           /\ s5'[r].status # s5[r].status => r \in s15' \union s16'
  PROVE  Slot!Knows(x)'
<1>1. Slot!Knows(x)
  BY DEF SlotInv, Slot!JudgedAsPaid
<1>2. s11[x].redemption \in Redemptions \union {None}
  BY DEF SlotInv, Slot!JobsAreTyped, Slot!Job
<1>3. CASE s11[x].redemption = None
  BY <1>1, <1>3 DEF Slot!Knows, Slot!Holding, Slot!Judging
<1>4. ASSUME NEW r \in Redemptions, s11[x].redemption = r, r # None PROVE Slot!Knows(x)'
  <2>1. s5'[r].status # "NONE"
    BY <1>1, <1>4 DEF Slot!Knows, SlotSettles
  <2>2. s11[x].at \in Slot!Judging => /\ s14'[r] # None => r \in s15'
                                      /\ Slot!Open(r)' \/ r \in s15' \union s16'
    BY <1>1, <1>4 DEF Slot!Knows, SlotSettles, Slot!Open
  <2>3. s11[x].at = "fulfil" => s14'[r] # None
    BY <1>1, <1>4 DEF Slot!Knows
  <2>4. s11[x].at = "activate" =>
          /\ s11[x].quote # None
          /\ s5'[r].user = Owner[s11[x].quote] /\ s5'[r].cost = OfferPrice[s11[x].quote]
    BY <1>1, <1>4 DEF Slot!Knows, SlotSettles
  <2>5. QED
    BY <1>4, <2>1, <2>2, <2>3, <2>4 DEF Slot!Knows, Slot!Holding
<1>5. QED
  BY <1>2, <1>3, <1>4

(* What the other handlers know is of other redemptions, or of an unsure    *)
(* one.                                                                     *)
LEMMA SlotOthers ==
  ASSUME SlotInv, NEW w \in Procs, NEW x \in Procs \ {w}, s11'[x] = s11[x], SlotSettles,
         s15 \subseteq s15', s16 \subseteq s16',
         \A r \in Redemptions : s14[r] # None => s14'[r] # None,
         \A r \in Redemptions : s14'[r] # s14[r] \/ s5'[r].status # s5[r].status => r = s11[w].redemption
  PROVE  Slot!Knows(x)'
<1>1. ASSUME NEW r \in Redemptions, s11[x].redemption = r, s14'[r] # s14[r] \/ s5'[r].status # s5[r].status
      PROVE  r \in s15'
  <2>1. s11[w].redemption = r
    BY <1>1
  <2>2. r \in s15
    BY <1>1, <2>1 DEF SlotInv, Slot!JudgedOnce, Slot!Held
  <2>3. QED
    BY <2>2
<1>2. QED
  BY <1>1, SlotKnows

(* A purchase stays paid for while quotes, purchases and records stay, and  *)
(* what is given back is unsure or a moderator's.                           *)
LEMMA SlotStaysPaid ==
  ASSUME SlotInv, SlotSettles, UNCHANGED <<s3, s14>>, s15 \subseteq s15', s16 \subseteq s16',
         \A r \in Redemptions : /\ s14[r] # None /\ s5'[r].status # s5[r].status =>
                                     s5'[r].status = "FULFILLED" \/ r \in s15' \union s16'
                                /\ s7'[r] = "FULFILLED" => s7[r] = "FULFILLED" \/ s14[r] # None
                                                           \/ r \in s16'
  PROVE  Slot!PaidByOwner'
<1>1. \A q \in Offers : s3'[q].status = "PAID" => \E r \in Redemptions : s14'[r] = q
  BY DEF SlotInv, Slot!PaidByOwner
<1>2. ASSUME NEW r \in Redemptions, s14'[r] # None
      PROVE  /\ s3'[s14'[r]].status = "PAID"
             /\ s5'[r].user = Owner[s14'[r]] /\ s5'[r].cost = OfferPrice[s14'[r]]
             /\ \A other \in Redemptions \ {r} : s14'[other] # s14'[r]
             /\ s5'[r].status = "CANCELED" => r \in s15' \union s16'
  <2>1. /\ s3[s14[r]].status = "PAID"
        /\ s5[r].user = Owner[s14[r]] /\ s5[r].cost = OfferPrice[s14[r]]
        /\ \A other \in Redemptions \ {r} : s14[other] # s14[r]
        /\ s5[r].status = "CANCELED" => r \in s15 \union s16
    BY <1>2 DEF SlotInv, Slot!PaidByOwner
  <2>2. QED
    BY <1>2, <2>1 DEF SlotSettles
<1>3. \A r \in Redemptions : s7'[r] = "FULFILLED" => s14'[r] # None \/ r \in s16'
  BY DEF SlotInv, Slot!PaidByOwner
<1>4. QED
  BY <1>1, <1>2, <1>3 DEF Slot!PaidByOwner

(* Payments stay whole while a record, once made, is not undone before      *)
(* Twitch has settled the payment.                                          *)
LEMMA SlotStaysWhole ==
  ASSUME SlotInv, SlotSettles, s6' \union s15' = s6 \union s15, s16 \subseteq s16',
         \A r \in Redemptions :
           /\ s14'[r] = s14[r]
           /\ s14[r] # None => \/ s7'[r] = s7[r] \/ s7'[r] = "FULFILLED"
                               \/ s7'[r] # "NONE" /\ ~Slot!Open(r)
           /\ s5'[r].status # s5[r].status /\ s5'[r].status = "FULFILLED" =>
                s14[r] # None \/ r \in s16'
  PROVE  Slot!PaymentsAreWhole'
<1>1. SUFFICES ASSUME NEW r \in Redemptions
               PROVE  /\ s5'[r].status # "NONE" => s5'[r].user # None /\ s5'[r].slot # None
                      /\ r \in s6' \union s15' \/ s14'[r] # None => s5'[r].status # "NONE"
                      /\ s14'[r] # None => /\ s7'[r] # "NONE"
                                           /\ s7'[r] = "FULFILLED" \/ ~Slot!Open(r)'
                      /\ s5'[r].status = "FULFILLED" => s14'[r] # None \/ r \in s16'
  BY DEF Slot!PaymentsAreWhole
<1>2. /\ s5[r].status # "NONE" => s5[r].user # None /\ s5[r].slot # None
      /\ r \in s6 \union s15 \/ s14[r] # None => s5[r].status # "NONE"
      /\ s14[r] # None => s7[r] # "NONE" /\ (s7[r] = "FULFILLED" \/ ~Slot!Open(r))
      /\ s5[r].status = "FULFILLED" => s14[r] # None \/ r \in s16
  BY DEF SlotInv, Slot!PaymentsAreWhole
<1>3. /\ s5[r].status = "NONE" <=> s5'[r].status = "NONE"
      /\ s5'[r].user = s5[r].user /\ s5'[r].slot = s5[r].slot
      /\ Slot!Open(r)' => Slot!Open(r)
  BY DEF SlotSettles, Slot!Open
<1>4. /\ s5'[r].status # "NONE" => s5'[r].user # None /\ s5'[r].slot # None
      /\ r \in s6' \union s15' \/ s14'[r] # None => s5'[r].status # "NONE"
  BY <1>2, <1>3
<1>5. s14'[r] # None => s7'[r] # "NONE" /\ (s7'[r] = "FULFILLED" \/ ~Slot!Open(r)')
  BY <1>2, <1>3
<1>6. s5'[r].status = "FULFILLED" => s14'[r] # None \/ r \in s16'
  BY <1>2
<1>7. QED
  BY <1>4, <1>5, <1>6

(* Payments that stay are settled in no way.                                *)
LEMMA SlotSettlesNone ==
  ASSUME Slot!RowsAreTyped, s5' = s5 PROVE SlotSettles
BY DEF Slot!RowsAreTyped, SlotSettles

(* A redemption is made, and nobody works on it yet.                        *)
LEMMA SlotRedeems ==
  ASSUME SlotInv, NEW r \in Redemptions, NEW v \in Viewers, NEW s \in Slot!Slots,
         Slot!Redeem(r, v, s)
  PROVE  SlotInv'
<1>1. /\ s5' = [s5 EXCEPT ![r] = [status |-> "UNFULFILLED", user |-> v, cost |-> s2[s].cost, slot |-> s]]
      /\ s5[r] = Slot!Unmade /\ UNCHANGED <<s1, s2, s3, s6, s7, s9, s11, s14, s15, s16>>
  BY DEF Slot!Redeem, Slot!history
<1>2. [status |-> "UNFULFILLED", user |-> v, cost |-> s2[s].cost, slot |-> s] \in Slot!Payment
  BY DEF SlotInv, Slot!RowsAreTyped, Slot!Reward, Slot!Payment
<1>3. /\ s5'[r].status = "UNFULFILLED" /\ s5'[r].user = v /\ s5'[r].slot = s
      /\ \A x \in Redemptions \ {r} : s5'[x] = s5[x]
  BY <1>1 DEF SlotInv, Slot!RowsAreTyped
<1>4. s5[r].status = "NONE"
  BY <1>1 DEF Slot!Unmade
<1>5. s \in Int
  BY PartsAssumption DEF Slot!Slots
<1>6. v # None /\ s # None
  BY <1>5, PartsAssumption
<1>7. r \notin s6 \union s15 /\ s14[r] = None
  BY <1>4 DEF SlotInv, Slot!PaymentsAreWhole
<1>8. Slot!RowsAreTyped' /\ Slot!JobsAreTyped'
  BY <1>1, <1>2 DEF SlotInv, Slot!RowsAreTyped, Slot!JobsAreTyped
<1>9. Slot!PaymentsAreWhole'
  BY <1>1, <1>3, <1>6, <1>7 DEF SlotInv, Slot!PaymentsAreWhole, Slot!Open
<1>10. Slot!JudgedOnce'
  BY <1>1, <1>3 DEF SlotInv, Slot!JudgedOnce, Slot!Held
<1>11. \A w \in Procs : s11[w].redemption # r
  BY <1>7 DEF SlotInv, Slot!JudgedOnce, Slot!Held
<1>12. ASSUME NEW w \in Procs PROVE Slot!Knows(w)'
  <2>1. s11[w].redemption \in Redemptions \union {None} /\ Slot!Knows(w)
    BY DEF SlotInv, Slot!JobsAreTyped, Slot!Job, Slot!JudgedAsPaid
  <2>2. CASE s11[w].redemption = None
    BY <1>1, <2>1, <2>2 DEF Slot!Knows, Slot!Holding, Slot!Judging
  <2>3. CASE s11[w].redemption # None
    <3>1. s5'[s11[w].redemption] = s5[s11[w].redemption]
      BY <1>3, <1>11, <2>1, <2>3
    <3>2. QED
      BY <1>1, <2>1, <3>1 DEF Slot!Knows, Slot!Open
  <2>4. QED
    BY <2>2, <2>3
<1>13. Slot!PaidByOwner'
  BY <1>1, <1>3, <1>7 DEF SlotInv, Slot!PaidByOwner
<1>14. QED
  BY <1>8, <1>9, <1>10, <1>12, <1>13 DEF SlotInv, Slot!JudgedAsPaid

(* A run of an event takes up its redemption, which has no marker then.     *)
LEMMA SlotHandles ==
  ASSUME SlotInv, NEW w \in Procs, NEW r \in Redemptions, Slot!HandleRedemption(w, r)
  PROVE  SlotInv'
<1>0. UNCHANGED <<s1, s2, s3, s5, s7, s9, s14, s15, s16>> /\ s5[r].status # "NONE"
  BY DEF Slot!HandleRedemption, Slot!history
<1>1. CASE r \in s6
  <2>1. UNCHANGED <<s6, s11>>
    BY <1>1 DEF Slot!HandleRedemption
  <2>2. QED
    BY <1>0, <2>1 DEF SlotInv, Slot!RowsAreTyped, Slot!JobsAreTyped, Slot!PaymentsAreWhole, Slot!Open,
       Slot!JudgedOnce, Slot!Held, Slot!JudgedAsPaid, Slot!Knows, Slot!PaidByOwner
<1>2. CASE r \notin s6
  <2>1. PICK j : j = [Slot!Idle EXCEPT !.at = "verdict", !.slot = s5[r].slot, !.row = s1[s5[r].slot],
                                       !.redemption = r, !.open = s9.open]
    OBVIOUS
  <2>2. s11' = [s11 EXCEPT ![w] = j] /\ s6' = s6 \union {r}
    BY <1>2, <2>1 DEF Slot!HandleRedemption, Slot!Begin
  <2>3. s5[r].slot \in Slot!Slots
    BY <1>0 DEF SlotInv, Slot!PaymentsAreWhole, Slot!RowsAreTyped, Slot!Payment
  <2>4. s1[s5[r].slot] \in Slot!Row /\ s9.open \in BOOLEAN
    BY <2>3 DEF SlotInv, Slot!RowsAreTyped
  <2>5. Slot!Idle \in Slot!Job
    BY DEF Slot!Idle, Slot!Job, Slot!Ats, Slot!Row, Slot!NoRow
  <2>6. j \in Slot!Job /\ j.at = "verdict" /\ j.redemption = r
    BY <2>1, <2>3, <2>4, <2>5 DEF Slot!Job, Slot!Ats
  <2>7. Slot!JobsAreTyped'
    BY <2>2, <2>6, SlotGoes DEF SlotInv
  <2>8. Slot!RowsAreTyped'
    BY <1>0 DEF SlotInv, Slot!RowsAreTyped
  <2>9. s11'[w] = j /\ \A x \in Procs \ {w} : s11'[x] = s11[x]
    BY <2>2 DEF SlotInv, Slot!JobsAreTyped
  <2>10. Slot!PaymentsAreWhole'
    BY <1>0, <2>2 DEF SlotInv, Slot!PaymentsAreWhole, Slot!Open
  <2>11. Slot!JudgedOnce'
    <3>1. r \notin s15 => \A x \in Procs : s11[x].redemption # r
      BY <1>2 DEF SlotInv, Slot!JudgedOnce, Slot!Held
    <3>2. QED
      BY <1>0, <2>2, <2>6, <2>9, <3>1 DEF SlotInv, Slot!JudgedOnce, Slot!Held
  <2>12. ASSUME NEW x \in Procs PROVE Slot!Knows(x)'
    <3>1. CASE x = w
      <4>1. /\ s14[r] # None => r \in s15
            /\ s5[r].status \in {"CANCELED", "FULFILLED"} => r \in s15 \union s16
        BY <1>2 DEF SlotInv, Slot!JudgedOnce
      <4>2. Slot!Open(r) \/ r \in s15 \union s16
        BY <1>0, <4>1 DEF SlotInv, Slot!RowsAreTyped, Slot!Payment, Slot!Open
      <4>3. r # None
        BY PartsAssumption
      <4>4. QED
        BY <1>0, <2>6, <2>9, <3>1, <4>1, <4>2, <4>3 DEF Slot!Knows, Slot!Open
    <3>2. CASE x # w
      BY <1>0, <2>9, <3>2 DEF SlotInv, Slot!JudgedAsPaid, Slot!Knows, Slot!Open
    <3>3. QED
      BY <3>1, <3>2
  <2>13. Slot!PaidByOwner'
    BY <1>0 DEF SlotInv, Slot!PaidByOwner
  <2>14. QED
    BY <2>7, <2>8, <2>10, <2>11, <2>12, <2>13 DEF SlotInv, Slot!JudgedAsPaid
<1>3. QED
  BY <1>1, <1>2

(* A marker that has gone leaves its redemption unsure.                     *)
LEMMA SlotForgets ==
  ASSUME SlotInv, NEW r \in Redemptions, Slot!MarkerExpires(r) PROVE SlotInv'
<1>1. /\ s6' = s6 \ {r} /\ s15' = s15 \union {r} /\ r \in s6
      /\ UNCHANGED <<s1, s2, s3, s5, s7, s9, s11, s14, s16>>
  BY DEF Slot!MarkerExpires
<1>2. Slot!RowsAreTyped' /\ Slot!JobsAreTyped'
  BY <1>1 DEF SlotInv, Slot!RowsAreTyped, Slot!JobsAreTyped
<1>3. Slot!PaymentsAreWhole'
  BY <1>1 DEF SlotInv, Slot!PaymentsAreWhole, Slot!Open
<1>4. Slot!JudgedOnce'
  BY <1>1 DEF SlotInv, Slot!JudgedOnce, Slot!Held
<1>5. \A x \in Procs : Slot!Knows(x)'
  BY <1>1, SlotKnows, SlotSettlesNone DEF SlotInv
<1>6. Slot!PaidByOwner'
  BY <1>1, SlotStaysPaid, SlotSettlesNone DEF SlotInv
<1>7. QED
  BY <1>2, <1>3, <1>4, <1>5, <1>6 DEF SlotInv, Slot!JudgedAsPaid

(* What a moderator settles is the moderator's.                             *)
LEMMA SlotModerates ==
  ASSUME SlotInv, NEW r \in Redemptions, NEW to \in {"CANCELED", "FULFILLED"}, Slot!Moderate(r, to)
  PROVE  SlotInv'
<1>1. /\ s5' = Slot!Settled(r, to) /\ s16' = s16 \union {r}
      /\ UNCHANGED <<s1, s2, s3, s6, s7, s9, s11, s14, s15>>
  BY DEF Slot!Moderate
<1>2. /\ SlotSettles /\ s5' \in [Redemptions -> Slot!Payment]
      /\ \A x \in Redemptions : s5'[x] # s5[x] => x = r
  BY <1>1, SlotSettled DEF SlotInv, SlotSettles
<1>3. Slot!RowsAreTyped' /\ Slot!JobsAreTyped'
  BY <1>1, <1>2 DEF SlotInv, Slot!RowsAreTyped, Slot!JobsAreTyped
<1>4. Slot!PaymentsAreWhole'
  BY <1>1, <1>2, SlotStaysWhole
<1>5. Slot!JudgedOnce'
  BY <1>1, <1>2, SlotJudges
<1>6. \A x \in Procs : Slot!Knows(x)'
  BY <1>1, <1>2, SlotKnows
<1>7. Slot!PaidByOwner'
  BY <1>1, <1>2, SlotStaysPaid
<1>8. QED
  BY <1>3, <1>4, <1>5, <1>6, <1>7 DEF SlotInv, Slot!JudgedAsPaid

(* An update of Twitch's puts on record what is so.                         *)
LEMMA SlotUpdates ==
  ASSUME SlotInv, NEW r \in Redemptions, Slot!StatusUpdate(r) PROVE SlotInv'
<1>1. /\ s7' = [s7 EXCEPT ![r] = s5[r].status] /\ s5[r].status \in {"CANCELED", "FULFILLED"}
      /\ UNCHANGED <<s1, s2, s3, s5, s6, s9, s11, s14, s15, s16>>
  BY DEF Slot!StatusUpdate, Slot!history
<1>2. /\ \A x \in Redemptions \ {r} : s7'[x] = s7[x]
      /\ s7'[r] = s5[r].status /\ s7' \in [Redemptions -> {"NONE", "CANCELED", "FAILED", "FULFILLED"}]
  BY <1>1 DEF SlotInv, Slot!RowsAreTyped
<1>3. SlotSettles
  BY <1>1, SlotSettlesNone DEF SlotInv
<1>4. Slot!RowsAreTyped' /\ Slot!JobsAreTyped' /\ Slot!JudgedOnce' /\ Slot!JudgedAsPaid'
  BY <1>1, <1>2 DEF SlotInv, Slot!RowsAreTyped, Slot!JobsAreTyped, Slot!JudgedOnce, Slot!Held,
     Slot!JudgedAsPaid, Slot!Knows, Slot!Open
<1>5. Slot!PaymentsAreWhole'
  <2>1. ~Slot!Open(r) /\ s7'[r] # "NONE"
    BY <1>1, <1>2 DEF Slot!Open
  <2>2. QED
    BY <1>1, <1>2, <1>3, <2>1, SlotStaysWhole
<1>6. Slot!PaidByOwner'
  <2>1. s7'[r] = "FULFILLED" => s14[r] # None \/ r \in s16
    BY <1>2 DEF SlotInv, Slot!PaymentsAreWhole
  <2>2. QED
    BY <1>1, <1>2, <1>3, <2>1, SlotStaysPaid
<1>7. QED
  BY <1>4, <1>5, <1>6 DEF SlotInv

(* A handler at a redemption has one, which is paid for.                    *)
LEMMA SlotHas ==
  ASSUME SlotInv, NEW w \in Procs, s11[w].at \in Slot!Holding
  PROVE  /\ s11[w] \in Slot!Job /\ s11 \in [Procs -> Slot!Job]
         /\ s11[w].redemption \in Redemptions /\ s11[w].redemption # None
         /\ s11[w].redemption \in s6 \union s15
         /\ s5[s11[w].redemption] \in Slot!Payment /\ s5[s11[w].redemption].status # "NONE"
         /\ Slot!Knows(w)
<1>1. s11[w] \in Slot!Job /\ s11 \in [Procs -> Slot!Job]
  BY DEF SlotInv, Slot!JobsAreTyped
<1>2. Slot!Knows(w) /\ s11[w].redemption \in Redemptions \union {None} /\ s11[w].redemption # None
  BY <1>1 DEF SlotInv, Slot!JudgedAsPaid, Slot!Knows, Slot!Job
<1>3. s11[w].redemption \in s6 \union s15
  BY <1>2 DEF SlotInv, Slot!JudgedOnce, Slot!Held
<1>4. s5[s11[w].redemption] \in Slot!Payment /\ s5[s11[w].redemption].status # "NONE"
  BY <1>2 DEF SlotInv, Slot!RowsAreTyped, Slot!Knows
<1>5. QED
  BY <1>1, <1>2, <1>3, <1>4

(* The verdict on a redemption looks at who has paid, how much, for what.   *)
LEMMA SlotDecides ==
  ASSUME SlotInv, NEW w \in Procs, Slot!Decide(w) PROVE SlotInv'
<1>0. s11[w].at = "verdict" /\ UNCHANGED <<s1, s2, s3, s5, s6, s7, s9, s14, s15, s16>>
  BY DEF Slot!Decide, Slot!payments, Slot!history
<1> DEFINE r == s11[w].redemption
<1>1. /\ s11[w] \in Slot!Job /\ s11 \in [Procs -> Slot!Job] /\ r \in Redemptions /\ r # None
      /\ s5[r].status # "NONE" /\ (s14[r] # None => r \in s15)
      /\ Slot!Open(r) \/ r \in s15 \union s16
  BY <1>0, SlotHas DEF Slot!Judging, Slot!Holding, Slot!Knows
<1>2. Slot!QuotesOf(w) \subseteq Offers
  BY <1>1 DEF Slot!QuotesOf, Slot!Job, Slot!Row
<1>3. PICK j \in Slot!Job :
        /\ s11' = [s11 EXCEPT ![w] = j] /\ j.at \in {"refund", "stranger", "activate"}
        /\ j.redemption = r
        /\ j.at = "activate" => /\ j.quote # None /\ s5[r].user = Owner[j.quote]
                                /\ s5[r].cost = OfferPrice[j.quote]
  <2>1. CASE Slot!Goto(w, "refund")
    <3>1. PICK j : j = [s11[w] EXCEPT !.at = "refund"]
      OBVIOUS
    <3>2. "refund" \in Slot!Ats
      BY DEF Slot!Ats
    <3>3. j \in Slot!Job /\ j.at = "refund" /\ j.redemption = r
      BY <1>1, <3>1, <3>2, SlotJobs
    <3>4. s11' = [s11 EXCEPT ![w] = j]
      BY <2>1, <3>1 DEF Slot!Goto
    <3>5. QED
      BY <3>3, <3>4
  <2>2. ASSUME NEW q \in Slot!QuotesOf(w), NEW kept, kept = IF s3[q].status = "AWAITING_REDEMPTION" THEN q ELSE None,
               s11' = [s11 EXCEPT ![w].at = Slot!Verdict(w, q), ![w].open = TRUE, ![w].quote = kept]
        PROVE  \E j \in Slot!Job :
                 /\ s11' = [s11 EXCEPT ![w] = j] /\ j.at \in {"refund", "stranger", "activate"}
                 /\ j.redemption = r
                 /\ j.at = "activate" => /\ j.quote # None /\ s5[r].user = Owner[j.quote]
                                         /\ s5[r].cost = OfferPrice[j.quote]
    <3>1. q \in Offers /\ q # None /\ kept \in Offers \union {None}
      BY <1>2, <2>2, PartsAssumption
    <3>2. PICK at : at = Slot!Verdict(w, q)
      OBVIOUS
    <3>3. /\ at \in {"refund", "stranger", "activate"}
          /\ at = "activate" => /\ s5[r].user = Owner[q] /\ s5[r].cost = OfferPrice[q]
                                /\ s3[q].status = "AWAITING_REDEMPTION"
      BY <3>2 DEF Slot!Verdict
    <3>4. PICK j : j = [s11[w] EXCEPT !.at = at, !.open = TRUE, !.quote = kept]
      OBVIOUS
    <3>5. j \in Slot!Job /\ j.at = at /\ j.quote = kept /\ j.redemption = r
      BY <1>1, <3>1, <3>3, <3>4 DEF Slot!Job, Slot!Ats
    <3>6. s11' = [s11 EXCEPT ![w] = j]
      BY <2>2, <3>2, <3>4
    <3>7. QED
      BY <2>2, <3>1, <3>3, <3>5, <3>6
  <2>3. QED
    BY <2>1, <2>2 DEF Slot!Decide
<1>4. s11'[w] = j /\ \A x \in Procs \ {w} : s11'[x] = s11[x]
  BY <1>1, <1>3
<1>5. Slot!JudgedOnce'
  BY <1>0, <1>3, <1>4, SlotJudges
<1>6. Slot!JobsAreTyped'
  BY <1>3, SlotGoes DEF SlotInv
<1>7. Slot!RowsAreTyped' /\ Slot!PaidByOwner' /\ Slot!PaymentsAreWhole'
  BY <1>0 DEF SlotInv, Slot!RowsAreTyped, Slot!PaidByOwner, Slot!PaymentsAreWhole, Slot!Open
<1>8. Slot!Knows(w)'
  <2>1. /\ j.redemption # None /\ s5'[j.redemption].status # "NONE"
        /\ s14'[j.redemption] # None => j.redemption \in s15'
        /\ Slot!Open(j.redemption)' \/ j.redemption \in s15' \union s16'
        /\ j.at = "activate" => /\ j.quote # None /\ s5'[j.redemption].user = Owner[j.quote]
                                /\ s5'[j.redemption].cost = OfferPrice[j.quote]
    BY <1>0, <1>1, <1>3 DEF Slot!Open
  <2>2. QED
    BY <1>3, <1>4, <2>1 DEF Slot!Knows
<1>9. \A x \in Procs \ {w} : Slot!Knows(x)'
  BY <1>0, <1>4, SlotOthers, SlotSettlesNone DEF SlotInv
<1>10. QED
  BY <1>5, <1>6, <1>7, <1>8, <1>9 DEF SlotInv, Slot!JudgedAsPaid

(* A refund changes no quote, and gives back no purchase that is known.     *)
LEMMA SlotRefunds ==
  ASSUME SlotInv, NEW w \in Procs, Slot!Refund(w) PROVE SlotInv'
<1> DEFINE r == s11[w].redemption
<1>0. /\ s11[w].at \in {"refund", "stranger"} /\ UNCHANGED <<s1, s2, s3, s6, s7, s9, s14, s15, s16>>
      /\ s5' = s5 \/ s5' = Slot!Settled(r, "CANCELED")
      /\ \E at \in {"record", "recordOnly"}, b \in BOOLEAN :
           s11' = [s11 EXCEPT ![w].at = at, ![w].refunded = b]
  BY DEF Slot!Refund, Slot!history, Slot!Open
<1>1. /\ s11[w] \in Slot!Job /\ s11 \in [Procs -> Slot!Job] /\ r \in Redemptions /\ r # None
      /\ r \in s6 \union s15 /\ s5[r].status # "NONE" /\ (s14[r] # None => r \in s15)
  BY <1>0, SlotHas DEF Slot!Judging, Slot!Holding, Slot!Knows
<1>2. /\ SlotSettles /\ s5' \in [Redemptions -> Slot!Payment]
      /\ \A x \in Redemptions : s5'[x] # s5[x] => x = r /\ s5'[x].status = "CANCELED"
  BY <1>0, <1>1, SlotSettled DEF SlotInv, SlotSettles
<1>3. PICK j \in Slot!Job : /\ s11' = [s11 EXCEPT ![w] = j] /\ j.at \in {"record", "recordOnly"}
                            /\ j.redemption = r
  <2>1. PICK at \in {"record", "recordOnly"}, b \in BOOLEAN :
          s11' = [s11 EXCEPT ![w].at = at, ![w].refunded = b]
    BY <1>0
  <2>2. PICK j : j = [s11[w] EXCEPT !.at = at, !.refunded = b]
    OBVIOUS
  <2>3. j \in Slot!Job /\ j.at = at /\ j.redemption = r
    BY <1>1, <2>2 DEF Slot!Job, Slot!Ats
  <2>4. s11' = [s11 EXCEPT ![w] = j]
    BY <2>1, <2>2
  <2>5. QED
    BY <2>3, <2>4
<1>4. s11'[w] = j /\ \A x \in Procs \ {w} : s11'[x] = s11[x]
  BY <1>1, <1>3
<1>5. Slot!JudgedOnce'
  BY <1>0, <1>1, <1>2, <1>3, <1>4, SlotJudges
<1>6. Slot!JobsAreTyped'
  BY <1>3, SlotGoes DEF SlotInv
<1>7. Slot!RowsAreTyped'
  BY <1>0, <1>2 DEF SlotInv, Slot!RowsAreTyped
<1>8. Slot!PaidByOwner' /\ Slot!PaymentsAreWhole'
  BY <1>0, <1>1, <1>2, SlotStaysPaid, SlotStaysWhole
<1>9. Slot!Knows(w)'
  <2>1. j.redemption # None /\ s5'[j.redemption].status # "NONE"
    BY <1>1, <1>2, <1>3 DEF SlotSettles
  <2>2. QED
    BY <1>3, <1>4, <2>1 DEF Slot!Knows, Slot!Judging
<1>10. \A x \in Procs \ {w} : Slot!Knows(x)'
  BY <1>0, <1>2, <1>4, SlotOthers
<1>11. QED
  BY <1>5, <1>6, <1>7, <1>8, <1>9, <1>10 DEF SlotInv, Slot!JudgedAsPaid

(* A rejection is put on record where there is none yet.                    *)
LEMMA SlotRecords ==
  ASSUME SlotInv, NEW w \in Procs, Slot!RecordRefund(w) PROVE SlotInv'
<1> DEFINE r == s11[w].redemption
<1>0. /\ s11[w].at \in {"record", "recordOnly"} /\ UNCHANGED <<s1, s2, s3, s5, s6, s9, s14, s15, s16>>
      /\ Slot!Goto(w, "kill") \/ Slot!End(w)
      /\ s7' = s7 \/ (s7[r] = "NONE" /\ \E to \in {"CANCELED", "FAILED"} : s7' = [s7 EXCEPT ![r] = to])
  BY DEF Slot!RecordRefund, Slot!history
<1>1. /\ s11[w] \in Slot!Job /\ s11 \in [Procs -> Slot!Job] /\ r \in Redemptions /\ r # None
      /\ s5[r].status # "NONE"
  BY <1>0, SlotHas DEF Slot!Judging, Slot!Holding
<1>2. s7 \in [Redemptions -> {"NONE", "CANCELED", "FAILED", "FULFILLED"}]
  BY DEF SlotInv, Slot!RowsAreTyped
<1>3. /\ s7' \in [Redemptions -> {"NONE", "CANCELED", "FAILED", "FULFILLED"}]
      /\ \A x \in Redemptions : s7'[x] # s7[x] => s7[x] = "NONE" /\ s7'[x] # "FULFILLED"
  BY <1>0, <1>1, <1>2
<1>4. PICK j \in Slot!Job : /\ s11' = [s11 EXCEPT ![w] = j] /\ j.at \in {"kill", "idle"}
                            /\ j.redemption \in {None, r} /\ (j.at = "kill" => j.redemption = r)
  <2>1. CASE Slot!Goto(w, "kill")
    <3>1. "kill" \in Slot!Ats
      BY DEF Slot!Ats
    <3>2. PICK j : j = [s11[w] EXCEPT !.at = "kill"]
      OBVIOUS
    <3>3. j \in Slot!Job /\ j.at = "kill" /\ j.redemption = r
      BY <1>1, <3>1, <3>2, SlotJobs
    <3>4. s11' = [s11 EXCEPT ![w] = j]
      BY <2>1, <3>2 DEF Slot!Goto
    <3>5. QED
      BY <3>3, <3>4
  <2>2. CASE Slot!End(w)
    <3>1. s11' = [s11 EXCEPT ![w] = Slot!Idle]
      BY <2>2 DEF Slot!End
    <3>2. Slot!Idle \in Slot!Job /\ Slot!Idle.at = "idle" /\ Slot!Idle.redemption = None
      BY <1>1, SlotJobs
    <3>3. QED
      BY <3>1, <3>2
  <2>3. QED
    BY <1>0, <2>1, <2>2
<1>5. s11'[w] = j /\ \A x \in Procs \ {w} : s11'[x] = s11[x]
  BY <1>1, <1>4
<1>6. SlotSettles
  BY <1>0, SlotSettlesNone DEF SlotInv
<1>7. Slot!JudgedOnce'
  BY <1>0, <1>4, <1>5, SlotJudges
<1>8. Slot!JobsAreTyped' /\ Slot!RowsAreTyped'
  BY <1>0, <1>3, <1>4, SlotGoes DEF SlotInv, Slot!RowsAreTyped
<1>9. Slot!PaymentsAreWhole' /\ Slot!PaidByOwner'
  <2>1. \A x \in Redemptions : s14[x] # None => s7'[x] = s7[x]
    BY <1>3 DEF SlotInv, Slot!PaymentsAreWhole
  <2>2. QED
    BY <1>0, <1>3, <1>6, <2>1, SlotStaysPaid, SlotStaysWhole
<1>10. Slot!Knows(w)'
  <2>1. j.redemption # None => s5'[j.redemption].status # "NONE"
    BY <1>0, <1>1, <1>4
  <2>2. QED
    BY <1>1, <1>4, <1>5, <2>1 DEF Slot!Knows, Slot!Judging, Slot!Holding
<1>11. \A x \in Procs \ {w} : Slot!Knows(x)'
  BY <1>0, <1>5, <1>6, SlotOthers
<1>12. QED
  BY <1>7, <1>8, <1>9, <1>10, <1>11 DEF SlotInv, Slot!JudgedAsPaid

(* The purchase: the redemption that was judged buys the quote.             *)
LEMMA SlotBuys ==
  ASSUME SlotInv, NEW w \in Procs, s11[w].at = "activate", s7[s11[w].redemption] = "NONE",
         s3[s11[w].quote].status = "AWAITING_REDEMPTION",
         s3' = [s3 EXCEPT ![s11[w].quote] = Slot!Ended("PAID")],
         s14' = [s14 EXCEPT ![s11[w].redemption] = s11[w].quote],
         s7' = [s7 EXCEPT ![s11[w].redemption] = "FULFILLED"],
         s1' = [s1 EXCEPT ![s11[w].slot].status = "CONSUMED"],
         UNCHANGED <<s2, s5, s6, s9, s16>>,
         \/ Slot!Goto(w, "fulfil") /\ s15' = s15
         \/ Slot!Goto(w, "refund") /\ s15' = s15 \union {s11[w].redemption}
  PROVE  SlotInv'
<1> DEFINE r == s11[w].redemption
           b == s11[w].quote
<1>1. /\ s11[w] \in Slot!Job /\ s11 \in [Procs -> Slot!Job] /\ r \in Redemptions /\ r # None
      /\ r \in s6 \union s15 /\ s5[r].status # "NONE" /\ Slot!Knows(w)
  BY SlotHas DEF Slot!Judging, Slot!Holding
<1>2. /\ b \in Offers /\ b # None /\ s5[r].user = Owner[b] /\ s5[r].cost = OfferPrice[b]
      /\ Slot!Open(r) \/ r \in s15 \union s16
  BY <1>1 DEF Slot!Knows, Slot!Judging, Slot!Job
<1>3. /\ s1 \in [Slot!Slots -> Slot!Row] /\ s3 \in [Offers -> Slot!Quote]
      /\ s14 \in [Redemptions -> Offers \union {None}]
      /\ s7 \in [Redemptions -> {"NONE", "CANCELED", "FAILED", "FULFILLED"}]
  BY DEF SlotInv, Slot!RowsAreTyped
<1>4. s14[r] = None /\ \A x \in Redemptions : s14[x] # b
  BY <1>1, <1>2 DEF SlotInv, Slot!PaymentsAreWhole, Slot!PaidByOwner
<1>5. /\ s14' \in [Redemptions -> Offers \union {None}] /\ s14'[r] = b
      /\ s7' \in [Redemptions -> {"NONE", "CANCELED", "FAILED", "FULFILLED"}] /\ s7'[r] = "FULFILLED"
      /\ \A x \in Redemptions \ {r} : s14'[x] = s14[x] /\ s7'[x] = s7[x]
  BY <1>1, <1>2, <1>3
<1>6. /\ s3' \in [Offers -> Slot!Quote] /\ s3'[b].status = "PAID"
      /\ \A q \in Offers \ {b} : s3'[q] = s3[q]
  <2>1. Slot!Ended("PAID") \in Slot!Quote /\ Slot!Ended("PAID").status = "PAID"
    BY DEF Slot!Quote, Slot!Ended
  <2>2. QED
    BY <1>2, <1>3, <2>1
<1>7. s1' \in [Slot!Slots -> Slot!Row]
  BY <1>3, SlotRowEdits
<1>8. PICK j \in Slot!Job :
        /\ s11' = [s11 EXCEPT ![w] = j] /\ j.at \in {"fulfil", "refund"} /\ j.redemption = r
        /\ j.at = "refund" => r \in s15'
  <2>1. ASSUME NEW at \in {"fulfil", "refund"}, Slot!Goto(w, at)
        PROVE  \E j \in Slot!Job : s11' = [s11 EXCEPT ![w] = j] /\ j.at = at /\ j.redemption = r
    <3>1. at \in Slot!Ats
      BY DEF Slot!Ats
    <3>2. PICK j : j = [s11[w] EXCEPT !.at = at]
      OBVIOUS
    <3>3. j \in Slot!Job /\ j.at = at /\ j.redemption = r
      BY <1>1, <3>1, <3>2, SlotJobs
    <3>4. s11' = [s11 EXCEPT ![w] = j]
      BY <2>1, <3>2 DEF Slot!Goto
    <3>5. QED
      BY <3>3, <3>4
  <2>2. QED
    BY <2>1
<1>9. s11'[w] = j /\ \A x \in Procs \ {w} : s11'[x] = s11[x]
  BY <1>1, <1>8
<1>10. SlotSettles /\ s15 \subseteq s15' /\ s16 \subseteq s16'
  BY SlotSettlesNone DEF SlotInv
<1>11. Slot!RowsAreTyped' /\ Slot!JobsAreTyped'
  BY <1>5, <1>6, <1>7, <1>8, SlotGoes DEF SlotInv, Slot!RowsAreTyped
<1>12. Slot!JudgedOnce'
  BY <1>1, <1>5, <1>8, <1>9, <1>10, SlotJudges
<1>13. Slot!PaymentsAreWhole'
  <2>1. s15' \subseteq s15 \union {r}
    OBVIOUS
  <2>2. QED
    BY <1>1, <1>5, <2>1 DEF SlotInv, Slot!PaymentsAreWhole, Slot!Open
<1>14. Slot!PaidByOwner'
  <2>1. ASSUME NEW q \in Offers, s3'[q].status = "PAID" PROVE \E x \in Redemptions : s14'[x] = q
    <3>1. CASE q = b
      BY <1>1, <1>5, <3>1
    <3>2. CASE q # b
      <4>1. PICK x \in Redemptions : s14[x] = q
        BY <1>6, <2>1, <3>2 DEF SlotInv, Slot!PaidByOwner
      <4>2. q # None
        BY PartsAssumption
      <4>3. x # r
        BY <1>4, <4>1, <4>2
      <4>4. QED
        BY <1>5, <4>1, <4>3
    <3>3. QED
      BY <3>1, <3>2
  <2>2. ASSUME NEW x \in Redemptions, s14'[x] # None
        PROVE  /\ s3'[s14'[x]].status = "PAID"
               /\ s5'[x].user = Owner[s14'[x]] /\ s5'[x].cost = OfferPrice[s14'[x]]
               /\ \A other \in Redemptions \ {x} : s14'[other] # s14'[x]
               /\ s5'[x].status = "CANCELED" => x \in s15' \union s16'
    <3>1. CASE x = r
      BY <1>2, <1>4, <1>5, <1>6, <1>10, <3>1 DEF Slot!Open
    <3>2. CASE x # r
      <4>1. s14'[x] = s14[x] /\ s14[x] \in Offers /\ s14[x] # b
        BY <1>3, <1>4, <1>5, <2>2, <3>2
      <4>2. s3'[s14'[x]] = s3[s14[x]]
        BY <1>6, <4>1
      <4>3. /\ s3[s14[x]].status = "PAID"
            /\ s5[x].user = Owner[s14[x]] /\ s5[x].cost = OfferPrice[s14[x]]
            /\ \A other \in Redemptions \ {x} : s14[other] # s14[x]
            /\ s5[x].status = "CANCELED" => x \in s15 \union s16
        BY <2>2, <4>1 DEF SlotInv, Slot!PaidByOwner
      <4>4. \A other \in Redemptions \ {x} : s14'[other] # s14'[x]
        BY <1>5, <4>1, <4>3
      <4>5. QED
        BY <1>10, <4>1, <4>2, <4>3, <4>4
    <3>3. QED
      BY <3>1, <3>2
  <2>3. \A x \in Redemptions : s7'[x] = "FULFILLED" => s14'[x] # None \/ x \in s16'
    BY <1>2, <1>5 DEF SlotInv, Slot!PaidByOwner
  <2>4. QED
    BY <2>1, <2>2, <2>3 DEF Slot!PaidByOwner
<1>15. Slot!Knows(w)'
  <2>1. r # None /\ s5'[r].status # "NONE" /\ s14'[r] # None
    BY <1>1, <1>2, <1>5
  <2>2. QED
    BY <1>8, <1>9, <2>1 DEF Slot!Knows, Slot!Judging
<1>16. \A x \in Procs \ {w} : Slot!Knows(x)'
  <2>1. \A x \in Redemptions : s14[x] # None => s14'[x] # None
    BY <1>4, <1>5
  <2>2. \A x \in Redemptions : s14'[x] # s14[x] \/ s5'[x].status # s5[x].status => x = r
    BY <1>5
  <2>3. QED
    BY <1>9, <1>10, <2>1, <2>2, SlotOthers
<1>17. QED
  BY <1>11, <1>12, <1>13, <1>14, <1>15, <1>16 DEF SlotInv, Slot!JudgedAsPaid

(* An activation that fails sends its redemption to be refunded.            *)
LEMMA SlotActivates ==
  ASSUME SlotInv, NEW w \in Procs, Slot!Activate(w) PROVE SlotInv'
<1>0. s11[w].at = "activate" /\ UNCHANGED <<s2, s5, s6, s9, s16>>
  BY DEF Slot!Activate
<1>1. CASE Slot!Goto(w, "refund") /\ UNCHANGED <<s1, s3, s7, s14, s15>>
  <2>1. /\ s11[w] \in Slot!Job /\ s11 \in [Procs -> Slot!Job] /\ Slot!Knows(w)
    BY <1>0, SlotHas DEF Slot!Judging, Slot!Holding
  <2>2. PICK j : j = [s11[w] EXCEPT !.at = "refund"]
    OBVIOUS
  <2>3. "refund" \in Slot!Ats
    BY DEF Slot!Ats
  <2>4. j \in Slot!Job /\ j.at = "refund" /\ j.redemption = s11[w].redemption
    BY <2>1, <2>2, <2>3, SlotJobs
  <2>5. s11' = [s11 EXCEPT ![w] = j]
    BY <1>1, <2>2 DEF Slot!Goto
  <2>6. s11'[w] = j /\ \A x \in Procs \ {w} : s11'[x] = s11[x]
    BY <2>1, <2>5
  <2>7. Slot!JobsAreTyped'
    BY <2>4, <2>5, SlotGoes DEF SlotInv
  <2>8. Slot!RowsAreTyped' /\ Slot!PaymentsAreWhole' /\ Slot!PaidByOwner'
    BY <1>0, <1>1 DEF SlotInv, Slot!RowsAreTyped, Slot!PaymentsAreWhole, Slot!PaidByOwner, Slot!Open
  <2>9. Slot!JudgedOnce'
    BY <1>0, <1>1, <2>4, <2>6, SlotJudges
  <2>10. Slot!Knows(w)'
    BY <1>0, <1>1, <2>1, <2>4, <2>6 DEF Slot!Knows, Slot!Judging, Slot!Holding, Slot!Open
  <2>11. \A x \in Procs \ {w} : Slot!Knows(x)'
    BY <1>0, <1>1, <2>6, SlotOthers, SlotSettlesNone DEF SlotInv
  <2>12. QED
    BY <2>7, <2>8, <2>9, <2>10, <2>11 DEF SlotInv, Slot!JudgedAsPaid
<1>2. CASE /\ s3[s11[w].quote].status = "AWAITING_REDEMPTION" /\ s7[s11[w].redemption] = "NONE"
           /\ s3' = [s3 EXCEPT ![s11[w].quote] = Slot!Ended("PAID")]
           /\ s14' = [s14 EXCEPT ![s11[w].redemption] = s11[w].quote]
           /\ s7' = [s7 EXCEPT ![s11[w].redemption] = "FULFILLED"]
           /\ s1' = [s1 EXCEPT ![s11[w].slot].status = "CONSUMED"]
           /\ \/ Slot!Goto(w, "fulfil") /\ s15' = s15
              \/ Slot!Goto(w, "refund") /\ s15' = s15 \union {s11[w].redemption}
  BY <1>0, <1>2, SlotBuys
<1>3. QED
  BY <1>1, <1>2 DEF Slot!Activate

(* A fulfilment settles the redemption that has bought its quote.           *)
LEMMA SlotFulfils ==
  ASSUME SlotInv, NEW w \in Procs, Slot!Fulfil(w) PROVE SlotInv'
<1> DEFINE r == s11[w].redemption
<1>0. /\ s11[w].at = "fulfil" /\ UNCHANGED <<s1, s2, s3, s6, s9, s14, s15, s16>>
      /\ s5' = s5 \/ s5' = Slot!Settled(r, "FULFILLED")
      /\ s7' = s7 \/ s7' = [s7 EXCEPT ![r] = "FULFILLED"]
  BY DEF Slot!Fulfil, Slot!history
<1>1. /\ s11[w] \in Slot!Job /\ s11 \in [Procs -> Slot!Job] /\ r \in Redemptions /\ r # None
      /\ r \in s6 \union s15 /\ s5[r].status # "NONE" /\ s14[r] # None
  BY <1>0, SlotHas DEF Slot!Holding, Slot!Knows
<1>2. /\ SlotSettles /\ s5' \in [Redemptions -> Slot!Payment]
      /\ \A x \in Redemptions : s5'[x] # s5[x] => x = r /\ s5'[x].status = "FULFILLED"
  BY <1>0, <1>1, SlotSettled DEF SlotInv, SlotSettles
<1>3. /\ s7' \in [Redemptions -> {"NONE", "CANCELED", "FAILED", "FULFILLED"}]
      /\ \A x \in Redemptions : s7'[x] # s7[x] => x = r /\ s7'[x] = "FULFILLED"
  BY <1>0, <1>1 DEF SlotInv, Slot!RowsAreTyped
<1>4. PICK j : j = [Slot!Idle EXCEPT !.at = "release", !.slot = s11[w].slot, !.redemption = r, !.then = "list"]
  OBVIOUS
<1>5. s11[w].slot \in Slot!Slots \union {None} /\ Slot!Idle \in Slot!Job
  BY <1>1, SlotJobs DEF Slot!Job
<1>6. j \in Slot!Job /\ j.at = "release" /\ j.redemption = r
  BY <1>1, <1>4, <1>5 DEF Slot!Job, Slot!Ats
<1>7. s11' = [s11 EXCEPT ![w] = j]
  BY <1>4 DEF Slot!Fulfil
<1>8. s11'[w] = j /\ \A x \in Procs \ {w} : s11'[x] = s11[x]
  BY <1>1, <1>7
<1>9. Slot!JudgedOnce'
  BY <1>0, <1>1, <1>2, <1>6, <1>8, SlotJudges
<1>10. Slot!JobsAreTyped' /\ Slot!RowsAreTyped'
  BY <1>0, <1>2, <1>3, <1>6, <1>7, SlotGoes DEF SlotInv, Slot!RowsAreTyped
<1>11. Slot!PaidByOwner' /\ Slot!PaymentsAreWhole'
  BY <1>0, <1>1, <1>2, <1>3, SlotStaysPaid, SlotStaysWhole
<1>12. Slot!Knows(w)'
  <2>1. s5'[r].status # "NONE"
    BY <1>1, <1>2 DEF SlotSettles
  <2>2. QED
    BY <1>6, <1>8, <2>1 DEF Slot!Knows, Slot!Judging, Slot!Holding
<1>13. \A x \in Procs \ {w} : Slot!Knows(x)'
  BY <1>0, <1>2, <1>8, SlotOthers
<1>14. QED
  BY <1>9, <1>10, <1>11, <1>12, <1>13 DEF SlotInv, Slot!JudgedAsPaid

(* A quote lapses, time passes, the admin and the lock, a crash.            *)
LEMMA SlotElse ==
  ASSUME SlotInv,
         \/ \E q \in Offers : Slot!ConfirmLate(q) \/ Slot!Deadline(q)
         \/ Slot!EndWaypoint \/ Slot!LockExpires \/ Slot!Crash
         \/ \E open \in BOOLEAN : Slot!SetOpen(open)
  PROVE  SlotInv'
<1> USE DEF Slot!payments, Slot!history
<1>1. ASSUME NEW q \in Offers, Slot!ConfirmLate(q) PROVE SlotInv'
  <2>1. /\ s3' = [s3 EXCEPT ![q] = Slot!Ended("EXPIRED")] /\ s3[q].status = "QUOTED"
        /\ UNCHANGED <<s1, s2, s5, s6, s7, s9, s11, s14, s15, s16>>
    BY <1>1 DEF Slot!ConfirmLate
  <2>2. s3 \in [Offers -> Slot!Quote] /\ s3[q].status \in Slot!Live
    BY <2>1 DEF SlotInv, Slot!RowsAreTyped, Slot!Live
  <2>3. SlotSamePaid(s3, s3')
    BY <2>1, <2>2, SlotQuoteEnds
  <2>4. Slot!RowsAreTyped' /\ Slot!PaymentsAreWhole'
    BY <2>1, <2>3 DEF SlotInv, Slot!RowsAreTyped, SlotSamePaid, Slot!PaymentsAreWhole, Slot!Open
  <2>5. Slot!PaidByOwner'
    BY <2>1, <2>3 DEF SlotInv, Slot!RowsAreTyped, Slot!PaidByOwner, SlotSamePaid
  <2>6. Slot!JobsAreTyped' /\ Slot!JudgedOnce' /\ Slot!JudgedAsPaid'
    BY <2>1 DEF SlotInv, Slot!JobsAreTyped, Slot!JudgedOnce, Slot!Held, Slot!JudgedAsPaid, Slot!Knows, Slot!Open
  <2>7. QED
    BY <2>4, <2>5, <2>6 DEF SlotInv
<1>2. ASSUME \/ \E q \in Offers : Slot!Deadline(q)
             \/ Slot!EndWaypoint \/ Slot!LockExpires \/ \E open \in BOOLEAN : Slot!SetOpen(open)
      PROVE  SlotInv'
  <2>1. /\ UNCHANGED <<s1, s2, s3, s5, s6, s7, s11, s14, s15, s16>>
        /\ s9' = s9 \/ \E open \in BOOLEAN : s9' = [s9 EXCEPT !.open = open]
    BY <1>2 DEF Slot!Deadline, Slot!EndWaypoint, Slot!LockExpires, Slot!SetOpen
  <2>2. s9' \in [size : Slot!Slots, open : BOOLEAN]
    BY <2>1 DEF SlotInv, Slot!RowsAreTyped
  <2>3. Slot!RowsAreTyped'
    BY <2>1, <2>2 DEF SlotInv, Slot!RowsAreTyped
  <2>4. Slot!PaidByOwner' /\ Slot!JobsAreTyped' /\ Slot!PaymentsAreWhole' /\ Slot!JudgedOnce' /\ Slot!JudgedAsPaid'
    BY <2>1 DEF SlotInv, Slot!PaidByOwner, Slot!JobsAreTyped, Slot!PaymentsAreWhole, Slot!Open,
       Slot!JudgedOnce, Slot!Held, Slot!JudgedAsPaid, Slot!Knows
  <2>5. QED
    BY <2>3, <2>4 DEF SlotInv
<1>3. ASSUME Slot!Crash PROVE SlotInv'
  <2>1. s11' = [w \in Procs |-> Slot!Idle] /\ UNCHANGED <<s1, s2, s3, s5, s6, s7, s9, s14, s15, s16>>
    BY <1>3 DEF Slot!Crash
  <2>2. Slot!Idle \in Slot!Job /\ Slot!Idle.at = "idle" /\ Slot!Idle.redemption = None
    BY DEF Slot!Idle, Slot!Job, Slot!Ats, Slot!Row, Slot!NoRow
  <2>3. Slot!RowsAreTyped' /\ Slot!PaidByOwner' /\ Slot!PaymentsAreWhole'
    BY <2>1 DEF SlotInv, Slot!RowsAreTyped, Slot!PaidByOwner, Slot!PaymentsAreWhole, Slot!Open
  <2>4. Slot!JobsAreTyped' /\ Slot!JudgedOnce'
    BY <2>1, <2>2, PartsAssumption DEF SlotInv, Slot!JobsAreTyped, Slot!JudgedOnce, Slot!Held
  <2>5. Slot!JudgedAsPaid'
    BY <2>1, <2>2 DEF Slot!JudgedAsPaid, Slot!Knows, Slot!Judging, Slot!Holding
  <2>6. QED
    BY <2>3, <2>4, <2>5 DEF SlotInv
<1>4. QED
  BY <1>1, <1>2, <1>3

LEMMA SlotStep ==
  ASSUME SlotInv, Slot!Next PROVE SlotInv'
<1>1. ASSUME NEW w \in Procs, Slot!Step(w) PROVE SlotInv'
  BY <1>1, SlotKeepsQuietly, SlotDecides, SlotRefunds, SlotRecords, SlotActivates, SlotFulfils
     DEF Slot!Step, SlotQuietStep
<1>2. ASSUME NEW w \in Procs, Slot!Sweep(w) \/ Slot!Request(w) PROVE SlotInv'
  BY <1>2, SlotKeepsQuietly, SlotHandles DEF Slot!Request, SlotQuietStep
<1>3. QED
  BY <1>1, <1>2, SlotRedeems, SlotForgets, SlotModerates, SlotUpdates, SlotElse DEF Slot!Next

-----------------------------------------------------------------------------
(* The viewer's page with GTA$: ViewerPage.                                 *)

PageInv ==
  /\ Page!PageIsTyped /\ Page!ServerIsSound /\ Page!NewIsUntouched
  /\ Page!RefusalIsTrue /\ Page!DenialIsTrue

(* The model values are told apart, from each other and from the words.     *)
LEMMA PageValues ==
  /\ {None, Asked, Refused, Other} \intersect Quotes = {}
  /\ None # Asked /\ None # Refused /\ Asked # Refused /\ Lost \notin {None, Asked}
  /\ {None, Asked, Lost} \intersect {"active", "completed", "canceled", "refused", "poor", "limited",
                                     "identity", "dead", "busy", "network"} = {}
BY PartsAssumption

(* What a card is made of, and that it is a card of the payment mode.       *)
PageCard == [kind : Page!Kinds, quote : Quotes \union {None, Other}, unsure : BOOLEAN, why : Page!Whys]

LEMMA PageCards ==
  /\ \A kind, q : LET c == Page!Card(kind, q) IN
       /\ c.kind = kind /\ c.quote = q /\ c.unsure = FALSE /\ c.why = None
       /\ kind \in Page!Kinds /\ q \in Quotes \union {None, Other} => c \in PageCard
  /\ \A q, why : LET c == Page!Error(q, why) IN
       /\ c.kind = "error" /\ c.quote = q /\ c.unsure = FALSE /\ c.why = why
       /\ q \in Quotes \union {None, Other} /\ why \in Page!Whys => c \in PageCard
  /\ Page!Idle.kind = "idle" /\ Page!Idle.quote = None /\ Page!Idle.unsure = FALSE /\ Page!Idle.why = None
  /\ Page!Idle \in PageCard
<1>1. /\ Page!Idle.kind = "idle" /\ Page!Idle.quote = None /\ Page!Idle.unsure = FALSE /\ Page!Idle.why = None
      /\ Page!Idle \in PageCard
  BY DEF Page!Idle, PageCard, Page!Kinds, Page!Whys
<1>2. ASSUME NEW kind, NEW q
      PROVE  LET c == Page!Card(kind, q) IN
             /\ c.kind = kind /\ c.quote = q /\ c.unsure = FALSE /\ c.why = None
             /\ kind \in Page!Kinds /\ q \in Quotes \union {None, Other} => c \in PageCard
  BY DEF Page!Card, Page!Idle, PageCard, Page!Whys
<1>3. ASSUME NEW q, NEW why
      PROVE  LET c == Page!Error(q, why) IN
             /\ c.kind = "error" /\ c.quote = q /\ c.unsure = FALSE /\ c.why = why
             /\ q \in Quotes \union {None, Other} /\ why \in Page!Whys => c \in PageCard
  BY DEF Page!Error, Page!Card, Page!Idle, PageCard, Page!Kinds
<1>4. QED
  BY <1>1, <1>2, <1>3

LEMMA PageBegins ==
  ASSUME s1, Page!Init PROVE PageInv
<1> USE PageValues DEF Page!Init
<1>1. Page!PageIsTyped
  BY PageCards DEF Page!PageIsTyped, Page!Statuses, PageCard
<1>2. Page!ServerIsSound
  BY DEF Page!ServerIsSound
<1>3. Page!NewIsUntouched
  BY PageCards DEF Page!NewIsUntouched, Page!NoRequest
<1>4. Page!RefusalIsTrue
  BY DEF Page!RefusalIsTrue
<1>5. Page!DenialIsTrue
  BY PageCards DEF Page!DenialIsTrue, Page!MayDeny
<1>6. QED
  BY <1>1, <1>2, <1>3, <1>4, <1>5 DEF PageInv

(* With GTA$ nothing is confirmed, and the card never waits for Channel     *)
(* Points.                                                                  *)
LEMMA PageSays ==
  ASSUME s1, Page!PageIsTyped
  PROVE  /\ s8 = Page!NoRequest
         /\ ~Page!Offered("confirm") /\ ~Page!Offered("cancel")
         /\ Page!Offered("purchase") => s11.kind = "quoted"
         /\ Page!Denied => Page!MayDeny
<1>1. s8 = Page!NoRequest /\ s11.kind \in Page!Kinds
  BY DEF Page!PageIsTyped
<1>2. ~Page!Offered("confirm") /\ ~Page!Offered("cancel")
  BY <1>1 DEF Page!Offered, Page!DestinationCard, Page!GtaQuote, Page!Kinds
<1>3. Page!Offered("purchase") => s11.kind = "quoted"
  BY <1>1 DEF Page!Offered, Page!DestinationCard, Page!GtaQuote, Page!Kinds
<1>4. Page!Denied => Page!MayDeny
  <2> SUFFICES ASSUME NEW v \in Page!Views, Page!DestinationCard(s11, v).says \in {"refused", "dead", "busy", "poor"}
               PROVE  Page!MayDeny
    BY DEF Page!Denied
  <2>1. CASE s11.kind = "error"
    BY <2>1 DEF Page!DestinationCard, Page!MayDeny
  <2>2. CASE s11.kind = "quoted"
    BY <2>2, PageValues DEF Page!DestinationCard, Page!GtaQuote, Page!MayDeny, Page!PageIsTyped
  <2>3. CASE s11.kind = "purchasing"
    BY <2>3, PageValues DEF Page!DestinationCard, Page!GtaQuote, Page!PageIsTyped
  <2>4. CASE s11.kind \notin {"error", "quoted", "purchasing"}
    BY <2>4, <1>1, PageValues DEF Page!DestinationCard, Page!Kinds
  <2>5. QED
    BY <2>1, <2>2, <2>3, <2>4
<1>5. QED
  BY <1>1, <1>2, <1>3, <1>4

(* A card that denies nothing, or of a quote that is not paid, may be shown.*)
LEMMA PageShows ==
  ASSUME s1, PageInv, UNCHANGED <<s1, s2, s3, s4, s8, s9, s10>>, s5' \subseteq s5,
         s6' \in {s6, None, Asked}, s7' \in {s7, Page!NoRequest}, NEW c \in PageCard, s11' = c,
         c.kind = "purchasing" => c.why = None,
         c.kind = "quoted" => c.quote \in Quotes /\ (c.unsure => c.why \in {None, "limited"}),
         c.quote \in Quotes => s2[c.quote] # "none" /\ s6' # c.quote,
         \/ /\ c.kind = "error" => c.why \notin {"refused", "dead", "busy", "poor"}
            /\ c.kind = "quoted" => c.unsure
         \/ c.quote \in Quotes => Page!Unpaid(c.quote)
  PROVE  PageInv'
<1> USE PageValues
<1>1. Page!PageIsTyped'
  BY DEF PageInv, Page!PageIsTyped, PageCard
<1>2. Page!ServerIsSound'
  BY DEF PageInv, Page!ServerIsSound
<1>3. Page!NewIsUntouched'
  BY DEF PageInv, Page!NewIsUntouched, Page!NoRequest
<1>4. Page!RefusalIsTrue'
  BY DEF PageInv, Page!RefusalIsTrue, Page!Undecidable, Page!NoRequest
<1>5. Page!DenialIsTrue'
  BY DEF PageInv, Page!DenialIsTrue, Page!MayDeny, Page!Unpaid, Page!Undecidable, Page!NoRequest
<1>6. QED
  BY <1>1, <1>2, <1>3, <1>4, <1>5 DEF PageInv

(* A quote that is on the card, or in the purchase request, is not new.     *)
LEMMA PageKnows ==
  ASSUME PageInv
  PROVE  /\ s7 # Page!NoRequest => s7.quote \in Quotes /\ s2[s7.quote] # "none" /\ s6 # s7.quote
         /\ s11.quote \in Quotes => s2[s11.quote] # "none" /\ s6 # s11.quote
         /\ s11 \in PageCard /\ (s11.kind = "purchasing" => s11.why = None)
         /\ s11.kind = "quoted" => s11.quote \in Quotes /\ (s11.unsure => s11.why \in {None, "limited"})
<1>1. s11 \in PageCard /\ (s11.kind = "purchasing" => s11.why = None)
  BY DEF PageInv, Page!PageIsTyped, PageCard
<1>2. s11.kind = "quoted" => s11.quote \in Quotes /\ (s11.unsure => s11.why \in {None, "limited"})
  BY DEF PageInv, Page!PageIsTyped
<1>3. s7 # Page!NoRequest => s7.quote \in Quotes
  BY DEF PageInv, Page!PageIsTyped
<1>4. QED
  BY <1>1, <1>2, <1>3 DEF PageInv, Page!NewIsUntouched

LEMMA PageClicks ==
  ASSUME s1, PageInv, Page!HandlePick \/ Page!HandleRequote \/ Page!HandleCancel \/ Page!HandleClose
  PROVE  PageInv'
<1> USE PageValues
<1>1. CASE Page!HandlePick \/ Page!HandleRequote
  <2>1. UNCHANGED <<s1, s2, s3, s4, s5, s7, s8, s9, s10>>
    BY <1>1 DEF Page!HandlePick, Page!HandleRequote, Page!server
  <2>2. /\ Page!Error(None, "blocked") \in PageCard /\ Page!Error(None, "blocked").kind = "error"
        /\ Page!Error(None, "blocked").quote = None /\ Page!Error(None, "blocked").why = "blocked"
    BY PageCards DEF Page!Whys
  <2>3. /\ Page!Card("loading", None) \in PageCard /\ Page!Card("loading", None).kind = "loading"
        /\ Page!Card("loading", None).quote = None
    BY PageCards DEF Page!Kinds
  <2>4. CASE s11' = Page!Error(None, "blocked") /\ s6' = s6
    BY <2>1, <2>2, <2>4, PageShows
  <2>5. CASE s11' = Page!Card("loading", None) /\ s6' = Asked
    BY <2>1, <2>3, <2>5, PageShows
  <2>6. QED
    BY <1>1, <2>4, <2>5 DEF Page!HandlePick, Page!HandleRequote
<1>2. CASE Page!HandleCancel \/ Page!HandleClose
  BY <1>2, PageCards, PageShows DEF Page!HandleCancel, Page!HandleClose, Page!server, Page!asked
<1>3. QED
  BY <1>1, <1>2

LEMMA PageTakesPrice ==
  ASSUME s1, PageInv, Page!TakePrice PROVE PageInv'
<1> USE PageValues
<1>1. UNCHANGED <<s1, s2, s3, s4, s5, s7, s8, s9, s10>> /\ s6' = None
  BY DEF Page!TakePrice, Page!server
<1>2. CASE s6 = Refused
  BY <1>1, <1>2, PageCards, PageShows DEF Page!TakePrice, Page!Whys
<1>3. CASE s6 \in Quotes
  <2>1. Page!Unpaid(s6) /\ s2[s6] # "none"
    BY <1>3 DEF PageInv, Page!NewIsUntouched, Page!Unpaid, Page!Undecidable
  <2>2. Page!Card("quoted", s6) \in PageCard
    BY <1>3, PageCards DEF Page!Kinds
  <2>3. QED
    BY <1>1, <1>3, <2>1, <2>2, PageCards, PageShows DEF Page!TakePrice
<1>4. QED
  BY <1>2, <1>3 DEF PageInv, Page!PageIsTyped, Page!TakePrice

LEMMA PageBuys ==
  ASSUME s1, PageInv, Page!HandlePurchase PROVE PageInv'
<1> DEFINE r == [quote |-> s11.quote, answer |-> Asked, unsure |-> s11.unsure]
<1>1. /\ UNCHANGED <<s1, s2, s3, s4, s5, s6, s8, s9, s10>> /\ s7' = r
      /\ s11' = Page!Card("purchasing", s11.quote) /\ s11.kind = "quoted"
  BY PageSays DEF PageInv, Page!HandlePurchase, Page!server
<1>2. /\ s11.quote \in Quotes /\ s2[s11.quote] # "none" /\ s6 # s11.quote
      /\ s11.unsure \in BOOLEAN
  BY <1>1, PageKnows DEF PageCard
<1>3. /\ r.quote = s11.quote /\ r.answer = Asked /\ r.unsure = s11.unsure
      /\ r \in [quote : Quotes, answer : Page!Answers \union {Asked}, unsure : BOOLEAN]
  BY <1>2
<1>4. s11' \in PageCard /\ s11'.kind = "purchasing" /\ s11'.quote = s11.quote /\ s11'.why = None
  BY <1>1, <1>2, PageCards DEF Page!Kinds
<1>5. Page!PageIsTyped'
  BY <1>1, <1>3, <1>4 DEF PageInv, Page!PageIsTyped, PageCard
<1>6. Page!ServerIsSound'
  BY <1>1 DEF PageInv, Page!ServerIsSound
<1>7. Page!NewIsUntouched'
  BY <1>1, <1>2, <1>3, <1>4 DEF PageInv, Page!NewIsUntouched
<1>8. Page!RefusalIsTrue'
  <2>1. CASE s11.unsure
    BY <1>1, <1>3, <2>1, PageValues DEF Page!RefusalIsTrue
  <2>2. CASE ~s11.unsure
    <3>1. s11.quote \in s10 \/ (s11.quote \notin s3 /\ Page!Undecidable(s11.quote))
      BY <1>1, <1>2, <2>2 DEF PageInv, Page!DenialIsTrue, Page!MayDeny, Page!Unpaid
    <3>2. QED
      BY <1>1, <1>3, <3>1 DEF Page!RefusalIsTrue, Page!Undecidable
  <2>3. QED
    BY <2>1, <2>2
<1>9. Page!DenialIsTrue'
  BY <1>4 DEF Page!DenialIsTrue, Page!MayDeny
<1>10. QED
  BY <1>5, <1>6, <1>7, <1>8, <1>9 DEF PageInv

(* What a card becomes when the purchase request was answered.              *)
LEMMA PageTakesPurchase ==
  ASSUME s1, PageInv, Page!TakePurchase PROVE PageInv'
<1> DEFINE q == s7.quote
<1>1. /\ UNCHANGED <<s1, s2, s3, s4, s5, s6, s8, s9, s10>> /\ s7' = Page!NoRequest
      /\ s7 # Page!NoRequest /\ s7.answer \notin {None, Asked}
  BY DEF Page!TakePurchase, Page!server, Page!NoRequest
<1>2. /\ q \in Quotes /\ s2[q] # "none" /\ s6 # q /\ s7.unsure \in BOOLEAN
      /\ s7.answer \in Page!Answers
  BY <1>1, PageKnows DEF PageInv, Page!PageIsTyped
<1>3. CASE s7.answer = "active"
  <2>1. /\ Page!Card("active", q) \in PageCard /\ Page!Card("active", q).kind = "active"
        /\ Page!Card("active", q).quote = q
    BY <1>2, PageCards DEF Page!Kinds
  <2>2. QED
    BY <1>1, <1>2, <1>3, <2>1, PageShows DEF Page!TakePurchase
<1>4. CASE s7.answer # "active" /\ ~Page!StillMine
  <2>1. s11' = s11
    BY <1>4 DEF Page!TakePurchase
  <2>2. Page!MayDeny /\ s11.quote \in Quotes => Page!Unpaid(s11.quote)
    BY DEF PageInv, Page!DenialIsTrue
  <2>3. QED
    BY <1>1, <2>1, <2>2, PageKnows, PageShows DEF Page!MayDeny
<1>5. CASE s7.answer # "active" /\ Page!StillMine
  <2>1. s11' = Page!AfterAnswer
    BY <1>5 DEF Page!TakePurchase
  <2>2. CASE s7.answer = "completed"
    <3>1. /\ Page!AfterAnswer \in PageCard /\ Page!AfterAnswer.kind = "completed"
          /\ Page!AfterAnswer.quote = q
      <4>1. Page!AfterAnswer = Page!Card("completed", q)
        BY <2>2, PageValues DEF Page!AfterAnswer
      <4>2. QED
        BY <1>2, <4>1, PageCards DEF Page!Kinds
    <3>2. QED
      BY <1>1, <1>2, <2>1, <3>1, PageShows
  <2>3. CASE s7.answer = "canceled"
    <3>1. /\ Page!AfterAnswer \in PageCard /\ Page!AfterAnswer.kind = "error"
          /\ Page!AfterAnswer.quote = q /\ Page!AfterAnswer.why = "canceled"
      <4>1. Page!AfterAnswer = Page!Error(q, "canceled")
        BY <2>3, PageValues DEF Page!AfterAnswer
      <4>2. QED
        BY <1>2, <4>1, PageCards DEF Page!Whys
    <3>2. QED
      BY <1>1, <1>2, <2>1, <3>1, PageShows
  <2>4. CASE s7.answer = Lost
    <3>1. /\ Page!AfterAnswer \in PageCard /\ Page!AfterAnswer.kind = "quoted"
          /\ Page!AfterAnswer.quote = q /\ Page!AfterAnswer.unsure = TRUE /\ Page!AfterAnswer.why = None
      <4>1. Page!AfterAnswer = [Page!Card("quoted", q) EXCEPT !.unsure = TRUE]
        BY <2>4, PageValues DEF Page!AfterAnswer
      <4>2. PICK c \in PageCard : /\ c = Page!Card("quoted", q) /\ c.kind = "quoted" /\ c.quote = q
                                 /\ c.unsure = FALSE /\ c.why = None
        BY <1>2, PageCards DEF Page!Kinds
      <4>3. Page!AfterAnswer = [c EXCEPT !.unsure = TRUE]
        BY <4>1, <4>2
      <4>4. QED
        BY <1>2, <4>2, <4>3 DEF PageCard, Page!Whys
    <3>2. QED
      BY <1>1, <1>2, <2>1, <3>1, PageShows
  <2>5. CASE s7.answer \in {"refused", "identity"}
    <3>1. /\ Page!AfterAnswer \in PageCard /\ Page!AfterAnswer.kind = "error"
          /\ Page!AfterAnswer.quote = q /\ Page!AfterAnswer.why = s7.answer
      <4>1. Page!AfterAnswer = Page!Error(q, s7.answer)
        BY <2>5, PageValues DEF Page!AfterAnswer
      <4>2. QED
        BY <1>2, <2>5, <4>1, PageCards DEF Page!Whys
    <3>2. s7.answer = "refused" => Page!Unpaid(q)
      BY <1>1, <2>5 DEF PageInv, Page!RefusalIsTrue, Page!Unpaid
    <3>3. QED
      BY <1>1, <1>2, <2>1, <2>5, <3>1, <3>2, PageShows
  <2>6. CASE s7.answer = "poor"
    <3>1. /\ Page!AfterAnswer \in PageCard /\ Page!AfterAnswer.kind = "quoted"
          /\ Page!AfterAnswer.quote = q /\ Page!AfterAnswer.unsure = FALSE
      <4>1. Page!AfterAnswer = [Page!Card("quoted", q) EXCEPT !.why = "poor"]
        BY <2>6, PageValues DEF Page!AfterAnswer
      <4>2. PICK c \in PageCard : /\ c = Page!Card("quoted", q) /\ c.kind = "quoted" /\ c.quote = q
                                 /\ c.unsure = FALSE /\ c.why = None
        BY <1>2, PageCards DEF Page!Kinds
      <4>3. Page!AfterAnswer = [c EXCEPT !.why = "poor"]
        BY <4>1, <4>2
      <4>4. QED
        BY <1>2, <4>2, <4>3 DEF PageCard, Page!Whys
    <3>2. Page!Unpaid(q)
      BY <1>1, <2>6 DEF PageInv, Page!RefusalIsTrue, Page!Unpaid
    <3>3. QED
      BY <1>1, <1>2, <2>1, <3>1, <3>2, PageShows
  <2>7. CASE s7.answer = "limited"
    <3>1. /\ Page!AfterAnswer \in PageCard /\ Page!AfterAnswer.kind = "quoted"
          /\ Page!AfterAnswer.quote = q /\ Page!AfterAnswer.unsure = s7.unsure
          /\ Page!AfterAnswer.why = "limited"
      <4>1. Page!AfterAnswer = [Page!Card("quoted", q) EXCEPT !.why = "limited", !.unsure = s7.unsure]
        BY <2>7, PageValues DEF Page!AfterAnswer, Page!StandsAsBefore
      <4>2. PICK c \in PageCard : /\ c = Page!Card("quoted", q) /\ c.kind = "quoted" /\ c.quote = q
                                 /\ c.unsure = FALSE /\ c.why = None
        BY <1>2, PageCards DEF Page!Kinds
      <4>3. Page!AfterAnswer = [c EXCEPT !.why = "limited", !.unsure = s7.unsure]
        BY <4>1, <4>2
      <4>4. QED
        BY <1>2, <4>2, <4>3 DEF PageCard, Page!Whys
    <3>2. ~s7.unsure => Page!Unpaid(q)
      BY <1>1, <2>7 DEF PageInv, Page!RefusalIsTrue, Page!Unpaid
    <3>3. QED
      BY <1>1, <1>2, <2>1, <3>1, <3>2, PageShows
  <2>8. QED
    BY <1>2, <1>5, <2>2, <2>3, <2>4, <2>5, <2>6, <2>7 DEF Page!Answers
<1>6. QED
  BY <1>3, <1>4, <1>5

(* An event that ends a card denies nothing; one that denies is of a quote  *)
(* of which nothing is undecided, or which is dead.                         *)
LEMMA PageReceives ==
  ASSUME s1, PageInv, NEW e \in s5, Page!Receive(e) PROVE PageInv'
<1>1. /\ UNCHANGED <<s1, s2, s3, s4, s6, s7, s8, s9, s10>> /\ s5' \subseteq s5
      /\ e.kind \in {"activated", "completed", "canceled", "quote:canceled"}
      /\ e.quote \in Quotes \union {Other}
  BY DEF PageInv, Page!ServerIsSound, Page!Receive, Page!server, Page!asked
<1>2. ASSUME s11' = s11 PROVE PageInv'
  <2>1. Page!MayDeny /\ s11.quote \in Quotes => Page!Unpaid(s11.quote)
    BY DEF PageInv, Page!DenialIsTrue
  <2>2. QED
    BY <1>1, <1>2, <2>1, PageKnows, PageShows DEF Page!MayDeny
<1>3. PICK sameSpot \in BOOLEAN :
        /\ e.kind = "activated" => s11' = Page!AfterActivated(e.quote, sameSpot)
        /\ e.kind = "completed" => s11' = Page!AfterCompleted(e.quote)
        /\ e.kind = "canceled" => s11' = Page!AfterCanceled(e.quote)
        /\ e.kind = "quote:canceled" => s11' = Page!AfterQuoteCanceled(e.quote)
  BY <1>1 DEF Page!Receive
<1>4. CASE e.kind = "activated" /\ s11' # s11
  <2>1. s11.kind = "quoted" /\ ~s11.unsure /\ s11' = Page!Error(s11.quote, "busy")
    BY <1>3, <1>4, PageKnows DEF Page!AfterActivated, Page!Undecided, Page!QuoteOf, PageCard,
       Page!Kinds
  <2>2. s11.quote \in Quotes /\ Page!Unpaid(s11.quote) /\ s2[s11.quote] # "none" /\ s6 # s11.quote
    BY <2>1, PageKnows DEF PageInv, Page!DenialIsTrue, Page!MayDeny
  <2>3. /\ Page!Error(s11.quote, "busy") \in PageCard /\ Page!Error(s11.quote, "busy").kind = "error"
        /\ Page!Error(s11.quote, "busy").quote = s11.quote
    BY <2>2, PageCards DEF Page!Whys
  <2>4. QED
    BY <1>1, <2>1, <2>2, <2>3, PageShows
<1>5. CASE e.kind = "completed" /\ s11' # s11
  <2>1. s11' = Page!Card("completed", e.quote)
    BY <1>3, <1>5 DEF Page!AfterCompleted
  <2>2. e.quote \in Quotes => s2[e.quote] # "none" /\ s6 # e.quote
    BY <1>1, <1>5, PageValues DEF PageInv, Page!ServerIsSound, Page!NewIsUntouched
  <2>3. /\ Page!Card("completed", e.quote) \in PageCard /\ Page!Card("completed", e.quote).kind = "completed"
        /\ Page!Card("completed", e.quote).quote = e.quote
    BY <1>1, PageCards DEF Page!Kinds
  <2>4. QED
    BY <1>1, <2>1, <2>2, <2>3, PageShows
<1>6. CASE e.kind = "canceled" /\ s11' # s11
  <2>1. s11' = Page!Error(e.quote, "canceled") /\ s11.quote = e.quote
    BY <1>3, <1>6 DEF Page!AfterCanceled
  <2>2. /\ Page!Error(e.quote, "canceled") \in PageCard /\ Page!Error(e.quote, "canceled").kind = "error"
        /\ Page!Error(e.quote, "canceled").quote = e.quote /\ Page!Error(e.quote, "canceled").why = "canceled"
    BY <1>1, PageCards DEF Page!Whys
  <2>3. QED
    BY <1>1, <2>1, <2>2, PageKnows, PageShows
<1>7. CASE e.kind = "quote:canceled" /\ s11' # s11
  <2>1. s11' = Page!Error(e.quote, "dead") /\ s11.quote = e.quote
    <3>1. e.quote \in Quotes /\ e.quote # None
      BY <1>7, PageValues DEF PageInv, Page!ServerIsSound
    <3>2. QED
      BY <1>3, <1>7, <3>1 DEF Page!AfterQuoteCanceled, Page!QuoteOf
  <2>2. e.quote \in Quotes /\ Page!Unpaid(e.quote)
    BY <1>7 DEF PageInv, Page!ServerIsSound, Page!Unpaid, Page!Undecidable
  <2>3. /\ Page!Error(e.quote, "dead") \in PageCard /\ Page!Error(e.quote, "dead").kind = "error"
        /\ Page!Error(e.quote, "dead").quote = e.quote
    BY <1>1, PageCards DEF Page!Whys
  <2>4. QED
    BY <1>1, <2>1, <2>2, <2>3, PageKnows, PageShows
<1>8. QED
  BY <1>1, <1>2, <1>4, <1>5, <1>6, <1>7

LEMMA PageMisses ==
  ASSUME s1, PageInv, Page!LoseNews PROVE PageInv'
<1>1. UNCHANGED <<s1, s2, s3, s4, s6, s7, s8, s9, s10, s11>> /\ s5' \subseteq s5
  BY DEF Page!LoseNews, Page!server, Page!asked
<1>2. Page!MayDeny /\ s11.quote \in Quotes => Page!Unpaid(s11.quote)
  BY DEF PageInv, Page!DenialIsTrue
<1>3. QED
  BY <1>1, <1>2, PageKnows, PageShows DEF Page!MayDeny

(* The server's own steps: no quote is charged in them, and one that dies   *)
(* was open until then, hence not paid.                                     *)
LEMMA PageServes ==
  ASSUME s1, PageInv, UNCHANGED <<s1, s3, s7, s8, s9, s10, s11>>, s2' \in [Quotes -> Page!Statuses],
         s4' \in s3 \union {None, Other}, s6' \in Quotes \union {None, Asked, Refused},
         NEW e \in [kind : {"activated", "completed", "canceled", "quote:canceled"}, quote : Quotes \union {Other}],
         s5' \subseteq s5 \union {e}, e.kind = "completed" => e.quote \in s3 \union {Other},
         e.kind = "quote:canceled" => e.quote \in Quotes /\ s2'[e.quote] = "dead",
         \A q \in Quotes : s2[q] = "dead" => s2'[q] = "dead",
         \A q \in s3 : s2'[q] \in {"active", "completed", "canceled"},
         \A q \in Quotes : s2[q] # "none" => s2'[q] # "none",
         s6' \in Quotes => s2'[s6'] # "none" /\ (s6' = s6 \/ s2[s6'] = "none")
  PROVE  PageInv'
<1> USE PageValues
<1>1. Page!PageIsTyped'
  BY DEF PageInv, Page!PageIsTyped
<1>2. Page!ServerIsSound'
  BY DEF PageInv, Page!ServerIsSound
<1>3. Page!NewIsUntouched'
  BY DEF PageInv, Page!NewIsUntouched
<1>4. Page!RefusalIsTrue'
  BY DEF PageInv, Page!PageIsTyped, Page!RefusalIsTrue, Page!Undecidable, Page!NoRequest
<1>5. Page!DenialIsTrue'
  BY DEF PageInv, Page!DenialIsTrue, Page!MayDeny, Page!Unpaid, Page!Undecidable
<1>6. QED
  BY <1>1, <1>2, <1>3, <1>4, <1>5 DEF PageInv

(* The event of a server's step, and a step that has none.                  *)
LEMMA PageAnnounces ==
  ASSUME NEW kind \in {"activated", "completed", "canceled", "quote:canceled"},
         NEW q \in Quotes \union {Other},
         Page!Announce(kind, q)
  PROVE  \E e \in [kind : {"activated", "completed", "canceled", "quote:canceled"}, quote : Quotes \union {Other}] :
           e.kind = kind /\ e.quote = q /\ s5' \subseteq s5 \union {e}
BY DEF Page!Announce

LEMMA PageRuns ==
  ASSUME s1, PageInv, Page!Price \/ Page!OtherJob \/ (\E q \in Quotes : Page!Dies(q))
                      \/ \E how \in {"completed", "canceled"} : Page!EndJob(how)
  PROVE  PageInv'
<1> DEFINE Events == [kind : {"activated", "completed", "canceled", "quote:canceled"}, quote : Quotes \union {Other}]
<1>1. /\ s2 \in [Quotes -> Page!Statuses] /\ s4 \in s3 \union {None, Other} /\ s3 \subseteq Quotes
      /\ s6 \in Quotes \union {None, Asked, Refused}
      /\ \A q \in s3 : s2[q] \in {"active", "completed", "canceled"}
      /\ s6 \in Quotes => s2[s6] # "none"
  BY DEF PageInv, Page!PageIsTyped, Page!ServerIsSound, Page!NewIsUntouched
<1>2. CASE Page!Price
  <2>1. /\ UNCHANGED <<s1, s3, s4, s5, s7, s8, s9, s10, s11>>
        /\ \/ s6' = Refused /\ s2' = s2
           \/ \E q \in Quotes : /\ s2[q] = "none" /\ s6' = q
                /\ s2' = [r \in Quotes |-> IF r = q THEN "live" ELSE IF Page!Open(r) THEN "dead" ELSE s2[r]]
    BY <1>2 DEF Page!Price
  <2>2. PICK e \in Events : e.kind = "activated"
    <3>1. [kind |-> "activated", quote |-> Other] \in Events
      OBVIOUS
    <3>2. QED
      BY <3>1
  <2>3. CASE s6' = Refused /\ s2' = s2
    <3>1. s2' \in [Quotes -> Page!Statuses] /\ s6' \notin Quotes
      BY <1>1, <2>3, PageValues
    <3>2. /\ \A r \in Quotes : s2[r] = "dead" => s2'[r] = "dead"
          /\ \A r \in s3 : s2'[r] \in {"active", "completed", "canceled"}
          /\ \A r \in Quotes : s2[r] # "none" => s2'[r] # "none"
      BY <1>1, <2>3
    <3>3. QED
      BY <1>1, <2>1, <2>2, <2>3, <3>1, <3>2, PageServes
  <2>4. CASE \E q \in Quotes : /\ s2[q] = "none" /\ s6' = q
                /\ s2' = [r \in Quotes |-> IF r = q THEN "live" ELSE IF Page!Open(r) THEN "dead" ELSE s2[r]]
    <3>1. PICK q \in Quotes : /\ s2[q] = "none" /\ s6' = q
                /\ s2' = [r \in Quotes |-> IF r = q THEN "live" ELSE IF Page!Open(r) THEN "dead" ELSE s2[r]]
      BY <2>4
    <3>2. s2' \in [Quotes -> Page!Statuses]
      BY <1>1, <3>1 DEF Page!Statuses
    <3>3. /\ \A r \in Quotes : s2[r] = "dead" => s2'[r] = "dead"
          /\ \A r \in s3 : s2'[r] \in {"active", "completed", "canceled"}
          /\ \A r \in Quotes : s2[r] # "none" => s2'[r] # "none"
          /\ s2'[q] # "none"
      BY <1>1, <3>1 DEF Page!Open
    <3>4. QED
      BY <1>1, <2>1, <2>2, <3>1, <3>2, <3>3, PageServes
  <2>5. QED
    BY <2>1, <2>3, <2>4
<1>3. CASE Page!OtherJob
  <2>1. /\ UNCHANGED <<s1, s2, s3, s6, s7, s8, s9, s10, s11>> /\ s4' = Other /\ Page!Announce("activated", Other)
    BY <1>3 DEF Page!OtherJob, Page!asked
  <2>2. PICK e \in Events : e.kind = "activated" /\ s5' \subseteq s5 \union {e}
    BY <2>1, PageAnnounces DEF Events
  <2>3. QED
    BY <1>1, <2>1, <2>2, PageServes
<1>4. ASSUME NEW q \in Quotes, Page!Dies(q) PROVE PageInv'
  <2>1. /\ UNCHANGED <<s1, s3, s4, s6, s7, s8, s9, s10, s11>> /\ Page!Open(q)
        /\ s2' = [s2 EXCEPT ![q] = "dead"] /\ Page!Announce("quote:canceled", q)
    BY <1>4 DEF Page!Dies, Page!asked
  <2>2. PICK e \in Events : e.kind = "quote:canceled" /\ e.quote = q /\ s5' \subseteq s5 \union {e}
    BY <2>1, PageAnnounces DEF Events
  <2>3. s2' \in [Quotes -> Page!Statuses]
    BY <1>1, <2>1 DEF Page!Statuses
  <2>4. /\ \A r \in Quotes : s2[r] = "dead" => s2'[r] = "dead"
        /\ \A r \in s3 : s2'[r] \in {"active", "completed", "canceled"}
        /\ \A r \in Quotes : s2[r] # "none" => s2'[r] # "none"
        /\ s2'[q] = "dead"
    BY <1>1, <2>1 DEF Page!Open
  <2>5. QED
    BY <1>1, <2>1, <2>2, <2>3, <2>4, PageServes
<1>5. ASSUME NEW how \in {"completed", "canceled"}, Page!EndJob(how) PROVE PageInv'
  <2>1. /\ UNCHANGED <<s1, s3, s6, s7, s8, s9, s10, s11>> /\ s4 # None /\ s4' = None
        /\ s2' = IF s4 \in Quotes THEN [s2 EXCEPT ![s4] = how] ELSE s2
        /\ Page!Announce(how, s4)
    BY <1>5 DEF Page!EndJob, Page!asked
  <2>2. PICK e \in Events : e.kind = how /\ e.quote = s4 /\ s5' \subseteq s5 \union {e}
    BY <1>1, <2>1, PageAnnounces DEF Events
  <2>3. s2' \in [Quotes -> Page!Statuses]
    BY <1>1, <2>1 DEF Page!Statuses
  <2>4. /\ \A r \in Quotes : s2[r] = "dead" => s2'[r] = "dead"
        /\ \A r \in s3 : s2'[r] \in {"active", "completed", "canceled"}
        /\ \A r \in Quotes : s2[r] # "none" => s2'[r] # "none"
    BY <1>1, <2>1, PageValues
  <2>5. s4 \in s3 \union {Other}
    BY <1>1, <2>1
  <2>6. QED
    BY <1>1, <1>5, <2>1, <2>2, <2>3, <2>4, <2>5, PageServes
<1>6. QED
  BY <1>2, <1>3, <1>4, <1>5

(* What the purchase endpoint may do to a quote.                            *)
LEMMA PageDecides ==
  ASSUME s1, PageInv, NEW q \in Quotes, NEW a \in Page!Answers, Page!Decide(q, a)
  PROVE  /\ s2' \in [Quotes -> Page!Statuses] /\ s3' \subseteq Quotes /\ Page!ServerIsSound'
         /\ \A r \in Quotes : s2[r] # "none" => s2'[r] # "none"
         /\ \A r \in Quotes : s2[r] = "dead" => s2'[r] = "dead" /\ (r \in s3' => r \in s3)
         /\ s3' \subseteq s3 \union {q} /\ (a # "active" => s3' = s3)
         /\ s3' = s3 \/ s2[q] \in {"live", "waiting"}
         /\ a \in {"refused", "poor"} => q \notin s3
<1> DEFINE Events == [kind : {"activated", "completed", "canceled", "quote:canceled"}, quote : Quotes \union {Other}]
<1>1. /\ s2 \in [Quotes -> Page!Statuses] /\ s4 \in s3 \union {None, Other} /\ s3 \subseteq Quotes
      /\ \A r \in s3 : s2[r] \in {"active", "completed", "canceled"}
  BY DEF PageInv, Page!PageIsTyped, Page!ServerIsSound
<1>2. CASE a = "active" /\ Page!Charge(q)
  <2>1. /\ Page!Open(q) /\ s4' = q /\ s3' = s3 \union {q} /\ s2' = [s2 EXCEPT ![q] = "active"]
        /\ Page!Announce("activated", q)
    BY <1>2 DEF Page!Charge
  <2>2. PICK e \in Events : e.kind = "activated" /\ s5' \subseteq s5 \union {e}
    BY <2>1, PageAnnounces DEF Events
  <2>3. s2' \in [Quotes -> Page!Statuses] /\ s2[q] # "dead"
    BY <1>1, <2>1 DEF Page!Statuses, Page!Open
  <2>4. Page!ServerIsSound'
    BY <1>1, <2>1, <2>2, <2>3 DEF PageInv, Page!ServerIsSound
  <2>5. QED
    BY <1>1, <1>2, <2>1, <2>3, <2>4 DEF Page!Open
<1>3. CASE UNCHANGED <<s2, s3, s4, s5>> /\ (a \in {"refused", "poor"} => q \notin s3)
  BY <1>1, <1>3 DEF PageInv, Page!ServerIsSound
<1>4. QED
  <2>1. CASE a = "active"
    BY <1>2, <1>3, <2>1, PageValues DEF Page!Decide, Page!server
  <2>2. CASE a # "active"
    BY <1>3, <2>2, PageValues DEF Page!Decide, Page!server
  <2>3. QED
    BY <2>1, <2>2

LEMMA PageAnswers ==
  ASSUME s1, PageInv, Page!DecidePurchase PROVE PageInv'
<1> DEFINE q == s7.quote
<1>1. /\ UNCHANGED <<s1, s6, s8, s9, s11>> /\ s7 # Page!NoRequest /\ s7.answer = Asked
  BY PageValues DEF Page!DecidePurchase, Page!NoRequest
<1>2. /\ q \in Quotes /\ s7 \in [quote : Quotes, answer : Page!Answers \union {Asked}, unsure : BOOLEAN]
      /\ s2[q] # "none" /\ s6 # q
  BY <1>1, PageKnows DEF PageInv, Page!PageIsTyped
<1>3. PICK a \in Page!Answers :
        /\ Page!Decide(q, a) /\ s7' = [s7 EXCEPT !.answer = a]
        /\ s10' = IF a \in {"refused", "poor"} /\ q \in s9 THEN s10 \union {q} ELSE s10
  BY DEF Page!DecidePurchase
<1>4. /\ s7' \in [quote : Quotes, answer : Page!Answers \union {Asked}, unsure : BOOLEAN]
      /\ s7'.quote = q /\ s7'.answer = a /\ s7'.unsure = s7.unsure /\ a # Asked
  BY <1>2, <1>3, PageValues DEF Page!Answers
<1>5. /\ s2' \in [Quotes -> Page!Statuses] /\ s3' \subseteq Quotes /\ Page!ServerIsSound'
      /\ \A r \in Quotes : s2[r] # "none" => s2'[r] # "none"
      /\ \A r \in Quotes : s2[r] = "dead" => s2'[r] = "dead" /\ (r \in s3' => r \in s3)
      /\ s3' \subseteq s3 \union {q} /\ (a # "active" => s3' = s3)
      /\ a \in {"refused", "poor"} => q \notin s3
  BY <1>2, <1>3, PageDecides
<1>6. Page!PageIsTyped'
  BY <1>1, <1>4, <1>5 DEF PageInv, Page!PageIsTyped
<1>7. Page!NewIsUntouched'
  BY <1>1, <1>2, <1>4, <1>5, PageKnows DEF PageInv, Page!NewIsUntouched, Page!PageIsTyped
<1>8. Page!RefusalIsTrue'
  <2>1. CASE a \in {"refused", "poor"}
    BY <1>1, <1>3, <1>4, <1>5, <2>1 DEF Page!RefusalIsTrue, Page!Undecidable
  <2>2. CASE a \in {"limited", "identity"}
    BY <1>1, <1>2, <1>3, <1>4, <1>5, <2>2 DEF PageInv, Page!RefusalIsTrue, Page!Undecidable
  <2>3. CASE a \notin {"refused", "poor", "limited", "identity"}
    BY <1>4, <2>3 DEF Page!RefusalIsTrue
  <2>4. QED
    BY <2>1, <2>2, <2>3
<1>9. Page!DenialIsTrue'
  <2> SUFFICES ASSUME Page!MayDeny, s11.quote \in Quotes PROVE Page!Unpaid(s11.quote)'
    BY <1>1 DEF Page!DenialIsTrue, Page!MayDeny
  <2>1. Page!Unpaid(s11.quote)
    BY DEF PageInv, Page!DenialIsTrue
  <2>2. CASE s11.quote \in s10
    BY <1>1, <1>3, <2>2 DEF Page!Unpaid
  <2>3. CASE s11.quote \notin s10 /\ s11.quote \notin s3 /\ Page!Undecidable(s11.quote)
    <3>1. s11.quote \notin s3' /\ Page!Undecidable(s11.quote)'
      BY <1>1, <1>5, <2>1, <2>3 DEF Page!Unpaid, Page!Undecidable
    <3>2. QED
      BY <1>1, <1>4, <3>1 DEF Page!Unpaid
  <2>4. QED
    BY <2>1, <2>2, <2>3 DEF Page!Unpaid
<1>10. QED
  BY <1>5, <1>6, <1>7, <1>8, <1>9 DEF PageInv

LEMMA PageAnswersLate ==
  ASSUME s1, PageInv, NEW q \in Quotes, Page!DecideOrphan(q) PROVE PageInv'
<1>1. /\ UNCHANGED <<s1, s6, s7, s8, s10, s11>> /\ q \in s9 /\ s9' = s9 \ {q}
  BY DEF Page!DecideOrphan
<1>2. /\ s2' \in [Quotes -> Page!Statuses] /\ s3' \subseteq Quotes /\ Page!ServerIsSound'
      /\ \A r \in Quotes : s2[r] # "none" => s2'[r] # "none"
      /\ \A r \in Quotes : s2[r] = "dead" => s2'[r] = "dead" /\ (r \in s3' => r \in s3)
      /\ s3' \subseteq s3 \union {q}
  BY PageDecides DEF Page!DecideOrphan
<1>3. Page!PageIsTyped'
  BY <1>1, <1>2 DEF PageInv, Page!PageIsTyped
<1>4. Page!NewIsUntouched'
  BY <1>1, <1>2 DEF PageInv, Page!NewIsUntouched, Page!PageIsTyped
<1>5. ASSUME NEW r \in Quotes, r \notin s3, Page!Undecidable(r) PROVE r \notin s3' /\ Page!Undecidable(r)'
  BY <1>1, <1>2, <1>5 DEF Page!Undecidable
<1>6. Page!RefusalIsTrue'
  BY <1>1, <1>5 DEF PageInv, Page!RefusalIsTrue, Page!PageIsTyped
<1>7. Page!DenialIsTrue'
  BY <1>1, <1>2, <1>5 DEF PageInv, Page!DenialIsTrue, Page!MayDeny, Page!Unpaid
<1>8. QED
  BY <1>2, <1>3, <1>4, <1>6, <1>7 DEF PageInv

LEMMA PageLoses ==
  ASSUME s1, PageInv, Page!LoseAnswer PROVE PageInv'
<1>1. /\ UNCHANGED <<s1, s2, s3, s4, s5, s6, s8, s10, s11>> /\ s7 # Page!NoRequest
      /\ s7' = [s7 EXCEPT !.answer = Lost]
      /\ s9' = IF s7.answer = Asked THEN s9 \union {s7.quote} ELSE s9
  BY DEF Page!LoseAnswer, Page!server, Page!NoRequest
<1>2. /\ s7 \in [quote : Quotes, answer : Page!Answers \union {Asked}, unsure : BOOLEAN]
      /\ s7.quote \in Quotes /\ s2[s7.quote] # "none" /\ s6 # s7.quote
  BY <1>1, PageKnows DEF PageInv, Page!PageIsTyped
<1>3. /\ s7' \in [quote : Quotes, answer : Page!Answers \union {Asked}, unsure : BOOLEAN]
      /\ s7'.quote = s7.quote /\ s7'.answer = Lost
  BY <1>1, <1>2 DEF Page!Answers
<1>4. Page!PageIsTyped'
  BY <1>1, <1>2, <1>3 DEF PageInv, Page!PageIsTyped
<1>5. Page!ServerIsSound'
  BY <1>1 DEF PageInv, Page!ServerIsSound
<1>6. Page!NewIsUntouched'
  BY <1>1, <1>2, <1>3 DEF PageInv, Page!NewIsUntouched
<1>7. Page!RefusalIsTrue'
  BY <1>3, PageValues DEF Page!RefusalIsTrue
<1>8. Page!DenialIsTrue'
  BY <1>1, <1>2, <1>3, PageValues DEF PageInv, Page!DenialIsTrue, Page!MayDeny, Page!Unpaid,
     Page!Undecidable
<1>9. QED
  BY <1>4, <1>5, <1>6, <1>7, <1>8 DEF PageInv

(* Nothing waits for Channel Points, and nothing is confirmed.              *)
LEMMA PageIsQuiet ==
  ASSUME s1, PageInv
  PROVE  ~Page!Redeem /\ ~Page!DecideConfirm /\ ~Page!HandleConfirm /\ ~Page!TakeConfirm
<1>1. ~Page!Redeem
  BY DEF PageInv, Page!PageIsTyped, Page!Statuses, Page!Redeem
<1>2. s8.answer = None
  BY DEF PageInv, Page!PageIsTyped, Page!NoRequest
<1>3. ~Page!DecideConfirm /\ ~Page!TakeConfirm
  BY <1>2, PageValues DEF Page!DecideConfirm, Page!TakeConfirm
<1>4. ~Page!HandleConfirm
  BY PageSays DEF PageInv, Page!HandleConfirm
<1>5. QED
  BY <1>1, <1>3, <1>4

LEMMA PageStep ==
  ASSUME s1, PageInv, Page!Next PROVE PageInv'
<1>1. CASE Page!DecidePurchase \/ Page!LoseAnswer \/ \E q \in Quotes : Page!DecideOrphan(q)
  BY <1>1, PageAnswers, PageAnswersLate, PageLoses
<1>2. CASE Page!Price \/ Page!OtherJob \/ (\E q \in Quotes : Page!Dies(q))
           \/ \E how \in {"completed", "canceled"} : Page!EndJob(how)
  BY <1>2, PageRuns
<1>3. CASE Page!HandlePick \/ Page!HandleRequote \/ Page!HandleCancel \/ Page!HandleClose \/ Page!HandlePurchase
  BY <1>3, PageClicks, PageBuys
<1>4. CASE Page!TakePrice \/ Page!TakePurchase \/ Page!LoseNews \/ \E e \in s5 : Page!Receive(e)
  BY <1>4, PageTakesPrice, PageTakesPurchase, PageMisses, PageReceives
<1>5. QED
  BY <1>1, <1>2, <1>3, <1>4, PageIsQuiet DEF Page!Next

(* The payment mode does not change while a page is open.                   *)
LEMMA PageKeepsMode ==
  ASSUME Page!Next PROVE s1' = s1
BY DEF Page!Next, Page!Price, Page!DecidePurchase, Page!LoseAnswer, Page!DecideConfirm, Page!Redeem,
       Page!OtherJob, Page!DecideOrphan, Page!Dies, Page!EndJob, Page!HandlePick, Page!HandleRequote,
       Page!HandlePurchase, Page!HandleConfirm, Page!HandleCancel, Page!HandleClose, Page!TakePrice,
       Page!TakePurchase, Page!TakeConfirm, Page!Receive, Page!LoseNews

LEMMA PageDenies ==
  ASSUME s1 => PageInv PROVE Page!PaidIsNotDenied
<1>1. SUFFICES ASSUME s1, Page!Denied PROVE s11.quote \notin s3 \ s10
  BY DEF Page!PaidIsNotDenied
<1>2. Page!MayDeny
  BY <1>1, PageSays DEF PageInv
<1>3. QED
  BY <1>1, <1>2 DEF PageInv, Page!PageIsTyped, Page!DenialIsTrue, Page!Unpaid

-----------------------------------------------------------------------------
(* The form of the settings: SettingsForm.                                  *)

SetInv == Set!FormIsTyped /\ Set!DirtyIsTyped

(* What is stored are numbers, also after they were brought into order.     *)
LEMMA SetNormal ==
  ASSUME NEW c \in Set!Stored PROVE Set!Normalise(c) \in Set!Stored
<1>1. Set!Greater(c["maximumCost"], c["minimumCost"]) \in Int
  BY DEF Set!Stored, Set!Fields, Set!Greater
<1>2. QED
  BY <1>1 DEF Set!Stored, Set!Fields, Set!Normalise

(* The form is empty until it has read the settings.                        *)
LEMMA SetBegins ==
  ASSUME Set!Init PROVE SetInv
<1>1. Set!Defaults \in Set!Stored
  <2>1. \E v \in Values : \A w \in Values : v <= w
    BY PartsAssumption
  <2>2. PICK d : d = CHOOSE v \in Values : \A w \in Values : v <= w
    OBVIOUS
  <2>3. d \in Int
    BY <2>1, <2>2, PartsAssumption
  <2>4. Set!Defaults = [f \in Set!Fields |-> d]
    BY <2>2 DEF Set!Defaults
  <2>5. QED
    BY <2>3, <2>4 DEF Set!Stored
<1>2. s10 \in [Loads -> Set!Stored \union {None, Asked, Lost}]
  BY DEF Set!Init
<1>3. s1 \in Set!Stored /\ s3 = None /\ s4 = None /\ s5 = {} /\ s6 = None /\ s7 = None /\ s11 = None
  BY <1>1 DEF Set!Init
<1>4. Set!FormIsTyped
  BY <1>2, <1>3 DEF Set!FormIsTyped
<1>5. QED
  BY <1>3, <1>4 DEF SetInv, Set!DirtyIsTyped, Set!Dirty

(* A form that takes over a copy has changed nothing in it.                 *)
LEMMA SetAdopts ==
  ASSUME NEW s \in Set!Stored, Set!Adopt(s)
  PROVE  /\ s6' \in Set!Stored /\ s7' \in [Set!Fields -> Int \union {Half}]
         /\ Set!DirtyIsTyped'
<1>1. s6' = s /\ s7' = s /\ s12' = {} /\ s # None
  BY PartsAssumption DEF Set!Adopt, Set!Stored, Set!Fields
<1>2. \A f \in Set!Fields : s7'[f] = s6'[f]
  BY <1>1
<1>3. Set!DirtyIsTyped'
  BY <1>1, <1>2 DEF Set!DirtyIsTyped, Set!Dirty
<1>4. QED
  BY <1>1, <1>3 DEF Set!Stored

(* A field that differs from the form's copy was changed by hand.           *)
LEMMA SetStep ==
  ASSUME SetInv, Set!Next PROVE SetInv'
<1> USE DEF SetInv, Set!FormIsTyped
<1>u. ASSUME UNCHANGED <<s6, s7, s12>> PROVE Set!DirtyIsTyped'
  BY <1>u DEF Set!DirtyIsTyped, Set!Dirty
<1>a. ASSUME UNCHANGED <<s6, s7, s12>> \/ \E s \in Set!Stored : Set!Adopt(s)
      PROVE  /\ s6' \in Set!Stored \union {None}
             /\ s7' \in [Set!Fields -> Int \union {Half}] \union {None} /\ Set!DirtyIsTyped'
  BY <1>a, <1>u, SetAdopts
<1>o. ASSUME NEW s \in Set!Stored, Set!OfferExternal(s)
      PROVE  /\ s3' = s /\ s6' \in Set!Stored \union {None}
             /\ s7' \in [Set!Fields -> Int \union {Half}] \union {None} /\ Set!DirtyIsTyped'
  BY <1>o, <1>a DEF Set!OfferExternal
<1>1. ASSUME NEW l \in Loads, Set!Load(l) \/ Set!ReadLoad(l) PROVE SetInv'
  <2>1. UNCHANGED <<s1, s3, s4, s5, s6, s7, s11, s12>> /\ s10' \in [Loads -> Set!Stored \union {None, Asked, Lost}]
    BY <1>1 DEF Set!Load, Set!ReadLoad
  <2>2. QED
    BY <2>1, <1>u
<1>2. ASSUME NEW l \in Loads, Set!TakeLoad(l) PROVE SetInv'
  <2>1. UNCHANGED <<s1, s3, s4, s5, s11>> /\ s10' \in [Loads -> Set!Stored \union {None, Asked, Lost}]
    BY <1>2 DEF Set!TakeLoad
  <2>2. UNCHANGED <<s6, s7, s12>> \/ \E s \in Set!Stored : Set!Adopt(s)
    BY <1>2 DEF Set!TakeLoad
  <2>3. QED
    BY <2>1, <2>2, <1>a
<1>3. ASSUME NEW f \in Set!Fields, NEW v \in Values \union {Half}, Set!SetField(f, v) PROVE SetInv'
  <2>1. /\ UNCHANGED <<s1, s3, s4, s5, s6, s10, s11>> /\ s7 # None
        /\ s7' = [s7 EXCEPT ![f] = v] /\ s12' = s12 \union {f} /\ v \in Int \union {Half}
    BY <1>3, PartsAssumption DEF Set!SetField
  <2>2. /\ s7' \in [Set!Fields -> Int \union {Half}] /\ \A g \in Set!Fields \ {f} : s7'[g] = s7[g]
    BY <2>1
  <2>3. s6 # None
    BY <2>1 DEF Set!DirtyIsTyped
  <2>4. Set!DirtyIsTyped'
    <3>1. s6' # None /\ s7' # None
      BY <2>1, <2>2, <2>3, PartsAssumption DEF Set!Fields
    <3>2. \A g \in Set!Fields : (s7'[g] # Half /\ s7'[g] # s6'[g]) => g \in s12'
      BY <2>1, <2>2, <2>3 DEF Set!DirtyIsTyped, Set!Dirty
    <3>3. QED
      BY <3>1, <3>2 DEF Set!DirtyIsTyped, Set!Dirty
  <2>5. QED
    BY <2>1, <2>2, <2>4
<1>4. ASSUME NEW f \in Set!Fields, NEW v \in Values, Set!OtherSaves(f, v) PROVE SetInv'
  <2>1. [s1 EXCEPT ![f] = v] \in Set!Stored
    BY PartsAssumption DEF Set!Stored
  <2>2. s1' \in Set!Stored
    BY <1>4, <2>1, SetNormal DEF Set!OtherSaves
  <2>3. UNCHANGED <<s3, s4, s6, s7, s10, s11, s12>> /\ s5' = s5 \union {s1'}
    BY <1>4 DEF Set!OtherSaves, Set!page
  <2>4. QED
    BY <2>2, <2>3, <1>u
<1>5. ASSUME Set!Revert PROVE SetInv'
  <2>1. s6 \in Set!Stored /\ Set!Adopt(s6) /\ UNCHANGED <<s1, s3, s4, s5, s10, s11>>
    BY <1>5 DEF Set!Revert, Set!Dirty
  <2>2. QED
    BY <2>1, <1>a
<1>6. ASSUME Set!Save PROVE SetInv'
  <2>1. UNCHANGED <<s1, s3, s4, s5, s6, s7, s10, s12>>
    BY <1>6 DEF Set!Save
  <2>2. PICK D, P : D = Set!Dirty /\ P = [f \in D |-> s7[f]]
    OBVIOUS
  <2>3. D \subseteq Set!Fields /\ s6 # None /\ s7 # None /\ \A f \in D : s7[f] \in Int
    BY <1>6, <2>2 DEF Set!Save, Set!Dirty, Set!DirtyIsTyped
  <2>4. P \in [D -> Int]
    BY <2>2, <2>3
  <2>5. s11' = [at |-> "sent", patch |-> P, merged |-> None]
    BY <1>6, <2>2 DEF Set!Save
  <2>6. P \in UNION {[F -> Int] : F \in SUBSET Set!Fields}
    BY <2>3, <2>4
  <2>7. s11' \in Set!Puts /\ s11'.at = "sent"
    <3> DEFINE U == UNION {[F -> Int] : F \in SUBSET Set!Fields}
    <3>1. P \in U
      BY <2>6
    <3>2. Set!Puts = [at : {"sent", "merged", "answered", "failed"}, patch : U, merged : Set!Stored \union {None}]
      BY DEF Set!Puts
    <3> HIDE DEF U
    <3>3. QED
      BY <2>5, <3>1, <3>2
  <2>8. QED
    BY <2>1, <2>7, <1>u
<1>p. ASSUME NEW at, s11 \in Set!Puts, at \in {"sent", "merged", "answered", "failed"}
      PROVE  /\ [s11 EXCEPT !.at = at] \in Set!Puts /\ [s11 EXCEPT !.at = at].at = at
             /\ [s11 EXCEPT !.at = at].merged = s11.merged
  <2> DEFINE U == UNION {[F -> Int] : F \in SUBSET Set!Fields}
  <2>1. Set!Puts = [at : {"sent", "merged", "answered", "failed"}, patch : U, merged : Set!Stored \union {None}]
    BY DEF Set!Puts
  <2> HIDE DEF U
  <2>2. QED
    BY <1>p, <2>1
<1>7. ASSUME Set!MergePatch PROVE SetInv'
  <2>1. UNCHANGED <<s1, s3, s4, s5, s6, s7, s10, s12>> /\ s11 \in Set!Puts
    BY <1>7 DEF Set!MergePatch, Set!Saving
  <2>2. PICK c : c = [f \in Set!Fields |-> IF f \in DOMAIN s11.patch THEN s11.patch[f] ELSE s1[f]]
    OBVIOUS
  <2>3. c \in Set!Stored
    <3> DEFINE U == UNION {[F -> Int] : F \in SUBSET Set!Fields}
    <3>1. s11.patch \in U
      BY <2>1 DEF Set!Puts
    <3>2. PICK F \in SUBSET Set!Fields : s11.patch \in [F -> Int]
      BY <3>1
    <3>3. QED
      BY <2>2, <3>2 DEF Set!Stored
  <2>4. PICK m : m = Set!Normalise(c)
    OBVIOUS
  <2>5. m \in Set!Stored
    BY <2>3, <2>4, SetNormal
  <2>6. s11' = [s11 EXCEPT !.at = "merged", !.merged = m]
    BY <1>7, <2>2, <2>4 DEF Set!MergePatch
  <2>7. s11' \in Set!Puts /\ s11'.merged = m
    <3> DEFINE U == UNION {[F -> Int] : F \in SUBSET Set!Fields}
    <3>1. Set!Puts = [at : {"sent", "merged", "answered", "failed"}, patch : U, merged : Set!Stored \union {None}]
      BY DEF Set!Puts
    <3> HIDE DEF U
    <3>2. QED
      BY <2>1, <2>5, <2>6, <3>1
  <2>8. QED
    BY <2>1, <2>5, <2>7, <1>u
<1>8. ASSUME Set!StoreSettings PROVE SetInv'
  <2>1. /\ UNCHANGED <<s3, s4, s6, s7, s10, s12>> /\ s11 \in Set!Puts /\ s11.merged \in Set!Stored
        /\ s1' = s11.merged /\ s5' = s5 \union {s11.merged} /\ s11' = [s11 EXCEPT !.at = "answered"]
    BY <1>8 DEF Set!StoreSettings, Set!Saving
  <2>2. s11' \in Set!Puts /\ s11'.merged \in Set!Stored
    BY <1>p, <2>1
  <2>3. QED
    BY <2>1, <2>2, <1>u
<1>9. ASSUME Set!SaveFails PROVE SetInv'
  <2>1. /\ UNCHANGED <<s1, s3, s4, s5, s6, s7, s10, s12>> /\ s11 \in Set!Puts
        /\ s11' = [s11 EXCEPT !.at = "failed"]
    BY <1>9 DEF Set!SaveFails, Set!Saving
  <2>2. s11' \in Set!Puts /\ s11'.at = "failed"
    BY <1>p, <2>1
  <2>3. QED
    BY <2>1, <2>2, <1>u
<1>10. ASSUME Set!TakeSaved PROVE SetInv'
  <2>1. UNCHANGED <<s1, s5, s10>> /\ s11' = None
    BY <1>10 DEF Set!TakeSaved
  <2>2. /\ s3' \in Set!Stored \union {None} /\ s4' \in Set!Stored \union {None, Asked}
        /\ UNCHANGED <<s6, s7, s12>> \/ \E s \in Set!Stored : Set!Adopt(s)
    <3>1. CASE s11.at = "failed"
      BY <1>10, <3>1 DEF Set!TakeSaved
    <3>2. CASE s11.at # "failed"
      <4>1. s11.merged \in Set!Stored /\ Set!Adopt(s11.merged) /\ s3' = s11.merged /\ s4' \in {s4, Asked}
        BY <1>10, <3>2 DEF Set!TakeSaved, Set!Saving
      <4>2. QED
        BY <4>1
    <3>3. QED
      BY <3>1, <3>2
  <2>3. QED
    BY <2>1, <2>2, <1>a
<1>11. ASSUME Set!Poll \/ Set!ReadPoll PROVE SetInv'
  <2>1. UNCHANGED <<s1, s3, s5, s6, s7, s10, s11, s12>> /\ s4' \in Set!Stored \union {None, Asked}
    BY <1>11 DEF Set!Poll, Set!ReadPoll
  <2>2. QED
    BY <2>1, <1>u
<1>12. ASSUME Set!TakePoll PROVE SetInv'
  <2>1. s4 \in Set!Stored /\ Set!OfferExternal(s4) /\ s4' = None /\ UNCHANGED <<s1, s5, s10, s11>>
    BY <1>12 DEF Set!TakePoll
  <2>2. QED
    BY <2>1, <1>o
<1>13. ASSUME NEW s, Set!OnSettingsUpdate(s) PROVE SetInv'
  <2>1. s \in Set!Stored /\ Set!OfferExternal(s) /\ s5' \subseteq s5 /\ UNCHANGED <<s1, s4, s10, s11>>
    BY <1>13 DEF Set!OnSettingsUpdate
  <2>2. QED
    BY <2>1, <1>o
<1>14. QED
  BY <1>1, <1>2, <1>3, <1>4, <1>5, <1>6, <1>7, <1>8, <1>9, <1>10, <1>11, <1>12, <1>13 DEF Set!Next

(* A save sends the fields that differ from the form's copy.                *)
LEMMA SetSaves ==
  ASSUME Set!DirtyIsTyped, Set!Next PROVE Set!SavesOnlyWhatWasTyped
<1>1. ASSUME s11 = None, s11' # None PROVE Set!Save
  BY <1>1 DEF Set!Next, Set!Load, Set!ReadLoad, Set!TakeLoad, Set!SetField, Set!OtherSaves,
     Set!page,
     Set!Revert, Set!MergePatch, Set!StoreSettings, Set!SaveFails, Set!TakeSaved, Set!Saving, Set!Poll,
     Set!ReadPoll, Set!TakePoll, Set!OnSettingsUpdate
<1>2. ASSUME Set!Save PROVE DOMAIN s11'.patch = Set!Dirty
  <2>1. PICK P : P = [f \in Set!Dirty |-> s7[f]]
    OBVIOUS
  <2>2. s11'.patch = P
    BY <1>2, <2>1 DEF Set!Save
  <2>3. QED
    BY <2>1, <2>2
<1>3. QED
  BY <1>1, <1>2 DEF Set!SavesOnlyWhatWasTyped, Set!DirtyIsTyped

(* What leaves its variables alone leaves it alone.                         *)
LEMMA SetStays == ASSUME SetInv, UNCHANGED <<s1, s2, s3, s4, s5, s6, s7, s8, s9, s10, s11, s12, s13, s14>> PROVE SetInv'
BY DEF SetInv, Set!FormIsTyped, Set!DirtyIsTyped, Set!Dirty

-----------------------------------------------------------------------------
(* The economy's panel: EconomyForm.                                        *)

EconInv == Econ!PanelIsTyped /\ Econ!PollFollows

(* The first poll is under way, and no action has been done.                *)
LEMMA EconBegins ==
  ASSUME Econ!Init PROVE EconInv
<1>1. s2 = 1 /\ s5 = 0 /\ s7 = Asked /\ s8 = FALSE /\ s9 = None /\ s10 = 0
  BY DEF Econ!Init
<1>2. {None, Asked, Lost} \intersect Int = {} /\ None # Asked
  BY PartsAssumption
<1>3. Econ!PanelIsTyped
  <2>1. s2 \in Nat /\ s5 \in Nat /\ s10 \in Nat /\ s10 <= s2
    <3>1. s2 = 1 /\ s5 = 0 /\ s10 = 0
      BY <1>1
    <3>2. QED
      BY <3>1
  <2>2. s8 \in BOOLEAN /\ s7 \in {None, Asked, Lost} /\ s9 = None
    BY <1>1
  <2>3. QED
    BY <2>1, <2>2 DEF Econ!PanelIsTyped, Econ!Known
<1>4. Econ!PollFollows
  BY <1>1, <1>2 DEF Econ!PollFollows
<1>5. QED
  BY <1>3, <1>4 DEF EconInv

(* A poll that left before the action was done is followed by another.      *)
LEMMA EconStep ==
  ASSUME EconInv, Econ!Next PROVE EconInv'
<1> USE DEF Econ!Known
<1> DEFINE T == EconInv'
<1>n. {None, Asked, Lost} \intersect Int = {} /\ None # Asked /\ Asked # Lost /\ None # Lost
  BY PartsAssumption
<1>b. /\ s2 \in Nat /\ s5 \in Nat /\ s10 \in Nat /\ s10 <= s2 /\ s8 \in BOOLEAN
      /\ s7 \in {None, Asked, Lost} \/ (s7 \in Nat /\ s7 <= s2)
      /\ s9 # None => DOMAIN s9 = {"kind", "at", "value", "made"} /\ s9.made \in Nat /\ s9.made <= s2
      /\ s7 = None => s5 >= s10 \/ s6
      /\ s7 \in Nat => s7 >= s10 \/ s8
  BY DEF EconInv, Econ!PanelIsTyped, Econ!PollFollows
<1>e. ASSUME s2' \in Nat, s5' \in Nat, s10' \in Nat, s10' <= s2', s8' \in BOOLEAN,
             s7' \in {None, Asked, Lost} \/ (s7' \in Nat /\ s7' <= s2'),
             s9' # None => DOMAIN s9' = {"kind", "at", "value", "made"} /\ s9'.made \in Nat /\ s9'.made <= s2',
             s7' = None => s5' >= s10' \/ s6',
             s7' \in Nat => s7' >= s10' \/ s8'
      PROVE  T
  BY <1>e DEF EconInv, Econ!PanelIsTyped, Econ!PollFollows
<1>u. ASSUME UNCHANGED <<s2, s5, s6, s7, s8, s9, s10>> PROVE T
  BY <1>b, <1>e, <1>u
<1>t. ASSUME Econ!Tick(TRUE), UNCHANGED <<s2, s5, s6>>, s9' = None, s10' \in Nat, s10' <= s2 PROVE T
  <2>1. CASE s7 = None
    <3>1. s7' = Asked /\ UNCHANGED s8
      BY <1>t, <2>1 DEF Econ!Tick
    <3>2. QED
      BY <1>b, <1>e, <1>n, <1>t, <3>1
  <2>2. CASE s7 # None
    <3>1. s8' = TRUE /\ UNCHANGED s7
      BY <1>t, <2>2 DEF Econ!Tick, Econ!Again
    <3>2. QED
      BY <1>b, <1>e, <1>n, <1>t, <2>2, <3>1
  <2>3. QED
    BY <2>1, <2>2
<1>1. ASSUME Econ!TimerTick PROVE T
  <2>1. s7' = Asked /\ UNCHANGED <<s2, s5, s6, s8, s9, s10>>
    BY <1>1 DEF Econ!TimerTick, Econ!Tick, Econ!server
  <2>2. QED
    BY <1>b, <1>e, <1>n, <2>1
<1>2. ASSUME Econ!ReadEconomy PROVE T
  <2>1. s7' \in {s2, Lost} /\ UNCHANGED <<s2, s5, s6, s8, s9, s10>>
    BY <1>2 DEF Econ!ReadEconomy, Econ!server
  <2>2. QED
    BY <1>b, <1>e, <1>n, <2>1
<1>3. ASSUME Econ!TakeEconomy PROVE T
  <2>1. /\ s7 \notin {None, Asked} /\ s6' = (s7 = Lost) /\ s5' = (IF s7 = Lost THEN s5 ELSE s7)
        /\ s7' = (IF s8 THEN Asked ELSE None) /\ s8' = FALSE /\ UNCHANGED <<s2, s9, s10>>
    BY <1>3 DEF Econ!TakeEconomy, Econ!server
  <2>2. s8' \in BOOLEAN /\ s7' \in {None, Asked} /\ s5' \in Nat
    BY <1>b, <1>n, <2>1
  <2>3. s7' = None => s5' >= s10' \/ s6'
    <3>1. CASE s7 = Lost
      BY <2>1, <3>1, ZenonT(60)
    <3>2. CASE s7 # Lost /\ s8 = FALSE
      <4>1. s7 \in Nat /\ s7 >= s10 /\ s5' = s7
        BY <1>b, <2>1, <3>2
      <4>2. QED
        BY <2>1, <4>1
    <3>3. CASE s8 = TRUE
      BY <1>n, <2>1, <3>3
    <3>4. QED
      BY <1>b, <3>1, <3>2, <3>3
  <2>4. s7' \notin Nat
    BY <1>n, <2>2
  <2>5. QED
    BY <1>b, <1>e, <2>1, <2>2, <2>3, <2>4
<1>4. ASSUME NEW v, Econ!SetField(v) PROVE T
  BY <1>4, <1>u DEF Econ!SetField, Econ!server, Econ!refresh
<1>5. ASSUME NEW v, Econ!Elsewhere(v) PROVE T
  <2>1. s2' = s2 + 1 /\ UNCHANGED <<s5, s6, s7, s8, s9, s10>>
    BY <1>5 DEF Econ!Elsewhere, Econ!refresh
  <2>2. QED
    BY <1>b, <1>e, <2>1
<1>6. ASSUME Econ!Revert \/ Econ!HoldEnds \/ Econ!PollState \/ Econ!TakeState PROVE T
  BY <1>6, <1>u DEF Econ!Revert, Econ!HoldEnds, Econ!PollState, Econ!TakeState, Econ!server,
     Econ!refresh
<1>7. ASSUME Econ!Save \/ Econ!Sync PROVE T
  <2>1. UNCHANGED <<s2, s5, s6, s7, s8, s10>> /\ \E kind, value : Econ!Begin(kind, value)
    BY <1>7 DEF Econ!Save, Econ!Sync, Econ!server, Econ!refresh
  <2>2. DOMAIN s9' = {"kind", "at", "value", "made"} /\ s9'.made = 0
    BY <2>1 DEF Econ!Begin
  <2>3. QED
    BY <1>b, <1>e, <2>1, <2>2
<1>8. ASSUME Econ!Commit PROVE T
  <2>1. /\ s9 # None /\ s2' = s2 + 1 /\ s9' = [s9 EXCEPT !.at = "done", !.made = s2']
        /\ UNCHANGED <<s5, s6, s7, s8, s10>>
    BY <1>8 DEF Econ!Commit, Econ!refresh
  <2>2. DOMAIN s9' = {"kind", "at", "value", "made"} /\ s9'.made = s2'
    BY <1>b, <2>1
  <2>3. QED
    BY <1>b, <1>e, <2>1, <2>2
<1>9. ASSUME Econ!Answered PROVE T
  <2>1. s9 # None /\ Econ!Tick(TRUE) /\ s9' = None /\ s10' = s9.made /\ UNCHANGED <<s2, s5, s6>>
    BY <1>9 DEF Econ!Answered, Econ!server
  <2>2. QED
    BY <1>b, <1>t, <2>1
<1>10. ASSUME Econ!Fails PROVE T
  <2>1. s9 # None /\ Econ!Tick(TRUE) /\ s9' = None /\ s10' \in {s9.made, s10} /\ UNCHANGED <<s2, s5, s6>>
    BY <1>10 DEF Econ!Fails, Econ!server
  <2>2. QED
    BY <1>b, <1>t, <2>1
<1>11. QED
  BY <1>1, <1>2, <1>3, <1>4, <1>5, <1>6, <1>7, <1>8, <1>9, <1>10 DEF Econ!Next

(* A panel at rest shows what was read after the last action, or says that  *)
(* it is old.                                                               *)
LEMMA EconRests ==
  ASSUME EconInv PROVE Econ!RefreshIsAfterAction
BY DEF EconInv, Econ!PollFollows, Econ!RefreshIsAfterAction

(* What leaves its variables alone leaves it alone.                         *)
LEMMA EconStays == ASSUME EconInv, UNCHANGED <<s1, s2, s3, s4, s5, s6, s7, s8, s9, s10, s11, s12, s13, s14, s15>> PROVE EconInv'
BY DEF EconInv, Econ!PanelIsTyped, Econ!PollFollows, Econ!Known

-----------------------------------------------------------------------------
(* The HUD: ObsPage.                                                        *)

ObsInv == Obs!HudIsTyped /\ Obs!FreshIsFresh /\ Obs!MapIsDrawn
ObsFresh(fix, gps) == gps.status = "ok" /\ gps.at # None /\ gps.age < MaxAge => fix.age <= gps.by + gps.age
ObsDrawn(m, at, j) ==
  /\ m \in Obs!Maps
  /\ m.styleReady => m.token # "none" /\ m.route = j /\ m.pin = j
  /\ m.token # "none" /\ at # None => m.camera = at \/ (m.camera = None /\ m.since = at)

(* The page's default is one of the limits.                                 *)
LEMMA ObsDefault ==
  Obs!Default \in Timeouts /\ Timeouts \subseteq Nat /\ MaxAge \in Nat /\ \A l \in Timeouts : l < MaxAge
BY PartsAssumption DEF Obs!Default

(* There is no position, and no job.                                        *)
LEMMA ObsBegins ==
  ASSUME Obs!Init PROVE ObsInv
<1>1. /\ s1 = [at |-> None, age |-> 0, limit |-> Obs!Default] /\ s4 = Obs!NoGps /\ s5 = Obs!Default /\ s6 = None
      /\ s2.token \in {"none", "same", "other"}
      /\ s7 = IF s2.token = "none" THEN Obs!NoMap ELSE Obs!NewMap(s2.token, None)
  BY DEF Obs!Init
<1>2. s1 \in Obs!Fixes
  BY <1>1, ObsDefault DEF Obs!Fixes
<1>3. s4 \in Obs!Told /\ s4.at = None
  BY <1>1, ObsDefault DEF Obs!NoGps, Obs!Told
<1>4. s7 \in Obs!Maps /\ s7.styleReady = FALSE /\ s7.since = None /\ s7.camera = None
  <2>1. PICK t \in {"none", "same", "other"} : t = s2.token
    BY <1>1
  <2>2. CASE t = "none"
    BY <1>1, <2>1, <2>2 DEF Obs!NoMap, Obs!Maps
  <2>3. CASE t # "none"
    <3>1. s7 = [Obs!NoMap EXCEPT !.token = t, !.since = None]
      BY <1>1, <2>1, <2>3 DEF Obs!NewMap
    <3>2. QED
      BY <3>1 DEF Obs!NoMap, Obs!Maps
  <2>4. QED
    BY <2>2, <2>3
<1>5. QED
  BY <1>1, <1>2, <1>3, <1>4, ObsDefault DEF ObsInv, Obs!HudIsTyped, Obs!FreshIsFresh, Obs!MapIsDrawn

(* The map goes where the streamer is, and draws the page's job.            *)
LEMMA ObsCamera ==
  ASSUME Obs!HudIsTyped, Obs!MapIsDrawn, NEW new \in Spots \union {None}
  PROVE  LET y == Obs!Camera(s7, s4.at, new)
         IN /\ y.token = s7.token /\ y.styleReady = s7.styleReady /\ y.route = s7.route /\ y.pin = s7.pin
            /\ y.since = s7.since /\ y \in Obs!Maps
            /\ y.token # "none" /\ new # None => y.camera = new \/ (y.camera = None /\ y.since = new)
<1>1. /\ s7 \in Obs!Maps
      /\ s7.token # "none" /\ s4.at # None => s7.camera = s4.at \/ (s7.camera = None /\ s7.since = s4.at)
  BY DEF Obs!HudIsTyped, Obs!MapIsDrawn, Obs!Maps
<1>2. QED
  BY <1>1 DEF Obs!Camera, Obs!Maps

LEMMA ObsDraws ==
  ASSUME NEW m \in Obs!Maps, NEW j \in Jobs \union {None}
  PROVE  LET y == Obs!Drawn(m, j)
         IN /\ y.token = m.token /\ y.styleReady = m.styleReady /\ y.camera = m.camera /\ y.since = m.since
            /\ y \in Obs!Maps /\ (y.styleReady /\ y.token # "none" => y.route = j /\ y.pin = j)
BY DEF Obs!Drawn, Obs!Maps

(* What the page was told last was judged by the server's limit, and its    *)
(* own clock goes on from there.                                            *)
LEMMA ObsStep ==
  ASSUME ObsInv, Obs!Next PROVE ObsInv'
<1> DEFINE T == ObsInv'
<1>b. /\ s1 \in Obs!Fixes /\ s4 \in Obs!Told /\ s5 \in Timeouts /\ s6 \in Jobs \union {None}
      /\ ObsFresh(s1, s4) /\ ObsDrawn(s7, s4.at, s6)
      /\ s1.at \in Spots \union {None} /\ s4.at \in Spots \union {None}
  BY DEF ObsInv, ObsFresh, ObsDrawn, Obs!HudIsTyped, Obs!FreshIsFresh, Obs!MapIsDrawn, Obs!Fixes,
     Obs!Told
<1>e. ASSUME s1' \in Obs!Fixes, s4' \in Obs!Told, s5' \in Timeouts, s6' \in Jobs \union {None},
             ObsFresh(s1', s4'), ObsDrawn(s7', s4'.at, s6')
      PROVE  T
  BY <1>e DEF ObsInv, ObsFresh, ObsDrawn, Obs!HudIsTyped, Obs!FreshIsFresh, Obs!MapIsDrawn
<1>f. /\ s1.age \in Nat /\ s1.limit \in Timeouts /\ s1.limit \in Nat
      /\ s4.age \in Nat /\ s4.by \in Timeouts /\ s4.by \in Nat
      /\ MaxAge \in Nat /\ Timeouts \subseteq Nat
  <2>1. s1.age \in Nat /\ s1.limit \in Timeouts
    BY <1>b DEF Obs!Fixes
  <2>2. s4.age \in Nat /\ s4.by \in Timeouts
    BY <1>b DEF Obs!Told
  <2>3. QED
    BY <2>1, <2>2, ObsDefault
<1>i. Obs!HudIsTyped /\ Obs!MapIsDrawn
  BY DEF ObsInv
<1> HIDE DEF T
<1>d. ASSUME NEW m \in Obs!Maps, NEW at, NEW j \in Jobs \union {None},
             m.styleReady => m.token # "none",
             m.token # "none" /\ at # None => m.camera = at \/ (m.camera = None /\ m.since = at)
      PROVE  ObsDrawn(Obs!Drawn(m, j), at, j)
  BY <1>d, ObsDraws DEF ObsDrawn
<1>c. ASSUME NEW new \in Spots \union {None}
      PROVE  ObsDrawn(Obs!Camera(s7, s4.at, new), new, s6)
  BY <1>b, <1>c, <1>i, ObsCamera DEF ObsDrawn
<1>t. ASSUME NEW at \in Spots \union {None}, NEW status \in {"ok", "stale", "missing"}, Obs!TakeGps(at, status),
             s1'.limit = s1.limit, s1'.age \in Nat, status = "ok" => s1'.age <= s1.limit
      PROVE  s4' \in Obs!Told /\ s4'.at = at /\ ObsFresh(s1', s4')
  <2>1. s4' = [at |-> at, status |-> status, age |-> 0, by |-> s1'.limit]
    BY <1>t DEF Obs!TakeGps
  <2>2. s4' \in Obs!Told /\ s4'.at = at
    BY <1>f, <1>t, <2>1 DEF Obs!Told
  <2>3. s4'.status = status /\ s4'.age = 0 /\ s4'.by = s1'.limit
    BY <2>1
  <2>4. ObsFresh(s1', s4')
    BY <1>f, <1>t, <2>3 DEF ObsFresh
  <2>5. QED
    BY <2>2, <2>4
<1>1. ASSUME Obs!StyleLoads PROVE T
  <2>1. /\ s7.token # "none" /\ s7' = Obs!Drawn([s7 EXCEPT !.styleReady = TRUE], s6)
        /\ UNCHANGED <<s1, s4, s5, s6>>
    BY <1>1 DEF Obs!StyleLoads
  <2>2. PICK y : y = [s7 EXCEPT !.styleReady = TRUE]
    OBVIOUS
  <2>3. y \in Obs!Maps /\ y.token = s7.token /\ y.camera = s7.camera /\ y.since = s7.since
    BY <1>b, <2>2 DEF ObsDrawn, Obs!Maps
  <2>4. ObsDrawn(s7', s4.at, s6)
    <3>1. s7' = Obs!Drawn(y, s6)
      BY <2>1, <2>2
    <3>2. y.token # "none" /\ s4.at # None => y.camera = s4.at \/ (y.camera = None /\ y.since = s4.at)
      BY <1>b, <2>3 DEF ObsDrawn
    <3>3. QED
      BY <1>b, <1>d, <2>1, <2>3, <3>1, <3>2
  <2>5. QED
    BY <1>b, <1>e, <2>1, <2>4
<1>2. ASSUME Obs!ConfigFails \/ Obs!Retry \/ Obs!Drop PROVE T
  <2>1. UNCHANGED <<s1, s4, s5, s6, s7>>
    BY <1>2 DEF Obs!ConfigFails, Obs!Retry, Obs!Drop
  <2>2. QED
    BY <1>b, <1>e, <2>1
<1>3. ASSUME Obs!ConfigLoads PROVE T
  <2>1. (s7' = s7 \/ s7' = Obs!Remade(s7, "config")) /\ UNCHANGED <<s1, s4, s5, s6>>
    BY <1>3 DEF Obs!ConfigLoads
  <2>2. ObsDrawn(Obs!Remade(s7, "config"), s4.at, s6)
    BY <1>b DEF ObsDrawn, Obs!Remade, Obs!NewMap, Obs!NoMap, Obs!Maps
  <2>3. QED
    BY <1>b, <1>e, <2>1, <2>2
<1>4. ASSUME NEW j \in Jobs \union {None}, Obs!Snapshot(j) PROVE T
  <2>1. Obs!TakeGps(s1.at, Obs!Status) /\ s6' = j /\ s7' = Obs!Drawn(Obs!Camera(s7, s4.at, s1.at), j) /\ UNCHANGED <<s1, s5>>
    BY <1>4 DEF Obs!Snapshot
  <2>2. Obs!Status \in {"ok", "stale", "missing"} /\ (Obs!Status = "ok" => s1.age <= s1.limit)
    BY <1>f DEF Obs!Status
  <2>3. s4' \in Obs!Told /\ s4'.at = s1.at /\ ObsFresh(s1', s4')
    <3>1. PICK at, st : at = s1.at /\ st = Obs!Status
      OBVIOUS
    <3>2. /\ at \in Spots \union {None} /\ st \in {"ok", "stale", "missing"} /\ Obs!TakeGps(at, st)
          /\ s1'.limit = s1.limit /\ s1'.age \in Nat /\ (st = "ok" => s1'.age <= s1.limit)
      BY <1>b, <1>f, <2>1, <2>2, <3>1
    <3>3. QED
      BY <1>t, <3>1, <3>2
  <2>4. ObsDrawn(Obs!Camera(s7, s4.at, s1.at), s1.at, s6)
    BY <1>b, <1>c
  <2>5. ObsDrawn(s7', s1.at, j)
    <3>1. PICK y : y = Obs!Camera(s7, s4.at, s1.at)
      OBVIOUS
    <3>2. ObsDrawn(y, s1.at, s6) /\ s7' = Obs!Drawn(y, j)
      BY <2>1, <2>4, <3>1
    <3>3. /\ y \in Obs!Maps /\ (y.styleReady => y.token # "none")
          /\ y.token # "none" /\ s1.at # None => y.camera = s1.at \/ (y.camera = None /\ y.since = s1.at)
      BY <3>2 DEF ObsDrawn
    <3>4. QED
      BY <1>d, <3>2, <3>3
  <2>6. QED
    BY <1>b, <1>e, <2>1, <2>3, <2>5
<1>5. ASSUME NEW j \in Jobs \union {None}, Obs!JobEvent(j) PROVE T
  <2>1. s6' = j /\ s7' = Obs!Drawn(s7, j) /\ UNCHANGED <<s1, s4, s5>>
    BY <1>5 DEF Obs!JobEvent
  <2>2. ObsDrawn(s7', s4.at, j)
    <3>1. /\ s7 \in Obs!Maps /\ (s7.styleReady => s7.token # "none")
          /\ s7.token # "none" /\ s4.at # None => s7.camera = s4.at \/ (s7.camera = None /\ s7.since = s4.at)
      BY <1>b DEF ObsDrawn
    <3>2. QED
      BY <1>d, <2>1, <3>1
  <2>3. QED
    BY <1>b, <1>e, <2>1, <2>2
<1>6. ASSUME NEW p \in Spots, Obs!Push(p) PROVE T
  <2>1. s1' = [s1 EXCEPT !.at = p, !.age = 0] /\ UNCHANGED <<s5, s6>>
        /\ \/ Obs!TakeGps(p, "ok") /\ s7' = Obs!Camera(s7, s4.at, p)
           \/ UNCHANGED <<s4, s7>>
    BY <1>6 DEF Obs!Push
  <2>2. s1' \in Obs!Fixes /\ s1'.age = 0 /\ s1'.limit = s1.limit
    BY <1>b, <1>f, <2>1 DEF Obs!Fixes
  <2>3. CASE Obs!TakeGps(p, "ok") /\ s7' = Obs!Camera(s7, s4.at, p)
    <3>1. s4' \in Obs!Told /\ s4'.at = p /\ ObsFresh(s1', s4')
      BY <1>f, <1>t, <2>2, <2>3
    <3>2. QED
      BY <1>b, <1>c, <1>e, <2>1, <2>2, <2>3, <3>1
  <2>4. CASE UNCHANGED <<s4, s7>>
    <3>1. ObsFresh(s1', s4')
      BY <1>f, <2>2, <2>4 DEF ObsFresh
    <3>2. QED
      BY <1>b, <1>e, <2>1, <2>2, <2>4, <3>1
  <2>5. QED
    BY <2>1, <2>3, <2>4
<1>7. ASSUME Obs!GpsStale PROVE T
  <2>1. s4' = [s4 EXCEPT !.status = "stale"] /\ UNCHANGED <<s1, s5, s6, s7>>
    BY <1>7 DEF Obs!GpsStale
  <2>2. s4' \in Obs!Told /\ s4'.at = s4.at /\ s4'.status = "stale"
    BY <1>b, <2>1 DEF Obs!Told
  <2>3. ObsFresh(s1', s4')
    BY <2>2 DEF ObsFresh
  <2>4. QED
    BY <1>b, <1>e, <2>1, <2>2, <2>3
<1>8. ASSUME Obs!Second PROVE T
  <2>1. PICK a, g : /\ a = (IF s1.age < MaxAge THEN s1.age + 1 ELSE s1.age)
                    /\ g = (IF s4.age < MaxAge THEN s4.age + 1 ELSE s4.age)
    OBVIOUS
  <2>2. a \in Nat /\ g \in Nat /\ a <= s1.age + 1 /\ (g < MaxAge => g = s4.age + 1)
    BY <1>f, <2>1
  <2>3. s1' = [s1 EXCEPT !.age = a] /\ s4' = [s4 EXCEPT !.age = g] /\ UNCHANGED <<s5, s6, s7>>
    BY <1>8, <2>1 DEF Obs!Second
  <2>4. s1' \in Obs!Fixes /\ s4' \in Obs!Told /\ s4'.at = s4.at /\ s1'.age = a /\ s4'.age = g
        /\ s4'.by = s4.by /\ s4'.status = s4.status
    BY <1>b, <2>2, <2>3 DEF Obs!Fixes, Obs!Told
  <2>5. ObsFresh(s1', s4')
    BY <1>b, <1>f, <2>2, <2>4 DEF ObsFresh
  <2>6. QED
    BY <1>b, <1>e, <2>3, <2>4, <2>5
<1>9. ASSUME NEW l \in Timeouts, Obs!SettingsUpdate(l) PROVE T
  <2>1. s1' = [s1 EXCEPT !.limit = l] /\ s5' \in {l, s5} /\ UNCHANGED <<s4, s6, s7>>
    BY <1>9 DEF Obs!SettingsUpdate
  <2>2. s1' \in Obs!Fixes /\ s1'.age = s1.age
    BY <1>b, <2>1 DEF Obs!Fixes
  <2>3. ObsFresh(s1', s4')
    BY <1>b, <2>1, <2>2 DEF ObsFresh
  <2>4. QED
    BY <1>b, <1>e, <2>1, <2>2, <2>3
<1>10. QED
  BY <1>1, <1>2, <1>3, <1>4, <1>5, <1>6, <1>7, <1>8, <1>9 DEF Obs!Next, T

(* A HUD that is not dimmed is of a fix that is not older than the limits.  *)
LEMMA ObsShows ==
  ASSUME ObsInv PROVE Obs!HudIsTrue
<1>1. s1 \in Obs!Fixes /\ s4 \in Obs!Told /\ s5 \in Timeouts
  BY DEF ObsInv, Obs!HudIsTyped
<1>2. s1.age \in Nat /\ s4.age \in Nat /\ s4.by \in Nat /\ s5 \in Nat /\ s5 < MaxAge /\ MaxAge \in Nat
  <2>1. s1.age \in Nat
    BY <1>1 DEF Obs!Fixes
  <2>2. s4.age \in Nat /\ s4.by \in Timeouts
    BY <1>1 DEF Obs!Told
  <2>3. QED
    BY <1>1, <2>1, <2>2, ObsDefault
<1>3. ~Obs!Stale => s1.age <= s4.by + s5
  BY <1>2 DEF ObsInv, Obs!FreshIsFresh, Obs!Stale
<1>4. QED
  BY <1>3 DEF ObsInv, Obs!MapIsDrawn, Obs!HudIsTrue

(* What leaves its variables alone leaves it alone.                         *)
LEMMA ObsStays == ASSUME ObsInv, UNCHANGED <<s1, s2, s3, s4, s5, s6, s7, s8, s9>> PROVE ObsInv'
BY DEF ObsInv, Obs!HudIsTyped, Obs!FreshIsFresh, Obs!MapIsDrawn

-----------------------------------------------------------------------------
(* The viewer's map: ViewerMap.                                             *)

MapInv == Map!MapIsTyped /\ Map!MapBegins /\ Map!MapIsOfThePage
MapStates == [made : BOOLEAN, ready : BOOLEAN, route : Map!Routes \union {None}, pin : Spots \union {None},
              marker : Spots \union {None}, target : Spots \union {None}, fitted : Spots \union {None},
              fits : Nat]

(* There is no map yet.                                                     *)
LEMMA MapStarts ==
  ASSUME Map!Init PROVE MapInv
<1>1. Map!NoMap \in MapStates
  BY DEF Map!NoMap, MapStates
<1>2. QED
  BY <1>1 DEF Map!Init, MapInv, Map!MapIsTyped, Map!MapBegins, Map!MapIsOfThePage, Map!NoMap,
     MapStates

(* The streamer's position is drawn on a map that was made.                 *)
LEMMA MapMarks ==
  ASSUME NEW m \in MapStates, NEW p \in Spots \union {None}, m.marker = None => m.target = None
  PROVE  LET n == Map!Marked(m, p)
         IN /\ n \in MapStates /\ n.made = m.made /\ n.ready = m.ready /\ n.route = m.route /\ n.pin = m.pin
            /\ n.fitted = m.fitted /\ n.fits = m.fits /\ (n.marker = None => n.target = None)
            /\ m.made => p = (IF n.target # None THEN n.target ELSE n.marker)
BY DEF Map!Marked, MapStates

LEMMA MapPins ==
  ASSUME NEW m \in MapStates, NEW d \in Spots \union {None}
  PROVE  LET n == Map!Pinned(m, d)
         IN /\ n \in MapStates /\ n.made = m.made /\ n.ready = m.ready /\ n.route = m.route
            /\ n.marker = m.marker /\ n.target = m.target /\ n.fitted = m.fitted /\ n.fits = m.fits
            /\ m.made => n.pin = d
BY DEF Map!Pinned, MapStates

(* A map that is ready is fitted to a destination once.                     *)
LEMMA MapFits ==
  ASSUME NEW m \in MapStates, NEW r \in Map!Routes \union {None}, m.ready,
         \/ m.fitted = None /\ m.fits = 0 /\ m.route = r
         \/ (m.route = None => m.fitted = None) /\ (m.route # None => m.fitted = m.route.to /\ m.fits = 1)
  PROVE  LET n == Map!Routed(m, r)
         IN /\ n \in MapStates /\ n.made = m.made /\ n.ready /\ n.route = r /\ n.pin = m.pin
            /\ n.marker = m.marker /\ n.target = m.target
            /\ (r = None => n.fitted = None) /\ (r # None => n.fitted = r.to /\ n.fits = 1)
<1>0. None \notin Spots /\ (r # None => r.to \in Spots) /\ (m.route # None => m.route.to \in Spots)
  BY PartsAssumption DEF Map!Routes, MapStates
<1>1. CASE r = None
  BY <1>1 DEF Map!Routed, MapStates
<1>2. CASE r # None /\ m.fitted = r.to
  <2>1. m.route # None /\ m.fits = 1
    BY <1>0, <1>2
  <2>2. Map!Routed(m, r) = [m EXCEPT !.route = r]
    BY <1>2 DEF Map!Routed, Map!FitKey
  <2>3. QED
    BY <1>2, <2>1, <2>2 DEF MapStates
<1>3. CASE r # None /\ m.fitted # r.to
  <2>1. PICK k : k = IF Map!Destination(m.route) = r.to THEN m.fits + 1 ELSE 1
    OBVIOUS
  <2>2. k = 1
    BY <1>0, <1>3, <2>1 DEF Map!Destination
  <2>3. PICK d : d = r.to
    OBVIOUS
  <2>4. Map!Routed(m, r) = [m EXCEPT !.route = r, !.fitted = d, !.fits = k]
    BY <1>3, <2>1, <2>3 DEF Map!Routed, Map!FitKey
  <2>5. d \in Spots \union {None} /\ k \in Nat
    BY <1>0, <1>3, <2>2, <2>3
  <2>6. QED
    BY <1>3, <2>2, <2>3, <2>4, <2>5 DEF MapStates
<1>4. QED
  BY <1>1, <1>2, <1>3

(* The map shows what the page has, through every change of either.         *)
LEMMA MapStep ==
  ASSUME MapInv, Map!Next PROVE MapInv'
<1>b. /\ s6 \in Spots \union {None} /\ s7 \in Map!Routes \union {None} /\ s8 \in MapStates /\ s3 \in BOOLEAN
      /\ s8.marker = None => s8.target = None
      /\ s8.ready => s8.made
      /\ ~s8.ready => s8.fitted = None /\ s8.fits = 0
      /\ s8.ready => /\ s6 = (IF s8.target # None THEN s8.target ELSE s8.marker)
                     /\ s8.route = s7 /\ s8.pin = Map!Destination(s7)
                     /\ (s7 = None => s8.fitted = None) /\ (s7 # None => s8.fitted = s7.to /\ s8.fits = 1)
  BY DEF MapInv, Map!MapIsTyped, Map!MapBegins, Map!MapIsOfThePage, MapStates
<1>e. ASSUME s6' \in Spots \union {None}, s7' \in Map!Routes \union {None}, s8' \in MapStates, s3' = s3,
             s8'.marker = None => s8'.target = None,
             s8'.ready => s8'.made,
             ~s8'.ready => s8'.fitted = None /\ s8'.fits = 0,
             s8'.ready => /\ s6' = (IF s8'.target # None THEN s8'.target ELSE s8'.marker)
                          /\ s8'.route = s7' /\ s8'.pin = Map!Destination(s7')
                          /\ (s7' = None => s8'.fitted = None)
                          /\ (s7' # None => s8'.fitted = s7'.to /\ s8'.fits = 1)
      PROVE  MapInv'
  <2>1. Map!MapIsTyped'
    BY <1>b, <1>e DEF Map!MapIsTyped, MapStates, Map!Routes, Map!Versions
  <2>2. Map!MapBegins'
    BY <1>e DEF Map!MapBegins
  <2>3. Map!MapIsOfThePage'
    BY <1>e DEF Map!MapIsOfThePage, Map!Destination
  <2>4. QED
    BY <2>1, <2>2, <2>3 DEF MapInv
<1>d. ASSUME NEW r \in Map!Routes \union {None} PROVE Map!Destination(r) \in Spots \union {None}
  BY DEF Map!Destination, Map!Routes
<1>n. ASSUME NEW c
      PROVE  /\ Map!Made(c) \in MapStates /\ ~Map!Made(c).ready /\ Map!Made(c).fitted = None
             /\ Map!Made(c).fits = 0 /\ Map!Made(c).marker = None /\ Map!Made(c).target = None
  <2>1. PICK made \in BOOLEAN : made = ((c = TRUE) \/ s3)
    BY <1>b
  <2>2. Map!Made(c) = [Map!NoMap EXCEPT !.made = made]
    BY <2>1 DEF Map!Made
  <2>3. Map!NoMap \in MapStates /\ ~Map!NoMap.ready /\ Map!NoMap.fitted = None
        /\ Map!NoMap.fits = 0 /\ Map!NoMap.marker = None /\ Map!NoMap.target = None
    BY DEF Map!NoMap, MapStates
  <2>4. QED
    BY <2>2, <2>3 DEF MapStates
<1>1. ASSUME Map!OnAuthorized PROVE MapInv'
  BY <1>1, <1>b, <1>e DEF Map!OnAuthorized
<1>f. ASSUME NEW m \in MapStates, ~m.ready, m.fitted = None, m.fits = 0, m.marker = None => m.target = None,
             s8' = m, UNCHANGED <<s3, s6, s7>>
      PROVE  MapInv'
  BY <1>b, <1>e, <1>f
<1>2. ASSUME Map!TakeConfig PROVE MapInv'
  <2>1. CASE UNCHANGED s8
    BY <1>2, <1>b, <1>e, <2>1 DEF Map!TakeConfig
  <2>2. ASSUME NEW token, s8' = Map!Remade(s8, token) PROVE MapInv'
    <3>1. UNCHANGED <<s3, s6, s7>>
      BY <1>2 DEF Map!TakeConfig
    <3>2. PICK m1, m2, m3 : m1 = Map!Made(token) /\ m2 = Map!Marked(m1, s6) /\ m3 = Map!Pinned(m2, Map!Destination(s7))
      OBVIOUS
    <3>3. /\ m1 \in MapStates /\ ~m1.ready /\ m1.fitted = None /\ m1.fits = 0 /\ m1.marker = None /\ m1.target = None
      BY <1>n, <3>2
    <3>4. /\ m2 \in MapStates /\ ~m2.ready /\ m2.fitted = None /\ m2.fits = 0 /\ (m2.marker = None => m2.target = None)
      BY <1>b, <3>2, <3>3, MapMarks
    <3>5. /\ m3 \in MapStates /\ ~m3.ready /\ m3.fitted = None /\ m3.fits = 0 /\ (m3.marker = None => m3.target = None)
      BY <1>b, <1>d, <3>2, <3>4, MapPins
    <3>6. s8' = m3 \/ s8' = m1
      BY <2>2, <3>2 DEF Map!Remade
    <3>7. QED
      BY <1>f, <3>1, <3>3, <3>5, <3>6
  <2>3. QED
    BY <1>2, <2>1, <2>2 DEF Map!TakeConfig
<1>3. ASSUME Map!OpenMap PROVE MapInv'
  <3>1. UNCHANGED <<s3, s6, s7>>
    BY <1>3 DEF Map!OpenMap
  <3>2. PICK m1, m2, m3 : m1 = Map!Made(s4) /\ m2 = Map!Marked(m1, s6) /\ m3 = Map!Pinned(m2, Map!Destination(s7))
    OBVIOUS
  <3>3. /\ m1 \in MapStates /\ ~m1.ready /\ m1.fitted = None /\ m1.fits = 0 /\ m1.marker = None /\ m1.target = None
    BY <1>n, <3>2
  <3>4. /\ m2 \in MapStates /\ ~m2.ready /\ m2.fitted = None /\ m2.fits = 0 /\ (m2.marker = None => m2.target = None)
    BY <1>b, <3>2, <3>3, MapMarks
  <3>5. /\ m3 \in MapStates /\ ~m3.ready /\ m3.fitted = None /\ m3.fits = 0 /\ (m3.marker = None => m3.target = None)
    BY <1>b, <1>d, <3>2, <3>4, MapPins
  <3>6. s8' = m3
    BY <1>3, <3>2 DEF Map!OpenMap
  <3>7. QED
    BY <1>f, <3>1, <3>5, <3>6
<1>4. ASSUME Map!MapLoads PROVE MapInv'
  <2>1. s8.made /\ ~s8.ready /\ UNCHANGED <<s3, s6, s7>>
    BY <1>4 DEF Map!MapLoads
  <2>2. PICK m1, m2, m3, m4 :
          /\ m1 = [s8 EXCEPT !.ready = TRUE, !.route = s7] /\ m2 = Map!Marked(m1, s6)
          /\ m3 = Map!Routed(m2, s7) /\ m4 = Map!Pinned(m3, Map!Destination(s7))
    OBVIOUS
  <2>3. /\ m1 \in MapStates /\ m1.made /\ m1.ready /\ m1.route = s7 /\ m1.fitted = None /\ m1.fits = 0
        /\ (m1.marker = None => m1.target = None)
    BY <1>b, <2>1, <2>2 DEF MapStates
  <2>4. /\ m2 \in MapStates /\ m2.made /\ m2.ready /\ m2.route = s7 /\ m2.fitted = None /\ m2.fits = 0
        /\ (m2.marker = None => m2.target = None) /\ s6 = (IF m2.target # None THEN m2.target ELSE m2.marker)
    <3>1. s6 \in Spots \union {None}
      BY <1>b
    <3>2. m1 \in MapStates /\ (m1.marker = None => m1.target = None) /\ m2 = Map!Marked(m1, s6)
      BY <2>2, <2>3
    <3>3. /\ m2 \in MapStates /\ m2.made = m1.made /\ m2.ready = m1.ready /\ m2.route = m1.route
          /\ m2.fitted = m1.fitted /\ m2.fits = m1.fits /\ (m2.marker = None => m2.target = None)
          /\ m1.made => s6 = (IF m2.target # None THEN m2.target ELSE m2.marker)
      BY <3>1, <3>2, MapMarks
    <3>4. QED
      BY <2>3, <3>3
  <2>5. /\ m3 \in MapStates /\ m3.made /\ m3.ready /\ m3.route = s7
        /\ m3.marker = m2.marker /\ m3.target = m2.target
        /\ (s7 = None => m3.fitted = None) /\ (s7 # None => m3.fitted = s7.to /\ m3.fits = 1)
    BY <1>b, <2>2, <2>4, MapFits
  <2>6. /\ m4 \in MapStates /\ m4.made /\ m4.ready /\ m4.route = s7 /\ m4.pin = Map!Destination(s7)
        /\ m4.marker = m2.marker /\ m4.target = m2.target
        /\ (s7 = None => m4.fitted = None) /\ (s7 # None => m4.fitted = s7.to /\ m4.fits = 1)
    BY <1>b, <1>d, <2>2, <2>5, MapPins
  <2>7. s8' = m4
    BY <1>4, <2>2 DEF Map!MapLoads
  <2>8. QED
    BY <1>b, <1>e, <2>1, <2>4, <2>6, <2>7
<1>5. ASSUME NEW p \in Spots \union {None}, Map!SetPlayer(p) PROVE MapInv'
  <2>1. PICK n : n = Map!Marked(s8, p)
    OBVIOUS
  <2>2. s8' = n /\ s6' = p /\ UNCHANGED <<s3, s7>>
    BY <1>5, <2>1 DEF Map!SetPlayer
  <2>3. /\ n \in MapStates /\ n.made = s8.made /\ n.ready = s8.ready /\ n.route = s8.route /\ n.pin = s8.pin
        /\ n.fitted = s8.fitted /\ n.fits = s8.fits /\ (n.marker = None => n.target = None)
        /\ s8.made => p = (IF n.target # None THEN n.target ELSE n.marker)
    BY <1>b, <2>1, MapMarks
  <2>4. QED
    BY <1>b, <1>e, <2>2, <2>3
<1>6. ASSUME NEW r \in Map!Routes \union {None}, Map!SetRoute(r) PROVE MapInv'
  <2>1. PICK m, n : m = Map!Routed(s8, r) /\ n = Map!Pinned(m, Map!Destination(r))
    OBVIOUS
  <2>2. s8' = n /\ s7' = r /\ UNCHANGED <<s3, s6>>
    BY <1>6, <2>1 DEF Map!SetRoute
  <2>3. CASE s8.ready
    <3>1. /\ m \in MapStates /\ m.made /\ m.ready /\ m.route = r /\ m.marker = s8.marker /\ m.target = s8.target
          /\ (r = None => m.fitted = None) /\ (r # None => m.fitted = r.to /\ m.fits = 1)
      BY <1>b, <2>1, <2>3, MapFits
    <3>2. /\ n \in MapStates /\ n.made /\ n.ready /\ n.route = r /\ n.pin = Map!Destination(r)
          /\ n.marker = m.marker /\ n.target = m.target
          /\ (r = None => n.fitted = None) /\ (r # None => n.fitted = r.to /\ n.fits = 1)
      BY <1>d, <2>1, <3>1, MapPins
    <3>3. QED
      BY <1>b, <1>e, <2>2, <2>3, <3>1, <3>2
  <2>4. CASE ~s8.ready
    <3>1. m = s8
      BY <2>1, <2>4 DEF Map!Routed
    <3>2. /\ n \in MapStates /\ n.ready = s8.ready /\ n.marker = s8.marker /\ n.target = s8.target
          /\ n.fitted = s8.fitted /\ n.fits = s8.fits
      BY <1>b, <1>d, <2>1, <3>1, MapPins
    <3>3. QED
      BY <1>b, <1>e, <2>2, <2>4, <3>2
  <2>5. QED
    BY <2>3, <2>4
<1>7. ASSUME Map!Arrive PROVE MapInv'
  <2>1. /\ s8.target # None /\ s8' = [s8 EXCEPT !.marker = s8.target, !.target = None]
        /\ UNCHANGED <<s3, s6, s7>>
    BY <1>7 DEF Map!Arrive
  <2>2. /\ s8' \in MapStates /\ s8'.marker = s8.target /\ s8'.target = None /\ s8'.made = s8.made
        /\ s8'.ready = s8.ready /\ s8'.route = s8.route /\ s8'.pin = s8.pin /\ s8'.fitted = s8.fitted
        /\ s8'.fits = s8.fits
    BY <1>b, <2>1 DEF MapStates
  <2>3. QED
    BY <1>b, <1>e, <2>1, <2>2
<1>8. QED
  BY <1>1, <1>2, <1>3, <1>4, <1>5, <1>6, <1>7 DEF Map!Next

(* What leaves its variables alone leaves it alone.                         *)
LEMMA MapStays == ASSUME MapInv, UNCHANGED <<s1, s2, s3, s4, s5, s6, s7, s8>> PROVE MapInv'
BY DEF MapInv, Map!MapIsTyped, Map!MapBegins, Map!MapIsOfThePage

-----------------------------------------------------------------------------
(* The search for a place: PlaceSearch.                                     *)

SearchInv == Search!AskIsOne /\ Search!ListIsOfTheQuery

(* Nothing was asked for.                                                   *)
LEMMA SearchBegins ==
  ASSUME Search!Init PROVE SearchInv
BY DEF Search!Init, SearchInv, Search!AskIsOne, Search!ListIsOfTheQuery, Search!NoResults,
   Search!Note

(* An effect of the term aborts what was asked for before it.               *)
LEMMA SearchEffects ==
  ASSUME SearchInv, NEW term, NEW on, Search!Effect(term, on, Search!Aborted)
  PROVE  /\ \A a \in s8' : DOMAIN a = {"n", "term", "aborted", "answer"} /\ a.aborted = TRUE
         /\ {s4', s5', s7'} \subseteq BOOLEAN /\ (s7' => s4') /\ (s3' # Search!NoResults => s4')
<1>1. ASSUME NEW a \in s8
      PROVE  DOMAIN [a EXCEPT !.aborted = TRUE] = {"n", "term", "aborted", "answer"}
             /\ [a EXCEPT !.aborted = TRUE].aborted = TRUE
  BY <1>1 DEF SearchInv, Search!AskIsOne
<1>2. s8' = {[a EXCEPT !.aborted = TRUE] : a \in s8}
  BY DEF Search!Effect, Search!Aborted
<1>3. \A a \in s8' : DOMAIN a = {"n", "term", "aborted", "answer"} /\ a.aborted = TRUE
  BY <1>1, <1>2
<1>4. QED
  BY <1>3 DEF SearchInv, Search!AskIsOne, Search!Effect

(* The box lists what was found for what stands in it.                      *)
LEMMA SearchStep ==
  ASSUME SearchInv, Search!Next PROVE SearchInv'
<1> DEFINE T == SearchInv'
           Shape(a) == DOMAIN a = {"n", "term", "aborted", "answer"} /\ a.aborted \in BOOLEAN
<1>b. /\ \A a \in s8 : Shape(a) /\ (~a.aborted => a.term = s2 /\ s4 /\ ~s7)
      /\ \A a, c \in s8 : ~a.aborted /\ ~c.aborted => a = c
      /\ (s7 => s4) /\ {s4, s5, s6, s7, s1} \subseteq BOOLEAN
      /\ ~s4 /\ s3 # Search!NoResults => s3.of = s2
  BY DEF SearchInv, Search!AskIsOne, Search!ListIsOfTheQuery
<1>e. ASSUME \A a \in s8' : Shape(a) /\ (~a.aborted => a.term = s2' /\ s4' /\ ~s7'),
             \A a, c \in s8' : ~a.aborted /\ ~c.aborted => a = c,
             s7' => s4', {s4', s5', s6', s7', s1'} \subseteq BOOLEAN,
             ~s4' /\ s3' # Search!NoResults => s3'.of = s2'
      PROVE  T
  <2>1. Search!AskIsOne'
    BY <1>e DEF Search!AskIsOne
  <2>2. Search!ListIsOfTheQuery'
    BY <1>e DEF Search!ListIsOfTheQuery, Search!Note
  <2>3. QED
    BY <2>1, <2>2 DEF SearchInv
<1>q. ASSUME NEW term, Search!SetQuery(term), s6' \in BOOLEAN, s1' = s1 PROVE T
  <2>1. CASE term = s2
    BY <1>b, <1>e, <1>q, <2>1 DEF Search!SetQuery
  <2>2. CASE term # s2
    <3>1. Search!Effect(term, s1, Search!Aborted)
      BY <1>q, <2>2 DEF Search!SetQuery, Search!CleanUp
    <3>2. QED
      BY <1>b, <1>e, <1>q, <3>1, SearchEffects
  <2>3. QED
    BY <2>1, <2>2
<1>1. ASSUME Search!Authorize PROVE T
  <2>1. Search!Effect(s2, TRUE, Search!Aborted) /\ s1' = TRUE /\ UNCHANGED s6
    BY <1>1 DEF Search!Authorize, Search!CleanUp
  <2>2. QED
    BY <1>b, <1>e, <2>1, SearchEffects
<1>2. ASSUME NEW t, Search!Type(t) PROVE T
  BY <1>2, <1>q DEF Search!Type
<1>3. ASSUME NEW t, Search!Choose(t) PROVE T
  BY <1>3, <1>q DEF Search!Choose
<1>4. ASSUME Search!Toggle PROVE T
  BY <1>4, <1>b, <1>e DEF Search!Toggle
<1>5. ASSUME Search!Ask PROVE T
  <2>1. PICK y : y = [n |-> s9, term |-> s2, aborted |-> FALSE, answer |-> Search!Asking]
    OBVIOUS
  <2>2. Shape(y) /\ y.term = s2 /\ y.aborted = FALSE
    BY <2>1
  <2>3. s7 /\ s7' = FALSE /\ s8' = s8 \union {y} /\ UNCHANGED <<s1, s2, s3, s4, s5, s6>>
    BY <1>5, <2>1 DEF Search!Ask
  <2> HIDE DEF Shape
  <2>4. QED
    BY <1>b, <1>e, <2>2, <2>3
<1>a. ASSUME NEW a \in s8, NEW answer, Search!Answer(a, answer), UNCHANGED <<s1, s2, s3, s4, s5, s6, s7>> PROVE T
  <2>1. PICK y : y = [a EXCEPT !.answer = answer]
    OBVIOUS
  <2>2. Shape(y) /\ y.term = a.term /\ y.aborted = a.aborted
    BY <1>b, <2>1
  <2>3. s8' = (s8 \ {a}) \union {y}
    BY <1>a, <2>1 DEF Search!Answer
  <2> HIDE DEF Shape
  <2>4. QED
    BY <1>a, <1>b, <1>e, <2>2, <2>3
<1>6. ASSUME NEW a \in s8, Search!SearchPlaces(a) \/ Search!CacheHit(a) \/ Search!Refuse(a) PROVE T
  BY <1>6, <1>a DEF Search!SearchPlaces, Search!CacheHit, Search!Refuse
<1>7. ASSUME NEW a \in s8, Search!TakeAnswer(a) PROVE T
  <2>1. s8' = s8 \ {a} /\ UNCHANGED <<s1, s2, s6, s7>>
    BY <1>7 DEF Search!TakeAnswer
  <2>2. CASE a.aborted
    <3>1. UNCHANGED <<s3, s4, s5>>
      BY <1>7, <2>2 DEF Search!TakeAnswer
    <3>2. QED
      BY <1>b, <1>e, <2>1, <3>1
  <2>3. CASE ~a.aborted
    <3>1. /\ s4' = FALSE /\ s5' \in BOOLEAN
          /\ s3' # Search!NoResults => s3' = [of |-> a.term, list |-> a.answer.list]
      BY <1>7, <2>3 DEF Search!TakeAnswer
    <3>2. s3' # Search!NoResults => s3'.of = s2
      BY <1>b, <2>3, <3>1
    <3>3. \A c \in s8' : c.aborted
      BY <1>b, <2>1, <2>3
    <3>4. QED
      BY <1>b, <1>e, <2>1, <2>3, <3>1, <3>2, <3>3
  <2>4. QED
    BY <2>2, <2>3
<1>8. ASSUME NEW t, Search!CacheExpires(t) PROVE T
  BY <1>8, <1>b, <1>e DEF Search!CacheExpires
<1>9. QED
  BY <1>1, <1>2, <1>3, <1>4, <1>5, <1>6, <1>7, <1>8 DEF Search!Next

(* What leaves its variables alone leaves it alone.                         *)
LEMMA SearchStays == ASSUME SearchInv, UNCHANGED <<s1, s2, s3, s4, s5, s6, s7, s8, s9, s10, s11, s12>> PROVE SearchInv'
BY DEF SearchInv, Search!AskIsOne, Search!ListIsOfTheQuery, Search!Note

-----------------------------------------------------------------------------
(* What Twitch's helper said: HelperBridge.                                 *)

HelperInv == Helper!BridgeIsTyped /\ Helper!BootKeeps /\ Helper!LateIsUpToDate

(* Nothing was said yet, and nobody listens.                                *)
LEMMA HelperBegins ==
  ASSUME Helper!Init PROVE HelperInv
BY DEF Helper!Init, HelperInv, Helper!BridgeIsTyped, Helper!BootKeeps, Helper!LateIsUpToDate,
   Helper!Nothing,
   Helper!Unmounted

(* Who comes late holds what was said last.                                 *)
LEMMA HelperStep ==
  ASSUME HelperInv, Helper!Next PROVE HelperInv'
<1> DEFINE Said == [auth : Int \union {None}, error : BOOLEAN, visible : BOOLEAN \union {None}]
           Bundle == [started : BOOLEAN, auth : Int \union {None}, error : BOOLEAN, visible : BOOLEAN]
           Listener == [mounted : BOOLEAN, auth : Int \union {None}, error : BOOLEAN]
           Absent == [mounted |-> FALSE, auth |-> None, error |-> FALSE]
           T == HelperInv'
<1>u. Helper!Unmounted = Absent /\ Absent \in Listener /\ Absent.mounted = FALSE /\ Absent.error = FALSE
  BY DEF Helper!Unmounted
<1> HIDE DEF Absent
<1>b. /\ s1 \in Said /\ s3 \in Said /\ s4 \in Bundle /\ s5 \in Listener /\ s6 \in Listener /\ s2 \in BOOLEAN
      /\ s2 => s3 = s1
      /\ (s5.mounted => s4.started) /\ (s6.mounted => s4.started)
      /\ (~s5.mounted => s5 = Absent) /\ (~s6.mounted => s6 = Absent)
      /\ s2 /\ s4.started => /\ s4.auth = s1.auth /\ s4.error = s1.error
                             /\ s1.visible # None => s4.visible = s1.visible
      /\ (s5.mounted => s5.auth = s4.auth /\ (s5.error => s4.error)) /\ (s6.error => s4.auth = None)
  BY <1>u DEF HelperInv, Helper!BridgeIsTyped, Helper!BootKeeps, Helper!LateIsUpToDate
<1>e. ASSUME s1' \in Said /\ s3' \in Said /\ s4' \in Bundle /\ s5' \in Listener /\ s6' \in Listener /\ s2' \in BOOLEAN,
             s2' => s3' = s1',
             (s5'.mounted => s4'.started) /\ (s6'.mounted => s4'.started),
             (~s5'.mounted => s5' = Absent) /\ (~s6'.mounted => s6' = Absent),
             s2' /\ s4'.started => /\ s4'.auth = s1'.auth /\ s4'.error = s1'.error
                                   /\ s1'.visible # None => s4'.visible = s1'.visible,
             (s5'.mounted => s5'.auth = s4'.auth /\ (s5'.error => s4'.error)) /\ (s6'.error => s4'.auth = None)
      PROVE  T
  BY <1>e, <1>u DEF HelperInv, Helper!BridgeIsTyped, Helper!BootKeeps, Helper!LateIsUpToDate
<1>1. ASSUME Helper!OnAuthorized PROVE T
  <2>1. PICK n : n = Helper!NewAuth
    OBVIOUS
  <2>2. n \in Int
    BY <1>b, <2>1 DEF Helper!NewAuth
  <2>3. s1' = [s1 EXCEPT !.auth = n, !.error = FALSE] /\ s3' = (IF s2 THEN [s3 EXCEPT !.auth = n, !.error = FALSE] ELSE s3) /\ s2' = s2
    BY <1>1, <2>1 DEF Helper!OnAuthorized, Helper!Superseded
  <2>4. /\ s1' \in Said /\ s3' \in Said /\ s1'.auth = n /\ s1'.error = FALSE /\ s1'.visible = s1.visible
        /\ s2' => s3' = s1'
    BY <1>b, <2>2, <2>3
  <2>5. CASE s4.started
    <3>1. /\ s4' = [s4 EXCEPT !.auth = n, !.error = FALSE]
          /\ s5' = (IF s5.mounted THEN [s5 EXCEPT !.auth = n, !.error = FALSE] ELSE s5)
          /\ s6' = (IF s6.mounted THEN [s6 EXCEPT !.auth = n, !.error = FALSE] ELSE s6)
      BY <1>1, <2>1, <2>5 DEF Helper!OnAuthorized, Helper!Reached, Helper!EmitAuth, Helper!Heard
    <3>2. s4' \in Bundle /\ s4'.started /\ s4'.auth = n /\ s4'.error = FALSE /\ s4'.visible = s4.visible
      BY <1>b, <2>2, <2>5, <3>1
    <3>3. /\ s5' \in Listener /\ s5'.mounted = s5.mounted /\ (s5.mounted => s5'.auth = n /\ s5'.error = FALSE)
          /\ (~s5.mounted => s5' = Absent)
      BY <1>b, <2>2, <3>1
    <3>4. /\ s6' \in Listener /\ s6'.mounted = s6.mounted /\ (s6.mounted => s6'.error = FALSE)
          /\ (~s6.mounted => s6' = Absent)
      BY <1>b, <2>2, <3>1
    <3>5. QED
      BY <1>b, <1>e, <1>u, <2>3, <2>4, <2>5, <3>2, <3>3, <3>4
  <2>6. CASE ~s4.started
    <3>1. UNCHANGED <<s4, s5, s6>>
      BY <1>1, <2>6 DEF Helper!OnAuthorized, Helper!Reached
    <3>2. QED
      BY <1>b, <1>e, <2>3, <2>4, <2>6, <3>1
  <2>7. QED
    BY <2>5, <2>6
<1>2. ASSUME Helper!OnError PROVE T
  <2>3. s1' = [s1 EXCEPT !.error = TRUE] /\ s3' = (IF s2 THEN [s3 EXCEPT !.error = TRUE] ELSE s3) /\ s2' = s2
    BY <1>2 DEF Helper!OnError
  <2>4. /\ s1' \in Said /\ s3' \in Said /\ s1'.auth = s1.auth /\ s1'.error = TRUE /\ s1'.visible = s1.visible
        /\ s2' => s3' = s1'
    BY <1>b, <2>3
  <2>5. CASE s4.started
    <3>1. /\ s4' = [s4 EXCEPT !.error = TRUE]
          /\ s5' = (IF s5.mounted THEN [s5 EXCEPT !.error = TRUE] ELSE s5)
          /\ s6' = (IF s6.mounted /\ s4.auth = None THEN [s6 EXCEPT !.error = TRUE] ELSE s6)
      BY <1>2, <2>5 DEF Helper!OnError, Helper!Reached, Helper!EmitError, Helper!ConfigFailed,
         Helper!ViewerFailed
    <3>2. s4' \in Bundle /\ s4'.started /\ s4'.auth = s4.auth /\ s4'.error = TRUE /\ s4'.visible = s4.visible
      BY <1>b, <2>5, <3>1
    <3>3. /\ s5' \in Listener /\ s5'.mounted = s5.mounted /\ s5'.auth = s5.auth
          /\ (~s5.mounted => s5' = Absent)
      BY <1>b, <3>1
    <3>4. /\ s6' \in Listener /\ s6'.mounted = s6.mounted /\ (s6'.error => s6.error \/ s4.auth = None)
          /\ (~s6.mounted => s6' = Absent)
      BY <1>b, <3>1
    <3>5. QED
      BY <1>b, <1>e, <1>u, <2>3, <2>4, <2>5, <3>2, <3>3, <3>4
  <2>6. CASE ~s4.started
    <3>1. UNCHANGED <<s4, s5, s6>>
      BY <1>2, <2>6 DEF Helper!OnError, Helper!Reached
    <3>2. QED
      BY <1>b, <1>e, <2>3, <2>4, <2>6, <3>1
  <2>7. QED
    BY <2>5, <2>6
<1>3. ASSUME Helper!OnVisibilityChanged PROVE T
  <2>1. PICK v \in BOOLEAN :
          /\ s1' = [s1 EXCEPT !.visible = v] /\ s3' = (IF s2 THEN [s3 EXCEPT !.visible = v] ELSE s3)
          /\ s4' = (IF s4.started THEN [s4 EXCEPT !.visible = v] ELSE s4) /\ UNCHANGED <<s2, s5, s6>>
    BY <1>3 DEF Helper!OnVisibilityChanged, Helper!Reached
  <2>2. /\ s1' \in Said /\ s3' \in Said /\ s1'.auth = s1.auth /\ s1'.error = s1.error /\ s1'.visible = v
        /\ s2' => s3' = s1'
    BY <1>b, <2>1
  <2>3. /\ s4' \in Bundle /\ s4'.started = s4.started /\ s4'.auth = s4.auth /\ s4'.error = s4.error
        /\ s4.started => s4'.visible = v
    BY <1>b, <2>1
  <2>4. QED
    BY <1>b, <1>e, <2>1, <2>2, <2>3
<1>4. ASSUME Helper!Start PROVE T
  <2>1. PICK v : v = IF s3.visible = None THEN s4.visible ELSE s3.visible
    OBVIOUS
  <2>2. s4' = [started |-> TRUE, auth |-> s3.auth, error |-> s3.error, visible |-> v] /\ v \in BOOLEAN
    BY <1>4, <1>b, <2>1 DEF Helper!Start
  <2>3. s4' \in Bundle /\ s4'.started /\ s4'.auth = s3.auth /\ s4'.error = s3.error /\ s4'.visible = v
    BY <1>b, <2>2
  <2>4. ~s4.started /\ UNCHANGED <<s1, s2, s3, s5, s6>>
    BY <1>4 DEF Helper!Start
  <2>5. QED
    BY <1>b, <1>e, <1>u, <2>1, <2>3, <2>4
<1>m. /\ Helper!Mounted \in Listener /\ Helper!Mounted.mounted /\ Helper!Mounted.auth = s4.auth
      /\ Helper!Mounted.error = FALSE
  BY <1>b DEF Helper!Mounted
<1>5. ASSUME Helper!MountConfig \/ Helper!MountViewer PROVE T
  BY <1>5, <1>b, <1>e, <1>m DEF Helper!MountConfig, Helper!MountViewer
<1>6. ASSUME Helper!Unmount PROVE T
  BY <1>6, <1>b, <1>e, <1>u DEF Helper!Unmount
<1>7. QED
  BY <1>1, <1>2, <1>3, <1>4, <1>5, <1>6 DEF Helper!Next

(* What leaves its variables alone leaves it alone.                         *)
LEMMA HelperStays == ASSUME HelperInv, UNCHANGED <<s1, s2, s3, s4, s5, s6>> PROVE HelperInv'
BY DEF HelperInv, Helper!BridgeIsTyped, Helper!BootKeeps, Helper!LateIsUpToDate

-----------------------------------------------------------------------------
(* The service worker: ServiceWorker.                                       *)

ShellInv == Shell!StoresAreTyped /\ Shell!StoredIsOfItsBuild /\ Shell!PageIsWhole

(* A script has the name of its build, and is neither document nor picture. *)
LEMMA ShellUrls ==
  /\ Shell!Shell \in Shell!Urls /\ Shell!Icon \in Shell!Urls
  /\ \A b \in Shell!Builds : Shell!Script(b) \in Shell!Urls \ {Shell!Shell, Shell!Icon}
  /\ \A b, c \in Shell!Builds : Shell!Script(b) = Shell!Script(c) => b = c
  /\ \A u \in Shell!Urls \ {Shell!Shell, Shell!Icon} : \E b \in Shell!Builds : u = Shell!Script(b)
  /\ Shell!Builds \subseteq Nat /\ 0 \in Shell!Builds /\ 1 \in Shell!Builds /\ None \notin Shell!Builds
<1>1. \A b : Shell!Script(b) \notin {Shell!Shell, Shell!Icon}
  BY DEF Shell!Script, Shell!Shell, Shell!Icon
<1>2. Shell!Builds \subseteq Nat /\ 0 \in Shell!Builds /\ 1 \in Shell!Builds /\ None \notin Shell!Builds
  BY PartsAssumption DEF Shell!Builds
<1>3. \A b, c \in Shell!Builds : Shell!Script(b) = Shell!Script(c) => b = c
  BY DEF Shell!Script
<1>4. QED
  BY <1>1, <1>2, <1>3 DEF Shell!Urls

(* Nothing is stored, except by the worker of before.                       *)
LEMMA ShellBegins ==
  ASSUME Shell!Init PROVE ShellInv
<1>1. /\ s1 = 1 /\ s2 = TRUE /\ s3 = "none" /\ s6 = {} /\ s5 = Shell!Empty /\ s7 = Shell!Blank /\ s8 = {}
      /\ s4 \in {Shell!Empty, [Shell!Empty EXCEPT ![Shell!Shell] = 0, ![Shell!Script(0)] = 0, ![Shell!Icon] = 0]}
  BY DEF Shell!Init
<1>2. /\ s4 \in [Shell!Urls -> Shell!Response] /\ s5 \in [Shell!Urls -> Shell!Response]
      /\ \A u \in Shell!Urls : s5[u] = None
  BY <1>1, ShellUrls DEF Shell!Empty, Shell!Response
<1>3. \A u \in Shell!Urls \ {Shell!Shell, Shell!Icon} : s4[u] # None => u = Shell!Script(s4[u])
  BY <1>1, ShellUrls DEF Shell!Empty
<1>4. s7 \in Shell!Page /\ s7.at = "none" /\ s7.from = None
  BY <1>1 DEF Shell!Blank, Shell!Page, Shell!Response
<1>5. Shell!StoresAreTyped
  BY <1>1, <1>2, <1>4, ShellUrls DEF Shell!StoresAreTyped
<1>6. Shell!StoredIsOfItsBuild
  BY <1>1, <1>3 DEF Shell!StoredIsOfItsBuild
<1>7. Shell!PageIsWhole
  <2>1. None # "network"
    BY PartsAssumption
  <2>2. QED
    BY <1>1, <1>2, <1>4, <2>1 DEF Shell!PageIsWhole
<1>8. QED
  BY <1>5, <1>6, <1>7 DEF ShellInv

(* What is answered of a script is of the script's build.                   *)
LEMMA ShellAnswers ==
  ASSUME ShellInv, NEW u \in Shell!Urls
  PROVE  /\ Shell!Served(u) \in Shell!Response /\ Shell!Match(u) \in Shell!Response
         /\ u \notin {Shell!Shell, Shell!Icon} /\ Shell!Served(u) # None => u = Shell!Script(Shell!Served(u))
         /\ u \notin {Shell!Shell, Shell!Icon} /\ Shell!Match(u) # None => u = Shell!Script(Shell!Match(u))
         /\ u \in {Shell!Shell, Shell!Icon} => Shell!Served(u) = s1
<1>1. s1 \in Shell!Builds /\ s4 \in [Shell!Urls -> Shell!Response] /\ s5 \in [Shell!Urls -> Shell!Response]
  BY DEF ShellInv, Shell!StoresAreTyped
<1>2. \A w \in Shell!Urls \ {Shell!Shell, Shell!Icon} :
        /\ s4[w] # None => w = Shell!Script(s4[w])
        /\ s5[w] # None => w = Shell!Script(s5[w])
  BY DEF ShellInv, Shell!StoredIsOfItsBuild, Shell!PageIsWhole
<1>3. QED
  BY <1>1, <1>2 DEF Shell!Served, Shell!Match, Shell!Response

(* What is stored stays of its build, and what has ever been stored is.     *)
LEMMA ShellStep ==
  ASSUME ShellInv, Shell!Next PROVE ShellInv'
<1> DEFINE Plain == {Shell!Shell, Shell!Icon}
           Own(c) == \A u \in Shell!Urls \ Plain : c[u] # None => u = Shell!Script(c[u])
           Puts(q) == \A p \in q : p \in Shell!Urls \X Shell!Builds /\ (p[1] \notin Plain => p[1] = Shell!Script(p[2]))
           Stored(c) == {u \in Shell!Urls : c[u] # None}
           Caches == [Shell!Urls -> Shell!Response]
           Sound(y) == /\ y \in Shell!Page /\ (y.at \in {"loading", "running"} => y.shell # None)
                       /\ y.at = "running" => y.script = y.shell
                       /\ y.from = "network" => y.shell = y.then
                       /\ y.at = "error" => y.mayFail
           T == ShellInv'
<1>b. /\ s1 \in Shell!Builds \ {0} /\ s2 \in BOOLEAN /\ s3 \in {"none", "installed", "active"}
      /\ s4 \in Caches /\ s5 \in Caches /\ Own(s4) /\ Own(s5) /\ Puts(s6) /\ Sound(s7)
      /\ s3 = "active" => s4 = Shell!Empty
      /\ s8 = Stored(s5)
  BY DEF ShellInv, Shell!StoresAreTyped, Shell!StoredIsOfItsBuild, Shell!PageIsWhole
<1>e. ASSUME s1' \in Shell!Builds \ {0}, s2' \in BOOLEAN, s3' \in {"none", "installed", "active"},
             s4' \in Caches, s5' \in Caches, Own(s4'), Own(s5'), Puts(s6'), Sound(s7'),
             s3' = "active" => s4' = Shell!Empty,
             s8' = Stored(s5')
      PROVE  T
  <2>1. s8' \subseteq Shell!Urls
    BY <1>e
  <2>2. Shell!StoresAreTyped'
    BY <1>e, <2>1 DEF Shell!StoresAreTyped
  <2>3. Shell!StoredIsOfItsBuild' /\ Shell!PageIsWhole'
    BY <1>e DEF Shell!StoredIsOfItsBuild, Shell!PageIsWhole
  <2>4. QED
    BY <2>2, <2>3 DEF ShellInv
<1> HIDE DEF Plain, Own, Puts, Stored, Caches, Sound, T
<1>c. ASSUME NEW u \in Shell!Urls, NEW r, r \in Shell!Builds, u \notin Plain => u = Shell!Script(r)
      PROVE  Puts(s6 \union {<<u, r>>})
  BY <1>b, <1>c DEF Puts
<1>d. ASSUME NEW c \in Caches, Shell!Store(c), Own(c), \A u \in Shell!Urls : s5[u] # None => c[u] # None
      PROVE  s5' \in Caches /\ Own(s5') /\ s8' = Stored(s5')
  BY <1>b, <1>d DEF Shell!Store, Stored
<1>s. ASSUME NEW u \in Shell!Urls, Shell!Stash(u), UNCHANGED <<s1, s2>>, Sound(s7') PROVE T
  <2>1. UNCHANGED <<s3, s4, s5, s8>> /\ (s6' = s6 \/ s6' = s6 \union Shell!Stashed(u, Shell!Served(u)))
    BY <1>s DEF Shell!Stash
  <2>2. Puts(s6')
    <3>1. CASE Shell!Served(u) = None
      BY <1>b, <2>1, <3>1 DEF Shell!Stashed
    <3>2. CASE Shell!Served(u) # None
      BY <1>b, <1>c, <2>1, <3>2, ShellAnswers DEF Shell!Stashed, Shell!Response, Plain
    <3>3. QED
      BY <3>1, <3>2
  <2>3. QED
    BY <1>b, <1>e, <1>s, <2>1, <2>2
<1>g. ASSUME NEW u \in Shell!Urls, NEW r, Shell!Get(u, r), UNCHANGED <<s1, s2>>,
             Sound(s7')
      PROVE  T
  BY <1>b, <1>e, <1>g, <1>s DEF Shell!Get, Shell!stores
<1>r. ASSUME NEW u \in Shell!Urls, NEW r, Shell!Get(u, r)
      PROVE  r \in Shell!Response /\ (u \notin Plain /\ r # None => u = Shell!Script(r))
  BY <1>r, ShellAnswers DEF Shell!Get, Shell!Response, Plain
<1>1. ASSUME Shell!Deploy PROVE T
  <2>1. s1' \in Shell!Builds \ {0} /\ UNCHANGED <<s2, s3, s4, s5, s6, s7, s8>>
    BY <1>1 DEF Shell!Deploy, Shell!stores
  <2>2. QED
    BY <1>b, <1>e, <2>1
<1>2. ASSUME Shell!Connection PROVE T
  <2>1. s2' \in BOOLEAN /\ UNCHANGED <<s1, s3, s4, s5, s6, s7, s8>>
    BY <1>b, <1>2 DEF Shell!Connection, Shell!stores
  <2>2. QED
    BY <1>b, <1>e, <2>1
<1>3. ASSUME NEW p \in s6, Shell!Put(p) PROVE T
  <2>1. UNCHANGED <<s1, s2, s3, s4, s7>> /\ Shell!Store([s5 EXCEPT ![p[1]] = p[2]]) /\ s6' = s6 \ {p}
    BY <1>3 DEF Shell!Put
  <2>2. p[1] \in Shell!Urls /\ p[2] \in Shell!Builds /\ (p[1] \notin Plain => p[1] = Shell!Script(p[2]))
    BY <1>b DEF Puts
  <2>3. PICK c : c = [s5 EXCEPT ![p[1]] = p[2]]
    OBVIOUS
  <2>4. c \in Caches /\ Own(c) /\ \A u \in Shell!Urls : s5[u] # None => c[u] # None
    BY <1>b, <2>2, <2>3, ShellUrls DEF Caches, Own, Shell!Response
  <2>5. s5' \in Caches /\ Own(s5') /\ s8' = Stored(s5')
    BY <1>d, <2>1, <2>3, <2>4
  <2>6. Puts(s6')
    BY <1>b, <2>1 DEF Puts
  <2>7. QED
    BY <1>b, <1>e, <2>1, <2>5, <2>6
<1>4. ASSUME NEW p \in s6, Shell!PutFails(p) PROVE T
  <2>1. UNCHANGED <<s1, s2, s3, s4, s5, s7, s8>> /\ s6' = s6 \ {p}
    BY <1>4 DEF Shell!PutFails
  <2>2. Puts(s6')
    BY <1>b, <2>1 DEF Puts
  <2>3. QED
    BY <1>b, <1>e, <2>1, <2>2
<1>5. ASSUME Shell!Install PROVE T
  <2>1. /\ UNCHANGED <<s1, s2, s4, s6, s7>> /\ s3' = "installed"
    BY <1>5 DEF Shell!Install
  <2>2. PICK got \in SUBSET Plain :
          Shell!Store([u \in Shell!Urls |-> IF u \in got THEN Shell!Served(u) ELSE s5[u]])
    BY <1>5 DEF Shell!Install, Plain
  <2>3. PICK c : c = [u \in Shell!Urls |-> IF u \in got THEN Shell!Served(u) ELSE s5[u]]
    OBVIOUS
  <2>4. \A u \in got : Shell!Served(u) = s1
    BY ShellAnswers, ShellUrls DEF Plain
  <2>5. c \in Caches
    BY <1>b, <2>3, <2>4 DEF Caches, Shell!Response
  <2>6. Own(c)
    BY <1>b, <2>3 DEF Own, Plain
  <2>7. \A u \in Shell!Urls : s5[u] # None => c[u] # None
    BY <1>b, <2>3, <2>4, ShellUrls
  <2>8. s5' \in Caches /\ Own(s5') /\ s8' = Stored(s5')
    BY <1>d, <2>2, <2>3, <2>5, <2>6, <2>7
  <2>9. QED
    BY <1>b, <1>e, <2>1, <2>8
<1>6. ASSUME Shell!Activate PROVE T
  <2>1. UNCHANGED <<s1, s2, s5, s6, s8>> /\ s3' = "active" /\ s4' = Shell!Empty
        /\ s7' = [s7 EXCEPT !.controlled = TRUE]
    BY <1>6 DEF Shell!Activate
  <2>2. s4' \in Caches /\ Own(s4')
    BY <2>1 DEF Shell!Empty, Caches, Own, Shell!Response
  <2>3. Sound(s7')
    BY <1>b, <2>1 DEF Sound, Shell!Page
  <2>4. QED
    BY <1>b, <1>e, <2>1, <2>2, <2>3
<1>7. ASSUME Shell!Navigate PROVE T
  <2>1. PICK k \in BOOLEAN : k = Shell!Controlled
    BY DEF Shell!Controlled
  <2>2. PICK m \in BOOLEAN : m = (~Shell!Controlled \/ Shell!Shell \notin s8)
    OBVIOUS
  <2>3. PICK y : y = [Shell!Blank EXCEPT !.at = "loading", !.controlled = k, !.then = s1, !.mayFail = m]
    OBVIOUS
  <2>4. /\ y \in Shell!Page /\ y.at = "loading" /\ y.from = None /\ y.then = s1 /\ y.mayFail = m
        /\ y.shell = None
    BY <1>b, <2>3 DEF Shell!Blank, Shell!Page, Shell!Response
  <2>5. PICK stored : stored = (IF Shell!Controlled THEN Shell!Match(Shell!Shell) ELSE None)
    OBVIOUS
  <2>6. /\ s2 => s7' = [y EXCEPT !.from = "network", !.shell = Shell!Served(Shell!Shell)] /\ Shell!Stash(Shell!Shell)
        /\ ~s2 => /\ s7' = IF stored = None THEN [y EXCEPT !.at = "error"]
                           ELSE [y EXCEPT !.from = "cache", !.shell = stored]
                  /\ UNCHANGED <<s3, s4, s5, s6, s8>>
        /\ UNCHANGED <<s1, s2>>
    BY <1>7, <2>1, <2>2, <2>3, <2>5 DEF Shell!Navigate, Shell!stores
  <2>7. CASE s2
    <3>1. Shell!Served(Shell!Shell) = s1
      BY ShellAnswers, ShellUrls
    <3>2. s7' = [y EXCEPT !.from = "network", !.shell = s1]
      BY <2>6, <2>7, <3>1
    <3>3. Sound(s7')
      BY <1>b, <2>4, <3>2, ShellUrls DEF Sound, Shell!Page, Shell!Response
    <3>4. QED
      BY <1>s, <2>6, <2>7, <3>3, ShellUrls
  <2>8. CASE ~s2
    <3>1. None # "network"
      BY PartsAssumption
    <3>2. CASE stored = None
      <4>1. s7' = [y EXCEPT !.at = "error"]
        BY <2>6, <2>8, <3>2
      <4>2. m
        <5>1. CASE Shell!Controlled
          <6>1. s4 = Shell!Empty /\ Shell!Match(Shell!Shell) = None
            BY <1>b, <2>5, <3>2, <5>1 DEF Shell!Controlled
          <6>2. s5[Shell!Shell] = None
            BY <6>1, ShellUrls DEF Shell!Match, Shell!Empty
          <6>3. QED
            BY <1>b, <2>2, <6>2 DEF Stored
        <5>2. QED
          BY <2>2, <5>1
      <4>3. Sound(s7')
        BY <2>4, <3>1, <4>1, <4>2 DEF Sound, Shell!Page
      <4>4. QED
        BY <1>b, <1>e, <2>6, <2>8, <4>3
    <3>3. CASE stored # None
      <4>1. s7' = [y EXCEPT !.from = "cache", !.shell = stored]
        BY <2>6, <2>8, <3>3
      <4>2. stored \in Shell!Response
        BY <2>5, ShellAnswers, ShellUrls DEF Shell!Response
      <4>3. Sound(s7')
        BY <2>4, <3>3, <4>1, <4>2 DEF Sound, Shell!Page
      <4>4. QED
        BY <1>b, <1>e, <2>6, <2>8, <4>3
    <3>4. QED
      BY <3>2, <3>3
  <2>9. QED
    BY <2>7, <2>8
<1>8. ASSUME Shell!LoadScript PROVE T
  <2>1. s7.at = "loading" /\ s7.shell \in Shell!Builds /\ UNCHANGED <<s1, s2>>
    BY <1>8, <1>b DEF Shell!LoadScript, Sound, Shell!Page, Shell!Response
  <2>2. PICK r : /\ Shell!Get(Shell!Script(s7.shell), r)
                 /\ s7' = [s7 EXCEPT !.script = r, !.at = IF r = None THEN "broken" ELSE "running"]
    BY <1>8 DEF Shell!LoadScript
  <2>3. Shell!Script(s7.shell) \in Shell!Urls \ Plain
    BY <2>1, ShellUrls DEF Plain
  <2>4. r \in Shell!Response /\ (r # None => r = s7.shell)
    BY <1>r, <2>1, <2>2, <2>3, ShellUrls DEF Shell!Response
  <2>5. PICK at : at = (IF r = None THEN "broken" ELSE "running")
    OBVIOUS
  <2>6. s7' = [s7 EXCEPT !.script = r, !.at = at]
    BY <2>2, <2>5
  <2>7. Sound(s7')
    BY <1>b, <2>1, <2>4, <2>5, <2>6, ShellUrls DEF Sound, Shell!Page
  <2>8. QED
    BY <1>g, <2>1, <2>2, <2>3, <2>7
<1>9. ASSUME Shell!LoadIcon PROVE T
  <2>1. PICK r \in Shell!Builds : Shell!Get(Shell!Icon, r) /\ s7' = [s7 EXCEPT !.icon = r]
    BY <1>9 DEF Shell!LoadIcon
  <2>2. Sound(s7')
    BY <1>b, <2>1 DEF Sound, Shell!Page, Shell!Response
  <2>3. QED
    BY <1>9, <1>g, <2>1, <2>2, ShellUrls DEF Shell!LoadIcon
<1>10. QED
  BY <1>1, <1>2, <1>3, <1>4, <1>5, <1>6, <1>7, <1>8, <1>9 DEF Shell!Next, T

(* What leaves its variables alone leaves it alone.                         *)
LEMMA ShellStays == ASSUME ShellInv, UNCHANGED <<s1, s2, s3, s4, s5, s6, s7, s8, s9>> PROVE ShellInv'
BY DEF ShellInv, Shell!StoresAreTyped, Shell!StoredIsOfItsBuild, Shell!PageIsWhole

-----------------------------------------------------------------------------
(* The phone's position: PhoneGps.                                          *)
PhoneInv == Phone!FixesAreTyped /\ Phone!AgedSinceReceipt

(* Nothing was sent yet.                                                    *)
LEMMA PhoneBegins == ASSUME Phone!Init PROVE PhoneInv
BY PartsAssumption DEF Phone!Init, PhoneInv, Phone!FixesAreTyped, Phone!AgedSinceReceipt, Phone!Fresh,
   Phone!Ages, Phone!Eldest, Phone!NoSample

(* A fix gets a round older, or is as old as is told apart.                 *)
LEMMA PhoneAges ==
  ASSUME NEW age \in Phone!Ages \union {None}
  PROVE  /\ Phone!Older(age) \in Phone!Ages \union {None}
         /\ age # None => Phone!Older(age) \in Phone!Ages /\ Phone!Older(age) <= age + 1
BY PartsAssumption DEF Phone!Ages, Phone!Eldest, Phone!Older

(* What the server has is of a fix that it accepted, however the phone goes *)
(* on.                                                                      *)
LEMMA PhoneStep ==
  ASSUME PhoneInv, Phone!Next PROVE PhoneInv'
<1> USE PartsAssumption DEF PhoneInv
<1> DEFINE Quiet == /\ s1' = s1 /\ s11' = s11 /\ {s5', s6', s7', s10'} \subseteq Phone!Ages \union {None}
<1>0. 0 \in Phone!Ages
  BY DEF Phone!Ages, Phone!Eldest
<1>1. ASSUME Quiet PROVE PhoneInv'
  BY <1>1 DEF Phone!FixesAreTyped, Phone!AgedSinceReceipt, Phone!Fresh, Phone!NoSample, Phone!Ages, Phone!Eldest
<1>2. CASE Phone!Start \/ Phone!Retry \/ Phone!Fix \/ Phone!NoSignal \/ Phone!Denied \/ Phone!Unpair
  <2>1. Quiet
    BY <1>0, <1>2 DEF Phone!Start, Phone!Retry, Phone!Fix, Phone!NoSignal, Phone!Denied, Phone!Unpair,
       Phone!Pend, Phone!server, Phone!FixesAreTyped
  <2>2. QED
    BY <1>1, <2>1
<1>3. CASE Phone!Reload \/ Phone!Upload \/ Phone!Connect \/ Phone!Disconnect
  <2>1. Quiet
    BY <1>3 DEF Phone!Reload, Phone!Upload, Phone!Connect, Phone!Disconnect,
       Phone!server, Phone!watch, Phone!upload, Phone!FixesAreTyped
  <2>2. QED
    BY <1>1, <2>1
<1>4. CASE Phone!IngestGps
  <2>1. UNCHANGED <<s1, s5, s6, s7>> /\ s10 \in Phone!Ages /\ s10' = None
    BY <1>4 DEF Phone!IngestGps, Phone!watch, Phone!upload, Phone!FixesAreTyped
  <2>2. CASE Phone!Accepted(s10)
    <3>1. s11' = [taken |-> s10, age |-> 0]
      BY <1>4, <2>2 DEF Phone!IngestGps
    <3>2. Phone!FixesAreTyped'
      BY <2>1, <3>1 DEF Phone!FixesAreTyped, Phone!Ages, Phone!Eldest
    <3>3. s10 <= ClockSkew + s1 + 0
      BY <2>1, <2>2 DEF Phone!Accepted, Phone!FixesAreTyped, Phone!Ages, Phone!Eldest
    <3>4. QED
      BY <2>1, <3>1, <3>2, <3>3 DEF Phone!AgedSinceReceipt
  <2>3. CASE ~Phone!Accepted(s10)
    <3>1. Quiet
      BY <1>4, <2>1, <2>3 DEF Phone!IngestGps, Phone!FixesAreTyped
    <3>2. QED
      BY <1>1, <3>1
  <2>4. QED
    BY <2>2, <2>3
<1>5. CASE Phone!Tick
  <2>1. /\ UNCHANGED <<s1, s10>> /\ s5' = Phone!Older(s5) /\ s6' = Phone!Older(s6) /\ s7' = Phone!Older(s7)
        /\ {s5, s6, s7, s10} \subseteq Phone!Ages \union {None}
    BY <1>5 DEF Phone!Tick, Phone!FixesAreTyped
  <2>2. {s5', s6', s7', s10'} \subseteq Phone!Ages \union {None}
    BY <2>1, PhoneAges
  <2>3. CASE s11 = Phone!NoSample
    BY <1>1, <1>5, <2>1, <2>2, <2>3 DEF Phone!Tick
  <2>4. CASE s11 # Phone!NoSample
    <3>1. s11 \in [taken : Phone!Ages, age : 0..GpsTimeout + 1]
      BY <2>4 DEF Phone!FixesAreTyped
    <3>2. s11' = [taken |-> Phone!Older(s11.taken),
                  age |-> IF s11.age > GpsTimeout THEN s11.age ELSE s11.age + 1]
      BY <1>5, <2>4 DEF Phone!Tick
    <3>3. s11.taken # None /\ Phone!Older(s11.taken) \in Phone!Ages /\ Phone!Older(s11.taken) <= s11.taken + 1
      BY <3>1, PhoneAges DEF Phone!Ages
    <3>4. s11' \in [taken : Phone!Ages, age : 0..GpsTimeout + 1]
      BY <3>1, <3>2, <3>3
    <3>5. Phone!FixesAreTyped'
      BY <2>1, <2>2, <3>4 DEF Phone!FixesAreTyped
    <3>6. ASSUME s11'.age <= GpsTimeout PROVE s11'.taken <= ClockSkew + s1' + s11'.age
      <4>1. s11.age <= GpsTimeout /\ s11'.age = s11.age + 1 /\ s11'.taken <= s11.taken + 1
        BY <3>1, <3>2, <3>3, <3>6
      <4>2. s11.taken <= ClockSkew + s1 + s11.age
        BY <2>4, <4>1 DEF Phone!AgedSinceReceipt, Phone!Fresh
      <4>3. s1 \in Int /\ s11.taken \in Int /\ s11'.taken \in Int /\ s11.age \in Int
        BY <3>1, <3>4 DEF Phone!FixesAreTyped, Phone!Ages, Phone!Eldest
      <4>4. QED
        BY <2>1, <4>1, <4>2, <4>3
    <3>7. QED
      BY <3>5, <3>6 DEF Phone!AgedSinceReceipt, Phone!Fresh
  <2>5. QED
    BY <2>3, <2>4
<1>6. QED
  BY <1>2, <1>3, <1>4, <1>5 DEF Phone!Next

(* What is fresh was received within the timeout.                           *)
LEMMA PhonePrices == ASSUME PhoneInv PROVE Phone!PricedWithinSkew
<1>1. SUFFICES ASSUME Phone!Fresh PROVE s11.taken <= ClockSkew + s1 + GpsTimeout
  BY DEF Phone!PricedWithinSkew
<1>2. s11 \in [taken : Phone!Ages, age : 0..GpsTimeout + 1] /\ s1 \in Int
  BY <1>1 DEF PhoneInv, Phone!FixesAreTyped, Phone!Fresh
<1>3. QED
  BY PartsAssumption, <1>1, <1>2 DEF PhoneInv, Phone!AgedSinceReceipt, Phone!Fresh, Phone!Ages, Phone!Eldest

LEMMA PhoneStays == ASSUME PhoneInv, UNCHANGED <<s1, s2, s3, s4, s5, s6, s7, s8, s9, s10, s11>> PROVE PhoneInv'
BY DEF PhoneInv, Phone!FixesAreTyped, Phone!AgedSinceReceipt, Phone!Fresh, Phone!NoSample, Phone!Ages, Phone!Eldest

-----------------------------------------------------------------------------
(* How a quote comes about: ViewerQuote.                                    *)
QuoteInv == Quote!CacheIsTheRouters /\ Quote!RequestsAreRouted /\ Quote!RowsAreApart

LEMMA QuoteIdle == Quote!Free \in Quote!Request /\ Quote!Free.at = "free"
BY DEF Quote!Free, Quote!Request

(* Nothing is cached, nobody has tapped, and at most one quote is left from *)
(* before.                                                                  *)
LEMMA QuoteBegins == ASSUME Quote!Init PROVE QuoteInv
<1>1. Quote!CacheIsTheRouters
  BY DEF Quote!Init, Quote!CacheIsTheRouters
<1>2. Quote!RequestsAreRouted
  BY QuoteIdle DEF Quote!Init, Quote!RequestsAreRouted, Quote!IsOfTap, Quote!IsRouted
<1>3. Quote!RowsAreApart
  <2>1. PICK v \in Earlier, code \in QuoteCodes : s4 = {Quote!Row(v, code)}
    BY DEF Quote!Init
  <2>2. Quote!Row(v, code) \in [viewer : Askers \union Earlier, code : QuoteCodes, lapsed : BOOLEAN]
    BY DEF Quote!Row
  <2>3. QED
    BY <2>1, <2>2 DEF Quote!RowsAreApart
<1>4. QED
  BY <1>1, <1>2, <1>3 DEF QuoteInv

(* Points of the same bucket are next to each other.                        *)
LEMMA QuoteBuckets ==
  ASSUME NEW a \in Nat, NEW b \in Nat, Quote!Bucket(a) = Quote!Bucket(b)
  PROVE  Quote!Crow(a, b) <= 1
BY DEF Quote!Bucket, Quote!Crow

(* One request is another step, the others are where they were.             *)
LEMMA QuoteGoes ==
  ASSUME QuoteInv, NEW w \in Procs, NEW r \in Quote!Request, Quote!IsOfTap(r), Quote!IsRouted(r),
         s2' = [s2 EXCEPT ![w] = r]
  PROVE  Quote!RequestsAreRouted'
BY DEF QuoteInv, Quote!RequestsAreRouted

LEMMA QuoteEnds ==
  ASSUME QuoteInv, NEW w \in Procs, s2' = [s2 EXCEPT ![w] = Quote!Free] PROVE Quote!RequestsAreRouted'
BY QuoteGoes, QuoteIdle DEF Quote!IsOfTap, Quote!IsRouted

(* A request that goes on with the route that it has.                       *)
LEMMA QuoteGoesOn ==
  ASSUME QuoteInv, NEW w \in Procs, NEW at \in Quote!Steps \ {"store"}, s2' = [s2 EXCEPT ![w].at = at],
         s2[w].at # "free", at \in {"lock", "supersede", "insert"} => s2[w].at \in {"lock", "supersede", "insert"}
  PROVE  Quote!RequestsAreRouted'
<1> DEFINE r == [s2[w] EXCEPT !.at = at]
<1>1. s2' = [s2 EXCEPT ![w] = r]
  OBVIOUS
<1>2. s2[w] \in Quote!Request /\ Quote!IsOfTap(s2[w]) /\ Quote!IsRouted(s2[w])
  BY DEF QuoteInv, Quote!RequestsAreRouted
<1>3. r \in Quote!Request
  BY <1>2 DEF Quote!Request
<1>4. Quote!IsOfTap(r) /\ Quote!IsRouted(r)
  BY <1>2 DEF Quote!Request, Quote!IsOfTap, Quote!IsRouted, Quote!Steps
<1> HIDE DEF r
<1>5. QED
  BY <1>1, <1>3, <1>4, QuoteGoes

(* A request that has got a route.                                          *)
LEMMA QuoteGets ==
  ASSUME QuoteInv, NEW w \in Procs, NEW at \in {"store", "lock"}, NEW route, route # None,
         Quote!IsOfBuckets(route, Quote!Key(w)), at = "lock" => ~Quote!IsRefused(route),
         s2[w].at # "free", s2' = [s2 EXCEPT ![w].at = at, ![w].route = route]
  PROVE  Quote!RequestsAreRouted'
<1> DEFINE r == [s2[w] EXCEPT !.at = at, !.route = route]
<1>1. s2[w] \in Quote!Request /\ Quote!IsOfTap(s2[w])
  BY DEF QuoteInv, Quote!RequestsAreRouted
<1>2. s2' = [s2 EXCEPT ![w] = r]
  BY DEF QuoteInv, Quote!RequestsAreRouted
<1>3. r \in Quote!Request
  BY <1>1 DEF Quote!Request, Quote!Steps, Quote!IsOfBuckets
<1>4. Quote!IsOfTap(r) /\ Quote!IsRouted(r)
  BY <1>1 DEF Quote!Request, Quote!IsOfTap, Quote!IsRouted, Quote!Key
<1> HIDE DEF r
<1>5. QED
  BY <1>2, <1>3, <1>4, QuoteGoes

(* getWalkingRoute returns.                                                 *)
LEMMA QuoteRouted ==
  ASSUME QuoteInv, NEW w \in Procs, NEW route, route # None, Quote!IsOfBuckets(route, Quote!Key(w)),
         s2[w].at # "free", Quote!Routed(w, route)
  PROVE  Quote!RequestsAreRouted'
<1>1. CASE Quote!IsRefused(route)
  BY <1>1, QuoteEnds DEF Quote!Routed, Quote!Ends
<1>2. CASE ~Quote!IsRefused(route)
  BY <1>2, QuoteGets DEF Quote!Routed
<1>3. QED
  BY <1>1, <1>2

(* What is cached is the router's, a request has a route for its walk, and  *)
(* no two quotes are of one viewer or have one code, whatever fails, lapses *)
(* and goes on beside each other.                                           *)
LEMMA QuoteStep ==
  ASSUME QuoteInv, Quote!Next PROVE QuoteInv'
<1> USE PartsAssumption
<1>0. ASSUME NEW w \in Procs
      PROVE  /\ s2[w] \in Quote!Request
             /\ s2[w].at # "free" => s2[w].viewer \in Askers /\ <<s2[w].origin, s2[w].destination>> \in Quote!Walks
             /\ s2[w].at # "free" => Quote!Key(w) \in Quote!Keys
  <2>1. s2[w] \in Quote!Request /\ Quote!IsOfTap(s2[w])
    BY DEF QuoteInv, Quote!RequestsAreRouted
  <2>2. QED
    BY <2>1 DEF Quote!IsOfTap, Quote!Key, Quote!Keys, Quote!Walks
<1>1. ASSUME NEW w \in Procs, NEW v \in Askers, NEW d \in Marks, Quote!Tap(w, v, d) PROVE QuoteInv'
  <2>1. PICK pos \in Ground : s2' = [s2 EXCEPT ![w] = [Quote!Free EXCEPT !.at = "cache", !.viewer = v,
                                                   !.origin = pos, !.destination = d]]
    BY <1>1 DEF Quote!Tap
  <2> DEFINE r == [Quote!Free EXCEPT !.at = "cache", !.viewer = v, !.origin = pos, !.destination = d]
  <2>2. r \in Quote!Request /\ r.at = "cache" /\ r.viewer = v /\ r.origin = pos /\ r.destination = d
    BY QuoteIdle DEF Quote!Request, Quote!Steps
  <2>3. Quote!IsOfTap(r) /\ Quote!IsRouted(r)
    BY <1>1, <2>2 DEF Quote!IsOfTap, Quote!IsRouted, Quote!Walks, Quote!Tap
  <2> HIDE DEF r
  <2>4. Quote!RequestsAreRouted'
    BY <2>1, <2>2, <2>3, QuoteGoes DEF r
  <2>5. QED
    BY <1>1, <2>4 DEF QuoteInv, Quote!Tap, Quote!CacheIsTheRouters, Quote!RowsAreApart
<1>2. ASSUME NEW w \in Procs, Quote!ReadCache(w) PROVE QuoteInv'
  <2>1. Quote!RequestsAreRouted'
    <3>1. CASE s1[Quote!Key(w)] = None
      BY <1>2, <3>1, QuoteGoesOn DEF Quote!ReadCache, Quote!Goes, Quote!At, Quote!Steps
    <3>2. CASE s1[Quote!Key(w)] # None
      <4>1. s2[w].at # "free" /\ Quote!Routed(w, s1[Quote!Key(w)])
        BY <1>2, <3>2 DEF Quote!ReadCache, Quote!At
      <4>2. Quote!IsOfBuckets(s1[Quote!Key(w)], Quote!Key(w))
        BY <1>0, <3>2, <4>1 DEF QuoteInv, Quote!CacheIsTheRouters
      <4>3. QED
        BY <3>2, <4>1, <4>2, QuoteRouted
    <3>3. QED
      BY <3>1, <3>2
  <2>2. QED
    BY <1>2, <2>1 DEF QuoteInv, Quote!ReadCache, Quote!CacheIsTheRouters, Quote!RowsAreApart
<1>3. ASSUME NEW w \in Procs, Quote!AskRouter(w) PROVE QuoteInv'
  <2> DEFINE route == RouteOf[<<s2[w].origin, s2[w].destination>>]
  <2>1. Quote!RequestsAreRouted'
    <3>1. CASE route = None
      BY <1>3, <3>1, QuoteEnds DEF Quote!AskRouter, Quote!Ends
    <3>2. CASE route # None
      <4>1. s2[w].at # "free" /\ s2' = [s2 EXCEPT ![w].at = "store", ![w].route = route]
        BY <1>3, <3>2 DEF Quote!AskRouter, Quote!At
      <4>2. Quote!IsOfBuckets(route, Quote!Key(w))
        BY <1>0, <4>1 DEF Quote!IsOfBuckets, Quote!Key, Quote!Walks
      <4> HIDE DEF route
      <4>3. QED
        BY <3>2, <4>1, <4>2, QuoteGets
    <3>3. QED
      BY <3>1, <3>2
  <2>2. QED
    BY <1>3, <2>1 DEF QuoteInv, Quote!AskRouter, Quote!CacheIsTheRouters, Quote!RowsAreApart
<1>4. ASSUME NEW w \in Procs, Quote!StoreRoute(w) PROVE QuoteInv'
  <2>1. s2[w].at = "store" /\ s2[w].route # None /\ Quote!IsOfBuckets(s2[w].route, Quote!Key(w))
    BY <1>4 DEF QuoteInv, Quote!RequestsAreRouted, Quote!IsRouted, Quote!StoreRoute, Quote!At, Quote!Key
  <2>2. Quote!RequestsAreRouted'
    BY <1>4, <2>1, QuoteRouted DEF Quote!StoreRoute
  <2>3. Quote!CacheIsTheRouters'
    BY <1>0, <1>4, <2>1 DEF QuoteInv, Quote!StoreRoute, Quote!CacheIsTheRouters
  <2>4. QED
    BY <1>4, <2>2, <2>3 DEF QuoteInv, Quote!StoreRoute, Quote!RowsAreApart
<1>5. ASSUME NEW w \in Procs, Quote!Lock(w) PROVE QuoteInv'
  <2>1. Quote!RequestsAreRouted'
    BY <1>5, QuoteEnds, QuoteGoesOn DEF Quote!Lock, Quote!Ends, Quote!Goes, Quote!At, Quote!Steps
  <2>2. QED
    BY <1>5, <2>1 DEF QuoteInv, Quote!Lock, Quote!CacheIsTheRouters, Quote!RowsAreApart
<1>6. ASSUME NEW w \in Procs, Quote!Supersede(w) PROVE QuoteInv'
  <2>1. Quote!RequestsAreRouted'
    BY <1>6, QuoteGoesOn DEF Quote!Supersede, Quote!Goes, Quote!At, Quote!Steps
  <2>2. s4' \subseteq s4
    BY <1>6 DEF Quote!Supersede
  <2>3. QED
    BY <1>6, <2>1, <2>2 DEF QuoteInv, Quote!Supersede, Quote!CacheIsTheRouters, Quote!RowsAreApart
<1>7. ASSUME NEW w \in Procs, Quote!Insert(w) PROVE QuoteInv'
  <2>1. PICK code \in QuoteCodes :
           \/ Quote!Ends(w) /\ s4' = s4
           \/ s2' = [s2 EXCEPT ![w].tries = @ + 1] /\ s4' = s4
           \/ /\ ~Quote!Collides(code) /\ ~Quote!Conflicts(w)
              /\ s4' = s4 \union {Quote!Row(s2[w].viewer, code)}
              /\ Quote!Goes(w, "answer")
    BY <1>7 DEF Quote!Insert, Quote!Leaves
  <2>2. s2[w].at = "insert" /\ s1' = s1
    BY <1>7 DEF Quote!Insert, Quote!At
  <2>3. Quote!RequestsAreRouted'
    <3>1. CASE Quote!Ends(w)
      BY <3>1, QuoteEnds DEF Quote!Ends
    <3>2. CASE s2' = [s2 EXCEPT ![w].tries = @ + 1]
      <4> DEFINE r == [s2[w] EXCEPT !.tries = @ + 1]
      <4>1. s2[w] \in Quote!Request /\ Quote!IsOfTap(s2[w]) /\ Quote!IsRouted(s2[w])
        BY DEF QuoteInv, Quote!RequestsAreRouted
      <4>2. r \in Quote!Request /\ Quote!IsOfTap(r) /\ Quote!IsRouted(r)
        BY <4>1 DEF Quote!Request, Quote!IsOfTap, Quote!IsRouted
      <4>3. s2' = [s2 EXCEPT ![w] = r]
        BY <3>2
      <4> HIDE DEF r
      <4>4. QED
        BY <4>2, <4>3, QuoteGoes
    <3>3. CASE Quote!Goes(w, "answer")
      BY <2>2, <3>3, QuoteGoesOn DEF Quote!Goes, Quote!Steps
    <3>4. QED
      BY <2>1, <3>1, <3>2, <3>3
  <2>4. Quote!RowsAreApart'
    <3>1. CASE s4' = s4
      BY <3>1 DEF QuoteInv, Quote!RowsAreApart
    <3>2. CASE /\ ~Quote!Collides(code) /\ ~Quote!Conflicts(w)
               /\ s4' = s4 \union {Quote!Row(s2[w].viewer, code)}
      <4>1. PICK v \in Askers : v = s2[w].viewer
        BY <1>0, <2>2
      <4>2. /\ Quote!Row(v, code) \in [viewer : Askers \union Earlier, code : QuoteCodes, lapsed : BOOLEAN]
            /\ Quote!Row(v, code).viewer = v /\ Quote!Row(v, code).code = code
        BY DEF Quote!Row
      <4>3. \A q \in s4 : q.code # code /\ q.viewer # v
        BY <3>2, <4>1 DEF Quote!Collides, Quote!Conflicts, Quote!LiveOf
      <4>4. QED
        BY <3>2, <4>1, <4>2, <4>3 DEF QuoteInv, Quote!RowsAreApart
    <3>3. QED
      BY <2>1, <3>1, <3>2
  <2>5. QED
    BY <2>2, <2>3, <2>4 DEF QuoteInv, Quote!CacheIsTheRouters
<1>8. ASSUME NEW w \in Procs, Quote!CacheQuote(w) \/ Quote!CallFails(w) PROVE QuoteInv'
  <2>1. Quote!Ends(w) /\ s1' = s1 /\ s4' = s4
    BY <1>8 DEF Quote!CacheQuote, Quote!CallFails, Quote!Leaves
  <2>2. QED
    BY <2>1, QuoteEnds DEF QuoteInv, Quote!Ends, Quote!CacheIsTheRouters, Quote!RowsAreApart
<1>9. ASSUME NEW k \in Quote!Keys, Quote!Forget(k) PROVE QuoteInv'
  BY <1>9 DEF QuoteInv, Quote!Forget, Quote!CacheIsTheRouters, Quote!RequestsAreRouted, Quote!RowsAreApart
<1>10. ASSUME NEW v \in Askers, Quote!LockLapses(v) PROVE QuoteInv'
  BY <1>10 DEF QuoteInv, Quote!LockLapses, Quote!CacheIsTheRouters, Quote!RequestsAreRouted, Quote!RowsAreApart
<1>11. ASSUME NEW q \in s4, Quote!Lapse(q) PROVE QuoteInv'
  <2>1. PICK new : new = [q EXCEPT !.lapsed = TRUE]
    OBVIOUS
  <2>2. /\ new \in [viewer : Askers \union Earlier, code : QuoteCodes, lapsed : BOOLEAN]
        /\ new.viewer = q.viewer /\ new.code = q.code
    BY <2>1 DEF QuoteInv, Quote!RowsAreApart
  <2>3. s4' = (s4 \ {q}) \union {new}
    BY <1>11, <2>1 DEF Quote!Lapse
  <2>4. Quote!RowsAreApart'
    BY <2>2, <2>3 DEF QuoteInv, Quote!RowsAreApart
  <2>5. QED
    BY <1>11, <2>4 DEF QuoteInv, Quote!Lapse, Quote!CacheIsTheRouters, Quote!RequestsAreRouted
<1>12. ASSUME NEW q \in s4, Quote!Closes(q) PROVE QuoteInv'
  BY <1>12 DEF QuoteInv, Quote!Closes, Quote!CacheIsTheRouters, Quote!RequestsAreRouted, Quote!RowsAreApart
<1>13. QED
  BY <1>1, <1>2, <1>3, <1>4, <1>5, <1>6, <1>7, <1>8, <1>9, <1>10, <1>11, <1>12 DEF Quote!Next

(* The route of a quote is the router's for a walk that is next to its own. *)
LEMMA QuoteIsRouted == ASSUME QuoteInv PROVE Quote!QuotedAsRouted
<1> USE PartsAssumption
<1>1. ASSUME NEW w \in Procs, Quote!At(w, "insert")
      PROVE  /\ s2[w].destination \notin NoGo
             /\ s2[w].route.distance <= MaxWalk /\ s2[w].route.snap <= MaxSnap
             /\ \E p \in DOMAIN RouteOf :
                  /\ RouteOf[p] = s2[w].route
                  /\ Quote!Crow(p[1], s2[w].origin) <= 1 /\ Quote!Crow(p[2], s2[w].destination) <= 1
  <2>1. /\ <<s2[w].origin, s2[w].destination>> \in Quote!Walks
        /\ Quote!IsOfBuckets(s2[w].route, Quote!KeyFor(s2[w].origin, s2[w].destination))
        /\ s2[w].route # None /\ ~Quote!IsRefused(s2[w].route)
    BY <1>1 DEF QuoteInv, Quote!RequestsAreRouted, Quote!IsOfTap, Quote!IsRouted, Quote!At
  <2>2. PICK p \in Quote!Walks :
          s2[w].route = RouteOf[p] /\ Quote!KeyFor(s2[w].origin, s2[w].destination) = Quote!KeyFor(p[1], p[2])
    BY <2>1 DEF Quote!IsOfBuckets
  <2>3. s2[w].origin \in Nat /\ s2[w].destination \in Nat \ NoGo /\ p[1] \in Nat /\ p[2] \in Nat /\ p \in DOMAIN RouteOf
    BY <2>1, <2>2 DEF Quote!Walks
  <2>4. Quote!Crow(p[1], s2[w].origin) <= 1 /\ Quote!Crow(p[2], s2[w].destination) <= 1
    BY <2>2, <2>3, QuoteBuckets DEF Quote!KeyFor
  <2>5. s2[w].route.distance <= MaxWalk /\ s2[w].route.snap <= MaxSnap
    <3>1. s2[w].route \in [distance : Nat, snap : Nat]
      BY <2>1, <2>2 DEF Quote!Walks
    <3>2. QED
      BY <2>1, <3>1 DEF Quote!IsRefused
  <2>6. QED
    BY <2>2, <2>3, <2>4, <2>5
<1>2. QED
  BY <1>1 DEF QuoteInv, Quote!RowsAreApart, Quote!QuotedAsRouted

LEMMA QuoteStays == ASSUME QuoteInv, UNCHANGED <<s1, s2, s3, s4, s5>> PROVE QuoteInv'
BY DEF QuoteInv, Quote!CacheIsTheRouters, Quote!RequestsAreRouted, Quote!RowsAreApart

-----------------------------------------------------------------------------
(* A page's call: ApiCall.                                                  *)
CallInv == Call!EndsOnce /\ Call!ToldIsSo

LEMMA CallBegins == ASSUME Call!Init PROVE CallInv
BY DEF Call!Init, CallInv, Call!EndsOnce, Call!ToldIsSo

(* Each code has its status.                                                *)
LEMMA CallStatus ==
  /\ Call!Codes = {"needs_login", "forbidden", "price_changed", "provider_error", "not_found",
                   "invalid_request", "internal"}
  /\ \A c \in Call!Codes :
       /\ Call!HttpStatus[c] \in {401, 403, 404, 409, 422, 500, 502}
       /\ Call!HttpStatus[c] \in {401, 403} <=> c \in Call!IdentityCodes
       /\ Call!HttpStatus[c] = 502 <=> c = "provider_error"
BY DEF Call!Codes, Call!HttpStatus, Call!IdentityCodes

(* The API says in JSON what went wrong, by a code of its own.              *)
CallOfApi(a) ==
  /\ a \in Call!Response /\ a.from = "api"
  /\ ~Call!IsOk(a.status) => a.text = "json" /\ a.code \in Call!Codes
  /\ a.status \in {401, 403} => a.code \in Call!IdentityCodes
  /\ a.code = "internal" => a.status = 500

LEMMA CallApi == ASSUME NEW a \in Call!FromApi PROVE CallOfApi(a)
<1> USE PartsAssumption, CallStatus DEF Call!IdentityCodes, Call!IsOk
<1>1. CASE a = Call!Reply(200, None, FALSE)
  BY <1>1 DEF CallOfApi, Call!Reply, Call!Response
<1>2. CASE a = [Call!Reply(204, None, FALSE) EXCEPT !.text = "empty"]
  <2> DEFINE r == Call!Reply(204, None, FALSE)
  <2>1. r \in Call!Response /\ r.from = "api" /\ r.status = 204 /\ r.code = None
    BY DEF Call!Reply, Call!Response
  <2> HIDE DEF r
  <2>2. a = [r EXCEPT !.text = "empty"]
    BY <1>2 DEF r
  <2>3. a \in Call!Response /\ a.from = "api" /\ a.status = 204 /\ a.code = None
    BY <2>1, <2>2 DEF Call!Response
  <2>4. QED
    BY <2>3 DEF CallOfApi
<1>3. ASSUME NEW c \in Call!Codes, NEW russian \in BOOLEAN, a = Call!Reply(Call!HttpStatus[c], c, russian)
      PROVE  CallOfApi(a)
  <2>1. /\ Call!HttpStatus[c] \in Nat /\ (Call!HttpStatus[c] \in {401, 403} => c \in Call!IdentityCodes)
        /\ c = "internal" => Call!HttpStatus[c] = 500
    BY DEF Call!HttpStatus
  <2>2. QED
    BY <1>3, <2>1 DEF CallOfApi, Call!Reply, Call!Response
<1>4. CASE a = Call!InvalidRequest
  BY <1>4 DEF CallOfApi, Call!Reply, Call!Response, Call!InvalidRequest
<1>5. CASE a = Call!NoRoute
  BY <1>5 DEF CallOfApi, Call!Reply, Call!Response, Call!NoRoute
<1>6. CASE a = Call!Rejected(413)
  <2>1. a = Call!Reply(413, "invalid_request", FALSE)
    BY <1>6 DEF Call!Rejected
  <2>2. QED
    BY <2>1 DEF CallOfApi, Call!Reply, Call!Response
<1>7. CASE a = Call!Rejected(500)
  <2>1. a = Call!Reply(500, "internal", FALSE)
    BY <1>7 DEF Call!Rejected
  <2>2. QED
    BY <2>1 DEF CallOfApi, Call!Reply, Call!Response
<1>8. CASE a \in Call!Handled
  <2> DEFINE said == Call!Reply(200, None, FALSE)
             empty == [Call!Reply(204, None, FALSE) EXCEPT !.text = "empty"]
             failures == {Call!Reply(Call!HttpStatus[c], c, russian) : c \in Call!Codes, russian \in BOOLEAN}
  <2>1. Call!Handled = {said, empty} \union failures
    BY DEF Call!Handled
  <2>2. ASSUME a \in failures PROVE CallOfApi(a)
    <3>1. PICK c \in Call!Codes, russian \in BOOLEAN : a = Call!Reply(Call!HttpStatus[c], c, russian)
      BY <2>2
    <3>2. QED
      BY <1>3, <3>1
  <2>3. (a = said => CallOfApi(a)) /\ (a = empty => CallOfApi(a))
    BY <1>1, <1>2
  <2> HIDE DEF said, empty, failures
  <2>4. QED
    BY <1>8, <2>1, <2>2, <2>3
<1>9. QED
  BY <1>4, <1>5, <1>6, <1>7, <1>8 DEF Call!FromApi

(* Whoever answers says something.                                          *)
LEMMA CallAnswers ==
  ASSUME NEW a \in Call!FromApi \union Call!FromFront
  PROVE  a \in Call!Response /\ a # None /\ (a.from = "api" => CallOfApi(a))
<1>1. a \in Call!FromApi => a \in Call!Response /\ CallOfApi(a)
  BY CallApi DEF CallOfApi
<1>2. a \in Call!FromFront => a \in Call!Response /\ a.from = "front"
  <2>1. {FALSE} \subseteq BOOLEAN
    BY Zenon
  <2> DEFINE no == {FALSE}
  <2>2. no \subseteq BOOLEAN
    BY <2>1
  <2>3. Call!FromFront = [from : {"front"}, status : {200, 204, 403, 500, 502}, text : {"empty", "prose", "json"},
                          code : {None, Call!Strange}, russian : no]
    BY DEF Call!FromFront
  <2> HIDE DEF no
  <2>4. QED
    BY <2>2, <2>3 DEF Call!Response
<1>3. None \notin Call!Response
  BY PartsAssumption, CallStatus DEF Call!Response, Call!Strange
<1>4. QED
  BY <1>1, <1>2, <1>3

(* What is told of an answer that was read.                                 *)
LEMMA CallTells ==
  ASSUME NEW a \in Call!FromApi \union Call!FromFront,
         NEW r, r = Call!Parsed(a), s3' = a, s5' = r, s1'.purchase \in BOOLEAN, ~s4'
  PROVE  Call!ToldIsSo'
<1> DEFINE purchase == s1'.purchase
           told == Call!ViewerMessage(s5', purchase)
<1> USE PartsAssumption, CallStatus
<1>1. a \in Call!Response /\ a # None /\ (a.from = "api" => CallOfApi(a))
  BY CallAnswers
<1>2. CASE Call!IsOk(a.status)
  BY <1>1, <1>2 DEF Call!ToldIsSo, Call!Parsed, Call!Settled
<1>3. CASE ~Call!IsOk(a.status)
  <2>1. /\ r.kind = "failure" /\ r.status = a.status /\ r.foreign = (a.text # "json")
        /\ r.code = (IF a.text # "json" \/ a.code = None THEN "internal" ELSE a.code)
        /\ r.russian = (a.text = "json" /\ a.russian)
    BY <1>3 DEF Call!Parsed
  <2>2. a.from = "api" => told # "network" /\ r.code = a.code
    <3>1. SUFFICES ASSUME a.from = "api" PROVE told # "network" /\ r.code = a.code
      OBVIOUS
    <3>2. /\ r.code = a.code /\ r.code \in Call!Codes /\ ~r.foreign
          /\ r.code = "internal" => r.status = 500
      <4>1. a.text = "json" /\ a.code \in Call!Codes /\ (a.code = "internal" => a.status = 500)
        BY <1>1, <1>3, <3>1 DEF CallOfApi
      <4>2. a.code # None
        BY <4>1
      <4>3. r.code = a.code
        BY <2>1, <4>1, <4>2
      <4>4. ~r.foreign
        <5>1. r.foreign = (a.text # "json")
          BY <2>1
        <5> HIDE PartsAssumption, CallStatus
        <5>2. QED
          BY <4>1, <5>1
      <4>5. QED
        BY <2>1, <4>1, <4>3, <4>4
    <3>3. ~Call!IsNetworkFailure(r)
      BY <2>1, <3>2 DEF Call!IsNetworkFailure, Call!GatewayStatuses
    <3>4. QED
      BY <3>2, <3>3 DEF Call!ViewerMessage, Call!HasSentence
  <2>3. a.from = "front" /\ a.status = 502 /\ a.code = None => told = "network"
    BY <1>1, <2>1 DEF Call!ViewerMessage, Call!IsNetworkFailure, Call!GatewayStatuses
  <2>4. a.from = "api" /\ purchase /\ a.status \in {401, 403} => told = "identity"
    BY <1>1, <1>3, <2>1, <2>2 DEF CallOfApi, Call!ViewerMessage, Call!IdentityCodes
  <2>5. told = "generic" => Call!IsUnexplained(r)
    BY <1>1, <2>1 DEF Call!ViewerMessage, Call!IsUnexplained, Call!HasSentence
  <2>6. QED
    BY <1>1, <1>3, <2>1, <2>2, <2>3, <2>4, <2>5 DEF Call!ToldIsSo, told
<1>4. QED
  BY <1>2, <1>3

(* What is told of a call that did not get to its end.                      *)
LEMMA CallBreaks ==
  ASSUME NEW kind \in {"TypeError", "AbortError", "TimeoutError"}, s5' = Call!Settled(kind),
         kind = "AbortError" <=> s4'
  PROVE  Call!ToldIsSo'
BY DEF Call!ToldIsSo, Call!Settled, Call!ViewerMessage, Call!IsNetworkFailure, Call!IsUnexplained

(* A call ends once, and what is told of it is so.                          *)
LEMMA CallStep ==
  ASSUME CallInv, Call!Next PROVE CallInv'
<1> USE DEF CallInv
<1>1. CASE Call!Request
  BY <1>1 DEF Call!Request, Call!EndsOnce, Call!ToldIsSo
<1>2. CASE Call!Answer
  <2>1. s3' \in Call!FromApi \union Call!FromFront /\ s1.at = "sent" /\ s4' = FALSE
    BY <1>2 DEF Call!Answer, Call!EndsOnce
  <2>2. CASE s3'.status = 204
    <3>1. s1' = [s1 EXCEPT !.at = "ended"] /\ s5' = Call!Settled("data")
      BY <1>2, <2>2 DEF Call!Answer, Call!End
    <3>2. Call!EndsOnce'
      BY <2>1, <3>1 DEF Call!EndsOnce
    <3>3. Call!IsOk(s3'.status) /\ s5'.kind = "data"
      BY <2>2, <3>1 DEF Call!IsOk, Call!Settled
    <3>4. s3' # None
      BY <2>1, CallAnswers
    <3>5. QED
      BY <2>1, <3>2, <3>3, <3>4 DEF Call!ToldIsSo
  <2>3. CASE s3'.status # 204
    BY <1>2, <2>1, <2>3 DEF Call!Answer, Call!EndsOnce, Call!ToldIsSo
  <2>4. QED
    BY <2>2, <2>3
<1>3. CASE Call!Read
  <2>1. /\ s3 \in Call!FromApi \union Call!FromFront /\ s3' = s3 /\ s4' = FALSE /\ s5' = Call!Parsed(s3)
        /\ s1' = [s1 EXCEPT !.at = "ended"] /\ s1.purchase \in BOOLEAN
    BY <1>3 DEF Call!Read, Call!End, Call!EndsOnce
  <2>2. Call!EndsOnce' /\ s1'.purchase = s1.purchase
    BY <2>1 DEF Call!EndsOnce
  <2>3. QED
    BY <2>1, <2>2, CallTells
<1>4. CASE Call!Break \/ Call!CallerAborts \/ Call!Deadline
  <2>1. PICK kind \in {"TypeError", "AbortError", "TimeoutError"} :
          /\ s1' = [s1 EXCEPT !.at = "ended"] /\ s5' = Call!Settled(kind)
          /\ (kind = "AbortError" <=> s4') /\ s3' = s3
    <3>1. ~s4
      BY <1>4 DEF Call!Break, Call!CallerAborts, Call!Deadline, Call!UnderWay, Call!EndsOnce
    <3>2. CASE Call!Break
      BY <3>1, <3>2 DEF Call!Break, Call!End
    <3>3. CASE Call!CallerAborts
      BY <3>3 DEF Call!CallerAborts, Call!End, Call!Rejection
    <3>4. CASE Call!Deadline
      BY <3>1, <3>4 DEF Call!Deadline, Call!End, Call!Reported
    <3>5. QED
      BY <1>4, <3>2, <3>3, <3>4
  <2>2. Call!EndsOnce'
    BY <2>1 DEF Call!EndsOnce
  <2>3. QED
    BY <2>1, <2>2, CallBreaks
<1>5. QED
  BY <1>1, <1>2, <1>3, <1>4 DEF Call!Next

LEMMA CallStays == ASSUME CallInv, UNCHANGED <<s1, s2, s3, s4, s5>> PROVE CallInv'
BY DEF CallInv, Call!EndsOnce, Call!ToldIsSo

-----------------------------------------------------------------------------
(* The trip to Twitch: OAuthConnect.                                        *)
OAuthInv == OAuth!TripsAreTyped /\ OAuth!OneToConnect /\ OAuth!RestIsWarnedOf

LEMMA OAuthIdle == OAuth!Idle.at = "idle" /\ OAuth!Idle \notin OAuth!Trip
BY DEF OAuth!Idle, OAuth!Trip

LEMMA OAuthNone == None \notin {"fresh", "old"} /\ None \notin OAuth!Grant
BY PartsAssumption DEF OAuth!Grant, OAuth!Accounts, OAuth!Scopes

(* Nobody has gone to Twitch.                                               *)
LEMMA OAuthBegins == ASSUME OAuth!Init PROVE OAuthInv
<1>1. OAuth!TripsAreTyped
  BY DEF OAuth!Init, OAuth!TripsAreTyped, OAuth!IsTrip
<1>2. \A h \in Procs : s3[h].at = "idle"
  BY OAuthIdle DEF OAuth!Init
<1>3. OAuth!OneToConnect
  BY <1>2 DEF OAuth!Init, OAuth!OneToConnect, OAuth!IsConnecting
<1>4. OAuth!RestIsWarnedOf
  BY <1>2 DEF OAuth!Init, OAuth!RestIsWarnedOf, OAuth!IsConnecting, OAuth!Warns, OAuth!Accounts
<1>5. QED
  BY <1>1, <1>3, <1>4 DEF OAuthInv

(* A handler that ends leaves the others as they were.                      *)
LEMMA OAuthEnds ==
  ASSUME OAuthInv, NEW h \in Procs, s3' = [s3 EXCEPT ![h] = OAuth!Idle], UNCHANGED <<s1, s2, s5, s6>>
  PROVE  OAuthInv'
<1>1. \A k \in Procs : s3'[k] = s3[k] \/ s3'[k] = OAuth!Idle
  BY DEF OAuthInv, OAuth!TripsAreTyped
<1>2. OAuth!TripsAreTyped'
  BY <1>1 DEF OAuthInv, OAuth!TripsAreTyped, OAuth!IsTrip
<1>3. OAuth!OneToConnect'
  BY <1>1, OAuthIdle DEF OAuthInv, OAuth!OneToConnect, OAuth!IsConnecting
<1>4. OAuth!RestIsWarnedOf'
  BY <1>1, OAuthIdle DEF OAuthInv, OAuth!RestIsWarnedOf, OAuth!Warns, OAuth!IsConnecting
<1>5. QED
  BY <1>2, <1>3, <1>4 DEF OAuthInv

(* One handler to a visit, which has not been connected, and warnings of    *)
(* all that is missing, however callbacks are repeated, fail and die.       *)
LEMMA OAuthStep ==
  ASSUME OAuthInv, OAuth!Next PROVE OAuthInv'
<1> USE OAuthNone
<1>1. ASSUME NEW v \in Visits, OAuth!Start(v) PROVE OAuthInv'
  <2>1. /\ UNCHANGED <<s2, s3, s5, s6>> /\ s2[v] = None /\ s6[v] = 0 /\ DOMAIN s1' = Visits
        /\ \A u \in Visits \ {v} : s1'[u] \in {s1[u], None}
    BY <1>1 DEF OAuth!Start
  <2>2. OAuth!TripsAreTyped'
    BY <2>1 DEF OAuthInv, OAuth!TripsAreTyped, OAuth!IsTrip
  <2>3. ASSUME NEW h \in Procs, OAuth!IsConnecting(s3[h]) PROVE s3[h].visit \in Visits \ {v}
    BY <2>1, <2>3, OAuthIdle DEF OAuthInv, OAuth!TripsAreTyped, OAuth!IsTrip, OAuth!IsConnecting, OAuth!Trip
  <2>4. OAuth!OneToConnect'
    BY <2>1, <2>3 DEF OAuthInv, OAuth!OneToConnect, OAuth!IsConnecting
  <2>5. QED
    BY <2>1, <2>2, <2>4 DEF OAuthInv, OAuth!RestIsWarnedOf, OAuth!Warns, OAuth!IsConnecting
<1>2. ASSUME NEW v \in Visits, OAuth!Approve(v) PROVE OAuthInv'
  <2>1. PICK account \in OAuth!Accounts, scopes \in OAuth!Scopes :
           s2' = [s2 EXCEPT ![v] = [account |-> account, scopes |-> scopes, spent |-> FALSE]]
    BY <1>2 DEF OAuth!Approve
  <2>2. s2[v] = None /\ UNCHANGED <<s1, s3, s5, s6>>
    BY <1>2 DEF OAuth!Approve
  <2>3. [account |-> account, scopes |-> scopes, spent |-> FALSE] \in OAuth!Grant
    BY DEF OAuth!Grant
  <2>4. None \notin OAuth!Grant
    BY DEF OAuth!Grant, OAuth!Accounts, OAuth!Scopes
  <2>5. OAuth!TripsAreTyped'
    BY <2>1, <2>2, <2>3, <2>4 DEF OAuthInv, OAuth!TripsAreTyped, OAuth!IsTrip
  <2>6. ASSUME NEW h \in Procs PROVE s3[h].at = "idle" \/ s2'[s3[h].visit] = s2[s3[h].visit]
    BY <2>1, <2>2, OAuthIdle DEF OAuthInv, OAuth!TripsAreTyped, OAuth!IsTrip
  <2>7. OAuth!RestIsWarnedOf'
    BY <2>2, <2>6 DEF OAuthInv, OAuth!RestIsWarnedOf, OAuth!Warns, OAuth!IsConnecting
  <2>8. QED
    BY <2>2, <2>5, <2>7 DEF OAuthInv, OAuth!OneToConnect, OAuth!IsConnecting
<1>3. ASSUME NEW v \in Visits, OAuth!TenMinutes(v) PROVE OAuthInv'
  <2>1. s1[v] # None /\ s1' = [s1 EXCEPT ![v] = "old"] /\ UNCHANGED <<s2, s3, s5, s6>>
    BY <1>3 DEF OAuth!TenMinutes
  <2>2. OAuth!TripsAreTyped'
    BY <2>1 DEF OAuthInv, OAuth!TripsAreTyped, OAuth!IsTrip
  <2>3. ASSUME NEW h \in Procs, OAuth!IsConnecting(s3[h]) PROVE s3[h].visit # v
    BY <2>1, <2>3 DEF OAuthInv, OAuth!OneToConnect
  <2>4. OAuth!OneToConnect'
    BY <2>1, <2>3 DEF OAuthInv, OAuth!TripsAreTyped, OAuth!OneToConnect, OAuth!IsConnecting
  <2>5. QED
    BY <2>1, <2>2, <2>4 DEF OAuthInv, OAuth!RestIsWarnedOf, OAuth!Warns, OAuth!IsConnecting
<1>4. ASSUME NEW h \in Procs, NEW v \in Visits, OAuth!Callback(h, v) PROVE OAuthInv'
  <2> DEFINE trip == [at |-> "exchange", visit |-> v, todo |-> OAuth!Steps, warned |-> {}]
  <2>1. /\ s3[h] = OAuth!Idle /\ s2[v] # None /\ s1' = [s1 EXCEPT ![v] = None] /\ UNCHANGED <<s2, s5, s6>>
        /\ s3' = [s3 EXCEPT ![h] = IF s1[v] = "fresh" THEN trip ELSE OAuth!Idle]
    BY <1>4 DEF OAuth!Callback, OAuth!Taken
  <2>2. trip \in OAuth!Trip /\ trip.at = "exchange" /\ trip.visit = v /\ trip.todo = OAuth!Steps
    BY DEF OAuth!Trip
  <2> HIDE DEF trip
  <2>3. OAuth!TripsAreTyped'
    BY <2>1, <2>2 DEF OAuthInv, OAuth!TripsAreTyped, OAuth!IsTrip
  <2>4. OAuth!RestIsWarnedOf'
    BY <2>1, <2>2, OAuthIdle DEF OAuthInv, OAuth!TripsAreTyped, OAuth!RestIsWarnedOf, OAuth!Warns, OAuth!IsConnecting
  <2>5. CASE s1[v] = "fresh"
    <3>1. s6[v] = 0 /\ \A k \in Procs : OAuth!IsConnecting(s3[k]) => s3[k].visit # v
      BY <2>5 DEF OAuthInv, OAuth!OneToConnect
    <3>2. s3'[h] = trip /\ \A k \in Procs \ {h} : s3'[k] = s3[k]
      BY <2>1, <2>5 DEF OAuthInv, OAuth!TripsAreTyped
    <3>3. s1'[v] = None /\ \A u \in Visits \ {v} : s1'[u] = s1[u]
      BY <2>1 DEF OAuthInv, OAuth!TripsAreTyped
    <3>4. \A k \in Procs \ {h} : OAuth!IsConnecting(s3[k]) => s3[k].visit \in Visits
      BY OAuthIdle DEF OAuthInv, OAuth!TripsAreTyped, OAuth!IsTrip, OAuth!IsConnecting, OAuth!Trip
    <3>5. OAuth!OneToConnect'
      BY <2>1, <2>2, <3>1, <3>2, <3>3, <3>4 DEF OAuthInv, OAuth!OneToConnect, OAuth!IsConnecting
    <3>6. QED
      BY <2>3, <2>4, <3>5 DEF OAuthInv
  <2>6. CASE s1[v] # "fresh"
    <3>1. \A k \in Procs : s3'[k] = s3[k]
      BY <2>1, <2>6 DEF OAuthInv, OAuth!TripsAreTyped
    <3>2. \A u \in Visits : s1'[u] \in {s1[u], None}
      BY <2>1 DEF OAuthInv, OAuth!TripsAreTyped
    <3>3. \A k \in Procs : OAuth!IsConnecting(s3[k]) => s3[k].visit \in Visits
      BY OAuthIdle DEF OAuthInv, OAuth!TripsAreTyped, OAuth!IsTrip, OAuth!IsConnecting, OAuth!Trip
    <3>4. OAuth!OneToConnect'
      BY <2>1, <3>1, <3>2, <3>3 DEF OAuthInv, OAuth!OneToConnect, OAuth!IsConnecting
    <3>5. QED
      BY <2>3, <2>4, <3>4 DEF OAuthInv
  <2>7. QED
    BY <2>5, <2>6
<1>5. ASSUME NEW h \in Procs, OAuth!Fail(h) \/ OAuth!Answer(h) \/ OAuth!Die(h) PROVE OAuthInv'
  BY <1>5, OAuthEnds DEF OAuth!Fail, OAuth!Answer, OAuth!Die
<1>6. ASSUME NEW h \in Procs, s3[h].at \in {"exchange", "store", "set up"}
      PROVE  s3[h] \in OAuth!Trip /\ s3[h].visit \in Visits /\ s2[s3[h].visit] \in OAuth!Grant /\ OAuth!Warns(s3[h])
  <2>1. s3[h] \in OAuth!Trip /\ s2[s3[h].visit] # None
    BY <1>6, OAuthIdle DEF OAuthInv, OAuth!TripsAreTyped, OAuth!IsTrip
  <2>2. s3[h].visit \in Visits
    BY <2>1 DEF OAuth!Trip
  <2>3. QED
    BY <2>1, <2>2 DEF OAuthInv, OAuth!TripsAreTyped, OAuth!RestIsWarnedOf
<1>7. ASSUME NEW h \in Procs, OAuth!Exchange(h) PROVE OAuthInv'
  <2>1. PICK v \in Visits : v = s3[h].visit
    BY <1>6, <1>7 DEF OAuth!Exchange
  <2>2. /\ s3[h].at = "exchange" /\ UNCHANGED <<s1, s5, s6>> /\ s2' = [s2 EXCEPT ![v].spent = TRUE]
        /\ s3' = [s3 EXCEPT ![h] = IF s2[v].spent THEN OAuth!Idle ELSE [@ EXCEPT !.at = "store"]]
    BY <1>7, <2>1 DEF OAuth!Exchange
  <2>3. s2[v] \in OAuth!Grant /\ s3[h] \in OAuth!Trip
    BY <1>6, <2>1, <2>2
  <2>4. s2'[v] \in OAuth!Grant /\ s2'[v].spent /\ s2'[v].account = s2[v].account /\ s2'[v].scopes = s2[v].scopes
    BY <2>2, <2>3 DEF OAuthInv, OAuth!TripsAreTyped, OAuth!Grant
  <2>5. \A u \in Visits \ {v} : s2'[u] = s2[u]
    BY <2>2 DEF OAuthInv, OAuth!TripsAreTyped
  <2>6. None \notin OAuth!Grant
    BY DEF OAuth!Grant, OAuth!Accounts, OAuth!Scopes
  <2>7. PICK trip : trip = [s3[h] EXCEPT !.at = "store"]
    OBVIOUS
  <2>8. trip \in OAuth!Trip /\ trip.at = "store" /\ trip.visit = v /\ trip.todo = s3[h].todo
    BY <2>1, <2>3, <2>7 DEF OAuth!Trip
  <2>9. s3'[h] \in {OAuth!Idle, trip} /\ \A k \in Procs \ {h} : s3'[k] = s3[k]
    BY <2>2, <2>7 DEF OAuthInv, OAuth!TripsAreTyped
  <2>10. OAuth!TripsAreTyped'
    <3>1. s2' \in [Visits -> OAuth!Grant \union {None}] /\ DOMAIN s3' = Procs
      BY <2>2, <2>4 DEF OAuthInv, OAuth!TripsAreTyped
    <3>2. ASSUME NEW k \in Procs PROVE OAuth!IsTrip(s3[k])'
      <4>1. s2'[v] # None
        BY <2>4, <2>6
      <4>2. CASE k = h
        BY <2>8, <2>9, <4>1, <4>2 DEF OAuth!IsTrip
      <4>3. CASE k # h
        <5>1. s3'[k] = s3[k] /\ OAuth!IsTrip(s3[k])
          BY <2>9, <4>3 DEF OAuthInv, OAuth!TripsAreTyped
        <5>2. s3[k] \in OAuth!Trip => s3[k].visit \in Visits
          BY DEF OAuth!Trip
        <5>3. QED
          BY <2>5, <4>1, <5>1, <5>2 DEF OAuth!IsTrip
      <4>4. QED
        BY <4>2, <4>3
    <3>3. QED
      BY <2>2, <3>1, <3>2 DEF OAuthInv, OAuth!TripsAreTyped
  <2>11. OAuth!OneToConnect'
    BY <2>1, <2>2, <2>8, <2>9, OAuthIdle DEF OAuthInv, OAuth!OneToConnect, OAuth!IsConnecting
  <2>12. ASSUME NEW k \in Procs PROVE OAuth!Warns(s3[k])'
    <3>1. CASE k = h
      <4>1. s3[h].todo = OAuth!Steps
        BY <1>6, <2>2 DEF OAuth!Warns, OAuth!IsConnecting
      <4>2. QED
        BY <2>4, <2>8, <2>9, <3>1, <4>1, OAuthIdle DEF OAuth!Warns, OAuth!IsConnecting
    <3>2. CASE k # h /\ s3[k].at \in {"exchange", "store", "set up"}
      <4>1. s3'[k] = s3[k] /\ OAuth!Warns(s3[k])
        BY <1>6, <2>9, <3>2
      <4>2. PICK u \in Visits : u = s3[k].visit
        BY <1>6, <3>2
      <4>3. s2'[u].account = s2[u].account /\ s2'[u].scopes = s2[u].scopes /\ (s2[u].spent => s2'[u].spent)
        BY <2>4, <2>5
      <4>4. QED
        BY <2>2, <4>1, <4>2, <4>3 DEF OAuth!Warns, OAuth!IsConnecting
    <3>3. CASE k # h /\ s3[k].at \notin {"exchange", "store", "set up"}
      BY <2>9, <3>3 DEF OAuth!Warns, OAuth!IsConnecting
    <3>4. QED
      BY <3>1, <3>2, <3>3
  <2>13. QED
    BY <2>2, <2>10, <2>11, <2>12 DEF OAuthInv, OAuth!RestIsWarnedOf
<1>8. ASSUME NEW h \in Procs, OAuth!Store(h) PROVE OAuthInv'
  <2>1. PICK v \in Visits : v = s3[h].visit
    BY <1>6, <1>8 DEF OAuth!Store
  <2>2. PICK warned : warned = (IF s2[v].scopes = "some" THEN {"scopes"} ELSE {})
                                 \union (IF s2[v].account = "foreign" THEN {"account"} ELSE {})
    OBVIOUS
  <2>3. PICK trip : trip = [s3[h] EXCEPT !.at = "set up", !.warned = warned]
    OBVIOUS
  <2>4. /\ s3[h].at = "store" /\ UNCHANGED <<s1, s2, s5>> /\ s6' = [s6 EXCEPT ![v] = @ + 1]
        /\ s3' = [s3 EXCEPT ![h].at = "set up", ![h].warned = warned]
    BY <1>8, <2>1, <2>2 DEF OAuth!Store, OAuth!Granted, OAuth!IsForeign
  <2>5. s2[v] \in OAuth!Grant /\ s3[h] \in OAuth!Trip /\ OAuth!Warns(s3[h]) /\ OAuth!IsConnecting(s3[h])
    BY <1>6, <2>1, <2>4 DEF OAuth!IsConnecting
  <2>6. warned \in SUBSET (OAuth!Steps \union {"scopes", "account"})
    BY <2>2
  <2>7. /\ trip \in OAuth!Trip /\ trip.at = "set up" /\ trip.visit = v
        /\ trip.todo = s3[h].todo /\ trip.warned = warned
    BY <2>1, <2>3, <2>5, <2>6 DEF OAuth!Trip
  <2>8. s3'[h] = trip /\ \A k \in Procs \ {h} : s3'[k] = s3[k]
    BY <2>3, <2>4 DEF OAuthInv, OAuth!TripsAreTyped
  <2>9. s1[v] = None /\ s6[v] = 0 /\ \A k \in Procs \ {h} : OAuth!IsConnecting(s3[k]) => s3[k].visit # v
    BY <2>1, <2>5 DEF OAuthInv, OAuth!OneToConnect
  <2>10. s6'[v] = 1 /\ s6' \in [Visits -> 0..1] /\ \A u \in Visits \ {v} : s6'[u] = s6[u]
    <3>1. s6 \in [Visits -> 0..1]
      BY DEF OAuthInv, OAuth!TripsAreTyped
    <3>2. s6' = [s6 EXCEPT ![v] = s6[v] + 1] /\ s6[v] = 0
      BY <2>4, <2>9
    <3>3. s6' = [s6 EXCEPT ![v] = 1]
      BY <3>2
    <3>4. QED
      BY <3>1, <3>3
  <2>11. s2[v] # None
    BY <2>1, <2>4, OAuthIdle DEF OAuthInv, OAuth!TripsAreTyped, OAuth!IsTrip
  <2>12. OAuth!TripsAreTyped'
    BY <2>4, <2>7, <2>8, <2>10, <2>11 DEF OAuthInv, OAuth!TripsAreTyped, OAuth!IsTrip
  <2>13. OAuth!OneToConnect'
    <3>1. \A u \in Visits : s1'[u] # None => s6'[u] = 0
      BY <2>4, <2>9, <2>10 DEF OAuthInv, OAuth!OneToConnect
    <3>2. ASSUME NEW k \in Procs, OAuth!IsConnecting(s3'[k])
          PROVE  k # h /\ s3'[k] = s3[k] /\ s3[k].visit \in Visits \ {v}
      BY <1>6, <2>7, <2>8, <2>9, <3>2 DEF OAuth!IsConnecting
    <3>3. ASSUME NEW k \in Procs, OAuth!IsConnecting(s3'[k]), NEW other \in Procs \ {k}, OAuth!IsConnecting(s3'[other])
          PROVE  s3'[other].visit # s3'[k].visit
      BY <3>2, <3>3 DEF OAuthInv, OAuth!OneToConnect, OAuth!IsConnecting
    <3>4. ASSUME NEW k \in Procs, OAuth!IsConnecting(s3'[k])
          PROVE  s1'[s3'[k].visit] = None /\ s6'[s3'[k].visit] = 0
      <4>1. s3'[k] = s3[k] /\ s3[k].visit \in Visits \ {v} /\ OAuth!IsConnecting(s3[k])
        BY <3>2, <3>4
      <4>2. s1[s3[k].visit] = None /\ s6[s3[k].visit] = 0
        BY <4>1 DEF OAuthInv, OAuth!OneToConnect
      <4>3. QED
        BY <2>4, <2>10, <4>1, <4>2
    <3>5. QED
      BY <3>1, <3>3, <3>4 DEF OAuth!OneToConnect, OAuth!IsConnecting
  <2>14. ASSUME NEW k \in Procs PROVE OAuth!Warns(s3[k])'
    <3>1. CASE k = h
      <4>1. s2[v].spent /\ s3[h].todo = OAuth!Steps
        BY <2>1, <2>4, <2>5 DEF OAuth!Warns, OAuth!IsConnecting
      <4>2. /\ s2[v].scopes = "some" => "scopes" \in warned
            /\ s2[v].account = "foreign" => "account" \in warned
        BY <2>2
      <4>3. QED
        BY <2>4, <2>7, <2>8, <3>1, <4>1, <4>2 DEF OAuth!Warns, OAuth!IsConnecting
    <3>2. CASE k # h
      BY <2>4, <2>8, <3>2 DEF OAuthInv, OAuth!RestIsWarnedOf, OAuth!Warns, OAuth!IsConnecting
    <3>3. QED
      BY <3>1, <3>2
  <2>15. QED
    BY <2>4, <2>12, <2>13, <2>14 DEF OAuthInv, OAuth!RestIsWarnedOf
<1>9. ASSUME NEW h \in Procs, NEW step \in OAuth!Steps, OAuth!SetUp(h, step) PROVE OAuthInv'
  <2>1. PICK v \in Visits : v = s3[h].visit
    BY <1>6, <1>9 DEF OAuth!SetUp, OAuth!Turn
  <2>2. PICK account : account = s2[v].account
    OBVIOUS
  <2>3. s3[h].at = "set up" /\ step \in s3[h].todo /\ UNCHANGED <<s1, s2, s6>>
    BY <1>9 DEF OAuth!SetUp, OAuth!Turn
  <2>4. s2[v] \in OAuth!Grant /\ s3[h] \in OAuth!Trip /\ OAuth!Warns(s3[h])
    BY <1>6, <2>1, <2>3
  <2>5. account \in {"own", "foreign"}
    BY <2>2, <2>4 DEF OAuth!Grant, OAuth!Accounts
  <2>6. PICK trip : /\ trip \in OAuth!Trip /\ trip.at = "set up" /\ trip.visit = v
                    /\ trip.todo = s3[h].todo \ {step} /\ s3[h].warned \subseteq trip.warned
                    /\ s3' = [s3 EXCEPT ![h] = trip]
                    /\ \/ s5' = [s5 EXCEPT ![account] = @ \union {step}] /\ ~(step = "reward" /\ account = "foreign")
                       \/ s5' = s5 /\ step \in trip.warned
    <3>1. CASE /\ s5' = [s5 EXCEPT ![account] = @ \union {step}] /\ ~(step = "reward" /\ account = "foreign")
               /\ s3' = [s3 EXCEPT ![h].todo = @ \ {step}]
      <4>1. PICK trip : trip = [s3[h] EXCEPT !.todo = @ \ {step}]
        OBVIOUS
      <4>2. /\ trip \in OAuth!Trip /\ trip.at = "set up" /\ trip.visit = v
            /\ trip.todo = s3[h].todo \ {step} /\ trip.warned = s3[h].warned
        BY <2>1, <2>3, <2>4, <4>1 DEF OAuth!Trip
      <4>3. s3' = [s3 EXCEPT ![h] = trip]
        BY <3>1, <4>1 DEF OAuthInv, OAuth!TripsAreTyped
      <4>4. QED
        BY <3>1, <4>2, <4>3
    <3>2. CASE s5' = s5 /\ s3' = [s3 EXCEPT ![h].todo = @ \ {step}, ![h].warned = @ \union {step}]
      <4>1. PICK trip : trip = [s3[h] EXCEPT !.todo = @ \ {step}, !.warned = @ \union {step}]
        OBVIOUS
      <4>2. /\ trip \in OAuth!Trip /\ trip.at = "set up" /\ trip.visit = v
            /\ trip.todo = s3[h].todo \ {step} /\ trip.warned = s3[h].warned \union {step}
        BY <2>1, <2>3, <2>4, <4>1 DEF OAuth!Trip
      <4>3. s3' = [s3 EXCEPT ![h] = trip]
        BY <3>2, <4>1 DEF OAuthInv, OAuth!TripsAreTyped
      <4>4. QED
        BY <3>2, <4>2, <4>3
    <3>3. QED
      BY <1>9, <2>1, <2>2, <3>1, <3>2 DEF OAuth!SetUp, OAuth!Skipped, OAuth!Granted, OAuth!IsForeign
  <2>7. s3'[h] = trip /\ \A k \in Procs \ {h} : s3'[k] = s3[k]
    BY <2>6 DEF OAuthInv, OAuth!TripsAreTyped
  <2>8. /\ s5' \in [OAuth!Accounts -> SUBSET OAuth!Steps] /\ "reward" \notin s5'["foreign"]
        /\ \A a \in OAuth!Accounts : s5[a] \subseteq s5'[a]
        /\ step \in trip.warned \/ step \in s5'[account]
    <3>1. s5 \in [OAuth!Accounts -> SUBSET OAuth!Steps] /\ "reward" \notin s5["foreign"] /\ account \in OAuth!Accounts
      BY <2>5 DEF OAuthInv, OAuth!TripsAreTyped, OAuth!RestIsWarnedOf, OAuth!Accounts
    <3>2. CASE s5' = [s5 EXCEPT ![account] = @ \union {step}] /\ ~(step = "reward" /\ account = "foreign")
      BY <3>1, <3>2 DEF OAuth!Accounts
    <3>3. CASE s5' = s5 /\ step \in trip.warned
      BY <3>1, <3>3
    <3>4. QED
      BY <2>6, <3>2, <3>3
  <2>9. s2[v] # None
    BY <2>1, <2>3, OAuthIdle DEF OAuthInv, OAuth!TripsAreTyped, OAuth!IsTrip
  <2>10. OAuth!TripsAreTyped'
    BY <2>3, <2>6, <2>7, <2>8, <2>9 DEF OAuthInv, OAuth!TripsAreTyped, OAuth!IsTrip
  <2>11. OAuth!OneToConnect'
    <3>1. ~OAuth!IsConnecting(s3'[h]) /\ \A k \in Procs \ {h} : s3'[k] = s3[k]
      BY <2>6, <2>7 DEF OAuth!IsConnecting
    <3>2. QED
      BY <2>3, <3>1 DEF OAuthInv, OAuth!OneToConnect, OAuth!IsConnecting
  <2>12. ASSUME NEW k \in Procs PROVE OAuth!Warns(s3[k])'
    <3>1. CASE k = h
      <4>1. s2[v].scopes = "some" => "scopes" \in trip.warned
        BY <2>1, <2>3, <2>4, <2>6 DEF OAuth!Warns
      <4>2. account = "foreign" => "account" \in trip.warned
        BY <2>1, <2>2, <2>3, <2>4, <2>6 DEF OAuth!Warns
      <4>3. OAuth!Steps \ (trip.todo \union trip.warned) \subseteq s5'[account]
        BY <2>1, <2>2, <2>3, <2>4, <2>5, <2>6, <2>8 DEF OAuth!Warns, OAuth!Accounts
      <4>4. s2[v].spent
        BY <2>1, <2>3, <2>4 DEF OAuth!Warns
      <4>5. QED
        BY <2>2, <2>3, <2>6, <2>7, <3>1, <4>1, <4>2, <4>3, <4>4 DEF OAuth!Warns, OAuth!IsConnecting
    <3>2. CASE k # h /\ s3[k].at \in {"exchange", "store", "set up"}
      <4>1. s2[s3[k].visit].account \in OAuth!Accounts
        BY <1>6, <3>2 DEF OAuth!Grant
      <4>2. QED
        BY <1>6, <2>3, <2>7, <2>8, <3>2, <4>1 DEF OAuth!Warns, OAuth!IsConnecting
    <3>3. CASE k # h /\ s3[k].at \notin {"exchange", "store", "set up"}
      BY <2>7, <3>3 DEF OAuth!Warns, OAuth!IsConnecting
    <3>4. QED
      BY <3>1, <3>2, <3>3
  <2>13. QED
    BY <2>8, <2>10, <2>11, <2>12 DEF OAuthInv, OAuth!RestIsWarnedOf
<1>10. QED
  BY <1>1, <1>2, <1>3, <1>4, <1>5, <1>7, <1>8, <1>9 DEF OAuth!Next

(* Of what was not set up there is a warning.                               *)
LEMMA OAuthConnected ==
  ASSUME OAuthInv PROVE OAuth!ConnectedIsSo
<1>1. ASSUME NEW h \in Procs, s3[h].at = "set up", s3[h].todo = {}, s3[h].warned = {}
      PROVE  OAuth!Granted(h) = [account |-> "own", scopes |-> "all", spent |-> TRUE] /\ s5["own"] = OAuth!Steps
  <2>1. s3[h] \in OAuth!Trip /\ s2[s3[h].visit] # None
    BY <1>1, OAuthIdle DEF OAuthInv, OAuth!TripsAreTyped, OAuth!IsTrip
  <2>2. PICK grant \in OAuth!Grant : grant = s2[s3[h].visit]
    BY <2>1 DEF OAuthInv, OAuth!TripsAreTyped, OAuth!Trip
  <2>3. /\ grant.spent /\ grant.scopes # "some" /\ grant.account # "foreign"
        /\ OAuth!Steps \subseteq s5[grant.account]
    BY <1>1, <2>2 DEF OAuthInv, OAuth!RestIsWarnedOf, OAuth!Warns
  <2>4. grant.scopes = "all" /\ grant.account = "own"
    BY <2>3 DEF OAuth!Grant, OAuth!Accounts, OAuth!Scopes
  <2>5. grant = [account |-> "own", scopes |-> "all", spent |-> TRUE]
    BY <2>3, <2>4 DEF OAuth!Grant
  <2>6. s5["own"] = OAuth!Steps
    BY <2>3, <2>4 DEF OAuthInv, OAuth!TripsAreTyped, OAuth!Accounts
  <2>7. QED
    BY <2>2, <2>5, <2>6 DEF OAuth!Granted
<1>2. \A v \in Visits : s6[v] <= 1
  BY DEF OAuthInv, OAuth!TripsAreTyped
<1>3. QED
  BY <1>1, <1>2 DEF OAuthInv, OAuth!RestIsWarnedOf, OAuth!ConnectedIsSo

(* What other parts do to the shared variables does not concern the trips.  *)
LEMMA OAuthStays == ASSUME OAuthInv, UNCHANGED OAuth!vars PROVE OAuthInv'
BY DEF OAuthInv, OAuth!vars, OAuth!TripsAreTyped, OAuth!OneToConnect, OAuth!RestIsWarnedOf, OAuth!IsTrip,
   OAuth!IsConnecting, OAuth!Warns

-----------------------------------------------------------------------------
(* What the acceptance list ticks: Acceptance.                              *)
AccInv == Acc!RowsAreNumbered /\ Acc!NotesAreTrue /\ Acc!ReadsAreOfRows /\ Acc!TickedIsDone

LEMMA AccBegins == ASSUME Acc!Init PROVE AccInv
<1>1. Acc!RowsAreNumbered
  BY DEF Acc!Init, Acc!RowsAreNumbered, Acc!HasNewest, Acc!Credits
<1>2. Acc!NotesAreTrue
  BY DEF Acc!Init, Acc!NotesAreTrue
<1>3. Acc!ReadsAreOfRows
  BY DEF Acc!Init, Acc!ReadsAreOfRows, Acc!NothingRead, Acc!Tables
<1>4. QED
  BY <1>1, <1>2, <1>3 DEF Acc!Init, Acc!TickedIsDone, AccInv

(* A row that is added is the newest.                                       *)
LEMMA AccNewest ==
  ASSUME NEW rows, NEW more, NEW row, more = rows \union {row}, \A x \in rows : x.at <= row.at, row.at \in Nat
  PROVE  Acc!HasNewest(more)
BY DEF Acc!HasNewest

(* What only adds to the tables keeps what was read true.                   *)
LEMMA AccGrows ==
  ASSUME AccInv, s10' = s10, s11' = s11, s11 = None, s2 \subseteq s2', s3 \subseteq s3', s4 \subseteq s4', s6 \subseteq s6',
         \A w \in s5 : \E x \in s5' : x.quote = w.quote
  PROVE  Acc!ReadsAreOfRows' /\ Acc!TickedIsDone'
<1>1. Acc!TickedIsDone'
  BY DEF Acc!TickedIsDone
<1>2. s10["waypoints"] # None => \A w \in s10["waypoints"] : \E x \in s5' : x.quote = w.quote
  BY DEF AccInv, Acc!ReadsAreOfRows
<1>3. QED
  BY <1>1, <1>2 DEF AccInv, Acc!ReadsAreOfRows, Acc!HasNewest, Acc!Credits

(* The newest of rows that have one is one of them.                         *)
LEMMA AccPicks ==
  ASSUME NEW rows, Acc!HasNewest(rows) PROVE Acc!Newest(rows) = None \/ Acc!Newest(rows) \in rows
BY DEF Acc!HasNewest, Acc!Newest

(* A note is of what was done.                                              *)
LEMMA AccNote ==
  ASSUME NEW kind, NEW of, Acc!Note(kind, of)
  PROVE  s6 \subseteq s6' /\ \A n \in s6' : n \in s6 \/ n = [kind |-> kind, of |-> of]
BY DEF Acc!Note

LEMMA AccStep ==
  ASSUME AccInv, Acc!Next PROVE AccInv'
<1>1. s11 = None
  BY DEF Acc!Next
<1>2. CASE Acc!Link
  <2>1. s1' = TRUE /\ UNCHANGED <<s2, s3, s4, s5, s7, s8, s9, s10, s11>> /\ Acc!Note("identity", None)
    BY <1>2 DEF Acc!Link
  <2>2. s6 \subseteq s6' /\ \A n \in s6' : n \in s6 \/ n = [kind |-> "identity", of |-> None]
    BY <2>1, AccNote
  <2>3. Acc!NotesAreTrue'
    BY <2>1, <2>2 DEF AccInv, Acc!NotesAreTrue
  <2>4. Acc!ReadsAreOfRows' /\ Acc!TickedIsDone'
    BY <1>1, <2>1, <2>2, AccGrows
  <2>5. QED
    BY <2>1, <2>3, <2>4 DEF AccInv, Acc!RowsAreNumbered, Acc!HasNewest, Acc!Credits
<1>3. ASSUME NEW r \in Redemptions, Acc!Redeem(r) PROVE AccInv'
  <2>1. PICK row : row = [id |-> r, at |-> s9 + 1]
    OBVIOUS
  <2>2. s2' = s2 \union {row} /\ s9' = s9 + 1 /\ UNCHANGED <<s1, s3, s4, s5, s6, s8, s10, s11>> /\ row.at = s9 + 1
    BY <1>3, <2>1 DEF Acc!Redeem, Acc!Later
  <2>3. Acc!HasNewest(s2')
    <3>1. row.at \in Nat /\ \A x \in s2 : x.at <= row.at
      BY <2>2 DEF AccInv, Acc!RowsAreNumbered
    <3>2. QED
      BY <2>2, <3>1, AccNewest
  <2>4. Acc!RowsAreNumbered'
    BY <2>2, <2>3 DEF AccInv, Acc!RowsAreNumbered, Acc!HasNewest, Acc!Credits
  <2>5. Acc!ReadsAreOfRows' /\ Acc!TickedIsDone'
    BY <1>1, <2>2, AccGrows
  <2>6. QED
    BY <2>2, <2>4, <2>5 DEF AccInv, Acc!NotesAreTrue
<1>4. ASSUME NEW kind \in {"credit", "debit"}, NEW of, Acc!Book(kind, of), Acc!Later,
             UNCHANGED <<s1, s2, s4, s6, s8, s10, s11>>, \A w \in s5 : \E x \in s5' : x.quote = w.quote
      PROVE  AccInv'
  <2>1. PICK row : row = [kind |-> kind, of |-> of, at |-> s9 + 1]
    OBVIOUS
  <2>2. s3' = s3 \union {row} /\ s9' = s9 + 1 /\ row.at = s9 + 1 /\ row.kind = kind
    BY <1>4, <2>1 DEF Acc!Book, Acc!Later
  <2>3. Acc!HasNewest(Acc!Credits(s3'))
    <3>1. CASE kind = "credit"
      <4>1. Acc!Credits(s3') = Acc!Credits(s3) \union {row}
        BY <2>2, <3>1 DEF Acc!Credits
      <4>2. row.at \in Nat /\ \A x \in Acc!Credits(s3) : x.at <= row.at
        BY <2>2 DEF AccInv, Acc!RowsAreNumbered, Acc!Credits
      <4>3. QED
        BY <4>1, <4>2, AccNewest
    <3>2. CASE kind = "debit"
      <4>1. Acc!Credits(s3') = Acc!Credits(s3)
        BY <2>2, <3>2 DEF Acc!Credits
      <4>2. QED
        BY <4>1 DEF AccInv, Acc!RowsAreNumbered
    <3>3. QED
      BY <3>1, <3>2
  <2>4. Acc!RowsAreNumbered'
    <3>1. s9' \in Nat /\ \A x \in s2' \union s3' : x.at \in 0..s9'
      BY <1>4, <2>2 DEF AccInv, Acc!RowsAreNumbered
    <3>2. Acc!HasNewest(s2)'
      BY <1>4 DEF AccInv, Acc!RowsAreNumbered, Acc!HasNewest
    <3>3. QED
      BY <2>3, <3>1, <3>2 DEF Acc!RowsAreNumbered, Acc!HasNewest, Acc!Credits
  <2>5. Acc!ReadsAreOfRows' /\ Acc!TickedIsDone'
    BY <1>1, <1>4, <2>2, AccGrows
  <2>6. QED
    BY <1>4, <2>4, <2>5 DEF AccInv, Acc!NotesAreTrue
<1>5. ASSUME NEW r \in Redemptions, Acc!Credit(r) PROVE AccInv'
  BY <1>4, <1>5 DEF Acc!Credit
<1>6. ASSUME NEW q \in Bids, Acc!CreateQuote(q) PROVE AccInv'
  <2>1. s1 /\ s4 \subseteq s4' /\ s9' = s9 + 1 /\ UNCHANGED <<s1, s2, s3, s5, s6, s8, s10, s11>>
    BY <1>6 DEF Acc!CreateQuote, Acc!Later
  <2>2. Acc!RowsAreNumbered'
    BY <2>1 DEF AccInv, Acc!RowsAreNumbered, Acc!HasNewest, Acc!Credits
  <2>3. Acc!ReadsAreOfRows' /\ Acc!TickedIsDone'
    BY <1>1, <2>1, AccGrows
  <2>4. QED
    BY <2>1, <2>2, <2>3 DEF AccInv, Acc!NotesAreTrue
<1>7. ASSUME NEW q \in Bids, Acc!Purchase(q) PROVE AccInv'
  BY <1>4, <1>7 DEF Acc!Purchase
<1>8. ASSUME NEW status \in {"COMPLETED", "CANCELED"}, Acc!EndJob(status) PROVE AccInv'
  <2>1. UNCHANGED <<s1, s2, s3, s4, s6, s8, s9, s10, s11>>
    BY <1>8 DEF Acc!EndJob
  <2>2. s5' = {IF w.status = "ACTIVE" THEN [w EXCEPT !.status = status] ELSE w : w \in s5}
    BY <1>8 DEF Acc!EndJob
  <2>3. ASSUME NEW w \in s5 PROVE \E x \in s5' : x.quote = w.quote
    <3>1. (IF w.status = "ACTIVE" THEN [w EXCEPT !.status = status] ELSE w) \in s5'
      BY <2>2
    <3>2. (IF w.status = "ACTIVE" THEN [w EXCEPT !.status = status] ELSE w).quote = w.quote
      OBVIOUS
    <3>3. QED
      BY <3>1, <3>2
  <2>4. Acc!ReadsAreOfRows' /\ Acc!TickedIsDone'
    BY <1>1, <2>1, <2>3, AccGrows
  <2>5. QED
    BY <2>1, <2>4 DEF AccInv, Acc!RowsAreNumbered, Acc!NotesAreTrue, Acc!HasNewest, Acc!Credits
<1>9. ASSUME NEW tx \in s7, Acc!EmitToViewer(tx) PROVE AccInv'
  <2>1. s8' = s8 \union {tx} /\ UNCHANGED <<s1, s2, s3, s4, s5, s9, s10, s11>> /\ Acc!Note("emitted", tx)
    BY <1>9 DEF Acc!EmitToViewer
  <2>2. s6 \subseteq s6' /\ \A n \in s6' : n \in s6 \/ n = [kind |-> "emitted", of |-> tx]
    BY <2>1, AccNote
  <2>3. Acc!NotesAreTrue'
    BY <2>1, <2>2 DEF AccInv, Acc!NotesAreTrue
  <2>4. Acc!ReadsAreOfRows' /\ Acc!TickedIsDone'
    BY <1>1, <2>1, <2>2, AccGrows
  <2>5. QED
    BY <2>1, <2>3, <2>4 DEF AccInv, Acc!RowsAreNumbered, Acc!HasNewest, Acc!Credits
<1>10. ASSUME NEW t \in Acc!Tables, Acc!Read(t) PROVE AccInv'
  <2>1. UNCHANGED <<s1, s2, s3, s4, s5, s6, s8, s9, s11>> /\ s10' = [s10 EXCEPT ![t] = Acc!Table(t)]
    BY <1>10 DEF Acc!Read, Acc!trace
  <2>2. \A u \in Acc!Tables : s10'[u] # s10[u] => u = t /\ s10'[u] = Acc!Table(t)
    BY <2>1
  <2>3. Acc!ReadsAreOfRows'
    BY <2>1, <2>2 DEF AccInv, Acc!ReadsAreOfRows, Acc!RowsAreNumbered, Acc!HasNewest, Acc!Credits, Acc!Tables, Acc!Table
  <2>4. QED
    BY <1>1, <2>1, <2>3 DEF AccInv, Acc!RowsAreNumbered, Acc!NotesAreTrue, Acc!TickedIsDone, Acc!HasNewest, Acc!Credits
<1>11. CASE Acc!BuildAcceptanceReport
  <2>1. UNCHANGED <<s1, s2, s3, s4, s5, s6, s8, s9>> /\ s11' = Acc!Checklist(s10) /\ s10' = Acc!NothingRead
    BY <1>11 DEF Acc!BuildAcceptanceReport, Acc!trace
  <2>2. \A t \in Acc!Tables : s10[t] # None
    BY <1>11 DEF Acc!BuildAcceptanceReport
  <2>3. Acc!ReadsAreOfRows'
    BY <2>1 DEF Acc!ReadsAreOfRows, Acc!NothingRead, Acc!Tables
  <2>4. PICK redemption : redemption = Acc!Newest(s10["received"])
    OBVIOUS
  <2>5. PICK credit : credit = Acc!CreditShown(s10["ledger"], redemption)
    OBVIOUS
  <2>6. PICK quote : quote = Acc!Newest(s10["quotes"])
    OBVIOUS
  <2>7. /\ s10["received"] \subseteq s2 /\ s10["ledger"] \subseteq s3 /\ s10["quotes"] \subseteq s4 /\ s10["notes"] \subseteq s6
        /\ Acc!HasNewest(s10["received"]) /\ Acc!HasNewest(Acc!Credits(s10["ledger"]))
        /\ \A w \in s10["waypoints"] : \E x \in s5 : x.quote = w.quote
    BY <2>2 DEF AccInv, Acc!ReadsAreOfRows, Acc!Tables
  <2>8. redemption # None => redemption \in s2
    BY <2>4, <2>7, AccPicks
  <2>9. credit # None => credit \in s3
    <3>1. \/ credit \in Acc!Credits(s10["ledger"])
          \/ credit = Acc!Newest(Acc!Credits(s10["ledger"]))
      BY <2>5 DEF Acc!CreditShown
    <3>2. Acc!Credits(s10["ledger"]) \subseteq s3
      BY <2>7 DEF Acc!Credits
    <3>3. QED
      BY <2>7, <3>1, <3>2, AccPicks
  <2>10. quote # None => s1
    BY <2>6, <2>7 DEF AccInv, Acc!NotesAreTrue, Acc!Newest
  <2>11. PICK identity : identity <=> (\E n \in s10["notes"] : n.kind = "identity") \/ credit # None \/ quote # None
    OBVIOUS
  <2>12. identity => s1 \/ credit # None
    BY <2>7, <2>10, <2>11 DEF AccInv, Acc!NotesAreTrue
  <2>13. Acc!EmitOf(s10["notes"], credit) # {} => <<"credit", credit.of>> \in s8
    BY <2>7 DEF AccInv, Acc!NotesAreTrue, Acc!EmitOf
  <2>14. {l \in s10["ledger"] : l.kind = "debit" /\ quote # None /\ l.of = quote.id} # {} =>
           \E l \in s3 : l.kind = "debit" /\ l.of = quote.id
    BY <2>7
  <2>15. (\E w \in {w \in s10["waypoints"] : quote # None /\ w.quote = quote.id} : w.status \in {"ACTIVE", "COMPLETED"}) =>
           \E x \in s5 : x.quote = quote.id
    BY <2>7
  <2>16. Acc!TickedIsDone'
    <3>1. s11'.redemption = redemption /\ s11'.credit = credit /\ s11'.quote = quote
      BY <2>1, <2>4, <2>5, <2>6 DEF Acc!Checklist
    <3>2. s11'.identity => identity
      BY <2>1, <2>4, <2>5, <2>6, <2>11 DEF Acc!Checklist
    <3>3. s11'.walletUpdated => Acc!EmitOf(s10["notes"], credit) # {}
      BY <2>1, <2>4, <2>5 DEF Acc!Checklist
    <3>4. s11'.debited => {l \in s10["ledger"] : l.kind = "debit" /\ quote # None /\ l.of = quote.id} # {}
      BY <2>1, <2>6 DEF Acc!Checklist
    <3>5. s11'.active =>
            \E w \in {w \in s10["waypoints"] : quote # None /\ w.quote = quote.id} : w.status \in {"ACTIVE", "COMPLETED"}
      BY <2>1, <2>6 DEF Acc!Checklist
    <3>6. UNCHANGED <<s1, s2, s3, s5, s8>>
      BY <2>1
    <3>7. QED
      BY <2>8, <2>9, <2>12, <2>13, <2>14, <2>15, <3>1, <3>2, <3>3, <3>4, <3>5, <3>6 DEF Acc!TickedIsDone
  <2>17. QED
    BY <2>1, <2>3, <2>16 DEF AccInv, Acc!RowsAreNumbered, Acc!NotesAreTrue, Acc!HasNewest, Acc!Credits
<1>12. QED
  BY <1>2, <1>3, <1>5, <1>6, <1>7, <1>8, <1>9, <1>10, <1>11 DEF Acc!Next, Acc!Step

(* What other parts do to the shared variables does not concern the list.   *)
LEMMA AccStays == ASSUME AccInv, UNCHANGED Acc!vars PROVE AccInv'
BY DEF AccInv, Acc!vars, Acc!RowsAreNumbered, Acc!NotesAreTrue, Acc!ReadsAreOfRows, Acc!TickedIsDone, Acc!HasNewest,
   Acc!Credits

-----------------------------------------------------------------------------
(* The price, and what the form previews of it: SettingsForm.               *)
LEMMA SetLimits == Set!TwitchMinCost = 1 /\ Set!TwitchMaxCost \in Int /\ 1 <= Set!TwitchMaxCost
  BY SMT DEF Set!TwitchMinCost, Set!TwitchMaxCost

(* Whatever the distance and the settings, a price is one that a reward at  *)
(* Twitch may have, and lies between the stored minimum and maximum.        *)
THEOREM PriceWithinBounds ==
  ASSUME NEW c \in Set!Configs, NEW distance \in Nat
  PROVE  LET price == Set!CalculatePrice(distance, Set!Normalise(c))
         IN /\ Set!TwitchMinCost <= price /\ price <= Set!TwitchMaxCost
            /\ c.minimumCost <= price /\ price <= Set!Normalise(c).maximumCost
<1> DEFINE n == Set!Normalise(c)
           lo == c.minimumCost
           hi == n.maximumCost
           rounded == Set!RoundUpTo(Set!RawCost(distance, n), Set!Greater(1, n.roundTo))
<1>1. /\ lo \in Int /\ c.maximumCost \in Int
      /\ 1 <= lo /\ lo <= Set!TwitchMaxCost /\ c.maximumCost <= Set!TwitchMaxCost
  BY SetLimits DEF Set!Configs
<1>2. n.minimumCost = lo /\ hi = Set!Greater(c.maximumCost, lo)
  BY DEF Set!Configs, Set!Normalise
<1>3. hi \in Int /\ lo <= hi /\ hi <= Set!TwitchMaxCost
  BY <1>1, <1>2 DEF Set!Greater
<1>4. rounded \in Int
  BY DEF Set!Configs, Set!Normalise, Set!RoundUpTo, Set!RawCost, Set!CeilDiv, Set!Greater
<1> HIDE DEF lo, hi, rounded
<1>5. Set!Greater(Set!TwitchMinCost, lo) = lo /\ Set!Greater(lo, hi) = hi /\ Set!Lesser(Set!TwitchMaxCost, hi) = hi
  BY <1>1, <1>3, SetLimits DEF Set!Greater, Set!Lesser
<1>6. Set!CalculatePrice(distance, n) = IF rounded < lo THEN lo ELSE IF rounded > hi THEN hi ELSE rounded
  <2>1. n.minimumCost = lo /\ n.maximumCost = hi
    BY <1>2 DEF hi
  <2>2. QED
    BY <1>5, <2>1 DEF Set!CalculatePrice, rounded
<1>7. QED
  BY <1>1, <1>3, <1>4, <1>6, SetLimits DEF lo, hi

(* The page's copy of the formula gives the server's price, unless the      *)
(* minimum is above the maximum, which the page warns of.                   *)
THEOREM PreviewAgrees ==
  ASSUME NEW c \in Set!Configs, NEW distance \in Nat, c.minimumCost <= c.maximumCost
  PROVE  Set!PreviewCost(distance, c) = Set!CalculatePrice(distance, Set!Normalise(c))
<1> DEFINE lo == c.minimumCost
           hi == c.maximumCost
           step == c.roundTo
           raw == Set!RawCost(distance, c)
           rounded == Set!CeilDiv(raw, step) * step
<1>1. /\ lo \in Int /\ hi \in Int /\ 1 <= lo /\ lo <= hi /\ hi <= Set!TwitchMaxCost
      /\ step \in Int /\ step > 0 /\ raw \in Int
  BY SetLimits DEF Set!Configs, Set!RawCost, Set!CeilDiv
<1>2. Set!Normalise(c) = c
  BY DEF Set!Normalise, Set!Configs, Set!Greater
<1> HIDE DEF lo, hi, step, raw
<1>3. rounded \in Int /\ Set!RoundUpTo(raw, Set!Greater(1, step)) = rounded
  <2>1. Set!Greater(1, step) = step
    BY <1>1 DEF Set!Greater
  <2>2. rounded \in Int
    BY <1>1 DEF Set!CeilDiv
  <2>3. step = 1 => rounded = raw
    BY <1>1 DEF Set!CeilDiv
  <2> HIDE DEF rounded
  <2>4. Set!RoundUpTo(raw, step) = IF step <= 1 THEN raw ELSE rounded
    BY DEF Set!RoundUpTo, rounded
  <2>5. QED
    BY <1>1, <2>1, <2>2, <2>3, <2>4
<1> HIDE DEF rounded
<1>4. Set!CalculatePrice(distance, c) = IF rounded < lo THEN lo ELSE IF rounded > hi THEN hi ELSE rounded
  <2>1. Set!Greater(Set!TwitchMinCost, lo) = lo /\ Set!Greater(lo, hi) = hi /\ Set!Lesser(Set!TwitchMaxCost, hi) = hi
    BY <1>1, SetLimits DEF Set!Greater, Set!Lesser
  <2>2. QED
    BY <1>3, <2>1 DEF Set!CalculatePrice, lo, hi, step, raw
<1>5. Set!PreviewCost(distance, c) = Set!Lesser(Set!Greater(rounded, lo), hi)
  BY <1>1 DEF Set!PreviewCost, rounded, raw, step, lo, hi
<1>6. QED
  BY <1>1, <1>2, <1>3, <1>4, <1>5 DEF Set!Greater, Set!Lesser

(* So it is for a draft that the server would take.                         *)
LEMMA SetPreviews == Set!PreviewIsThePrice
<1> SUFFICES ASSUME \A f \in Set!Fields : s7[f] \in Set!TwitchMinCost..Set!TwitchMaxCost,
                    s7["minimumCost"] <= s7["maximumCost"], NEW d \in Set!Distances
             PROVE  Set!PreviewCost(d, Set!AsConfig(s7)) = Set!CalculatePrice(d, Set!Normalise(Set!AsConfig(s7)))
  BY SMT DEF Set!PreviewIsThePrice, Set!Fields
<1>1. PICK c : c = Set!AsConfig(s7)
  OBVIOUS
<1>2. c \in Set!Configs /\ c.minimumCost <= c.maximumCost
  BY SMT, <1>1 DEF Set!AsConfig, Set!Configs, Set!Fields
<1>3. d \in Nat
  BY DEF Set!Distances
<1>4. QED
  BY <1>1, <1>2, <1>3, PreviewAgrees
=============================================================================
