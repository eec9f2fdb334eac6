------------------------------- MODULE MCParts -------------------------------
(* The small modules that share no state, those of ProvedParts and the others,*)
(* each on its own instance.  The states of the run are the sum of theirs and *)
(* not the product.  Then the lemmas about three of the others, the books, the*)
(* reports of a page and the page load under the verdict, and the theorems    *)
(* about all, with what RequestLogProofs has of the request log.              *)
EXTENDS ProvedParts, FoldTheorems, TLC

CONSTANTS p1, p2, qa, qb, v1, v2, ta, tb

(* The processes are told apart by nothing.                                 *)
Alike == Permutations(Procs)
TwoOwners == (qa :> v1) @@ (qb :> v2)
TwoPrices == (qa :> 3) @@ (qb :> 5)
Found == (ta :> {ta, tb}) @@ (tb :> {})
Micros == (0 :> -700) @@ (2 :> 0) @@ (4 :> 16)
Route(d, s) == [distance |-> d, snap |-> s]
Routes ==
  (<<0, 2>> :> Route(3, 0)) @@ (<<0, 3>> :> Route(4, 0)) @@ (<<2, 2>> :> Route(1, 2)) @@ (<<2, 3>> :> None)

Diag == INSTANCE Diagnostics WITH
  Budget <- MaxReports, MaxNet <- 2, MaxLosses <- 1, MaxMoves <- 1, page <- s1, facts <- s2,
  throttle <- s3, queue <- s4, accepted <- s5, net <- s6, row <- s7, summary <- s8,
  moves <- s9, losses <- s10
Log == INSTANCE RequestLogProofs WITH
  MaxLine <- LineSize, MaxBuffer <- BufferSize, Burst <- KeepBurst, MaxLines <- MaxVersion,
  MaxSeconds <- MaxDrops, written <- s1, wire <- s2, pending <- s3, tokens <- s4, rows <- s5,
  refused <- s6, cut <- s7, second <- s8, kept <- s9
Geom == INSTANCE Geo WITH
  Side <- 4, Micros <- Micros, MaxPoints <- 4, path <- s1
Books == INSTANCE EconomyBooks WITH
  Viewers <- Askers, Workers <- Procs, MaxRows <- MaxVersion, balance <- s1, ledger <- s2,
  begun <- s3, work <- s4, view <- s5, wallet <- s6
Subject == INSTANCE VerdictSubject WITH
  Loads <- Openings, Silent <- SilentAfter, Retention <- RetainedFor, MaxTime <- MaxVersion,
  MaxSaid <- MaxNews, now <- s1, pages <- s2, requests <- s3, events <- s4, ids <- s5,
  expired <- s6, prune <- s7, read <- s8
Gps == INSTANCE GpsFeed WITH
  Handlers <- {p1}, Keep <- 3, Delay <- 1, Timeout <- 1, delay <- s1, latest <- s2,
  buffer <- s3, work <- s4, healthy <- s5, watched <- s6, viewer <- s7
Nav == INSTANCE LiveNav WITH
  Handlers <- {p1}, Reads <- {p1}, End <- 1, Reroute <- 1, MaxTodo <- 2, walk <- s1,
  job <- s2, nav <- s3, throttle <- s4, todo <- s5, work <- s6, page <- s7, read <- s8
Conf == INSTANCE ConfigPage WITH
  Loads <- {p1, p2}, MaxChanges <- 1, MaxAuths <- 2, parts <- s1, role <- s2,
  visible <- s3, load <- s4, status <- s5, error <- s6, notBroadcaster <- s7,
  changes <- s8, auths <- s9, trouble <- s10
Rate == INSTANCE RateLimit WITH
  Callers <- {p1, p2}, Limit <- 1, Window <- 2, MaxDeaths <- 1, count <- s1, ttl <- s2,
  call <- s3, deaths <- s4

(* The variables that a smaller part leaves alone.                          *)
Off16 == s16 = None
Off15 == s15 = None /\ Off16
Off14 == s14 = None /\ Off15
Off13 == s13 = None /\ Off14
Off12 == s12 = None /\ Off13
Off11 == s11 = None /\ Off12
Off10 == s10 = None /\ Off11
Off9 == s9 = None /\ Off10
Off8 == s8 = None /\ Off9
Off7 == s7 = None /\ Off8
Off6 == s6 = None /\ Off7
Off5 == s5 = None /\ Off6
Off4 == s4 = None /\ Off5
Off3 == s3 = None /\ Off4
Off2 == s2 = None /\ Off3

Init ==
  \/ part = "con" /\ Con!Init /\ Off10
  \/ part = "sub" /\ Sub!Init /\ Off6
  \/ part = "slot" /\ Slot!Init
  \/ part = "phone" /\ Phone!Init /\ Off12
  \/ part = "news" /\ News!Init /\ Off15
  \/ part = "page" /\ Page!Init /\ Off12
  \/ part = "wallet" /\ Wallet!Init /\ Off12
  \/ part = "helper" /\ Helper!Init /\ Off7
  \/ part = "diag" /\ Diag!Init /\ Off11
  \/ part = "search" /\ Search!Init /\ Off13
  \/ part = "panel" /\ Panel!Init
  \/ part = "settings" /\ Set!Init /\ Off15
  \/ part = "economy" /\ Econ!Init /\ Off16
  \/ part = "acceptance" /\ Acc!Init /\ Off13
  \/ part = "fanout" /\ Fan!Init /\ Off8
  \/ part = "books" /\ Books!Init /\ Off7
  \/ part = "start" /\ Start!Init /\ Off7
  \/ part = "log" /\ Log!Init /\ Off10
  \/ part = "oauth" /\ OAuth!Init /\ Off8
  \/ part = "obs" /\ Obs!Init /\ Off10
  \/ part = "map" /\ Map!Init /\ Off9
  \/ part = "geometry" /\ Geom!Init /\ Off2
  \/ part = "call" /\ Call!Init /\ Off6
  \/ part = "shell" /\ Shell!Init /\ Off10
  \/ part = "quote" /\ Quote!Init /\ Off6
  \/ part = "subject" /\ Subject!Init /\ Off9

ConNext == part = "con" /\ Con!Next /\ UNCHANGED <<s10, s11, s12, s13, s14, s15, s16>>
SubNext == part = "sub" /\ Sub!Next /\ UNCHANGED <<s6, s7, s8, s9, s10, s11, s12, s13, s14, s15, s16>>
SlotNext == part = "slot" /\ Slot!Next
PhoneNext == part = "phone" /\ Phone!Next /\ UNCHANGED <<s12, s13, s14, s15, s16>>
NewsNext == part = "news" /\ News!Next /\ UNCHANGED <<s15, s16>>
PageNext == part = "page" /\ Page!Next /\ UNCHANGED <<s12, s13, s14, s15, s16>>
WalletNext == part = "wallet" /\ Wallet!Next /\ UNCHANGED <<s12, s13, s14, s15, s16>>
HelperNext == part = "helper" /\ Helper!Next /\ UNCHANGED <<s7, s8, s9, s10, s11, s12, s13, s14, s15, s16>>
DiagNext == part = "diag" /\ Diag!Next /\ UNCHANGED <<s11, s12, s13, s14, s15, s16>>
SearchNext == part = "search" /\ Search!Next /\ UNCHANGED <<s13, s14, s15, s16>>
PanelNext == part = "panel" /\ Panel!Next
SetNext == part = "settings" /\ Set!Next /\ UNCHANGED <<s15, s16>>
EconNext == part = "economy" /\ Econ!Next /\ UNCHANGED <<s16>>
AccNext == part = "acceptance" /\ Acc!Next /\ UNCHANGED <<s13, s14, s15, s16>>
FanNext == part = "fanout" /\ Fan!Next /\ UNCHANGED <<s8, s9, s10, s11, s12, s13, s14, s15, s16>>
BooksNext == part = "books" /\ Books!Next /\ UNCHANGED <<s7, s8, s9, s10, s11, s12, s13, s14, s15, s16>>
StartNext == part = "start" /\ Start!Next /\ UNCHANGED <<s7, s8, s9, s10, s11, s12, s13, s14, s15, s16>>
LogNext == part = "log" /\ Log!Next /\ UNCHANGED <<s10, s11, s12, s13, s14, s15, s16>>
OAuthNext == part = "oauth" /\ OAuth!Next /\ UNCHANGED <<s8, s9, s10, s11, s12, s13, s14, s15, s16>>
ObsNext == part = "obs" /\ Obs!Next /\ UNCHANGED <<s10, s11, s12, s13, s14, s15, s16>>
MapNext == part = "map" /\ Map!Next /\ UNCHANGED <<s9, s10, s11, s12, s13, s14, s15, s16>>
GeomNext == part = "geometry" /\ Geom!Next /\ UNCHANGED <<s2, s3, s4, s5, s6, s7, s8, s9, s10, s11, s12, s13, s14, s15, s16>>
CallNext == part = "call" /\ Call!Next /\ UNCHANGED <<s6, s7, s8, s9, s10, s11, s12, s13, s14, s15, s16>>
ShellNext == part = "shell" /\ Shell!Next /\ UNCHANGED <<s10, s11, s12, s13, s14, s15, s16>>
QuoteNext == part = "quote" /\ Quote!Next /\ UNCHANGED <<s6, s7, s8, s9, s10, s11, s12, s13, s14, s15, s16>>
SubjectNext == part = "subject" /\ Subject!Next /\ UNCHANGED <<s9, s10, s11, s12, s13, s14, s15, s16>>

TwitchParts == {"con", "sub", "slot", "oauth"}
StreamParts == {"phone", "news", "obs", "gps", "nav"}
ViewerParts == {"page", "wallet", "quote", "helper", "search", "panel", "map", "call", "shell"}
AdminParts == {"settings", "economy", "acceptance", "books", "diag", "subject", "log", "cfg"}
ServerParts == {"start", "fanout", "geometry", "rate"}

Next ==
  /\ UNCHANGED part
  /\ \/ part \in TwitchParts /\ (ConNext \/ SubNext \/ SlotNext \/ OAuthNext)
     \/ part \in StreamParts /\ (PhoneNext \/ NewsNext \/ ObsNext)
     \/ /\ part \in ViewerParts
        /\ \/ PageNext \/ WalletNext \/ QuoteNext \/ HelperNext \/ SearchNext
           \/ PanelNext \/ MapNext \/ CallNext \/ ShellNext
     \/ /\ part \in AdminParts
        /\ \/ SetNext \/ EconNext \/ AccNext \/ BooksNext
           \/ DiagNext \/ SubjectNext \/ LogNext
     \/ part \in ServerParts /\ (StartNext \/ FanNext \/ GeomNext)

vars == <<part, s1, s2, s3, s4, s5, s6, s7, s8, s9, s10, s11, s12, s13, s14, s15, s16>>

Spec == Init /\ [][Next]_vars

-----------------------------------------------------------------------------
(* The parts of which it is asked what comes about in the end.              *)
gps == <<s1, s2, s3, s4, s5, s6, s7>>
nav == <<s1, s2, s3, s4, s5, s6, s7, s8>>
cfg == <<s1, s2, s3, s4, s5, s6, s7, s8, s9, s10>>
rate == <<s1, s2, s3, s4>>

LiveInit ==
  \/ part = "gps" /\ Gps!Init /\ Off8
  \/ part = "nav" /\ Nav!Init /\ Off9
  \/ part = "cfg" /\ Conf!Init /\ Off11
  \/ part = "rate" /\ Rate!Init /\ Off5

GpsNext == part = "gps" /\ Gps!Next /\ UNCHANGED <<s8, s9, s10, s11, s12, s13, s14, s15, s16>>
NavNext == part = "nav" /\ Nav!Next /\ UNCHANGED <<s9, s10, s11, s12, s13, s14, s15, s16>>
ConfNext == part = "cfg" /\ Conf!Next /\ UNCHANGED <<s11, s12, s13, s14, s15, s16>>
RateNext == part = "rate" /\ Rate!Next /\ UNCHANGED <<s5, s6, s7, s8, s9, s10, s11, s12, s13, s14, s15, s16>>

LiveNext == UNCHANGED part /\ (GpsNext \/ NavNext \/ ConfNext \/ RateNext)

(* The fairness that the modules assume, for the part that runs.            *)
Runs(p) == part = p
GpsFairness ==
  /\ SF_gps(Runs("gps") /\ Gps!Tick) /\ WF_gps(Runs("gps") /\ Gps!WatchGps)
  /\ WF_gps(Runs("gps") /\ (Gps!IngestGps(p1) \/ Gps!BroadcastGps(p1)))
NavFairness ==
  /\ SF_nav(Runs("nav") /\ Nav!Tick)
  /\ SF_nav(Runs("nav") /\ Nav!GetActiveWaypoint(p1)) /\ WF_nav(Runs("nav") /\ Nav!ReadLiveNav(p1))
  /\ WF_nav(Runs("nav") /\ Nav!KeepRoute(p1)) /\ SF_nav(Runs("nav") /\ Nav!GetWalkingRoute(p1))
  /\ WF_nav(Runs("nav") /\ Nav!Refresh(p1)) /\ SF_nav(Runs("nav") /\ Nav!Answered(p1))
ConfFairness == \A l \in {p1, p2} : WF_cfg(Runs("cfg") /\ Conf!Proceed(l))
RateFairness ==
  /\ WF_rate(Runs("rate") /\ Rate!Tick)
  /\ \A c \in {p1, p2} : WF_rate(Runs("rate") /\ Rate!Proceed(c))

LiveSpec ==
  LiveInit /\ [][LiveNext]_vars /\ GpsFairness /\ NavFairness /\ ConfFairness /\ RateFairness

-----------------------------------------------------------------------------
(* The pool of slots alone.                                                 *)
SlotSpec == Init /\ part = "slot" /\ [][Next]_vars

-----------------------------------------------------------------------------
TypeOK ==
  /\ part \in TwitchParts =>
       /\ part = "con" => Con!TypeOK
       /\ part = "sub" => Sub!TypeOK
       /\ part = "slot" => Slot!TypeOK
       /\ part = "oauth" => OAuth!TypeOK
  /\ part \in StreamParts =>
       /\ part = "phone" => Phone!TypeOK
       /\ part = "news" => News!TypeOK
       /\ part = "obs" => Obs!TypeOK
       /\ part = "gps" => Gps!TypeOK
       /\ part = "nav" => Nav!TypeOK
  /\ part \in ViewerParts =>
       /\ part = "page" => Page!TypeOK
       /\ part = "wallet" => Wallet!TypeOK
       /\ part = "quote" => Quote!TypeOK
       /\ part = "helper" => Helper!TypeOK
       /\ part = "search" => Search!TypeOK
       /\ part = "panel" => Panel!TypeOK
       /\ part = "map" => Map!TypeOK
       /\ part = "call" => Call!TypeOK
       /\ part = "shell" => Shell!TypeOK
  /\ part \in AdminParts =>
       /\ part = "settings" => Set!TypeOK
       /\ part = "economy" => Econ!TypeOK
       /\ part = "acceptance" => Acc!TypeOK
       /\ part = "books" => Books!TypeOK
       /\ part = "diag" => Diag!TypeOK
       /\ part = "subject" => Subject!TypeOK
       /\ part = "log" => Log!TypeOK
       /\ part = "cfg" => Conf!TypeOK
  /\ part \in ServerParts =>
       /\ part = "start" => Start!TypeOK
       /\ part = "fanout" => Fan!TypeOK
       /\ part = "geometry" => Geom!TypeOK
       /\ part = "rate" => Rate!TypeOK

(* A refresh presents a token that Twitch still takes, unless the streamer  *)
(* took that back or the server lost the next one, however the refreshes and*)
(* an authorisation interleave (tokens.ts); a part of NewestWins.           *)
PresentsGoodToken == part = "con" => Con!PresentsGoodToken

(* A synchronisation of the EventSub subscriptions that ends without an     *)
(* error leaves one to every wanted type, whatever it found and deleted; and*)
(* a process that answers requests has its schema and its channel whole,    *)
(* however processes of two builds start, die and lose Postgres.            *)
SetUpIsWhole ==
  [][/\ part = "sub" => Sub!SyncEndsSubscribed
     /\ part = "start" => Start!ServesWhole']_vars

(* Whoever gets a waypoint for Channel Points has redeemed a reward at the  *)
(* quote's price, and does not get the points back, unless a moderator gives*)
(* them or the server could not know that it had activated the waypoint.    *)
PaidByOwner == part = "slot" => Slot!PaidByOwner

(* A viewer who redeems the reward of another viewer's offer is refunded    *)
(* and the offer stands (eventsub.ts:281).                                  *)
StrangerLeavesOffer == Slot!StrangerLeavesOffer

(* A waypoint is never priced from a position older than CLOCK_SKEW_PAST_MS *)
(* and gpsTimeoutSeconds, whatever the phone goes on sending; the price     *)
(* that the admin's page previews is the one the server takes; and a quote  *)
(* is for a walk that the router knows, from about where the streamer was to*)
(* about the place of the tap, within the limits.                           *)
PricesAreTrue ==
  /\ part = "phone" => Phone!PricedWithinSkew
  /\ part = "settings" => Set!PreviewIsThePrice
  /\ part = "quote" => Quote!QuotedAsRouted

(* With everything delivered a page of the streamer, of OBS or of the admin *)
(* shows the job that runs, and the Panel the last waypoint, unless what it *)
(* was told last was overtaken.  An event reaches each socket it is for     *)
(* once, unless Redis failed it; and the HUD draws what it was told, dimmed *)
(* when that is old.                                                        *)
LostOnlyToLateNews ==
  /\ part = "news" => News!LostOnlyToLateNews
  /\ part = "panel" => Panel!LastIsShown
  /\ part = "fanout" => Fan!HeardOnce
  /\ part = "obs" => Obs!HudIsTrue

(* What a person confirms is what they saw: the second tap on the phone is  *)
(* for the job that the first was for, and a save of the settings sends the *)
(* fields that were changed by hand and no others.                          *)
DoesWhatWasShown ==
  [][/\ part = "news" => News!ConfirmsWhatWasArmed
     /\ part = "settings" => Set!SavesOnlyWhatWasTyped]_vars

(* A viewer who has paid is not told that the purchase failed.              *)
PaidIsNotDenied == part = "page" => Page!PaidIsNotDenied

(* No viewer is shown another one's balance or credits, and no socket hears *)
(* what is for others than who it proved to be.                             *)
ShownIsOwn ==
  /\ part = "wallet" => Wallet!ShownIsOwn
  /\ part = "fanout" => Fan!HeardByWhoMay

(* What comes late does not take the place of what is newer: an error that  *)
(* Twitch's helper has settled since, the places for an earlier search, the *)
(* price of an earlier click, an economy that was read before the action, a *)
(* map that was made of an earlier configuration, a script that is not of   *)
(* the page that the service worker answered; nor is a refresh token read   *)
(* before the wait for the lock presented after another refresh has spent it*)
(* (tokens.ts:180).                                                         *)
NewestWins ==
  /\ PresentsGoodToken
  /\ part = "helper" => Helper!LateIsUpToDate
  /\ part = "search" => Search!ListIsOfTheQuery
  /\ part = "panel" => Panel!PriceIsOfLastPick
  /\ part = "economy" => Econ!RefreshIsAfterAction
  /\ part = "map" => Map!MapIsOfThePage
  /\ part = "shell" => Shell!PageIsWhole

(* What a person is told of what was done is so: what the acceptance list   *)
(* ticks has happened; a channel that is reported connected is, with all    *)
(* that it needs; and a viewer is told "no connection" when no word of the  *)
(* API has arrived, never of a verdict of it; the economy raises no alarm   *)
(* while bookings are under way; a page that is said not to have reported   *)
(* had not, and a button that is called visible or hidden was measured so,  *)
(* however the batches travel; and the rows of the request log are the lines*)
(* that were written, once each, however they are cut on their way, but     *)
(* those that the rate refused or a connection that ended took with it      *)
(* (diag/ingest.ts).                                                        *)
NoFalseVerdict ==
  /\ part = "acceptance" => Acc!TickedIsDone
  /\ part = "oauth" => OAuth!ConnectedIsSo
  /\ part = "call" => Call!ToldIsSo
  /\ part = "books" => Books!BooksAreTrue
  /\ part = "diag" => Diag!VerdictWasSo
  /\ part = "subject" => Subject!SilenceIsTrue
  /\ part = "log" => Log!LinesAreWhole

(* What the system measures is so: zones and distances, by which a place is *)
(* refused or priced, are what they are by definition (domain/geo.ts).      *)
MeasuredIsTrue == part = "geometry" => Geom!GeometryIsRight

(* Viewers are told when the phone drops off, also after a restart of the   *)
(* server and whatever the phone sent between two rounds of the watch.      *)
DropIsTold == (Runs("gps") /\ Gps!Dropped) ~> (Runs("gps") /\ Gps!ViewersKnow)

(* The page of a viewer gets the job that is on, with its route, although   *)
(* the refreshes, the first route and the deletion of the last one race, and*)
(* although a page without a job ignores the routes it is sent.             *)
RouteCatchesUp ==
  \A to \in Nav!Positions : (Runs("nav") /\ Nav!GoesTo(to)) ~> (Runs("nav") /\ Nav!CaughtUp(to))

(* The owner's Config page ends up with the right verdict, and names what   *)
(* is missing.                                                              *)
StatusCatchesUp == <>[](Runs("cfg") /\ Conf!InView) => []<>(Runs("cfg") /\ Conf!RightlyShown)

(* A viewer over the limit is let through again.                            *)
LetThroughAgain == []<>(Runs("rate") => Rate!LetThrough)

-----------------------------------------------------------------------------
(* The books while they are read: EconomyBooks.                             *)
BooksInv ==
  /\ Books!BookingsAreApart /\ Books!LedgerIsSummed /\ Books!ViewIsOfTheBooks
  /\ Books!WalletIsOfTheBooks /\ Books!BooksAreTrue

LEMMA BooksSums == ASSUME NEW f PROVE Books!SumFunction(f) = SumFunction(f)
BY DEF Books!SumFunction, Books!SumFunctionOnSet, Books!FoldFunctionOnSet, Books!MapThenFoldSet,
       SumFunction, SumFunctionOnSet, FoldFunctionOnSet, MapThenFoldSet

LEMMA BooksSizes ==
  ASSUME NEW S
  PROVE  (Books!IsFiniteSet(S) <=> IsFiniteSet(S)) /\ Books!Cardinality(S) = Cardinality(S)
BY DEF Books!IsFiniteSet, IsFiniteSet, Books!Cardinality, Cardinality

(* What rows come to: nothing, a whole number, and with one more, so much   *)
(* more.                                                                    *)
LEMMA BooksOfNone == Books!Sum({}) = 0
<1> DEFINE f == [row \in {} |-> row.amount]
<1>1. {} = DOMAIN f
  OBVIOUS
<1> HIDE DEF f
<1>2. SumFunction(f) = 0
  BY <1>1, SumEmpty
<1>3. QED
  BY <1>2, BooksSums DEF Books!Sum, f

LEMMA BooksOfSome ==
  ASSUME NEW rows, IsFiniteSet(rows), rows \subseteq Books!Entry
  PROVE  Books!Sum(rows) \in Int
<1> DEFINE f == [row \in rows |-> row.amount]
<1>1. rows = DOMAIN f
  OBVIOUS
<1>2. Whole(f, rows)
  BY DEF Whole, Books!Entry
<1> HIDE DEF f
<1>3. SumFunction(f) \in Int
  BY <1>1, <1>2, SumType
<1>4. QED
  BY <1>3, BooksSums DEF Books!Sum, f

LEMMA BooksOfOneMore ==
  ASSUME NEW rows, IsFiniteSet(rows), rows \subseteq Books!Entry, NEW row \in Books!Entry, row \notin rows
  PROVE  Books!Sum(rows \union {row}) = Books!Sum(rows) + row.amount
<1> DEFINE f == [r \in rows |-> r.amount]
           g == [r \in rows \union {row} |-> r.amount]
<1>1. Grows(f, g, row)
  BY DEF Grows
<1>2. IsFiniteSet(DOMAIN f) /\ Whole(g, DOMAIN g) /\ g[row] = row.amount
  BY DEF Whole, Books!Entry
<1> HIDE DEF f, g
<1>3. SumFunction(g) = SumFunction(f) + g[row]
  BY <1>1, <1>2, SumAdd
<1>4. QED
  BY <1>2, <1>3, BooksSums DEF Books!Sum, f, g

LEMMA BooksBegins == ASSUME Books!Init PROVE BooksInv
<1>1. \A v : Books!Of(v) = {} /\ Books!OfType(v) = {}
  BY DEF Books!Init, Books!Of, Books!OfType
<1>2. \A v \in Askers : s1[v] = 0
  BY DEF Books!Init
<1>3. s1 \in [Askers -> Int] /\ IsFiniteSet(DOMAIN s1) /\ \A v \in DOMAIN s1 : s1[v] = 0
  BY PartsAssumption DEF Books!Init
<1>4. Books!SumFunction(s1) = 0
  BY <1>3, SumZero, BooksSums
<1>5. IsFiniteSet(s2) /\ s2 \subseteq Books!Entry
  BY FS_EmptySet DEF Books!Init
<1>6. \A v \in Askers : Books!IsHistory(Books!Of(v), s1[v])
  BY <1>1, <1>2, BooksOfNone DEF Books!IsHistory
<1>7. Books!Booked = 0
  BY <1>1, BooksOfNone DEF Books!Booked
<1>8. Books!LedgerIsSummed
  BY BooksSizes, <1>3, <1>4, <1>5, <1>6, <1>7 DEF Books!LedgerIsSummed
<1>9. Books!BookingsAreApart
  BY DEF Books!Init, Books!BookingsAreApart, Books!Idle, Books!Holds
<1>10. QED
  BY <1>8, <1>9 DEF Books!Init, BooksInv, Books!Unread, Books!Closed, Books!ViewIsOfTheBooks,
     Books!WalletIsOfTheBooks, Books!BooksAreTrue, Books!TotalsAddUp, Books!HistoryIsOfTheBalance

(* Wallets and ledger change together, and only when a booking commits.     *)
LEMMA BooksLedgerStays ==
  ASSUME Books!LedgerIsSummed, UNCHANGED <<s1, s2>>
  PROVE  Books!LedgerIsSummed'
BY DEF Books!LedgerIsSummed, Books!Booked, Books!Of, Books!OfType

LEMMA BooksViewStays ==
  ASSUME Books!ViewIsOfTheBooks, UNCHANGED <<s1, s2, s5>>
  PROVE  Books!ViewIsOfTheBooks'
BY DEF Books!ViewIsOfTheBooks, Books!Net

LEMMA BooksWalletStays ==
  ASSUME Books!WalletIsOfTheBooks, s6' = s6
  PROVE  Books!WalletIsOfTheBooks'
BY DEF Books!WalletIsOfTheBooks

LEMMA BooksTruthStays ==
  ASSUME Books!BooksAreTrue, UNCHANGED <<s5, s6>>
  PROVE  Books!BooksAreTrue'
BY DEF Books!BooksAreTrue, Books!TotalsAddUp, Books!HistoryIsOfTheBalance, Books!Net

LEMMA BooksStays == ASSUME BooksInv, UNCHANGED <<s1, s2, s3, s4, s5, s6>> PROVE BooksInv'
<1>1. Books!BookingsAreApart'
  BY DEF BooksInv, Books!BookingsAreApart, Books!Holds
<1>2. QED
  BY <1>1, BooksLedgerStays, BooksViewStays, BooksWalletStays, BooksTruthStays DEF BooksInv

(* A booking changes what is held of it, and of no other.                   *)
LEMMA BooksBook ==
  ASSUME Books!BookingsAreApart, NEW w \in Procs, NEW b,
         b = Books!Idle \/ b \in Books!Booking,
         s4' = [s4 EXCEPT ![w] = b], s1' = s1, s3' \in Nat,
         b.at = "locked" => b.before = s1[b.row.viewer],
         b.at = "booked" => b.row.after = s1[b.row.viewer] + b.row.amount,
         b.at \in {"locked", "booked"} => \A other \in Procs \ {w} : ~Books!Holds(other, b.row.viewer)
  PROVE  Books!BookingsAreApart'
<1>1. DOMAIN s4' = Procs /\ s4'[w] = b /\ \A o \in Procs \ {w} : s4'[o] = s4[o]
  BY DEF Books!BookingsAreApart
<1> SUFFICES ASSUME NEW p \in Procs
             PROVE  /\ s4'[p] = Books!Idle \/ s4'[p] \in Books!Booking
                    /\ s4'[p].at = "locked" => s4'[p].before = s1[s4'[p].row.viewer]
                    /\ s4'[p].at = "booked" => s4'[p].row.after = s1[s4'[p].row.viewer] + s4'[p].row.amount
                    /\ \A other \in Procs \ {p}, v \in Askers :
                         (s4'[p].at \in {"locked", "booked"} /\ s4'[p].row.viewer = v) =>
                         ~(s4'[other].at \in {"locked", "booked"} /\ s4'[other].row.viewer = v)
  BY <1>1 DEF Books!BookingsAreApart, Books!Holds
<1>2. CASE p = w
  BY <1>1, <1>2 DEF Books!Holds
<1>3. CASE p # w
  <2>1. s4'[p] = s4[p]
    BY <1>1, <1>3
  <2>2. /\ s4[p] = Books!Idle \/ s4[p] \in Books!Booking
        /\ s4[p].at = "locked" => s4[p].before = s1[s4[p].row.viewer]
        /\ s4[p].at = "booked" => s4[p].row.after = s1[s4[p].row.viewer] + s4[p].row.amount
    BY DEF Books!BookingsAreApart
  <2>3. ASSUME NEW other \in Procs \ {p}, s4[p].at \in {"locked", "booked"},
               s4'[other].at \in {"locked", "booked"}, s4'[other].row.viewer = s4[p].row.viewer,
               s4[p].row.viewer \in Askers
        PROVE  FALSE
    <3>1. CASE other = w
      BY <1>1, <1>3, <2>3, <3>1 DEF Books!Holds
    <3>2. CASE other # w
      BY <1>1, <2>3, <3>2 DEF Books!Holds, Books!BookingsAreApart
    <3>3. QED
      BY <3>1, <3>2
  <2>4. QED
    BY <2>1, <2>2, <2>3
<1>4. QED
  BY <1>2, <1>3

LEMMA BooksBeginsOne ==
  ASSUME Books!BookingsAreApart, NEW w \in Procs, Books!Begin(w)
  PROVE  Books!BookingsAreApart'
<1> DEFINE New(v, type, amount) ==
             [created |-> s3, viewer |-> v, type |-> type, amount |-> amount,
              key |-> IF type = "ADMIN_ADJUSTMENT" THEN s3 ELSE None, after |-> None]
<1>1. PICK v \in Askers, type \in Books!Types :
        \E amount \in Books!Amounts[type] :
          s4' = [s4 EXCEPT ![w] = [at |-> "begun", before |-> None, row |-> New(v, type, amount)]]
  BY DEF Books!Begin
<1>b. PICK amount \in Books!Amounts[type] :
        s4' = [s4 EXCEPT ![w] = [at |-> "begun", before |-> None, row |-> New(v, type, amount)]]
  BY <1>1
<1>a. PICK row, b :
        /\ row = New(v, type, amount) /\ b = [at |-> "begun", before |-> None, row |-> row]
        /\ s4' = [s4 EXCEPT ![w] = b]
  BY <1>b
<1>2. s3 \in Nat /\ s3' \in Nat /\ s1' = s1
  BY DEF Books!Begin, Books!BookingsAreApart
<1>3. amount \in Int
  BY DEF Books!Amounts, Books!Types
<1>4. row \in Books!Entry
  BY <1>a, <1>2, <1>3 DEF Books!Entry
<1>5. b \in Books!Booking /\ b.at = "begun"
  BY <1>a, <1>4 DEF Books!Booking
<1>6. QED
  BY <1>2, <1>5, <1>a, BooksBook

LEMMA BooksLocksOne ==
  ASSUME Books!BookingsAreApart, Books!LedgerIsSummed, NEW w \in Procs, Books!LockWallet(w)
  PROVE  Books!BookingsAreApart'
<1>1. s4[w] \in Books!Booking /\ s4[w].row.viewer \in Askers
  BY DEF Books!LockWallet, Books!BookingsAreApart, Books!Idle, Books!Booking, Books!Entry
<1>2. PICK b : b = [s4[w] EXCEPT !.at = "locked", !.before = s1[s4[w].row.viewer]]
  OBVIOUS
<1>3. s1[s4[w].row.viewer] \in Int
  BY <1>1 DEF Books!LedgerIsSummed
<1>4. /\ b \in Books!Booking /\ b.at = "locked" /\ b.before = s1[s4[w].row.viewer]
      /\ b.row = s4[w].row
  BY <1>1, <1>2, <1>3 DEF Books!Booking
<1>5. /\ s4' = [s4 EXCEPT ![w] = b] /\ s1' = s1 /\ s3' = s3
      /\ \A other \in Procs : ~Books!Holds(other, s4[w].row.viewer)
  BY <1>2 DEF Books!LockWallet
<1>6. s3' \in Nat
  BY <1>5 DEF Books!BookingsAreApart
<1>7. QED
  BY <1>4, <1>5, <1>6, BooksBook

LEMMA BooksAppendsOne ==
  ASSUME Books!BookingsAreApart, Books!LedgerIsSummed, NEW w \in Procs, Books!AppendEntry(w)
  PROVE  Books!BookingsAreApart'
<1>0. s1' = s1 /\ s3' \in Nat
  BY DEF Books!AppendEntry, Books!BookingsAreApart
<1>1. /\ s4[w] \in Books!Booking /\ s4[w].row.viewer \in Askers /\ s4[w].row \in Books!Entry
      /\ s4[w].at = "locked" /\ s4[w].before = s1[s4[w].row.viewer]
  BY DEF Books!AppendEntry, Books!BookingsAreApart, Books!Idle, Books!Booking, Books!Entry
<1>2. CASE s4' = [s4 EXCEPT ![w] = Books!Idle]
  BY <1>0, <1>2, BooksBook DEF Books!Idle
<1>3. CASE s4' = [s4 EXCEPT ![w] = [s4[w] EXCEPT !.at = "booked", !.row.after = Books!After(w)]]
  <2>1. PICK row : row = [s4[w].row EXCEPT !.after = Books!After(w)]
    OBVIOUS
  <2>2. PICK b : b = [s4[w] EXCEPT !.at = "booked", !.row = row]
    OBVIOUS
  <2>3. s1[s4[w].row.viewer] \in Int /\ s4[w].row.amount \in Int
    BY <1>1 DEF Books!LedgerIsSummed, Books!Entry
  <2>4. Books!After(w) \in Int /\ Books!After(w) = s1[s4[w].row.viewer] + s4[w].row.amount
    BY <1>1, <2>3 DEF Books!After
  <2>5. /\ row \in Books!Entry /\ row.after = Books!After(w) /\ row.viewer = s4[w].row.viewer
        /\ row.amount = s4[w].row.amount
    BY <1>1, <2>1, <2>4 DEF Books!Entry
  <2>6. b \in Books!Booking /\ b.at = "booked" /\ b.row = row
    BY <1>1, <2>2, <2>5 DEF Books!Booking
  <2>7. s4' = [s4 EXCEPT ![w] = b]
    BY <1>3, <2>1, <2>2
  <2>8. \A other \in Procs \ {w} : ~Books!Holds(other, row.viewer)
    BY <1>1, <2>5 DEF Books!BookingsAreApart, Books!Holds
  <2>9. QED
    BY <1>0, <2>4, <2>5, <2>6, <2>7, <2>8, BooksBook
<1>4. QED
  BY <1>2, <1>3 DEF Books!AppendEntry

LEMMA BooksRolledBack ==
  ASSUME Books!BookingsAreApart, NEW w \in Procs, s4' = [s4 EXCEPT ![w] = Books!Idle], s3' = s3, s1' = s1
  PROVE  Books!BookingsAreApart'
<1>1. s3' \in Nat
  BY DEF Books!BookingsAreApart
<1>2. QED
  BY <1>1, BooksBook DEF Books!Idle

LEMMA BooksRows ==
  ASSUME Books!LedgerIsSummed
  PROVE  /\ IsFiniteSet(s2) /\ s2 \subseteq Books!Entry
         /\ \A v : IsFiniteSet(Books!Of(v)) /\ Books!Of(v) \subseteq Books!Entry
         /\ \A t : IsFiniteSet(Books!OfType(t)) /\ Books!OfType(t) \subseteq Books!Entry
<1>1. IsFiniteSet(s2) /\ s2 \subseteq Books!Entry
  BY BooksSizes DEF Books!LedgerIsSummed
<1>2. ASSUME NEW v PROVE Books!Of(v) \subseteq s2 /\ Books!OfType(v) \subseteq s2
  BY DEF Books!Of, Books!OfType
<1>3. QED
  BY <1>1, <1>2, FS_Subset

(* A row that is booked adds its amount to its viewer, to its type and to   *)
(* the whole.                                                               *)
LEMMA BooksGrow ==
  ASSUME Books!LedgerIsSummed, NEW row \in Books!Entry, row \notin s2,
         row.after = s1[row.viewer] + row.amount,
         s2' = s2 \union {row}, s1' = [s1 EXCEPT ![row.viewer] = @ + row.amount]
  PROVE  Books!LedgerIsSummed' /\ IsFiniteSet(s2) /\ Cardinality(s2') = Cardinality(s2) + 1
<1> DEFINE V == row.viewer
           a == row.amount
<1>1. /\ IsFiniteSet(s2) /\ s2 \subseteq Books!Entry
      /\ \A v : IsFiniteSet(Books!Of(v)) /\ Books!Of(v) \subseteq Books!Entry
      /\ \A t : IsFiniteSet(Books!OfType(t)) /\ Books!OfType(t) \subseteq Books!Entry
  BY BooksRows
<1>2. /\ V \in Askers /\ a \in Int /\ row.type \in Books!Types
      /\ s1 \in [Askers -> Int]
  BY DEF Books!Entry, Books!LedgerIsSummed
<1>3. IsFiniteSet(s2') /\ s2' \subseteq Books!Entry /\ Cardinality(s2') = Cardinality(s2) + 1
  BY <1>1, FS_AddElement
<1>4. s1' \in [Askers -> Int] /\ s1'[V] = s1[V] + a /\ \A v \in Askers \ {V} : s1'[v] = s1[v]
  BY <1>2
<1>5. ASSUME NEW v \in Askers
      PROVE  Books!IsHistory(Books!Of(v)', s1'[v])
  <2>1. CASE v = V
    <3>1. Books!Of(v)' = Books!Of(v) \union {row} /\ row \notin Books!Of(v)
      BY <2>1 DEF Books!Of
    <3>2. Books!Sum(Books!Of(v) \union {row}) = Books!Sum(Books!Of(v)) + a
      BY <1>1, <3>1, BooksOfOneMore
    <3>3. s1[v] = Books!Sum(Books!Of(v)) /\ s1[v] \in Int
      BY <1>2 DEF Books!LedgerIsSummed, Books!IsHistory
    <3>4. (Books!Of(v) \union {row}) \ {row} = Books!Of(v)
      BY <3>1
    <3>a. row.after = s1[v] + a
      BY <2>1
    <3>b. row.after - a = s1[v]
      BY <1>2, <3>3, <3>a
    <3>5. row.after = s1'[v] /\ row.after - a = Books!Sum((Books!Of(v) \union {row}) \ {row})
      BY <1>4, <2>1, <3>3, <3>4, <3>a, <3>b
    <3>6. s1'[v] = Books!Sum(Books!Of(v) \union {row})
      BY <1>4, <2>1, <3>2, <3>3
    <3>7. QED
      BY <3>1, <3>5, <3>6 DEF Books!IsHistory
  <2>2. CASE v # V
    <3>1. Books!Of(v)' = Books!Of(v)
      BY <2>2 DEF Books!Of
    <3>2. Books!IsHistory(Books!Of(v), s1[v]) /\ s1'[v] = s1[v]
      BY <1>4, <2>2 DEF Books!LedgerIsSummed
    <3>3. QED
      BY <3>1, <3>2
  <2>3. QED
    BY <2>1, <2>2
<1>6. ASSUME NEW t
      PROVE  Books!Sum(Books!OfType(t)') = Books!Sum(Books!OfType(t)) + (IF t = row.type THEN a ELSE 0)
  <2>0. Books!Sum(Books!OfType(t)) \in Int
    BY <1>1, BooksOfSome
  <2>1. CASE t = row.type
    <3>1. Books!OfType(t)' = Books!OfType(t) \union {row} /\ row \notin Books!OfType(t)
      BY <2>1 DEF Books!OfType
    <3>2. QED
      BY <1>1, <2>1, <3>1, BooksOfOneMore
  <2>2. CASE t # row.type
    <3>1. Books!OfType(t)' = Books!OfType(t)
      BY <2>2 DEF Books!OfType
    <3>2. QED
      BY <2>0, <2>2, <3>1
  <2>3. QED
    BY <2>1, <2>2
<1>7. Books!Booked' = Books!Booked + a
  <2> DEFINE S(t) == Books!Sum(Books!OfType(t))
             T(t) == Books!Sum(Books!OfType(t)')
  <2>1. \A t : S(t) \in Int
    BY <1>1, BooksOfSome
  <2>2. \A t : T(t) = S(t) + (IF t = row.type THEN a ELSE 0)
    BY <1>6
  <2>3. Books!Booked = S("EXCHANGE_CREDIT") + S("WAYPOINT_DEBIT") + S("MISSION_REFUND") + S("ADMIN_ADJUSTMENT")
    BY DEF Books!Booked
  <2>4. Books!Booked' = T("EXCHANGE_CREDIT") + T("WAYPOINT_DEBIT") + T("MISSION_REFUND") + T("ADMIN_ADJUSTMENT")
    BY DEF Books!Booked
  <2>5. row.type \in {"EXCHANGE_CREDIT", "WAYPOINT_DEBIT", "MISSION_REFUND", "ADMIN_ADJUSTMENT"}
    BY <1>2 DEF Books!Types, Books!Amounts
  <2> HIDE DEF S, T
  <2>6. QED
    BY <1>2, <2>1, <2>2, <2>3, <2>4, <2>5
<1>8. Books!SumFunction(s1)' = Books!SumFunction(s1) + a
  <2>1. PICK f : f = s1'
    OBVIOUS
  <2>2. DOMAIN s1 = Askers /\ DOMAIN f = Askers /\ IsFiniteSet(DOMAIN s1)
    BY <1>2, <1>4, <2>1, PartsAssumption
  <2>3. Differs(s1, f, V) /\ Whole(s1, DOMAIN s1) /\ Whole(f, DOMAIN f)
    BY <1>2, <1>4, <2>1, <2>2 DEF Differs, Whole
  <2>4. SumFunction(f) = SumFunction(s1) + (f[V] - s1[V])
    BY <2>2, <2>3, SumChange
  <2>5. f[V] - s1[V] = a
    BY <1>2, <1>4, <2>1
  <2>6. Books!SumFunction(s1') = Books!SumFunction(s1) + a
    BY <2>1, <2>4, <2>5, BooksSums
  <2>7. QED
    BY <2>6
<1>9. Books!SumFunction(s1) = Books!Booked
  BY DEF Books!LedgerIsSummed
<1>10. Books!LedgerIsSummed'
  BY <1>3, <1>4, <1>5, <1>7, <1>8, <1>9, BooksSizes DEF Books!LedgerIsSummed
<1>11. QED
  BY <1>1, <1>3, <1>10

LEMMA BooksCommitOne ==
  ASSUME BooksInv, NEW w \in Procs, Books!Commit(w)
  PROVE  BooksInv'
<1> DEFINE row == s4[w].row
<1>1. /\ row \in Books!Entry /\ row.viewer \in Askers /\ s4[w].at = "booked"
      /\ row.after = s1[row.viewer] + row.amount
  BY DEF BooksInv, Books!Commit, Books!BookingsAreApart, Books!Idle, Books!Booking, Books!Entry
<1>2. s4' = [s4 EXCEPT ![w] = Books!Idle] /\ UNCHANGED <<s3, s5, s6>>
  BY DEF Books!Commit
<1>3. Books!WalletIsOfTheBooks' /\ Books!BooksAreTrue'
  BY <1>2, BooksWalletStays, BooksTruthStays DEF BooksInv
<1>4. CASE UNCHANGED <<s1, s2>>
  BY <1>2, <1>3, <1>4, BooksRolledBack, BooksLedgerStays, BooksViewStays DEF BooksInv
<1>5. CASE ~Books!IsBooked(row) /\ s2' = s2 \union {row} /\ s1' = [s1 EXCEPT ![row.viewer] = @ + row.amount]
  <2>1. row \notin s2
    BY <1>5 DEF Books!IsBooked, Books!OfType
  <2>2. Books!LedgerIsSummed' /\ IsFiniteSet(s2) /\ Cardinality(s2') = Cardinality(s2) + 1
    BY <1>1, <1>5, <2>1, BooksGrow DEF BooksInv
  <2>3. Books!BookingsAreApart'
    <3>1. DOMAIN s4' = Procs /\ s4'[w] = Books!Idle /\ \A o \in Procs \ {w} : s4'[o] = s4[o]
      BY <1>2 DEF BooksInv, Books!BookingsAreApart
    <3>2. ASSUME NEW p \in Procs \ {w}, s4[p].at \in {"locked", "booked"}
          PROVE  s4[p].row.viewer \in Askers /\ s4[p].row.viewer # row.viewer
      <4>1. s4[p].row.viewer \in Askers
        BY <3>2 DEF BooksInv, Books!BookingsAreApart, Books!Booking, Books!Idle, Books!Entry
      <4>2. Books!Holds(w, row.viewer)
        BY <1>1 DEF Books!Holds
      <4>3. ~Books!Holds(p, row.viewer)
        BY <1>1, <4>2 DEF BooksInv, Books!BookingsAreApart
      <4>4. QED
        BY <3>2, <4>1, <4>3 DEF Books!Holds
    <3>3. \A v \in Askers \ {row.viewer} : s1'[v] = s1[v]
      BY <1>5 DEF BooksInv, Books!LedgerIsSummed
    <3>4. ASSUME NEW p \in Procs
          PROVE  /\ s4'[p] = Books!Idle \/ s4'[p] \in Books!Booking
                 /\ s4'[p].at = "locked" => s4'[p].before = s1'[s4'[p].row.viewer]
                 /\ s4'[p].at = "booked" => s4'[p].row.after = s1'[s4'[p].row.viewer] + s4'[p].row.amount
                 /\ \A other \in Procs \ {p}, v \in Askers :
                      (s4'[p].at \in {"locked", "booked"} /\ s4'[p].row.viewer = v) =>
                      ~(s4'[other].at \in {"locked", "booked"} /\ s4'[other].row.viewer = v)
      <4>1. CASE p = w
        BY <3>1, <4>1 DEF Books!Idle
      <4>2. CASE p # w
        <5>1. s4'[p] = s4[p] /\ \A other \in Procs : s4'[other] = Books!Idle \/ s4'[other] = s4[other]
          BY <3>1, <4>2
        <5>2. /\ s4[p] = Books!Idle \/ s4[p] \in Books!Booking
              /\ s4[p].at = "locked" => s4[p].before = s1[s4[p].row.viewer]
              /\ s4[p].at = "booked" => s4[p].row.after = s1[s4[p].row.viewer] + s4[p].row.amount
              /\ \A other \in Procs \ {p}, v \in Askers :
                   (s4[p].at \in {"locked", "booked"} /\ s4[p].row.viewer = v) =>
                   ~(s4[other].at \in {"locked", "booked"} /\ s4[other].row.viewer = v)
          BY DEF BooksInv, Books!BookingsAreApart, Books!Holds
        <5>3. s4[p].at \in {"locked", "booked"} => s1'[s4[p].row.viewer] = s1[s4[p].row.viewer]
          BY <3>2, <3>3, <4>2
        <5>4. QED
          BY <5>1, <5>2, <5>3 DEF Books!Idle
      <4>3. QED
        BY <4>1, <4>2
    <3>5. s3' \in Nat
      BY <1>2 DEF BooksInv, Books!BookingsAreApart
    <3>6. QED
      BY <3>1, <3>4, <3>5 DEF Books!BookingsAreApart, Books!Holds
  <2>4. Books!ViewIsOfTheBooks'
    <3>1. Books!Cardinality(s2') = Books!Cardinality(s2) + 1 /\ Books!Cardinality(s2) \in Nat
      BY <2>2, BooksSizes, FS_CardinalityType
    <3>2. ASSUME NEW n, n \in 0..Books!Cardinality(s2)
          PROVE  n \in 0..Books!Cardinality(s2') /\ n # Books!Cardinality(s2')
      BY <3>1, <3>2
    <3>3. QED
      BY <1>2, <3>2 DEF BooksInv, Books!ViewIsOfTheBooks
  <2>5. QED
    BY <1>3, <2>2, <2>3, <2>4 DEF BooksInv
<1>6. QED
  BY <1>4, <1>5 DEF Books!Commit

(* What is read is of the books as they are.                                *)
LEMMA BooksReads ==
  ASSUME BooksInv, Books!ReadTotals \/ Books!ReadWallets \/ Books!CheckLedgerConsistency
  PROVE  BooksInv'
<1>1. UNCHANGED <<s1, s2, s3, s4, s6>> /\ s6 = Books!Closed
  BY DEF Books!ReadTotals, Books!ReadWallets, Books!CheckLedgerConsistency
<1>2. Books!BookingsAreApart'
  BY <1>1 DEF BooksInv, Books!BookingsAreApart, Books!Holds
<1>3. Books!LedgerIsSummed' /\ Books!WalletIsOfTheBooks' /\ Books!HistoryIsOfTheBalance'
  BY <1>1, BooksLedgerStays, BooksWalletStays DEF BooksInv, Books!HistoryIsOfTheBalance, Books!Closed
<1>4. DOMAIN s5 = {"totals", "wallets", "consistent"}
  BY DEF BooksInv, Books!ViewIsOfTheBooks
<1>n. Books!Cardinality(s2) \in 0..Books!Cardinality(s2)
  <2>1. IsFiniteSet(s2)
    BY BooksRows DEF BooksInv
  <2>2. Books!Cardinality(s2) \in Nat
    BY <2>1, BooksSizes, FS_CardinalityType
  <2>3. QED
    BY <2>2
<1>5. CASE Books!ReadTotals
  <2> DEFINE S(t) == Books!Sum(Books!OfType(t))
  <2>1. PICK read :
          /\ read = [issued |-> S("EXCHANGE_CREDIT"), spent |-> -S("WAYPOINT_DEBIT"),
                     refunded |-> S("MISSION_REFUND"), adjusted |-> S("ADMIN_ADJUSTMENT"),
                     rows |-> Books!Cardinality(s2)]
          /\ s5' = [s5 EXCEPT !.totals = read]
    BY <1>5 DEF Books!ReadTotals
  <2>2. \A t : S(t) \in Int
    BY BooksRows, BooksOfSome DEF BooksInv
  <2>3. Books!Booked = S("EXCHANGE_CREDIT") + S("WAYPOINT_DEBIT") + S("MISSION_REFUND") + S("ADMIN_ADJUSTMENT")
    BY DEF Books!Booked
  <2>4. Books!Net(read) = S("EXCHANGE_CREDIT") - (-S("WAYPOINT_DEBIT")) + S("MISSION_REFUND") + S("ADMIN_ADJUSTMENT")
    BY <2>1 DEF Books!Net
  <2> HIDE DEF S
  <2>5. Books!Net(read) = Books!SumFunction(s1) /\ read.rows = Books!Cardinality(s2)
    BY <2>1, <2>2, <2>3, <2>4 DEF BooksInv, Books!LedgerIsSummed
  <2>6. /\ s5'.totals = read /\ s5'.wallets = s5.wallets /\ s5'.consistent = s5.consistent
        /\ DOMAIN s5' = {"totals", "wallets", "consistent"}
    BY <1>4, <2>1
  <2>7. Books!ViewIsOfTheBooks'
    BY <1>1, <1>n, <2>5, <2>6 DEF BooksInv, Books!ViewIsOfTheBooks, Books!Net
  <2>8. (s5'.consistent # None => s5'.consistent) /\ Books!TotalsAddUp'
    BY <2>5, <2>6 DEF BooksInv, Books!BooksAreTrue, Books!TotalsAddUp, Books!ViewIsOfTheBooks, Books!Net
  <2>9. QED
    BY <1>2, <1>3, <2>7, <2>8 DEF BooksInv, Books!BooksAreTrue
<1>6. CASE Books!ReadWallets
  <2>1. PICK read :
          /\ read.circulating = Books!SumFunction(s1) /\ read.rows = Books!Cardinality(s2)
          /\ s5' = [s5 EXCEPT !.wallets = read]
    BY <1>6 DEF Books!ReadWallets
  <2>2. /\ s5'.wallets = read /\ s5'.totals = s5.totals /\ s5'.consistent = s5.consistent
        /\ DOMAIN s5' = {"totals", "wallets", "consistent"}
    BY <1>4, <2>1
  <2>3. Books!ViewIsOfTheBooks'
    BY <1>1, <1>n, <2>1, <2>2 DEF BooksInv, Books!ViewIsOfTheBooks, Books!Net
  <2>4. (s5'.consistent # None => s5'.consistent) /\ Books!TotalsAddUp'
    BY <2>1, <2>2 DEF BooksInv, Books!BooksAreTrue, Books!TotalsAddUp, Books!ViewIsOfTheBooks, Books!Net
  <2>5. QED
    BY <1>2, <1>3, <2>3, <2>4 DEF BooksInv, Books!BooksAreTrue
<1>7. CASE Books!CheckLedgerConsistency
  <2>1. Books!Mismatches = {}
    BY DEF BooksInv, Books!LedgerIsSummed, Books!IsHistory, Books!Mismatches
  <2>2. PICK verdict : verdict /\ s5' = [s5 EXCEPT !.consistent = verdict]
    BY <1>7, <2>1 DEF Books!CheckLedgerConsistency
  <2>3. /\ s5'.wallets = s5.wallets /\ s5'.totals = s5.totals /\ s5'.consistent = verdict
        /\ DOMAIN s5' = {"totals", "wallets", "consistent"}
    BY <1>4, <2>2
  <2>4. Books!ViewIsOfTheBooks'
    BY <1>1, <2>3 DEF BooksInv, Books!ViewIsOfTheBooks, Books!Net
  <2>5. s5'.consistent
    BY <2>2, <2>3
  <2>6. Books!TotalsAddUp'
    BY <2>3 DEF BooksInv, Books!BooksAreTrue, Books!TotalsAddUp, Books!Net
  <2>7. QED
    BY <1>2, <1>3, <2>4, <2>5, <2>6 DEF BooksInv, Books!BooksAreTrue
<1>8. QED
  BY <1>5, <1>6, <1>7

LEMMA BooksWallet ==
  ASSUME BooksInv, (\E v \in Askers : Books!Open(v)) \/ Books!GetBalance \/ Books!ListWalletTransactions
  PROVE  BooksInv'
<1>1. UNCHANGED <<s1, s2, s3, s4, s5>>
  BY DEF Books!Open, Books!GetBalance, Books!ListWalletTransactions
<1>2. Books!BookingsAreApart'
  BY <1>1 DEF BooksInv, Books!BookingsAreApart, Books!Holds
<1>3. Books!LedgerIsSummed' /\ Books!ViewIsOfTheBooks'
  BY <1>1, BooksLedgerStays, BooksViewStays DEF BooksInv
<1>4. (s5'.consistent # None => s5'.consistent) /\ Books!TotalsAddUp'
  BY <1>1 DEF BooksInv, Books!BooksAreTrue, Books!TotalsAddUp, Books!Net
<1>5. DOMAIN s6 = {"of", "balance", "recent"} /\ s6.of \in Askers \union {None}
  BY DEF BooksInv, Books!WalletIsOfTheBooks
<1>6. CASE \E v \in Askers : Books!Open(v)
  <2>1. PICK v \in Askers : s6' = [Books!Closed EXCEPT !.of = v]
    BY <1>6 DEF Books!Open
  <2>2. s6'.of = v /\ s6'.balance = None /\ s6'.recent = None /\ DOMAIN s6' = {"of", "balance", "recent"}
    BY <2>1 DEF Books!Closed
  <2>3. QED
    BY <1>2, <1>3, <1>4, <2>2
       DEF BooksInv, Books!WalletIsOfTheBooks, Books!BooksAreTrue, Books!HistoryIsOfTheBalance
<1>7. CASE Books!GetBalance
  <2>1. PICK read : /\ read.is = s1[s6.of] /\ read.rows = Books!Of(s6.of)
                    /\ s6' = [s6 EXCEPT !.balance = read]
    BY <1>7 DEF Books!GetBalance
  <2>2. s6.of \in Askers
    BY <1>5, <1>7 DEF Books!GetBalance
  <2>3. Books!IsHistory(read.rows, read.is)
    BY <2>1, <2>2 DEF BooksInv, Books!LedgerIsSummed
  <2>4. /\ s6'.of = s6.of /\ s6'.balance = read /\ s6'.recent = s6.recent
        /\ DOMAIN s6' = {"of", "balance", "recent"}
    BY <1>5, <2>1
  <2>5. QED
    BY <1>2, <1>3, <1>4, <1>5, <2>3, <2>4
       DEF BooksInv, Books!WalletIsOfTheBooks, Books!BooksAreTrue, Books!HistoryIsOfTheBalance
<1>8. CASE Books!ListWalletTransactions
  <2>1. PICK read : s6' = [s6 EXCEPT !.recent = read]
    BY <1>8 DEF Books!ListWalletTransactions
  <2>2. s6'.of = s6.of /\ s6'.balance = s6.balance /\ DOMAIN s6' = {"of", "balance", "recent"}
    BY <1>5, <2>1
  <2>3. s6.balance # None => Books!IsHistory(s6.balance.rows, s6.balance.is)
    BY DEF BooksInv, Books!WalletIsOfTheBooks
  <2>4. QED
    BY <1>2, <1>3, <1>4, <1>5, <2>2, <2>3
       DEF BooksInv, Books!WalletIsOfTheBooks, Books!BooksAreTrue, Books!HistoryIsOfTheBalance
<1>9. QED
  BY <1>6, <1>7, <1>8

LEMMA BooksStep == ASSUME BooksInv, Books!Next PROVE BooksInv'
<1>0. Books!BookingsAreApart /\ Books!LedgerIsSummed
  BY DEF BooksInv
<1>1. ASSUME NEW w \in Procs, Books!Commit(w) PROVE BooksInv'
  BY <1>1, BooksCommitOne
<1>2. ASSUME NEW w \in Procs,
             Books!Begin(w) \/ Books!LockWallet(w) \/ Books!AppendEntry(w) \/ Books!Rollback(w)
      PROVE  BooksInv'
  <2>1. UNCHANGED <<s1, s2, s5, s6>>
    BY <1>2 DEF Books!Begin, Books!LockWallet, Books!AppendEntry, Books!Rollback
  <2>2. Books!BookingsAreApart'
    BY <1>0, <1>2, BooksBeginsOne, BooksLocksOne, BooksAppendsOne, BooksRolledBack DEF Books!Rollback
  <2>3. QED
    BY <2>1, <2>2, BooksLedgerStays, BooksViewStays, BooksWalletStays, BooksTruthStays DEF BooksInv
<1>3. QED
  BY <1>1, <1>2, BooksReads, BooksWallet DEF Books!Next

-----------------------------------------------------------------------------
(* The page load that the verdict is about: VerdictSubject.                 *)
SubjectInv ==
  Subject!PagesAreInOrder /\ Subject!TablesAreInOrder /\ Subject!SpokenIsKept /\ Subject!ReadMissesNone

LEMMA SubjectNone ==
  /\ None \notin Nat /\ None \notin Openings /\ None \notin Subject!Rows
  /\ None # "video_overlay" /\ None # "mobile" /\ 0 # None
  /\ SilentAfter \in Nat /\ RetainedFor \in Nat /\ MaxRows \in Nat
BY PartsAssumption DEF Subject!Rows

LEMMA SubjectSurfaces ==
  /\ Subject!Surfaces[1] = "video_overlay" /\ Subject!Surfaces[2] = "mobile"
  /\ \A s \in 1..2 : Subject!Surfaces[s] \in {"video_overlay", "mobile"} /\ Subject!Surfaces[s] # None
BY SubjectNone DEF Subject!Surfaces

LEMMA SubjectSizes ==
  ASSUME NEW S
  PROVE  (Subject!IsFiniteSet(S) <=> IsFiniteSet(S)) /\ Subject!Cardinality(S) = Cardinality(S)
BY DEF Subject!IsFiniteSet, IsFiniteSet, Subject!Cardinality, Cardinality

(* Of some rows one has the greatest id.                                    *)
LEMMA SubjectNewest ==
  ASSUME NEW rows, rows \subseteq Subject!Rows, Subject!IsFiniteSet(rows), rows # {}
  PROVE  Subject!Newest(rows) \in rows /\ \A x \in rows : x.id <= Subject!Newest(rows).id
<1> DEFINE From(r) == {x \in rows : r.id <= x.id}
           B == {From(r) : r \in rows}
<1>1. B \subseteq SUBSET rows /\ B # {} /\ IsFiniteSet(rows)
  BY SubjectSizes
<1>2. PICK T \in B : \A S \in B : S \subseteq T => S = T
  <2> HIDE DEF B
  <2>1. QED
    BY <1>1, LeastSet
<1>3. PICK r \in rows : T = From(r)
  BY <1>2
<1>4. ASSUME NEW x \in rows PROVE x.id <= r.id
  <2>1. \A y \in rows : y.id \in Nat
    BY DEF Subject!Rows
  <2>2. SUFFICES ASSUME r.id < x.id PROVE FALSE
    BY <2>1
  <2>3. From(x) \subseteq T /\ From(x) \in B
    BY <1>3, <2>1, <2>2
  <2>4. From(x) = T
    BY <1>2, <2>3
  <2>5. r \in T /\ r \notin From(x)
    BY <1>3, <2>1, <2>2
  <2>6. QED
    BY <2>4, <2>5
<1>5. QED
  BY <1>4 DEF Subject!Newest

LEMMA SubjectFound ==
  ASSUME NEW rows, rows \subseteq Subject!Rows, Subject!IsFiniteSet(rows)
  PROVE  (Subject!Newest(rows) = None <=> rows = {}) /\ Subject!Newest(rows) \in rows \cup {None}
BY SubjectNewest, SubjectNone DEF Subject!Newest

LEMMA SubjectPartOf ==
  ASSUME NEW rows, Subject!IsFiniteSet(rows), NEW some, some \subseteq rows
  PROVE  Subject!IsFiniteSet(some)
BY SubjectSizes, FS_Subset

(* What is kept of a table is newer than what is not.                       *)
LEMMA SubjectKept ==
  ASSUME NEW rows, NEW last, Subject!IsInOrder(rows, last), s1 \in Nat
  PROVE  /\ Subject!Kept(rows) \subseteq rows
         /\ \A r \in Subject!Kept(rows), x \in rows : r.id <= x.id => x \in Subject!Kept(rows)
<1> DEFINE young == {r \in rows : r.ts >= s1 - RetainedFor}
           After(r) == {x \in young : x.id > r.id}
<1>1. Subject!Kept(rows) = {r \in young : Subject!Cardinality(After(r)) < MaxRows}
  BY DEF Subject!Kept
<1>2. \A r \in rows : r.id \in Nat /\ r.ts \in Nat
  BY DEF Subject!IsInOrder, Subject!Rows
<1>3. SUFFICES ASSUME NEW r \in young, Subject!Cardinality(After(r)) < MaxRows, NEW x \in rows, r.id <= x.id
               PROVE  x \in young /\ Subject!Cardinality(After(x)) < MaxRows
  BY <1>1
<1>4. x \in young
  <2>1. r.ts <= x.ts
    BY <1>3 DEF Subject!IsInOrder
  <2>2. QED
    BY <1>2, <1>3, <2>1, SubjectNone
<1>5. After(x) \subseteq After(r)
  BY <1>2, <1>3
<1>6. IsFiniteSet(After(r)) /\ Subject!Cardinality(After(x)) = Cardinality(After(x))
      /\ Subject!Cardinality(After(r)) = Cardinality(After(r))
  <2>1. Subject!IsFiniteSet(After(r))
    BY SubjectPartOf DEF Subject!IsInOrder
  <2> HIDE DEF After
  <2>2. QED
    BY <2>1, SubjectSizes
<1>7. Cardinality(After(x)) <= Cardinality(After(r)) /\ Cardinality(After(x)) \in Nat /\ Cardinality(After(r)) \in Nat
  <2> HIDE DEF After
  <2>1. QED
    BY <1>5, <1>6, FS_Subset, FS_CardinalityType
<1>8. QED
  BY <1>3, <1>4, <1>6, <1>7, SubjectNone

LEMMA SubjectKeptInOrder ==
  ASSUME NEW rows, NEW last, Subject!IsInOrder(rows, last), s1 \in Nat
  PROVE  Subject!IsInOrder(Subject!Kept(rows), last)
BY SubjectKept, SubjectPartOf DEF Subject!IsInOrder

LEMMA SubjectOneMore ==
  ASSUME NEW rows, NEW last, Subject!IsInOrder(rows, last), s1 \in Nat, NEW l \in Openings,
         NEW row, row = [id |-> last + 1, load |-> l, ts |-> s1]
  PROVE  Subject!IsInOrder(rows \cup {row}, last + 1)
<1>1. IsFiniteSet(rows) /\ last \in Nat
  BY SubjectSizes DEF Subject!IsInOrder
<1>2. Subject!IsFiniteSet(rows \cup {row})
  BY <1>1, FS_AddElement, SubjectSizes
<1>3. row \in Subject!Rows /\ row.id = last + 1 /\ row.ts = s1
  BY <1>1 DEF Subject!Rows
<1>4. \A r \in rows : r.id \in Nat /\ r.ts \in Nat /\ r.id <= last /\ r.ts <= s1
  BY DEF Subject!IsInOrder, Subject!Rows
<1>5. QED
  BY <1>1, <1>2, <1>3, <1>4 DEF Subject!IsInOrder

LEMMA SubjectBegins == ASSUME Subject!Init PROVE SubjectInv
<1>1. Subject!IsFiniteSet({})
  BY SubjectSizes, FS_EmptySet
<1>2. Subject!PagesAreInOrder
  BY SubjectNone DEF Subject!Init, Subject!PagesAreInOrder, Subject!Unasked
<1>3. Subject!TablesAreInOrder
  BY <1>1 DEF Subject!Init, Subject!TablesAreInOrder, Subject!IsInOrder
<1>4. Subject!SpokenIsKept
  BY DEF Subject!Init, Subject!SpokenIsKept, Subject!Unasked
<1>5. Subject!ReadMissesNone
  BY DEF Subject!Init, Subject!ReadMissesNone, Subject!NoRead, Subject!Reads
<1>6. QED
  BY <1>2, <1>3, <1>4, <1>5 DEF SubjectInv

LEMMA SubjectStays ==
  ASSUME SubjectInv, UNCHANGED <<s1, s2, s3, s4, s5, s6, s7, s8>>
  PROVE  SubjectInv'
BY DEF SubjectInv, Subject!PagesAreInOrder, Subject!TablesAreInOrder, Subject!SpokenIsKept, Subject!ReadMissesNone,
   Subject!IsInOrder, Subject!IsAskedFirst, Subject!IsSubject, Subject!SpokeBefore, Subject!IsFoundAfter

(* Twitch asks for a page that has said nothing.                            *)
LEMMA SubjectAsk ==
  ASSUME SubjectInv, NEW l \in Openings, Subject!Ask(l)
  PROVE  SubjectInv'
<1>1. PICK s \in 1..2, logged \in BOOLEAN :
        /\ s2' = [s2 EXCEPT ![l].surface = Subject!Surfaces[s]]
        /\ IF logged THEN s3' = s3 \cup {Subject!Row("requests", l)} /\ s5' = [s5 EXCEPT !.requests = @ + 1]
           ELSE UNCHANGED <<s3, s5>>
  BY DEF Subject!Ask
<1>2. s2[l].surface = None /\ s2[l].spoke = None /\ s2[l].said = 0
  BY DEF Subject!Ask, Subject!Unasked
<1>3. UNCHANGED <<s1, s4, s6, s7, s8>>
  BY DEF Subject!Ask
<1>4. PICK surface \in {"video_overlay", "mobile"} : surface = Subject!Surfaces[s] /\ surface # None
  BY SubjectSurfaces
<1>5. /\ s2' = [s2 EXCEPT ![l].surface = surface]
      /\ \A m \in Openings : s2'[m].spoke = s2[m].spoke /\ (m # l => s2'[m] = s2[m])
      /\ s2'[l].surface = surface /\ s2'[l].spoke = None
  BY <1>1, <1>2, <1>4 DEF SubjectInv, Subject!PagesAreInOrder
<1>6. Subject!PagesAreInOrder'
  BY <1>2, <1>3, <1>4, <1>5 DEF SubjectInv, Subject!PagesAreInOrder
<1>7. \A r : r.load \in Openings /\ Subject!IsAskedFirst(r) =>
        r.load # l /\ Subject!IsAskedFirst(r)' /\ s2'[r.load] = s2[r.load]
  BY <1>2, <1>5 DEF Subject!IsAskedFirst
<1>8. Subject!TablesAreInOrder'
  <2>1. CASE logged
    <3>1. PICK row : row = [id |-> s5.requests + 1, load |-> l, ts |-> s1]
      OBVIOUS
    <3>2. s3' = s3 \cup {row} /\ s5'.requests = s5.requests + 1 /\ s5'.events = s5.events
          /\ s5' \in [requests : Nat, events : Nat]
      BY <1>1, <2>1, <3>1 DEF Subject!Row, SubjectInv, Subject!TablesAreInOrder
    <3>3. Subject!IsInOrder(s3', s5.requests + 1) /\ Subject!IsInOrder(s4, s5.events)
      BY <3>1, <3>2, SubjectOneMore DEF SubjectInv, Subject!PagesAreInOrder, Subject!TablesAreInOrder
    <3>4. \A r \in s3' : Subject!IsAskedFirst(r)'
      <4>1. Subject!IsAskedFirst(row)'
        BY <1>4, <1>5, <3>1 DEF Subject!IsAskedFirst
      <4>2. \A r \in s3 : r.load \in Openings /\ Subject!IsAskedFirst(r)
        BY DEF SubjectInv, Subject!TablesAreInOrder, Subject!IsInOrder, Subject!Rows
      <4>3. QED
        BY <1>7, <3>2, <4>1, <4>2
    <3>5. QED
      BY <1>3, <3>2, <3>3, <3>4 DEF Subject!TablesAreInOrder, Subject!IsInOrder
  <2>2. CASE ~logged
    <3>1. \A r \in s3 : r.load \in Openings /\ Subject!IsAskedFirst(r)
      BY DEF SubjectInv, Subject!TablesAreInOrder, Subject!IsInOrder, Subject!Rows
    <3>2. UNCHANGED <<s3, s5>>
      BY <1>1, <2>2
    <3>3. QED
      BY <1>3, <1>7, <3>1, <3>2 DEF SubjectInv, Subject!TablesAreInOrder, Subject!IsInOrder
  <2>3. QED
    BY <2>1, <2>2
<1>9. Subject!SpokenIsKept'
  BY <1>3, <1>5 DEF SubjectInv, Subject!SpokenIsKept
<1>10. Subject!ReadMissesNone'
  <2>1. s8.request # None /\ s8.surface # 0 => s8.request.load \in Openings /\ Subject!IsAskedFirst(s8.request)
    BY DEF SubjectInv, Subject!ReadMissesNone, Subject!Reads, Subject!Rows
  <2>2. \A m \in Openings : Subject!SpokeBefore(m)' => m # l /\ Subject!SpokeBefore(m)
    BY <1>3, <1>5 DEF Subject!SpokeBefore
  <2>3. \A m \in Openings : m # l => (Subject!IsSubject(m)' <=> Subject!IsSubject(m))
                                   /\ (Subject!IsFoundAfter(m)' <=> Subject!IsFoundAfter(m))
    BY <1>3, <1>5 DEF Subject!IsSubject, Subject!IsFoundAfter
  <2>4. s8.request # None /\ s8.surface # 0 =>
          Subject!IsAskedFirst(s8.request)' /\ Subject!IsSubject(s8.request.load)'
    BY <1>3, <1>7, <2>1 DEF SubjectInv, Subject!ReadMissesNone, Subject!IsSubject, Subject!IsAskedFirst
  <2>5. QED
    BY <1>3, <1>5, <2>2, <2>3, <2>4 DEF SubjectInv, Subject!ReadMissesNone
<1>11. QED
  BY <1>6, <1>8, <1>9, <1>10 DEF SubjectInv

LEMMA SubjectSpeak ==
  ASSUME SubjectInv, NEW l \in Openings, Subject!Speak(l)
  PROVE  SubjectInv'
<1>1. s2[l] # Subject!Unasked /\ UNCHANGED <<s1, s3, s6, s7, s8>>
      /\ s2' = [s2 EXCEPT ![l].spoke = IF @ = None THEN s1 ELSE @, ![l].said = @ + 1]
  BY DEF Subject!Speak
<1>2. PICK row : row = [id |-> s5.events + 1, load |-> l, ts |-> s1]
  OBVIOUS
<1>3. s4' = s4 \cup {row} /\ s5'.requests = s5.requests /\ s5'.events = s5.events + 1
      /\ s5' \in [requests : Nat, events : Nat]
  BY <1>2 DEF Subject!Speak, Subject!Row, SubjectInv, Subject!TablesAreInOrder
<1>4. s1 \in Nat /\ s2[l].surface # None
  BY <1>1 DEF SubjectInv, Subject!PagesAreInOrder
<1>5. /\ \A m \in Openings : s2'[m].surface = s2[m].surface /\ (m # l => s2'[m] = s2[m])
      /\ s2'[l].spoke = IF s2[l].spoke = None THEN s1 ELSE s2[l].spoke
      /\ s2' \in [Openings -> [surface : {"video_overlay", "mobile", None}, spoke : Nat \cup {None}, said : Nat]]
  BY <1>1, <1>4 DEF SubjectInv, Subject!PagesAreInOrder
<1>6. Subject!PagesAreInOrder'
  BY <1>1, <1>4, <1>5, SubjectNone DEF SubjectInv, Subject!PagesAreInOrder
<1>7. \A r : r.load \in Openings /\ Subject!IsAskedFirst(r) /\ r.ts <= s1 => Subject!IsAskedFirst(r)'
  BY <1>5 DEF Subject!IsAskedFirst
<1>8. Subject!TablesAreInOrder'
  <2>1. Subject!IsInOrder(s4', s5.events + 1) /\ Subject!IsInOrder(s3, s5.requests)
    BY <1>2, <1>3, <1>4, SubjectOneMore DEF SubjectInv, Subject!TablesAreInOrder
  <2>2. \A r \in s3 : r.load \in Openings /\ Subject!IsAskedFirst(r) /\ r.ts <= s1
    BY DEF SubjectInv, Subject!TablesAreInOrder, Subject!IsInOrder, Subject!Rows
  <2>3. QED
    BY <1>1, <1>3, <1>7, <2>1, <2>2 DEF Subject!TablesAreInOrder, Subject!IsInOrder
<1>9. Subject!SpokenIsKept'
  <2>1. row.ts = s1 /\ row.load = l /\ row \in s4' /\ s4 \subseteq s4'
    BY <1>2, <1>3
  <2>2. QED
    BY <1>1, <1>4, <1>5, <2>1 DEF SubjectInv, Subject!SpokenIsKept
<1>10. Subject!ReadMissesNone'
  <2>1. s8.request # None /\ s8.surface # 0 =>
          s8.request.load \in Openings /\ Subject!IsAskedFirst(s8.request)' /\ Subject!IsSubject(s8.request.load)'
    <3>1. s8.request # None /\ s8.surface # 0 =>
            s8.request.load \in Openings /\ Subject!IsAskedFirst(s8.request) /\ s8.request.ts <= s1
            /\ Subject!IsSubject(s8.request.load)
      BY DEF SubjectInv, Subject!ReadMissesNone, Subject!Reads, Subject!Rows
    <3>2. s8' = s8
      BY <1>1
    <3>3. Subject!IsAskedFirst(s8.request)' <=> (s2'[s8.request.load].surface # None
            /\ (s2'[s8.request.load].spoke # None => s8.request.ts <= s2'[s8.request.load].spoke))
      BY <3>2 DEF Subject!IsAskedFirst
    <3>4. Subject!IsSubject(s8.request.load)' <=> s2'[s8.request.load].surface = Subject!Surfaces[s8.surface]
      BY <3>2 DEF Subject!IsSubject
    <3>5. QED
      BY <1>5, <1>7, <3>1, <3>3, <3>4 DEF Subject!IsSubject, Subject!IsAskedFirst
  <2>2. ASSUME s8.surface # 0, NEW m \in Openings, Subject!SpokeBefore(m)'
        PROVE  Subject!SpokeBefore(m) /\ s2'[m].spoke = s2[m].spoke
    BY <1>1, <1>4, <1>5, <2>2 DEF SubjectInv, Subject!ReadMissesNone, Subject!SpokeBefore
  <2>3. \A m \in Openings :
          /\ Subject!IsSubject(m)' <=> Subject!IsSubject(m)
          /\ Subject!IsFoundAfter(m) /\ s2'[m].spoke = s2[m].spoke => Subject!IsFoundAfter(m)'
    BY <1>1, <1>3, <1>5 DEF Subject!IsSubject, Subject!IsFoundAfter
  <2>4. UNCHANGED <<s1, s8>> /\ \A m \in Openings : s2'[m].surface = s2[m].surface
    BY <1>1, <1>5
  <2>5. \A m \in Openings : s8.surface # 0 /\ Subject!SpokeBefore(m)' =>
          Subject!SpokeBefore(m) /\ (Subject!IsFoundAfter(m) => Subject!IsFoundAfter(m)')
    BY <2>2, <2>3
  <2>6. QED
    BY <2>1, <2>3, <2>4, <2>5 DEF SubjectInv, Subject!ReadMissesNone
<1>11. QED
  BY <1>6, <1>8, <1>9, <1>10 DEF SubjectInv

LEMMA SubjectTick == ASSUME SubjectInv, Subject!Tick PROVE SubjectInv'
<1>1. s1' = s1 + 1 /\ s1 \in Nat /\ UNCHANGED <<s2, s3, s4, s5, s6, s7, s8>>
  BY DEF Subject!Tick, SubjectInv, Subject!PagesAreInOrder
<1>2. Subject!PagesAreInOrder'
  BY <1>1 DEF SubjectInv, Subject!PagesAreInOrder
<1>3. Subject!IsInOrder(s3, s5.requests)' /\ Subject!IsInOrder(s4, s5.events)'
  BY <1>1 DEF SubjectInv, Subject!TablesAreInOrder, Subject!IsInOrder, Subject!Rows
<1>4. Subject!TablesAreInOrder'
  BY <1>1, <1>3 DEF SubjectInv, Subject!TablesAreInOrder, Subject!IsAskedFirst
<1>5. Subject!SpokenIsKept'
  BY <1>1 DEF SubjectInv, Subject!SpokenIsKept
<1>6. s8.request # None => s8.request.ts \in Nat
  BY DEF SubjectInv, Subject!ReadMissesNone, Subject!Reads, Subject!Rows
<1>7. Subject!ReadMissesNone'
  BY <1>1, <1>6 DEF SubjectInv, Subject!ReadMissesNone, Subject!IsAskedFirst, Subject!IsSubject, Subject!SpokeBefore,
     Subject!IsFoundAfter
<1>8. QED
  BY <1>2, <1>4, <1>5, <1>7 DEF SubjectInv

LEMMA SubjectPrune == ASSUME SubjectInv, Subject!Prune PROVE SubjectInv'
<1>1. UNCHANGED <<s1, s2, s5, s8>> /\ s1 \in Nat
  BY DEF Subject!Prune, SubjectInv, Subject!PagesAreInOrder
<1>2. /\ s3' = s3 \/ s3' = Subject!Kept(s3)
      /\ \/ UNCHANGED <<s4, s6>>
         \/ s4' = Subject!Kept(s4) /\ s6' = s6 \cup {r.load : r \in s4 \ Subject!Kept(s4)}
  BY DEF Subject!Prune
<1>3. Subject!IsInOrder(s3, s5.requests) /\ Subject!IsInOrder(s4, s5.events)
  BY DEF SubjectInv, Subject!TablesAreInOrder
<1>4. s3' \subseteq s3 /\ Subject!IsInOrder(s3', s5.requests) /\ Subject!IsInOrder(s4', s5.events)
  BY <1>1, <1>2, <1>3, SubjectKept, SubjectKeptInOrder
<1>5. /\ s6 \subseteq s6' /\ \A e \in s4 : e.load \notin s6' => e \in s4'
      /\ \A e \in s4', x \in s4 : e.id <= x.id => x \in s4'
  BY <1>1, <1>2, <1>3, SubjectKept
<1>6. Subject!PagesAreInOrder'
  BY <1>1 DEF SubjectInv, Subject!PagesAreInOrder
<1>7. Subject!TablesAreInOrder'
  BY <1>1, <1>4 DEF SubjectInv, Subject!TablesAreInOrder, Subject!IsInOrder, Subject!IsAskedFirst
<1>8. Subject!SpokenIsKept'
  BY <1>1, <1>5 DEF SubjectInv, Subject!SpokenIsKept
<1>9. \A m \in Openings : Subject!SpokeBefore(m)' =>
        Subject!SpokeBefore(m) /\ (Subject!IsFoundAfter(m) => Subject!IsFoundAfter(m)')
  BY <1>1, <1>5 DEF Subject!SpokeBefore, Subject!IsFoundAfter
<1>10. Subject!ReadMissesNone'
  BY <1>1, <1>9 DEF SubjectInv, Subject!ReadMissesNone, Subject!IsAskedFirst, Subject!IsSubject
<1>11. QED
  BY <1>6, <1>7, <1>8, <1>10 DEF SubjectInv

(* The steps of a read change nothing else.                                 *)
LEMMA SubjectReading ==
  ASSUME SubjectInv, UNCHANGED <<s1, s2, s3, s4, s5, s6, s7>>, Subject!ReadMissesNone'
  PROVE  SubjectInv'
BY DEF SubjectInv, Subject!PagesAreInOrder, Subject!TablesAreInOrder, Subject!SpokenIsKept, Subject!IsInOrder,
   Subject!IsAskedFirst

LEMMA SubjectBegin == ASSUME SubjectInv, Subject!Begin PROVE SubjectInv'
<1>1. UNCHANGED <<s1, s2, s3, s4, s5, s6, s7>> /\ s1 \in Nat
  BY DEF Subject!Begin, SubjectInv, Subject!PagesAreInOrder
<1>2. s8' = [surface |-> 1, began |-> s1, session |-> None, lastAt |-> None, request |-> None,
             rowsDone |-> FALSE, requestDone |-> FALSE]
  BY DEF Subject!Begin, Subject!NoRead
<1>3. Subject!ReadMissesNone'
  BY <1>1, <1>2 DEF Subject!ReadMissesNone, Subject!Reads, Subject!IsFoundAfter
<1>4. QED
  BY <1>1, <1>3, SubjectReading

LEMMA SubjectTell == ASSUME SubjectInv, Subject!Tell PROVE SubjectInv'
<1>1. UNCHANGED <<s1, s2, s3, s4, s5, s6, s7>> /\ s8' = Subject!NoRead
  BY DEF Subject!Tell
<1>2. Subject!ReadMissesNone'
  BY <1>1 DEF Subject!ReadMissesNone, Subject!Reads, Subject!NoRead
<1>3. QED
  BY <1>1, <1>2, SubjectReading

(* What a read finds of the rows of a table.                                *)
LEMMA SubjectLatest ==
  ASSUME NEW rows, NEW last, Subject!IsInOrder(rows, last), NEW some, some \subseteq rows
  PROVE  /\ Subject!Newest(some) = None <=> some = {}
         /\ Subject!Newest(some) # None =>
              /\ Subject!Newest(some) \in some /\ Subject!Newest(some) \in Subject!Rows
              /\ \A x \in some : x.id <= Subject!Newest(some).id /\ x.ts <= Subject!Newest(some).ts
<1>1. some \subseteq Subject!Rows /\ Subject!IsFiniteSet(some)
  BY SubjectPartOf DEF Subject!IsInOrder
<1>2. QED
  BY <1>1, SubjectFound, SubjectNewest DEF Subject!IsInOrder

LEMMA SubjectFindSession == ASSUME SubjectInv, Subject!FindSession PROVE SubjectInv'
<1> DEFINE row == Subject!Newest(Subject!OfSurface(s4))
<1>1. /\ UNCHANGED <<s1, s2, s3, s4, s5, s6, s7>> /\ s8.surface # 0 /\ s8.session = None /\ ~s8.rowsDone
      /\ s8' = IF row = None THEN [s8 EXCEPT !.rowsDone = TRUE] ELSE [s8 EXCEPT !.session = row.load]
  BY DEF Subject!FindSession
<1>2. /\ row = None <=> Subject!OfSurface(s4) = {}
      /\ row # None => row \in Subject!OfSurface(s4) /\ row \in Subject!Rows
                        /\ \A x \in Subject!OfSurface(s4) : x.id <= row.id
  BY SubjectLatest DEF Subject!OfSurface, SubjectInv, Subject!TablesAreInOrder
<1>3. \A l \in Openings : Subject!SpokeBefore(l) /\ Subject!IsSubject(l) =>
        \E e \in s4 : e.load = l /\ s2[l].spoke <= e.ts /\ e \in Subject!OfSurface(s4)
  BY DEF SubjectInv, Subject!SpokenIsKept, Subject!SpokeBefore, Subject!OfSurface
<1> HIDE DEF row
<1>4. CASE row = None
  <2>1. PICK r : r = [s8 EXCEPT !.rowsDone = TRUE]
    OBVIOUS
  <2>2. /\ s8' = r /\ r \in Subject!Reads /\ r.surface = s8.surface /\ r.began = s8.began
        /\ r.request = s8.request
    BY <1>1, <1>4, <2>1 DEF SubjectInv, Subject!ReadMissesNone, Subject!Reads
  <2>3. \A l \in Openings : Subject!SpokeBefore(l) => ~Subject!IsSubject(l)
    BY <1>2, <1>3, <1>4
  <2>4. \A l \in Openings : (Subject!SpokeBefore(l)' <=> Subject!SpokeBefore(l))
                          /\ (Subject!IsSubject(l)' <=> Subject!IsSubject(l))
    BY <1>1, <2>2 DEF Subject!SpokeBefore, Subject!IsSubject
  <2>5. Subject!ReadMissesNone'
    <3>1. /\ s8.began \in Nat /\ s8.began <= s1
          /\ s8.request # None =>
               Subject!IsAskedFirst(s8.request) /\ Subject!IsSubject(s8.request.load) /\ s8.request.ts <= s1
          /\ \A l \in Openings : Subject!SpokeBefore(l) => (s8.surface = 2 => s2[l].surface # Subject!Surfaces[1])
      BY <1>1 DEF SubjectInv, Subject!ReadMissesNone
    <3>2. s8.request # None =>
            Subject!IsAskedFirst(s8.request)' /\ Subject!IsSubject(s8.request.load)' /\ s8.request.ts <= s1'
      BY <1>1, <2>2, <3>1 DEF Subject!IsAskedFirst, Subject!IsSubject
    <3>3. \A l \in Openings : Subject!SpokeBefore(l)' =>
            (Subject!IsSubject(l)' => Subject!IsFoundAfter(l)') /\ (s8'.surface = 2 => s2'[l].surface # Subject!Surfaces[1])
      BY <1>1, <2>2, <2>3, <2>4, <3>1
    <3>4. QED
      BY <1>1, <2>2, <3>1, <3>2, <3>3 DEF Subject!ReadMissesNone
  <2>6. QED
    BY <1>1, <2>5, SubjectReading
<1>5. CASE row # None
  <2>1. PICK r : r = [s8 EXCEPT !.session = row.load]
    OBVIOUS
  <2>2. row.load \in Openings /\ row \in s4
    BY <1>2, <1>5 DEF Subject!Rows, Subject!OfSurface
  <2>3. /\ s8' = r /\ r \in Subject!Reads /\ r.surface = s8.surface /\ r.began = s8.began
        /\ r.request = s8.request /\ r.session = row.load /\ ~r.rowsDone
    BY <1>1, <1>5, <2>1, <2>2 DEF SubjectInv, Subject!ReadMissesNone, Subject!Reads
  <2>4. \A l \in Openings : (Subject!SpokeBefore(l)' <=> Subject!SpokeBefore(l))
                          /\ (Subject!IsSubject(l)' <=> Subject!IsSubject(l))
    BY <1>1, <2>3 DEF Subject!SpokeBefore, Subject!IsSubject
  <2>5. \A l \in Openings : Subject!SpokeBefore(l) /\ Subject!IsSubject(l) => Subject!IsFoundAfter(l)'
    BY <1>1, <1>2, <1>3, <1>5, <2>2, <2>3 DEF Subject!IsFoundAfter
  <2>6. Subject!ReadMissesNone'
    BY <1>1, <2>3, <2>4, <2>5 DEF SubjectInv, Subject!ReadMissesNone, Subject!IsAskedFirst, Subject!IsSubject
  <2>7. QED
    BY <1>1, <2>6, SubjectReading
<1>6. QED
  BY <1>4, <1>5

LEMMA SubjectReadRows == ASSUME SubjectInv, Subject!ReadRows PROVE SubjectInv'
<1> DEFINE rows == {r \in s4 : r.load = s8.session}
           row == Subject!Newest(rows)
<1>1. /\ UNCHANGED <<s1, s2, s3, s4, s5, s6, s7>> /\ s8.session # None /\ ~s8.rowsDone
      /\ s8' = [s8 EXCEPT !.rowsDone = TRUE, !.lastAt = IF rows = {} THEN None ELSE row.ts]
  BY DEF Subject!ReadRows
<1>2. s8.surface # 0
  BY <1>1 DEF SubjectInv, Subject!ReadMissesNone, Subject!NoRead
<1>3. rows # {} => row \in s4 /\ row.ts \in Nat /\ \A x \in rows : x.id <= row.id
  <2>1. rows \subseteq s4 /\ Subject!IsInOrder(s4, s5.events)
    BY DEF SubjectInv, Subject!TablesAreInOrder
  <2>2. \A r \in Subject!Rows : r.ts \in Nat
    BY DEF Subject!Rows
  <2> HIDE DEF rows
  <2>3. QED
    BY <2>1, <2>2, SubjectLatest
<1>4. PICK at \in Nat \cup {None} : at = IF rows = {} THEN None ELSE row.ts
  BY <1>3
<1>5. \A l \in Openings : Subject!SpokeBefore(l) /\ Subject!IsSubject(l) => at # None /\ s2[l].spoke <= at
  <2>1. SUFFICES ASSUME NEW l \in Openings, Subject!SpokeBefore(l), Subject!IsSubject(l)
                 PROVE  at # None /\ s2[l].spoke <= at
    OBVIOUS
  <2>2. PICK e \in s4 : \E x \in s4 :
          e.load = l /\ s2[l].spoke <= e.ts /\ e.id <= x.id /\ x.load = s8.session
    BY <1>1, <1>2, <2>1 DEF SubjectInv, Subject!ReadMissesNone, Subject!IsFoundAfter
  <2>3. PICK x \in s4 : e.load = l /\ s2[l].spoke <= e.ts /\ e.id <= x.id /\ x.load = s8.session
    BY <2>2
  <2>4. x \in rows
    BY <2>3
  <2>5. row \in s4 /\ x.id <= row.id /\ at = row.ts /\ row.ts \in Nat
    BY <1>3, <1>4, <2>4
  <2>6. e.ts <= x.ts /\ x.ts <= row.ts /\ e.ts \in Nat /\ x.ts \in Nat
    BY <2>3, <2>5 DEF SubjectInv, Subject!TablesAreInOrder, Subject!IsInOrder, Subject!Rows
  <2>7. s2[l].spoke \in Nat
    BY <2>1 DEF Subject!SpokeBefore, SubjectInv, Subject!PagesAreInOrder
  <2>8. QED
    BY <2>3, <2>5, <2>6, <2>7, SubjectNone
<1> HIDE DEF rows, row
<1>6. PICK r : r = [s8 EXCEPT !.rowsDone = TRUE, !.lastAt = at]
  OBVIOUS
<1>7. /\ s8' = r /\ r \in Subject!Reads /\ r.surface = s8.surface /\ r.began = s8.began
      /\ r.request = s8.request /\ r.lastAt = at /\ r.rowsDone
  BY <1>1, <1>4, <1>6 DEF SubjectInv, Subject!ReadMissesNone, Subject!Reads
<1>8. \A l \in Openings : (Subject!SpokeBefore(l)' <=> Subject!SpokeBefore(l))
                        /\ (Subject!IsSubject(l)' <=> Subject!IsSubject(l))
  BY <1>1, <1>7 DEF Subject!SpokeBefore, Subject!IsSubject
<1>9. \A l \in Openings : Subject!SpokeBefore(l) /\ Subject!IsSubject(l) => Subject!IsFoundAfter(l)'
  BY <1>1, <1>5, <1>7 DEF Subject!IsFoundAfter
<1>10. Subject!ReadMissesNone'
  BY <1>1, <1>2, <1>7, <1>8, <1>9 DEF SubjectInv, Subject!ReadMissesNone, Subject!IsAskedFirst, Subject!IsSubject
<1>11. QED
  BY <1>1, <1>10, SubjectReading

LEMMA SubjectFindRequest == ASSUME SubjectInv, Subject!FindLastIframeRequest PROVE SubjectInv'
<1> DEFINE row == Subject!Newest(Subject!OfSurface(s3))
<1>1. /\ UNCHANGED <<s1, s2, s3, s4, s5, s6, s7>> /\ s8.surface # 0
      /\ s8' = [s8 EXCEPT !.requestDone = TRUE, !.request = row]
  BY DEF Subject!FindLastIframeRequest
<1>2. /\ row # None => row \in Subject!Rows /\ row \in s3 /\ Subject!IsAskedFirst(row) /\ row.ts <= s1
                       /\ Subject!IsSubject(row.load)
  <2>1. Subject!OfSurface(s3) \subseteq s3 /\ Subject!IsInOrder(s3, s5.requests)
    BY DEF SubjectInv, Subject!TablesAreInOrder, Subject!OfSurface
  <2>2. row # None => row \in Subject!Rows /\ row \in Subject!OfSurface(s3)
    BY <2>1, SubjectLatest
  <2> HIDE DEF row
  <2>3. QED
    BY <2>1, <2>2 DEF SubjectInv, Subject!TablesAreInOrder, Subject!IsInOrder, Subject!OfSurface
<1> HIDE DEF row
<1>3. PICK r : r = [s8 EXCEPT !.requestDone = TRUE, !.request = row]
  OBVIOUS
<1>4. /\ s8' = r /\ r \in Subject!Reads /\ r.surface = s8.surface /\ r.began = s8.began /\ r.request = row
      /\ r.session = s8.session /\ r.lastAt = s8.lastAt /\ r.rowsDone = s8.rowsDone
  BY <1>1, <1>2, <1>3 DEF SubjectInv, Subject!ReadMissesNone, Subject!Reads
<1>5. \A l \in Openings : (Subject!SpokeBefore(l)' <=> Subject!SpokeBefore(l))
                        /\ (Subject!IsFoundAfter(l)' <=> Subject!IsFoundAfter(l))
  BY <1>1, <1>4 DEF Subject!SpokeBefore, Subject!IsFoundAfter
<1>6. \A l : Subject!IsSubject(l)' <=> Subject!IsSubject(l)
  BY <1>1, <1>4 DEF Subject!IsSubject
<1>7. row # None => Subject!IsAskedFirst(s8.request)' /\ Subject!IsSubject(s8.request.load)'
  BY <1>1, <1>2, <1>4 DEF Subject!IsAskedFirst, Subject!IsSubject
<1>8. Subject!ReadMissesNone'
  BY <1>1, <1>2, <1>4, <1>5, <1>6, <1>7 DEF SubjectInv, Subject!ReadMissesNone
<1>9. QED
  BY <1>1, <1>8, SubjectReading

LEMMA SubjectNextSurface ==
  ASSUME SubjectInv, Subject!NextSurface
  PROVE  SubjectInv'
<1>1. /\ UNCHANGED <<s1, s2, s3, s4, s5, s6, s7>> /\ s8.surface = 1 /\ s8.rowsDone /\ s8.lastAt = None
      /\ s8' = [Subject!NoRead EXCEPT !.surface = 2, !.began = s8.began]
  BY DEF Subject!NextSurface, Subject!IsRead, Subject!HasNothing
<1>2. s8.began \in Nat /\ s8.began <= s1
      /\ \A l \in Openings : Subject!SpokeBefore(l) => s2[l].surface # Subject!Surfaces[1]
  BY <1>1 DEF SubjectInv, Subject!ReadMissesNone, Subject!IsFoundAfter, Subject!IsSubject
<1>3. PICK began \in Nat : began = s8.began
  BY <1>2
<1>4. s8' = [surface |-> 2, began |-> began, session |-> None, lastAt |-> None, request |-> None,
             rowsDone |-> FALSE, requestDone |-> FALSE]
  BY <1>1, <1>3 DEF Subject!NoRead
<1>5. \A l \in Openings : Subject!SpokeBefore(l)' => s2'[l].surface # Subject!Surfaces[1]
  BY <1>1, <1>2, <1>3, <1>4 DEF Subject!SpokeBefore
<1>6. s1' = s1 /\ began <= s1 /\ began \in Nat
  BY <1>1, <1>2, <1>3
<1>7. Subject!ReadMissesNone'
  BY <1>4, <1>5, <1>6 DEF Subject!ReadMissesNone, Subject!Reads, Subject!IsFoundAfter
<1>8. QED
  BY <1>1, <1>7, SubjectReading

LEMMA SubjectStep == ASSUME SubjectInv, Subject!Next PROVE SubjectInv'
BY SubjectAsk, SubjectSpeak, SubjectTick, SubjectPrune, SubjectBegin, SubjectFindSession, SubjectReadRows,
   SubjectFindRequest, SubjectNextSurface, SubjectTell DEF Subject!Next

(* What is told follows from what was read.                                 *)
LEMMA SubjectIsTold == ASSUME SubjectInv PROVE Subject!SilenceIsTrue
<1>1. SUFFICES ASSUME Subject!Told PROVE Subject!SilenceIsTrue
  BY DEF Subject!SilenceIsTrue
<1>2. s8.rowsDone /\ s8.surface # 0
  BY <1>1 DEF Subject!Told, Subject!IsRead, SubjectInv, Subject!ReadMissesNone, Subject!NoRead
<1>3. \A l \in Openings : Subject!SpokeBefore(l) =>
        /\ Subject!IsSubject(l) => s8.lastAt # None /\ s2[l].spoke <= s8.lastAt
        /\ s8.surface = 2 => s2[l].surface # Subject!Surfaces[1]
        /\ s2[l].spoke \in Nat /\ s2[l].surface \in {"video_overlay", "mobile"}
  BY <1>2, SubjectNone DEF SubjectInv, Subject!ReadMissesNone, Subject!IsFoundAfter, Subject!PagesAreInOrder,
     Subject!SpokeBefore, Subject!Unasked
<1>4. ASSUME Subject!Code = "request_only" PROVE ~Subject!SpokeBefore(s8.request.load)
  <2>1. s8.request # None /\ Subject!Unanswered
    BY <1>4 DEF Subject!Code
  <2>2. s8.request.load \in Openings /\ s8.request.ts \in Nat /\ Subject!IsAskedFirst(s8.request)
        /\ Subject!IsSubject(s8.request.load) /\ s8.lastAt \in Nat \cup {None}
    BY <1>2, <2>1 DEF SubjectInv, Subject!ReadMissesNone, Subject!Reads, Subject!Rows
  <2>3. QED
    BY <1>3, <2>1, <2>2, SubjectNone DEF Subject!Unanswered, Subject!IsAskedFirst, Subject!SpokeBefore
<1>5. ASSUME Subject!Code = "no_data" PROVE \A l \in Openings : ~Subject!SpokeBefore(l)
  <2>1. s8.lastAt = None /\ s8.surface = 2
    BY <1>1, <1>5 DEF Subject!Code, Subject!HasNothing, Subject!Told
  <2>2. QED
    BY <1>3, <2>1, SubjectSurfaces DEF Subject!IsSubject
<1>6. QED
  BY <1>3, <1>4, <1>5 DEF Subject!SilenceIsTrue

-----------------------------------------------------------------------------
(* What a page reports of its button, and what is made of it: Diagnostics.  *)
DiagInv == Diag!EventsAreReported /\ Diag!StatesAreGrounded

LEMMA DiagNone ==
  None # "on" /\ None # "off" /\ None # "hidden" /\ None # "shown" /\ MaxReports \in Nat
BY PartsAssumption

(* What was reported was reported: a measurement more takes nothing back.   *)
LEMMA DiagMore ==
  ASSUME s2 \subseteq s2'
  PROVE  Diag!Reported \subseteq Diag!Reported' /\ Diag!Grounded \subseteq Diag!Grounded'
BY DEF Diag!Reported, Diag!Grounded, Diag!Events, Diag!States, Diag!Names, Diag!Screens

LEMMA DiagBegins == ASSUME Diag!Init PROVE DiagInv
<1>1. Diag!NoState \in Diag!Grounded
  BY DEF Diag!NoState, Diag!Grounded, Diag!States
<1>2. Diag!EventsAreReported
  BY DiagNone DEF Diag!Init, Diag!EventsAreReported, Diag!Pages, Diag!Screens, Diag!Button, Diag!Quiet
<1>3. Diag!StatesAreGrounded
  BY <1>1 DEF Diag!Init, Diag!StatesAreGrounded, Diag!NoSummary
<1>4. QED
  BY <1>2, <1>3 DEF DiagInv

LEMMA DiagStays ==
  ASSUME DiagInv, UNCHANGED <<s1, s2, s3, s4, s5, s6, s7, s8>>
  PROVE  DiagInv'
BY DEF DiagInv, Diag!EventsAreReported, Diag!StatesAreGrounded, Diag!Reported, Diag!Grounded

(* The budget: what it takes of some events are events, and it is kept.     *)
LEMMA DiagTaken ==
  ASSUME NEW S, NEW events \in Seq(S), s5 \in 0..MaxReports
  PROVE  Diag!Taken(events) \in Seq(S) /\ s5 + Len(Diag!Taken(events)) \in 0..MaxReports
<1>1. Len(events) \in Nat /\ MaxReports \in Nat
  BY DiagNone
<1>2. CASE s5 + Len(events) <= MaxReports
  BY <1>1, <1>2 DEF Diag!Taken
<1>3. CASE ~(s5 + Len(events) <= MaxReports)
  <2>1. MaxReports - s5 \in 0..Len(events)
    BY <1>1, <1>3
  <2>2. SubSeq(events, 1, MaxReports - s5) \in Seq(S) /\ Len(SubSeq(events, 1, MaxReports - s5)) = MaxReports - s5
    BY <2>1
  <2>3. QED
    BY <1>1, <1>3, <2>2 DEF Diag!Taken
<1>4. QED
  BY <1>2, <1>3

LEMMA DiagEnqueue ==
  ASSUME NEW S, s4 \in Seq(S), s5 \in 0..MaxReports, NEW events \in Seq(S), Diag!Enqueue(events)
  PROVE  s4' \in Seq(S) /\ s5' \in 0..MaxReports
BY DiagTaken DEF Diag!Enqueue

LEMMA DiagOne ==
  ASSUME NEW S, s4 \in Seq(S), s5 \in 0..MaxReports, NEW event \in S, Diag!Enqueue(<<event>>)
  PROVE  s4' \in Seq(S) /\ s5' \in 0..MaxReports
<1>1. <<event>> \in Seq(S)
  OBVIOUS
<1>2. QED
  BY <1>1, DiagEnqueue

(* What a throttle holds back is an event as well.                          *)
LEMMA DiagSend ==
  ASSUME NEW S, s4 \in Seq(S), s5 \in 0..MaxReports,
         s3 \in [Diag!Throttled -> [hot : BOOLEAN, waits : S \cup {None}]],
         NEW e \in Diag!Throttled, NEW event \in S, Diag!SendThrottled(e, event)
  PROVE  /\ s4' \in Seq(S) /\ s5' \in 0..MaxReports
         /\ s3' \in [Diag!Throttled -> [hot : BOOLEAN, waits : S \cup {None}]]
<1>1. CASE s3[e].hot
  BY <1>1 DEF Diag!SendThrottled
<1>2. CASE ~s3[e].hot
  <2>1. <<event>> \in Seq(S)
    OBVIOUS
  <2>2. Diag!Enqueue(<<event>>) /\ s3' = [s3 EXCEPT ![e].hot = TRUE]
    BY <1>2 DEF Diag!SendThrottled
  <2>3. QED
    BY <2>1, <2>2, DiagEnqueue
<1>3. QED
  BY <1>1, <1>2

(* A step of the page keeps the invariant when what it holds are events.    *)
LEMMA DiagPage ==
  ASSUME DiagInv, s2 \subseteq s2', s1' \in Diag!Pages,
         s4' \in Seq(Diag!Reported'), s5' \in 0..MaxReports,
         s3' \in [Diag!Throttled -> [hot : BOOLEAN, waits : Diag!Reported' \cup {None}]],
         UNCHANGED <<s7, s8>>, \A b \in s6' : b \in s6 \/ \E q \in Seq(Diag!Reported') : b = Diag!Batch(q)
  PROVE  DiagInv'
<1>1. Diag!Reported \subseteq Diag!Reported' /\ Diag!Grounded \subseteq Diag!Grounded'
  BY DiagMore
<1>2. Diag!EventsAreReported'
  BY DEF Diag!EventsAreReported
<1>3. s7' \in Diag!Grounded' /\ s8' \in [state : Diag!Grounded', seen : SUBSET Diag!Names]
  BY <1>1 DEF DiagInv, Diag!StatesAreGrounded
<1>4. ASSUME NEW b \in s6' PROVE b \in [events : Seq(Diag!Reported'), copies : {1, 2}, prev : Diag!Grounded' \cup {None}]
  <2>1. CASE b \in s6
    <3>1. b \in [events : Seq(Diag!Reported), copies : {1, 2}, prev : Diag!Grounded \cup {None}]
      BY <2>1 DEF DiagInv, Diag!StatesAreGrounded
    <3>2. b.events \in Seq(Diag!Reported')
      BY <1>1, <3>1
    <3>3. QED
      BY <1>1, <3>1, <3>2
  <2>2. CASE \E q \in Seq(Diag!Reported') : b = Diag!Batch(q)
    BY <2>2 DEF Diag!Batch
  <2>3. QED
    BY <1>4, <2>1, <2>2
<1>5. QED
  BY <1>2, <1>3, <1>4 DEF DiagInv, Diag!StatesAreGrounded

(* An event without a measurement, and one with the measurement just made.  *)
LEMMA DiagEvent ==
  ASSUME NEW p \in Diag!Pages, NEW name \in Diag!Names
  PROVE  /\ Diag!Event(name, p, None) \in Diag!Reported'
         /\ p.button # "absent" /\ Diag!Fact(p) \in s2' => Diag!Event(name, p, p.button) \in Diag!Reported'
BY DEF Diag!Event, Diag!Reported, Diag!Events, Diag!Pages, Diag!Fact, Diag!Button

(* What is held is still of events when no measurement was taken back.      *)
LEMMA DiagHeld ==
  ASSUME DiagInv, s2 \subseteq s2'
  PROVE  /\ s4 \in Seq(Diag!Reported') /\ s5 \in 0..MaxReports /\ s1 \in Diag!Pages
         /\ s3 \in [Diag!Throttled -> [hot : BOOLEAN, waits : Diag!Reported' \cup {None}]]
<1>1. Diag!Reported \subseteq Diag!Reported'
  BY DiagMore
<1>2. /\ s4 \in Seq(Diag!Reported) /\ s5 \in 0..MaxReports /\ s1 \in Diag!Pages
      /\ s3 \in [Diag!Throttled -> [hot : BOOLEAN, waits : Diag!Reported \cup {None}]]
  BY DEF DiagInv, Diag!EventsAreReported
<1>3. QED
  BY <1>1, <1>2

LEMMA DiagLoadPage == ASSUME DiagInv, Diag!LoadPage PROVE DiagInv'
<1>1. PICK screen \in Diag!Screens, runs \in BOOLEAN :
        /\ s1' = [s1 EXCEPT !.stage = IF runs THEN "boot" ELSE "dead", !.screen = screen]
        /\ IF runs THEN Diag!Enqueue(<<Diag!Event("html_loaded", s1', None)>>) /\ UNCHANGED s3
           ELSE UNCHANGED <<s3, s4, s5>>
  BY DEF Diag!LoadPage, Diag!report
<1>2. UNCHANGED <<s2, s6, s7, s8>>
  BY DEF Diag!LoadPage, Diag!server
<1>3. s1' \in Diag!Pages
  BY <1>1 DEF DiagInv, Diag!EventsAreReported, Diag!Pages
<1>4. PICK event \in Diag!Reported' : event = Diag!Event("html_loaded", s1', None)
  BY <1>3, DiagEvent DEF Diag!Names
<1>5. s3' = s3 /\ s4' \in Seq(Diag!Reported') /\ s5' \in 0..MaxReports
  <2>1. CASE runs
    <3>1. s3' = s3 /\ Diag!Enqueue(<<event>>)
      BY <1>1, <1>4, <2>1
    <3>2. QED
      BY <1>2, <3>1, DiagHeld, DiagOne
  <2>2. CASE ~runs
    BY <1>1, <1>2, <2>2, DiagHeld
  <2>3. QED
    BY <2>1, <2>2
<1>6. QED
  BY <1>2, <1>3, <1>5, DiagHeld, DiagPage

LEMMA DiagRunBundle ==
  ASSUME DiagInv, NEW p \in Diag!Pages, Diag!RunBundle(p), UNCHANGED <<s3, s6, s7, s8>>
  PROVE  DiagInv'
<1>1. CASE p.button = "absent"
  <2>1. s1' = p /\ s2' = s2 /\ Diag!Enqueue(<<Diag!Event("app_bundle_loaded", p, None)>>)
    BY <1>1 DEF Diag!RunBundle
  <2>2. PICK event \in Diag!Reported' : event = Diag!Event("app_bundle_loaded", p, None)
    BY DiagEvent DEF Diag!Names
  <2>3. Diag!Enqueue(<<event>>)
    BY <2>1, <2>2
  <2>4. s4' \in Seq(Diag!Reported') /\ s5' \in 0..MaxReports
    BY <2>1, <2>3, DiagHeld, DiagOne
  <2>5. QED
    BY <2>1, <2>4, DiagHeld, DiagPage
<1>2. CASE p.button # "absent"
  <2>1. /\ s1' = [p EXCEPT !.told = p.button, !.seen = p.screen = "on"] /\ s2' = s2 \cup {Diag!Fact(p)}
        /\ Diag!Enqueue(<<Diag!Event("app_bundle_loaded", p, None), Diag!Event("trigger_rendered", p, p.button)>>)
    BY <1>2 DEF Diag!RunBundle
  <2>2. PICK event \in Diag!Reported' : event = Diag!Event("app_bundle_loaded", p, None)
    BY DiagEvent DEF Diag!Names
  <2>3. PICK measured \in Diag!Reported' : measured = Diag!Event("trigger_rendered", p, p.button)
    <3>1. Diag!Fact(p) \in s2'
      BY <2>1
    <3>2. QED
      BY <1>2, <3>1, DiagEvent DEF Diag!Names
  <2>4. s4' \in Seq(Diag!Reported') /\ s5' \in 0..MaxReports
    <3>1. PICK both \in Seq(Diag!Reported') : both = <<event, measured>>
      <4>1. <<event, measured>> \in Seq(Diag!Reported')
        OBVIOUS
      <4>2. QED
        BY <4>1
    <3>2. Diag!Enqueue(both)
      BY <2>1, <2>2, <2>3, <3>1
    <3>3. s2 \subseteq s2'
      BY <2>1
    <3>4. QED
      BY <3>2, <3>3, DiagHeld, DiagEnqueue
  <2>5. s1' \in Diag!Pages
    BY <1>2, <2>1 DEF Diag!Pages, Diag!Button
  <2>6. QED
    BY <2>1, <2>4, <2>5, DiagHeld, DiagPage
<1>3. QED
  BY <1>1, <1>2

LEMMA DiagAppLoads == ASSUME DiagInv, Diag!AppLoads \/ Diag!AppLoadsAlone PROVE DiagInv'
<1>1. CASE Diag!AppLoads
  <2>1. PICK button \in Diag!Button : Diag!RunBundle([s1 EXCEPT !.stage = "app", !.button = button])
    BY <1>1 DEF Diag!AppLoads
  <2>2. [s1 EXCEPT !.stage = "app", !.button = button] \in Diag!Pages
    BY DEF DiagInv, Diag!EventsAreReported, Diag!Pages
  <2>3. QED
    BY <1>1, <2>1, <2>2, DiagRunBundle DEF Diag!AppLoads, Diag!server
<1>2. CASE Diag!AppLoadsAlone
  <2>1. PICK screen \in Diag!Screens, button \in Diag!Button :
          Diag!RunBundle([s1 EXCEPT !.stage = "app", !.local = TRUE, !.screen = screen, !.button = button])
    BY <1>2 DEF Diag!AppLoadsAlone
  <2>2. [s1 EXCEPT !.stage = "app", !.local = TRUE, !.screen = screen, !.button = button] \in Diag!Pages
    BY DEF DiagInv, Diag!EventsAreReported, Diag!Pages
  <2>3. QED
    BY <1>2, <2>1, <2>2, DiagRunBundle DEF Diag!AppLoadsAlone, Diag!server
<1>3. QED
  BY <1>1, <1>2

LEMMA DiagAppMissing == ASSUME DiagInv, Diag!AppMissing PROVE DiagInv'
<1>1. /\ s1' = [s1 EXCEPT !.stage = "late"] /\ Diag!Enqueue(<<Diag!Event("app_bundle_missing", s1, None)>>)
      /\ UNCHANGED <<s2, s3, s6, s7, s8>>
  BY DEF Diag!AppMissing, Diag!server
<1>2. s1 \in Diag!Pages /\ s1' \in Diag!Pages
  BY <1>1 DEF DiagInv, Diag!EventsAreReported, Diag!Pages
<1>3. PICK event \in Diag!Reported' : event = Diag!Event("app_bundle_missing", s1, None)
  BY <1>2, DiagEvent DEF Diag!Names
<1>4. s4' \in Seq(Diag!Reported') /\ s5' \in 0..MaxReports
  <2>1. Diag!Enqueue(<<event>>)
    BY <1>1, <1>3
  <2>2. QED
    BY <1>1, <2>1, DiagHeld, DiagOne
<1>5. QED
  BY <1>1, <1>2, <1>4, DiagHeld, DiagPage

LEMMA DiagSetScreen == ASSUME DiagInv, Diag!SetScreen PROVE DiagInv'
<1>1. /\ s1' = [s1 EXCEPT !.screen = Diag!Turned(s1.screen)]
      /\ Diag!SendThrottled("visibility", Diag!Event("visibility", s1', None))
      /\ UNCHANGED <<s2, s6, s7, s8>>
  BY DEF Diag!SetScreen, Diag!server
<1>2. s1' \in Diag!Pages
  BY <1>1 DEF DiagInv, Diag!EventsAreReported, Diag!Pages, Diag!Turned, Diag!Screens
<1>3. PICK event \in Diag!Reported' : event = Diag!Event("visibility", s1', None)
  BY <1>2, DiagEvent DEF Diag!Names
<1>4. PICK e \in Diag!Throttled : e = "visibility"
  BY DEF Diag!Throttled
<1>5. /\ s4' \in Seq(Diag!Reported') /\ s5' \in 0..MaxReports
      /\ s3' \in [Diag!Throttled -> [hot : BOOLEAN, waits : Diag!Reported' \cup {None}]]
  BY <1>1, <1>3, <1>4, DiagHeld, DiagSend
<1>6. QED
  BY <1>1, <1>2, <1>5, DiagPage

LEMMA DiagCheckTrigger == ASSUME DiagInv, Diag!CheckTrigger PROVE DiagInv'
<1>1. /\ s1' = [s1 EXCEPT !.seen = s1.seen \/ s1.screen = "on", !.told = s1.button] /\ s1.button # "absent"
      /\ Diag!SendThrottled("trigger_check", Diag!Event("trigger_check", s1, s1.button))
      /\ s2' = s2 \cup {Diag!Fact(s1)} /\ UNCHANGED <<s6, s7, s8>>
  BY DEF Diag!CheckTrigger, Diag!server
<1>2. s1 \in Diag!Pages /\ s1' \in Diag!Pages
  BY <1>1 DEF DiagInv, Diag!EventsAreReported, Diag!Pages, Diag!Button
<1>3. PICK event \in Diag!Reported' : event = Diag!Event("trigger_check", s1, s1.button)
  BY <1>1, <1>2, DiagEvent DEF Diag!Names
<1>4. PICK e \in Diag!Throttled : e = "trigger_check"
  BY DEF Diag!Throttled
<1>5. /\ s4' \in Seq(Diag!Reported') /\ s5' \in 0..MaxReports
      /\ s3' \in [Diag!Throttled -> [hot : BOOLEAN, waits : Diag!Reported' \cup {None}]]
  BY <1>1, <1>3, <1>4, DiagHeld, DiagSend
<1>6. QED
  BY <1>1, <1>2, <1>5, DiagPage

LEMMA DiagMoved ==
  ASSUME DiagInv, Diag!SetScreenUnheard \/ Diag!SetButton
  PROVE  DiagInv'
<1>1. UNCHANGED <<s2, s3, s4, s5, s6, s7, s8>>
  BY DEF Diag!SetScreenUnheard, Diag!SetButton, Diag!report, Diag!server
<1>2. s1' \in Diag!Pages
  BY DEF Diag!SetScreenUnheard, Diag!SetButton, DiagInv, Diag!EventsAreReported, Diag!Pages, Diag!Turned,
     Diag!Screens, Diag!Button
<1>3. QED
  BY <1>1, <1>2, DiagHeld, DiagPage

LEMMA DiagReleasePending ==
  ASSUME DiagInv, NEW e \in Diag!Throttled, Diag!ReleasePending(e)
  PROVE  DiagInv'
<1>1. UNCHANGED <<s1, s2, s6, s7, s8>>
  BY DEF Diag!ReleasePending, Diag!server
<1>2. /\ s4 \in Seq(Diag!Reported') /\ s5 \in 0..MaxReports /\ s1 \in Diag!Pages
      /\ s3 \in [Diag!Throttled -> [hot : BOOLEAN, waits : Diag!Reported' \cup {None}]]
  BY <1>1, DiagHeld
<1>3. PICK S : S = Diag!Reported'
  OBVIOUS
<1>4. PICK waits \in S \cup {None} : waits = s3[e].waits
  BY <1>2, <1>3
<1>5. /\ s4' \in Seq(S) /\ s5' \in 0..MaxReports
      /\ s3' \in [Diag!Throttled -> [hot : BOOLEAN, waits : S \cup {None}]]
  <2>1. CASE waits = None
    <3>1. s3' = [s3 EXCEPT ![e] = Diag!Quiet] /\ s4' = s4 /\ s5' = s5
      BY <1>4, <2>1 DEF Diag!ReleasePending
    <3>2. Diag!Quiet \in [hot : BOOLEAN, waits : S \cup {None}]
      BY DEF Diag!Quiet
    <3>3. QED
      BY <1>2, <1>3, <3>1, <3>2
  <2>2. CASE waits # None
    <3>1. Diag!Enqueue(<<waits>>) /\ s3' = [s3 EXCEPT ![e].waits = None] /\ waits \in S
      BY <1>4, <2>2 DEF Diag!ReleasePending
    <3>2. s4' \in Seq(S) /\ s5' \in 0..MaxReports
      BY <1>2, <1>3, <3>1, DiagOne
    <3>3. s3' \in [Diag!Throttled -> [hot : BOOLEAN, waits : S \cup {None}]]
      BY <1>2, <1>3, <3>1
    <3>4. QED
      BY <3>2, <3>3
  <2>3. QED
    BY <2>1, <2>2
<1>6. QED
  BY <1>1, <1>2, <1>3, <1>5, DiagPage

LEMMA DiagFlush == ASSUME DiagInv, Diag!Flush PROVE DiagInv'
<1>1. s6' = s6 \cup {Diag!Batch(s4)} /\ s4' = <<>> /\ UNCHANGED <<s1, s2, s3, s5, s7, s8>>
  BY DEF Diag!Flush, Diag!server
<1>2. QED
  BY <1>1, DiagHeld, DiagPage

LEMMA DiagPageHide == ASSUME DiagInv, Diag!PageHide PROVE DiagInv'
<1>1. PICK first \in Diag!Throttled :
        LET waits == Diag!Waiting(first) \o Diag!Waiting(CHOOSE e \in Diag!Throttled : e # first)
            last == Diag!Taken(<<Diag!Event("page_hide", s1, None)>> \o waits)
        IN /\ s1' = [s1 EXCEPT !.stage = "gone"]
           /\ s6' = IF s4 \o last = <<>> THEN s6 ELSE s6 \cup {Diag!Batch(s4 \o last)}
           /\ s5' = s5 + Len(last)
           /\ s4' = <<>> /\ s3' = [e \in Diag!Throttled |-> Diag!Quiet]
  BY DEF Diag!PageHide
<1>2. UNCHANGED <<s2, s7, s8>>
  BY DEF Diag!PageHide, Diag!server
<1>3. /\ s4 \in Seq(Diag!Reported') /\ s5 \in 0..MaxReports /\ s1 \in Diag!Pages
      /\ s3 \in [Diag!Throttled -> [hot : BOOLEAN, waits : Diag!Reported' \cup {None}]]
  BY <1>2, DiagHeld
<1>4. PICK S : S = Diag!Reported'
  OBVIOUS
<1>5. PICK event \in S : event = Diag!Event("page_hide", s1, None)
  BY <1>3, <1>4, DiagEvent DEF Diag!Names
<1>6. PICK second \in Diag!Throttled : second = CHOOSE e \in Diag!Throttled : e # first
  BY DEF Diag!Throttled
<1>7. \A e \in Diag!Throttled : Diag!Waiting(e) \in Seq(S)
  BY <1>3, <1>4 DEF Diag!Waiting
<1>8. PICK waits \in Seq(S) : waits = Diag!Waiting(first) \o Diag!Waiting(CHOOSE e \in Diag!Throttled : e # first)
  <2>1. Diag!Waiting(first) \o Diag!Waiting(second) \in Seq(S)
    BY <1>7
  <2>2. QED
    BY <1>6, <2>1
<1>9. PICK all \in Seq(S) : all = <<event>> \o waits
  <2>1. <<event>> \o waits \in Seq(S)
    OBVIOUS
  <2>2. QED
    BY <2>1
<1>10. PICK last \in Seq(S) : last = Diag!Taken(all) /\ s5 + Len(last) \in 0..MaxReports
  BY <1>3, DiagTaken
<1>11. /\ s1' = [s1 EXCEPT !.stage = "gone"]
       /\ s6' = IF s4 \o last = <<>> THEN s6 ELSE s6 \cup {Diag!Batch(s4 \o last)}
       /\ s5' = s5 + Len(last)
       /\ s4' = <<>> /\ s3' = [e \in Diag!Throttled |-> Diag!Quiet]
  BY <1>1, <1>5, <1>8, <1>9, <1>10
<1>12. s1' \in Diag!Pages /\ s5' \in 0..MaxReports /\ s4 \o last \in Seq(S) /\ s4' \in Seq(S)
  <2>1. s1' = [s1 EXCEPT !.stage = "gone"]
    BY <1>11
  <2>2. s1' \in Diag!Pages
    BY <1>3, <2>1 DEF Diag!Pages
  <2>3. s4 \in Seq(S) /\ <<>> \in Seq(S)
    BY <1>3, <1>4
  <2>4. s4 \o last \in Seq(S)
    BY <2>3
  <2>5. s5' \in 0..MaxReports /\ s4' \in Seq(S)
    BY <1>10, <1>11, <2>3
  <2>6. QED
    BY <2>2, <2>4, <2>5
<1>13. s3' \in [Diag!Throttled -> [hot : BOOLEAN, waits : S \cup {None}]]
  BY <1>11 DEF Diag!Quiet
<1>14. \A b \in s6' : b \in s6 \/ \E q \in Seq(S) : b = Diag!Batch(q)
  BY <1>11, <1>12
<1>15. s2 \subseteq s2'
  BY <1>2
<1>16. QED
  BY <1>2, <1>4, <1>12, <1>13, <1>14, <1>15, DiagPage

(* The way to the server: a batch's events are those it was made of.        *)
DiagBatches == [events : Seq(Diag!Reported), copies : {1, 2}, prev : Diag!Grounded \cup {None}]
LEMMA DiagNet ==
  ASSUME DiagInv, UNCHANGED <<s1, s2, s3, s4, s5>>, s6' \subseteq DiagBatches,
         s7' \in Diag!Grounded, s8' \in [state : Diag!Grounded, seen : SUBSET Diag!Names]
  PROVE  DiagInv'
BY DEF DiagInv, Diag!EventsAreReported, Diag!StatesAreGrounded, Diag!Reported, Diag!Grounded, DiagBatches

LEMMA DiagOnTheWay ==
  ASSUME DiagInv, NEW b \in s6, Diag!Lose(b) \/ Diag!Retry(b) \/ Diag!ReadState(b)
  PROVE  DiagInv'
<1>1. /\ UNCHANGED <<s1, s2, s3, s4, s5, s7, s8>>
      /\ \A c \in s6' : \/ c \in s6
                        \/ c = [b EXCEPT !.copies = 2]
                        \/ c = [b EXCEPT !.prev = s7, !.copies = 1]
                        \/ c = [b EXCEPT !.copies = 1]
  BY DEF Diag!Lose, Diag!Retry, Diag!ReadState, Diag!report, Diag!server
<1>2. s6 \subseteq DiagBatches /\ s7 \in Diag!Grounded /\ s8 \in [state : Diag!Grounded, seen : SUBSET Diag!Names]
  BY DEF DiagInv, Diag!StatesAreGrounded, DiagBatches
<1>3. s6' \subseteq DiagBatches
  BY <1>1, <1>2 DEF DiagBatches
<1>4. QED
  BY <1>1, <1>2, <1>3, DiagNet

(* An event folded over a state: the measurement stays with the screen that *)
(* it was made on.                                                          *)
LEMMA DiagFold ==
  ASSUME NEW prev \in Diag!Grounded, NEW snap \in Diag!Grounded, NEW event \in Diag!Reported,
         snap.screen = event.screen
  PROVE  Diag!Fold(prev, snap, event) \in Diag!Grounded /\ Diag!Fold(prev, snap, event).screen = event.screen
<1> DEFINE next == [screen |-> Diag!Newer(snap.screen, prev.screen),
                    onScreen |-> Diag!Newer(snap.onScreen, prev.onScreen), visible |-> prev.visible]
<1>1. /\ event.screen \in {"on", "off"} /\ event.trigger \in {"hidden", "shown", None}
      /\ event.trigger # None => [button |-> event.trigger, screen |-> event.screen] \in s2
  BY DEF Diag!Reported, Diag!Events, Diag!Screens
<1>2. next \in Diag!Grounded /\ next.screen = event.screen
  BY <1>1, DiagNone DEF Diag!Grounded, Diag!States, Diag!Newer, Diag!Screens
<1> HIDE DEF next
<1>3. CASE event.trigger = None
  BY <1>2, <1>3 DEF Diag!Fold, next
<1>4. CASE event.trigger # None /\ event.screen = "on"
  <2>1. Diag!Fold(prev, snap, event) = [next EXCEPT !.visible = event.trigger, !.onScreen = event.trigger]
    BY <1>2, <1>4 DEF Diag!Fold, Diag!OnScreen, next
  <2>2. QED
    BY <1>1, <1>2, <1>4, <2>1 DEF Diag!Grounded, Diag!States
<1>5. CASE event.trigger # None /\ event.screen = "off"
  <2>1. Diag!Fold(prev, snap, event) = [next EXCEPT !.visible = event.trigger]
    BY <1>2, <1>5 DEF Diag!Fold, Diag!OnScreen, next, Diag!Grounded, Diag!States
  <2>2. QED
    BY <1>1, <1>2, <1>5, <2>1 DEF Diag!Grounded, Diag!States
<1>6. QED
  BY <1>1, <1>3, <1>4, <1>5

DiagStored == [row : Diag!Grounded, summary : [state : Diag!Grounded, seen : SUBSET Diag!Names]]
LEMMA DiagStore ==
  ASSUME NEW done \in DiagStored, NEW event \in Diag!Reported
  PROVE  Diag!Store(done, event) \in DiagStored
<1>1. PICK snap : snap = [Diag!NoState EXCEPT !.screen = event.screen]
  OBVIOUS
<1>2. event.screen \in {"on", "off"} /\ event.name \in Diag!Names
  BY DEF Diag!Reported, Diag!Events, Diag!Screens
<1>3. snap \in Diag!Grounded /\ snap.screen = event.screen
  BY <1>1, <1>2 DEF Diag!NoState, Diag!Grounded, Diag!States, Diag!Screens
<1>4. PICK state : state = Diag!FoldEvent(done.row, event)
  OBVIOUS
<1>5. state \in Diag!Grounded /\ state.screen = event.screen
  BY <1>1, <1>3, <1>4, DiagFold DEF Diag!FoldEvent, DiagStored
<1>6. Diag!Fold(done.summary.state, state, event) \in Diag!Grounded
  BY <1>5, DiagFold DEF DiagStored
<1>7. Diag!AddRow(done.summary, state, event) \in [state : Diag!Grounded, seen : SUBSET Diag!Names]
  BY <1>2, <1>6 DEF Diag!AddRow, DiagStored
<1>8. QED
  BY <1>4, <1>5, <1>7 DEF Diag!Store, DiagStored

(* A batch is stored row by row.                                            *)
DiagRows(done, start, events, n) ==
  done = [k \in 0..n |-> IF k = 0 THEN start ELSE Diag!Store(done[k - 1], events[k])]

LEMMA DiagRowsExist ==
  ASSUME NEW start, NEW events, NEW n \in Nat
  PROVE  \E done : DiagRows(done, start, events, n)
<1> DEFINE G == {k \in 0..n : \E done : DiagRows(done, start, events, k)}
<1>1. 0 \in G
  <2>1. DiagRows([k \in 0..0 |-> start], start, events, 0)
    BY DEF DiagRows
  <2>2. QED
    BY <2>1
<1>2. ASSUME NEW k \in 0..n, k \in G, k < n
      PROVE  k + 1 \in G
  <2>1. PICK done : DiagRows(done, start, events, k)
    BY <1>2
  <2> DEFINE more == [j \in 0..(k + 1) |-> IF j = k + 1 THEN Diag!Store(done[k], events[k + 1]) ELSE done[j]]
  <2>2. ASSUME NEW j \in 0..(k + 1)
        PROVE  more[j] = IF j = 0 THEN start ELSE Diag!Store(more[j - 1], events[j])
    <3>1. CASE j = k + 1
      <4>1. j # 0 /\ k \in 0..(k + 1) /\ k # k + 1 /\ j - 1 = k
        BY <3>1
      <4>2. more[j] = Diag!Store(done[k], events[k + 1]) /\ more[j - 1] = done[k]
        BY <3>1, <4>1
      <4>3. QED
        BY <3>1, <4>1, <4>2
    <3>2. CASE j # k + 1
      <4>1. j \in 0..k /\ more[j] = done[j]
        BY <3>2
      <4>2. done[j] = IF j = 0 THEN start ELSE Diag!Store(done[j - 1], events[j])
        BY <2>1, <4>1 DEF DiagRows
      <4>3. j # 0 => more[j - 1] = done[j - 1]
        BY <4>1
      <4>4. QED
        BY <4>1, <4>2, <4>3
    <3>3. QED
      BY <3>1, <3>2
  <2>3. DiagRows(more, start, events, k + 1)
    <3>1. more = [j \in 0..(k + 1) |-> more[j]]
      OBVIOUS
    <3> HIDE DEF more
    <3>2. QED
      BY <2>2, <3>1 DEF DiagRows
  <2>4. QED
    BY <1>2, <2>3
<1> HIDE DEF G
<1>3. n \in G
  BY <1>1, <1>2, CountingInduction
<1>4. QED
  BY <1>3 DEF G

LEMMA DiagRowsAreStored ==
  ASSUME NEW start \in DiagStored, NEW events \in Seq(Diag!Reported),
         NEW done, DiagRows(done, start, events, Len(events))
  PROVE  done[Len(events)] \in DiagStored
<1> DEFINE G == {k \in 0..Len(events) : done[k] \in DiagStored}
<1>1. 0 \in G
  BY DEF DiagRows
<1>2. ASSUME NEW k \in 0..Len(events), k \in G, k < Len(events)
      PROVE  k + 1 \in G
  <2>1. k + 1 \in 0..Len(events) /\ k + 1 # 0 /\ (k + 1) - 1 = k /\ events[k + 1] \in Diag!Reported
    BY <1>2
  <2>2. done[k + 1] = Diag!Store(done[k], events[k + 1])
    BY <2>1 DEF DiagRows
  <2>3. QED
    BY <1>2, <2>1, <2>2, DiagStore
<1> HIDE DEF G
<1>3. Len(events) \in Nat /\ Len(events) \in 0..Len(events)
  OBVIOUS
<1>4. 0..Len(events) \subseteq G
  BY <1>1, <1>2, <1>3, CountingInduction
<1>5. QED
  BY <1>3, <1>4 DEF G

LEMMA DiagInsertBatch == ASSUME DiagInv, NEW b \in s6, Diag!InsertBatch(b) PROVE DiagInv'
<1>1. PICK events, prev : events = b.events /\ prev = b.prev
  OBVIOUS
<1>2. /\ events \in Seq(Diag!Reported) /\ prev \in Diag!Grounded
      /\ s8 \in [state : Diag!Grounded, seen : SUBSET Diag!Names] /\ s6 \subseteq DiagBatches
  BY <1>1 DEF DiagInv, Diag!StatesAreGrounded, DiagBatches, Diag!InsertBatch
<1>3. PICK start \in DiagStored : start = [row |-> prev, summary |-> s8]
  BY <1>2 DEF DiagStored
<1>4. PICK done :
        /\ done = CHOOSE it : DiagRows(it, start, events, Len(events))
        /\ s7' = done[Len(events)].row /\ s8' = done[Len(events)].summary
  <2> DEFINE stored[k \in 0..Len(events)] ==
                 IF k = 0 THEN start ELSE Diag!Store(stored[k - 1], events[k])
  <2>1. s7' = stored[Len(events)].row /\ s8' = stored[Len(events)].summary
    BY <1>1, <1>3 DEF Diag!InsertBatch
  <2>2. stored = CHOOSE it : DiagRows(it, start, events, Len(events))
    BY DEF DiagRows
  <2>3. QED
    BY <2>1, <2>2
<1>5. DiagRows(done, start, events, Len(events))
  <2>1. Len(events) \in Nat
    BY <1>2
  <2>2. \E it : DiagRows(it, start, events, Len(events))
    BY <2>1, DiagRowsExist
  <2>3. QED
    BY <1>4, <2>2
<1>6. done[Len(events)] \in DiagStored
  BY <1>2, <1>3, <1>5, DiagRowsAreStored
<1>7. s7' \in Diag!Grounded /\ s8' \in [state : Diag!Grounded, seen : SUBSET Diag!Names]
  BY <1>4, <1>6 DEF DiagStored
<1>8. UNCHANGED <<s1, s2, s3, s4, s5>> /\ s6' \subseteq DiagBatches
  BY <1>2 DEF Diag!InsertBatch, Diag!report
<1>9. QED
  BY <1>7, <1>8, DiagNet

LEMMA DiagStep == ASSUME DiagInv, Diag!Next PROVE DiagInv'
BY DiagLoadPage, DiagAppLoads, DiagAppMissing, DiagSetScreen, DiagCheckTrigger, DiagMoved, DiagReleasePending,
   DiagFlush, DiagPageHide, DiagOnTheWay, DiagInsertBatch DEF Diag!Next

LEMMA DiagIsTold == ASSUME DiagInv PROVE Diag!VerdictWasSo
<1>1. PICK state \in Diag!Grounded : state = s8.state
  BY DEF DiagInv, Diag!StatesAreGrounded
<1> DEFINE measured(button) ==
      \E f \in s2 : f.button = button /\ (f.screen = "on" <=> state.onScreen # None)
<1>2. ASSUME NEW button \in {"shown", "hidden"}, state.onScreen = button PROVE measured(button)
  BY <1>2, DiagNone DEF Diag!Grounded
<1>3. ASSUME NEW button \in {"shown", "hidden"}, state.onScreen = None, state.visible = button PROVE measured(button)
  <2>1. [button |-> button, screen |-> "off"] \in s2
    BY <1>3, DiagNone DEF Diag!Grounded
  <2>2. QED
    BY <1>3, <2>1
<1>4. state.onScreen \in {"hidden", "shown", None}
  BY DEF Diag!Grounded, Diag!States
<1> HIDE DEF measured
<1>5. ASSUME NEW logged \in BOOLEAN, NEW fresh \in BOOLEAN, NEW silent \in BOOLEAN
      PROVE  /\ Diag!Verdict(logged, fresh, silent) = "ok" => measured("shown")
             /\ Diag!Verdict(logged, fresh, silent) = "trigger_hidden" => measured("hidden")
  BY <1>1, <1>2, <1>3, <1>4, DiagNone DEF Diag!Verdict
<1>6. QED
  BY <1>1, <1>5 DEF Diag!VerdictWasSo, measured

-----------------------------------------------------------------------------
(* The step of a part is a step of its module.                              *)
LEMMA PartSteps ==
  ASSUME Next
  PROVE  /\ UNCHANGED part
         /\ part = "con" => Con!Next
         /\ part = "sub" => Sub!Next
         /\ part = "start" => Start!Next
         /\ part = "fanout" => Fan!Next
         /\ part = "news" => News!Next
         /\ part = "panel" => Panel!Next
         /\ part = "wallet" => Wallet!Next
         /\ part = "slot" => Slot!Next
         /\ part = "page" => Page!Next
         /\ part = "settings" => Set!Next
         /\ part = "economy" => Econ!Next
         /\ part = "obs" => Obs!Next
         /\ part = "map" => Map!Next
         /\ part = "search" => Search!Next
         /\ part = "helper" => Helper!Next
         /\ part = "shell" => Shell!Next
         /\ part = "phone" => Phone!Next
         /\ part = "quote" => Quote!Next
         /\ part = "call" => Call!Next
         /\ part = "oauth" => OAuth!Next
         /\ part = "acceptance" => Acc!Next
         /\ part = "books" => Books!Next
         /\ part = "diag" => Diag!Next
         /\ part = "subject" => Subject!Next
         /\ part = "log" => Log!Next
BY DEF Next, ConNext, SubNext, SlotNext, PhoneNext, NewsNext, PageNext, WalletNext, HelperNext,
       DiagNext, SearchNext, PanelNext, SetNext, EconNext, AccNext, FanNext, BooksNext, StartNext,
       LogNext, OAuthNext, ObsNext, MapNext, GeomNext, CallNext, ShellNext, QuoteNext, SubjectNext

ConInv == Con!TokensAreTyped /\ Con!RowIsGood /\ Con!StoredIsGood /\ Con!PresentsGoodToken
WalletInv == Wallet!ReadsAreOwn /\ Wallet!PageIsOwn

(* No process presents a refresh token that has been used up, unless the    *)
(* streamer took the access back or the server lost the next token, with any*)
(* number of processes that refresh the tokens and of authorisations.       *)
THEOREM AlwaysPresentsGoodToken == Spec => []PresentsGoodToken
<1> DEFINE I == part = "con" => ConInv
<1>1. Init => I
  BY ConBegins DEF Init, ConInv
<1>2. I /\ [Next]_vars => I'
  <2>1. ASSUME I, Next PROVE I'
    BY <2>1, PartSteps, ConTypes, ConStep DEF ConInv
  <2>2. ASSUME I, UNCHANGED vars PROVE I'
    BY <2>2 DEF ConInv, vars, Con!TokensAreTyped, Con!RowIsGood, Con!StoredIsGood,
                Con!PresentsGoodToken, Con!Good
  <2>3. QED
    BY <2>1, <2>2
<1>3. I => PresentsGoodToken
  BY DEF ConInv, PresentsGoodToken
<1>4. QED
  BY <1>1, <1>2, <1>3, PTL DEF Spec

(* No viewer is shown another one's balance or credits, and no socket hears *)
(* what is for others than who it proved to be, whoever connects, leaves,   *)
(* shares and withdraws an identity, and however late the answers are.      *)
THEOREM ShownIsAlwaysOwn == Spec => []ShownIsOwn
<1> DEFINE I == (part = "fanout" => FanInv) /\ (part = "wallet" => WalletInv)
<1>1. Init => I
  BY FanBegins, FanWaits, WalletBegins DEF Init, FanInv, WalletInv
<1>2. I /\ [Next]_vars => I'
  <2>1. ASSUME I, Next PROVE I'
    BY <2>1, PartSteps, FanStep, FanHeard, WalletStep DEF FanInv, WalletInv
  <2>2. ASSUME I, UNCHANGED vars PROVE I'
    <3>1. part = "wallet" => WalletInv'
      BY <2>2 DEF WalletInv, vars, Wallet!ReadsAreOwn, Wallet!PageIsOwn
    <3>2. QED
      BY <2>2, <3>1, FanStays DEF vars
  <2>3. QED
    BY <2>1, <2>2
<1>3. I => ShownIsOwn
  BY WalletShows DEF FanInv, WalletInv, ShownIsOwn
<1>4. QED
  BY <1>1, <1>2, <1>3, PTL DEF Spec

(* Whoever gets a waypoint for Channel Points has redeemed a reward at the  *)
(* quote's price, and does not get the points back but from a moderator or  *)
(* after a marker or a COMMIT's answer was lost, with any number of offers, *)
(* viewers and redemptions and of handlers and runs at work on them.        *)
THEOREM PaidAlwaysByOwner == Spec => []PaidByOwner
<1> DEFINE I == part = "slot" => SlotInv
<1>1. Init => I
  BY SlotBegins DEF Init, SlotInv
<1>2. I /\ [Next]_vars => I'
  <2>1. ASSUME I, Next PROVE I'
    BY <2>1, PartSteps, SlotStep
  <2>2. ASSUME I, UNCHANGED vars PROVE I'
    BY <2>2 DEF SlotInv, vars, Slot!RowsAreTyped, Slot!JobsAreTyped, Slot!PaymentsAreWhole, Slot!Open,
                Slot!JudgedOnce, Slot!Held, Slot!JudgedAsPaid, Slot!Knows, Slot!PaidByOwner
  <2>3. QED
    BY <2>1, <2>2
<1>3. I => PaidByOwner
  BY DEF SlotInv, PaidByOwner
<1>4. QED
  BY <1>1, <1>2, <1>3, PTL DEF Spec

(* A viewer who has paid is not told that the purchase failed, whatever is  *)
(* lost, late or out of order, and with any number of quotes and of events. *)
THEOREM PaidIsNeverDenied == Spec => []PaidIsNotDenied
<1> DEFINE I == part = "page" => (s1 => PageInv)
<1>1. Init => I
  BY PageBegins DEF Init
<1>2. I /\ [Next]_vars => I'
  <2>1. ASSUME I, Next PROVE I'
    BY <2>1, PartSteps, PageKeepsMode, PageStep
  <2>2. ASSUME I, UNCHANGED vars PROVE I'
    BY <2>2 DEF PageInv, vars, Page!PageIsTyped, Page!ServerIsSound, Page!NewIsUntouched,
                Page!RefusalIsTrue, Page!DenialIsTrue, Page!MayDeny, Page!Unpaid, Page!Undecidable
  <2>3. QED
    BY <2>1, <2>2
<1>3. I => PaidIsNotDenied
  BY PageDenies DEF PaidIsNotDenied
<1>4. QED
  BY <1>1, <1>2, <1>3, PTL DEF Spec

(* A synchronisation that ends without an error leaves a subscription to    *)
(* every wanted type, and who answers requests has its schema and its       *)
(* channel whole, with any number of processes and of subscriptions.        *)
THEOREM SetUpAlwaysWhole == Spec => SetUpIsWhole
<1> DEFINE I == (part = "sub" => SubInv) /\ (part = "start" => StartInv)
           A == /\ part = "sub" => Sub!SyncEndsSubscribed
                /\ part = "start" => Start!ServesWhole'
<1>1. Init => I
  BY SubBegins, StartBegins DEF Init, SubInv
<1>2. I /\ [Next]_vars => I'
  <2>1. ASSUME I, Next PROVE I'
    <3>1. part = "sub" => SubInv'
      BY <2>1, PartSteps, SubTypes, SubIds, SubStands DEF SubInv
    <3>2. part = "start" => StartInv'
      BY <2>1, PartSteps, StartStep
    <3>3. QED
      BY <2>1, <3>1, <3>2, PartSteps
  <2>2. ASSUME I, UNCHANGED vars PROVE I'
    BY <2>2, SubStays, StartStays DEF vars
  <2>3. QED
    BY <2>1, <2>2
<1>3. I /\ I' /\ [Next]_vars => [A]_vars
  <2>1. ASSUME I, I', Next PROVE A
    <3>1. part = "sub" => Sub!SyncEndsSubscribed
      BY <2>1, PartSteps, SubEnds DEF SubInv
    <3>2. part = "start" => Start!ServesWhole'
      BY <2>1, PartSteps DEF StartInv
    <3>3. QED
      BY <3>1, <3>2
  <2>2. QED
    BY <2>1
<1>4. QED
  BY <1>1, <1>2, <1>3, PTL DEF Spec, SetUpIsWhole

(* The second tap ends the job that the first was for, and a save sends no  *)
(* field that was not typed, with any number of jobs, events and loads and  *)
(* whatever values the settings have.                                       *)
THEOREM AlwaysDoesWhatWasShown == Spec => DoesWhatWasShown
<1> DEFINE I == (part = "news" => NewsInv) /\ (part = "settings" => SetInv)
           A == /\ part = "news" => News!ConfirmsWhatWasArmed
                /\ part = "settings" => Set!SavesOnlyWhatWasTyped
<1>1. Init => I
  BY NewsBegins, SetBegins DEF Init
<1>2. I /\ [Next]_vars => I'
  <2>1. ASSUME I, Next PROVE I'
    <3>1. part = "news" => NewsInv'
      BY <2>1, PartSteps, NewsTypes, NewsStep, NewsArms DEF NewsInv
    <3>2. part = "settings" => SetInv'
      BY <2>1, PartSteps, SetStep
    <3>3. QED
      BY <2>1, <3>1, <3>2, PartSteps
  <2>2. ASSUME I, UNCHANGED vars PROVE I'
    BY <2>2, NewsStays, SetStays DEF vars
  <2>3. QED
    BY <2>1, <2>2
<1>3. I /\ [Next]_vars => [A]_vars
  <2>1. ASSUME I, Next PROVE A
    BY <2>1, PartSteps, NewsConfirms, SetSaves DEF NewsInv, SetInv
  <2>2. QED
    BY <2>1
<1>4. QED
  BY <1>1, <1>2, <1>3, PTL DEF Spec, DoesWhatWasShown

(* With everything delivered the pages, the Panel, the sockets and the HUD  *)
(* are where the server is, unless what came last was overtaken or Redis    *)
(* failed, with any number of events, jobs, sockets and positions.          *)
THEOREM AlwaysLostOnlyToLateNews == Spec => []LostOnlyToLateNews
<1> DEFINE I == /\ part = "news" => NewsInv
                /\ part = "panel" => PanelInv
                /\ part = "fanout" => FanInv
                /\ part = "obs" => ObsInv
<1>1. Init => I
  BY NewsBegins, PanelBegins, FanBegins, FanWaits, ObsBegins DEF Init, FanInv
<1>2. I /\ [Next]_vars => I'
  <2>1. ASSUME I, Next PROVE I'
    <3>1. part = "news" => NewsInv'
      BY <2>1, PartSteps, NewsTypes, NewsStep, NewsArms DEF NewsInv
    <3>2. part = "panel" => PanelInv'
      BY <2>1, PartSteps, PanelStep
    <3>3. part = "fanout" => FanInv'
      BY <2>1, PartSteps, FanStep, FanHeard DEF FanInv
    <3>4. part = "obs" => ObsInv'
      BY <2>1, PartSteps, ObsStep
    <3>5. QED
      BY <2>1, <3>1, <3>2, <3>3, <3>4, PartSteps
  <2>2. ASSUME I, UNCHANGED vars PROVE I'
    BY <2>2, NewsStays, PanelStays, FanStays, ObsStays DEF vars
  <2>3. QED
    BY <2>1, <2>2
<1>3. I => LostOnlyToLateNews
  BY NewsShows, PanelShows, FanEnds, ObsShows DEF FanInv, LostOnlyToLateNews
<1>4. QED
  BY <1>1, <1>2, <1>3, PTL DEF Spec

(* What comes late does not take the place of what is newer, with any number*)
(* of authorizations, terms, clicks, polls, configurations, builds and      *)
(* refreshes.                                                               *)
THEOREM NewestAlwaysWins == Spec => []NewestWins
<1> DEFINE I == /\ part = "helper" => HelperInv
                /\ part = "search" => SearchInv
                /\ part = "panel" => PanelInv
                /\ part = "economy" => EconInv
                /\ part = "map" => MapInv
                /\ part = "shell" => ShellInv
<1>1. Init => I
  BY HelperBegins, SearchBegins, PanelBegins, EconBegins, MapStarts, ShellBegins DEF Init
<1>2. I /\ [Next]_vars => I'
  <2>1. ASSUME I, Next PROVE I'
    BY <2>1, PartSteps, HelperStep, SearchStep, PanelStep, EconStep, MapStep, ShellStep
  <2>2. ASSUME I, UNCHANGED vars PROVE I'
    BY <2>2, HelperStays, SearchStays, PanelStays, EconStays, MapStays, ShellStays DEF vars
  <2>3. QED
    BY <2>1, <2>2
<1>3. I /\ PresentsGoodToken => NewestWins
  BY EconRests DEF HelperInv, SearchInv, PanelInv, MapInv, ShellInv, NewestWins
<1>4. QED
  BY <1>1, <1>2, <1>3, AlwaysPresentsGoodToken, PTL DEF Spec

(* A waypoint is never priced from an old position, the preview is the price*)
(* that the server takes, and a quote is for a walk that the router knows,  *)
(* whatever the phone sends, the router answers and the cache still has.    *)
THEOREM PricesAreAlwaysTrue == Spec => []PricesAreTrue
<1> DEFINE I == (part = "phone" => PhoneInv) /\ (part = "quote" => QuoteInv)
<1>1. Init => I
  BY PhoneBegins, QuoteBegins DEF Init
<1>2. I /\ [Next]_vars => I'
  <2>1. ASSUME I, Next PROVE I'
    BY <2>1, PartSteps, PhoneStep, QuoteStep
  <2>2. ASSUME I, UNCHANGED vars PROVE I'
    BY <2>2, PhoneStays, QuoteStays DEF vars
  <2>3. QED
    BY <2>1, <2>2
<1>3. I => PricesAreTrue
  BY PhonePrices, QuoteIsRouted, SetPreviews DEF PricesAreTrue
<1>4. QED
  BY <1>1, <1>2, <1>3, PTL DEF Spec

(* What the acceptance list ticks has happened, a channel that is reported  *)
(* connected is, "no connection" is never said of an answer, the books that *)
(* are shown are in order, no page that has reported is called silent, no   *)
(* button is called what it was not, and no line of the request log is lost,*)
(* twice or out of its place without a reason, however reads and writes,    *)
(* callbacks, batches, chunks and failures fall together.                   *)
THEOREM NeverFalseVerdict == Spec => []NoFalseVerdict
<1> DEFINE I == /\ part = "acceptance" => AccInv
                /\ part = "oauth" => OAuthInv
                /\ part = "call" => CallInv
                /\ part = "books" => BooksInv
                /\ part = "diag" => DiagInv
                /\ part = "subject" => SubjectInv
                /\ part = "log" => Log!Inv
<1>0. Log!Sizes
  BY PartsAssumption DEF Log!Sizes
<1>1. Init => I
  BY AccBegins, OAuthBegins, CallBegins, BooksBegins, DiagBegins, SubjectBegins, Log!Begins, <1>0 DEF Init
<1>2. I /\ [Next]_vars => I'
  <2>1. ASSUME I, Next PROVE I'
    BY <2>1, PartSteps, AccStep, OAuthStep, CallStep, BooksStep, DiagStep, SubjectStep, Log!Step
  <2>2. ASSUME I, UNCHANGED vars PROVE I'
    BY <2>2, AccStays, OAuthStays, CallStays, BooksStays, DiagStays, SubjectStays, Log!Stays
       DEF vars, Acc!vars, OAuth!vars, Log!vars
  <2>3. QED
    BY <2>1, <2>2
<1>3. I => NoFalseVerdict
  BY OAuthConnected, DiagIsTold, SubjectIsTold, Log!IsWhole DEF NoFalseVerdict, AccInv, CallInv, BooksInv
<1>4. QED
  BY <1>1, <1>2, <1>3, PTL DEF Spec
=============================================================================
