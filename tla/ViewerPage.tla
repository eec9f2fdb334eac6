----------------------------- MODULE ViewerPage -----------------------------
(* The destination card of the viewer's extension, from a click on the map to *)
(* the end of the job: its own requests, whose answers may be late or lost,   *)
(* and the realtime events, which come in whatever order.                     *)
(* Sources: src/web/src/viewer/App.tsx and DestinationCard.tsx; the server is *)
(* what the answers and events need of it (GtaEconomy and SlotPool have it).  *)
(*                                                                            *)
(* A job, closed waypoints, no GPS, the balance and the deadline change what  *)
(* the card says and offers; that any of them holds is left open, for the     *)
(* server decides the same again.  The map, the route, the slots and the      *)
(* layout are left out.                                                       *)
EXTENDS Integers, FiniteSets

CONSTANTS
  Quotes,   \* 1..n, in the order in which they are priced
  MaxNews,  \* events on their way at the same time
  None, Asked, Lost, Refused,
  Other     \* a job of another viewer

VARIABLES
  gta,        \* the payment mode
  status,     \* of each quote
  charged,    \* quotes that were paid
  running,    \* the job: a quote, Other, None
  news,       \* events that were not received yet
  pick,       \* the newest pick's request: Asked, its quote, Refused, None
  buy,        \* the purchase request: its quote and its answer, or Asked
  confirm,    \* the confirm request
  orphans,    \* quotes of purchase requests that nobody waits for any more
  overtaken,  \* quotes refused while such a request was undecided
  card        \* CardState

vars == <<gta, status, charged, running, news, pick, buy, confirm, orphans, overtaken, card>>

Idle == [kind |-> "idle", quote |-> None, unsure |-> FALSE, why |-> None]
Card(kind, q) == [Idle EXCEPT !.kind = kind, !.quote = q]
Error(q, why) == [Card("error", q) EXCEPT !.why = why]
NoRequest == [quote |-> None, answer |-> None]

(* quoteOf: the quote of a card that still has one to pay.                  *)
QuoteOf(c) == IF c.kind \in {"quoted", "confirming", "awaiting", "purchasing"} THEN c.quote ELSE None

Init ==
  /\ gta \in BOOLEAN
  /\ status = [q \in Quotes |-> "none"] /\ charged = {} /\ running = None /\ news = {}
  /\ pick = None /\ buy = NoRequest /\ confirm = NoRequest
  /\ orphans = {} /\ overtaken = {}
  /\ card = Idle

server == <<status, charged, running>>
asked == <<pick, buy, confirm, orphans, overtaken>>

Announce(kind, q) ==
  /\ news' = news \cup {[kind |-> kind, quote |-> q]} /\ Cardinality(news') <= MaxNews

-----------------------------------------------------------------------------
(* The server.                                                              *)

Open(q) == status[q] \in {"live", "waiting"}

(* A new quote takes the place of the viewer's last one.                    *)
Price ==
  /\ pick = Asked
  /\ \/ pick' = Refused /\ UNCHANGED status
     \/ \E q \in Quotes :
          /\ running = None /\ status[q] = "none" /\ \A r \in Quotes : r < q => status[r] # "none"
          /\ pick' = q
          /\ status' = [r \in Quotes |-> IF r = q THEN "live" ELSE IF Open(r) THEN "dead" ELSE status[r]]
  /\ UNCHANGED <<gta, charged, running, news, buy, confirm, orphans, overtaken, card>>

Charge(q) ==
  /\ running = None /\ Open(q)
  /\ running' = q /\ charged' = charged \cup {q}
  /\ status' = [status EXCEPT ![q] = "active"]
  /\ Announce("activated", q)

(* The purchase endpoint on a quote: a repeat gets the waypoint it bought.  *)
Decide(q, answer) ==
  \/ answer = "active" /\ (Charge(q) \/ (status[q] = "active" /\ UNCHANGED <<server, news>>))
  \/ answer \in {"completed", "canceled"} /\ status[q] = answer /\ UNCHANGED <<server, news>>
  \/ answer \in {"refused", "poor"} /\ q \notin charged /\ UNCHANGED <<server, news>>
  \/ answer \in {"limited", "identity", Lost} /\ UNCHANGED <<server, news>>

Answers == {"active", "completed", "canceled", "refused", "poor", "limited", "identity", Lost}

DecidePurchase ==
  /\ buy.quote # None /\ buy.answer = Asked
  /\ \E a \in Answers :
       /\ Decide(buy.quote, a)
       /\ buy' = [buy EXCEPT !.answer = a]
       /\ overtaken' = IF a \in {"refused", "poor"} /\ buy.quote \in orphans
                       THEN overtaken \cup {buy.quote} ELSE overtaken
  /\ UNCHANGED <<gta, pick, confirm, orphans, card>>

DecideOrphan(q) ==
  /\ q \in orphans /\ orphans' = orphans \ {q}
  /\ \E a \in Answers : Decide(q, a)
  /\ UNCHANGED <<gta, pick, buy, confirm, overtaken, card>>

(* The answer is lost, or the deadline of the request has passed.           *)
LoseAnswer ==
  /\ buy.quote # None /\ buy.answer # Lost
  /\ buy' = [buy EXCEPT !.answer = Lost]
  /\ orphans' = IF buy.answer = Asked THEN orphans \cup {buy.quote} ELSE orphans
  /\ UNCHANGED <<gta, server, news, pick, confirm, overtaken, card>>

DecideConfirm ==
  /\ confirm.answer = Asked
  /\ \/ /\ status[confirm.quote] = "live"
        /\ status' = [status EXCEPT ![confirm.quote] = "waiting"]
        /\ confirm' = [confirm EXCEPT !.answer = "waiting"]
     \/ confirm' = [confirm EXCEPT !.answer = "refused"] /\ UNCHANGED status
  /\ UNCHANGED <<gta, charged, running, news, pick, buy, orphans, overtaken, card>>

(* Channel Points: the viewer redeems the reward.                           *)
Redeem ==
  /\ \E q \in Quotes : status[q] = "waiting" /\ Charge(q)
  /\ UNCHANGED <<gta, asked, card>>

(* It lapses, its price has changed, its viewer canceled it.                *)
Dies(q) ==
  /\ Open(q)
  /\ status' = [status EXCEPT ![q] = "dead"]
  /\ Announce("quote:canceled", q)
  /\ UNCHANGED <<gta, charged, running, asked, card>>

OtherJob ==
  /\ running = None /\ running' = Other
  /\ Announce("activated", Other)
  /\ UNCHANGED <<gta, status, charged, asked, card>>

EndJob(how) ==
  /\ running # None /\ running' = None
  /\ status' = IF running \in Quotes THEN [status EXCEPT ![running] = how] ELSE status
  /\ Announce(how, running)
  /\ UNCHANGED <<gta, charged, asked, card>>

-----------------------------------------------------------------------------
(* What the card says, and its buttons.                                     *)

(* No balance was read yet, or reading it has failed.                       *)
Views == [expired : BOOLEAN, blocked : BOOLEAN, balance : {"short", "covers", "loading", "unknown"}]

(* A quote that waits for an answer may be what lowered the balance, and    *)
(* its job the one that runs.                                               *)
GtaQuote(c, v) ==
  LET busy == c.kind = "purchasing"
      pending == busy \/ c.unsure
      blocked == v.blocked /\ ~pending
      short == v.balance = "short" /\ ~pending
      requote == v.expired /\ ~pending /\ ~blocked /\ ~short
      disabled == busy \/ (~c.unsure /\ (v.expired \/ blocked \/ v.balance = "loading"))
      settled == c.why = "poor" /\ v.balance = "covers"
  IN [says |-> CASE short -> "poor"
                 [] blocked /\ ~short -> "busy"
                 [] OTHER -> IF settled THEN None ELSE c.why,
      offers |-> CASE short -> {"top up"}
                   [] requote -> {"requote"}
                   [] OTHER -> IF disabled THEN {} ELSE {"purchase"}]

(* Some of the refusals are settled by another price of the same place, or  *)
(* by sharing who the viewer is.                                            *)
DestinationCard(c, v) ==
  CASE c.kind = "error" ->
         [says |-> c.why,
          offers |-> CASE c.why = "refused" -> {"requote"}
                       [] c.why = "identity" -> {"share"}
                       [] OTHER -> {}]
    [] c.kind = "purchasing" \/ (c.kind = "quoted" /\ gta) -> GtaQuote(c, v)
    [] c.kind = "awaiting" -> [says |-> None, offers |-> {"cancel"}]
    [] c.kind = "quoted" /\ ~gta ->
         [says |-> IF v.blocked THEN "busy" ELSE None,
          offers |-> IF v.blocked \/ v.expired THEN {} ELSE {"confirm"}]
    [] OTHER -> [says |-> None, offers |-> {}]

Offered(button) == \E v \in Views : button \in DestinationCard(card, v).offers

-----------------------------------------------------------------------------
(* The viewer's actions.                                                    *)

(* Whatever card there is, a click on the map replaces it.                  *)
HandlePick ==
  /\ \/ card' = Error(None, "blocked") /\ UNCHANGED pick
     \/ \E q \in Quotes : status[q] = "none" /\ card' = Card("loading", None) /\ pick' = Asked
  /\ UNCHANGED <<gta, server, news, buy, confirm, orphans, overtaken>>

(* The place of the last pick is priced again.                              *)
HandleRequote == Offered("requote") /\ HandlePick

HandlePurchase ==
  /\ buy = NoRequest /\ Offered("purchase")
  /\ buy' = [quote |-> card.quote, answer |-> Asked, unsure |-> card.unsure]
  /\ card' = Card("purchasing", card.quote)
  /\ UNCHANGED <<gta, server, news, pick, confirm, orphans, overtaken>>

(* One confirm request at a time is a bound of the model.                   *)
HandleConfirm ==
  /\ confirm = NoRequest /\ Offered("confirm")
  /\ confirm' = [quote |-> card.quote, answer |-> Asked]
  /\ card' = Card("confirming", card.quote)
  /\ UNCHANGED <<gta, server, news, pick, buy, orphans, overtaken>>

(* The button of a quote that waits for its payment; the quote may die.     *)
HandleCancel ==
  /\ Offered("cancel") /\ card' = Idle
  /\ UNCHANGED <<gta, server, news, asked>>

(* The late answer of a pick is ignored from now on.                        *)
HandleClose ==
  /\ card # Idle /\ card' = Idle
  /\ pick' = None
  /\ UNCHANGED <<gta, server, news, buy, confirm, orphans, overtaken>>

-----------------------------------------------------------------------------
(* Answers.                                                                 *)

TakePrice ==
  /\ pick \notin {None, Asked} /\ pick' = None
  /\ card' = IF pick = Refused THEN Error(None, "refused") ELSE Card("quoted", pick)
  /\ UNCHANGED <<gta, server, news, buy, confirm, orphans, overtaken>>

StillMine == card.kind = "purchasing" /\ card.quote = buy.quote

(* Mutant: a request that was not even looked at settles the one before.    *)
LimitedIsSure == [Card("quoted", buy.quote) EXCEPT !.why = "limited"]
StandsAsBefore == [Card("quoted", buy.quote) EXCEPT !.why = "limited", !.unsure = buy.unsure]

AfterAnswer ==
  CASE buy.answer = "completed" -> Card("completed", buy.quote)
    [] buy.answer = "canceled" -> Error(buy.quote, "canceled")
    [] buy.answer = Lost -> [Card("quoted", buy.quote) EXCEPT !.unsure = TRUE]
    [] buy.answer = "poor" -> [Card("quoted", buy.quote) EXCEPT !.why = "poor"]
    [] buy.answer = "limited" -> StandsAsBefore
    [] OTHER -> Error(buy.quote, buy.answer)

TakePurchase ==
  /\ buy.answer \notin {None, Asked} /\ buy' = NoRequest
  /\ card' = IF buy.answer = "active" THEN Card("active", buy.quote)
             ELSE IF StillMine THEN AfterAnswer ELSE card
  /\ UNCHANGED <<gta, server, news, pick, confirm, orphans, overtaken>>

(* Whatever card there is by now.                                           *)
TakeConfirm ==
  /\ confirm.answer \notin {None, Asked} /\ confirm' = NoRequest
  /\ card' = IF confirm.answer = "waiting" THEN Card("awaiting", confirm.quote)
             ELSE Error(confirm.quote, "refused")
  /\ UNCHANGED <<gta, server, news, pick, buy, orphans, overtaken>>

-----------------------------------------------------------------------------
(* Events.                                                                  *)

Undecided == card.kind = "purchasing" \/ (card.kind = "quoted" /\ card.unsure)

(* Without the job's quote in the event, a job at the same spot is taken    *)
(* for the viewer's own.                                                    *)
AfterActivated(q, sameSpot) ==
  IF Undecided \/ QuoteOf(card) = None THEN card
  ELSE IF ~gta /\ (QuoteOf(card) = q \/ sameSpot) THEN Card("active", q)
  ELSE Error(QuoteOf(card), "busy")

AfterCompleted(q) ==
  IF card.kind = "active" \/ (q # None /\ QuoteOf(card) = q) THEN Card("completed", q) ELSE card

AfterCanceled(q) ==
  IF card.kind \in {"quoted", "confirming", "awaiting", "purchasing", "active"} /\ card.quote = q
  THEN Error(q, "canceled") ELSE card

AfterQuoteCanceled(q) ==
  IF QuoteOf(card) = q /\ card.kind # "purchasing" THEN Error(q, "dead") ELSE card

Receive(e) ==
  /\ news' = news \ {e}
  /\ \E sameSpot \in BOOLEAN :
       card' = CASE e.kind = "activated" -> AfterActivated(e.quote, sameSpot)
                 [] e.kind = "completed" -> AfterCompleted(e.quote)
                 [] e.kind = "canceled" -> AfterCanceled(e.quote)
                 [] e.kind = "quote:canceled" -> AfterQuoteCanceled(e.quote)
  /\ UNCHANGED <<gta, server, asked>>

(* The socket was down meanwhile.                                           *)
LoseNews ==
  /\ news # {} /\ news' = {}
  /\ UNCHANGED <<gta, server, asked, card>>

Next ==
  \/ Price \/ DecidePurchase \/ LoseAnswer \/ DecideConfirm \/ Redeem \/ OtherJob
  \/ \E q \in Quotes : DecideOrphan(q) \/ Dies(q)
  \/ \E how \in {"completed", "canceled"} : EndJob(how)
  \/ HandlePick \/ HandleRequote \/ HandlePurchase \/ HandleConfirm
  \/ HandleCancel \/ HandleClose
  \/ TakePrice \/ TakePurchase \/ TakeConfirm
  \/ (\E e \in news : Receive(e)) \/ LoseNews

Spec == Init /\ [][Next]_vars

-----------------------------------------------------------------------------
TypeOK ==
  /\ \A q \in Quotes : status[q] \in {"none", "live", "waiting", "active", "completed", "canceled", "dead"}
  /\ card.quote \in Quotes \cup {None, Other}
  /\ (card.kind = "purchasing" => buy.quote # None)

(* A viewer who has paid with GTA$ is not told that the quote was refused,  *)
(* that it is dead, that the balance was short or that the streamer is busy *)
(* with another's job: an unanswered purchase stays open until an answer to *)
(* the same quote says what became of it. A request that is still under way *)
(* when a repeat of it is refused may yet be charged.                       *)
Denied == \E v \in Views : DestinationCard(card, v).says \in {"refused", "dead", "busy", "poor"}
PaidIsNotDenied == gta /\ card.quote \in charged \ overtaken => ~Denied

(* Why PaidIsNotDenied holds, in the payment mode in which it does.  Of a   *)
(* quote that the page may deny, no request is undecided that could still be*)
(* charged: an answer that settles it was given when the page had no other  *)
(* request for it, or the quote is dead.                                    *)
Statuses == {"none", "live", "active", "completed", "canceled", "dead"}
Kinds == {"idle", "error", "loading", "quoted", "purchasing", "active", "completed"}
Whys == {None, "refused", "dead", "busy", "poor", "limited", "identity", "canceled", "blocked"}
PageIsTyped ==
  /\ status \in [Quotes -> Statuses] /\ charged \subseteq Quotes
  /\ pick \in Quotes \cup {None, Asked, Refused}
  /\ buy = NoRequest \/ buy \in [quote : Quotes, answer : Answers \cup {Asked}, unsure : BOOLEAN]
  /\ confirm = NoRequest
  /\ orphans \subseteq Quotes
  /\ card \in [kind : Kinds, quote : Quotes \cup {None, Other}, unsure : BOOLEAN, why : Whys]
  /\ card.kind = "purchasing" => card.why = None
  /\ card.kind = "quoted" => card.quote \in Quotes /\ (card.unsure => card.why \in {None, "limited"})
ServerIsSound ==
  /\ \A q \in charged : status[q] \in {"active", "completed", "canceled"}
  /\ running \in charged \cup {None, Other}
  /\ news \subseteq [kind : {"activated", "completed", "canceled", "quote:canceled"}, quote : Quotes \cup {Other}]
  /\ \A e \in news : /\ e.kind = "completed" => e.quote \in charged \cup {Other}
                     /\ e.kind = "quote:canceled" => e.quote \in Quotes /\ status[e.quote] = "dead"
NewIsUntouched ==
  /\ pick \in Quotes => status[pick] # "none"
  /\ \A q \in Quotes : (status[q] = "none" \/ pick = q) =>
       q \notin charged \cup orphans /\ buy.quote # q /\ card.quote # q
Undecidable(q) == status[q] = "dead" \/ q \notin orphans
RefusalIsTrue ==
  (/\ buy # NoRequest
   /\ \/ buy.answer \in {"refused", "poor"}
      \/ ~buy.unsure /\ buy.answer \in {Asked, "limited", "identity"}) =>
    buy.quote \in overtaken \/ (buy.quote \notin charged /\ Undecidable(buy.quote))
MayDeny ==
  \/ card.kind = "error" /\ card.why \in {"refused", "dead", "busy", "poor"}
  \/ card.kind = "quoted" /\ ~card.unsure
Unpaid(q) ==
  \/ q \in overtaken
  \/ /\ q \notin charged /\ Undecidable(q)
     /\ (buy # NoRequest /\ buy.quote = q /\ buy.answer = Asked) => status[q] = "dead"
DenialIsTrue == MayDeny /\ card.quote \in Quotes => Unpaid(card.quote)
=============================================================================
