----------------------------- MODULE Acceptance -----------------------------
(* The acceptance monitor: what one viewer's way from the exchange to a       *)
(* waypoint leaves in the tables and in a ring of notes, and the checklist    *)
(* that is folded from both for the admin's page.                             *)
(* Sources: src/server/src/diag/acceptance.ts, emitToViewer of                *)
(* realtime/bus.ts.                                                           *)
(*                                                                            *)
(* The steps of the way are here only as far as they leave a trace.  One      *)
(* report is followed: the next is built anew.  The window in minutes,        *)
(* amounts, names, the timeline and other viewers are left out.               *)
EXTENDS Integers, FiniteSets

CONSTANTS
  None,
  Redemptions,
  Quotes,
  MaxLost         \* bound: notes that do not reach Redis

VARIABLES
  linked,         \* the viewer proved who they are
  received,       \* eventsub_events: [id, at] of redemptions of the exchange
  ledger,         \* gta_wallet_transactions: [kind, of, at]
  quotes,         \* waypoint_quotes: [id, at]
  waypoints,      \* waypoints: [quote, status]
  notes,          \* the ring: [kind, of]
  toEmit,         \* transactions committed whose wallet:updated is still to go out
  emitted,        \* history: those whose wallet:updated went out
  at,             \* the order of the rows
  reads,          \* per table: what the report under way has read
  report,         \* the checklist on the page
  lost

vars == <<linked, received, ledger, quotes, waypoints, notes, toEmit, emitted, at, reads, report, lost>>
trace == <<linked, received, ledger, quotes, waypoints, notes, toEmit, emitted, at, lost>>

Tables == {"received", "ledger", "quotes", "waypoints", "notes"}
NothingRead == [t \in Tables |-> None]

Init ==
  /\ linked = FALSE /\ received = {} /\ ledger = {} /\ quotes = {} /\ waypoints = {}
  /\ notes = {} /\ toEmit = {} /\ emitted = {} /\ at = 0
  /\ reads = NothingRead /\ report = None /\ lost = 0

(* noteAcceptance neither waits nor fails; the note may not get there.      *)
Note(kind, of) ==
  \/ notes' = notes \cup {[kind |-> kind, of |-> of]} /\ UNCHANGED lost
  \/ lost < MaxLost /\ lost' = lost + 1 /\ UNCHANGED notes
Later == at' = at + 1

-----------------------------------------------------------------------------
Link ==
  /\ ~linked /\ linked' = TRUE
  /\ Note("identity", None)
  /\ UNCHANGED <<received, ledger, quotes, waypoints, toEmit, emitted, at, reads, report>>

Redeem(r) ==
  /\ \A e \in received : e.id # r
  /\ received' = received \cup {[id |-> r, at |-> at + 1]} /\ Later
  /\ UNCHANGED <<linked, ledger, quotes, waypoints, notes, toEmit, emitted, reads, report, lost>>

Book(kind, of) ==
  /\ ledger' = ledger \cup {[kind |-> kind, of |-> of, at |-> at + 1]}
  /\ toEmit' = toEmit \cup {<<kind, of>>}

Credit(r) ==
  /\ \E e \in received : e.id = r
  /\ \A l \in ledger : l.of # r
  /\ Book("credit", r) /\ Later
  /\ UNCHANGED <<linked, received, quotes, waypoints, notes, emitted, reads, report, lost>>

CreateQuote(q) ==
  /\ linked /\ \A x \in quotes : x.id # q
  /\ quotes' = quotes \cup {[id |-> q, at |-> at + 1]} /\ Later
  /\ UNCHANGED <<linked, received, ledger, waypoints, notes, toEmit, emitted, reads, report, lost>>

(* The waypoint and its debit are one transaction.                          *)
Purchase(q) ==
  /\ \E x \in quotes : x.id = q
  /\ \A w \in waypoints : w.quote # q
  /\ \E l \in ledger : l.kind = "credit"
  /\ Book("debit", q) /\ Later
  /\ waypoints' = waypoints \cup {[quote |-> q, status |-> "ACTIVE"]}
  /\ UNCHANGED <<linked, received, quotes, notes, emitted, reads, report, lost>>

EndJob(status) ==
  /\ \E w \in waypoints : w.status = "ACTIVE"
  /\ waypoints' = {IF w.status = "ACTIVE" THEN [w EXCEPT !.status = status] ELSE w : w \in waypoints}
  /\ UNCHANGED <<linked, received, ledger, quotes, notes, toEmit, emitted, at, reads, report, lost>>

(* emitToViewer, after the commit; a process that dies does not get to it.  *)
EmitToViewer(tx) ==
  /\ tx \in toEmit /\ toEmit' = toEmit \ {tx}
  /\ emitted' = emitted \cup {tx}
  /\ Note("emitted", tx)
  /\ UNCHANGED <<linked, received, ledger, quotes, waypoints, at, reads, report>>

-----------------------------------------------------------------------------
(* loadAcceptanceReport: the tables are read side by side, each by itself.  *)
Table(t) ==
  CASE t = "received" -> received [] t = "ledger" -> ledger [] t = "quotes" -> quotes
    [] t = "waypoints" -> waypoints [] t = "notes" -> notes
Read(t) ==
  /\ reads[t] = None /\ reads' = [reads EXCEPT ![t] = Table(t)]
  /\ UNCHANGED <<trace, report>>

Newest(rows) == IF rows = {} THEN None ELSE CHOOSE r \in rows : \A x \in rows : x.at <= r.at

EmitOfViewer(notesRead, credit) == {n \in notesRead : n.kind = "emitted"}
EmitOf(notesRead, credit) == {n \in notesRead : n.kind = "emitted" /\ n.of = <<"credit", credit.of>>}

(* The credit of the newest redemption, or else the newest there is.        *)
Credits(rows) == {l \in rows : l.kind = "credit"}
CreditShown(rows, redemption) ==
  LET its == IF redemption = None THEN {} ELSE {l \in Credits(rows) : l.of = redemption.id}
  IN IF its # {} THEN CHOOSE l \in its : TRUE ELSE Newest(Credits(rows))

(* buildAcceptanceReport.                                                   *)
Checklist(r) ==
  LET redemption == Newest(r["received"])
      credit == CreditShown(r["ledger"], redemption)
      quote == Newest(r["quotes"])
      debits == {l \in r["ledger"] : l.kind = "debit" /\ quote # None /\ l.of = quote.id}
      jobs == {w \in r["waypoints"] : quote # None /\ w.quote = quote.id}
  IN [identity |-> (\E n \in r["notes"] : n.kind = "identity") \/ credit # None \/ quote # None,
      redemption |-> redemption, credit |-> credit, quote |-> quote,
      walletUpdated |-> credit # None /\ EmitOf(r["notes"], credit) # {},
      debited |-> debits # {},
      active |-> \E w \in jobs : w.status \in {"ACTIVE", "COMPLETED"}]

BuildAcceptanceReport ==
  /\ \A t \in Tables : reads[t] # None
  /\ report' = Checklist(reads) /\ reads' = NothingRead
  /\ UNCHANGED trace

Step ==
  \/ Link
  \/ \E r \in Redemptions : Redeem(r) \/ Credit(r)
  \/ \E q \in Quotes : CreateQuote(q) \/ Purchase(q)
  \/ \E status \in {"COMPLETED", "CANCELED"} : EndJob(status)
  \/ \E tx \in toEmit : EmitToViewer(tx)

(* bound: nothing that is in the tables goes away after the report.         *)
Next == report = None /\ (Step \/ BuildAcceptanceReport \/ \E t \in Tables : Read(t))

Spec == Init /\ [][Next]_vars

-----------------------------------------------------------------------------
TypeOK ==
  /\ linked \in BOOLEAN /\ DOMAIN reads = Tables
  /\ {e.id : e \in received} \subseteq Redemptions /\ {x.id : x \in quotes} \subseteq Quotes
  /\ toEmit \cap emitted = {} /\ lost \in 0..MaxLost

(* The rows are numbered as they come, so that one of them is the newest.   *)
HasNewest(rows) == rows # {} => \E r \in rows : \A x \in rows : x.at <= r.at
RowsAreNumbered ==
  /\ at \in Nat /\ \A row \in received \cup ledger : row.at \in 0..at
  /\ HasNewest(received) /\ HasNewest(Credits(ledger))

(* Only a viewer who is linked gets a quote, and a note is of what was done.*)
NotesAreTrue ==
  /\ quotes # {} => linked
  /\ \A n \in notes :
       (n.kind = "identity" => linked) /\ (n.kind = "emitted" => n.of \in emitted)

(* What was read is still there; of a waypoint only the status may differ.  *)
ReadsAreOfRows ==
  /\ reads["received"] # None => reads["received"] \subseteq received /\ HasNewest(reads["received"])
  /\ reads["ledger"] # None => reads["ledger"] \subseteq ledger /\ HasNewest(Credits(reads["ledger"]))
  /\ reads["quotes"] # None => reads["quotes"] \subseteq quotes
  /\ reads["notes"] # None => reads["notes"] \subseteq notes
  /\ reads["waypoints"] # None =>
       \A w \in reads["waypoints"] : \E x \in waypoints : x.quote = w.quote

(* What is ticked has happened, although the tables are read one by one     *)
(* while the viewer goes on, and notes may be missing: the credit's         *)
(* wallet:updated really went out, and was not another transaction's.       *)
TickedIsDone ==
  report # None =>
    /\ report.identity => linked \/ report.credit # None
    /\ report.redemption # None => report.redemption \in received
    /\ report.credit # None => report.credit \in ledger
    /\ report.walletUpdated => <<"credit", report.credit.of>> \in emitted
    /\ report.debited => \E l \in ledger : l.kind = "debit" /\ l.of = report.quote.id
    /\ report.active => \E w \in waypoints : w.quote = report.quote.id
=============================================================================
