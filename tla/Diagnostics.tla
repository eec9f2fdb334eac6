---------------------------- MODULE Diagnostics ----------------------------
(* What a page of the extension reports of itself, how the reports travel,    *)
(* and the verdict that the admin reads: is the map button on screen.         *)
(* Sources: web/public/gtamap-boot.js and the stand-in of viewer/diag.ts,     *)
(* checkTrigger of viewer/App.tsx, start of viewer/twitch.ts,                 *)
(* diag/{store,session,verdict}.ts and http/routes/diag.ts of the server.     *)
(*                                                                            *)
(* One page load, with Twitch's helper.  How late it is when a verdict is read*)
(* and whether the page's request was logged is left open.  Whether the page  *)
(* is on screen, as far as it has been told, is one fact for the viewport, the*)
(* tab and Twitch.  The raw button, authorization (another wording of ok),    *)
(* errors, texts, redaction and the retention of a week are left out.         *)
EXTENDS Integers, Sequences, FiniteSets

CONSTANTS
  Budget,     \* MAX_SESSION_EVENTS
  MaxNet,     \* batches on their way at the same time
  MaxLosses,  \* batches that are lost or sent twice
  MaxMoves,   \* times the page or its button is shown or hidden
  None

VARIABLES
  page,       \* the page: its stage, whether the stand-in reports for it, whether
              \* it is on screen, its button, the last measurement reported,
              \* whether one was made on screen
  facts,      \* the measurements that were reported (history)
  throttle,   \* of a throttled event: one went out within THROTTLE_MS, the one that waits
  queue,
  accepted,
  net,        \* batches, and the state of the session one was read with
  row,        \* the state of the session's newest row
  summary,    \* summarizeSession of its rows
  moves, losses

vars == <<page, facts, throttle, queue, accepted, net, row, summary, moves, losses>>
report == <<throttle, queue, accepted>>
server == <<row, summary>>

Throttled == {"visibility", "trigger_check"}
Quiet == [hot |-> FALSE, waits |-> None]
NoState == [screen |-> None, onScreen |-> None, visible |-> None]
NoSummary == [state |-> NoState, seen |-> {}]
Button == {"absent", "hidden", "shown"}
Screens == {"on", "off"}

Init ==
  /\ page = [stage |-> "none", local |-> FALSE, screen |-> "off", button |-> "absent",
             told |-> None, seen |-> FALSE]
  /\ facts = {}
  /\ throttle = [e \in Throttled |-> Quiet] /\ queue = <<>> /\ accepted = 0
  /\ net = {} /\ row = NoState /\ summary = NoSummary
  /\ moves = 0 /\ losses = 0

-----------------------------------------------------------------------------
(* boot.send: every event carries a snapshot of the page as it is then.     *)

Fact(p) == [button |-> p.button, screen |-> p.screen]
Event(name, p, trigger) == [name |-> name, screen |-> p.screen, trigger |-> trigger]

(* What the budget of the session still takes.                              *)
Taken(events) == IF accepted + Len(events) <= Budget THEN events ELSE SubSeq(events, 1, Budget - accepted)

Enqueue(events) ==
  /\ queue' = queue \o Taken(events)
  /\ accepted' = accepted + Len(Taken(events))

(* The first goes out at once; of those that come within THROTTLE_MS the    *)
(* newest waits for its end.                                                *)
SendThrottled(e, event) ==
  IF throttle[e].hot
  THEN throttle' = [throttle EXCEPT ![e].waits = IF accepted < Budget THEN event ELSE @]
       /\ UNCHANGED <<queue, accepted>>
  ELSE Enqueue(<<event>>) /\ throttle' = [throttle EXCEPT ![e].hot = TRUE]

ReleasePending(e) ==
  /\ throttle[e].hot
  /\ IF throttle[e].waits = None
     THEN throttle' = [throttle EXCEPT ![e] = Quiet] /\ UNCHANGED <<queue, accepted>>
     ELSE Enqueue(<<throttle[e].waits>>) /\ throttle' = [throttle EXCEPT ![e].waits = None]
  /\ UNCHANGED <<page, facts, net, server, moves, losses>>

-----------------------------------------------------------------------------
(* The page.                                                                *)

(* Twitch asks for the page, and the boot script runs or not.               *)
LoadPage ==
  /\ page.stage = "none"
  /\ \E screen \in Screens, runs \in BOOLEAN :
       /\ page' = [page EXCEPT !.stage = IF runs THEN "boot" ELSE "dead", !.screen = screen]
       /\ IF runs THEN Enqueue(<<Event("html_loaded", page', None)>>) /\ UNCHANGED throttle
          ELSE UNCHANGED report
  /\ UNCHANGED <<facts, net, server, moves, losses>>

Alive == page.stage \in {"boot", "app", "late"}

(* The bundle runs; React may fail to render the button.                    *)
RunBundle(p) ==
  LET loaded == Event("app_bundle_loaded", p, None)
  IN IF p.button = "absent"
     THEN page' = p /\ Enqueue(<<loaded>>) /\ UNCHANGED facts
     ELSE /\ page' = [p EXCEPT !.told = p.button, !.seen = p.screen = "on"]
          /\ Enqueue(<<loaded, Event("trigger_rendered", p, p.button)>>)
          /\ facts' = facts \cup {Fact(p)}

AppLoads ==
  /\ page.stage \in {"boot", "late"}
  /\ \E button \in Button : RunBundle([page EXCEPT !.stage = "app", !.button = button])
  /\ UNCHANGED <<throttle, net, server, moves, losses>>

(* createLocalBoot: where the boot script did not run the bundle brings a   *)
(* stand-in, with a queue, a budget and throttles that work as its do.      *)
AppLoadsAlone ==
  /\ page.stage = "dead"
  /\ \E screen \in Screens, button \in Button :
       RunBundle([page EXCEPT !.stage = "app", !.local = TRUE, !.screen = screen, !.button = button])
  /\ UNCHANGED <<throttle, net, server, moves, losses>>

(* checkApp, 10 s after the page was parsed.                                *)
AppMissing ==
  /\ page.stage = "boot"
  /\ page' = [page EXCEPT !.stage = "late"]
  /\ Enqueue(<<Event("app_bundle_missing", page, None)>>)
  /\ UNCHANGED <<facts, throttle, net, server, moves, losses>>

Move == moves < MaxMoves /\ moves' = moves + 1

(* Twitch, the tab or the layout shows and hides the page.                  *)
Turned(screen) == IF screen = "on" THEN "off" ELSE "on"
SetScreen ==
  /\ Alive /\ Move
  /\ page' = [page EXCEPT !.screen = Turned(@)]
  /\ SendThrottled("visibility", Event("visibility", page', None))
  /\ UNCHANGED <<facts, net, server, losses>>

(* The stand-in hears of it only when Twitch says so, to the bundle's own   *)
(* listener: it has no hooks on the tab and the layout.                     *)
SetScreenUnheard ==
  /\ page.local /\ Alive /\ Move
  /\ page' = [page EXCEPT !.screen = Turned(@)]
  /\ UNCHANGED <<facts, report, net, server, losses>>

(* The layout shows and hides the button.                                   *)
SetButton ==
  /\ page.stage = "app" /\ page.button # "absent" /\ Move
  /\ page' = [page EXCEPT !.button = IF @ = "shown" THEN "hidden" ELSE "shown"]
  /\ UNCHANGED <<facts, report, net, server, losses>>

(* The button is measured again, and reported when it has changed and the   *)
(* first time that the page is on screen.                                   *)
TriggerMoved == page.told # page.button
FirstOnScreen == page.screen = "on" /\ ~page.seen
CheckTrigger ==
  /\ page.stage = "app" /\ page.button # "absent"
  /\ FirstOnScreen \/ TriggerMoved
  /\ page' = [page EXCEPT !.seen = @ \/ page.screen = "on", !.told = page.button]
  /\ SendThrottled("trigger_check", Event("trigger_check", page, page.button))
  /\ facts' = facts \cup {Fact(page)}
  /\ UNCHANGED <<net, server, moves, losses>>

Batch(events) == [events |-> events, copies |-> 1, prev |-> None]

Flush ==
  /\ queue # <<>> /\ Cardinality(net) < MaxNet
  /\ net' = net \cup {Batch(queue)} /\ queue' = <<>>
  /\ UNCHANGED <<page, facts, throttle, accepted, server, moves, losses>>

(* The page goes: what waits goes out with the rest, as a beacon.           *)
Waiting(e) == IF throttle[e].waits = None THEN <<>> ELSE <<throttle[e].waits>>
PageHide == \E first \in Throttled :
  LET waits == Waiting(first) \o Waiting(CHOOSE e \in Throttled : e # first)
      last == Taken(<<Event("page_hide", page, None)>> \o waits)
  IN
  /\ Alive /\ Cardinality(net) < MaxNet
  /\ page' = [page EXCEPT !.stage = "gone"]
  /\ net' = IF queue \o last = <<>> THEN net ELSE net \cup {Batch(queue \o last)}
  /\ accepted' = accepted + Len(last)
  /\ queue' = <<>> /\ throttle' = [e \in Throttled |-> Quiet]
  /\ UNCHANGED <<facts, server, moves, losses>>

-----------------------------------------------------------------------------
(* The way to the server: batches are requests of their own, so they come   *)
(* in any order; nobody reads the answers, and a request of the boot script *)
(* that failed is made once more, also when the first did arrive.           *)

Trouble == losses < MaxLosses /\ losses' = losses + 1

Lose(b) ==
  /\ Trouble /\ net' = net \ {b}
  /\ UNCHANGED <<page, facts, report, server, moves>>

Retry(b) ==
  /\ b.prev = None /\ b.copies = 1 /\ ~page.local /\ Trouble
  /\ net' = (net \ {b}) \cup {[b EXCEPT !.copies = 2]}
  /\ UNCHANGED <<page, facts, report, server, moves>>

-----------------------------------------------------------------------------
(* The server.                                                              *)

(* Mutant: the measurement is judged by the state before it.                *)
MeasuredBefore(prev, next) == prev.screen # "off"
(* onScreen: unknown counts as on screen.                                   *)
OnScreen(prev, next) == next.screen # "off"

(* foldState: the snapshot over the state, then what the event says.        *)
Newer(field, before) == IF field = None THEN before ELSE field
Fold(prev, snap, event) ==
  LET next == [screen |-> Newer(snap.screen, prev.screen), onScreen |-> Newer(snap.onScreen, prev.onScreen),
               visible |-> prev.visible]
  IN IF event.trigger = None THEN next
     ELSE [next EXCEPT !.visible = event.trigger,
                       !.onScreen = IF OnScreen(prev, next) THEN event.trigger ELSE @]

(* A page's snapshot says nothing of the measurements.                      *)
FoldEvent(prev, event) == Fold(prev, [NoState EXCEPT !.screen = event.screen], event)

(* summarizeSession folds the rows once more, each with its stored state.   *)
AddRow(s, state, event) ==
  [state |-> Fold(s.state, state, event), seen |-> s.seen \cup {event.name}]

Store(done, event) ==
  LET state == FoldEvent(done.row, event)
  IN [row |-> state, summary |-> AddRow(done.summary, state, event)]

(* insertDiagBatch reads the state of the session's newest row,             *)
ReadState(b) ==
  /\ b.prev = None
  /\ net' = (net \ {b}) \cup {[b EXCEPT !.prev = row, !.copies = 1]}
             \cup IF b.copies = 2 THEN {[b EXCEPT !.copies = 1]} ELSE {}
  /\ UNCHANGED <<page, facts, report, server, moves, losses>>

(* and stores the batch's rows, when others may have been stored meanwhile. *)
InsertBatch(b) ==
  LET done[k \in 0..Len(b.events)] ==
        IF k = 0 THEN [row |-> b.prev, summary |-> summary] ELSE Store(done[k - 1], b.events[k])
  IN
  /\ b.prev # None
  /\ row' = done[Len(b.events)].row /\ summary' = done[Len(b.events)].summary
  /\ net' = net \ {b}
  /\ UNCHANGED <<page, facts, report, moves, losses>>

(* computeVerdict; first match wins.  logged: the request of the page is in *)
(* the log; fresh: within LOADING_MS of the first report; silent: later than*)
(* SILENT_AFTER_MS after the request.                                       *)
Verdict(logged, fresh, silent) ==
  LET state == summary.state
      told(name) == name \in summary.seen
  IN IF summary = NoSummary THEN (IF ~logged THEN "no_data" ELSE IF silent THEN "request_only" ELSE "pending")
     ELSE IF fresh /\ state.visible = None /\ ~told("app_bundle_missing") THEN "pending"
     ELSE IF told("html_loaded") /\ (told("app_bundle_missing") \/ (~told("app_bundle_loaded") /\ ~fresh))
     THEN "bundle_missing"
     ELSE IF told("app_bundle_loaded") /\ state.visible = None /\ ~fresh THEN "trigger_missing"
     ELSE IF state.onScreen = "shown" THEN "ok"
     ELSE IF state.onScreen = "hidden" THEN "trigger_hidden"
     ELSE IF state.screen = "off" THEN "iframe_hidden"
     ELSE IF state.visible = "hidden" THEN "trigger_hidden"
     ELSE IF state.visible = "shown" THEN "ok"
     ELSE "pending"

Next ==
  \/ LoadPage \/ AppLoads \/ AppLoadsAlone \/ AppMissing
  \/ SetScreen \/ SetScreenUnheard \/ SetButton \/ CheckTrigger
  \/ \E e \in Throttled : ReleasePending(e)
  \/ Flush \/ PageHide
  \/ \E b \in net : Lose(b) \/ Retry(b) \/ ReadState(b) \/ InsertBatch(b)

Spec == Init /\ [][Next]_vars

-----------------------------------------------------------------------------
Pages == [stage : {"none", "dead", "boot", "app", "late", "gone"}, local : BOOLEAN, screen : Screens,
          button : Button, told : {"hidden", "shown", None}, seen : BOOLEAN]
TypeOK ==
  page \in Pages /\ accepted \in 0..Budget /\ Len(queue) <= Budget /\ Cardinality(net) <= 2 * MaxNet

(* An event with a measurement is one of those that were made, and a state  *)
(* holds the last that was made on screen, or one off screen where none on  *)
(* screen has been stored.                                                  *)
Names == {"html_loaded", "app_bundle_loaded", "trigger_rendered", "app_bundle_missing", "visibility",
          "trigger_check", "page_hide"}
Events == [name : Names, screen : Screens, trigger : {"hidden", "shown", None}]
Reported == {e \in Events : e.trigger # None => [button |-> e.trigger, screen |-> e.screen] \in facts}
States == [screen : Screens \cup {None}, onScreen : {"hidden", "shown", None},
           visible : {"hidden", "shown", None}]
Grounded ==
  {s \in States :
    /\ s.onScreen # None => [button |-> s.onScreen, screen |-> "on"] \in facts
    /\ s.onScreen = None /\ s.visible # None => [button |-> s.visible, screen |-> "off"] \in facts}

EventsAreReported ==
  /\ page \in Pages /\ accepted \in 0..Budget
  /\ queue \in Seq(Reported)
  /\ throttle \in [Throttled -> [hot : BOOLEAN, waits : Reported \cup {None}]]
StatesAreGrounded ==
  /\ row \in Grounded /\ summary \in [state : Grounded, seen : SUBSET Names]
  /\ net \subseteq [events : Seq(Reported), copies : {1, 2}, prev : Grounded \cup {None}]

(* What the admin reads of the button was so: it is called visible, or      *)
(* hidden, only if it was measured so while the page was on screen, and by a*)
(* measurement off screen only if none on screen has arrived.  No order in  *)
(* which batches arrive, are stored beside each other, are repeated or lost *)
(* puts a measurement next to another moment's screen.                      *)
VerdictWasSo ==
  LET measured(button) ==
        \E f \in facts : f.button = button /\ (f.screen = "on" <=> summary.state.onScreen # None)
  IN \A logged, fresh, silent \in BOOLEAN :
       /\ Verdict(logged, fresh, silent) = "ok" => measured("shown")
       /\ Verdict(logged, fresh, silent) = "trigger_hidden" => measured("hidden")
=============================================================================
