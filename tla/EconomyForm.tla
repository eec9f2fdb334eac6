---------------------------- MODULE EconomyForm ----------------------------
(* The economy panel of the admin's page: what it shows of the economy, and   *)
(* the form that sets the exchange's terms or has its reward synchronised.    *)
(* Sources: src/web/src/admin/EconomyPanel.tsx, the economy's routes of       *)
(* src/server/src/http/routes/admin.ts.                                       *)
(*                                                                            *)
(* One setting stands for the two, and a version for what economyView gathers *)
(* besides.  What a save or a synchronisation does at the server and at       *)
(* Twitch is ExchangeTerms; here it is done or refused.                       *)
EXTENDS Integers

CONSTANTS
  None, Asked, Lost,
  Values,         \* of the setting
  MaxEdits,       \* bound: changes of the field by hand
  MaxChanges,     \* bound: changes of the economy, the panel's own included
  MaxTrouble      \* bound: requests that fail

VARIABLES
  setting, version,   \* at the server
  polled,             \* the setting as the page's own poll has it
  statePoll,
  data, failed,       \* the version on screen, and the note that it is old
  inFlight, again,    \* the panel's poll
  busy,               \* the action under way, and the version it made
  done,               \* history: the version made by the last action that ended
  saved,              \* stands in for polled until the poll catches up
  draft, adopted,     \* the field, and the text it was last reset to
  edits, trouble

vars == <<setting, version, polled, statePoll, data, failed, inFlight, again, busy, done, saved,
          draft, adopted, edits, trouble>>
server == <<setting, version>>
form == <<polled, saved, draft, adopted>>
refresh == <<data, failed, inFlight, again>>

Init ==
  /\ setting \in Values /\ version = 1
  /\ polled = setting /\ statePoll = None
  /\ data = 0 /\ failed = FALSE /\ inFlight = Asked /\ again = FALSE
  /\ busy = None /\ done = 0
  /\ saved = None /\ draft = setting /\ adopted = setting
  /\ edits = 0 /\ trouble = 0

Trouble == trouble < MaxTrouble /\ trouble' = trouble + 1
ServerCopy == IF saved # None THEN saved ELSE polled

(* The effects of a rendering: the saved value goes when the poll has       *)
(* caught up, and a field that is not edited follows the server's copy.     *)
Settle(nextSaved, nextPolled, nextDraft, nextAdopted) ==
  LET held == IF nextSaved = nextPolled THEN None ELSE nextSaved
      copy == IF held # None THEN held ELSE nextPolled
      edited == nextDraft # nextAdopted
  IN /\ saved' = held /\ polled' = nextPolled
     /\ draft' = IF edited THEN nextDraft ELSE copy
     /\ adopted' = IF edited THEN nextAdopted ELSE copy

-----------------------------------------------------------------------------
(* tick: while a poll is under way another is not begun, but one that       *)
(* follows an action is made up for.                                        *)
Swallowed(queue) == again
Again(queue) == again \/ queue

Tick(queue) ==
  IF inFlight # None THEN again' = Again(queue) /\ UNCHANGED inFlight
  ELSE inFlight' = Asked /\ UNCHANGED again

TimerTick ==
  /\ inFlight = None /\ Tick(FALSE)
  /\ UNCHANGED <<server, form, statePoll, data, failed, busy, done, edits, trouble>>

(* economyView.                                                             *)
ReadEconomy ==
  /\ inFlight = Asked
  /\ \/ inFlight' = version /\ UNCHANGED trouble
     \/ inFlight' = Lost /\ Trouble
  /\ UNCHANGED <<server, form, statePoll, data, failed, again, busy, done, edits>>

TakeEconomy ==
  /\ inFlight \notin {None, Asked}
  /\ failed' = (inFlight = Lost)
  /\ data' = IF inFlight = Lost THEN data ELSE inFlight
  /\ inFlight' = IF again THEN Asked ELSE None
  /\ again' = FALSE
  /\ UNCHANGED <<server, form, statePoll, busy, done, edits, trouble>>

-----------------------------------------------------------------------------
SetField(v) ==
  /\ edits < MaxEdits /\ edits' = edits + 1
  /\ IF busy = None THEN TRUE ELSE busy.kind # "save"
  /\ v # draft
  /\ Settle(saved, polled, v, adopted)
  /\ UNCHANGED <<server, statePoll, refresh, busy, done, trouble>>

Revert ==
  /\ busy = None /\ draft # adopted
  /\ Settle(saved, polled, ServerCopy, ServerCopy)
  /\ UNCHANGED <<server, statePoll, refresh, busy, done, edits, trouble>>

Begin(kind, value) == busy' = [kind |-> kind, at |-> "sent", value |-> value, made |-> 0]

Save ==
  /\ busy = None /\ draft # ServerCopy
  /\ Begin("save", draft)
  /\ UNCHANGED <<server, form, statePoll, refresh, done, edits, trouble>>

Sync ==
  /\ busy = None
  /\ Begin("sync", None)
  /\ UNCHANGED <<server, form, statePoll, refresh, done, edits, trouble>>

(* The server does it.                                                      *)
Commit ==
  /\ IF busy = None THEN FALSE ELSE busy.at = "sent"
  /\ version < MaxChanges /\ version' = version + 1
  /\ setting' = IF busy.kind = "save" THEN busy.value ELSE setting
  /\ busy' = [busy EXCEPT !.at = "done", !.made = version']
  /\ UNCHANGED <<form, statePoll, refresh, done, edits, trouble>>

(* It answers, and the panel is told to look again.                         *)
Answered ==
  /\ IF busy = None THEN FALSE ELSE busy.at = "done"
  /\ IF busy.kind = "save" THEN Settle(busy.value, polled, busy.value, busy.value)
     ELSE UNCHANGED form
  /\ busy' = None /\ done' = busy.made /\ Tick(TRUE)
  /\ UNCHANGED <<server, statePoll, data, failed, edits, trouble>>

(* Refused, or the answer was lost: the edit is kept.                       *)
Fails ==
  /\ busy # None /\ Trouble
  /\ busy' = None /\ done' = IF busy.made > done THEN busy.made ELSE done
  /\ Tick(TRUE)
  /\ UNCHANGED <<server, form, statePoll, data, failed, edits>>

(* SAVED_HOLD_MS are over.                                                  *)
HoldEnds ==
  /\ saved # None
  /\ Settle(None, polled, draft, adopted)
  /\ UNCHANGED <<server, statePoll, refresh, busy, done, edits, trouble>>

-----------------------------------------------------------------------------
(* The page's poll of the whole state, and settings:update.                 *)
PollState ==
  /\ statePoll = None /\ statePoll' = setting
  /\ UNCHANGED <<server, form, refresh, busy, done, edits, trouble>>
TakeState ==
  /\ statePoll # None /\ statePoll' = None
  /\ Settle(saved, statePoll, draft, adopted)
  /\ UNCHANGED <<server, refresh, busy, done, edits, trouble>>

(* Credits, purchases, another admin's save.                                *)
Elsewhere(v) ==
  /\ version < MaxChanges /\ version' = version + 1
  /\ setting' = v
  /\ UNCHANGED <<form, statePoll, refresh, busy, done, edits, trouble>>

Next ==
  \/ TimerTick \/ ReadEconomy \/ TakeEconomy
  \/ \E v \in Values : SetField(v) \/ Elsewhere(v)
  \/ Revert \/ Save \/ Sync \/ Commit \/ Answered \/ Fails \/ HoldEnds
  \/ PollState \/ TakeState

Spec == Init /\ [][Next]_vars

-----------------------------------------------------------------------------
TypeOK ==
  /\ setting \in Values /\ polled \in Values /\ version \in 1..MaxChanges
  /\ {draft, adopted} \subseteq Values /\ saved \in Values \cup {None}
  /\ data \in 0..MaxChanges /\ done \in 0..MaxChanges
  /\ {failed, again} \subseteq BOOLEAN

(* Once the panel is at rest after an action, what it shows was read after  *)
(* the action was done, or it says that it is old: a poll that had left     *)
(* before does not take the place of the one that the action asked for.     *)
RefreshIsAfterAction == inFlight = None /\ busy = None => data >= done \/ failed

(* Why: a poll that left before the action was done is followed by another. *)
Known(v) == v \in Nat /\ v <= version
PanelIsTyped ==
  /\ version \in Nat /\ data \in Nat /\ Known(done) /\ again \in BOOLEAN
  /\ inFlight \in {None, Asked, Lost} \/ Known(inFlight)
  /\ busy # None => DOMAIN busy = {"kind", "at", "value", "made"} /\ Known(busy.made)
PollFollows ==
  /\ inFlight = None => data >= done \/ failed
  /\ inFlight \in Nat => inFlight >= done \/ again
=============================================================================
