---------------------------- MODULE SettingsForm ----------------------------
(* The form of the channel's settings in the admin's page, beside the poll    *)
(* and the socket that bring the settings as others save them; and the price  *)
(* of a waypoint, which the form previews.                                    *)
(* Sources: src/web/src/admin/SettingsPanel.tsx, admin/App.tsx (the poll and  *)
(* settings:update), PUT settings of src/server/src/http/routes/admin.ts,     *)
(* saveSettings and normalise of domain/settings.ts, domain/pricing.ts.       *)
(*                                                                            *)
(* Two fields stand for all of them, and Half is a text that is no value.     *)
(* Zones, units, messages and the 401 are left out; the cache and the terms   *)
(* of the exchange are ExchangeTerms.  Settings are whole numbers, as         *)
(* settingsPatchSchema has them, and a distance is whole metres.              *)
EXTENDS Integers, FiniteSets

CONSTANTS
  None, Asked, Lost,
  Half,
  Values,         \* SUBSET Nat
  Loads,          \* readings of the settings that may be under way at once
  MaxTyped,       \* bound: changes of a field by hand
  MaxOthers,      \* bound: saves by somebody else
  MaxTrouble      \* bound: requests that fail

VARIABLES
  stored,         \* the settings at the server
  others,
  external,       \* the page's copy: the poll's, the socket's or the last save's
  poll,           \* of the whole state: None, Asked or what it read
  wire,           \* settings:update, on their way
  server, draft,  \* the form's copy, and what stands in its fields
  stale,
  loading, loads,
  put,            \* the save: where it is, its patch and what the server made of it
  typed,          \* history: the fields changed by hand since the copy was taken
  edits, trouble

vars == <<stored, others, external, poll, wire, server, draft, stale, loading, loads, put, typed,
          edits, trouble>>

-----------------------------------------------------------------------------
(* calculatePrice, the page's previewCost, and what the settings are brought*)
(* to before they are stored.                                               *)
TwitchMinCost == 1
TwitchMaxCost == 1000000

Configs == [baseCost : Nat, pointsPer100Meters : Nat, roundTo : Nat \ {0},
            minimumCost : TwitchMinCost..TwitchMaxCost, maximumCost : TwitchMinCost..TwitchMaxCost]

Greater(a, b) == IF a >= b THEN a ELSE b
Lesser(a, b) == IF a <= b THEN a ELSE b
CeilDiv(a, b) == (a + b - 1) \div b

RoundUpTo(value, step) == IF step <= 1 THEN value ELSE CeilDiv(value, step) * step
RawCost(distance, c) == c.baseCost + CeilDiv(distance, 100) * c.pointsPer100Meters

CalculatePrice(distance, c) ==
  LET minimum == Greater(TwitchMinCost, c.minimumCost)
      maximum == Lesser(TwitchMaxCost, Greater(minimum, c.maximumCost))
      rounded == RoundUpTo(RawCost(distance, c), Greater(1, c.roundTo))
  IN IF rounded < minimum THEN minimum ELSE IF rounded > maximum THEN maximum ELSE rounded

PreviewCost(distance, c) ==
  LET raw == RawCost(distance, c)
      rounded == IF c.roundTo > 0 THEN CeilDiv(raw, c.roundTo) * c.roundTo ELSE raw
  IN Lesser(Greater(rounded, c.minimumCost), c.maximumCost)

Normalise(c) == [c EXCEPT !.maximumCost = Greater(@, c.minimumCost)]

-----------------------------------------------------------------------------
Fields == {"minimumCost", "maximumCost"}
Settings == [Fields -> Values]
Drafts == [Fields -> Values \cup {Half}]
Defaults == [f \in Fields |-> CHOOSE v \in Values : \A w \in Values : v <= w]

Init ==
  /\ stored = Defaults /\ others = 0
  /\ external = None /\ poll = None /\ wire = {}
  /\ server = None /\ draft = None /\ stale = FALSE
  /\ loading = TRUE /\ loads \in {[l \in Loads |-> IF l = m THEN Asked ELSE None] : m \in Loads}
  /\ put = None
  /\ typed = {} /\ edits = 0 /\ trouble = 0

Trouble == trouble < MaxTrouble /\ trouble' = trouble + 1
Saving == put # None
page == <<external, poll, server, draft, stale, loading, loads, put, typed, edits>>

DirtyToPage == IF server = None \/ external = None THEN {}
               ELSE {f \in Fields : draft[f] # Half /\ draft[f] # external[f]}
Dirty == IF server = None THEN {} ELSE {f \in Fields : draft[f] # Half /\ draft[f] # server[f]}

-----------------------------------------------------------------------------
(* adopt, and the effect on the page's copy: only a clean form follows it.  *)
Adopt(s) == server' = s /\ draft' = s /\ stale' = FALSE /\ typed' = {}

OfferExternal(s) ==
  /\ external' = s
  /\ IF s = server THEN UNCHANGED <<server, draft, stale, typed>>
     ELSE IF Dirty # {} THEN stale' = TRUE /\ UNCHANGED <<server, draft, typed>>
     ELSE Adopt(s)

Load(l) ==
  /\ loads[l] = None
  /\ stale \/ (~loading /\ (server = None \/ ~Saving))
  /\ loading' = TRUE /\ loads' = [loads EXCEPT ![l] = Asked]
  /\ UNCHANGED <<stored, others, external, poll, wire, server, draft, stale, put, typed, edits, trouble>>

ReadLoad(l) ==
  /\ loads[l] = Asked
  /\ \/ loads' = [loads EXCEPT ![l] = stored] /\ UNCHANGED trouble
     \/ loads' = [loads EXCEPT ![l] = Lost] /\ Trouble
  /\ UNCHANGED <<stored, others, external, poll, wire, server, draft, stale, loading, put, typed, edits>>

(* Also over fields that were changed meanwhile.                            *)
TakeLoad(l) ==
  /\ loads[l] \notin {None, Asked}
  /\ IF loads[l] = Lost THEN UNCHANGED <<server, draft, stale, typed>> ELSE Adopt(loads[l])
  /\ loading' = FALSE /\ loads' = [loads EXCEPT ![l] = None]
  /\ UNCHANGED <<stored, others, external, poll, wire, put, edits, trouble>>

(* The inputs are disabled while the form saves.                            *)
SetField(f, v) ==
  /\ draft # None /\ ~Saving /\ draft[f] # v
  /\ edits < MaxTyped /\ edits' = edits + 1
  /\ draft' = [draft EXCEPT ![f] = v] /\ typed' = typed \cup {f}
  /\ UNCHANGED <<stored, others, external, poll, wire, server, stale, loading, loads, put, trouble>>

Revert ==
  /\ ~Saving /\ Dirty # {}
  /\ Adopt(server)
  /\ UNCHANGED <<stored, others, external, poll, wire, loading, loads, put, edits, trouble>>

Save ==
  /\ ~Saving /\ Dirty # {} /\ \A f \in Fields : draft[f] # Half
  /\ put' = [at |-> "sent", patch |-> [f \in Dirty |-> draft[f]], merged |-> None]
  /\ UNCHANGED <<stored, others, external, poll, wire, server, draft, stale, loading, loads, typed,
                 edits, trouble>>

(* onSaved gives the page the same copy, and has it poll.                   *)
TakeSaved ==
  /\ Saving /\ put.at \in {"answered", "failed"}
  /\ put' = None
  /\ IF put.at = "failed" THEN UNCHANGED <<server, draft, stale, typed, external, poll>>
     ELSE /\ Adopt(put.merged) /\ external' = put.merged
          /\ poll' = IF poll = None THEN Asked ELSE poll
  /\ UNCHANGED <<stored, others, wire, loading, loads, edits, trouble>>

-----------------------------------------------------------------------------
(* saveSettings: merged with what is stored, then written whole, then told. *)
MergePatch ==
  /\ Saving /\ put.at = "sent"
  /\ LET merged == Normalise([f \in Fields |-> IF f \in DOMAIN put.patch THEN put.patch[f] ELSE stored[f]])
     IN put' = [put EXCEPT !.at = "merged", !.merged = merged]
  /\ UNCHANGED <<stored, others, external, poll, wire, server, draft, stale, loading, loads, typed,
                 edits, trouble>>

StoreSettings ==
  /\ Saving /\ put.at = "merged"
  /\ stored' = put.merged /\ wire' = wire \cup {put.merged}
  /\ put' = [put EXCEPT !.at = "answered"]
  /\ UNCHANGED <<others, external, poll, server, draft, stale, loading, loads, typed, edits, trouble>>

(* The server fails, or its answer is lost.                                 *)
SaveFails ==
  /\ Saving /\ put.at \in {"sent", "answered"} /\ Trouble
  /\ put' = [put EXCEPT !.at = "failed"]
  /\ UNCHANGED <<stored, others, external, poll, wire, server, draft, stale, loading, loads, typed, edits>>

OtherSaves(f, v) ==
  /\ others < MaxOthers /\ others' = others + 1
  /\ stored' = Normalise([stored EXCEPT ![f] = v]) /\ wire' = wire \cup {stored'}
  /\ UNCHANGED <<page, trouble>>

-----------------------------------------------------------------------------
Poll ==
  /\ poll = None /\ poll' = Asked
  /\ UNCHANGED <<stored, others, external, wire, server, draft, stale, loading, loads, put, typed,
                 edits, trouble>>
ReadPoll ==
  /\ poll = Asked /\ poll' = stored
  /\ UNCHANGED <<stored, others, external, wire, server, draft, stale, loading, loads, put, typed,
                 edits, trouble>>
TakePoll ==
  /\ poll \notin {None, Asked} /\ poll' = None
  /\ OfferExternal(poll)
  /\ UNCHANGED <<stored, others, wire, loading, loads, put, edits, trouble>>
OnSettingsUpdate(s) ==
  /\ s \in wire /\ wire' = wire \ {s}
  /\ OfferExternal(s)
  /\ UNCHANGED <<stored, others, poll, loading, loads, put, edits, trouble>>

Next ==
  \/ \E l \in Loads : Load(l) \/ ReadLoad(l) \/ TakeLoad(l)
  \/ \E f \in Fields : \/ \E v \in Values \cup {Half} : SetField(f, v)
                       \/ \E v \in Values : OtherSaves(f, v)
  \/ Revert \/ Save \/ MergePatch \/ StoreSettings \/ SaveFails \/ TakeSaved
  \/ Poll \/ ReadPoll \/ TakePoll
  \/ \E s \in Settings : OnSettingsUpdate(s)

Spec == Init /\ [][Next]_vars

-----------------------------------------------------------------------------
TypeOK ==
  /\ stored \in Settings /\ external \in Settings \cup {None} /\ wire \subseteq Settings
  /\ server \in Settings \cup {None} /\ draft \in Drafts \cup {None} /\ typed \subseteq Fields
  /\ poll \in Settings \cup {None, Asked} /\ loads \in [Loads -> Settings \cup {None, Asked, Lost}]
  /\ stale \in BOOLEAN /\ loading \in BOOLEAN

(* A save sends no field that the admin has not changed by hand in the copy *)
(* it is measured against: what somebody else saved meanwhile is not put    *)
(* back to what this form still shows.                                      *)
SavesOnlyWhatWasTyped == put = None /\ put' # None => DOMAIN put'.patch \subseteq typed

(* The preview shows the prices the server will take with these settings,   *)
(* if it takes the settings (settingsPatchSchema) and the page does not warn*)
(* that the minimum is above the maximum.                                   *)
AsConfig(s) == [baseCost |-> 1, pointsPer100Meters |-> 2, roundTo |-> 2,
                minimumCost |-> s["minimumCost"], maximumCost |-> s["maximumCost"]]
Distances == {0, 1, 100, 101, 250}
PreviewIsThePrice ==
  draft # None /\ (\A f \in Fields : draft[f] \in TwitchMinCost..TwitchMaxCost) =>
    draft["minimumCost"] > draft["maximumCost"] \/
    \A d \in Distances : PreviewCost(d, AsConfig(draft)) = CalculatePrice(d, Normalise(AsConfig(draft)))

(* Why: a field that differs from the form's copy was changed by hand.      *)
Stored == [Fields -> Int]
Puts == [at : {"sent", "merged", "answered", "failed"}, patch : UNION {[F -> Int] : F \in SUBSET Fields},
         merged : Stored \cup {None}]
FormIsTyped ==
  /\ stored \in Stored /\ external \in Stored \cup {None} /\ wire \subseteq Stored
  /\ server \in Stored \cup {None} /\ draft \in [Fields -> Int \cup {Half}] \cup {None}
  /\ poll \in Stored \cup {None, Asked} /\ loads \in [Loads -> Stored \cup {None, Asked, Lost}]
  /\ put = None \/ (put \in Puts /\ (put.at \in {"merged", "answered"} => put.merged \in Stored))
DirtyIsTyped == /\ server = None <=> draft = None
                /\ Dirty \subseteq typed
=============================================================================
