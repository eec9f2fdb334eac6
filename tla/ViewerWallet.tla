---------------------------- MODULE ViewerWallet ----------------------------
(* The balance and the credit notices of the viewer's extension, when the     *)
(* person behind the page changes.                                            *)
(* Sources: loadWallet, the identity effect, announceCredit and the wallet    *)
(* events of src/web/src/viewer/App.tsx, Wallet.tsx, identity.ts, the         *)
(* authorization of viewer/twitch.ts, the viewers' rooms of                   *)
(* src/server/src/realtime/io.ts and bus.ts, GET wallet of http/routes/ext.ts. *)
(*                                                                            *)
(* A ledger row is its viewer and its number, and a balance is the number of  *)
(* rows it was read at.  The rows are credits and refunds, paid in GTA$; what *)
(* a credit costs at Twitch is left out of the top-up dialog.                 *)
EXTENDS Integers, FiniteSets

CONSTANTS
  Viewers,
  MaxRows,    \* rows of a viewer
  MaxReads,   \* GET wallet requests on their way at the same time
  MaxTokens,  \* tokens of another viewer than the last
  None, Failed, Stranger

VARIABLES
  rows,       \* of each viewer, in the database
  identity,   \* whose token the page has: a viewer, or None who is not linked
  tokens,
  reads,      \* requests on their way; newest is whether walletSeqRef is still its number
  wallet, toast,
  load,       \* walletLoad, and whose it is
  topUp,      \* the dialog: closed, or open with a credit or None
  announced,  \* announcedRef
  room,       \* whose room the socket is in: None when it is down
  signals     \* wallet:updated on their way to that room

vars == <<rows, identity, tokens, reads, wallet, toast, load, topUp, announced, room, signals>>

NoWallet == [viewer |-> None, rows |-> 0]
Person == Viewers \cup {None}
page == <<wallet, toast, load, topUp, announced>>

Load(v, is) == [viewer |-> v, is |-> is]
(* What the page knows of a viewer before the first answer.                 *)
FirstLoad(v) == IF v = None THEN {Load(None, "idle"), Load(None, "needs")} ELSE {Load(v, "loading")}
Loading == IF identity = None \/ load.is = "ready" THEN load ELSE Load(identity, "loading")
Closed == [open |-> FALSE, credit |-> None]
Dialog(credit) == [open |-> TRUE, credit |-> credit]

Init ==
  /\ rows = [v \in Viewers |-> 0]
  /\ identity \in Person /\ tokens = 0
  /\ reads = {}
  /\ load \in FirstLoad(identity)
  /\ wallet = NoWallet /\ toast = None /\ topUp = Closed /\ announced = {}
  /\ room = None /\ signals = {}

-----------------------------------------------------------------------------
(* loadWallet: one more read, which makes those before it too old to show.  *)
(* A read because of an event is for its row; the others are for none.      *)
Read(viewer, row) == [viewer |-> viewer, rows |-> None, row |-> row, newest |-> TRUE]
Older == {[r EXCEPT !.newest = FALSE] : r \in reads}

LoadWallet(row) ==
  /\ Cardinality(reads) < MaxReads
  /\ reads' = Older \cup IF identity = None THEN {} ELSE {Read(identity, row)}
  /\ load' = Loading
  /\ UNCHANGED <<wallet, toast, topUp, announced>>

(* Twitch authorizes somebody, or nobody who is linked, and React renders   *)
(* it before anything else comes in: what was the former one's is forgotten *)
(* and the socket is made anew.                                             *)
OnAuthorized(v) ==
  /\ v # identity /\ tokens < MaxTokens /\ Cardinality(reads) < MaxReads
  /\ identity' = v /\ tokens' = tokens + 1
  /\ reads' = Older \cup IF v = None THEN {} ELSE {Read(v, None)}
  /\ wallet' = NoWallet /\ toast' = None /\ load' \in FirstLoad(v)
  /\ topUp' = IF topUp.open THEN Dialog(None) ELSE Closed
  /\ room' = None /\ signals' = {}
  /\ UNCHANGED <<rows, announced>>

(* The overlay opens, a purchase was answered.                              *)
Resync ==
  /\ identity # None /\ LoadWallet(None)
  /\ UNCHANGED <<rows, identity, tokens, room, signals>>

(* GET wallet, for the viewer of the token it carries; the server may take  *)
(* that one for somebody who is not linked.                                 *)
ReadWallet(r) ==
  /\ r.rows = None
  /\ \E n \in {rows[r.viewer], Failed, Stranger} : reads' = (reads \ {r}) \cup {[r EXCEPT !.rows = n]}
  /\ UNCHANGED <<rows, identity, tokens, page, room, signals>>

(* Mutant: whatever comes is shown.                                         *)
AnyIsShown(r) == TRUE
NewestIsShown(r) == r.newest

(* The notice is for a row that was not announced yet, on the page of the   *)
(* one who was there when its event came.                                   *)
Notice(r) == r.row # None /\ identity = r.viewer /\ r.row \notin announced

(* Of an exchange the dialog tells, too; a refund is only a toast.          *)
AnnounceCredit(row) ==
  /\ announced' = announced \cup {row} /\ toast' = row
  /\ topUp' \in {topUp, IF topUp.open THEN Dialog(row) ELSE Closed}

(* A failure keeps the balance there is, unless there is no such viewer.    *)
Take(r) ==
  CASE r.rows = Stranger -> wallet' = NoWallet /\ load' = Load(r.viewer, "needs")
    [] r.rows = Failed ->
         /\ load' = IF load.is = "ready" THEN load ELSE Load(r.viewer, "error")
         /\ UNCHANGED wallet
    [] OTHER -> wallet' = [viewer |-> r.viewer, rows |-> r.rows] /\ load' = Load(r.viewer, "ready")

TakeWallet(r) ==
  /\ r.rows # None /\ reads' = reads \ {r}
  /\ IF NewestIsShown(r) THEN Take(r) ELSE UNCHANGED <<wallet, load>>
  /\ IF Notice(r) THEN AnnounceCredit(r.row) ELSE UNCHANGED <<toast, topUp, announced>>
  /\ UNCHANGED <<rows, identity, tokens, room, signals>>

ToastExpires ==
  /\ toast # None /\ toast' = None
  /\ UNCHANGED <<rows, identity, tokens, reads, wallet, load, topUp, announced, room, signals>>

-----------------------------------------------------------------------------
(* What is on the screen.                                                   *)

BalanceText ==
  IF wallet # NoWallet THEN wallet
  ELSE [viewer |-> load.viewer, rows |-> IF load.is = "error" THEN Failed ELSE None]

WalletChip == IF load.is = "needs" THEN [viewer |-> load.viewer, rows |-> Stranger] ELSE BalanceText
TopUpDialog == IF topUp.open THEN {BalanceText, topUp.credit} \ {None} ELSE {}
WalletToast == {toast} \ {None}

OpenTopUp ==
  /\ load.is # "needs" /\ ~topUp.open /\ topUp' = Dialog(None)
  /\ UNCHANGED <<rows, identity, tokens, reads, wallet, toast, load, announced, room, signals>>

(* Its button, a click beside it, Escape, the map is closed.                *)
CloseTopUp ==
  /\ topUp.open /\ topUp' = Closed
  /\ UNCHANGED <<rows, identity, tokens, reads, wallet, toast, load, announced, room, signals>>

-----------------------------------------------------------------------------
(* The socket.                                                              *)

(* The token of the moment says whose room it is; a later connection of the *)
(* same socket reads the wallet again.                                      *)
Connect(again) ==
  /\ room = None /\ identity # None /\ room' = identity
  /\ IF again THEN LoadWallet(None) ELSE UNCHANGED <<reads, page>>
  /\ UNCHANGED <<rows, identity, tokens, signals>>

Disconnect ==
  /\ room # None /\ room' = None /\ signals' = {}
  /\ UNCHANGED <<rows, identity, tokens, reads, page>>

(* A row is committed and its viewer's room is told, twice when the emit is *)
(* repeated.                                                                *)
Credit(v) ==
  /\ rows[v] < MaxRows /\ rows' = [rows EXCEPT ![v] = @ + 1]
  /\ signals' = IF room = v THEN signals \cup {[viewer |-> v, row |-> rows[v] + 1]} ELSE signals
  /\ UNCHANGED <<identity, tokens, reads, page, room>>

OnWalletUpdated(s) ==
  /\ LoadWallet(s)
  /\ signals' = signals \ {s}
  /\ UNCHANGED <<rows, identity, tokens, room>>

Next ==
  \/ \E v \in Person : OnAuthorized(v)
  \/ Resync \/ ToastExpires \/ OpenTopUp \/ CloseTopUp \/ Disconnect
  \/ \E r \in reads : ReadWallet(r) \/ TakeWallet(r)
  \/ \E again \in BOOLEAN : Connect(again)
  \/ \E v \in Viewers : Credit(v)
  \/ \E s \in signals : OnWalletUpdated(s)

Spec == Init /\ [][Next]_vars

-----------------------------------------------------------------------------
TypeOK ==
  /\ {identity, room} \subseteq Person
  /\ wallet.viewer \in Person /\ wallet.rows \in 0..MaxRows
  /\ Cardinality(reads) <= MaxReads

(* No viewer is shown another one's balance, credits or prompt, whatever    *)
(* answers and events of the former one still come, and in whatever order;  *)
(* and what is said to be read is a balance.                                *)
ShownIsOwn ==
  /\ \A shown \in {WalletChip} \cup TopUpDialog \cup WalletToast : shown.viewer = identity
  /\ load.is = "ready" <=> wallet # NoWallet

(* Why: the socket is in the room of whoever is there, the newest read is   *)
(* that one's, an event's read is for a row of the viewer it reads, and     *)
(* what the page keeps was forgotten when it was another's.                 *)
Row == [viewer : Viewers, row : Nat]
Answer == [viewer : Viewers, rows : Nat \cup {None, Failed, Stranger}, row : Row \cup {None},
           newest : BOOLEAN]
ReadsAreOwn ==
  /\ rows \in [Viewers -> Nat] /\ identity \in Person /\ room \in {None, identity}
  /\ signals \subseteq Row /\ \A s \in signals : s.viewer = identity
  /\ reads \subseteq Answer
  /\ \A r \in reads : /\ r.newest => r.viewer = identity
                      /\ r.row # None => r.row.viewer = r.viewer
PageIsOwn ==
  /\ load \in [viewer : {identity}, is : {"idle", "needs", "loading", "ready", "error"}]
  /\ wallet \in [viewer : {identity}, rows : Nat] \cup {NoWallet}
  /\ load.is = "ready" <=> wallet # NoWallet
  /\ toast = None \/ (toast \in Row /\ toast.viewer = identity)
  /\ topUp.credit = None \/ (topUp.credit \in Row /\ topUp.credit.viewer = identity)
=============================================================================
