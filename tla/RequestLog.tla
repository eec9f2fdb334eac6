----------------------------- MODULE RequestLog -----------------------------
(* The receiving end of the request log: lines that come in chunks of bytes   *)
(* from the ingress and the dev server, and the rate at which rows are kept.  *)
(* Sources: src/server/src/diag/ingest.ts, MAX_LINE_BYTES and the reading of  *)
(* a line in diag/accessLog.ts, insertRequestLog of diag/store.ts.            *)
(*                                                                            *)
(* A line is so many units of its number, of which all must be there for it   *)
(* to be read.  Only lines about the extension's pages are followed: the rest *)
(* is dropped when it is read.  A second brings one token.                    *)
EXTENDS Integers, Sequences

CONSTANTS
  MaxLine,     \* MAX_LINE_BYTES
  MaxBuffer,   \* MAX_BUFFER_BYTES
  Burst,       \* KEEP_BURST
  MaxLines,    \* lines written
  MaxSeconds

VARIABLES
  written,   \* the length of each line that was written (history)
  wire,      \* what the connection still has to bring
  pending,   \* units since the last end of a line
  tokens,    \* of the gate, which is the listener's
  rows,      \* lines kept
  refused,   \* lines over the rate (history)
  cut,       \* lines that a connection took with it (history)
  second,    \* seconds since a moment that is being looked back to (history)
  kept       \* rows kept since then (history)

vars == <<written, wire, pending, tokens, rows, refused, cut, second, kept>>

EndOfLine == 0
Units(i, n) == [u \in 1..n |-> i]
Fits(n) == n \in 1..MaxLine
Lines(symbols) == {symbols[k] : k \in DOMAIN symbols} \ {EndOfLine}

Init ==
  /\ written = <<>> /\ wire = <<>> /\ pending = <<>>
  /\ tokens = Burst /\ rows = <<>> /\ refused = {} /\ cut = {}
  /\ second = 0 /\ kept = 0

-----------------------------------------------------------------------------
(* A writer, which may stop in the middle of a line.                        *)
Write ==
  /\ Len(written) < MaxLines /\ Len(wire) <= MaxBuffer
  /\ \E n \in 0..MaxBuffer + 1 :
       /\ written' = Append(written, n)
       /\ wire' = wire \o Units(Len(written) + 1, n) \o <<EndOfLine>>
  /\ UNCHANGED <<pending, tokens, rows, refused, cut, second, kept>>

-----------------------------------------------------------------------------
(* handleConnection.                                                        *)

(* handleLine: what is too long or cannot be read is dropped before the     *)
(* gate is asked; the row is written in the background, once.               *)
IsRead(line) ==
  /\ Fits(Len(line))
  /\ \E i \in DOMAIN written : line = Units(i, written[i])

HandleLine(at) ==
  IF ~IsRead(at.rest) THEN [at EXCEPT !.rest = <<>>]
  ELSE IF at.tokens = 0 THEN [at EXCEPT !.rest = <<>>, !.refused = @ \cup {at.rest[1]}]
  ELSE [at EXCEPT !.rest = <<>>, !.rows = Append(@, at.rest[1]), !.tokens = @ - 1, !.kept = @ + 1]

(* The chunk cut at its ends of lines, the first piece after what is        *)
(* pending.                                                                 *)
TakeUnit(at, symbol) ==
  IF symbol = EndOfLine THEN HandleLine(at) ELSE [at EXCEPT !.rest = Append(@, symbol)]
Now == [rest |-> pending, rows |-> rows, tokens |-> tokens, refused |-> refused, kept |-> kept]
After(n) ==
  LET at[k \in 0..n] == IF k = 0 THEN Now ELSE TakeUnit(at[k - 1], wire[k])
  IN at[n]
Keep(at) == rows' = at.rows /\ tokens' = at.tokens /\ refused' = at.refused /\ kept' = at.kept

(* data: a peer that streams without an end of line is cut off.             *)
OnData ==
  /\ \E k \in DOMAIN wire :
       LET at == After(k)
           left == SubSeq(wire, k + 1, Len(wire))
       IN /\ Keep(at)
          /\ IF Len(at.rest) > MaxBuffer
             THEN /\ pending' = <<>> /\ wire' = <<>>
                  /\ cut' = cut \cup Lines(at.rest \o left)
             ELSE pending' = at.rest /\ wire' = left /\ UNCHANGED cut
  /\ UNCHANGED <<written, second>>

(* end: a writer that closes without an end of line still meant its line.   *)
OnEnd ==
  /\ pending # <<>> \/ wire # <<>>
  /\ \E k \in 0..Len(wire) :
       LET at == After(k)
       IN /\ Keep(HandleLine(at))
          /\ cut' = cut \cup Lines(SubSeq(wire, k + 1, Len(wire)))
                      \cup (IF IsRead(at.rest) THEN {} ELSE Lines(at.rest))
  /\ pending' = <<>> /\ wire' = <<>>
  /\ UNCHANGED <<written, second>>

(* createGate: the bucket fills up with time, to its burst.                 *)
Second ==
  /\ second < MaxSeconds /\ second' = second + 1
  /\ tokens' = IF tokens < Burst THEN tokens + 1 ELSE Burst
  /\ UNCHANGED <<written, wire, pending, rows, refused, cut, kept>>

LookBackTo ==
  /\ second' = 0 /\ kept' = 0
  /\ UNCHANGED <<written, wire, pending, tokens, rows, refused, cut>>

Next == Write \/ OnData \/ OnEnd \/ Second \/ LookBackTo

Spec == Init /\ [][Next]_vars

-----------------------------------------------------------------------------
TypeOK ==
  /\ tokens \in 0..Burst /\ second \in 0..MaxSeconds /\ Len(pending) <= MaxBuffer
  /\ refused \cup cut \subseteq DOMAIN written

(* What is on its way are whole lines, of which pending has a beginning of  *)
(* the first, next: line i from at[i] on.  Those before it are settled.     *)
Stream == pending \o wire
Ends == Len(written) + 1
AreLaidOut(next, at) ==
  /\ at[next] = 1 /\ at[Ends] = Len(Stream) + 1
  /\ \A i, j \in next..Ends : i <= j => at[i] <= at[j]
  /\ \A i \in next..Len(written) :
       /\ at[i + 1] = at[i] + written[i] + 1 /\ Stream[at[i] + written[i]] = EndOfLine
       /\ \A k \in at[i]..at[i] + written[i] - 1 : Stream[k] = i
AreSettledTo(next, at) ==
  /\ \A k \in DOMAIN at.rows : at.rows[k] \in 1..next - 1
  /\ \A k, l \in DOMAIN at.rows : k < l => at.rows[k] < at.rows[l]
  /\ \A i \in 1..next - 1 : Fits(written[i]) => i \in Lines(at.rows) \cup at.refused \cup cut
LinesAreInOrder ==
  /\ pending \in Seq(Nat) /\ wire \in Seq(Nat) /\ written \in Seq(Nat)
  /\ rows \in Seq(Nat) /\ refused \subseteq Nat
  /\ \E next \in 1..Ends : \E at \in [next..Ends -> Nat] :
       /\ AreLaidOut(next, at) /\ AreSettledTo(next, Now)
       /\ next <= Len(written) => Len(pending) <= written[next]
RateIsKept == tokens \in 0..Burst /\ second \in Nat /\ kept \in Nat /\ kept + tokens <= Burst + second

(* Wherever the chunks are cut, each line that fits is a row once and in    *)
(* its place, unless the rate refused it or its connection ended; and since *)
(* whatever moment, no more rows are kept than the burst and the rate.      *)
LinesAreWhole ==
  /\ \A k, l \in DOMAIN rows : k < l => rows[k] < rows[l]
  /\ \A i \in DOMAIN written : Fits(written[i]) =>
       i \in Lines(rows) \cup refused \cup cut \cup Lines(pending \o wire)
  /\ kept <= Burst + second
=============================================================================
