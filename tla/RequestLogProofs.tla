--------------------------- MODULE RequestLogProofs ---------------------------
(* That the rows of the request log are the lines that were written, whatever *)
(* the sizes of a line and of the buffer, the burst and the number of lines.  *)
(* A chunk is taken unit by unit: what is at hand after k units is by         *)
(* induction on k the beginning of a line, with the lines before it settled.  *)
EXTENDS RequestLog, FoldTheorems, SequenceTheorems

Sizes == MaxLine \in Nat /\ MaxBuffer \in Nat /\ Burst \in Nat
Inv == Sizes /\ LinesAreInOrder /\ RateIsKept

(* So many units of a line.                                                 *)
LEMMA UnitsAre ==
  ASSUME NEW i \in Nat, NEW n \in Nat
  PROVE  /\ Units(i, n) \in Seq(Nat) /\ Len(Units(i, n)) = n
         /\ \A k \in 1..n : Units(i, n)[k] = i
BY DEF Units

(* With one unit more it is so many and one.                                *)
LEMMA OneMore ==
  ASSUME NEW i \in Nat, NEW n \in Nat
  PROVE  Append(Units(i, n), i) = Units(i, n + 1)
BY DEF Units

(* It is read when it is the whole line, and fits.                          *)
LEMMA IsReadWhen ==
  ASSUME NEW i \in 1..Len(written), written \in Seq(Nat), NEW n \in 0..written[i]
  PROVE  IsRead(Units(i, n)) <=> n = written[i] /\ Fits(n)
<1>1. ASSUME NEW j \in 1..Len(written), Units(i, n) = Units(j, written[j]), n # 0
      PROVE  j = i /\ n = written[i]
  <2>1. PICK m \in Nat : m = written[j]
    OBVIOUS
  <2>2. i \in Nat /\ j \in Nat /\ n \in Nat
    OBVIOUS
  <2>3. Len(Units(i, n)) = n /\ \A k \in 1..n : Units(i, n)[k] = i
    BY <2>2, UnitsAre
  <2>4. Len(Units(j, m)) = m /\ \A k \in 1..m : Units(j, m)[k] = j
    BY <2>1, <2>2, UnitsAre
  <2>5. n = m /\ 1 \in 1..n
    BY <1>1, <2>1, <2>2, <2>3, <2>4
  <2>6. QED
    BY <1>1, <2>1, <2>3, <2>4, <2>5
<1>2. Len(Units(i, n)) = n
  <2>1. i \in Nat /\ n \in Nat
    OBVIOUS
  <2>2. QED
    BY <2>1, UnitsAre
<1>3. ~Fits(0)
  BY DEF Fits
<1>4. QED
  BY <1>1, <1>2, <1>3 DEF IsRead

(* Two sequences, one after the other, and what is left of one.             *)
LEMMA Joined ==
  ASSUME NEW a \in Seq(Nat), NEW b \in Seq(Nat)
  PROVE  /\ a \o b \in Seq(Nat) /\ Len(a \o b) = Len(a) + Len(b) /\ Len(a) \in Nat /\ Len(b) \in Nat
         /\ \A x \in 1..Len(a) : (a \o b)[x] = a[x]
         /\ \A x \in Len(a) + 1..Len(a) + Len(b) : (a \o b)[x] = b[x - Len(a)]
OBVIOUS

(* Three of them, either way.                                               *)
JoinsUpTo(a, b, c) == (a \o b) \o c = a \o (b \o c)
LEMMA JoinsUp ==
  ASSUME NEW a \in Seq(Nat), NEW b \in Seq(Nat), NEW c \in Seq(Nat) PROVE JoinsUpTo(a, b, c)
<1>1. (a \o b) \o c = a \o (b \o c)
  BY ConcatAssociative
<1>2. QED
  BY <1>1 DEF JoinsUpTo

(* What is left of a sequence after its first k.                            *)
LEMMA Remains ==
  ASSUME NEW a \in Seq(Nat), NEW k \in 0..Len(a)
  PROVE  /\ SubSeq(a, k + 1, Len(a)) \in Seq(Nat) /\ Len(SubSeq(a, k + 1, Len(a))) = Len(a) - k
         /\ \A x \in 1..Len(a) - k : SubSeq(a, k + 1, Len(a))[x] = a[k + x]
OBVIOUS

(* A symbol other than the end of a line names one.                         *)
LEMMA Names ==
  ASSUME NEW a \in Seq(Nat), NEW x \in 1..Len(a), a[x] # 0
  PROVE  a[x] \in Lines(a)
BY DEF Lines, EndOfLine

(* What is at hand after some units have been taken.                        *)
Hands == [rest : Seq(Nat), rows : Seq(Nat), tokens : Nat, refused : SUBSET Nat, kept : Nat]
Rate(s) == s.tokens \in 0..Burst /\ s.kept + s.tokens <= Burst + second

(* One row more is in order when it is of the next line.                    *)
LEMMA Appends ==
  ASSUME NEW list \in Seq(Nat), NEW i \in Nat \ {0}, \A k \in DOMAIN list : list[k] \in 1..i - 1,
         \A k, l \in DOMAIN list : k < l => list[k] < list[l], NEW more, more = Append(list, i)
  PROVE  /\ more \in Seq(Nat) /\ \A k \in DOMAIN more : more[k] \in 1..(i + 1) - 1
         /\ \A k, l \in DOMAIN more : k < l => more[k] < more[l]
         /\ Lines(list) \cup {i} \subseteq Lines(more)
<1>1. PICK n \in Nat : n = Len(list) /\ DOMAIN list = 1..n
  OBVIOUS
<1>2. /\ more \in Seq(Nat) /\ DOMAIN more = 1..n + 1 /\ more[n + 1] = i
      /\ \A k \in 1..n : more[k] = list[k]
  BY <1>1
<1>3. ASSUME NEW k \in 1..n + 1 PROVE more[k] \in 1..(i + 1) - 1
  <2>1. CASE k = n + 1
    BY <1>2, <2>1
  <2>2. CASE k # n + 1
    <3>1. k \in 1..n /\ list[k] \in 1..i - 1
      BY <1>1, <2>2
    <3>2. QED
      BY <1>2, <3>1
  <2>3. QED
    BY <2>1, <2>2
<1>4. ASSUME NEW k \in 1..n + 1, NEW l \in 1..n + 1, k < l PROVE more[k] < more[l]
  <2>0. k \in 1..n
    BY <1>4
  <2>1. k \in 1..n /\ list[k] \in 1..i - 1 /\ more[k] = list[k]
    BY <1>1, <1>2, <2>0
  <2>2. CASE l = n + 1
    BY <1>2, <2>1, <2>2
  <2>3. CASE l # n + 1
    <3>1. l \in 1..n /\ more[l] = list[l]
      BY <1>2, <2>3
    <3>2. QED
      BY <1>1, <1>4, <2>1, <3>1
  <2>4. QED
    BY <2>2, <2>3
<1>5. Lines(list) \cup {i} \subseteq Lines(more)
  <2>1. ASSUME NEW x \in Lines(list) PROVE x \in Lines(more)
    <3>1. PICK k \in 1..n : x = list[k] /\ x # 0
      BY <1>1, <2>1 DEF Lines, EndOfLine
    <3>2. k \in 1..n + 1 /\ more[k] = x
      BY <1>2, <3>1
    <3>3. QED
      BY <1>2, <3>1, <3>2 DEF Lines, EndOfLine
  <2>2. i \in Lines(more)
    <3>1. n + 1 \in 1..n + 1 /\ i # 0
      OBVIOUS
    <3>2. QED
      BY <1>2, <3>1 DEF Lines, EndOfLine
  <2>3. QED
    BY <2>1, <2>2
<1>6. QED
  BY <1>2, <1>3, <1>4, <1>5

(* A line that is handled is settled when it was whole.                     *)
LEMMA Handles ==
  ASSUME Sizes, NEW s \in Hands, Rate(s), second \in Nat, written \in Seq(Nat),
         NEW i \in 1..Len(written), NEW n \in 0..written[i],
         s.rest = Units(i, n), AreSettledTo(i, s)
  PROVE  /\ HandleLine(s) \in Hands /\ Rate(HandleLine(s)) /\ HandleLine(s).rest = <<>>
         /\ n # written[i] => AreSettledTo(i, HandleLine(s))
         /\ n = written[i] => AreSettledTo(i + 1, HandleLine(s))
<1>1. i \in Nat \ {0} /\ n \in Nat /\ written[i] \in Nat
  OBVIOUS
<1>2. IsRead(s.rest) <=> n = written[i] /\ Fits(n)
  BY IsReadWhen
<1>3. <<>> \in Seq(Nat)
  OBVIOUS
<1>4. PICK list \in Seq(Nat), purse \in Nat, over \in SUBSET Nat, count \in Nat :
        list = s.rows /\ purse = s.tokens /\ over = s.refused /\ count = s.kept
  BY DEF Hands
<1>5. /\ \A k \in DOMAIN list : list[k] \in 1..i - 1
      /\ \A k, l \in DOMAIN list : k < l => list[k] < list[l]
      /\ \A j \in 1..i - 1 : Fits(written[j]) => j \in Lines(list) \cup over \cup cut
  BY <1>4 DEF AreSettledTo
<1>7. CASE ~IsRead(s.rest)
  <2>1. PICK t : t = [rest |-> <<>>, rows |-> list, tokens |-> purse, refused |-> over, kept |-> count]
    OBVIOUS
  <2>2. HandleLine(s) = t
    <3>1. HandleLine(s) = [s EXCEPT !.rest = <<>>]
      BY <1>7 DEF HandleLine
    <3>2. QED
      BY <1>4, <2>1, <3>1 DEF Hands
  <2>3. t \in Hands /\ t.rest = <<>> /\ t.rows = list /\ t.tokens = purse /\ t.kept = count /\ t.refused = over
    BY <1>3, <2>1 DEF Hands
  <2>4. AreSettledTo(i, t)
    BY <1>5, <2>3 DEF AreSettledTo
  <2>5. n = written[i] => AreSettledTo(i + 1, t)
    <3>1. SUFFICES ASSUME n = written[i] PROVE AreSettledTo(i + 1, t)
      OBVIOUS
    <3>2. ~Fits(written[i])
      BY <1>2, <1>7, <3>1
    <3>3. ASSUME NEW k \in DOMAIN list PROVE list[k] \in 1..(i + 1) - 1
      BY <1>1, <1>5
    <3>4. ASSUME NEW j \in 1..(i + 1) - 1, Fits(written[j]) PROVE j \in Lines(list) \cup over \cup cut
      <4>1. j \in 1..i - 1
        BY <1>1, <3>2, <3>4
      <4>2. QED
        BY <1>5, <3>4, <4>1
    <3>5. QED
      BY <1>5, <2>3, <3>3, <3>4 DEF AreSettledTo
  <2>6. Rate(t)
    BY <1>4, <2>3 DEF Rate
  <2>7. QED
    BY <2>2, <2>3, <2>4, <2>5, <2>6
<1>8. CASE IsRead(s.rest)
  <2>1. n # 0 /\ n = written[i]
    BY <1>1, <1>2, <1>8 DEF Fits
  <2>2. s.rest[1] = i
    <3>1. 1 \in 1..n
      BY <1>1, <2>1
    <3>2. QED
      BY <1>1, <3>1, UnitsAre
  <2>3. CASE purse = 0
    <3>1. PICK more : more = over \cup {i}
      OBVIOUS
    <3>2. PICK t : t = [rest |-> <<>>, rows |-> list, tokens |-> purse, refused |-> more, kept |-> count]
      OBVIOUS
    <3>3. HandleLine(s) = t
      <4>1. HandleLine(s) = [s EXCEPT !.rest = <<>>, !.refused = more]
        BY <1>4, <1>8, <2>2, <2>3, <3>1 DEF HandleLine
      <4>2. QED
        BY <1>4, <3>2, <4>1 DEF Hands
    <3>4. more \in SUBSET Nat
      BY <1>1, <3>1
    <3>5. t \in Hands /\ t.rest = <<>> /\ t.rows = list /\ t.tokens = purse /\ t.kept = count /\ t.refused = more
      BY <1>3, <3>2, <3>4 DEF Hands
    <3>6. \A k \in DOMAIN list : list[k] \in 1..(i + 1) - 1
      BY <1>1, <1>5
    <3>7. ASSUME NEW j \in 1..(i + 1) - 1, Fits(written[j]) PROVE j \in Lines(list) \cup more \cup cut
      <4>1. j \in 1..i - 1 \/ j = i
        BY <1>1
      <4>2. QED
        BY <1>5, <3>1, <3>7, <4>1
    <3>8. AreSettledTo(i + 1, t)
      BY <1>5, <3>5, <3>6, <3>7 DEF AreSettledTo
    <3>9. Rate(t)
      BY <1>4, <3>5 DEF Rate
    <3>10. QED
      BY <2>1, <3>3, <3>5, <3>8, <3>9
  <2>4. CASE purse # 0
    <3>1. PICK more : more = Append(list, i)
      OBVIOUS
    <3>2. /\ more \in Seq(Nat) /\ \A k \in DOMAIN more : more[k] \in 1..(i + 1) - 1
          /\ \A k, l \in DOMAIN more : k < l => more[k] < more[l]
          /\ Lines(list) \cup {i} \subseteq Lines(more)
      BY <1>1, <1>5, <3>1, Appends
    <3>3. PICK left \in Nat, counted \in Nat : left = purse - 1 /\ counted = count + 1
      BY <2>4
    <3>4. PICK t : t = [rest |-> <<>>, rows |-> more, tokens |-> left, refused |-> over, kept |-> counted]
      OBVIOUS
    <3>5. HandleLine(s) = t
      <4>1. HandleLine(s) = [s EXCEPT !.rest = <<>>, !.rows = more, !.tokens = left, !.kept = counted]
        BY <1>4, <1>8, <2>2, <2>4, <3>1, <3>3 DEF HandleLine
      <4>2. QED
        BY <1>4, <3>4, <4>1 DEF Hands
    <3>6. t \in Hands /\ t.rest = <<>> /\ t.rows = more /\ t.tokens = left /\ t.kept = counted /\ t.refused = over
      BY <1>3, <3>2, <3>4 DEF Hands
    <3>7. ASSUME NEW j \in 1..(i + 1) - 1, Fits(written[j]) PROVE j \in Lines(more) \cup over \cup cut
      <4>1. j \in 1..i - 1 \/ j = i
        BY <1>1
      <4>2. QED
        BY <1>5, <3>2, <3>7, <4>1
    <3>8. AreSettledTo(i + 1, t)
      BY <3>2, <3>6, <3>7 DEF AreSettledTo
    <3>9. Rate(t)
      <4>1. PICK burst \in Nat, seconds \in Nat : burst = Burst /\ seconds = second
        BY <1>1 DEF Sizes
      <4>2. purse \in 0..burst /\ count + purse <= burst + seconds
        BY <1>4, <4>1 DEF Rate
      <4>3. left \in 0..burst /\ counted + left <= burst + seconds
        BY <2>4, <3>3, <4>2
      <4>4. QED
        BY <3>6, <4>1, <4>3 DEF Rate
    <3>10. QED
      BY <2>1, <3>5, <3>6, <3>8, <3>9
  <2>5. QED
    BY <2>3, <2>4
<1>9. QED
  BY <1>7, <1>8

(* The connection has brought p units of the stream, the last of them of    *)
(* line i, and those before it are settled.                                 *)
Reaches(i, at, s, p) ==
  /\ s \in Hands /\ Rate(s) /\ AreSettledTo(i, s)
  /\ at[i] <= p + 1 /\ s.rest = Units(i, p + 1 - at[i])
  /\ i <= Len(written) => p + 1 <= at[i] + written[i]

Laid(next, at) ==
  /\ Sizes /\ written \in Seq(Nat) /\ wire \in Seq(Nat) /\ pending \in Seq(Nat) /\ second \in Nat
  /\ next \in 1..Len(written) + 1 /\ at \in [next..Len(written) + 1 -> Nat] /\ AreLaidOut(next, at)

(* Where the lines are on their way.                                        *)
IsPlaced(next, at, last, line) ==
  /\ last \in Nat /\ last = Len(written) /\ line \in Seq(Nat) /\ line = Stream /\ Len(line) \in Nat
  /\ next \in Nat \ {0} /\ next <= last + 1 /\ at[next] = 1 /\ at[last + 1] = Len(line) + 1
  /\ \A i \in next..last + 1 : at[i] \in Nat \ {0}
  /\ \A i, j \in next..last + 1 : i <= j => at[i] <= at[j]
  /\ \A i \in next..last :
       /\ written[i] \in Nat /\ at[i + 1] = at[i] + written[i] + 1 /\ line[at[i] + written[i]] = 0
       /\ \A k \in at[i]..at[i] + written[i] - 1 : line[k] = i

(* The places as they are used below: of lines in a stream.                 *)
LEMMA IsLaid ==
  ASSUME NEW next, NEW at, Laid(next, at)
  PROVE  \E last, line : IsPlaced(next, at, last, line)
<1>1. written \in Seq(Nat) /\ wire \in Seq(Nat) /\ pending \in Seq(Nat)
  BY DEF Laid
<1>2. PICK last \in Nat : last = Len(written)
  BY <1>1
<1>3. PICK line \in Seq(Nat) : line = Stream
  BY <1>1, Joined DEF Stream
<1>4. Stream = line /\ Ends = last + 1 /\ Len(line) \in Nat
  BY <1>2, <1>3 DEF Stream, Ends
<1>5. next \in 1..last + 1 /\ at \in [next..last + 1 -> Nat]
  BY <1>2 DEF Laid
<1>6. /\ at[next] = 1 /\ at[last + 1] = Len(line) + 1
      /\ \A i, j \in next..last + 1 : i <= j => at[i] <= at[j]
      /\ \A i \in next..last :
           /\ at[i + 1] = at[i] + written[i] + 1 /\ line[at[i] + written[i]] = 0
           /\ \A k \in at[i]..at[i] + written[i] - 1 : line[k] = i
  BY <1>2, <1>4 DEF Laid, AreLaidOut, EndOfLine
<1>7. ASSUME NEW i \in next..last + 1 PROVE at[i] \in Nat \ {0}
  <2>1. next \in next..last + 1 /\ next <= i
    BY <1>5
  <2>2. at[next] <= at[i] /\ at[i] \in Nat
    BY <1>5, <1>6, <2>1
  <2>3. QED
    BY <1>6, <2>2
<1>8. \A i \in next..last : written[i] \in Nat
  BY <1>1, <1>2, <1>5
<1>9. IsPlaced(next, at, last, line)
  BY <1>2, <1>3, <1>4, <1>5, <1>6, <1>7, <1>8 DEF IsPlaced
<1>10. QED
  BY <1>9

(* One unit more is one more of the line at hand, or its end.               *)
LEMMA TakesUnit ==
  ASSUME NEW next, NEW at, Laid(next, at), NEW p \in Nat, p < Len(Stream),
         NEW i \in next..Len(written) + 1, NEW s, Reaches(i, at, s, p)
  PROVE  \E j \in next..Len(written) + 1 : Reaches(j, at, TakeUnit(s, Stream[p + 1]), p + 1)
<1>1. PICK last, line : IsPlaced(next, at, last, line)
  BY IsLaid
<1>2. /\ last = Len(written) /\ line = Stream /\ last \in Nat /\ line \in Seq(Nat)
      /\ Len(line) \in Nat /\ next \in Nat \ {0}
  BY <1>1 DEF IsPlaced
<1>3. /\ s \in Hands /\ Rate(s) /\ AreSettledTo(i, s)
      /\ at[i] <= p + 1 /\ s.rest = Units(i, p + 1 - at[i]) /\ (i <= last => p + 1 <= at[i] + written[i])
  BY <1>2 DEF Reaches
<1>4. i \in Nat \ {0} /\ i \in next..last /\ i + 1 \in next..last + 1 /\ i \in next..last + 1
  <2>1. i # last + 1
    BY <1>1, <1>2, <1>3 DEF IsPlaced
  <2>2. QED
    BY <1>2, <2>1
<1>5. PICK from \in Nat, size \in Nat : from = at[i] /\ size = written[i]
  <2>1. at[i] \in Nat /\ written[i] \in Nat
    BY <1>1, <1>4 DEF IsPlaced
  <2>2. QED
    BY <2>1
<1>6. /\ from <= p + 1 /\ p + 1 <= from + size /\ at[i + 1] = from + size + 1 /\ line[from + size] = 0
      /\ \A k \in from..from + size - 1 : line[k] = i
  <2>1. /\ at[i + 1] = from + size + 1 /\ line[from + size] = 0
        /\ \A k \in from..from + size - 1 : line[k] = i
    BY <1>1, <1>4, <1>5 DEF IsPlaced
  <2>2. QED
    BY <1>3, <1>4, <1>5, <2>1
<1>7. PICK n \in Nat : n = p + 1 - from
  BY <1>6
<1>8. s \in Hands /\ Rate(s) /\ AreSettledTo(i, s) /\ s.rest = Units(i, n)
  BY <1>3, <1>5, <1>7
<1>9. CASE p + 1 = from + size
  <2>1. PICK t : t = HandleLine(s)
    OBVIOUS
  <2>2. TakeUnit(s, line[p + 1]) = t
    BY <1>6, <1>9, <2>1 DEF TakeUnit, EndOfLine
  <2>3. n = written[i] /\ n \in 0..written[i] /\ i \in 1..Len(written)
    <3>1. n = size /\ n \in 0..size
      BY <1>7, <1>9
    <3>2. i \in 1..last
      BY <1>2, <1>4
    <3>3. QED
      BY <1>2, <1>5, <3>1, <3>2
  <2>4. t \in Hands /\ Rate(t) /\ t.rest = <<>> /\ AreSettledTo(i + 1, t)
    BY <1>8, <2>1, <2>3, Handles DEF Laid
  <2>5. at[i + 1] = (p + 1) + 1
    BY <1>6, <1>9
  <2>6. t.rest = Units(i + 1, 0)
    BY <2>4 DEF Units
  <2>7. i + 1 <= Len(written) => (p + 1) + 1 <= at[i + 1] + written[i + 1]
    <3>1. SUFFICES ASSUME i + 1 <= Len(written) PROVE (p + 1) + 1 <= at[i + 1] + written[i + 1]
      OBVIOUS
    <3>2. written[i + 1] \in Nat
      <4>1. i + 1 \in 1..Len(written) /\ written \in Seq(Nat)
        BY <1>2, <1>4, <3>1 DEF Laid
      <4>2. QED
        BY <4>1
    <3>3. QED
      BY <2>5, <3>2
  <2>8. Reaches(i + 1, at, t, p + 1)
    BY <2>4, <2>5, <2>6, <2>7 DEF Reaches
  <2>9. QED
    BY <1>2, <1>4, <2>2, <2>8
<1>10. CASE p + 1 # from + size
  <2>1. p + 1 \in from..from + size - 1 /\ line[p + 1] = i
    BY <1>6, <1>10
  <2>2. PICK rest : rest = Append(s.rest, i)
    OBVIOUS
  <2>3. rest = Units(i, n + 1) /\ rest \in Seq(Nat)
    <3>1. rest = Units(i, n + 1)
      BY <1>4, <1>8, <2>2, OneMore
    <3>2. n + 1 \in Nat
      OBVIOUS
    <3>3. QED
      BY <1>4, <3>1, <3>2, UnitsAre
  <2>4. PICK t : t = [s EXCEPT !.rest = rest]
    OBVIOUS
  <2>5. TakeUnit(s, line[p + 1]) = t
    BY <1>4, <2>1, <2>2, <2>4 DEF TakeUnit, EndOfLine
  <2>6. /\ t \in Hands /\ t.rest = rest /\ t.rows = s.rows /\ t.tokens = s.tokens
        /\ t.kept = s.kept /\ t.refused = s.refused
    BY <1>8, <2>3, <2>4 DEF Hands
  <2>7. AreSettledTo(i, t) /\ Rate(t)
    BY <1>8, <2>6 DEF AreSettledTo, Rate
  <2>8. n + 1 = (p + 1) + 1 - at[i] /\ at[i] <= (p + 1) + 1 /\ (p + 1) + 1 <= at[i] + written[i]
    <3>1. n + 1 = (p + 1) + 1 - from /\ from <= (p + 1) + 1 /\ (p + 1) + 1 <= from + size
      BY <1>6, <1>7, <1>10
    <3>2. QED
      BY <1>5, <3>1
  <2>9. t.rest = Units(i, (p + 1) + 1 - at[i])
    BY <2>3, <2>6, <2>8
  <2>10. Reaches(i, at, t, p + 1)
    BY <2>6, <2>7, <2>8, <2>9 DEF Reaches
  <2>11. QED
    BY <1>2, <2>5, <2>10
<1>11. QED
  BY <1>9, <1>10

(* The units of a chunk are taken one by one.                               *)
Took(done, n) == done = [k \in 0..n |-> IF k = 0 THEN Now ELSE TakeUnit(done[k - 1], wire[k])]

LEMMA TakesAll ==
  ASSUME NEW n \in Nat PROVE \E done : Took(done, n)
<1> DEFINE G == {k \in 0..n : \E done : Took(done, k)}
<1>1. 0 \in G
  <2>1. Took([k \in 0..0 |-> Now], 0)
    BY DEF Took
  <2>2. QED
    BY <2>1
<1>2. ASSUME NEW k \in 0..n, k \in G, k < n
      PROVE  k + 1 \in G
  <2>1. PICK done : Took(done, k)
    BY <1>2
  <2> DEFINE more == [j \in 0..(k + 1) |-> IF j = k + 1 THEN TakeUnit(done[k], wire[k + 1]) ELSE done[j]]
  <2>2. ASSUME NEW j \in 0..(k + 1)
        PROVE  more[j] = IF j = 0 THEN Now ELSE TakeUnit(more[j - 1], wire[j])
    <3>1. CASE j = k + 1
      <4>1. j # 0 /\ k \in 0..(k + 1) /\ k # k + 1 /\ j - 1 = k
        BY <3>1
      <4>2. more[j] = TakeUnit(done[k], wire[k + 1]) /\ more[j - 1] = done[k]
        BY <3>1, <4>1
      <4>3. QED
        BY <3>1, <4>1, <4>2
    <3>2. CASE j # k + 1
      <4>1. j \in 0..k /\ more[j] = done[j]
        BY <3>2
      <4>2. done[j] = IF j = 0 THEN Now ELSE TakeUnit(done[j - 1], wire[j])
        BY <2>1, <4>1 DEF Took
      <4>3. j # 0 => more[j - 1] = done[j - 1]
        BY <4>1
      <4>4. QED
        BY <4>1, <4>2, <4>3
    <3>3. QED
      BY <3>1, <3>2
  <2>3. Took(more, k + 1)
    <3>1. more = [j \in 0..(k + 1) |-> more[j]]
      OBVIOUS
    <3> HIDE DEF more
    <3>2. QED
      BY <2>2, <3>1 DEF Took
  <2>4. QED
    BY <1>2, <2>3
<1> HIDE DEF G
<1>3. n \in G
  BY <1>1, <1>2, CountingInduction
<1>4. QED
  BY <1>3 DEF G

(* So what is at hand after n units is some line's beginning.               *)
LEMMA AfterReaches ==
  ASSUME NEW next, NEW at, Laid(next, at), Reaches(next, at, Now, Len(pending)), NEW n \in 0..Len(wire)
  PROVE  \E j \in next..Len(written) + 1 : Reaches(j, at, After(n), Len(pending) + n)
<1>1. PICK before \in Nat, all \in Nat, last \in Nat : before = Len(pending) /\ all = Len(wire) /\ last = Len(written)
  BY DEF Laid
<1>2. PICK done : done = (CHOOSE it : Took(it, n)) /\ After(n) = done[n]
  <2> DEFINE took[k \in 0..n] == IF k = 0 THEN Now ELSE TakeUnit(took[k - 1], wire[k])
  <2>1. After(n) = took[n]
    BY DEF After
  <2>2. took = CHOOSE it : Took(it, n)
    BY DEF Took
  <2>3. QED
    BY <2>1, <2>2
<1>3. Took(done, n) /\ n \in Nat /\ n <= all
  <2>1. n \in Nat /\ n <= all
    BY <1>1
  <2>2. QED
    BY <1>2, <2>1, TakesAll
<1> DEFINE R(k) == \E j \in next..last + 1 : Reaches(j, at, done[k], before + k)
           G == {k \in 0..n : R(k)}
<1>4. 0 \in G
  <2>1. next \in next..last + 1 /\ done[0] = Now /\ before + 0 = before
    BY <1>1, <1>3 DEF Took, Laid
  <2>2. R(0)
    BY <1>1, <2>1
  <2>3. QED
    BY <1>3, <2>2
<1>5. ASSUME NEW k \in 0..n, k \in G, k < n PROVE k + 1 \in G
  <2>1. k + 1 \in 0..n /\ k + 1 # 0 /\ (k + 1) - 1 = k /\ k + 1 <= all
    BY <1>3, <1>5
  <2>2. done[k + 1] = TakeUnit(done[k], wire[k + 1])
    BY <1>3, <2>1 DEF Took
  <2>3. PICK j \in next..last + 1 : Reaches(j, at, done[k], before + k)
    BY <1>5
  <2>4. Len(Stream) = before + all /\ Stream[(before + k) + 1] = wire[k + 1]
    <3>1. pending \in Seq(Nat) /\ wire \in Seq(Nat)
      BY DEF Laid
    <3>2. (before + k) + 1 \in before + 1..before + all /\ (before + k) + 1 - before = k + 1
      BY <1>1, <1>3, <2>1
    <3>3. QED
      BY <1>1, <3>1, <3>2, Joined DEF Stream
  <2>5. before + k \in Nat /\ before + k < Len(Stream)
    BY <1>1, <1>5, <2>1, <2>4
  <2>6. PICK p \in Nat : p = before + k
    BY <2>5
  <2>7. \E i \in next..Len(written) + 1 : Reaches(i, at, TakeUnit(done[k], Stream[p + 1]), p + 1)
    BY <1>1, <2>3, <2>5, <2>6, TakesUnit
  <2>8. Stream[p + 1] = wire[k + 1] /\ p + 1 = before + (k + 1)
    BY <1>1, <2>4, <2>6
  <2>9. R(k + 1)
    BY <1>1, <2>2, <2>7, <2>8
  <2>10. QED
    BY <2>1, <2>9
<1> HIDE DEF G
<1>6. 0..n \subseteq G
  BY <1>3, <1>4, <1>5, CountingInduction
<1>7. n \in G
  BY <1>3, <1>6
<1>8. QED
  BY <1>1, <1>2, <1>7 DEF G

(* Before a chunk comes pending is what has been taken of its line.         *)
LEMMA Starts ==
  ASSUME Inv
  PROVE  \E next, at : Laid(next, at) /\ Reaches(next, at, Now, Len(pending))
<1>1. PICK next \in 1..Ends : \E at \in [next..Ends -> Nat] :
        /\ AreLaidOut(next, at) /\ AreSettledTo(next, Now)
        /\ next <= Len(written) => Len(pending) <= written[next]
  BY DEF Inv, LinesAreInOrder
<1>2. PICK at \in [next..Ends -> Nat] :
        /\ AreLaidOut(next, at) /\ AreSettledTo(next, Now)
        /\ next <= Len(written) => Len(pending) <= written[next]
  BY <1>1
<1>3. Laid(next, at)
  BY <1>2 DEF Laid, Inv, LinesAreInOrder, RateIsKept, Ends
<1>4. written \in Seq(Nat) /\ wire \in Seq(Nat) /\ pending \in Seq(Nat)
  BY <1>3 DEF Laid
<1>5. PICK before \in Nat, all \in Nat, last \in Nat : before = Len(pending) /\ all = Len(wire) /\ last = Len(written)
  BY <1>4
<1>6. at[next] = 1 /\ next \in 1..last + 1 /\ (next <= last => written[next] \in Nat /\ before <= written[next])
  BY <1>2, <1>4, <1>5 DEF AreLaidOut, Ends
<1>7. Now \in Hands /\ Rate(Now) /\ Now.rest = pending
  BY <1>4 DEF Inv, LinesAreInOrder, RateIsKept, Now, Hands, Rate
<1>8. before + 1 - at[next] = before
  BY <1>6
<1>9. pending = Units(next, before)
  <2>1. ASSUME NEW x \in 1..before PROVE pending[x] = next
    <3>1. Stream[x] = pending[x] /\ Len(Stream) = before + all
      BY <1>4, <1>5, Joined DEF Stream
    <3>2. CASE next <= last
      <4>1. /\ at[next] + written[next] - 1 = written[next]
            /\ x \in at[next]..at[next] + written[next] - 1 /\ next \in next..last
        BY <1>6, <3>2
      <4>2. Stream[x] = next
        BY <1>2, <1>5, <4>1 DEF AreLaidOut, Stream
      <4>3. QED
        BY <3>1, <4>2
    <3>3. CASE next = last + 1
      <4>1. 1 = Len(Stream) + 1
        BY <1>2, <1>5, <1>6, <3>3 DEF AreLaidOut, Stream, Ends
      <4>2. QED
        BY <1>5, <3>1, <4>1
    <3>4. QED
      BY <1>6, <3>2, <3>3
  <2>2. pending = [x \in 1..before |-> pending[x]]
    BY <1>4, <1>5
  <2>3. QED
    BY <2>1, <2>2 DEF Units
<1>10. Reaches(next, at, Now, before)
  <2>1. at[next] <= before + 1 /\ (next <= Len(written) => before + 1 <= at[next] + written[next])
    BY <1>5, <1>6
  <2>2. AreSettledTo(next, Now)
    BY <1>2
  <2>3. QED
    BY <1>7, <1>8, <1>9, <2>1, <2>2 DEF Reaches
<1>11. QED
  BY <1>3, <1>5, <1>10

(* A line that fits and is not settled is on its way.                       *)
LEMMA Ahead ==
  ASSUME NEW next, NEW at, Laid(next, at), NEW i \in next..Len(written), Fits(written[i])
  PROVE  /\ at[i] \in Nat /\ written[i] \in Nat \ {0} /\ i \in Nat \ {0} /\ at[next] = 1 /\ 1 <= at[i]
         /\ \A k \in at[i]..at[i] + written[i] - 1 : Stream[k] = i
         /\ at[i] + written[i] <= Len(Stream) /\ Len(Stream) \in Nat
         /\ \A j \in next..i - 1 : at[j] + written[j] + 1 <= at[i] /\ at[j] \in Nat /\ written[j] \in Nat
<1>1. PICK last, line : IsPlaced(next, at, last, line)
  BY IsLaid
<1>2. last = Len(written) /\ line = Stream /\ last \in Nat /\ Len(line) \in Nat /\ next \in Nat \ {0} /\ at[next] = 1
  BY <1>1 DEF IsPlaced
<1>3. /\ i \in next..last /\ i \in Nat \ {0} /\ i + 1 \in next..last + 1
      /\ last + 1 \in next..last + 1 /\ i \in next..last + 1 /\ i + 1 <= last + 1
  BY <1>2
<1>4. PICK from \in Nat \ {0}, size \in Nat : from = at[i] /\ size = written[i]
  <2>1. at[i] \in Nat \ {0} /\ written[i] \in Nat
    BY <1>1, <1>3 DEF IsPlaced
  <2>2. QED
    BY <2>1
<1>5. size # 0
  BY <1>4 DEF Fits, Laid, Sizes
<1>6. at[i + 1] = from + size + 1 /\ \A k \in from..from + size - 1 : line[k] = i
  BY <1>1, <1>3, <1>4 DEF IsPlaced
<1>7. from + size <= Len(line)
  <2>1. at[i + 1] <= at[last + 1] /\ at[last + 1] = Len(line) + 1
    BY <1>1, <1>3 DEF IsPlaced
  <2>2. QED
    BY <1>2, <1>6, <2>1
<1>8. ASSUME NEW j \in next..i - 1 PROVE at[j] + written[j] + 1 <= at[i] /\ at[j] \in Nat /\ written[j] \in Nat
  <2>1. j \in next..last /\ j + 1 \in next..last + 1 /\ j + 1 <= i /\ j \in next..last + 1
    BY <1>2, <1>3
  <2>2. at[j + 1] <= at[i] /\ at[j + 1] = at[j] + written[j] + 1 /\ at[j] \in Nat /\ written[j] \in Nat
    BY <1>1, <1>3, <2>1 DEF IsPlaced
  <2>3. QED
    BY <2>2
<1>9. QED
  BY <1>2, <1>3, <1>4, <1>5, <1>6, <1>7, <1>8

(* What was not handled yet is all at hand or still to come.                *)
LEMMA Left ==
  ASSUME NEW next, NEW at, Laid(next, at), NEW j \in next..Len(written) + 1, NEW k \in 0..Len(wire), NEW s,
         Reaches(j, at, s, Len(pending) + k), NEW i \in j..Len(written), Fits(written[i])
  PROVE  i \in Lines(SubSeq(wire, k + 1, Len(wire))) \/ (i = j /\ s.rest = Units(i, written[i]))
<1>1. PICK before \in Nat, all \in Nat, last \in Nat : before = Len(pending) /\ all = Len(wire) /\ last = Len(written)
  BY DEF Laid
<1>2. i \in next..last /\ j \in Nat /\ i \in Nat /\ k \in 0..all /\ next \in Nat
  BY <1>1 DEF Laid
<1>3. PICK from \in Nat, size \in Nat \ {0} : from = at[i] /\ size = written[i]
  BY <1>1, <1>2, Ahead
<1>4. /\ 1 <= from /\ from + size <= Len(Stream) /\ i # 0
      /\ \A x \in from..from + size - 1 : Stream[x] = i
      /\ \A l \in next..i - 1 : at[l] + written[l] + 1 <= from /\ at[l] \in Nat /\ written[l] \in Nat
  BY <1>1, <1>2, <1>3, Ahead
<1>5. pending \in Seq(Nat) /\ wire \in Seq(Nat)
  BY DEF Laid
<1>6. /\ Len(Stream) = before + all
      /\ \A x \in before + 1..before + all : Stream[x] = wire[x - before]
  BY <1>1, <1>5, Joined DEF Stream
<1>7. PICK p \in Nat : p = before + k
  BY <1>1, <1>2
<1>8. CASE from + size - 1 > p
  <2>1. PICK x \in Nat : x = from + size - 1
    BY <1>8
  <2>2. /\ x \in from..from + size - 1 /\ x \in before + 1..before + all
        /\ x - p \in 1..all - k /\ k + (x - p) = x - before
    BY <1>1, <1>2, <1>4, <1>6, <1>7, <1>8, <2>1
  <2>3. wire[x - before] = i
    BY <1>4, <1>6, <2>2
  <2>4. PICK left \in Seq(Nat) : left = SubSeq(wire, k + 1, Len(wire))
    BY <1>1, <1>2, <1>5, Remains
  <2>5. Len(left) = all - k /\ left[x - p] = wire[k + (x - p)]
    BY <1>1, <1>2, <1>5, <2>2, <2>4, Remains
  <2>6. left[x - p] = i /\ x - p \in 1..Len(left)
    BY <2>2, <2>3, <2>5
  <2>7. QED
    BY <1>4, <2>4, <2>6, Names
<1>9. CASE from + size - 1 <= p
  <2>1. i = j
    <3>1. SUFFICES ASSUME i # j PROVE FALSE
      OBVIOUS
    <3>2. j \in next..i - 1 /\ j <= Len(written)
      BY <1>1, <1>2, <3>1
    <3>3. p + 1 <= at[j] + written[j]
      BY <1>1, <1>7, <3>2 DEF Reaches
    <3>4. at[j] + written[j] + 1 <= from /\ at[j] \in Nat /\ written[j] \in Nat
      BY <1>4, <3>2
    <3>5. QED
      BY <1>9, <3>3, <3>4
  <2>2. p + 1 <= from + size /\ s.rest = Units(i, p + 1 - from)
    BY <1>1, <1>2, <1>3, <1>7, <2>1 DEF Reaches
  <2>3. p + 1 - from = size
    BY <1>9, <2>2
  <2>4. QED
    BY <1>3, <2>1, <2>2, <2>3
<1>10. QED
  BY <1>8, <1>9

(* What is left of the stream, from where the line at hand begins.          *)
TailOf(now, from, line) ==
  /\ from \in Nat /\ now \in Seq(Nat) /\ Len(now) = Len(line) + 1 - from
  /\ \A x \in 1..Len(now), y \in 1..Len(line) : y = x + from - 1 => now[x] = line[y]

LEMMA IsLeft ==
  ASSUME NEW next, NEW at, NEW last, NEW line, IsPlaced(next, at, last, line), wire \in Seq(Nat), pending \in Seq(Nat),
         NEW j \in next..last + 1, NEW k \in 0..Len(wire), NEW s, Reaches(j, at, s, Len(pending) + k)
  PROVE  /\ TailOf(s.rest \o SubSeq(wire, k + 1, Len(wire)), at[j], line)
         /\ j <= last => Len(s.rest) <= written[j]
<1>0. PICK from \in Nat : from = at[j]
  BY DEF IsPlaced
<1>1. PICK before \in Nat, all \in Nat : before = Len(pending) /\ all = Len(wire)
  OBVIOUS
<1>2. last \in Nat /\ last = Len(written) /\ next \in Nat \ {0} /\ line \in Seq(Nat) /\ line = Stream /\ j \in Nat
  BY DEF IsPlaced
<1>3. PICK p \in Nat : p = before + k /\ k \in Nat /\ k <= all
  BY <1>1
<1>4. Reaches(j, at, s, p)
  BY <1>1, <1>3
<1>5. /\ s.rest \in Seq(Nat) /\ from <= p + 1 /\ s.rest = Units(j, p + 1 - from)
      /\ (j <= last => p + 1 <= from + written[j])
  BY <1>0, <1>2, <1>4 DEF Reaches, Hands
<1>6. PICK n \in Nat : n = p + 1 - from
  BY <1>5
<1>7. PICK rest \in Seq(Nat) : rest = s.rest /\ Len(rest) = n /\ \A x \in 1..n : rest[x] = j
  <2>1. PICK it : it = Units(j, n)
    OBVIOUS
  <2>2. it \in Seq(Nat) /\ Len(it) = n /\ \A x \in 1..n : it[x] = j
    BY <1>2, <2>1, UnitsAre
  <2>3. it = s.rest
    BY <1>5, <1>6, <2>1
  <2>4. QED
    BY <2>2, <2>3
<1>8. PICK rem \in Nat : rem = all - k
  BY <1>3
<1>9. PICK left \in Seq(Nat) :
        /\ left = SubSeq(wire, k + 1, Len(wire)) /\ Len(left) = rem
        /\ \A z \in 1..rem, w \in 1..all : w = k + z => left[z] = wire[w]
  <2>1. PICK it \in Seq(Nat) : it = SubSeq(wire, k + 1, Len(wire))
    BY Remains
  <2>2. Len(it) = rem /\ \A z \in 1..rem : it[z] = wire[k + z]
    BY <1>1, <1>8, <2>1, Remains
  <2>3. ASSUME NEW z \in 1..rem, NEW w \in 1..all, w = k + z PROVE it[z] = wire[w]
    BY <2>2, <2>3
  <2>4. QED
    BY <2>1, <2>2, <2>3
<1>10. /\ Len(line) = before + all
       /\ \A y \in before + 1..before + all, w \in 1..all : y = before + w => line[y] = wire[w]
  <2>1. \A y \in Len(pending) + 1..Len(pending) + Len(wire) : line[y] = wire[y - Len(pending)]
    BY <1>2, Joined DEF Stream
  <2>2. Len(line) = Len(pending) + Len(wire)
    BY <1>2, Joined DEF Stream
  <2>3. ASSUME NEW y \in before + 1..before + all, NEW w \in 1..all, y = before + w PROVE line[y] = wire[w]
    <3>1. w = y - before
      BY <2>3
    <3>2. line[y] = wire[y - before]
      BY <1>1, <2>1
    <3>3. QED
      BY <3>1, <3>2
  <2>4. QED
    BY <1>1, <2>2, <2>3
<1>11. PICK now : now = rest \o left
  OBVIOUS
<1>12. /\ now \in Seq(Nat) /\ Len(now) = n + rem
       /\ \A x \in 1..n : now[x] = j
       /\ \A x \in n + 1..n + rem, z \in 1..rem : x = n + z => now[x] = left[z]
  <2>1. now \in Seq(Nat) /\ Len(now) = Len(rest) + Len(left)
    BY <1>11, Joined
  <2>2. \A x \in 1..Len(rest) : now[x] = rest[x]
    BY <1>11, Joined
  <2>3. \A x \in Len(rest) + 1..Len(rest) + Len(left) : now[x] = left[x - Len(rest)]
    BY <1>11, Joined
  <2>4. ASSUME NEW x \in n + 1..n + rem, NEW z \in 1..rem, x = n + z PROVE now[x] = left[z]
    <3>1. z = x - n
      BY <2>4
    <3>2. now[x] = left[x - n]
      BY <1>7, <1>9, <2>3
    <3>3. QED
      BY <3>1, <3>2
  <2>5. Len(rest) = n /\ Len(left) = rem
    BY <1>7, <1>9
  <2>6. now \in Seq(Nat) /\ Len(now) = n + rem
    BY <2>1, <2>5
  <2>7. \A x \in 1..n : now[x] = j
    <3>1. \A x \in 1..n : rest[x] = j
      BY <1>7
    <3>2. QED
      BY <2>2, <2>5, <3>1
  <2>8. QED
    BY <2>4, <2>6, <2>7
<1>13. n + rem = before + all + 1 - from
  BY <1>3, <1>6, <1>8
<1>14. ASSUME NEW x \in 1..n + rem, NEW y \in 1..before + all, y = x + from - 1 PROVE now[x] = line[y]
  <2>1. CASE x <= n
    <3>1. now[x] = j
      BY <1>12, <2>1
    <3>2. CASE j <= last
      <4>0. j \in next..last
        BY <1>2, <3>2
      <4>1. PICK size \in Nat : size = written[j] /\ \A z \in from..from + size - 1 : line[z] = j
        <5>1. PICK size \in Nat : size = written[j]
          BY <4>0 DEF IsPlaced
        <5>2. \A z \in at[j]..at[j] + written[j] - 1 : line[z] = j
          BY <4>0 DEF IsPlaced
        <5>3. QED
          BY <1>0, <5>1, <5>2
      <4>2. y \in from..from + size - 1
        <5>1. p + 1 <= from + size
          BY <1>5, <3>2, <4>1
        <5>2. QED
          BY <1>6, <1>14, <2>1, <5>1
      <4>3. QED
        BY <3>1, <4>1, <4>2
    <3>3. CASE j = last + 1
      <4>1. from = before + all + 1
        BY <1>0, <1>10, <3>3 DEF IsPlaced
      <4>2. QED
        BY <1>13, <1>14, <4>1
    <3>4. j <= last \/ j = last + 1
      BY <1>2
    <3>5. QED
      BY <3>2, <3>3, <3>4
  <2>2. CASE x > n
    <3>1. PICK z \in 1..rem : x = n + z
      <4>1. x - n \in 1..rem /\ x = n + (x - n)
        BY <2>2
      <4>2. QED
        BY <4>1
    <3>2. PICK w \in 1..all : w = k + z
      <4>1. k + z \in 1..all
        BY <1>3, <1>8
      <4>2. QED
        BY <4>1
    <3>3. y = before + w
      BY <1>3, <1>6, <1>14, <3>1, <3>2
    <3>4. x \in n + 1..n + rem /\ y \in before + 1..before + all
      BY <3>1, <3>3
    <3>5. now[x] = left[z] /\ left[z] = wire[w] /\ line[y] = wire[w]
      BY <1>9, <1>10, <1>12, <3>1, <3>2, <3>3, <3>4
    <3>6. QED
      BY <3>5
  <2>3. QED
    BY <2>1, <2>2
<1>15. j <= last => Len(s.rest) <= written[j]
  <2>1. SUFFICES ASSUME j <= last PROVE n <= written[j]
    BY <1>7
  <2>2. PICK size \in Nat : size = written[j] /\ p + 1 <= from + size
    <3>1. j \in next..last
      BY <1>2, <2>1
    <3>2. PICK size \in Nat : size = written[j]
      BY <3>1 DEF IsPlaced
    <3>3. p + 1 <= from + size
      BY <1>5, <2>1, <3>2
    <3>4. QED
      BY <3>2, <3>3
  <2>3. QED
    BY <1>6, <2>2
<1>16. TailOf(now, from, line)
  <2>1. Len(now) = Len(line) + 1 - from
    BY <1>10, <1>12, <1>13
  <2>2. \A x \in 1..Len(now), y \in 1..Len(line) : y = x + from - 1 => now[x] = line[y]
    BY <1>10, <1>12, <1>14
  <2>3. QED
    BY <1>12, <2>1, <2>2 DEF TailOf
<1>17. QED
  BY <1>0, <1>7, <1>9, <1>11, <1>15, <1>16

Shifted(new, j, last, now) ==
  /\ new \in [j..last + 1 -> Nat] /\ new[j] = 1 /\ new[last + 1] = Len(now) + 1
  /\ \A x, y \in j..last + 1 : x <= y => new[x] <= new[y]
  /\ \A i \in j..last :
       /\ new[i + 1] = new[i] + written[i] + 1 /\ now[new[i] + written[i]] = 0
       /\ \A x \in new[i]..new[i] + written[i] - 1 : now[x] = i

(* Seen from there, the lines that are left have their places too.          *)
LEMMA Shifts ==
  ASSUME NEW next, NEW at, NEW last, NEW line, IsPlaced(next, at, last, line), NEW j \in next..last + 1,
         NEW now, TailOf(now, at[j], line)
  PROVE  \E new : Shifted(new, j, last, now)
<1>1. last \in Nat /\ next \in Nat \ {0} /\ j \in Nat \ {0} /\ j <= last + 1 /\ j \in next..last + 1
  BY DEF IsPlaced
<1>0. PICK from \in Nat : from = at[j]
  BY DEF TailOf
<1>2. PICK all \in Nat, size \in Nat :
        /\ all = Len(line) /\ size = Len(now) /\ size = all + 1 - from
        /\ \A x \in 1..size, y \in 1..all : y = x + from - 1 => now[x] = line[y]
  <2>1. PICK all \in Nat, size \in Nat : all = Len(line) /\ size = Len(now)
    BY DEF TailOf, IsPlaced
  <2>2. size = all + 1 - from
    BY <1>0, <2>1 DEF TailOf
  <2>3. \A x \in 1..size, y \in 1..all : y = x + from - 1 => now[x] = line[y]
    BY <1>0, <2>1 DEF TailOf
  <2>4. QED
    BY <2>1, <2>2, <2>3
<1>s. size = all + 1 - from
  BY <1>2
<1>n. PICK new : new = [i \in j..last + 1 |-> at[i] - from + 1]
  OBVIOUS
<1>3. from >= 1
  BY <1>0, <1>1 DEF IsPlaced
<1>4. ASSUME NEW i \in j..last + 1
      PROVE  \E a \in Nat, b \in Nat : a = at[i] /\ b = new[i] /\ from <= a /\ b = a - from + 1 /\ a <= all + 1
  <2>1. i \in next..last + 1 /\ j <= i /\ last + 1 \in next..last + 1 /\ i <= last + 1 /\ i \in j..last + 1
    BY <1>1
  <2>2. PICK a \in Nat : a = at[i]
    BY <2>1 DEF IsPlaced
  <2>3. from <= a /\ a <= all + 1
    BY <1>0, <1>1, <1>2, <2>1, <2>2 DEF IsPlaced
  <2>4. PICK b \in Nat : b = a - from + 1
    BY <2>3
  <2>5. new[i] = b
    BY <1>n, <2>2, <2>4
  <2>6. QED
    BY <2>2, <2>3, <2>4, <2>5
<1>5. \A i \in j..last + 1 : new[i] \in Nat
  BY <1>4
<1>6. new[j] = 1
  <2>1. j \in j..last + 1
    BY <1>1
  <2>2. PICK a \in Nat, b \in Nat : a = at[j] /\ b = new[j] /\ b = a - from + 1
    BY <1>4, <2>1
  <2>3. b = 1
    BY <1>0, <2>2
  <2>4. QED
    BY <2>2, <2>3
<1>7. new[last + 1] = size + 1
  <2>1. last + 1 \in j..last + 1
    BY <1>1
  <2>2. PICK a \in Nat, b \in Nat : a = at[last + 1] /\ b = new[last + 1] /\ b = a - from + 1
    BY <1>4, <2>1
  <2>3. a = all + 1
    BY <1>2, <2>2 DEF IsPlaced
  <2>4. b = size + 1
    BY <1>2, <2>2, <2>3
  <2>5. QED
    BY <2>2, <2>4
<1>8. ASSUME NEW x \in j..last + 1, NEW y \in j..last + 1, x <= y PROVE new[x] <= new[y]
  <2>1. PICK a \in Nat, b \in Nat : a = at[x] /\ b = new[x] /\ b = a - from + 1
    BY <1>4
  <2>2. PICK c \in Nat, d \in Nat : c = at[y] /\ d = new[y] /\ d = c - from + 1
    BY <1>4
  <2>3. a <= c
    <3>1. x \in next..last + 1 /\ y \in next..last + 1
      BY <1>1
    <3>2. QED
      BY <1>8, <2>1, <2>2, <3>1 DEF IsPlaced
  <2>4. b <= d
    BY <2>1, <2>2, <2>3
  <2>5. QED
    BY <2>1, <2>2, <2>4
<1>9. ASSUME NEW i \in j..last
      PROVE  /\ new[i + 1] = new[i] + written[i] + 1 /\ now[new[i] + written[i]] = 0
             /\ \A x \in new[i]..new[i] + written[i] - 1 : now[x] = i
  <2>1. i \in next..last /\ i \in j..last + 1 /\ i + 1 \in j..last + 1
    BY <1>1
  <2>2. PICK a \in Nat, b \in Nat : a = at[i] /\ b = new[i] /\ from <= a /\ b = a - from + 1
    BY <1>4, <2>1
  <2>3. PICK n \in Nat : /\ n = written[i] /\ at[i + 1] = a + n + 1 /\ line[a + n] = 0
                         /\ \A y \in a..a + n - 1 : line[y] = i
    BY <2>1, <2>2 DEF IsPlaced
  <2>4. new[i + 1] = b + n + 1 /\ a + n <= all
    <3>1. PICK c \in Nat, d \in Nat : c = at[i + 1] /\ d = new[i + 1] /\ d = c - from + 1 /\ c <= all + 1
      BY <1>4, <2>1
    <3>2. c = a + n + 1
      BY <2>3, <3>1
    <3>3. d = b + n + 1 /\ a + n <= all
      BY <2>2, <3>1, <3>2
    <3>4. QED
      BY <3>1, <3>3
  <2>b. from <= a /\ b = a - from + 1
    BY <2>2
  <2>m. a + n <= all
    BY <2>4
  <2>5. now[b + n] = 0
    <3>1. PICK x \in 1..size, y \in 1..all : x = b + n /\ y = a + n /\ y = x + from - 1
      <4>1. b + n \in 1..size /\ a + n \in 1..all /\ a + n = (b + n) + from - 1
        BY <1>s, <1>3, <2>b, <2>m
      <4>2. QED
        BY <4>1
    <3>2. now[x] = line[y]
      BY <1>2, <3>1
    <3>3. QED
      BY <2>3, <3>1, <3>2
  <2>6. ASSUME NEW x \in b..b + n - 1 PROVE now[x] = i
    <3>1. PICK y \in 1..all : y = x + from - 1
      <4>1. x + from - 1 \in 1..all
        BY <1>s, <1>3, <2>b, <2>m
      <4>2. QED
        BY <4>1
    <3>2. x \in 1..size /\ y \in a..a + n - 1
      BY <1>s, <1>3, <2>b, <2>m, <3>1
    <3>3. now[x] = line[y]
      BY <1>2, <3>1, <3>2
    <3>4. QED
      BY <2>3, <3>2, <3>3
  <2>7. QED
    BY <2>2, <2>3, <2>4, <2>5, <2>6
<1>10. Shifted(new, j, last, now)
  <2>1. new \in [j..last + 1 -> Nat]
    BY <1>n, <1>5
  <2>2. QED
    BY <1>2, <1>6, <1>7, <1>8, <1>9, <2>1 DEF Shifted
<1>11. QED
  BY <1>10

(* A chunk leaves what comes after the lines that were handled.             *)
Keeps(s) == tokens' = s.tokens /\ rows' = s.rows /\ refused' = s.refused /\ kept' = s.kept
Leaves(s, k) == pending' = s.rest /\ wire' = SubSeq(wire, k + 1, Len(wire)) /\ UNCHANGED <<written, cut, second>>
LEMMA Chunk ==
  ASSUME NEW next, NEW at, Laid(next, at), NEW j \in next..Len(written) + 1, NEW k \in 0..Len(wire), NEW s,
         Reaches(j, at, s, Len(pending) + k), Keeps(s), Leaves(s, k)
  PROVE  Inv'
<1>1. PICK last, line : IsPlaced(next, at, last, line)
  BY IsLaid
<1>2. last \in Nat /\ last = Len(written) /\ next \in Nat \ {0} /\ j \in next..last + 1
  BY <1>1 DEF IsPlaced
<1>3. written \in Seq(Nat) /\ wire \in Seq(Nat) /\ pending \in Seq(Nat) /\ second \in Nat
  BY DEF Laid
<1>4. PICK now : now = s.rest \o SubSeq(wire, k + 1, Len(wire))
  OBVIOUS
<1>5. TailOf(now, at[j], line) /\ (j <= last => Len(s.rest) <= written[j])
  BY <1>1, <1>2, <1>3, <1>4, IsLeft
<1>6. PICK new : Shifted(new, j, last, now)
  BY <1>1, <1>2, <1>5, Shifts
<1>7. Stream' = now /\ Ends' = last + 1 /\ Len(written') = last /\ written' = written
  BY <1>2, <1>4 DEF Stream, Ends, Leaves
<1>8. AreLaidOut(j, new)'
  BY <1>6, <1>7 DEF Shifted, AreLaidOut, EndOfLine
<1>9. s \in Hands /\ Rate(s) /\ AreSettledTo(j, s)
  BY DEF Reaches
<1>10. AreSettledTo(j, Now)'
  BY <1>9 DEF AreSettledTo, Now, Keeps, Leaves
<1>11. j \in 1..Ends' /\ new \in [j..Ends' -> Nat]
  <2>1. j \in 1..last + 1
    BY <1>2
  <2>2. QED
    BY <1>6, <1>7, <2>1 DEF Shifted
<1>12. /\ pending' \in Seq(Nat) /\ wire' \in Seq(Nat) /\ written' \in Seq(Nat)
       /\ rows' \in Seq(Nat) /\ refused' \subseteq Nat
       /\ j <= Len(written') => Len(pending') <= written'[j]
  <2>1. pending' \in Seq(Nat) /\ rows' \in Seq(Nat) /\ refused' \subseteq Nat
    BY <1>9 DEF Hands, Keeps, Leaves
  <2>2. wire' \in Seq(Nat)
    BY <1>3, Remains DEF Leaves
  <2>3. j <= Len(written') => Len(pending') <= written'[j]
    BY <1>5, <1>7 DEF Leaves
  <2>4. QED
    BY <1>3, <1>7, <2>1, <2>2, <2>3
<1>13. LinesAreInOrder'
  BY <1>8, <1>10, <1>11, <1>12 DEF LinesAreInOrder
<1>14. RateIsKept'
  BY <1>3, <1>9 DEF RateIsKept, Rate, Hands, Keeps, Leaves
<1>15. QED
  BY <1>13, <1>14 DEF Inv, Laid, Sizes

(* A connection that is gone leaves nothing on its way.                     *)
IsGone == UNCHANGED <<written, second>> /\ wire' = <<>> /\ pending' = <<>>
LEMMA Closes ==
  ASSUME Inv, IsGone, NEW t \in Hands, Rate(t), Keeps(t),
         NEW next \in 1..Len(written) + 1, AreSettledTo(next, t), cut \subseteq cut',
         \A i \in next..Len(written) : Fits(written[i]) => i \in Lines(t.rows) \cup t.refused \cup cut'
  PROVE  Inv'
<1>1. PICK last \in Nat : last = Len(written) /\ written \in Seq(Nat) /\ second \in Nat
  BY DEF Inv, LinesAreInOrder, RateIsKept
<1>2. PICK new : new = [i \in {last + 1} |-> 1]
  OBVIOUS
<1>3. last + 1..last + 1 = {last + 1} /\ last + 1 \in 1..last + 1 /\ last + 1..last = {}
  OBVIOUS
<1>4. Stream' = <<>> /\ Ends' = last + 1 /\ Len(<<>>) = 0 /\ written' = written /\ <<>> \in Seq(Nat)
  BY <1>1 DEF Stream, Ends, IsGone
<1>5. AreLaidOut(last + 1, new)'
  BY <1>1, <1>2, <1>3, <1>4 DEF AreLaidOut
<1>6. AreSettledTo(last + 1, Now)'
  <2>1. PICK list \in Seq(Nat), over \in SUBSET Nat : list = t.rows /\ over = t.refused
    BY DEF Hands
  <2>2. ASSUME NEW k \in DOMAIN list PROVE list[k] \in 1..(last + 1) - 1
    <3>1. list[k] \in 1..next - 1
      BY <2>1 DEF AreSettledTo
    <3>2. QED
      BY <1>1, <3>1
  <2>3. ASSUME NEW i \in 1..(last + 1) - 1, Fits(written[i]) PROVE i \in Lines(list) \cup over \cup cut'
    <3>1. CASE i < next
      <4>1. i \in 1..next - 1
        BY <1>1, <3>1
      <4>2. QED
        BY <2>1, <2>3, <4>1 DEF AreSettledTo
    <3>2. CASE i >= next
      <4>1. i \in next..Len(written)
        BY <1>1, <3>2
      <4>2. QED
        BY <2>1, <2>3, <4>1
    <3>3. QED
      BY <1>1, <3>1, <3>2
  <2>4. \A k, l \in DOMAIN list : k < l => list[k] < list[l]
    BY <2>1 DEF AreSettledTo
  <2>5. Now'.rows = list /\ Now'.refused = over
    BY <2>1 DEF Now, Keeps
  <2>6. QED
    BY <1>4, <2>2, <2>3, <2>4, <2>5 DEF AreSettledTo
<1>7. LinesAreInOrder'
  <2>1. rows' \in Seq(Nat) /\ refused' \subseteq Nat
    BY DEF Hands, Keeps
  <2>2. new \in [last + 1..last + 1 -> Nat]
    BY <1>2, <1>3
  <2>3. ~(last + 1 <= Len(written'))
    BY <1>1, <1>4
  <2>4. QED
    BY <1>1, <1>3, <1>4, <1>5, <1>6, <2>1, <2>2, <2>3 DEF LinesAreInOrder, IsGone
<1>8. RateIsKept'
  BY <1>1 DEF RateIsKept, Rate, Hands, Keeps, IsGone
<1>9. QED
  BY <1>7, <1>8 DEF Inv

LEMMA Begins == ASSUME Sizes, Init PROVE Inv
<1>1. /\ written = <<>> /\ wire = <<>> /\ pending = <<>> /\ tokens = Burst
      /\ rows = <<>> /\ refused = {} /\ cut = {} /\ second = 0 /\ kept = 0
  BY DEF Init
<1>2. Stream = <<>> /\ Len(<<>>) = 0 /\ <<>> \in Seq(Nat) /\ Ends = 1 /\ DOMAIN <<>> = {}
  BY <1>1 DEF Stream, Ends
<1>3. PICK new : new = [i \in {1} |-> 1]
  OBVIOUS
<1>4. 1..1 = {1} /\ 1..0 = {} /\ 1 - 1 = 0
  OBVIOUS
<1>5. AreLaidOut(1, new)
  BY <1>1, <1>2, <1>3, <1>4 DEF AreLaidOut
<1>6. AreSettledTo(1, Now)
  BY <1>1, <1>2, <1>4 DEF AreSettledTo, Now
<1>7. new \in [1..Ends -> Nat] /\ 1 \in 1..Ends /\ ~(1 <= Len(written))
  BY <1>1, <1>2, <1>3, <1>4
<1>8. LinesAreInOrder
  BY <1>1, <1>2, <1>5, <1>6, <1>7 DEF LinesAreInOrder
<1>9. RateIsKept
  BY <1>1 DEF RateIsKept, Sizes
<1>10. QED
  BY <1>8, <1>9 DEF Inv

(* A line that is written comes after the others.                           *)
LEMMA Writes == ASSUME Inv, Write PROVE Inv'
<1>1. PICK next \in 1..Ends : \E at \in [next..Ends -> Nat] :
        /\ AreLaidOut(next, at) /\ AreSettledTo(next, Now)
        /\ next <= Len(written) => Len(pending) <= written[next]
  BY DEF Inv, LinesAreInOrder
<1>2. PICK at \in [next..Ends -> Nat] :
        /\ AreLaidOut(next, at) /\ AreSettledTo(next, Now)
        /\ next <= Len(written) => Len(pending) <= written[next]
  BY <1>1
<1>3. written \in Seq(Nat) /\ wire \in Seq(Nat) /\ pending \in Seq(Nat) /\ rows \in Seq(Nat) /\ refused \subseteq Nat
  BY DEF Inv, LinesAreInOrder
<1>4. PICK last \in Nat, before \in Nat, all \in Nat : last = Len(written) /\ before = Len(pending) /\ all = Len(wire)
  BY <1>3
<1>5. PICK n \in Nat : written' = Append(written, n) /\ wire' = wire \o Units(last + 1, n) \o <<0>>
  <2>1. PICK n \in 0..MaxBuffer + 1 : /\ written' = Append(written, n)
                                     /\ wire' = wire \o Units(Len(written) + 1, n) \o <<0>>
    BY DEF Write, EndOfLine
  <2>2. n \in Nat
    BY DEF Inv, Sizes
  <2>3. QED
    BY <1>4, <2>1, <2>2
<1>6. UNCHANGED <<pending, tokens, rows, refused, cut, second, kept>>
  BY DEF Write
<1>7. PICK line \in Seq(Nat) :
        /\ line = pending \o wire /\ Len(line) = before + all
        /\ \A x \in 1..before : line[x] = pending[x]
        /\ \A x \in before + 1..before + all : line[x] = wire[x - before]
  <2>1. /\ pending \o wire \in Seq(Nat) /\ Len(pending \o wire) = Len(pending) + Len(wire)
        /\ \A x \in 1..Len(pending) : (pending \o wire)[x] = pending[x]
        /\ \A x \in Len(pending) + 1..Len(pending) + Len(wire) : (pending \o wire)[x] = wire[x - Len(pending)]
    BY <1>3, Joined
  <2>2. QED
    BY <1>4, <2>1
<1>8. PICK units \in Seq(Nat) : units = Units(last + 1, n) /\ Len(units) = n /\ \A x \in 1..n : units[x] = last + 1
  <2>1. last + 1 \in Nat
    OBVIOUS
  <2>2. /\ Units(last + 1, n) \in Seq(Nat) /\ Len(Units(last + 1, n)) = n
        /\ \A x \in 1..n : Units(last + 1, n)[x] = last + 1
    BY <2>1, UnitsAre
  <2>3. QED
    BY <2>2
<1>9. PICK ended \in Seq(Nat) :
        /\ ended = units \o <<0>> /\ Len(ended) = n + 1 /\ ended[n + 1] = 0
        /\ \A x \in 1..n : ended[x] = last + 1
  <2>1. <<0>> \in Seq(Nat) /\ Len(<<0>>) = 1 /\ <<0>>[1] = 0
    OBVIOUS
  <2>2. (n + 1) - n = 1 /\ n + 1 \in n + 1..n + 1
    OBVIOUS
  <2>3. /\ units \o <<0>> \in Seq(Nat) /\ Len(units \o <<0>>) = Len(units) + Len(<<0>>)
        /\ \A x \in 1..Len(units) : (units \o <<0>>)[x] = units[x]
        /\ \A x \in Len(units) + 1..Len(units) + Len(<<0>>) : (units \o <<0>>)[x] = <<0>>[x - Len(units)]
    BY <2>1, Joined
  <2>4. Len(units) = n /\ \A x \in 1..n : units[x] = last + 1
    BY <1>8
  <2>5. (units \o <<0>>)[n + 1] = 0
    BY <2>1, <2>2, <2>3, <2>4
  <2>6. QED
    BY <2>1, <2>3, <2>4, <2>5
<1>10. PICK now \in Seq(Nat) :
        /\ now = line \o ended /\ Len(now) = Len(line) + (n + 1)
        /\ \A x \in 1..Len(line) : now[x] = line[x]
        /\ \A x \in Len(line) + 1..Len(line) + (n + 1) : now[x] = ended[x - Len(line)]
  <2>1. /\ line \o ended \in Seq(Nat) /\ Len(line \o ended) = Len(line) + Len(ended)
        /\ \A x \in 1..Len(line) : (line \o ended)[x] = line[x]
        /\ \A x \in Len(line) + 1..Len(line) + Len(ended) : (line \o ended)[x] = ended[x - Len(line)]
    BY Joined
  <2>2. Len(ended) = n + 1
    BY <1>9
  <2>3. QED
    BY <2>1, <2>2
<1>11. Stream' = now /\ wire' \in Seq(Nat)
  <2>1. wire' = (wire \o units) \o <<0>> /\ <<0>> \in Seq(Nat)
    BY <1>5, <1>8
  <2>s. wire \in Seq(Nat) /\ pending \in Seq(Nat)
    BY <1>3
  <2>e. PICK end \in Seq(Nat) : end = <<0>>
    BY <2>1
  <2>u. JoinsUpTo(wire, units, end) /\ JoinsUpTo(pending, wire, ended)
    BY <2>s, JoinsUp
  <2>2. (wire \o units) \o <<0>> = wire \o (units \o <<0>>)
    BY <2>e, <2>u DEF JoinsUpTo
  <2>3. (pending \o wire) \o ended = pending \o (wire \o ended)
    BY <2>u DEF JoinsUpTo
  <2>4. ended = units \o <<0>> /\ line = pending \o wire /\ now = line \o ended
    BY <1>7, <1>9, <1>10
  <2>5. wire' = wire \o ended
    BY <2>1, <2>2, <2>4
  <2>6. wire \o ended \in Seq(Nat)
    BY <1>3, Joined
  <2>7. pending' = pending
    BY <1>6
  <2>8. QED
    BY <2>3, <2>4, <2>5, <2>6, <2>7 DEF Stream
<1>12. /\ written' \in Seq(Nat) /\ Len(written') = last + 1 /\ written'[last + 1] = n
       /\ \A i \in 1..last : written'[i] = written[i] /\ written[i] \in Nat
  <2>1. /\ Append(written, n) \in Seq(Nat) /\ Len(Append(written, n)) = Len(written) + 1
        /\ Append(written, n)[Len(written) + 1] = n
        /\ \A i \in 1..Len(written) : Append(written, n)[i] = written[i]
    BY <1>3
  <2>2. \A i \in 1..Len(written) : written[i] \in Nat
    BY <1>3
  <2>3. written' = Append(written, n) /\ last = Len(written)
    BY <1>4, <1>5
  <2>4. QED
    BY <2>1, <2>2, <2>3
<1>13. Ends = last + 1 /\ Ends' = last + 2
  BY <1>4, <1>12 DEF Ends
<1>14. /\ next \in 1..last + 1 /\ at \in [next..last + 1 -> Nat] /\ at[next] = 1 /\ at[last + 1] = Len(line) + 1
       /\ \A x, y \in next..last + 1 : x <= y => at[x] <= at[y]
       /\ \A i \in next..last :
            /\ at[i + 1] = at[i] + written[i] + 1 /\ line[at[i] + written[i]] = 0
            /\ \A x \in at[i]..at[i] + written[i] - 1 : line[x] = i
  BY <1>2, <1>4, <1>7, <1>13 DEF AreLaidOut, Stream, EndOfLine
<1>15. PICK length \in Nat : length = Len(line)
  BY <1>7
<1>16. PICK new : new = [i \in next..last + 2 |-> IF i = last + 2 THEN length + n + 2 ELSE at[i]]
  OBVIOUS
<1>17. /\ new[last + 2] = length + n + 2
       /\ \A i \in next..last + 1 : new[i] = at[i] /\ at[i] \in Nat /\ at[i] <= length + 1
  <2>1. last + 2 \in next..last + 2 /\ last + 1 \in next..last + 1
    BY <1>14
  <2>2. ASSUME NEW i \in next..last + 1 PROVE new[i] = at[i] /\ at[i] \in Nat /\ at[i] <= length + 1
    <3>1. i \in next..last + 2 /\ i # last + 2 /\ i <= last + 1
      BY <1>14
    <3>2. QED
      BY <1>14, <1>15, <1>16, <2>1, <3>1
  <2>3. QED
    BY <1>16, <2>1, <2>2
<1>18. new \in [next..last + 2 -> Nat]
  <2>1. ASSUME NEW i \in next..last + 2 PROVE (IF i = last + 2 THEN length + n + 2 ELSE at[i]) \in Nat
    <3>1. i = last + 2 \/ i \in next..last + 1
      BY <1>14
    <3>2. QED
      BY <1>17, <3>1
  <2>2. QED
    BY <1>16, <2>1
<1>19. ASSUME NEW x \in next..last + 2, NEW y \in next..last + 2, x <= y PROVE new[x] <= new[y]
  <2>1. CASE y = last + 2
    <3>1. x = last + 2 \/ x \in next..last + 1
      BY <1>14
    <3>2. CASE x = last + 2
      BY <1>17, <2>1, <3>2
    <3>3. CASE x \in next..last + 1
      <4>1. PICK a \in Nat : a = new[x] /\ a <= length + 1
        BY <1>17, <3>3
      <4>2. a <= length + n + 2
        BY <4>1
      <4>3. QED
        BY <1>17, <2>1, <4>1, <4>2
    <3>4. QED
      BY <3>1, <3>2, <3>3
  <2>2. CASE y # last + 2
    <3>1. x \in next..last + 1 /\ y \in next..last + 1
      BY <1>14, <1>19, <2>2
    <3>2. QED
      BY <1>14, <1>17, <1>19, <3>1
  <2>3. QED
    BY <2>1, <2>2
<1>20. ASSUME NEW i \in next..last + 1
       PROVE  /\ new[i + 1] = new[i] + written'[i] + 1 /\ now[new[i] + written'[i]] = 0
              /\ \A x \in new[i]..new[i] + written'[i] - 1 : now[x] = i
  <2>1. CASE i = last + 1
    <3>1. new[i] = length + 1 /\ written'[i] = n /\ new[i + 1] = length + n + 2
      BY <1>12, <1>14, <1>15, <1>17, <2>1
    <3>2. length + 1 + n \in length + 1..length + (n + 1) /\ length + 1 + n - length = n + 1
      OBVIOUS
    <3>3. now[length + 1 + n] = 0
      BY <1>9, <1>10, <1>15, <3>2
    <3>4. ASSUME NEW x \in length + 1..length + 1 + n - 1 PROVE now[x] = i
      <4>1. x \in length + 1..length + (n + 1) /\ x - length \in 1..n
        OBVIOUS
      <4>2. QED
        BY <1>9, <1>10, <1>15, <2>1, <4>1
    <3>5. QED
      BY <3>1, <3>3, <3>4
  <2>2. CASE i # last + 1
    <3>1. i \in next..last /\ i \in 1..last /\ i \in next..last + 1 /\ i + 1 \in next..last + 1
      BY <1>14, <2>2
    <3>2. PICK a \in Nat, size \in Nat : a = at[i] /\ size = written[i]
      BY <1>12, <1>17, <3>1
    <3>3. /\ new[i] = a /\ written'[i] = size /\ new[i + 1] = at[i + 1]
          /\ at[i + 1] = a + size + 1 /\ at[i + 1] <= length + 1
      BY <1>12, <1>14, <1>17, <3>1, <3>2
    <3>4. next \in next..last + 1 /\ next <= i
      BY <1>14, <3>1
    <3>5. 1 <= a
      BY <1>14, <3>1, <3>2, <3>4
    <3>6. a + size <= length
      BY <3>3
    <3>7. a + size \in 1..length
      BY <3>5, <3>6
    <3>8. line[a + size] = 0 /\ \A x \in a..a + size - 1 : line[x] = i
      BY <1>14, <3>1, <3>2
    <3>9. ASSUME NEW x \in a..a + size - 1 PROVE now[x] = i
      <4>1. x \in 1..length
        BY <3>5, <3>6
      <4>2. QED
        BY <1>10, <1>15, <3>8, <4>1
    <3>10. now[a + size] = 0
      BY <1>10, <1>15, <3>7, <3>8
    <3>11. QED
      BY <3>3, <3>9, <3>10
  <2>3. QED
    BY <2>1, <2>2
<1>21. AreLaidOut(next, new)'
  <2>1. new[next] = 1 /\ new[last + 2] = Len(now) + 1 /\ last + 2 = (last + 1) + 1
    <3>1. next \in next..last + 1
      BY <1>14
    <3>2. QED
      BY <1>10, <1>14, <1>15, <1>17, <3>1
  <2>2. QED
    BY <1>11, <1>12, <1>13, <1>19, <1>20, <2>1 DEF AreLaidOut, EndOfLine
<1>22. AreSettledTo(next, Now)'
  <2>1. \A i \in 1..next - 1 : written'[i] = written[i]
    BY <1>12, <1>14
  <2>2. Now' = Now
    BY <1>6 DEF Now
  <2>3. QED
    BY <1>2, <1>6, <2>1, <2>2 DEF AreSettledTo
<1>23. next <= Len(written') => Len(pending') <= written'[next]
  <2>1. CASE next <= last
    BY <1>2, <1>4, <1>6, <1>12, <1>14, <2>1
  <2>2. CASE next = last + 1
    <3>1. Len(line) = 0 /\ before = 0
      BY <1>7, <1>14, <2>2
    <3>2. QED
      BY <1>4, <1>6, <1>12, <2>2, <3>1
  <2>3. QED
    BY <1>14, <2>1, <2>2
<1>24. LinesAreInOrder'
  <2>1. next \in 1..Ends' /\ new \in [next..Ends' -> Nat]
    BY <1>13, <1>14, <1>18
  <2>2. QED
    BY <1>3, <1>6, <1>11, <1>12, <1>21, <1>22, <1>23, <2>1 DEF LinesAreInOrder
<1>25. RateIsKept'
  BY <1>6 DEF Inv, RateIsKept
<1>26. QED
  BY <1>24, <1>25 DEF Inv

(* The lines of two texts are lines of both together.                       *)
LEMMA JoinsLines ==
  ASSUME NEW a \in Seq(Nat), NEW b \in Seq(Nat)
  PROVE  Lines(a) \cup Lines(b) \subseteq Lines(a \o b)
<1>1. PICK m \in Nat, n \in Nat : m = Len(a) /\ n = Len(b)
  OBVIOUS
<1>2. PICK c \in Seq(Nat) :
        /\ c = a \o b /\ Len(c) = m + n /\ \A x \in 1..m : c[x] = a[x]
        /\ \A x \in m + 1..m + n : c[x] = b[x - m]
  <2>1. /\ a \o b \in Seq(Nat) /\ Len(a \o b) = Len(a) + Len(b)
        /\ \A x \in 1..Len(a) : (a \o b)[x] = a[x]
        /\ \A x \in Len(a) + 1..Len(a) + Len(b) : (a \o b)[x] = b[x - Len(a)]
    BY Joined
  <2>2. QED
    BY <1>1, <2>1
<1>3. ASSUME NEW i \in Lines(a) PROVE i \in Lines(c)
  <2>1. PICK x \in 1..m : i = a[x] /\ i # 0
    BY <1>1 DEF Lines, EndOfLine
  <2>2. x \in 1..Len(c) /\ c[x] = i
    BY <1>2, <2>1
  <2>3. QED
    BY <2>1, <2>2, Names
<1>4. ASSUME NEW i \in Lines(b) PROVE i \in Lines(c)
  <2>1. PICK x \in 1..n : i = b[x] /\ i # 0
    BY <1>1 DEF Lines, EndOfLine
  <2>2. m + x \in m + 1..m + n /\ m + x \in 1..Len(c) /\ (m + x) - m = x
    BY <1>2
  <2>3. c[m + x] = i
    BY <1>2, <2>1, <2>2
  <2>4. QED
    BY <2>1, <2>2, <2>3, Names
<1>5. QED
  BY <1>2, <1>3, <1>4

(* data and end, with what the units of the chunk lead to.                  *)
LEMMA Reads ==
  ASSUME Inv, OnData PROVE Inv'
<1>1. PICK next, at : Laid(next, at) /\ Reaches(next, at, Now, Len(pending))
  BY Starts
<1>2. PICK k \in DOMAIN wire :
        /\ Keep(After(k))
        /\ IF Len(After(k).rest) > MaxBuffer
           THEN /\ pending' = <<>> /\ wire' = <<>>
                /\ cut' = cut \cup Lines(After(k).rest \o SubSeq(wire, k + 1, Len(wire)))
           ELSE pending' = After(k).rest /\ wire' = SubSeq(wire, k + 1, Len(wire)) /\ UNCHANGED cut
  BY DEF OnData
<1>3. k \in 0..Len(wire)
  BY <1>1 DEF Laid
<1>4. PICK j \in next..Len(written) + 1 : Reaches(j, at, After(k), Len(pending) + k)
  BY <1>1, <1>3, AfterReaches
<1>5. PICK s : s = After(k)
  OBVIOUS
<1>6. UNCHANGED <<written, second>> /\ Keeps(s)
  BY <1>2, <1>5 DEF OnData, Keep, Keeps
<1>7. CASE ~(Len(s.rest) > MaxBuffer)
  <2>1. Leaves(s, k)
    BY <1>2, <1>5, <1>6, <1>7 DEF Leaves
  <2>2. QED
    BY <1>1, <1>3, <1>4, <1>5, <1>6, <2>1, Chunk
<1>8. CASE Len(s.rest) > MaxBuffer
  <2>1. PICK left \in Seq(Nat) : left = SubSeq(wire, k + 1, Len(wire))
    BY <1>1, <1>3, Remains DEF Laid
  <2>2. IsGone /\ cut' = cut \cup Lines(s.rest \o left)
    BY <1>2, <1>5, <1>6, <1>8, <2>1 DEF IsGone
  <2>3. s \in Hands /\ Rate(s) /\ AreSettledTo(j, s) /\ s.rest \in Seq(Nat)
    BY <1>4, <1>5 DEF Reaches, Hands
  <2>4. ASSUME NEW i \in j..Len(written), Fits(written[i]) PROVE i \in cut'
    <3>1. i \in Lines(left) \/ (i = j /\ s.rest = Units(i, written[i]))
      <4>1. Laid(next, at) /\ Reaches(j, at, s, Len(pending) + k)
        BY <1>1, <1>4, <1>5
      <4>2. i \in Lines(SubSeq(wire, k + 1, Len(wire))) \/ (i = j /\ s.rest = Units(i, written[i]))
        <5>1. j \in next..Len(written) + 1 /\ Fits(written[i]) /\ i \in j..Len(written)
          BY <2>4
        <5>2. QED
          BY <1>3, <4>1, <5>1, Left, SMTT(20)
      <4>3. QED
        BY <2>1, <4>2
    <3>2. ASSUME s.rest = Units(i, written[i]) PROVE i \in Lines(s.rest)
      <4>1. i \in next..Len(written)
        BY <1>1, <1>4 DEF Laid
      <4>2. PICK size \in Nat \ {0} : size = written[i] /\ i \in Nat \ {0}
        BY <1>1, <2>4, <4>1, Ahead
      <4>3. /\ Len(Units(i, size)) = size
            /\ \A x \in 1..size : Units(i, size)[x] = i
        BY <4>2, UnitsAre
      <4>4. s.rest = Units(i, size)
        BY <3>2, <4>2
      <4>5. 1 \in 1..size
        OBVIOUS
      <4>6. QED
        BY <2>3, <4>2, <4>3, <4>4, <4>5, Names
    <3>3. QED
      BY <2>1, <2>2, <2>3, <3>1, <3>2, JoinsLines
  <2>5. j \in 1..Len(written) + 1
    BY <1>1, <1>4 DEF Laid
  <2>6. QED
    BY <1>6, <2>2, <2>3, <2>4, <2>5, Closes
<1>9. QED
  BY <1>7, <1>8

(* At its end the connection takes with it what was not a line.             *)
LEMMA EndsWell ==
  ASSUME Inv, OnEnd PROVE Inv'
<1>1. PICK next, at : Laid(next, at) /\ Reaches(next, at, Now, Len(pending))
  BY Starts
<1>2. PICK k \in 0..Len(wire) :
        /\ Keep(HandleLine(After(k)))
        /\ cut' = cut \cup Lines(SubSeq(wire, k + 1, Len(wire)))
                    \cup (IF IsRead(After(k).rest) THEN {} ELSE Lines(After(k).rest))
  BY DEF OnEnd
<1>3. PICK j \in next..Len(written) + 1 : Reaches(j, at, After(k), Len(pending) + k)
  BY <1>1, AfterReaches
<1>4. PICK s : s = After(k)
  OBVIOUS
<1>5. PICK t : t = HandleLine(s)
  OBVIOUS
<1>6. IsGone /\ cut \subseteq cut' /\ Keeps(t)
  BY <1>2, <1>4, <1>5 DEF OnEnd, Keep, IsGone, Keeps
<1>7. s \in Hands /\ Rate(s) /\ AreSettledTo(j, s) /\ s.rest \in Seq(Nat)
  BY <1>3, <1>4 DEF Reaches, Hands
<1>8. PICK last \in Nat : last = Len(written) /\ written \in Seq(Nat) /\ next \in 1..last + 1 /\ second \in Nat
  BY <1>1 DEF Laid
<1>9. ASSUME NEW i \in j..Len(written), Fits(written[i]) PROVE i \in cut' \/ (i = j /\ s.rest = Units(i, written[i]))
  BY <1>1, <1>2, <1>3, <1>4, <1>9, Left
<1>10. CASE j = last + 1
  <2>1. s.rest = <<>>
    <3>1. /\ at[last + 1] = Len(Stream) + 1 /\ at[last + 1] <= Len(pending) + k + 1
          /\ s.rest = Units(j, Len(pending) + k + 1 - at[last + 1])
      BY <1>1, <1>3, <1>4, <1>8, <1>10 DEF Laid, Reaches, AreLaidOut, Stream, Ends
    <3>2. Len(Stream) = Len(pending) + Len(wire) /\ Len(pending) \in Nat /\ Len(wire) \in Nat
      BY <1>1, Joined DEF Laid, Stream
    <3>3. Len(pending) + k + 1 - at[last + 1] = 0
      BY <3>1, <3>2
    <3>4. QED
      BY <3>1, <3>3 DEF Units
  <2>2. ~IsRead(s.rest)
    BY <2>1 DEF IsRead, Fits
  <2>3. t = [s EXCEPT !.rest = <<>>] /\ <<>> \in Seq(Nat)
    BY <1>5, <2>2 DEF HandleLine
  <2>4. t = s
    BY <1>7, <2>1, <2>3 DEF Hands
  <2>5. j \in 1..Len(written) + 1 /\ j..Len(written) = {}
    BY <1>8, <1>10
  <2>6. QED
    BY <1>6, <1>7, <2>4, <2>5, Closes
<1>11. CASE j # last + 1
  <2>1. j \in 1..Len(written) /\ j + 1 \in 1..Len(written) + 1 /\ j \in Nat
    BY <1>3, <1>8, <1>11
  <2>2. PICK n \in 0..written[j] : s.rest = Units(j, n)
    <3>0. j \in next..Len(written) + 1 /\ written[j] \in Nat
      BY <1>8, <2>1
    <3>1. at[j] \in Nat /\ written[j] \in Nat
      BY <1>1, <3>0 DEF Laid
    <3>2. PICK p \in Nat : p = Len(pending) + k
      BY <1>1 DEF Laid
    <3>3. at[j] <= p + 1 /\ p + 1 <= at[j] + written[j] /\ s.rest = Units(j, p + 1 - at[j])
      BY <1>3, <1>4, <2>1, <3>2 DEF Reaches
    <3>4. p + 1 - at[j] \in 0..written[j]
      BY <3>1, <3>3
    <3>5. QED
      BY <3>3, <3>4
  <2>3. /\ t \in Hands /\ Rate(t)
        /\ n # written[j] => AreSettledTo(j, t)
        /\ n = written[j] => AreSettledTo(j + 1, t)
    BY <1>1, <1>5, <1>7, <1>8, <2>1, <2>2, Handles DEF Laid
  <2>4. CASE n = written[j]
    <3>1. ASSUME NEW i \in j + 1..Len(written), Fits(written[i]) PROVE i \in cut'
      <4>1. i \in j..Len(written) /\ i # j
        BY <2>1, <1>8
      <4>2. QED
        BY <1>9, <3>1, <4>1
    <3>2. QED
      BY <1>6, <2>1, <2>3, <2>4, <3>1, Closes
  <2>5. CASE n # written[j]
    <3>1. ASSUME NEW i \in j..Len(written), Fits(written[i]) PROVE i \in cut'
      <4>1. s.rest # Units(j, written[j])
        <5>1. n \in Nat /\ written[j] \in Nat
          BY <1>8, <2>1
        <5>2. Len(Units(j, n)) = n /\ Len(Units(j, written[j])) = written[j]
          BY <2>1, <5>1, UnitsAre
        <5>3. QED
          BY <2>2, <2>5, <5>2
      <4>2. QED
        BY <1>9, <3>1, <4>1
    <3>2. j \in 1..Len(written) + 1
      BY <1>8, <2>1
    <3>3. QED
      BY <1>6, <2>3, <2>5, <3>1, <3>2, Closes
  <2>6. QED
    BY <2>4, <2>5
<1>12. QED
  BY <1>10, <1>11

(* Time does not move lines.                                                *)
LEMMA OrderStays ==
  ASSUME LinesAreInOrder, UNCHANGED <<written, wire, pending, rows, refused, cut>> PROVE LinesAreInOrder'
<1>1. Stream' = Stream /\ Ends' = Ends
  BY DEF Stream, Ends
<1>2. PICK next \in 1..Ends : \E at \in [next..Ends -> Nat] :
        /\ AreLaidOut(next, at) /\ AreSettledTo(next, Now)
        /\ next <= Len(written) => Len(pending) <= written[next]
  BY DEF LinesAreInOrder
<1>3. PICK at \in [next..Ends -> Nat] :
        /\ AreLaidOut(next, at) /\ AreSettledTo(next, Now)
        /\ next <= Len(written) => Len(pending) <= written[next]
  BY <1>2
<1>4. AreLaidOut(next, at)'
  BY <1>1, <1>3 DEF AreLaidOut
<1>5. AreSettledTo(next, Now)'
  <2>1. Now'.rows = Now.rows /\ Now'.refused = Now.refused
    BY DEF Now
  <2>2. QED
    BY <1>3, <2>1 DEF AreSettledTo
<1>6. next \in 1..Ends' /\ at \in [next..Ends' -> Nat]
  BY <1>1
<1>7. QED
  BY <1>3, <1>4, <1>5, <1>6 DEF LinesAreInOrder

LEMMA Step == ASSUME Inv, Next PROVE Inv'
<1>1. CASE Second
  <2>1. /\ second' = second + 1 /\ tokens' = (IF tokens < Burst THEN tokens + 1 ELSE Burst)
        /\ UNCHANGED <<written, wire, pending, rows, refused, cut, kept>>
    BY <1>1 DEF Second
  <2>2. RateIsKept'
    BY <2>1 DEF Inv, RateIsKept, Sizes
  <2>3. LinesAreInOrder'
    BY <2>1, OrderStays DEF Inv
  <2>4. QED
    BY <2>2, <2>3 DEF Inv
<1>2. CASE LookBackTo
  <2>1. second' = 0 /\ kept' = 0 /\ UNCHANGED <<written, wire, pending, tokens, rows, refused, cut>>
    BY <1>2 DEF LookBackTo
  <2>2. RateIsKept'
    BY <2>1 DEF Inv, RateIsKept, Sizes
  <2>3. LinesAreInOrder'
    BY <2>1, OrderStays DEF Inv
  <2>4. QED
    BY <2>2, <2>3 DEF Inv
<1>3. QED
  BY <1>1, <1>2, Writes, Reads, EndsWell DEF Next

LEMMA Stays == ASSUME Inv, UNCHANGED vars PROVE Inv'
<1>1. UNCHANGED <<written, wire, pending, tokens, rows, refused, cut, second, kept>>
  BY DEF vars
<1>2. LinesAreInOrder'
  BY <1>1, OrderStays DEF Inv
<1>3. QED
  BY <1>1, <1>2 DEF Inv, RateIsKept

(* What is written and not settled has all its units on the way.            *)
LEMMA IsWhole == ASSUME Inv PROVE LinesAreWhole
<1>1. PICK next, at : Laid(next, at) /\ Reaches(next, at, Now, Len(pending))
  BY Starts
<1>2. AreSettledTo(next, Now) /\ Now.rows = rows /\ Now.refused = refused
  BY <1>1 DEF Reaches, Now
<1>3. PICK last \in Nat : last = Len(written) /\ next \in 1..last + 1 /\ DOMAIN written = 1..last
  BY <1>1 DEF Laid
<1>4. PICK line \in Seq(Nat) : line = pending \o wire
  BY <1>1, Joined DEF Laid
<1>5. ASSUME NEW i \in DOMAIN written, Fits(written[i])
      PROVE  i \in Lines(rows) \cup refused \cup cut \cup Lines(line)
  <2>1. CASE i < next
    <3>1. i \in 1..next - 1
      BY <1>3, <2>1
    <3>2. QED
      BY <1>2, <1>5, <3>1 DEF AreSettledTo
  <2>2. CASE i >= next
    <3>1. i \in next..Len(written)
      BY <1>3, <2>2
    <3>2. /\ at[i] \in Nat /\ written[i] \in Nat \ {0} /\ i \in Nat \ {0} /\ 1 <= at[i]
          /\ \A k \in at[i]..at[i] + written[i] - 1 : line[k] = i
          /\ at[i] + written[i] <= Len(line) /\ Len(line) \in Nat
      <4>1. /\ at[i] \in Nat /\ written[i] \in Nat \ {0} /\ i \in Nat \ {0} /\ 1 <= at[i]
            /\ \A k \in at[i]..at[i] + written[i] - 1 : Stream[k] = i
            /\ at[i] + written[i] <= Len(Stream) /\ Len(Stream) \in Nat
        BY <1>1, <1>5, <3>1, Ahead
      <4>2. Stream = line
        BY <1>4 DEF Stream
      <4>3. QED
        BY <4>1, <4>2
    <3>3. PICK a \in Nat, size \in Nat \ {0}, all \in Nat : a = at[i] /\ size = written[i] /\ all = Len(line)
      BY <3>2
    <3>4. 1 <= a /\ a + size <= all
      BY <3>2, <3>3
    <3>5. a \in 1..all /\ a \in a..a + size - 1
      BY <3>4
    <3>6. a \in 1..Len(line) /\ line[a] = i /\ i \in Nat \ {0}
      BY <3>2, <3>3, <3>5
    <3>7. QED
      BY <3>6, Names
  <2>3. QED
    BY <1>3, <2>1, <2>2
<1>6. \A k, l \in DOMAIN rows : k < l => rows[k] < rows[l]
  BY <1>2 DEF AreSettledTo
<1>7. kept <= Burst + second
  BY DEF Inv, RateIsKept, Sizes
<1>8. QED
  BY <1>4, <1>5, <1>6, <1>7 DEF LinesAreWhole

(* The rows are the lines that fit, each once and in its place, but for     *)
(* those that the rate refused or a connection took with it; and no more    *)
(* are kept than the burst and the time allow: handleConnection and         *)
(* createGate, for lines, chunks and buffers of any size.                   *)
THEOREM LinesAreAlwaysWhole == ASSUME Sizes PROVE Spec => []LinesAreWhole
<1>1. Init => Inv
  BY Begins
<1>2. Inv /\ [Next]_vars => Inv'
  BY Step, Stays
<1>3. Inv => LinesAreWhole
  BY IsWhole
<1>4. QED
  BY <1>1, <1>2, <1>3, PTL DEF Spec
===============================================================================
