------------------------- MODULE AccumulatorProofs -------------------------
(***************************************************************************)
(* The accumulator is right for every stream of lines and every way to cut *)
(* it into reads.                                                          *)
(***************************************************************************)
EXTENDS Accumulator, SequenceTheorems, WellFoundedInduction, TLAPS

-----------------------------------------------------------------------------
(* First and last newline.                                                 *)

LEMMA SmallestElement ==
  ASSUME NEW S \in SUBSET Nat, S # {}
  PROVE  \E n \in S : \A m \in S : n <= m
<1>1. \E n \in S : \A m \in S : ~(<<m, n>> \in OpToRel(<, Nat))
  BY NatLessThanWellFounded, WFMin
<1>2. \A m, n \in Nat : ~(<<m, n>> \in OpToRel(<, Nat)) => n <= m
  BY DEF OpToRel
<1> QED
  BY <1>1, <1>2

LEMMA LargestElement ==
  ASSUME NEW b \in Nat, NEW S \in SUBSET (0..b), S # {}
  PROVE  \E n \in S : \A m \in S : m <= n
<1> DEFINE T == {b - m : m \in S}
<1>1. T \in SUBSET Nat /\ T # {}
  <2>1. \A m \in S : b - m \in Nat
    OBVIOUS
  <2>2. PICK m : m \in S
    OBVIOUS
  <2> QED
    BY <2>1, <2>2
<1>2. PICK t \in T : \A u \in T : t <= u
  BY <1>1, SmallestElement
<1>3. PICK n \in S : t = b - n
  BY <1>2
<1>4. ASSUME NEW m \in S PROVE m <= n
  <2>1. b - m \in T
    OBVIOUS
  <2> QED
    BY <1>2, <1>3, <2>1
<1> QED
  BY <1>4

(* IndexByte finds the first newline.                                      *)
LEMMA FirstNewline ==
  ASSUME NEW bytes, Len(bytes) \in Nat
  PROVE  /\ Ends(bytes) = {} => IndexByte(bytes) = 0
         /\ Ends(bytes) # {} => /\ IndexByte(bytes) \in Ends(bytes)
                                /\ \A i \in Ends(bytes) : IndexByte(bytes) <= i
<1> DEFINE newlines == {i \in 1..Len(bytes) : bytes[i].newline}
           First(i) == i \in newlines /\ \A j \in newlines : i <= j
<1>1. newlines = Ends(bytes) /\ newlines \in SUBSET Nat
  BY DEF Ends
<1>2. CASE newlines = {}
  BY <1>1, <1>2 DEF IndexByte
<1>3. CASE newlines # {}
  <2>1. \E i : First(i)
    BY <1>1, <1>3, SmallestElement
  <2>2. First(CHOOSE i : First(i))
    BY <2>1, Zenon
  <2>3. IndexByte(bytes) = CHOOSE i \in newlines : \A j \in newlines : i <= j
    BY <1>3 DEF IndexByte
  <2>4. IndexByte(bytes) = CHOOSE i : First(i)
    BY <2>3, Zenon
  <2>5. First(IndexByte(bytes))
    BY <2>2, <2>4, Zenon
  <2> QED
    BY <1>1, <1>3, <2>5
<1> QED
  BY <1>2, <1>3

LEMMA AfterElements ==
  ASSUME NEW bytes \in Seq(Bytes), NEW n \in 0..Len(bytes)
  PROVE  /\ After(bytes, n) \in Seq(Bytes) /\ Len(After(bytes, n)) = Len(bytes) - n
         /\ \A i \in 1..(Len(bytes) - n) : After(bytes, n)[i] = bytes[n + i]
         /\ \A i \in 1..(Len(bytes) - n) : i \in Ends(After(bytes, n)) <=> n + i \in Ends(bytes)
<1>1. /\ After(bytes, n) \in Seq(Bytes) /\ Len(After(bytes, n)) = Len(bytes) - n
      /\ \A i \in 1..(Len(bytes) - n) : After(bytes, n)[i] = bytes[n + i]
  BY DEF After
<1>2. \A i \in 1..(Len(bytes) - n) : i \in Ends(After(bytes, n)) <=> n + i \in Ends(bytes)
  BY <1>1 DEF Ends
<1> QED
  BY <1>1, <1>2

(* Dropping twice is dropping the sum.                                     *)
LEMMA AfterAfter ==
  ASSUME NEW bytes \in Seq(Bytes), NEW n \in 0..Len(bytes), NEW m \in 0..(Len(bytes) - n)
  PROVE  After(After(bytes, n), m) = After(bytes, n + m)
<1> DEFINE rest == After(bytes, n)
           B == Len(bytes)
<1>1. n + m \in 0..B /\ B \in Nat
  OBVIOUS
<1>2. rest \in Seq(Bytes) /\ Len(rest) = B - n /\ m \in 0..Len(rest)
  BY AfterElements
<1>3. \A i \in 1..(B - n) : rest[i] = bytes[n + i]
  BY AfterElements
<1> HIDE DEF rest
<1>4. /\ After(rest, m) \in Seq(Bytes) /\ Len(After(rest, m)) = (B - n) - m
      /\ \A i \in 1..((B - n) - m) : After(rest, m)[i] = rest[m + i]
  BY <1>2, AfterElements
<1>5. /\ After(bytes, n + m) \in Seq(Bytes) /\ Len(After(bytes, n + m)) = B - (n + m)
      /\ \A i \in 1..(B - (n + m)) : After(bytes, n + m)[i] = bytes[(n + m) + i]
  BY <1>1, AfterElements
<1> HIDE DEF B
<1>6. (B - n) - m = B - (n + m) /\ B - (n + m) \in Nat
  BY <1>1
<1>7. ASSUME NEW i \in 1..(B - (n + m))
      PROVE  After(rest, m)[i] = After(bytes, n + m)[i]
  <2>1. m + i \in 1..(B - n) /\ n + (m + i) = (n + m) + i
    BY <1>1, <1>6
  <2> QED
    BY <1>3, <1>4, <1>5, <1>6, <2>1
<1>8. After(rest, m) = After(bytes, n + m)
  BY <1>4, <1>5, <1>6, <1>7, SeqEqual
<1> QED
  BY <1>8 DEF rest

(* The loop stops behind the last newline.                                 *)
LEMMA DrainsToLast ==
  ASSUME NEW bytes \in Seq(Bytes)
  PROVE  \E n \in {0} \cup Ends(bytes) :
           (\A i \in Ends(bytes) : i <= n) /\ Drain(bytes) = After(bytes, n)
<1> DEFINE B == Len(bytes)
           idx(n) == IndexByte(After(bytes, n))
           at == CHOOSE f : f = [n \in 0..B |-> IF idx(n) = 0 THEN n ELSE f[n + idx(n)]]
<1>1. Drain(bytes) = After(bytes, at[0])
  BY DEF Drain
<1>2. B \in Nat /\ Ends(bytes) \in SUBSET (0..B) /\ 0 \notin Ends(bytes)
  BY DEF Ends
<1>3. PICK last \in {0} \cup Ends(bytes) : \A i \in Ends(bytes) : i <= last
  <2>1. {0} \cup Ends(bytes) \in SUBSET (0..B)
    BY <1>2
  <2> QED
    BY <1>2, <2>1, LargestElement
<1>4. ASSUME NEW n \in 0..B
      PROVE  IF last <= n THEN idx(n) = 0
             ELSE idx(n) \in 1..(B - n) /\ n + idx(n) <= last
  <2>1. /\ Len(After(bytes, n)) = B - n
        /\ \A i \in 1..(B - n) : i \in Ends(After(bytes, n)) <=> n + i \in Ends(bytes)
        /\ Ends(After(bytes, n)) \subseteq 1..(B - n)
    BY AfterElements DEF Ends
  <2>2. CASE last <= n
    <3>1. Ends(After(bytes, n)) = {}
      BY <1>2, <1>3, <2>1, <2>2
    <3> QED
      BY <2>1, <2>2, <3>1, FirstNewline
  <2>3. CASE ~(last <= n)
    <3>1. last \in Ends(bytes) /\ last - n \in 1..(B - n) /\ last = n + (last - n)
      BY <1>2, <1>3, <2>3
    <3>2. last - n \in Ends(After(bytes, n))
      BY <2>1, <3>1
    <3>3. idx(n) \in Ends(After(bytes, n)) /\ idx(n) <= last - n
      BY <2>1, <3>2, FirstNewline
    <3> QED
      BY <1>2, <1>3, <2>1, <2>3, <3>1, <3>3
  <2> QED
    BY <2>2, <2>3
<1> HIDE DEF idx
<1>5. at = [n \in 0..B |-> IF idx(n) = 0 THEN n ELSE at[n + idx(n)]]
  <2> DEFINE closed == [n \in 0..B |-> IF last <= n THEN n ELSE last]
             Defines(f) == f = [n \in 0..B |-> IF idx(n) = 0 THEN n ELSE f[n + idx(n)]]
  <2>1. ASSUME NEW n \in 0..B
        PROVE  closed[n] = IF idx(n) = 0 THEN n ELSE closed[n + idx(n)]
    BY <1>2, <1>3, <1>4
  <2>2. closed = [n \in 0..B |-> IF idx(n) = 0 THEN n ELSE closed[n + idx(n)]]
    BY <2>1
  <2>3. Defines(closed)
    BY <2>2
  <2> HIDE DEF closed
  <2>4. Defines(CHOOSE f : Defines(f))
    BY <2>3, Zenon
  <2> QED
    BY <2>4, Zenon
<1> HIDE DEF at
<1>6. ASSUME NEW n \in 0..B PROVE at[n] = IF last <= n THEN n ELSE last
  <2> DEFINE wrong == {m \in 0..B : ~(at[m] = IF last <= m THEN m ELSE last)}
  <2>1. CASE wrong # {}
    <3>1. wrong \in SUBSET (0..B)
      OBVIOUS
    <3>2. PICK m \in wrong : \A k \in wrong : k <= m
      BY <1>2, <2>1, <3>1, LargestElement
    <3>3. at[m] = IF idx(m) = 0 THEN m ELSE at[m + idx(m)]
      BY <1>5, <3>2
    <3>4. CASE last <= m
      BY <1>4, <3>2, <3>3, <3>4
    <3>5. CASE ~(last <= m)
      <4>1. /\ idx(m) # 0 /\ m + idx(m) \in 0..B /\ m + idx(m) > m /\ m + idx(m) <= last
        BY <1>2, <1>3, <1>4, <3>2, <3>5
      <4>2. m + idx(m) \notin wrong
        BY <3>2, <4>1
      <4>3. at[m + idx(m)] = last
        BY <1>2, <1>3, <4>1, <4>2
      <4> QED
        BY <3>2, <3>3, <3>5, <4>1, <4>3
    <3> QED
      BY <3>4, <3>5
  <2> QED
    BY <2>1
<1>7. at[0] = last
  BY <1>2, <1>3, <1>6
<1> QED
  BY <1>1, <1>3, <1>7

-----------------------------------------------------------------------------
(* The inductive invariant.                                                *)

(* All the peer has written.                                               *)
Stream == fed \o pending

(* The bytes are those of the lines, one line after the other.             *)
Placed ==
  /\ \A p \in 1..Len(Stream) :
       /\ Stream[p].line \in 1..Len(lines)
       /\ Stream[p].newline <=> Stream[p].place = lines[Stream[p].line].length
  /\ Stream # <<>> => Stream[1].place = 1 /\ Stream[Len(Stream)].newline
  /\ \A p \in 1..Len(Stream) : Stream[p].newline /\ p < Len(Stream) => Stream[p + 1].place = 1
  /\ \A p, q \in 1..Len(Stream) :
       p <= q /\ (\A r \in p..(q - 1) : ~Stream[r].newline) =>
         Stream[q].line = Stream[p].line /\ Stream[q].place = Stream[p].place + (q - p)

(* A call is about lines that have been written.                           *)
Known ==
  \A i \in 1..Len(calls) :
    \A j \in 1..Len(calls[i].data) : calls[i].data[j].line \in 1..Len(lines)

(* AnswersFirstLine, of one call.                                          *)
AnswerOf(c, ls) ==
  IF Ends(c.data) = {}
  THEN c.outcome = "nothing"
  ELSE LET k == c.data[IndexByte(c.data)].line IN
       c.line = [i \in 1..ls[k].length |->
                   [line |-> k, place |-> i, newline |-> i = ls[k].length]]

LEMMA CallsAnswer ==
  /\ AnswersFirstLine <=> \A i \in 1..Len(calls) : AnswerOf(calls[i], lines)
  /\ AnswersFirstLine' <=> \A i \in 1..Len(calls') : AnswerOf(calls'[i], lines')
<1>1. \A cs, ls : (\A c \in {cs[i] : i \in 1..Len(cs)} : AnswerOf(c, ls))
                    <=> \A i \in 1..Len(cs) : AnswerOf(cs[i], ls)
  BY Zenon
<1>2. /\ AnswersFirstLine <=> \A c \in {calls[i] : i \in 1..Len(calls)} : AnswerOf(c, lines)
      /\ AnswersFirstLine' <=> \A c \in {calls'[i] : i \in 1..Len(calls')} : AnswerOf(c, lines')
  BY Zenon DEF AnswersFirstLine, AnswerOf
<1> QED
  BY <1>1, <1>2, Zenon

AInv == TypeOK /\ BufferIsOpenLine /\ Placed /\ Known /\ AnswersFirstLine

-----------------------------------------------------------------------------
(* One call.                                                               *)

LEMMA ConcatElements ==
  ASSUME NEW s \in Seq(Bytes), NEW t \in Seq(Bytes)
  PROVE  /\ s \o t \in Seq(Bytes) /\ Len(s \o t) = Len(s) + Len(t)
         /\ \A i \in 1..Len(s) : (s \o t)[i] = s[i]
         /\ \A i \in 1..Len(t) : (s \o t)[Len(s) + i] = t[i]
         /\ \A i \in 1..Len(s) : i \in Ends(s \o t) <=> i \in Ends(s)
         /\ \A i \in 1..Len(t) : Len(s) + i \in Ends(s \o t) <=> i \in Ends(t)
<1>1. /\ s \o t \in Seq(Bytes) /\ Len(s \o t) = Len(s) + Len(t)
      /\ \A i \in 1..Len(s) : (s \o t)[i] = s[i]
      /\ \A i \in 1..Len(t) : (s \o t)[Len(s) + i] = t[i]
  OBVIOUS
<1>2. \A i \in 1..Len(s) : i \in 1..(Len(s) + Len(t))
  OBVIOUS
<1>3. \A i \in 1..Len(t) : Len(s) + i \in 1..(Len(s) + Len(t))
  OBVIOUS
<1> QED
  BY <1>1, <1>2, <1>3 DEF Ends

LEMMA AfterConcat ==
  ASSUME NEW s \in Seq(Bytes), NEW t \in Seq(Bytes), NEW n \in 0..Len(s)
  PROVE  After(s, n) \o t = After(s \o t, n)
<1> DEFINE S == Len(s)
           T == Len(t)
           rest == After(s, n)
           all == s \o t
<1>1. S \in Nat /\ T \in Nat /\ n \in 0..(S + T) /\ n \in 0..S
  OBVIOUS
<1>2. /\ all \in Seq(Bytes) /\ Len(all) = S + T
      /\ \A i \in 1..S : all[i] = s[i]
      /\ \A i \in 1..T : all[S + i] = t[i]
  BY ConcatElements
<1>3. /\ rest \in Seq(Bytes) /\ Len(rest) = S - n
      /\ \A i \in 1..(S - n) : rest[i] = s[n + i]
  BY AfterElements
<1> HIDE DEF rest, all
<1>4. /\ rest \o t \in Seq(Bytes) /\ Len(rest \o t) = (S - n) + T
      /\ \A i \in 1..(S - n) : (rest \o t)[i] = rest[i]
      /\ \A i \in 1..T : (rest \o t)[(S - n) + i] = t[i]
  <2>1. /\ rest \o t \in Seq(Bytes) /\ Len(rest \o t) = Len(rest) + T
        /\ \A i \in 1..Len(rest) : (rest \o t)[i] = rest[i]
        /\ \A i \in 1..T : (rest \o t)[Len(rest) + i] = t[i]
    BY <1>3, ConcatElements
  <2> QED
    BY <1>3, <2>1, Zenon
<1>5. /\ After(all, n) \in Seq(Bytes) /\ Len(After(all, n)) = (S + T) - n
      /\ \A i \in 1..((S + T) - n) : After(all, n)[i] = all[n + i]
  <2>1. n \in 0..Len(all)
    BY <1>1, <1>2
  <2>2. /\ After(all, n) \in Seq(Bytes) /\ Len(After(all, n)) = Len(all) - n
        /\ \A i \in 1..(Len(all) - n) : After(all, n)[i] = all[n + i]
    BY <1>2, <2>1, AfterElements
  <2> QED
    BY <1>2, <2>2, Zenon
<1> HIDE DEF S, T
<1>6. (S + T) - n = (S - n) + T /\ (S + T) - n \in Nat
  BY <1>1
<1>7. ASSUME NEW i \in 1..((S + T) - n) PROVE (rest \o t)[i] = After(all, n)[i]
  <2>1. CASE i <= S - n
    <3>1. i \in 1..(S - n) /\ n + i \in 1..S
      BY <1>1, <2>1
    <3> QED
      BY <1>2, <1>3, <1>4, <1>5, <3>1
  <2>2. CASE ~(i <= S - n)
    <3>1. i - (S - n) \in 1..T /\ i = (S - n) + (i - (S - n)) /\ n + i = S + (i - (S - n))
      BY <1>1, <2>2
    <3>2. (rest \o t)[i] = t[i - (S - n)]
      BY <1>4, <3>1
    <3>3. all[n + i] = t[i - (S - n)]
      BY <1>2, <3>1
    <3>4. After(all, n)[i] = all[n + i]
      BY <1>5
    <3> QED
      BY <3>2, <3>3, <3>4
  <2> QED
    BY <2>1, <2>2
<1>8. rest \o t = After(all, n)
  BY <1>4, <1>5, <1>6, <1>7, SeqEqual
<1> QED
  BY <1>8 DEF rest, all

(* What stays in the buffer is the open line of all that was fed.          *)
LEMMA RestIsOpenLine ==
  ASSUME fed \in Seq(Bytes), NEW data \in Seq(Bytes), BufferIsOpenLine
  PROVE  \E m \in {0} \cup Ends(fed \o data) :
           /\ \A i \in Ends(fed \o data) : i <= m
           /\ ReadCompleteLine(data).rest = After(fed \o data, m)
<1>1. PICK n \in {0} \cup Ends(fed) : (\A i \in Ends(fed) : i <= n) /\ buffer = After(fed, n)
  BY DEF BufferIsOpenLine
<1> DEFINE all == fed \o data
           F == Len(fed)
           D == Len(data)
           whole == buffer \o data
           idx == IndexByte(whole)
<1>2. /\ F \in Nat /\ D \in Nat /\ n \in 0..F
      /\ Ends(fed) \subseteq 1..F /\ Ends(data) \subseteq 1..D
  BY DEF Ends
<1>3. /\ all \in Seq(Bytes) /\ Len(all) = F + D
      /\ \A i \in 1..F : i \in Ends(all) <=> i \in Ends(fed)
  BY ConcatElements
<1>4. whole = After(all, n)
  BY <1>1, <1>2, AfterConcat
<1> HIDE DEF all, whole
<1>5. /\ whole \in Seq(Bytes) /\ Len(whole) = (F + D) - n
      /\ \A i \in 1..((F + D) - n) : i \in Ends(whole) <=> n + i \in Ends(all)
      /\ Ends(whole) \subseteq 1..((F + D) - n) /\ Ends(all) \subseteq 1..(F + D)
  <2>1. n \in 0..Len(all)
    BY <1>2, <1>3
  <2> QED
    BY <1>3, <1>4, <2>1, AfterElements DEF Ends
<1>6. n \in {0} \cup Ends(all)
  BY <1>1, <1>2, <1>3
<1> HIDE DEF F, D
<1>7. \A i \in Ends(all) : i <= n \/ i - n \in Ends(whole)
  <2> SUFFICES ASSUME NEW i \in Ends(all), ~(i <= n) PROVE i - n \in Ends(whole)
    OBVIOUS
  <2>1. i - n \in 1..((F + D) - n) /\ i = n + (i - n)
    BY <1>2, <1>5
  <2> QED
    BY <1>5, <2>1
<1>8. CASE Ends(whole) = {}
  <2>1. idx = 0
    BY <1>2, <1>5, <1>8, FirstNewline
  <2>2. ReadCompleteLine(data).rest = whole
    BY <2>1 DEF ReadCompleteLine, whole
  <2> QED
    BY <1>4, <1>6, <1>7, <1>8, <2>2 DEF all
<1>9. CASE Ends(whole) # {}
  <2>1. idx \in Ends(whole) /\ (\A i \in Ends(whole) : idx <= i) /\ idx \in 1..((F + D) - n)
    <3>1. Len(whole) \in Nat
      BY <1>5
    <3>2. idx \in Ends(whole) /\ (\A i \in Ends(whole) : idx <= i)
      BY <1>9, <3>1, FirstNewline
    <3> QED
      BY <1>5, <3>2
  <2> DEFINE rest == After(whole, idx)
             W == Len(whole)
  <2>2. W = (F + D) - n /\ idx \in 0..W /\ W \in Nat
    BY <1>2, <1>5, <2>1
  <2>3. ReadCompleteLine(data).rest = Drain(rest)
    BY <2>1 DEF ReadCompleteLine, whole
  <2> HIDE DEF idx
  <2>4. /\ rest \in Seq(Bytes) /\ Len(rest) = W - idx
        /\ \A i \in 1..(W - idx) : i \in Ends(rest) <=> idx + i \in Ends(whole)
        /\ Ends(rest) \subseteq 1..(W - idx)
    BY <1>5, <2>2, AfterElements DEF Ends
  <2> HIDE DEF rest, W
  <2>5. PICK k \in {0} \cup Ends(rest) :
          (\A i \in Ends(rest) : i <= k) /\ Drain(rest) = After(rest, k)
    BY <2>4, DrainsToLast
  <2>6. k \in 0..(W - idx) /\ idx + k \in 0..W /\ idx + k \in Ends(whole)
    <3>1. k = 0 \/ (k \in 1..(W - idx) /\ idx + k \in Ends(whole))
      BY <2>4, <2>5
    <3> QED
      BY <2>1, <2>2, <3>1
  <2>7. Drain(rest) = After(whole, idx + k)
    BY <1>5, <2>2, <2>5, <2>6, AfterAfter DEF rest, W
  <2>8. Drain(rest) = After(all, n + (idx + k))
    <3>1. n \in 0..Len(all) /\ idx + k \in 0..(Len(all) - n)
      BY <1>2, <1>3, <2>2, <2>6
    <3> QED
      BY <1>3, <1>4, <2>7, <3>1, AfterAfter
  <2>9. n + (idx + k) \in Ends(all)
    <3>1. idx + k \in 1..((F + D) - n)
      BY <1>5, <2>6
    <3> QED
      BY <1>5, <2>6, <3>1
  <2>10. ASSUME NEW i \in Ends(all) PROVE i <= n + (idx + k)
    <3>1. CASE i <= n
      BY <1>2, <1>5, <2>2, <2>6, <3>1
    <3>2. CASE i - n \in Ends(whole) /\ i - n <= idx
      BY <1>2, <1>5, <2>2, <2>6, <3>2
    <3>3. CASE i - n \in Ends(whole) /\ ~(i - n <= idx)
      <4>1. (i - n) - idx \in 1..(W - idx) /\ idx + ((i - n) - idx) = i - n
        <5>1. i - n \in 1..W /\ i \in Nat /\ idx \in Nat
          BY <1>2, <1>5, <2>2, <3>3
        <5> QED
          BY <2>2, <3>3, <5>1
      <4>2. (i - n) - idx \in Ends(rest)
        BY <2>4, <3>3, <4>1
      <4>3. (i - n) - idx <= k
        BY <2>5, <4>2
      <4> QED
        BY <1>2, <1>5, <2>2, <2>6, <4>3
    <3> QED
      BY <1>7, <3>1, <3>2, <3>3
  <2> QED
    BY <2>3, <2>8, <2>9, <2>10 DEF all
<1> QED
  BY <1>8, <1>9

(* A read moves the head of pending behind fed.                            *)
LEMMA ReadFromStream ==
  ASSUME fed \in Seq(Bytes), pending \in Seq(Bytes), NEW n \in 1..Len(pending),
         NEW data, data = SubSeq(pending, 1, n)
  PROVE  /\ data \in Seq(Bytes) /\ Len(data) = n /\ \A i \in 1..n : data[i] = pending[i]
         /\ (fed \o data) \o After(pending, n) = Stream
<1> DEFINE F == Len(fed)
           P == Len(pending)
           rest == After(pending, n)
           all == fed \o data
<1>1. F \in Nat /\ P \in Nat /\ n \in 1..P
  OBVIOUS
<1>2. data \in Seq(Bytes) /\ Len(data) = n /\ \A i \in 1..n : data[i] = pending[i]
  OBVIOUS
<1>3. /\ rest \in Seq(Bytes) /\ Len(rest) = P - n
      /\ \A i \in 1..(P - n) : rest[i] = pending[n + i]
  BY AfterElements
<1>4. /\ all \in Seq(Bytes) /\ Len(all) = F + n
      /\ \A i \in 1..F : all[i] = fed[i]
      /\ \A i \in 1..n : all[F + i] = pending[i]
  BY <1>2, ConcatElements
<1>5. /\ Stream \in Seq(Bytes) /\ Len(Stream) = F + P
      /\ \A i \in 1..F : Stream[i] = fed[i]
      /\ \A i \in 1..P : Stream[F + i] = pending[i]
  BY ConcatElements DEF Stream
<1> HIDE DEF F, P, rest, all
<1>6. /\ all \o rest \in Seq(Bytes) /\ Len(all \o rest) = (F + n) + (P - n)
      /\ \A i \in 1..(F + n) : (all \o rest)[i] = all[i]
      /\ \A i \in 1..(P - n) : (all \o rest)[(F + n) + i] = rest[i]
  <2>1. /\ all \o rest \in Seq(Bytes) /\ Len(all \o rest) = Len(all) + Len(rest)
        /\ \A i \in 1..Len(all) : (all \o rest)[i] = all[i]
        /\ \A i \in 1..Len(rest) : (all \o rest)[Len(all) + i] = rest[i]
    BY <1>3, <1>4, ConcatElements
  <2> QED
    BY <1>3, <1>4, <2>1, Zenon
<1>7. (F + n) + (P - n) = F + P
  BY <1>1
<1>8. ASSUME NEW i \in 1..(F + P) PROVE (all \o rest)[i] = Stream[i]
  <2>1. CASE i <= F
    <3>1. i \in 1..F /\ i \in 1..(F + n)
      BY <1>1, <2>1
    <3> QED
      BY <1>4, <1>5, <1>6, <3>1
  <2>2. CASE ~(i <= F) /\ i <= F + n
    <3>1. i - F \in 1..n /\ i - F \in 1..P /\ i \in 1..(F + n) /\ i = F + (i - F)
      BY <1>1, <2>2
    <3>2. all[i] = pending[i - F]
      BY <1>4, <3>1
    <3>3. Stream[i] = pending[i - F]
      BY <1>5, <3>1
    <3> QED
      BY <1>6, <3>1, <3>2, <3>3
  <2>3. CASE ~(i <= F + n)
    <3>1. /\ i - (F + n) \in 1..(P - n) /\ i = (F + n) + (i - (F + n))
          /\ i - F \in 1..P /\ i = F + (i - F) /\ n + (i - (F + n)) = i - F
      BY <1>1, <2>3
    <3>2. (all \o rest)[i] = rest[i - (F + n)]
      BY <1>6, <3>1
    <3>3. rest[i - (F + n)] = pending[i - F]
      BY <1>3, <3>1
    <3>4. Stream[i] = pending[i - F]
      BY <1>5, <3>1
    <3> QED
      BY <3>2, <3>3, <3>4
  <2> QED
    BY <2>1, <2>2, <2>3
<1>9. all \o rest = Stream
  BY <1>5, <1>6, <1>7, <1>8, SeqEqual
<1> QED
  BY <1>2, <1>9 DEF all, rest

(* The line of a call is the first one that its chunk completes.           *)
LEMMA LineIsFirst ==
  ASSUME TypeOK, BufferIsOpenLine, Placed, NEW n \in 1..Len(pending),
         NEW data, data = SubSeq(pending, 1, n)
  PROVE  /\ Ends(data) = {} => ReadCompleteLine(data).line = <<>>
         /\ Ends(data) # {} =>
              LET k == data[IndexByte(data)].line
                  line == ReadCompleteLine(data).line
              IN  /\ k \in 1..Len(lines) /\ line # <<>> /\ line[1].line = k
                  /\ line \in Seq(Bytes)
                  /\ line = [i \in 1..lines[k].length |->
                               [line |-> k, place |-> i, newline |-> i = lines[k].length]]
<1>1. PICK o \in {0} \cup Ends(fed) : (\A i \in Ends(fed) : i <= o) /\ buffer = After(fed, o)
  BY DEF BufferIsOpenLine
<1> DEFINE F == Len(fed)
           all == fed \o data
           whole == buffer \o data
           idx == IndexByte(whole)
           d == IndexByte(data)
<1>2. fed \in Seq(Bytes) /\ pending \in Seq(Bytes) /\ F \in Nat /\ n \in Nat
  BY DEF TypeOK
<1>3. o \in 0..F /\ Ends(fed) \subseteq 1..F
  BY <1>1, <1>2 DEF Ends
<1>4. /\ data \in Seq(Bytes) /\ Len(data) = n
      /\ all \o After(pending, n) = Stream
  BY <1>2, ReadFromStream
<1>5. /\ all \in Seq(Bytes) /\ Len(all) = F + n
      /\ \A i \in 1..F : i \in Ends(all) <=> i \in Ends(fed)
      /\ \A i \in 1..n : F + i \in Ends(all) <=> i \in Ends(data)
      /\ \A i \in 1..n : all[F + i] = data[i]
      /\ Ends(data) \subseteq 1..n
  BY <1>2, <1>4, ConcatElements DEF Ends
<1>6. whole = After(all, o)
  BY <1>1, <1>2, <1>3, <1>4, AfterConcat
<1>7. /\ whole \in Seq(Bytes) /\ Len(whole) = (F + n) - o
      /\ \A i \in 1..((F + n) - o) : whole[i] = all[o + i]
      /\ \A i \in 1..((F + n) - o) : i \in Ends(whole) <=> o + i \in Ends(all)
      /\ Ends(whole) \subseteq 1..((F + n) - o)
  <2> HIDE DEF all, whole, F
  <2>1. o \in 0..Len(all)
    BY <1>2, <1>3, <1>5
  <2>2. /\ whole \in Seq(Bytes) /\ Len(whole) = Len(all) - o
        /\ \A i \in 1..(Len(all) - o) : whole[i] = all[o + i]
        /\ \A i \in 1..(Len(all) - o) : i \in Ends(whole) <=> o + i \in Ends(all)
    BY <1>5, <1>6, <2>1, AfterElements
  <2>3. Ends(whole) \subseteq 1..Len(whole)
    BY DEF Ends
  <2> QED
    BY <1>5, <2>2, <2>3, Zenon
<1>8. /\ Stream \in Seq(Bytes) /\ F + n <= Len(Stream)
      /\ \A i \in 1..(F + n) : Stream[i] = all[i]
      /\ \A i \in 1..(F + n) : i \in Ends(all) <=> all[i].newline
  <2> HIDE DEF all, F
  <2> DEFINE rest == After(pending, n)
  <2>1. rest \in Seq(Bytes) /\ n \in 0..Len(pending)
    BY <1>2, AfterElements
  <2> HIDE DEF rest
  <2>2. /\ all \o rest \in Seq(Bytes) /\ Len(all \o rest) = Len(all) + Len(rest)
        /\ \A i \in 1..Len(all) : (all \o rest)[i] = all[i]
    BY <1>5, <2>1, ConcatElements
  <2>3. Len(rest) \in Nat /\ all \o rest = Stream
    BY <1>4, <2>1 DEF rest
  <2>4. \A i \in 1..Len(all) : i \in Ends(all) <=> all[i].newline
    BY DEF Ends
  <2> QED
    BY <1>2, <1>5, <2>2, <2>3, <2>4
<1> HIDE DEF F, all, whole
<1>9. ASSUME NEW i \in Ends(whole)
      PROVE  i - (F - o) \in Ends(data) /\ o + i = F + (i - (F - o))
  <2>1. o + i \in Ends(all) /\ i \in 1..((F + n) - o)
    BY <1>7
  <2>2. ~(o + i <= F)
    <3>1. o + i <= F => o + i \in 1..F
      BY <1>2, <1>3, <2>1
    <3>2. o + i \in 1..F => o + i \in Ends(fed)
      BY <1>5, <2>1
    <3>3. ~(o + i <= o)
      BY <1>2, <1>3, <2>1
    <3> QED
      BY <1>1, <3>1, <3>2, <3>3
  <2>3. i - (F - o) \in 1..n /\ o + i = F + (i - (F - o))
    BY <1>2, <1>3, <2>1, <2>2
  <2> QED
    BY <1>5, <2>1, <2>3
<1>10. CASE Ends(data) = {}
  <2>1. Ends(whole) = {}
    BY <1>9, <1>10
  <2>2. idx = 0
    BY <1>2, <1>3, <1>7, <2>1, FirstNewline
  <2> QED
    BY <1>10, <2>2 DEF ReadCompleteLine, whole
<1>11. CASE Ends(data) # {}
  <2>1. d \in Ends(data) /\ (\A i \in Ends(data) : d <= i) /\ d \in 1..n
    BY <1>2, <1>4, <1>5, <1>11, FirstNewline
  <2> HIDE DEF d
  <2>2. (F - o) + d \in Ends(whole)
    <3>1. (F - o) + d \in 1..((F + n) - o) /\ o + ((F - o) + d) = F + d
      BY <1>2, <1>3, <2>1
    <3> QED
      BY <1>5, <1>7, <2>1, <3>1
  <2>3. idx \in Ends(whole) /\ (\A i \in Ends(whole) : idx <= i) /\ idx \in 1..((F + n) - o)
    <3>1. Len(whole) \in Nat
      BY <1>2, <1>3, <1>7
    <3>2. idx \in Ends(whole) /\ (\A i \in Ends(whole) : idx <= i)
      BY <2>2, <3>1, FirstNewline
    <3> QED
      BY <1>7, <3>2
  <2>4. ReadCompleteLine(data).line = SubSeq(whole, 1, idx)
    <3>1. idx # 0
      BY <2>3
    <3> QED
      BY <3>1 DEF ReadCompleteLine, whole
  <2> HIDE DEF idx
  <2>5. idx - (F - o) = d /\ o + idx = F + d
    <3>1. idx <= (F - o) + d /\ d <= idx - (F - o) /\ o + idx = F + (idx - (F - o))
      BY <1>9, <2>1, <2>2, <2>3
    <3> QED
      BY <1>2, <1>3, <2>1, <2>3, <3>1
  <2>6. ASSUME NEW i \in 1..idx
        PROVE  /\ whole[i] = Stream[o + i] /\ o + i \in 1..Len(Stream)
               /\ Stream[o + i].newline <=> i = idx
    <3>1. i \in 1..((F + n) - o) /\ o + i \in 1..(F + n) /\ o + i \in 1..Len(Stream)
      BY <1>2, <1>3, <1>8, <2>3
    <3>2. i \in Ends(whole) <=> i = idx
      BY <2>3
    <3>3. Stream[o + i].newline <=> i = idx
      BY <1>7, <1>8, <3>1, <3>2
    <3> QED
      BY <1>7, <1>8, <3>1, <3>3
  <2> DEFINE k == data[d].line
  <2>7. k = Stream[o + idx].line
    <3>1. data[d] = all[F + d]
      BY <1>5, <2>1
    <3>2. F + d \in 1..(F + n)
      BY <1>2, <2>1
    <3> QED
      BY <1>8, <2>5, <3>1, <3>2
  <2> HIDE DEF k
  <2>8. Stream[o + 1].place = 1
    <3>0. 1 \in 1..idx /\ o + 1 \in 1..Len(Stream)
      BY <2>3, <2>6
    <3>1. CASE o = 0
      BY <1>8, <3>0, <3>1 DEF Placed
    <3>2. CASE o # 0
      <4>1. o \in Ends(fed) /\ o \in 1..F
        BY <1>1, <1>3, <3>2
      <4>2. o \in 1..(F + n) /\ o \in 1..Len(Stream) /\ o < Len(Stream)
        BY <1>2, <1>8, <3>0, <4>1
      <4>3. Stream[o].newline
        BY <1>5, <1>8, <4>1, <4>2
      <4> QED
        BY <4>2, <4>3 DEF Placed
    <3> QED
      BY <3>1, <3>2
  <2>9. ASSUME NEW i \in 1..idx
        PROVE  Stream[o + i].line = Stream[o + 1].line /\ Stream[o + i].place = i
    <3>1. /\ o + 1 \in 1..Len(Stream) /\ o + i \in 1..Len(Stream) /\ o + 1 <= o + i
          /\ 1 + ((o + i) - (o + 1)) = i
      BY <1>3, <2>3, <2>6
    <3>2. ASSUME NEW r \in (o + 1)..((o + i) - 1) PROVE ~Stream[r].newline
      <4>1. r - o \in 1..idx /\ r - o # idx /\ r = o + (r - o)
        BY <1>3, <2>3
      <4> QED
        BY <2>6, <4>1
    <3>3. /\ Stream[o + i].line = Stream[o + 1].line
          /\ Stream[o + i].place = Stream[o + 1].place + ((o + i) - (o + 1))
      BY <3>1, <3>2 DEF Placed
    <3> QED
      BY <2>8, <3>1, <3>3
  <2>10. idx \in 1..idx /\ 1 \in 1..idx
    BY <2>3
  <2>11. k = Stream[o + 1].line /\ k \in 1..Len(lines) /\ lines[k].length = idx
    <3>1. k = Stream[o + 1].line
      BY <2>7, <2>9, <2>10
    <3>2. o + idx \in 1..Len(Stream) /\ Stream[o + idx].newline
      BY <2>6, <2>10
    <3>3. k \in 1..Len(lines) /\ Stream[o + idx].place = lines[k].length
      BY <2>7, <3>2 DEF Placed
    <3> QED
      BY <2>9, <2>10, <3>1, <3>3
  <2>12. ASSUME NEW i \in 1..idx
         PROVE  whole[i] = [line |-> k, place |-> i, newline |-> i = idx]
    <3>1. Stream[o + i] \in Bytes
      BY <1>8, <2>6
    <3>2. Stream[o + i].newline = (i = idx)
      BY <2>6, <3>1 DEF Bytes
    <3>3. /\ Stream[o + i].line = k /\ Stream[o + i].place = i
      BY <2>9, <2>11
    <3> QED
      BY <2>6, <3>1, <3>2, <3>3 DEF Bytes
  <2>13. SubSeq(whole, 1, idx) = [i \in 1..idx |-> [line |-> k, place |-> i, newline |-> i = idx]]
    <3>1. SubSeq(whole, 1, idx) = [i \in 1..idx |-> whole[i]]
      <4>1. idx <= Len(whole)
        BY <1>7, <2>3
      <4> QED
        BY <1>7, <2>3, <4>1
    <3> QED
      BY <2>12, <3>1
  <2>14. SubSeq(whole, 1, idx)[1].line = k /\ SubSeq(whole, 1, idx) # <<>>
    <3>1. SubSeq(whole, 1, idx)[1] = whole[1] /\ Len(SubSeq(whole, 1, idx)) = idx
      BY <1>7, <2>3
    <3>2. Len(SubSeq(whole, 1, idx)) # Len(<<>>)
      BY <2>3, <3>1
    <3>3. whole[1] = [line |-> k, place |-> 1, newline |-> 1 = idx]
      BY <2>10, <2>12
    <3>4. whole[1].line = k
      BY <3>3
    <3> QED
      BY <3>1, <3>2, <3>4
  <2>15. SubSeq(whole, 1, idx) \in Seq(Bytes)
    <3>1. idx <= Len(whole)
      BY <1>7, <2>3
    <3> QED
      BY <1>7, <2>3, <3>1
  <2> QED
    BY <1>11, <2>4, <2>11, <2>13, <2>14, <2>15 DEF k, d
<1> QED
  BY <1>10, <1>11

-----------------------------------------------------------------------------
(* The invariant is kept.                                                  *)

LEMMA Outcomes ==
  ASSUME NEW line
  PROVE  /\ Parse(line) \in {"nothing", "message", "error"}
         /\ Parse(line) = "nothing" <=> line = <<>>
<1>1. CASE line = <<>>
  BY <1>1 DEF Parse
<1>2. CASE line # <<>>
  BY <1>2 DEF Parse
<1> QED
  BY <1>1, <1>2

LEMMA AccumulateKept ==
  ASSUME AInv, NEW n \in 1..Len(pending), Accumulate(n)
  PROVE  AInv'
<1> DEFINE data == SubSeq(pending, 1, n)
           got == ReadCompleteLine(data)
           outcome == Parse(got.line)
           call == [data |-> data, line |-> got.line, outcome |-> outcome]
           C == Len(calls)
<1>1. /\ TypeOK /\ BufferIsOpenLine /\ Placed /\ Known /\ AnswersFirstLine
      /\ fed \in Seq(Bytes) /\ pending \in Seq(Bytes) /\ n \in 0..Len(pending) /\ n \in Nat
  BY DEF AInv, TypeOK
<1>2. /\ buffer' = got.rest /\ fed' = fed \o data /\ calls' = Append(calls, call)
      /\ stopped' = Stops(outcome) /\ ~stopped /\ pending' = After(pending, n)
      /\ UNCHANGED <<side, lines>>
  BY DEF Accumulate
<1>3. /\ data \in Seq(Bytes) /\ Len(data) = n /\ \A i \in 1..n : data[i] = pending[i]
      /\ (fed \o data) \o After(pending, n) = Stream
  BY <1>1, ReadFromStream
<1>4. /\ Ends(data) = {} => got.line = <<>>
      /\ Ends(data) # {} =>
           LET k == data[IndexByte(data)].line
           IN  /\ k \in 1..Len(lines) /\ got.line # <<>> /\ got.line[1].line = k
               /\ got.line \in Seq(Bytes)
               /\ got.line = [i \in 1..lines[k].length |->
                              [line |-> k, place |-> i, newline |-> i = lines[k].length]]
  BY <1>1, LineIsFirst
<1>5. \E m \in {0} \cup Ends(fed \o data) :
        (\A i \in Ends(fed \o data) : i <= m) /\ got.rest = After(fed \o data, m)
  BY <1>1, <1>3, RestIsOpenLine
<1> HIDE DEF data, got
<1>6. got.rest \in Seq(Bytes)
  <2>1. fed \o data \in Seq(Bytes)
    BY <1>1, <1>3
  <2> DEFINE all == fed \o data
  <2> HIDE DEF all
  <2>2. PICK m \in {0} \cup Ends(all) : got.rest = After(all, m)
    BY <1>5 DEF all
  <2>3. all \in Seq(Bytes) /\ m \in 0..Len(all)
    BY <2>1, <2>2 DEF Ends, all
  <2> QED
    BY <2>2, <2>3, AfterElements
<1>7. got.line \in Seq(Bytes)
  <2>1. CASE Ends(data) = {}
    <3>1. got.line = <<>>
      BY <1>4, <2>1
    <3>2. <<>> \in Seq(Bytes)
      OBVIOUS
    <3> QED
      BY <3>1, <3>2
  <2>2. CASE Ends(data) # {}
    BY <1>4, <2>2
  <2> QED
    BY <2>1, <2>2
<1>8. outcome \in {"nothing", "message", "error"}
  BY <1>1, Outcomes
<1> HIDE DEF outcome
<1>9. /\ call.data = data /\ call.line = got.line /\ call.outcome = outcome
      /\ call \in [data : Seq(Bytes), line : Seq(Bytes), outcome : {"nothing", "message", "error"}]
  BY <1>3, <1>7, <1>8
<1> HIDE DEF call
<1>10. /\ C \in Nat /\ Len(calls') = C + 1 /\ calls'[C + 1] = call
       /\ \A i \in 1..C : calls'[i] = calls[i]
       /\ \A i \in 1..(C + 1) : i \in 1..C \/ i = C + 1
       /\ C + 1 \in 1..(C + 1) /\ 1..C \subseteq 1..(C + 1)
       /\ calls' \in Seq([data : Seq(Bytes), line : Seq(Bytes),
                          outcome : {"nothing", "message", "error"}])
  BY <1>1, <1>2, <1>9 DEF TypeOK
<1> HIDE DEF C
<1>11. TypeOK'
  <2>1. fed' \in Seq(Bytes) /\ buffer' \in Seq(Bytes) /\ pending' \in Seq(Bytes)
    BY <1>1, <1>2, <1>3, <1>6, AfterElements
  <2>2. stopped' \in BOOLEAN
    BY <1>2 DEF Stops
  <2> QED
    BY <1>1, <1>2, <1>10, <2>1, <2>2 DEF TypeOK
<1>12. BufferIsOpenLine'
  BY <1>2, <1>5 DEF BufferIsOpenLine
<1>13. Placed'
  <2>1. Stream' = Stream
    BY <1>2, <1>3 DEF Stream
  <2> QED
    BY <1>1, <1>2, <2>1 DEF Placed
<1>14. Known'
  <2>1. ASSUME NEW j \in 1..Len(data) PROVE data[j].line \in 1..Len(lines)
    <3> DEFINE F == Len(fed)
    <3>1. /\ F \in Nat /\ j \in 1..n /\ F + j \in 1..(F + Len(pending))
          /\ Len(Stream) = F + Len(pending) /\ Stream[F + j] = pending[j]
      BY <1>1, <1>3, <2>1, ConcatElements DEF Stream
    <3> QED
      BY <1>1, <1>3, <3>1 DEF Placed
  <2> DEFINE Fine(c) == \A j \in 1..Len(c.data) : c.data[j].line \in 1..Len(lines)
  <2>2. \A i \in 1..C : Fine(calls[i])
    BY <1>1 DEF Known, C
  <2>3. Fine(call)
    BY <1>9, <2>1
  <2> HIDE DEF Fine
  <2>4. \A i \in 1..Len(calls') : Fine(calls'[i])
    BY <1>10, <2>2, <2>3
  <2> QED
    BY <1>2, <2>4 DEF Known, Fine
<1>15. AnswersFirstLine'
  <2>1. \A i \in 1..C : AnswerOf(calls[i], lines)
    BY <1>1, CallsAnswer DEF C
  <2>2. AnswerOf(call, lines)
    <3>1. CASE Ends(data) = {}
      BY <1>1, <1>4, <1>9, <3>1, Outcomes DEF outcome, AnswerOf
    <3>2. CASE Ends(data) # {}
      BY <1>4, <1>9, <3>2 DEF AnswerOf
    <3> QED
      BY <3>1, <3>2
  <2>3. \A i \in 1..Len(calls') : AnswerOf(calls'[i], lines')
    BY <1>2, <1>10, <2>1, <2>2
  <2> QED
    BY <2>3, CallsAnswer
<1> QED
  BY <1>11, <1>12, <1>13, <1>14, <1>15 DEF AInv

LEMMA WriteLineKept ==
  ASSUME AInv, NEW m \in Messages, NEW length \in 1..MaxLength, WriteLine(m, length)
  PROVE  AInv'
<1> DEFINE K == Len(lines)
           entry == [message |-> m, length |-> length]
           block == [i \in 1..length |-> [line |-> K + 1, place |-> i, newline |-> i = length]]
           S == Len(Stream)
           Types == [message : Messages, length : 1..MaxLength]
<1>1. /\ TypeOK /\ BufferIsOpenLine /\ Placed /\ Known /\ AnswersFirstLine
      /\ fed \in Seq(Bytes) /\ pending \in Seq(Bytes) /\ lines \in Seq(Types)
      /\ MaxLines \in Nat /\ MaxLength \in Nat
  BY MessagesAssumption DEF AInv, TypeOK
<1>2. /\ K < MaxLines /\ lines' = Append(lines, entry) /\ pending' = pending \o block
      /\ UNCHANGED <<side, fed, buffer, calls, stopped>>
  BY DEF WriteLine
<1>3. /\ K \in Nat /\ entry \in Types /\ lines' \in Seq(Types) /\ Len(lines') = K + 1
      /\ \A k \in 1..K : lines'[k] = lines[k]
      /\ lines'[K + 1] = entry
  BY <1>1, <1>2
<1>4. length \in Nat /\ length >= 1 /\ length \in 1..MaxLength
  BY <1>1
<1>5. block \in Seq(Bytes) /\ Len(block) = length
      /\ \A i \in 1..length : /\ block[i].line = K + 1 /\ block[i].place = i
                              /\ block[i].newline <=> i = length
  <2>1. \A i \in 1..length : [line |-> K + 1, place |-> i, newline |-> i = length] \in Bytes
    <3>1. \A i \in 1..length : i \in 1..MaxLength /\ K + 1 \in 1..MaxLines
      BY <1>1, <1>2, <1>3, <1>4
    <3> QED
      BY <3>1 DEF Bytes
  <2>2. block \in [1..length -> Bytes]
    BY <2>1
  <2>3. ASSUME NEW i \in 1..length
        PROVE  /\ block[i].line = K + 1 /\ block[i].place = i
               /\ block[i].newline <=> i = length
    <3>1. block[i] = [line |-> K + 1, place |-> i, newline |-> i = length]
      OBVIOUS
    <3> HIDE DEF block
    <3>2. block[i].newline = (i = length)
      BY <3>1
    <3>3. block[i].line = K + 1 /\ block[i].place = i
      BY <3>1
    <3> QED
      BY <3>2, <3>3
  <2> HIDE DEF block
  <2>4. block \in Seq(Bytes) /\ Len(block) = length
    BY <1>4, <2>2
  <2> QED
    BY <2>3, <2>4
<1> HIDE DEF block, K
<1>6. /\ Stream \in Seq(Bytes) /\ S \in Nat /\ Stream' = Stream \o block
      /\ Stream' \in Seq(Bytes) /\ Len(Stream') = S + length
      /\ \A p \in 1..S : Stream'[p] = Stream[p]
      /\ \A i \in 1..length : Stream'[S + i] = block[i]
  <2>1. Stream \in Seq(Bytes)
    BY <1>1 DEF Stream
  <2>2. Stream' = Stream \o block
    <3>1. Stream' = fed \o (pending \o block)
      BY <1>2 DEF Stream
    <3>2. fed \in Seq(Bytes) /\ pending \in Seq(Bytes) /\ block \in Seq(Bytes)
      BY <1>1, <1>5
    <3> HIDE DEF S
    <3>3. (fed \o pending) \o block = fed \o (pending \o block)
      BY ONLY <3>2, ConcatAssociative
    <3> QED
      BY <3>1, <3>3 DEF Stream
  <2>3. /\ Stream \o block \in Seq(Bytes) /\ Len(Stream \o block) = S + Len(block)
        /\ \A p \in 1..S : (Stream \o block)[p] = Stream[p]
        /\ \A i \in 1..Len(block) : (Stream \o block)[S + i] = block[i]
    BY <1>5, <2>1, ConcatElements
  <2>4. S \in Nat
    BY <2>1
  <2> HIDE DEF S
  <2> QED
    BY <1>5, <2>1, <2>2, <2>3, <2>4
<1> HIDE DEF S, entry
<1>7. TypeOK'
  <2>1. pending' \in Seq(Bytes)
    BY <1>1, <1>2, <1>5
  <2> QED
    BY <1>1, <1>2, <1>3, <2>1 DEF TypeOK
<1>8. BufferIsOpenLine'
  BY <1>1, <1>2 DEF BufferIsOpenLine
<1>9. \A k \in 1..K : k \in 1..Len(lines') /\ lines'[k] = lines[k]
  BY <1>3
<1>10. Placed'
  <2>1. ASSUME NEW p \in 1..Len(Stream')
        PROVE  p \in 1..S \/ (p - S \in 1..length /\ p = S + (p - S))
    BY <1>4, <1>6, <2>1
  <2>2. ASSUME NEW p \in 1..S
        PROVE  /\ Stream'[p] = Stream[p] /\ Stream[p].line \in 1..K
               /\ Stream[p].newline <=> Stream[p].place = lines[Stream[p].line].length
    BY <1>1, <1>6, <2>2 DEF Placed, S, K
  <2>3. ASSUME NEW i \in 1..length
        PROVE  /\ Stream'[S + i].line = K + 1 /\ Stream'[S + i].place = i
               /\ Stream'[S + i].newline <=> i = length
    BY <1>5, <1>6, <2>3
  <2>4. entry.length = length
    BY DEF entry
  <2>5. ASSUME NEW p \in 1..Len(Stream')
        PROVE  /\ Stream'[p].line \in 1..Len(lines')
               /\ Stream'[p].newline <=> Stream'[p].place = lines'[Stream'[p].line].length
    <3>1. CASE p \in 1..S
      BY <1>9, <2>2, <3>1
    <3>2. CASE p - S \in 1..length /\ p = S + (p - S)
      <4>1. Stream'[p].line = K + 1 /\ Stream'[p].place = p - S /\ (Stream'[p].newline <=> p - S = length)
        BY <2>3, <3>2
      <4>2. K + 1 \in 1..Len(lines') /\ lines'[K + 1].length = length
        BY <1>3, <2>4
      <4> QED
        BY <4>1, <4>2
    <3> QED
      BY <2>1, <3>1, <3>2
  <2>6. S > 0 => 1 \in 1..S /\ S \in 1..S /\ Stream[1].place = 1 /\ Stream[S].newline
    <3>1. S > 0 => Stream # <<>>
      BY DEF S
    <3> QED
      BY <1>1, <1>6, <3>1 DEF Placed, S
  <2>7. Stream'[1].place = 1 /\ Stream'[Len(Stream')].newline
    <3>1. Stream'[1].place = 1
      <4>1. CASE S > 0
        BY <2>2, <2>6, <4>1
      <4>2. CASE ~(S > 0)
        <5>1. S = 0 /\ 1 \in 1..length /\ S + 1 = 1
          BY <1>4, <1>6, <4>2
        <5> QED
          BY <2>3, <5>1
      <4> QED
        BY <4>1, <4>2
    <3>2. length \in 1..length
      BY <1>4
    <3> QED
      BY <1>6, <2>3, <3>1, <3>2
  <2>8. ASSUME NEW p \in 1..Len(Stream'), Stream'[p].newline, p < Len(Stream')
        PROVE  Stream'[p + 1].place = 1
    <3>1. CASE p \in 1..S /\ p < S
      <4>1. p + 1 \in 1..S
        BY <1>6, <3>1
      <4>2. Stream[p + 1].place = 1
        BY <1>1, <2>2, <2>8, <3>1 DEF Placed, S
      <4> QED
        BY <2>2, <4>1, <4>2
    <3>2. CASE p = S
      BY <1>4, <2>3, <3>2
    <3>3. CASE p - S \in 1..length /\ p = S + (p - S)
      <4>1. p - S = length
        BY <2>3, <2>8, <3>3
      <4> QED
        BY <1>6, <2>8, <3>3, <4>1
    <3>4. p \in 1..S => p < S \/ p = S
      BY <1>6
    <3> QED
      BY <2>1, <3>1, <3>2, <3>3, <3>4
  <2>9. ASSUME NEW p \in 1..Len(Stream'), NEW q \in 1..Len(Stream'), p <= q,
               \A r \in p..(q - 1) : ~Stream'[r].newline
        PROVE  Stream'[q].line = Stream'[p].line /\ Stream'[q].place = Stream'[p].place + (q - p)
    <3>1. CASE q \in 1..S
      <4>1. p \in 1..S
        BY <1>6, <2>9, <3>1
      <4>2. \A r \in p..(q - 1) : ~Stream[r].newline
        <5>1. \A r \in p..(q - 1) : r \in 1..S
          BY <1>6, <2>9, <3>1, <4>1
        <5> QED
          BY <2>2, <2>9, <5>1
      <4>3. Stream[q].line = Stream[p].line /\ Stream[q].place = Stream[p].place + (q - p)
        BY <1>1, <2>9, <3>1, <4>1, <4>2 DEF Placed, S
      <4> QED
        BY <2>2, <3>1, <4>1, <4>3
    <3>2. CASE p \in 1..S /\ q \notin 1..S
      <4>1. S \in p..(q - 1) /\ S > 0
        BY <1>6, <2>9, <3>2
      <4> QED
        BY <2>2, <2>6, <2>9, <4>1
    <3>3. CASE p \notin 1..S /\ q \notin 1..S
      <4>1. /\ p - S \in 1..length /\ p = S + (p - S)
            /\ q - S \in 1..length /\ q = S + (q - S)
        BY <2>1, <3>3
      <4>2. /\ Stream'[p].line = K + 1 /\ Stream'[p].place = p - S
            /\ Stream'[q].line = K + 1 /\ Stream'[q].place = q - S
        BY <2>3, <4>1
      <4>3. q - S = (p - S) + (q - p)
        BY <1>6, <2>9
      <4> QED
        BY <4>2, <4>3
    <3> QED
      BY <3>1, <3>2, <3>3
  <2> QED
    BY <2>5, <2>7, <2>8, <2>9 DEF Placed
<1>11. Known'
  BY <1>1, <1>2, <1>9 DEF Known, K
<1>12. AnswersFirstLine'
  <2>1. ASSUME NEW i \in 1..Len(calls), Ends(calls[i].data) # {}
        PROVE  calls[i].data[IndexByte(calls[i].data)].line \in 1..K
    <3> DEFINE data == calls[i].data
    <3>1. Len(data) \in Nat
      BY <1>1 DEF TypeOK
    <3>2. IndexByte(data) \in Ends(data)
      BY <2>1, <3>1, FirstNewline
    <3>3. IndexByte(data) \in 1..Len(data)
      BY <3>2 DEF Ends
    <3> QED
      BY <1>1, <3>3 DEF Known, K
  <2>2. ASSUME NEW i \in 1..Len(calls) PROVE AnswerOf(calls[i], lines')
    <3>1. AnswerOf(calls[i], lines)
      BY <1>1, CallsAnswer
    <3> QED
      BY <1>9, <2>1, <3>1 DEF AnswerOf
  <2> QED
    BY <1>2, <2>2, CallsAnswer
<1> QED
  BY <1>7, <1>8, <1>10, <1>11, <1>12 DEF AInv

LEMMA InitAInv == Init => AInv
<1> SUFFICES ASSUME Init PROVE AInv
  OBVIOUS
<1> DEFINE Empty == <<>>
<1>1. /\ lines = Empty /\ pending = Empty /\ fed = Empty /\ buffer = Empty /\ calls = Empty
      /\ stopped = FALSE /\ side \in {"request", "response"}
  BY DEF Init
<1>2. Len(Empty) = 0 /\ Empty \in Seq(Bytes) /\ Empty \o Empty = Empty
      /\ Empty \in Seq([message : Messages, length : 1..MaxLength])
      /\ Empty \in Seq([data : Seq(Bytes), line : Seq(Bytes),
                        outcome : {"nothing", "message", "error"}])
  OBVIOUS
<1> HIDE DEF Empty
<1>3. TypeOK
  BY <1>1, <1>2 DEF TypeOK
<1>4. BufferIsOpenLine
  <2>1. Ends(fed) = {}
    BY <1>1, <1>2 DEF Ends
  <2>2. After(fed, 0) = fed
    <3>1. fed \in Seq(Bytes) /\ Len(fed) = 0 /\ 0 \in 0..Len(fed)
      BY <1>1, <1>2
    <3>2. After(fed, 0) \in Seq(Bytes) /\ Len(After(fed, 0)) = Len(fed) - 0
      BY <3>1, AfterElements
    <3>3. Len(After(fed, 0)) = 0
      BY <3>1, <3>2
    <3> QED
      BY <3>1, <3>2, <3>3, SeqEqual
  <2> QED
    BY <1>1, <2>1, <2>2 DEF BufferIsOpenLine
<1>5. Placed
  <2>1. Stream = <<>> /\ Len(Stream) = 0
    BY <1>1, <1>2 DEF Stream, Empty
  <2> QED
    BY <2>1 DEF Placed
<1>6. Known /\ AnswersFirstLine
  BY <1>1, <1>2 DEF Known, AnswersFirstLine
<1> QED
  BY <1>3, <1>4, <1>5, <1>6 DEF AInv

LEMMA Invariant == Spec => []AInv
<1>1. AInv /\ [Next]_vars => AInv'
  <2> SUFFICES ASSUME AInv, [Next]_vars PROVE AInv'
    OBVIOUS
  <2>1. CASE \E n \in 1..Len(pending) : Accumulate(n)
    BY <2>1, AccumulateKept
  <2>2. CASE \E m \in Messages, length \in 1..MaxLength : WriteLine(m, length)
    BY <2>2, WriteLineKept
  <2>3. CASE UNCHANGED vars
    <3> USE <2>3 DEF vars
    <3>1. TypeOK' /\ BufferIsOpenLine' /\ Known'
      BY DEF AInv, TypeOK, BufferIsOpenLine, Known
    <3>2. Stream' = Stream
      BY DEF Stream
    <3>3. Placed'
      BY <3>2 DEF AInv, Placed
    <3>4. AnswersFirstLine'
      BY CallsAnswer DEF AInv
    <3> QED
      BY <3>1, <3>3, <3>4 DEF AInv
  <2> QED
    BY <2>1, <2>2, <2>3 DEF Next
<1> QED
  BY InitAInv, <1>1, PTL DEF Spec

-----------------------------------------------------------------------------
(* The theorems.                                                           *)

(* The accumulator's variables keep their types: no call returns anything  *)
(* but a line of bytes, a message, an error or nothing.                    *)
THEOREM TypeCorrect == Spec => []TypeOK
<1>1. AInv => TypeOK
  BY DEF AInv
<1> QED
  BY <1>1, Invariant, PTL

(* Whatever the lines are and wherever the reads cut the stream, what      *)
(* readCompleteLine leaves in commandBuffer is the open line.              *)
THEOREM BufferHoldsOpenLine == Spec => []BufferIsOpenLine
<1>1. AInv => BufferIsOpenLine
  BY DEF AInv
<1> QED
  BY <1>1, Invariant, PTL

(* A call that completes lines answers with the first of them, from its    *)
(* first byte to its newline; a call that completes none with nothing.     *)
THEOREM FirstLineIsAnswered == Spec => []AnswersFirstLine
<1>1. AInv => AnswersFirstLine
  BY DEF AInv
<1> QED
  BY <1>1, Invariant, PTL
=============================================================================
