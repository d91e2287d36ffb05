-------------------------- MODULE Streams_proofs -----------------------------
(* The streams of the library: those over one buffer and those of numbers and  *)
(* strings. Each invariant that the run of MCLibrary checks of them holds for  *)
(* all values, either byte order and any number of calls.                      *)
EXTENDS ByteStream, DataStream, GfBitStream, FiniteSetTheorems, RunLemmas

-----------------------------------------------------------------------------
(* ByteStream.                                                                 *)

Byte == 0..255

(* Turned around twice, a sequence is what it was.                             *)
LEMMA ReverseTwice ==
  ASSUME NEW S, NEW s \in Seq(S)
  PROVE  /\ Reverse(s) \in Seq(S) /\ Len(Reverse(s)) = Len(s)
         /\ Reverse(Reverse(s)) = s
<1>. DEFINE n == Len(s)
            r == Reverse(s)
<1>1. n \in Nat /\ n = Len(s) /\ DOMAIN s = 1..n /\ \A i \in 1..n : s[i] \in S
  BY ElementOfSeq
<1>2. r = [i \in 1..n |-> s[n - i + 1]]
  BY DEF Reverse
<1>. HIDE DEF n, r
<1>3. \A i \in 1..n : n - i + 1 \in 1..n /\ n - (n - i + 1) + 1 = i
  BY <1>1
<1>4. r \in [1..n -> S]
  BY <1>1, <1>2, <1>3
<1>5. r \in Seq(S) /\ Len(r) = n
  BY <1>1, <1>4
<1>6. Reverse(r) = [i \in 1..n |-> r[n - i + 1]]
  BY <1>5 DEF Reverse
<1>7. \A i \in 1..n : r[n - i + 1] = s[i]
  BY <1>2, <1>3
<1>8. s = [i \in 1..n |-> s[i]]
  BY <1>1
<1>9. Reverse(r) = s
  BY <1>6, <1>7, <1>8
<1>. QED  BY <1>1, <1>5, <1>9 DEF r

(* The swap of 24 bits in a part of 32 turns the three bytes around.           *)
LEMMA SwapOfThree ==
  ASSUME NEW b \in Seq(Byte), Len(b) = 3
  PROVE  /\ SubSeq(Reverse(<<0>> \o b), 1, 3) = Reverse(b)
         /\ SubSeq(Reverse(b \o <<0>>), 2, 4) = Reverse(b)
<1>1. \A i \in 1..3 : b[i] \in Byte
  BY ElementOfSeq
<1>2. Reverse(b) = [i \in 1..3 |-> b[3 - i + 1]]
  BY DEF Reverse
<1>3. ASSUME NEW w \in Seq(Byte), Len(w) = 4, NEW m \in {1, 2},
             \A i \in 1..3 : w[4 - (m + i - 1) + 1] = b[3 - i + 1]
      PROVE  SubSeq(Reverse(w), m, m + 2) = Reverse(b)
  <2>. DEFINE r == Reverse(w)
              n == m + 2
              part == SubSeq(r, m, n)
  <2>1. r = [i \in 1..4 |-> w[4 - i + 1]] /\ r \in Seq(Byte)
    BY <1>3, ReverseTwice DEF Reverse
  <2>2. \A i \in m..n : r[i] \in Byte
    <3>1. \A i \in 1..4 : r[i] \in Byte
      <4>1. Len(r) = 4
        BY <1>3, ReverseTwice
      <4>. QED  BY <2>1, <4>1, ElementOfSeq
    <3>. QED  BY <1>3, <3>1
  <2>3. m \in Int /\ n \in Int /\ m <= n /\ n - m + 1 = 3
    BY <1>3
  <2>. HIDE DEF r, n
  <2>4. part \in Seq(Byte) /\ Len(part) = 3 /\ \A i \in 1..3 : part[i] = r[m + i - 1]
    BY <2>2, <2>3, SubSeqProperties
  <2>5. \A i \in 1..3 : m + i - 1 \in 1..4
    BY <1>3
  <2>6. \A i \in 1..3 : part[i] = b[3 - i + 1]
    BY <1>3, <2>1, <2>4, <2>5
  <2>7. part = [i \in 1..3 |-> part[i]]
    <3>. HIDE DEF part
    <3>. QED  BY <2>4
  <2>8. part = Reverse(b)
    <3>. HIDE DEF part
    <3>. QED  BY <1>2, <2>6, <2>7
  <2>. QED  BY <2>8 DEF part, r, n
<1>4. SubSeq(Reverse(<<0>> \o b), 1, 3) = Reverse(b)
  <2>. DEFINE w == <<0>> \o b
              m == 1
  <2>1. w \in Seq(Byte) /\ Len(w) = 4 /\ \A i \in 1..3 : w[1 + i] = b[i]
    <3>. DEFINE z == <<0>>
    <3>1. z \in Seq(Byte) /\ Len(z) = 1 /\ w = z \o b
      BY DEF Byte
    <3>. HIDE DEF z, w
    <3>2. /\ w \in Seq(Byte) /\ Len(w) = Len(z) + Len(b)
          /\ \A i \in 1..Len(z) + Len(b) : w[i] = IF i <= Len(z) THEN z[i] ELSE b[i - Len(z)]
      BY <3>1, ConcatProperties, Zenon
    <3>3. \A i \in 1..3 : 1 + i \in 1..4 /\ ~(1 + i <= 1) /\ 1 + i - 1 = i
      OBVIOUS
    <3>. QED  BY <3>1, <3>2, <3>3
  <2>. HIDE DEF w
  <2>2. \A i \in 1..3 : w[4 - (1 + i - 1) + 1] = b[3 - i + 1]
    <3>1. \A i \in 1..3 : 3 - i + 1 \in 1..3 /\ 4 - (1 + i - 1) + 1 = 1 + (3 - i + 1)
      OBVIOUS
    <3>. QED  BY <2>1, <3>1
  <2>3. SubSeq(Reverse(w), 1, 1 + 2) = Reverse(b)
    BY <1>3, <2>1, <2>2
  <2>. QED  BY <2>3 DEF w
<1>5. SubSeq(Reverse(b \o <<0>>), 2, 4) = Reverse(b)
  <2>. DEFINE w == b \o <<0>>
  <2>1. w \in Seq(Byte) /\ Len(w) = 4 /\ \A i \in 1..3 : w[i] = b[i]
    <3>. DEFINE z == <<0>>
    <3>1. z \in Seq(Byte) /\ Len(z) = 1 /\ w = b \o z
      BY DEF Byte
    <3>. HIDE DEF z, w
    <3>2. /\ w \in Seq(Byte) /\ Len(w) = Len(b) + Len(z)
          /\ \A i \in 1..Len(b) + Len(z) : w[i] = IF i <= Len(b) THEN b[i] ELSE z[i - Len(b)]
      BY <3>1, ConcatProperties, Zenon
    <3>. QED  BY <3>1, <3>2
  <2>. HIDE DEF w
  <2>2. \A i \in 1..3 : w[4 - (2 + i - 1) + 1] = b[3 - i + 1]
    <3>1. \A i \in 1..3 : 3 - i + 1 \in 1..3 /\ 4 - (2 + i - 1) + 1 = 3 - i + 1
      OBVIOUS
    <3>. QED  BY <2>1, <3>1
  <2>3. SubSeq(Reverse(w), 2, 2 + 2) = Reverse(b)
    BY <1>3, <2>1, <2>2
  <2>. QED  BY <2>3 DEF w
<1>. QED  BY <1>4, <1>5

(* What is stored for a number has its length and is read as the number.       *)
LEMMA StoredAndRead ==
  ASSUME NEW b \in Seq(Byte), NEW o
  PROVE  LET stored == AsStored(HostToOrder(b, o))
         IN  /\ stored \in Seq(Byte) /\ Len(stored) = Len(b)
             /\ OrderToHost(AsStored(stored), o) = b
<1>. DEFINE r == Reverse(b)
            h == IF InHostOrder(o) THEN b ELSE r
            stored == AsStored(h)
<1>1. r \in Seq(Byte) /\ Len(r) = Len(b) /\ Reverse(r) = b
  BY ReverseTwice
<1>2. HostToOrder(b, o) = h
  BY SwapOfThree DEF HostToOrder
<1>3. h \in Seq(Byte) /\ Len(h) = Len(b)
  BY <1>1
<1>4. OrderToHost(h, o) = b
  BY <1>1, SwapOfThree DEF OrderToHost
<1>. HIDE DEF h
<1>5. stored \in Seq(Byte) /\ Len(stored) = Len(b) /\ AsStored(stored) = h
  BY <1>3, ReverseTwice DEF AsStored
<1>. QED  BY <1>2, <1>4, <1>5, Zenon

(* The numbers of typed are in the data as they are stored.                    *)
PlacedNumbers == [at : Nat, order : Orders, bytes : TypedNumbers]
InPlace(t, data) ==
  /\ t.at + Len(t.bytes) <= Len(data)
  /\ \A i \in 1..Len(t.bytes) : data[t.at + i] = AsStored(HostToOrder(t.bytes, t.order))[i]

Streams(n) == [writable : BOOLEAN, offset : 0..n, stack : Seq(0..n)]

StreamsInv ==
  /\ sharedData \in Seq(Byte)
  /\ byteStreams \in [ByteStreams -> Streams(Len(sharedData))]
  /\ typed \subseteq PlacedNumbers
  /\ \A t \in typed : InPlace(t, sharedData)

(* A number is at least one byte.                                              *)
LEMMA NumbersAre ==
  ASSUME NEW b \in TypedNumbers
  PROVE  b \in Seq(Byte) /\ Len(b) \in Nat \ {0}
<1>1. b \in Seq(Byte) /\ b # <<>>
  BY ByteStreamAssumption DEF Byte
<1>. QED  BY <1>1, EmptySeq

(* A stream is still within data that has grown.                               *)
LEMMA StreamsGrow ==
  ASSUME NEW m \in Nat, NEW n \in Nat, m <= n, NEW theStream \in Streams(m)
  PROVE  theStream \in Streams(n)
<1>1. theStream.stack \in Seq(0..n)
  <2>1. 0..m \subseteq 0..n /\ theStream.stack \in Seq(0..m)
    BY DEF Streams
  <2>. DEFINE A == 0..m
              B == 0..n
  <2>. HIDE DEF A, B
  <2>2. A \subseteq B /\ theStream.stack \in Seq(A)
    BY <2>1 DEF A, B
  <2>3. theStream.stack \in Seq(B)
    BY <2>2
  <2>. QED  BY <2>3 DEF B
<1>. QED  BY <1>1 DEF Streams

(* Data that only grows, and one stream that moves within it.                  *)
LEMMA OneMoved ==
  ASSUME StreamsInv, NEW s \in ByteStreams,
         sharedData' \in Seq(Byte), Len(sharedData') >= Len(sharedData),
         NEW theStream \in Streams(Len(sharedData')), ByteStep(s, theStream)
  PROVE  byteStreams' \in [ByteStreams -> Streams(Len(sharedData'))]
<1>. DEFINE m == Len(sharedData)
            n == Len(sharedData')
<1>1. m \in Nat /\ n \in Nat /\ m <= n
  BY DEF StreamsInv
<1>2. byteStreams \in [ByteStreams -> Streams(m)]
  BY DEF StreamsInv
<1>. HIDE DEF m
<1>3. theStream \in Streams(n)
  OBVIOUS
<1>. HIDE DEF n
<1>4. \A x \in ByteStreams : byteStreams[x] \in Streams(n)
  BY <1>1, <1>2, StreamsGrow
<1>. QED  BY <1>2, <1>3, <1>4 DEF ByteStep, n

(* Data that gets longer keeps the numbers in it.                              *)
LEMMA LongerKeeps ==
  ASSUME NEW data \in Seq(Byte), NEW longer \in Seq(Byte), Len(data) <= Len(longer),
         \A i \in 1..Len(data) : longer[i] = data[i],
         NEW t \in PlacedNumbers, InPlace(t, data)
  PROVE  InPlace(t, longer)
<1>1. Len(data) \in Nat /\ Len(longer) \in Nat /\ t.at \in Nat /\ Len(t.bytes) \in Nat
  BY NumbersAre DEF PlacedNumbers
<1>2. \A i \in 1..Len(t.bytes) : t.at + i \in 1..Len(data)
  BY <1>1 DEF InPlace
<1>. QED  BY <1>1, <1>2 DEF InPlace

(* What is written at a place inside the data or at its end.                   *)
LEMMA PutIn ==
  ASSUME StreamsInv, NEW s \in ByteStreams, NEW bytes \in Seq(Byte), NEW numbers \in SUBSET PlacedNumbers,
         \A t \in numbers : /\ t.at = byteStreams[s].offset /\ Len(t.bytes) = Len(bytes)
                            /\ bytes = AsStored(HostToOrder(t.bytes, t.order)),
         PutBytes(s, bytes, numbers)
  PROVE  StreamsInv'
<1>. DEFINE from == byteStreams[s].offset
            old == Len(sharedData)
            k == Len(bytes)
            to == from + k
            length == IF to > old THEN to ELSE old
            theStream == [byteStreams[s] EXCEPT !.offset = to]
<1>1. from \in 0..old /\ old \in Nat /\ byteStreams[s] \in Streams(old) /\ k \in Nat
      /\ \A i \in 1..k : bytes[i] \in Byte
  <2>1. old \in Nat /\ byteStreams[s] \in Streams(old) /\ k \in Nat
    BY DEF StreamsInv
  <2>2. \A i \in 1..k : bytes[i] \in Byte
    BY ElementOfSeq
  <2>. QED  BY <2>1, <2>2 DEF Streams
<1>2. \A i \in 1..old : sharedData[i] \in Byte
  BY ElementOfSeq DEF StreamsInv
<1>3. /\ sharedData' = [i \in 1..length |-> IF i \in from + 1..to THEN bytes[i - from] ELSE sharedData[i]]
      /\ typed' = UntouchedBy(from, to) \cup numbers
      /\ ByteStep(s, theStream)
  BY DEF PutBytes
<1>. HIDE DEF from, old, k
<1>4. length \in Nat /\ length >= old /\ to <= length /\ to \in Nat
  BY <1>1
<1>5. \A i \in 1..length : (i \in from + 1..to => i - from \in 1..k) /\ (i \notin from + 1..to => i \in 1..old)
  BY <1>1
<1>. HIDE DEF length
<1>6. /\ sharedData' \in [1..length -> Byte]
      /\ \A i \in 1..length : sharedData'[i] = IF i \in from + 1..to THEN bytes[i - from] ELSE sharedData[i]
  BY <1>1, <1>2, <1>3, <1>5
<1>7. sharedData' \in Seq(Byte) /\ Len(sharedData') = length
  BY <1>4, <1>6
<1>8. theStream \in Streams(length)
  <2>. DEFINE now == byteStreams[s]
  <2>1. now \in Streams(old)
    BY <1>1
  <2>. HIDE DEF now
  <2>2. now \in Streams(length)
    BY <1>1, <1>4, <2>1, StreamsGrow
  <2>3. [now EXCEPT !.offset = to] \in Streams(length)
    BY <1>4, <2>2 DEF Streams
  <2>. QED  BY <2>3 DEF now
<1>9. byteStreams' \in [ByteStreams -> Streams(length)]
  BY <1>3, <1>4, <1>7, <1>8, OneMoved DEF old
<1>10. ASSUME NEW t \in typed' PROVE t \in PlacedNumbers /\ InPlace(t, sharedData')
  <2>1. CASE t \in numbers
    <3>1. \A i \in 1..k : from + i \in from + 1..to /\ from + i \in 1..length /\ from + i - from = i
      BY <1>1, <1>4
    <3>2. \A i \in 1..k : sharedData'[from + i] = bytes[i]
      <4>. DEFINE data == sharedData'
      <4>1. \A i \in 1..length : i \in from + 1..to => data[i] = bytes[i - from]
        BY <1>6
      <4>. HIDE DEF data, to
      <4>2. ASSUME NEW i \in 1..k PROVE data[from + i] = bytes[i]
        <5>. DEFINE j == from + i
        <5>1. j \in 1..length /\ j \in from + 1..to /\ j - from = i
          BY <1>1, <3>1
        <5>. HIDE DEF j
        <5>2. data[j] = bytes[i]
          BY <4>1, <5>1
        <5>. QED  BY <5>2 DEF j
      <4>. QED  BY <4>2 DEF data
    <3>3. t.at = from /\ Len(t.bytes) = k /\ bytes = AsStored(HostToOrder(t.bytes, t.order))
      BY <2>1 DEF from, k
    <3>4. InPlace(t, sharedData')
      BY <1>4, <1>7, <3>2, <3>3 DEF InPlace
    <3>. QED  BY <2>1, <3>4
  <2>2. CASE t \in UntouchedBy(from, to)
    <3>1. t \in PlacedNumbers /\ InPlace(t, sharedData) /\ (t.at + Len(t.bytes) <= from \/ t.at >= to)
      BY <2>2 DEF UntouchedBy, StreamsInv
    <3>2. t.at \in Nat /\ Len(t.bytes) \in Nat /\ t.at + Len(t.bytes) <= old
      BY <3>1, NumbersAre DEF PlacedNumbers, InPlace, old
    <3>3. \A i \in 1..Len(t.bytes) : t.at + i \in 1..length /\ t.at + i \notin from + 1..to
      BY <1>1, <1>4, <3>1, <3>2
    <3>4. \A i \in 1..Len(t.bytes) : sharedData'[t.at + i] = sharedData[t.at + i]
      BY <1>6, <3>3
    <3>5. t.at + Len(t.bytes) <= Len(sharedData')
      BY <1>1, <1>4, <1>7, <3>2
    <3>. QED  BY <3>1, <3>4, <3>5 DEF InPlace
  <2>. QED  BY <1>3, <1>10, <2>1, <2>2
<1>. QED  BY <1>7, <1>9, <1>10 DEF StreamsInv

(* Whole values that are left are read, so many as there are.                  *)
LEMMA ReadStays ==
  ASSUME NEW left \in Nat, NEW size \in Nat \ {0}, NEW count \in 1..2, NEW read,
         read = IF left \div size < count THEN left \div size ELSE count
  PROVE  size * read \in 0..left
<1>. DEFINE q == left \div size
<1>1. q \in Nat /\ size * q <= left
  OBVIOUS
<1>. HIDE DEF q
<1>2. CASE q < count
  <2>1. read = q /\ size * q \in Nat
    BY <1>1, <1>2 DEF q
  <2>. QED  BY <1>1, <2>1
<1>3. CASE ~(q < count)
  <2>1. read = count /\ q >= count
    BY <1>1, <1>3 DEF q
  <2>2. CASE count = 1
    <3>1. size * 1 <= size * q
      BY <1>1, <2>1, <2>2
    <3>. QED  BY <1>1, <2>1, <2>2, <3>1
  <2>3. CASE count = 2
    <3>1. size * 2 <= size * q
      BY <1>1, <2>1, <2>3
    <3>. QED  BY <1>1, <2>1, <2>3, <3>1
  <2>. QED  BY <2>2, <2>3
<1>. QED  BY <1>2, <1>3

(* The data stays as it is, or gets zeroes at its end.                         *)
LEMMA MovedTo ==
  ASSUME StreamsInv, NEW s \in ByteStreams, NEW theStream \in Streams(Len(sharedData)),
         NEW offset \in Nat, ToOffset(s, theStream, offset)
  PROVE  StreamsInv'
<1>. DEFINE n == Len(sharedData)
            there == offset < n
            refused == ~there /\ ~theStream.writable
            data == sharedData'
            to == IF refused THEN theStream ELSE [theStream EXCEPT !.offset = offset]
<1>1. n \in Nat /\ sharedData \in Seq(Byte) /\ \A i \in 1..n : sharedData[i] \in Byte
  BY ElementOfSeq DEF StreamsInv
<1>2. /\ data = IF there \/ refused THEN sharedData
                 ELSE [i \in 1..offset |-> IF i <= n THEN sharedData[i] ELSE 0]
      /\ ByteStep(s, to) /\ typed' = typed
  BY DEF ToOffset
<1>3. /\ data \in Seq(Byte) /\ Len(data) >= n /\ Len(data) \in Nat
      /\ \A i \in 1..n : data[i] = sharedData[i]
      /\ ~refused => offset <= Len(data)
  <2>1. CASE there \/ refused
    BY <1>1, <1>2, <2>1
  <2>2. CASE ~(there \/ refused)
    <3>1. data = [i \in 1..offset |-> IF i <= n THEN sharedData[i] ELSE 0] /\ offset >= n
      BY <1>1, <1>2, <2>2
    <3>. HIDE DEF data, n
    <3>2. \A i \in 1..offset : (IF i <= n THEN sharedData[i] ELSE 0) \in Byte
      BY <1>1 DEF Byte
    <3>3. data \in [1..offset -> Byte]
      BY <3>1, <3>2
    <3>4. data \in Seq(Byte) /\ Len(data) = offset
      BY <3>3
    <3>5. \A i \in 1..n : data[i] = sharedData[i]
      BY <1>1, <3>1
    <3>. QED  BY <1>1, <3>1, <3>4, <3>5
  <2>. QED  BY <2>1, <2>2
<1>4. to \in Streams(Len(data))
  <2>. HIDE DEF data
  <2>1. theStream \in Streams(Len(data))
    BY <1>1, <1>3, StreamsGrow
  <2>2. ~refused => [theStream EXCEPT !.offset = offset] \in Streams(Len(data))
    BY <1>3, <2>1 DEF Streams
  <2>. QED  BY <2>1, <2>2
<1>. HIDE DEF to
<1>5. byteStreams' \in [ByteStreams -> Streams(Len(data))]
  BY <1>2, <1>3, <1>4, OneMoved
<1>6. ASSUME NEW t \in typed' PROVE t \in PlacedNumbers /\ InPlace(t, data)
  <2>1. t \in PlacedNumbers /\ InPlace(t, sharedData)
    BY <1>2 DEF StreamsInv
  <2>. HIDE DEF data
  <2>. QED  BY <1>1, <1>3, <2>1, LongerKeeps
<1>. QED  BY <1>3, <1>5, <1>6 DEF StreamsInv

(* Nothing but one stream moves.                                               *)
LEMMA OnlyMoved ==
  ASSUME StreamsInv, NEW s \in ByteStreams, NEW theStream \in Streams(Len(sharedData)),
         ByteStep(s, theStream), UNCHANGED <<sharedData, typed>>
  PROVE  StreamsInv'
<1>1. sharedData' = sharedData /\ typed' = typed /\ Len(sharedData) \in Nat /\ sharedData \in Seq(Byte)
  BY DEF StreamsInv
<1>2. byteStreams' \in [ByteStreams -> Streams(Len(sharedData))]
  BY DEF StreamsInv, ByteStep
<1>. QED  BY <1>1, <1>2 DEF StreamsInv

(* One step of any stream.                                                     *)
LEMMA ByteStreamStep ==
  ASSUME StreamsInv, ByteStreamNext
  PROVE  StreamsInv'
<1>. DEFINE n == Len(sharedData)
<1>1. /\ n \in Nat /\ sharedData \in Seq(Byte) /\ \A s \in ByteStreams : byteStreams[s] \in Streams(n)
      /\ 7 \in Byte
  BY DEF StreamsInv, Byte
<1>2. ASSUME NEW s \in ByteStreams, WriteTyped(s) PROVE StreamsInv'
  <2>1. PICK b \in TypedNumbers, o \in Orders :
          PutBytes(s, AsStored(HostToOrder(b, o)), {[at |-> byteStreams[s].offset, order |-> o, bytes |-> b]})
    BY <1>2, Zenon DEF WriteTyped
  <2>. DEFINE bytes == AsStored(HostToOrder(b, o))
              t == [at |-> byteStreams[s].offset, order |-> o, bytes |-> b]
              numbers == {t}
  <2>2. b \in Seq(Byte)
    BY NumbersAre
  <2>3. bytes \in Seq(Byte) /\ Len(bytes) = Len(b)
    BY <2>2, StoredAndRead
  <2>4. byteStreams[s].offset \in Nat
    BY <1>1 DEF Streams
  <2>5. t \in PlacedNumbers /\ t.at = byteStreams[s].offset /\ t.bytes = b /\ t.order = o
    BY <2>4 DEF PlacedNumbers
  <2>6. PutBytes(s, bytes, numbers)
    BY <2>1
  <2>. HIDE DEF t
  <2>7. numbers \in SUBSET PlacedNumbers /\ \A x \in numbers : /\ x.at = byteStreams[s].offset
            /\ Len(x.bytes) = Len(bytes) /\ bytes = AsStored(HostToOrder(x.bytes, x.order))
    BY <2>3, <2>5
  <2>. HIDE DEF bytes, numbers
  <2>. QED  BY <2>3, <2>6, <2>7, PutIn
<1>3. ASSUME NEW s \in ByteStreams, WriteRaw(s) PROVE StreamsInv'
  <2>. DEFINE bytes == <<7>>
              numbers == {}
  <2>1. bytes \in Seq(Byte) /\ PutBytes(s, bytes, numbers) /\ numbers \in SUBSET PlacedNumbers
        /\ \A t \in numbers : FALSE
    BY <1>1, <1>3 DEF WriteRaw
  <2>. HIDE DEF bytes, numbers
  <2>. QED  BY <2>1, PutIn
<1>4. ASSUME NEW s \in ByteStreams, AppendRaw(s) PROVE StreamsInv'
  <2>. DEFINE data == sharedData'
  <2>1. data = Append(sharedData, 7) /\ ByteStep(s, byteStreams[s]) /\ typed' = typed
    BY <1>4 DEF AppendRaw
  <2>2. data \in Seq(Byte) /\ Len(data) = n + 1 /\ \A i \in 1..n : data[i] = sharedData[i]
    BY <1>1, <2>1, AppendProperties
  <2>3. byteStreams[s] \in Streams(n + 1)
    BY <1>1, StreamsGrow
  <2>4. byteStreams' \in [ByteStreams -> Streams(Len(data))]
    <3>. DEFINE theStream == byteStreams[s]
    <3>1. Len(data) >= n /\ theStream \in Streams(Len(data)) /\ ByteStep(s, theStream)
      BY <1>1, <2>1, <2>2, <2>3
    <3>. HIDE DEF theStream
    <3>. QED  BY <2>2, <3>1, OneMoved
  <2>5. ASSUME NEW t \in typed' PROVE t \in PlacedNumbers /\ InPlace(t, data)
    <3>1. t \in PlacedNumbers /\ InPlace(t, sharedData) /\ n <= Len(data)
      BY <1>1, <2>1, <2>2 DEF StreamsInv
    <3>. HIDE DEF data
    <3>. QED  BY <1>1, <2>2, <3>1, LongerKeeps
  <2>. QED  BY <2>2, <2>4, <2>5 DEF StreamsInv
<1>5. ASSUME NEW s \in ByteStreams, ReadCount(s) PROVE StreamsInv'
  <2>1. PICK size \in {1} \cup {Len(b) : b \in TypedNumbers}, count \in 1..2 :
          /\ ByteStep(s, [byteStreams[s] EXCEPT !.offset = @ + size * PeekCount(s, size, count)])
          /\ UNCHANGED <<sharedData, typed>>
    BY <1>5, Zenon DEF ReadCount
  <2>2. size \in Nat \ {0}
    BY NumbersAre
  <2>. DEFINE left == Remained(s)
              read == PeekCount(s, size, count)
              step == size * read
              theStream == [byteStreams[s] EXCEPT !.offset = @ + step]
  <2>3. left \in Nat /\ left = n - byteStreams[s].offset
    BY <1>1 DEF Remained, Streams
  <2>4. read = IF left \div size < count THEN left \div size ELSE count
    BY DEF PeekCount
  <2>. HIDE DEF left, read
  <2>5. step \in 0..left
    BY <2>2, <2>3, <2>4, ReadStays
  <2>6. ByteStep(s, theStream)
    BY <2>1 DEF read
  <2>. HIDE DEF step
  <2>7. theStream \in Streams(n)
    <3>. DEFINE now == byteStreams[s]
    <3>1. now \in Streams(n) /\ now.offset + step \in 0..n
      BY <1>1, <2>3, <2>5 DEF Streams
    <3>. HIDE DEF now
    <3>2. [now EXCEPT !.offset = @ + step] \in Streams(n)
      BY <3>1 DEF Streams
    <3>. QED  BY <3>2 DEF now
  <2>. HIDE DEF theStream
  <2>. QED  BY <2>1, <2>6, <2>7, OnlyMoved
<1>6. ASSUME NEW s \in ByteStreams, SetOffset(s) PROVE StreamsInv'
  BY <1>1, <1>6, ByteStreamAssumption, MovedTo DEF SetOffset
<1>7. ASSUME NEW s \in ByteStreams, PushOffset(s) PROVE StreamsInv'
  <2>. DEFINE now == byteStreams[s]
              stack == Append(now.stack, now.offset)
              theStream == [now EXCEPT !.stack = stack]
  <2>1. now \in Streams(n) /\ ByteStep(s, theStream) /\ UNCHANGED <<sharedData, typed>>
    BY <1>1, <1>7 DEF PushOffset, Streams
  <2>. HIDE DEF now
  <2>2. stack \in Seq(0..n)
    BY <2>1, AppendProperties DEF Streams
  <2>. HIDE DEF stack
  <2>3. theStream \in Streams(n)
    BY <2>1, <2>2 DEF Streams
  <2>. QED  BY <2>1, <2>3, OnlyMoved
<1>8. ASSUME NEW s \in ByteStreams, PopOffset(s) PROVE StreamsInv'
  <2>. DEFINE now == byteStreams[s]
              stack == now.stack
              theStream == [now EXCEPT !.stack = Front(stack)]
              S == 0..n
  <2>1. now \in Streams(n) /\ stack \in Seq(S) /\ stack # <<>>
    BY <1>1, <1>8 DEF PopOffset, Streams
  <2>2. ToOffset(s, theStream, Last(stack))
    BY <1>1, <1>8 DEF PopOffset, Streams
  <2>. HIDE DEF stack, S
  <2>3. Len(stack) \in Nat \ {0} /\ Last(stack) \in S
    BY <2>1, EmptySeq, ElementOfSeq DEF Last
  <2>4. Front(stack) \in Seq(S)
    <3>. DEFINE m == Len(stack) - 1
    <3>1. m \in Int /\ \A i \in 1..m : stack[i] \in S
      BY <2>1, <2>3, ElementOfSeq
    <3>. HIDE DEF m
    <3>2. SubSeq(stack, 1, m) \in Seq(S)
      BY <3>1, SubSeqProperties
    <3>. QED  BY <3>2 DEF Front, m
  <2>5. theStream \in Streams(n) /\ Last(stack) \in Nat
    <3>. DEFINE front == Front(stack)
    <3>1. front \in Seq(0..n) /\ Last(stack) \in Nat
      BY <1>1, <2>3, <2>4 DEF S
    <3>. HIDE DEF front, now
    <3>2. [now EXCEPT !.stack = front] \in Streams(n)
      BY <2>1, <3>1 DEF Streams
    <3>. QED  BY <3>1, <3>2 DEF front
  <2>. DEFINE last == Last(stack)
  <2>. HIDE DEF theStream, last
  <2>. QED  BY <2>2, <2>5, MovedTo DEF last
<1>9. ASSUME NEW s \in ByteStreams, MakeStream(s) PROVE StreamsInv'
  <2>1. PICK theStream \in {StreamAt(w, 0) : w \in BOOLEAN}
                     \cup {StreamAt(byteStreams[t].writable, byteStreams[t].offset) :
                             t \in ByteStreams} : ByteStep(s, theStream) /\ UNCHANGED <<sharedData, typed>>
    BY <1>9 DEF MakeStream
  <2>2. theStream \in Streams(n)
    <3>1. \A w \in BOOLEAN, offset \in 0..n : StreamAt(w, offset) \in Streams(n)
      BY DEF StreamAt, Streams
    <3>2. \A t \in ByteStreams : byteStreams[t].writable \in BOOLEAN /\ byteStreams[t].offset \in 0..n
      BY <1>1 DEF Streams
    <3>. QED  BY <1>1, <2>1, <3>1, <3>2
  <2>. QED  BY <2>1, <2>2, OnlyMoved
<1>. QED  BY <1>2, <1>3, <1>4, <1>5, <1>6, <1>7, <1>8, <1>9 DEF ByteStreamNext

(* No stream is beyond the data, and every number is read as it was written.   *)
THEOREM DataIsRead == ByteStreamSpec => []SharedDataIsRead
<1>1. ByteStreamInit => StreamsInv
  <2>. SUFFICES ASSUME ByteStreamInit PROVE StreamsInv
    OBVIOUS
  <2>1. sharedData = <<>> /\ Len(sharedData) = 0 /\ sharedData \in Seq(Byte) /\ typed = {}
    BY DEF ByteStreamInit
  <2>2. \A w \in BOOLEAN : StreamAt(w, 0) \in Streams(0)
    BY DEF StreamAt, Streams
  <2>3. byteStreams \in [ByteStreams -> Streams(0)]
    BY <2>2 DEF ByteStreamInit
  <2>. QED  BY <2>1, <2>3 DEF StreamsInv
<1>2. StreamsInv /\ [ByteStreamNext]_byteStreamVars => StreamsInv'
  <2>1. StreamsInv /\ UNCHANGED byteStreamVars => StreamsInv'
    BY DEF byteStreamVars, StreamsInv
  <2>. QED  BY <2>1, ByteStreamStep
<1>3. StreamsInv => SharedDataIsRead
  <2>. SUFFICES ASSUME StreamsInv PROVE SharedDataIsRead
    OBVIOUS
  <2>. DEFINE n == Len(sharedData)
  <2>1. n \in Nat /\ \A s \in ByteStreams : byteStreams[s] \in Streams(n)
    BY DEF StreamsInv
  <2>2. ASSUME NEW s \in ByteStreams
        PROVE  /\ Remained(s) >= 0
               /\ \A i \in DOMAIN byteStreams[s].stack : byteStreams[s].stack[i] <= n
    <3>. DEFINE stack == byteStreams[s].stack
    <3>1. byteStreams[s].offset \in 0..n /\ stack \in Seq(0..n)
      BY <2>1 DEF Streams
    <3>2. Remained(s) >= 0
      BY <2>1, <3>1 DEF Remained
    <3>. HIDE DEF stack, n
    <3>3. \A i \in DOMAIN stack : stack[i] <= n
      BY <2>1, <3>1
    <3>. QED  BY <3>2, <3>3 DEF stack
  <2>3. ASSUME NEW t \in typed
        PROVE  OrderToHost(AsStored(SubSeq(sharedData, t.at + 1, t.at + Len(t.bytes))), t.order) = t.bytes
    <3>. DEFINE b == t.bytes
                o == t.order
                stored == AsStored(HostToOrder(b, o))
                k == Len(b)
                from == t.at + 1
                to == t.at + k
                there == SubSeq(sharedData, from, to)
    <3>1. t \in PlacedNumbers /\ InPlace(t, sharedData) /\ b \in Seq(Byte) /\ k \in Nat \ {0} /\ t.at \in Nat
      BY NumbersAre DEF StreamsInv, PlacedNumbers
    <3>2. stored \in Seq(Byte) /\ Len(stored) = k /\ OrderToHost(AsStored(stored), o) = b
      BY <3>1, StoredAndRead
    <3>3. to <= n /\ \A i \in 1..k : sharedData[t.at + i] = stored[i]
      BY <3>1 DEF InPlace
    <3>. HIDE DEF k, stored
    <3>4. from \in Int /\ to \in Int /\ from <= to /\ to - from + 1 = k /\ from >= 1
      BY <3>1
    <3>5. \A i \in 1..k : from + i - 1 = t.at + i
      BY <3>1
    <3>. HIDE DEF from, to, n
    <3>6. \A i \in from..to : sharedData[i] \in Byte
      BY <2>1, <3>3, <3>4, ElementOfSeq DEF n, StreamsInv
    <3>7. /\ there \in Seq(Byte) /\ Len(there) = k
          /\ \A i \in 1..k : there[i] = sharedData[from + i - 1]
      BY <3>4, <3>6, SubSeqProperties
    <3>. HIDE DEF there
    <3>8. \A i \in 1..k : there[i] = stored[i]
      BY <3>3, <3>5, <3>7
    <3>9. there = stored
      BY <3>2, <3>7, <3>8, SeqEqual
    <3>. QED  BY <3>2, <3>9 DEF there, from, to, k
  <2>. QED  BY <2>2, <2>3 DEF SharedDataIsRead
<1>. QED  BY <1>1, <1>2, <1>3, PTL DEF ByteStreamSpec

-----------------------------------------------------------------------------
(* DataStream.                                                                 *)
Modes == {"none", "absent", "rb", "rb+", "wb", "wb+", "ab", "ab+"}
CellBytes == 0..256

StreamStates ==
  [kind : {"memory", "queue", "file", "reversed"}, order : ByteOrders, bytes : Seq(CellBytes),
   pos : Nat, owned : BOOLEAN, left : Nat, mode : Modes, eof : BOOLEAN]

Entries == {Of(v, order) : v \in StreamValues, order \in ByteOrders}
Readings == [kind : StreamKinds, order : ByteOrders, bytes : Seq(CellBytes)]

Encoded(w) == PutValue(w, w.order)

(* The values are in the bytes, one behind the other.                          *)
Stored(bytes, values) ==
  /\ Begins(values)[Len(values)] <= Len(bytes)
  /\ \A i \in 1..Len(values) : \A j \in 1..SizeInStream(values[i]) :
       bytes[Begins(values)[i - 1] + j] = Encoded(values[i])[j]

(* What was read is what was written.                                          *)
Same(values, read) ==
  /\ Len(read) <= Len(values)
  /\ \A i \in 1..Len(read) :
       ComesBack(values[i]) /\ read[i].order = values[i].order => read[i] = values[i]

(* The place is that of the value that is next, or somewhere behind the last.  *)
Stands(s, values, read) ==
  /\ s.pos <= Size(s)
  /\ s.kind # "memory" => Size(s) = Begins(values)[Len(values)]
  /\ s.kind # "file" => s.mode = "none" /\ ~s.eof
  /\ ~s.eof => IF Len(read) < Len(values) THEN s.pos = Begins(values)[Len(read)]
                ELSE s.pos >= Begins(values)[Len(values)]
  /\ s.eof => Len(read) = Len(values)

StreamOk(s, values, read) ==
  /\ s \in StreamStates /\ values \in Seq(Entries) /\ read \in Seq(Readings)
  /\ Same(values, read)
  /\ IF s.kind = "reversed" THEN values = <<>> /\ s.pos <= Size(s) /\ s.left <= Size(s)
     ELSE Stored(s.bytes, values) /\ Stands(s, values, read)

DataStreamInv == StreamOk(stream, written, got)
-----------------------------------------------------------------------------
(* Where values begin.                                                         *)

Sums(b, values, n) ==
  /\ b \in [0..n -> Nat] /\ b[0] = 0
  /\ \A k \in 1..n : b[k] = b[k - 1] + SizeInStream(values[k])

Sized(values) ==
  Len(values) \in Nat /\ \A i \in 1..Len(values) : SizeInStream(values[i]) \in Nat

(* Sums can be continued.                                                      *)
LEMMA SumsFurther ==
  ASSUME NEW n \in Nat, NEW values, SizeInStream(values[n + 1]) \in Nat,
         NEW b, Sums(b, values, n)
  PROVE  \E c : Sums(c, values, n + 1)
<1>. DEFINE next == b[n] + SizeInStream(values[n + 1])
            c == [k \in 0..n + 1 |-> IF k = n + 1 THEN next ELSE b[k]]
<1>1. b[n] \in Nat /\ next \in Nat
  BY DEF Sums
<1>2. c \in [0..n + 1 -> Nat] /\ c[0] = 0
  <2>. HIDE DEF next
  <2>. QED  BY <1>1 DEF Sums
<1>3. \A k \in 0..n : c[k] = b[k]
  <2>. HIDE DEF next
  <2>. QED  OBVIOUS
<1>4. c[n + 1] = next
  <2>. HIDE DEF next
  <2>. QED  OBVIOUS
<1>5. ASSUME NEW k \in 1..n + 1 PROVE c[k] = c[k - 1] + SizeInStream(values[k])
  <2>. HIDE DEF c
  <2>1. CASE k = n + 1
    <3>1. k - 1 = n /\ n \in 0..n
      BY <2>1
    <3>. QED  BY <1>3, <1>4, <2>1, <3>1
  <2>2. CASE k # n + 1
    <3>1. k \in 1..n /\ k \in 0..n /\ k - 1 \in 0..n
      BY <2>2
    <3>2. b[k] = b[k - 1] + SizeInStream(values[k])
      BY <3>1 DEF Sums
    <3>. QED  BY <1>3, <3>1, <3>2
  <2>. QED  BY <2>1, <2>2
<1>. QED  BY <1>2, <1>5, Zenon DEF Sums

(* Begins sums up the sizes.                                                   *)
LEMMA BeginsIs ==
  ASSUME NEW values, Sized(values)
  PROVE  Sums(Begins(values), values, Len(values))
<1>. DEFINE n == Len(values)
            Is(h) == h = [k \in 0..n |-> IF k = 0 THEN 0 ELSE h[k - 1] + SizeInStream(values[k])]
            P(m) == m <= n => \E b : Sums(b, values, m)
            S == {m \in Nat : P(m)}
<1>0. n \in Nat /\ \A i \in 1..n : SizeInStream(values[i]) \in Nat
  BY DEF Sized
<1>1. \E b : Sums(b, values, n)
  <2>1. 0 \in S
    <3>. DEFINE b == [k \in 0..0 |-> 0]
    <3>1. Sums(b, values, 0)
      BY DEF Sums
    <3>. QED  BY <3>1
  <2>2. ASSUME NEW m \in Nat, m \in S PROVE m + 1 \in S
    <3>1. ASSUME m + 1 <= n PROVE \E b : Sums(b, values, m + 1)
      <4>. HIDE DEF n
      <4>1. m <= n /\ m + 1 \in 1..n
        BY <1>0, <3>1
      <4>2. PICK b : Sums(b, values, m)
        BY <2>2, <4>1
      <4>3. SizeInStream(values[m + 1]) \in Nat
        BY <1>0, <4>1
      <4>. QED  BY <4>2, <4>3, SumsFurther
    <3>. QED  BY <3>1
  <2>3. Nat \subseteq S
    <3>. HIDE DEF S
    <3>. QED  BY <2>1, <2>2, SetInduction
  <2>. HIDE DEF n
  <2>. QED  BY <1>0, <2>3
<1>2. PICK b : Sums(b, values, n)
  BY <1>1
<1>. HIDE DEF n
<1>3. Is(b)
  <2>1. ASSUME NEW k \in 0..n
        PROVE  b[k] = IF k = 0 THEN 0 ELSE b[k - 1] + SizeInStream(values[k])
    <3>1. CASE k = 0
      BY <1>2, <3>1 DEF Sums
    <3>2. CASE k # 0
      <4>1. k \in 1..n
        BY <1>0, <3>2
      <4>. QED  BY <1>2, <3>2, <4>1 DEF Sums
    <3>. QED  BY <3>1, <3>2
  <2>2. b \in [0..n -> Nat]
    BY <1>2 DEF Sums
  <2>. QED  BY <2>1, <2>2, Zenon
<1>. DEFINE h == CHOOSE g : Is(g)
<1>4. Is(h)
  <2>. HIDE DEF Is
  <2>. QED  BY <1>3
<1>5. Begins(values) = h
  BY Zenon DEF Begins, n
<1>. HIDE DEF h
<1>6. DOMAIN h = 0..n
  BY <1>4, Zenon
<1>7. h[0] = 0 /\ \A k \in 1..n : h[k] = h[k - 1] + SizeInStream(values[k])
  <2>1. 0 \in 0..n
    BY <1>0
  <2>2. h[0] = 0
    BY <1>4, <2>1, Zenon
  <2>3. ASSUME NEW k \in 1..n PROVE h[k] = h[k - 1] + SizeInStream(values[k])
    <3>1. k \in 0..n /\ k # 0
      BY <1>0
    <3>. QED  BY <1>4, <3>1, Zenon
  <2>. QED  BY <2>2, <2>3
<1>8. \A k \in 0..n : h[k] \in Nat
  <2>. DEFINE T == {m \in Nat : m <= n => h[m] \in Nat}
  <2>1. 0 \in T
    BY <1>7
  <2>2. ASSUME NEW m \in Nat, m \in T PROVE m + 1 \in T
    <3>1. ASSUME m + 1 <= n PROVE h[m + 1] \in Nat
      <4>1. m + 1 \in 1..n /\ m + 1 - 1 = m /\ h[m] \in Nat
        BY <1>0, <2>2, <3>1
      <4>. QED  BY <1>0, <1>7, <4>1
    <3>. QED  BY <3>1
  <2>3. Nat \subseteq T
    <3>. HIDE DEF T
    <3>. QED  BY <2>1, <2>2, SetInduction
  <2>. QED  BY <1>0, <2>3
<1>9. h \in [0..n -> Nat]
  <2>1. h = [k \in 0..n |-> h[k]]
    BY <1>4, <1>6, Zenon
  <2>. QED  BY <1>8, <2>1
<1>. QED  BY <1>5, <1>7, <1>9 DEF Sums, n

(* Two sums that grow by the same are the same.                                *)
LEMMA GrowAlike ==
  ASSUME NEW n \in Nat, NEW f, NEW g, f[0] = g[0],
         \A k \in 0..n : f[k] \in Int /\ g[k] \in Int,
         \A k \in 1..n : f[k] - f[k - 1] = g[k] - g[k - 1]
  PROVE  \A k \in 0..n : f[k] = g[k]
<1>. DEFINE T == {m \in Nat : m <= n => f[m] = g[m]}
<1>1. 0 \in T
  OBVIOUS
<1>2. ASSUME NEW m \in Nat, m \in T PROVE m + 1 \in T
  <2>1. ASSUME m + 1 <= n PROVE f[m + 1] = g[m + 1]
    <3>1. m + 1 \in 1..n /\ m + 1 \in 0..n /\ m \in 0..n /\ m + 1 - 1 = m /\ f[m] = g[m]
      BY <1>2, <2>1
    <3>2. f[m + 1] - f[m] = g[m + 1] - g[m]
      BY <3>1
    <3>. QED  BY <3>1, <3>2
  <2>. QED  BY <2>1
<1>3. Nat \subseteq T
  <2>. HIDE DEF T
  <2>. QED  BY <1>1, <1>2, SetInduction
<1>. QED  BY <1>3

(* Sums never fall.                                                            *)
LEMMA SumsRise ==
  ASSUME NEW n \in Nat, NEW values, NEW b, Sums(b, values, n),
         \A i \in 1..n : SizeInStream(values[i]) \in Nat
  PROVE  \A k \in 0..n : \A i \in 0..k : b[i] <= b[k]
<1>. DEFINE T == {m \in Nat : m <= n => \A i \in 0..m : b[i] <= b[m]}
<1>0. \A k \in 0..n : b[k] \in Nat
  BY DEF Sums
<1>1. 0 \in T
  BY <1>0
<1>2. ASSUME NEW m \in Nat, m \in T PROVE m + 1 \in T
  <2>1. ASSUME m + 1 <= n, NEW i \in 0..m + 1 PROVE b[i] <= b[m + 1]
    <3>1. m + 1 \in 1..n /\ m \in 0..n /\ m + 1 - 1 = m /\ m + 1 \in 0..n /\ i \in 0..n
      BY <2>1
    <3>2. b[m + 1] = b[m] + SizeInStream(values[m + 1]) /\ SizeInStream(values[m + 1]) \in Nat
      BY <3>1 DEF Sums
    <3>3. b[m] \in Nat /\ b[m] <= b[m + 1]
      BY <1>0, <3>1, <3>2
    <3>4. CASE i = m + 1
      BY <1>0, <3>1, <3>4
    <3>5. CASE i # m + 1
      <4>1. i \in 0..m /\ m <= n
        BY <2>1, <3>5
      <4>2. b[i] <= b[m]
        BY <1>2, <4>1
      <4>. QED  BY <1>0, <3>1, <3>3, <4>2
    <3>. QED  BY <3>4, <3>5
  <2>. QED  BY <2>1
<1>3. Nat \subseteq T
  <2>. HIDE DEF T
  <2>. QED  BY <1>1, <1>2, SetInduction
<1>. QED  BY <1>3

-----------------------------------------------------------------------------
(* Values and what is stored of them.                                          *)

Backwards(b) == [i \in 1..Len(b) |-> b[Len(b) - i + 1]]

(* Backwards twice is as before; the two ways the model has to turn bytes      *)
(* round are the same.                                                         *)
LEMMA BackwardsIs ==
  ASSUME NEW S, NEW b \in Seq(S)
  PROVE  /\ Backwards(b) \in Seq(S) /\ Len(Backwards(b)) = Len(b)
         /\ \A i \in 1..Len(b) : Backwards(b)[i] = b[Len(b) - i + 1]
         /\ Backwards(Backwards(b)) = b
         /\ swapOrder(b) = Backwards(b) /\ Reverse(b) = Backwards(b)
<1>. DEFINE n == Len(b)
            c == Backwards(b)
<1>1. n \in Nat /\ b \in [1..n -> S]
  OBVIOUS
<1>2. c = [i \in 1..n |-> b[n - i + 1]]
  BY DEF Backwards
<1>. HIDE DEF n
<1>3. \A i \in 1..n : n - i + 1 \in 1..n
  BY <1>1
<1>4. c \in [1..n -> S]
  BY <1>1, <1>2, <1>3
<1>. HIDE DEF c
<1>5. c \in Seq(S) /\ Len(c) = n
  BY <1>1, <1>4
<1>6. Backwards(c) = [i \in 1..n |-> c[n - i + 1]]
  BY <1>5 DEF Backwards
<1>7. \A i \in 1..n : c[n - i + 1] = b[i]
  <2>1. ASSUME NEW i \in 1..n PROVE c[n - i + 1] = b[i]
    <3>1. n - i + 1 \in 1..n /\ n - (n - i + 1) + 1 = i
      BY <1>1
    <3>. QED  BY <1>2, <3>1
  <2>. QED  BY <2>1
<1>8. Backwards(c) = b
  BY <1>1, <1>6, <1>7
<1>9. swapOrder(b) = c /\ Reverse(b) = c
  BY <1>2 DEF swapOrder, Reverse, n
<1>. QED  BY <1>2, <1>5, <1>8, <1>9 DEF c, n

(* Whatever the machine's order, big-endian bytes are as they are.             *)
LEMMA NumberIs ==
  ASSUME NEW S, NEW b \in Seq(S), NEW order \in ByteOrders
  PROVE  /\ writeNumber(b, order) = IF order = "big" THEN b ELSE Backwards(b)
         /\ readNumber(b, order) = IF order = "big" THEN b ELSE Backwards(b)
<1>1. Host = "little" \/ Host = "big"
  BY StreamAssumption DEF ByteOrders
<1>2. order = "little" \/ order = "big"
  BY DEF ByteOrders
<1>3. Backwards(b) \in Seq(S) /\ Backwards(Backwards(b)) = b
  BY BackwardsIs
<1>4. /\ swapOrder(b) = Backwards(b) /\ Reverse(b) = Backwards(b)
      /\ swapOrder(Backwards(b)) = b /\ Reverse(Backwards(b)) = b
  BY <1>3, BackwardsIs
<1>5. CASE Host = "little"
  BY <1>2, <1>4, <1>5 DEF writeNumber, readNumber, InMemory
<1>6. CASE Host = "big"
  BY <1>2, <1>4, <1>6 DEF writeNumber, readNumber, InMemory
<1>. QED  BY <1>1, <1>5, <1>6

(* A number is read as it was written when both are in the same order.         *)
LEMMA NumbersComeBack ==
  ASSUME NEW S, NEW b \in Seq(S), NEW order \in ByteOrders
  PROVE  /\ writeNumber(b, order) \in Seq(S) /\ Len(writeNumber(b, order)) = Len(b)
         /\ readNumber(b, order) \in Seq(S) /\ Len(readNumber(b, order)) = Len(b)
         /\ readNumber(writeNumber(b, order), order) = b
<1>1. Backwards(b) \in Seq(S) /\ Backwards(Backwards(b)) = b /\ Len(Backwards(b)) = Len(b)
  BY BackwardsIs
<1>2. readNumber(b, order) = IF order = "big" THEN b ELSE Backwards(b)
  BY NumberIs
<1>3. writeNumber(b, order) = IF order = "big" THEN b ELSE Backwards(b)
  BY NumberIs
<1>4. readNumber(Backwards(b), order) = IF order = "big" THEN Backwards(b) ELSE b
  BY <1>1, NumberIs
<1>. QED  BY <1>1, <1>2, <1>3, <1>4

(* Byte by byte, no order matters.                                             *)
LEMMA OneByOneIs ==
  ASSUME NEW S, NEW b \in Seq(S), NEW order \in ByteOrders
  PROVE  OneByOne(b, order) = b
<1>. DEFINE n == Len(b)
            seqs == [i \in 1..n |-> <<b[i]>>]
<1>1. n \in Nat /\ b \in [1..n -> S] /\ \A i \in 1..n : b[i] \in S
  OBVIOUS
<1>. HIDE DEF n
<1>2. ASSUME NEW x \in S PROVE writeNumber(<<x>>, order) = <<x>>
  <2>1. <<x>> \in Seq(S) /\ Len(<<x>>) = 1 /\ <<x>>[1] = x
    OBVIOUS
  <2>2. Backwards(<<x>>) = <<x>>
    <3>1. \A i \in 1..1 : 1 - i + 1 = 1 /\ i = 1
      OBVIOUS
    <3>2. Backwards(<<x>>) = [i \in 1..1 |-> <<x>>[1 - i + 1]]
      BY <2>1 DEF Backwards
    <3>3. Backwards(<<x>>) \in Seq(S) /\ Len(Backwards(<<x>>)) = 1
      BY <2>1, BackwardsIs
    <3>4. Backwards(<<x>>)[1] = x
      BY <2>1, <3>2
    <3>. QED  BY <2>1, <3>3, <3>4
  <2>. QED  BY <2>1, <2>2, NumberIs
<1>3. OneByOne(b, order) = FlattenSeq(seqs)
  <2>1. [i \in 1..n |-> writeNumber(<<b[i]>>, order)] = seqs
    BY <1>1, <1>2
  <2>. QED  BY <2>1, Zenon DEF OneByOne, n
<1>4. seqs \in [1..n -> Seq(S)]
  BY <1>1
<1>5. FlattenSeq(seqs) \in Seq(S)
  BY <1>1, <1>4, FlattenLayout
<1>6. PICK e \in [0..n -> Nat] : Laid(FlattenSeq(seqs), e, seqs, n)
  BY <1>1, <1>4, FlattenLayout
<1>7. \A k \in 1..n : Len(seqs[k]) = 1 /\ seqs[k][1] = b[k]
  BY <1>1
<1>. DEFINE w == FlattenSeq(seqs)
<1>. HIDE DEF seqs
<1>8. \A k \in 0..n : e[k] = k
  <2>. DEFINE T == {m \in Nat : m <= n => e[m] = m}
  <2>1. e[0] = 0 /\ \A k \in 1..n : e[k] = e[k - 1] + Len(seqs[k])
    BY <1>6 DEF Laid
  <2>2. 0 \in T
    BY <2>1
  <2>3. ASSUME NEW m \in Nat, m \in T PROVE m + 1 \in T
    <3>1. ASSUME m + 1 <= n PROVE e[m + 1] = m + 1
      <4>1. m + 1 \in 1..n /\ m + 1 - 1 = m /\ e[m] = m
        BY <1>1, <2>3, <3>1
      <4>2. e[m + 1] = e[m] + Len(seqs[m + 1])
        BY <2>1, <4>1
      <4>3. Len(seqs[m + 1]) = 1
        BY <1>7, <4>1
      <4>. QED  BY <4>1, <4>2, <4>3
    <3>. QED  BY <3>1
  <2>4. Nat \subseteq T
    <3>. HIDE DEF T
    <3>. QED  BY <2>2, <2>3, SetInduction
  <2>. QED  BY <1>1, <2>4
<1>9. Len(w) = n /\ \A i \in 1..n : w[i] = b[i]
  <2>1. Len(w) = e[n] /\ n \in 0..n
    BY <1>1, <1>6 DEF Laid
  <2>2. ASSUME NEW i \in 1..n PROVE w[i] = b[i]
    <3>1. i - 1 \in 0..n /\ 1 \in 1..Len(seqs[i]) /\ i - 1 + 1 = i
      BY <1>1, <1>7
    <3>2. w[e[i - 1] + 1] = seqs[i][1]
      BY <1>6, <3>1 DEF Laid
    <3>. QED  BY <1>7, <1>8, <3>1, <3>2
  <2>. QED  BY <1>8, <2>1, <2>2
<1>10. w \in Seq(S)
  BY <1>5
<1>. HIDE DEF w
<1>11. w = b
  BY <1>1, <1>9, <1>10
<1>. QED  BY <1>3, <1>11 DEF w

(* A number in the stream has the bytes of its own, and is read back.          *)
LEMMA NumberStored ==
  ASSUME NEW v, MayBeWritten(v), v.kind = "number", NEW order \in ByteOrders
  PROVE  /\ PutValue(v, order) \in Seq(StreamBytes) /\ Len(PutValue(v, order)) = SizeInStream(v)
         /\ GetValue(v.kind, PutValue(v, order), order) = v.bytes
<1>1. v.bytes \in Seq(StreamBytes)
  BY DEF MayBeWritten
<1>2. PutValue(v, order) = writeNumber(v.bytes, order) /\ SizeInStream(v) = Len(v.bytes)
  BY DEF PutValue, SizeInStream
<1>3. \A b : GetValue(v.kind, b, order) = readNumber(b, order)
  BY DEF GetValue
<1>. QED  BY <1>1, <1>2, <1>3, NumbersComeBack

(* Bytes written one by one: those of 32 bits are read back, and those of 64   *)
(* only have their length.                                                     *)
LEMMA BytesStored ==
  ASSUME NEW v, MayBeWritten(v), v.kind \in {"bytes32", "bytes64"}, NEW order \in ByteOrders
  PROVE  /\ PutValue(v, order) \in Seq(StreamBytes) /\ Len(PutValue(v, order)) = SizeInStream(v)
         /\ v.kind = "bytes32" => GetValue(v.kind, PutValue(v, order), order) = v.bytes
<1>1. v.bytes \in Seq(StreamBytes)
  BY DEF MayBeWritten
<1>2. /\ Reverse(v.bytes) = Backwards(v.bytes)
      /\ Backwards(v.bytes) \in Seq(StreamBytes) /\ Len(Backwards(v.bytes)) = Len(v.bytes)
      /\ Backwards(Backwards(v.bytes)) = v.bytes
  BY <1>1, BackwardsIs
<1>3. PutValue(v, order) = OneByOne(Reverse(v.bytes), order)
  BY DEF PutValue
<1>4. PutValue(v, order) = Backwards(v.bytes)
  BY <1>2, <1>3, OneByOneIs
<1>5. SizeInStream(v) = Len(v.bytes)
  BY DEF SizeInStream
<1>6. v.kind = "bytes32" => GetValue(v.kind, PutValue(v, order), order) = Reverse(PutValue(v, order))
  BY DEF GetValue
<1>7. Reverse(PutValue(v, order)) = v.bytes
  BY <1>2, <1>4, BackwardsIs
<1>. QED  BY <1>2, <1>4, <1>5, <1>6, <1>7

(* A string is its length and its bytes, and is read back.                     *)
LEMMA StringStored ==
  ASSUME NEW v, MayBeWritten(v), v.kind = "string", NEW order \in ByteOrders
  PROVE  /\ PutValue(v, order) \in Seq(StreamBytes) /\ Len(PutValue(v, order)) = SizeInStream(v)
         /\ GetValue(v.kind, PutValue(v, order), order) = v.bytes
<1>. DEFINE t == v.bytes
            n == Len(t)
            length == <<0, 0, 0, n>>
            head == writeNumber(length, order)
            m == Len(head)
            all == head \o t
<1>1. t \in Seq(StreamBytes) /\ n \in StreamBytes
  BY DEF MayBeWritten
<1>2. PutValue(v, order) = all
  BY DEF PutValue
<1>3. SizeInStream(v) = 4 + n
  BY DEF SizeInStream
<1>4. GetValue(v.kind, all, order) = SubSeq(all, 5, Len(all))
  BY Zenon DEF GetValue
<1>. HIDE DEF t
<1>5. n \in Nat /\ Len(t) = n
  BY <1>1 DEF StreamBytes
<1>. HIDE DEF n
<1>6. length \in Seq(StreamBytes) /\ Len(length) = 4
  BY <1>1 DEF StreamBytes
<1>. HIDE DEF length
<1>7. head \in Seq(StreamBytes) /\ Len(head) = Len(length)
  BY <1>6, NumbersComeBack
<1>. HIDE DEF head
<1>8. m \in Nat /\ m = 4
  BY <1>6, <1>7
<1>9. all \in Seq(StreamBytes) /\ Len(all) = m + n /\ \A i \in 1..n : all[m + i] = t[i]
  <2>1. head \in Seq(StreamBytes)
    BY <1>7
  <2>2. /\ all \in Seq(StreamBytes) /\ Len(all) = Len(head) + Len(t)
        /\ \A i \in 1..Len(t) : all[Len(head) + i] = t[i]
    BY <1>1, <2>1, JoinOf
  <2>. QED  BY <1>5, <2>2
<1>. HIDE DEF all, m
<1>. DEFINE sub == SubSeq(all, m + 1, Len(all))
<1>10. sub \in Seq(StreamBytes) /\ Len(sub) = n /\ \A i \in 1..n : sub[i] = all[m + i]
  BY <1>5, <1>8, <1>9
<1>11. SubSeq(all, 5, Len(all)) = sub
  <2>1. m + 1 = 5
    BY <1>8
  <2>. QED  BY <2>1
<1>. HIDE DEF sub
<1>12. sub = t
  BY <1>1, <1>5, <1>9, <1>10
<1>13. Len(all) = 4 + n
  BY <1>8, <1>9
<1>. QED  BY <1>2, <1>3, <1>4, <1>9, <1>11, <1>12, <1>13 DEF t

(* Four bytes from a first, a second and the last two.                         *)
LEMMA FourJoined ==
  ASSUME NEW b \in StreamBytes, NEW c \in StreamBytes, NEW d \in StreamBytes
  PROVE  <<0>> \o <<b>> \o <<c, d>> = <<0, b, c, d>>
<1>. DEFINE p == <<0>>
            q == <<b>>
            r == <<c, d>>
            x == <<0, b, c, d>>
            y == p \o q
            z == y \o r
<1>1. /\ p \in Seq(StreamBytes) /\ q \in Seq(StreamBytes)
      /\ r \in Seq(StreamBytes) /\ x \in Seq(StreamBytes)
  BY DEF StreamBytes
<1>2. Len(p) = 1 /\ Len(q) = 1 /\ Len(r) = 2 /\ Len(x) = 4
  OBVIOUS
<1>3. p[1] = 0 /\ q[1] = b /\ r[1] = c /\ r[2] = d
  OBVIOUS
<1>4. x[1] = 0 /\ x[2] = b /\ x[3] = c /\ x[4] = d
  OBVIOUS
<1>. HIDE DEF p, q, r, x
<1>5. /\ y \in Seq(StreamBytes) /\ Len(y) = Len(p) + Len(q)
      /\ \A i \in 1..Len(p) : y[i] = p[i]
      /\ \A i \in 1..Len(q) : y[Len(p) + i] = q[i]
  BY <1>1, JoinOf
<1>. HIDE DEF y
<1>6. /\ z \in Seq(StreamBytes) /\ Len(z) = Len(y) + Len(r)
      /\ \A i \in 1..Len(y) : z[i] = y[i]
      /\ \A i \in 1..Len(r) : z[Len(y) + i] = r[i]
  <2>1. y \in Seq(StreamBytes) /\ r \in Seq(StreamBytes)
    BY <1>1, <1>5
  <2>. QED  BY <2>1, JoinOf
<1>. HIDE DEF z
<1>7. PICK k, l, m, n : k = Len(p) /\ l = Len(q) /\ m = Len(r) /\ n = Len(y)
  OBVIOUS
<1>8. k = 1 /\ l = 1 /\ m = 2 /\ n = 2
  <2>1. n = k + l
    BY <1>5, <1>7
  <2>. QED  BY <1>2, <1>7, <2>1
<1>9. y[1] = 0 /\ y[2] = b
  <2>1. (\A i \in 1..k : y[i] = p[i]) /\ \A i \in 1..l : y[k + i] = q[i]
    BY <1>5, <1>7
  <2>. QED  BY <1>3, <1>8, <2>1
<1>10. z[1] = 0 /\ z[2] = b /\ z[3] = c /\ z[4] = d
  <2>1. (\A i \in 1..n : z[i] = y[i]) /\ \A i \in 1..m : z[n + i] = r[i]
    BY <1>6, <1>7
  <2>. QED  BY <1>3, <1>8, <1>9, <2>1
<1>11. Len(z) = 4
  <2>1. Len(z) = n + m
    BY <1>6, <1>7
  <2>. QED  BY <1>8, <2>1
<1>12. \A i \in 1..4 : z[i] = x[i]
  BY <1>4, <1>10
<1>13. Len(z) = Len(x) /\ \A i \in 1..Len(z) : z[i] = x[i]
  BY <1>2, <1>11, <1>12
<1>14. z = x
  BY <1>1, <1>6, <1>13, SeqEqual
<1>. QED  BY <1>14 DEF p, q, r, x, y, z

(* What is left of an integer of 24 bits, and what is read of it.              *)
LEMMA ShortStored ==
  ASSUME NEW v, MayBeWritten(v), v.kind \in {"uint24", "int24"}, NEW order \in ByteOrders
  PROVE  /\ PutValue(v, order) \in Seq(StreamBytes) /\ Len(PutValue(v, order)) = SizeInStream(v)
         /\ v.bytes[1] = 0 => GetValue(v.kind, PutValue(v, order), order) = v.bytes
<1>. DEFINE t == v.bytes
            low == <<t[3], t[4]>>
            first == writeNumber(<<t[2]>>, order)
            second == writeNumber(low, order)
            all == first \o second
            m == Len(first)
            n == Len(second)
<1>1. t \in Seq(StreamBytes) /\ Len(t) = 4
  BY DEF MayBeWritten
<1>2. PutValue(v, order) = all
  BY DEF PutValue
<1>3. SizeInStream(v) = 3
  BY DEF SizeInStream
<1>4. GetValue(v.kind, all, order) = readUInt24(all, order)
  BY DEF GetValue
<1>. HIDE DEF t
<1>5. \A i \in 1..4 : t[i] \in StreamBytes
  <2>1. \A i \in 1..Len(t) : t[i] \in StreamBytes
    BY <1>1, ElementOfSeq
  <2>. QED  BY <1>1, <2>1
<1>6. <<t[2]>> \in Seq(StreamBytes) /\ Len(<<t[2]>>) = 1
  BY <1>5
<1>7. low \in Seq(StreamBytes) /\ Len(low) = 2
  BY <1>5
<1>8. /\ first \in Seq(StreamBytes) /\ Len(first) = Len(<<t[2]>>)
      /\ readNumber(first, order) = <<t[2]>>
  BY <1>6, NumbersComeBack
<1>9. /\ second \in Seq(StreamBytes) /\ Len(second) = Len(low)
      /\ readNumber(second, order) = low
  <2>. HIDE DEF low
  <2>. QED  BY <1>7, NumbersComeBack
<1>10. m = 1 /\ n = 2
  <2>. HIDE DEF first, second, low
  <2>. QED  BY <1>6, <1>7, <1>8, <1>9
<1>. HIDE DEF first, second
<1>11. /\ all \in Seq(StreamBytes) /\ Len(all) = m + n
       /\ \A i \in 1..m : all[i] = first[i]
       /\ \A i \in 1..n : all[m + i] = second[i]
  <2>1. first \in Seq(StreamBytes) /\ second \in Seq(StreamBytes)
    BY <1>8, <1>9
  <2>. QED  BY <2>1, JoinOf
<1>12. m \in Nat /\ n \in Nat /\ Len(first) = m /\ Len(second) = n
  BY <1>10
<1>. HIDE DEF all, m, n
<1>13. <<all[1]>> = first
  <2>1. all[1] = first[1]
    BY <1>10, <1>11
  <2>2. Len(first) = 1
    BY <1>10, <1>12
  <2>. QED  BY <1>8, <2>1, <2>2
<1>14. SubSeq(all, 2, 3) = second
  <2>. DEFINE sub == SubSeq(all, m + 1, m + n)
  <2>1. sub \in Seq(StreamBytes) /\ Len(sub) = n /\ \A i \in 1..n : sub[i] = all[m + i]
    BY <1>11, <1>12
  <2>2. sub = second
    <3>. HIDE DEF sub
    <3>1. second \in Seq(StreamBytes) /\ Len(sub) = Len(second)
      BY <1>9, <1>12, <2>1
    <3>2. \A i \in 1..Len(sub) : sub[i] = second[i]
      BY <1>11, <2>1
    <3>. QED  BY <2>1, <3>1, <3>2, SeqEqual
  <2>3. m + 1 = 2 /\ m + n = 3
    BY <1>10
  <2>. QED  BY <2>2, <2>3
<1>15. readUInt24(all, order) = <<0>> \o <<t[2]>> \o low
  BY <1>8, <1>9, <1>13, <1>14, Zenon DEF readUInt24
<1>16. t[1] = 0 => <<0>> \o <<t[2]>> \o low = t
  <2>. DEFINE x == <<0, t[2], t[3], t[4]>>
  <2>1. <<0>> \o <<t[2]>> \o low = x
    BY <1>5, FourJoined
  <2>2. x \in Seq(StreamBytes) /\ Len(x) = 4
    BY <1>5 DEF StreamBytes
  <2>3. t[1] = 0 => \A i \in 1..4 : x[i] = t[i]
    OBVIOUS
  <2>. HIDE DEF x
  <2>4. t[1] = 0 => x = t
    BY <1>1, <2>2, <2>3
  <2>. QED  BY <2>1, <2>4
<1>17. Len(all) = 3
  BY <1>10, <1>11
<1>. QED  BY <1>2, <1>3, <1>4, <1>11, <1>15, <1>16, <1>17 DEF t

(* What is stored of a value has the size it is said to have, and comes back.  *)
LEMMA StoredAndBack ==
  ASSUME NEW w \in Entries
  PROVE  /\ w.kind \in StreamKinds /\ w.order \in ByteOrders /\ w.bytes \in Seq(StreamBytes)
         /\ w = [kind |-> w.kind, bytes |-> w.bytes, order |-> w.order]
         /\ SizeInStream(w) \in Nat \ {0}
         /\ Encoded(w) \in Seq(StreamBytes) /\ Len(Encoded(w)) = SizeInStream(w)
         /\ ComesBack(w) => GetValue(w.kind, Encoded(w), w.order) = w.bytes
<1>1. PICK v \in StreamValues, order \in ByteOrders : w = Of(v, order)
  BY DEF Entries
<1>2. w = [kind |-> v.kind, bytes |-> v.bytes, order |-> order]
  BY <1>1 DEF Of
<1>3. MayBeWritten(v)
  BY StreamAssumption
<1>4. w.kind = v.kind /\ w.bytes = v.bytes /\ w.order = order
  BY <1>2
<1>5. v.kind \in StreamKinds /\ v.bytes \in Seq(StreamBytes) /\ Len(v.bytes) \in Nat
  BY <1>3 DEF MayBeWritten
<1>6. SizeInStream(w) = SizeInStream(v) /\ ComesBack(w) = ComesBack(v)
  BY <1>4 DEF SizeInStream, ComesBack
<1>7. Encoded(w) = PutValue(v, order)
  BY <1>4 DEF Encoded, PutValue
<1>8. SizeInStream(v) \in Nat \ {0}
  <2>1. CASE v.kind = "string"
    BY <1>5, <2>1 DEF SizeInStream
  <2>2. CASE v.kind \in {"uint24", "int24"}
    BY <2>2 DEF SizeInStream
  <2>3. CASE v.kind \notin {"string", "uint24", "int24"}
    <3>1. v.bytes # <<>> /\ SizeInStream(v) = Len(v.bytes)
      BY <1>3, <2>3 DEF MayBeWritten, SizeInStream
    <3>. QED  BY <1>5, <3>1
  <2>. QED  BY <2>1, <2>2, <2>3
<1>9. /\ PutValue(v, order) \in Seq(StreamBytes) /\ Len(PutValue(v, order)) = SizeInStream(v)
      /\ ComesBack(v) => GetValue(v.kind, PutValue(v, order), order) = v.bytes
  <2>1. CASE v.kind = "number"
    BY <1>3, <2>1, NumberStored
  <2>2. CASE v.kind = "string"
    BY <1>3, <2>2, StringStored
  <2>3. CASE v.kind \in {"bytes32", "bytes64"}
    BY <1>3, <2>3, BytesStored DEF ComesBack
  <2>4. CASE v.kind \in {"uint24", "int24"}
    <3>1. ComesBack(v) => v.bytes[1] = 0
      BY <1>3, <2>4 DEF ComesBack, MayBeWritten
    <3>. QED  BY <1>3, <2>4, <3>1, ShortStored
  <2>. QED  BY <1>5, <2>1, <2>2, <2>3, <2>4 DEF StreamKinds
<1>. QED  BY <1>2, <1>4, <1>5, <1>6, <1>7, <1>8, <1>9

-----------------------------------------------------------------------------
(* Values one behind the other.                                                *)

(* Every value takes some bytes.                                               *)
LEMMA EntriesSized ==
  ASSUME NEW values \in Seq(Entries)
  PROVE  /\ Len(values) \in Nat /\ Sized(values)
         /\ \A i \in 1..Len(values) : values[i] \in Entries /\ SizeInStream(values[i]) \in Nat \ {0}
<1>1. \A i \in 1..Len(values) : values[i] \in Entries
  BY ElementOfSeq
<1>2. \A i \in 1..Len(values) : SizeInStream(values[i]) \in Nat \ {0}
  BY <1>1, StoredAndBack
<1>3. Len(values) \in Nat
  OBVIOUS
<1>. QED  BY <1>1, <1>2, <1>3 DEF Sized

(* Value i lies between two places, none beyond the last.                      *)
LEMMA PlacesAre ==
  ASSUME NEW values \in Seq(Entries)
  PROVE  /\ Sums(Begins(values), values, Len(values))
         /\ \A k \in 0..Len(values) : Begins(values)[k] \in Nat
         /\ \A k \in 0..Len(values) : \A i \in 0..k : Begins(values)[i] <= Begins(values)[k]
         /\ \A i \in 1..Len(values) : \A j \in 1..SizeInStream(values[i]) :
              Begins(values)[i - 1] + j \in 1..Begins(values)[Len(values)]
<1>. DEFINE n == Len(values)
            b == Begins(values)
<1>1. n \in Nat /\ \A i \in 1..n : SizeInStream(values[i]) \in Nat \ {0}
  BY EntriesSized
<1>2. Sums(b, values, n)
  BY EntriesSized, BeginsIs
<1>. HIDE DEF n, b
<1>3. \A k \in 0..n : b[k] \in Nat
  BY <1>2 DEF Sums
<1>4. \A k \in 0..n : \A i \in 0..k : b[i] <= b[k]
  BY <1>1, <1>2, SumsRise
<1>5. ASSUME NEW i \in 1..n, NEW j \in 1..SizeInStream(values[i]) PROVE b[i - 1] + j \in 1..b[n]
  <2>1. i \in 0..n /\ i - 1 \in 0..n /\ n \in 0..n
    BY <1>1
  <2>2. b[i] = b[i - 1] + SizeInStream(values[i])
    BY <1>2 DEF Sums
  <2>3. b[i] <= b[n] /\ b[i] \in Nat /\ b[i - 1] \in Nat /\ b[n] \in Nat
    BY <1>3, <1>4, <2>1
  <2>. QED  BY <1>1, <2>2, <2>3
<1>. QED  BY <1>2, <1>3, <1>4, <1>5 DEF n, b

(* A value more begins where the last one ended.                               *)
LEMMA BeginsAppended ==
  ASSUME NEW values \in Seq(Entries), NEW w \in Entries
  PROVE  /\ Append(values, w) \in Seq(Entries) /\ Len(Append(values, w)) = Len(values) + 1
         /\ \A i \in 1..Len(values) : Append(values, w)[i] = values[i]
         /\ Append(values, w)[Len(values) + 1] = w
         /\ \A k \in 0..Len(values) : Begins(Append(values, w))[k] = Begins(values)[k]
         /\ Begins(Append(values, w))[Len(values) + 1]
              = Begins(values)[Len(values)] + SizeInStream(w)
<1>. DEFINE n == Len(values)
            l == Append(values, w)
            b == Begins(values)
            c == Begins(l)
<1>1. n \in Nat
  OBVIOUS
<1>2. /\ l \in Seq(Entries) /\ Len(l) = n + 1
      /\ \A i \in 1..n : l[i] = values[i]
      /\ l[n + 1] = w
  BY AppendProperties
<1>3. Sums(b, values, n) /\ \A k \in 0..n : b[k] \in Nat
  BY PlacesAre
<1>. HIDE DEF n, l
<1>4. Sums(c, l, n + 1) /\ \A k \in 0..n + 1 : c[k] \in Nat
  BY <1>2, PlacesAre
<1>. HIDE DEF b, c
<1>5. \A k \in 0..n : c[k] = b[k]
  <2>1. c[0] = b[0]
    BY <1>3, <1>4 DEF Sums
  <2>2. \A k \in 0..n : c[k] \in Int /\ b[k] \in Int
    BY <1>1, <1>3, <1>4
  <2>3. ASSUME NEW k \in 1..n PROVE c[k] - c[k - 1] = b[k] - b[k - 1]
    <3>1. k \in 1..n + 1 /\ k - 1 \in 0..n /\ k \in 0..n
      BY <1>1
    <3>2. c[k] = c[k - 1] + SizeInStream(l[k]) /\ b[k] = b[k - 1] + SizeInStream(values[k])
      BY <1>3, <1>4, <3>1 DEF Sums
    <3>3. SizeInStream(l[k]) = SizeInStream(values[k])
      BY <1>2
    <3>4. c[k] \in Int /\ b[k] \in Int /\ c[k - 1] \in Int /\ b[k - 1] \in Int
      BY <2>2, <3>1
    <3>5. SizeInStream(values[k]) \in Int
      <4>1. k \in 1..Len(values)
        BY DEF n
      <4>. QED  BY <4>1, EntriesSized
    <3>. QED  BY <3>2, <3>3, <3>4, <3>5
  <2>. QED  BY <1>1, <2>1, <2>2, <2>3, GrowAlike
<1>6. c[n + 1] = b[n] + SizeInStream(w)
  <2>1. n + 1 \in 1..n + 1 /\ n + 1 - 1 = n /\ n \in 0..n
    BY <1>1
  <2>2. c[n + 1] = c[n] + SizeInStream(l[n + 1])
    BY <1>4, <2>1 DEF Sums
  <2>. QED  BY <1>2, <1>5, <2>1, <2>2
<1>. QED  BY <1>2, <1>5, <1>6 DEF n, l, b, c

(* What is behind the first k.                                                 *)
LEMMA AfterIs ==
  ASSUME NEW S, NEW values \in Seq(S), NEW k \in 0..Len(values)
  PROVE  /\ After(values, k) \in Seq(S) /\ Len(After(values, k)) = Len(values) - k
         /\ \A i \in 1..Len(values) - k : After(values, k)[i] = values[k + i]
<1>. DEFINE n == Len(values)
            a == SubSeq(values, k + 1, n)
<1>1. n \in Nat /\ k \in Nat /\ k <= n
  OBVIOUS
<1>2. a \in Seq(S) /\ Len(a) = n - k /\ \A i \in 1..n - k : a[i] = values[k + i]
  OBVIOUS
<1>. QED  BY <1>2 DEF After

(* Behind the first k values the others begin as much earlier as those took.   *)
LEMMA BeginsAfter ==
  ASSUME NEW values \in Seq(Entries), NEW k \in 0..Len(values)
  PROVE  \A j \in 0..Len(values) - k :
           Begins(After(values, k))[j] = Begins(values)[k + j] - Begins(values)[k]
<1>. DEFINE n == Len(values)
            a == After(values, k)
            b == Begins(values)
            c == Begins(a)
            m == n - k
<1>1. n \in Nat /\ k \in Nat /\ k <= n /\ m \in Nat
  OBVIOUS
<1>2. a \in Seq(Entries) /\ Len(a) = m /\ \A i \in 1..m : a[i] = values[k + i]
  BY AfterIs
<1>3. Sums(b, values, n) /\ \A i \in 0..n : b[i] \in Nat
  BY PlacesAre
<1>4. \A i \in 1..n : SizeInStream(values[i]) \in Int
  BY EntriesSized
<1>. HIDE DEF n, a, m
<1>5. Sums(c, a, m) /\ \A j \in 0..m : c[j] \in Nat
  BY <1>2, PlacesAre
<1>6. m = n - k
  BY DEF m
<1>. HIDE DEF b, c
<1>0. PICK shifted : shifted = [j \in 0..m |-> b[k + j] - b[k]]
  OBVIOUS
<1>7. shifted[0] = c[0]
  <2>1. b[k + 0] = b[k] /\ b[k] \in Nat
    BY <1>1, <1>3
  <2>. QED  BY <1>0, <1>1, <1>5, <2>1 DEF Sums
<1>8. \A j \in 0..m : shifted[j] \in Int /\ c[j] \in Int
  <2>1. ASSUME NEW j \in 0..m PROVE shifted[j] \in Int
    <3>1. k + j \in 0..n /\ k \in 0..n
      BY <1>1, <1>6
    <3>2. b[k + j] \in Int /\ b[k] \in Int
      BY <1>3, <3>1
    <3>. QED  BY <1>0, <3>2
  <2>. QED  BY <1>5, <2>1
<1>9. ASSUME NEW j \in 1..m PROVE shifted[j] - shifted[j - 1] = c[j] - c[j - 1]
  <2>1. k + j \in 1..n /\ k + j - 1 \in 0..n /\ k + j \in 0..n /\ j - 1 \in 0..m /\ j \in 0..m
    BY <1>1, <1>6
  <2>2. c[j] = c[j - 1] + SizeInStream(a[j])
    BY <1>5 DEF Sums
  <2>3. b[k + j] = b[k + j - 1] + SizeInStream(values[k + j])
    BY <1>3, <2>1 DEF Sums
  <2>4. SizeInStream(a[j]) = SizeInStream(values[k + j]) /\ SizeInStream(values[k + j]) \in Int
    BY <1>2, <1>4, <2>1
  <2>5. /\ b[k + j] \in Int /\ b[k + j - 1] \in Int /\ b[k] \in Int /\ c[j] \in Int /\ c[j - 1] \in Int
    BY <1>1, <1>3, <1>5, <2>1
  <2>6. shifted[j] = b[k + j] - b[k] /\ shifted[j - 1] = b[k + j - 1] - b[k]
    <3>1. k + (j - 1) = k + j - 1
      BY <1>1
    <3>. QED  BY <1>0, <2>1, <3>1
  <2>. QED  BY <2>2, <2>3, <2>4, <2>5, <2>6
<1>10. \A j \in 0..m : shifted[j] = c[j]
  <2>1. m \in Nat
    BY <1>1
  <2>2. \A j \in 1..m : shifted[j] - shifted[j - 1] = c[j] - c[j - 1]
    BY <1>9
  <2>3. \A j \in 0..m : shifted[j] \in Int /\ c[j] \in Int
    BY <1>8
  <2>. QED  BY <1>7, <2>1, <2>2, <2>3, GrowAlike
<1>12. \A j \in 0..m : c[j] = b[k + j] - b[k]
  BY <1>0, <1>10
<1>. QED  BY <1>12 DEF n, a, b, c, m

(* Bytes that are no fewer, and the same where values are, hold them too.      *)
LEMMA StoredLonger ==
  ASSUME NEW values \in Seq(Entries), NEW bytes, Stored(bytes, values), NEW more,
         Len(bytes) \in Nat, Len(more) \in Nat, Begins(values)[Len(values)] <= Len(more),
         \A i \in 1..Begins(values)[Len(values)] : more[i] = bytes[i]
  PROVE  Stored(more, values)
<1>1. ASSUME NEW i \in 1..Len(values), NEW j \in 1..SizeInStream(values[i])
      PROVE  more[Begins(values)[i - 1] + j] = Encoded(values[i])[j]
  <2>1. Begins(values)[i - 1] + j \in 1..Begins(values)[Len(values)]
    BY PlacesAre
  <2>2. bytes[Begins(values)[i - 1] + j] = Encoded(values[i])[j]
    BY DEF Stored
  <2>. QED  BY <2>1, <2>2
<1>. QED  BY <1>1 DEF Stored

(* Where one more value is stored.                                             *)
LEMMA StoredOneMore ==
  ASSUME NEW values \in Seq(Entries), NEW w \in Entries, NEW bytes, Stored(bytes, values),
         NEW more, Len(more) \in Nat,
         Begins(values)[Len(values)] + SizeInStream(w) <= Len(more),
         \A i \in 1..Begins(values)[Len(values)] : more[i] = bytes[i],
         \A j \in 1..SizeInStream(w) : more[Begins(values)[Len(values)] + j] = Encoded(w)[j]
  PROVE  Stored(more, Append(values, w))
<1>. DEFINE n == Len(values)
            l == Append(values, w)
            b == Begins(values)
            c == Begins(l)
<1>1. /\ l \in Seq(Entries) /\ Len(l) = n + 1
      /\ \A i \in 1..n : l[i] = values[i]
      /\ l[n + 1] = w
      /\ \A k \in 0..n : c[k] = b[k]
      /\ c[n + 1] = b[n] + SizeInStream(w)
  BY BeginsAppended
<1>2. n \in Nat
  OBVIOUS
<1>3. \A i \in 1..n : \A j \in 1..SizeInStream(values[i]) :
        b[i - 1] + j \in 1..b[n] /\ bytes[b[i - 1] + j] = Encoded(values[i])[j]
  BY PlacesAre DEF Stored
<1>4. /\ \A i \in 1..b[n] : more[i] = bytes[i]
      /\ \A j \in 1..SizeInStream(w) : more[b[n] + j] = Encoded(w)[j]
  OBVIOUS
<1>5. c[Len(l)] <= Len(more)
  BY <1>1
<1>. HIDE DEF n, l, b, c
<1>6. ASSUME NEW i \in 1..n + 1, NEW j \in 1..SizeInStream(l[i])
      PROVE  more[c[i - 1] + j] = Encoded(l[i])[j]
  <2>1. CASE i = n + 1
    <3>1. i - 1 = n /\ n \in 0..n /\ l[i] = w
      BY <1>1, <1>2, <2>1
    <3>. QED  BY <1>1, <1>4, <3>1
  <2>2. CASE i # n + 1
    <3>1. i \in 1..n /\ i - 1 \in 0..n
      BY <1>2, <2>2
    <3>2. l[i] = values[i] /\ c[i - 1] = b[i - 1]
      BY <1>1, <3>1
    <3>3. b[i - 1] + j \in 1..b[n] /\ bytes[b[i - 1] + j] = Encoded(values[i])[j]
      BY <1>3, <3>1, <3>2
    <3>. QED  BY <1>4, <3>2, <3>3
  <2>. QED  BY <2>1, <2>2
<1>7. \A i \in 1..Len(l) : \A j \in 1..SizeInStream(l[i]) : more[c[i - 1] + j] = Encoded(l[i])[j]
  BY <1>1, <1>6
<1>. QED  BY <1>5, <1>7 DEF Stored, l, c

(* What is left behind the first k values.                                     *)
LEMMA StoredAfter ==
  ASSUME NEW values \in Seq(Entries), NEW k \in 0..Len(values),
         NEW bytes \in Seq(CellBytes), Stored(bytes, values),
         NEW rest, rest = After(bytes, Begins(values)[k])
  PROVE  /\ Begins(values)[k] \in 0..Len(bytes) /\ rest \in Seq(CellBytes)
         /\ Len(rest) = Len(bytes) - Begins(values)[k] /\ Stored(rest, After(values, k))
<1>. DEFINE n == Len(values)
            a == After(values, k)
            b == Begins(values)
            c == Begins(a)
            m == n - k
            L == Len(bytes)
<1>1. n \in Nat /\ k \in Nat /\ k <= n /\ L \in Nat
  OBVIOUS
<1>2. a \in Seq(Entries) /\ Len(a) = m /\ \A i \in 1..m : a[i] = values[k + i]
  BY AfterIs
<1>3. \A j \in 0..m : c[j] = b[k + j] - b[k]
  BY BeginsAfter
<1>4. /\ \A i \in 0..n : b[i] \in Nat
      /\ b[k] <= b[n]
  <2>1. n \in 0..n
    BY <1>1
  <2>. QED  BY <2>1, PlacesAre
<1>5. b[n] <= L
  BY DEF Stored
<1>6. b[k] \in 0..L
  <2>. HIDE DEF n, b, L
  <2>. QED  BY <1>1, <1>4, <1>5
<1>7. /\ rest \in Seq(CellBytes) /\ Len(rest) = L - b[k]
      /\ \A i \in 1..L - b[k] : rest[i] = bytes[b[k] + i]
  <2>1. rest = After(bytes, b[k]) /\ b[k] \in 0..Len(bytes)
    BY <1>6
  <2>. HIDE DEF b
  <2>. QED  BY <2>1, AfterIs
<1>8. \A i \in 1..n : \A j \in 1..SizeInStream(values[i]) :
        b[i - 1] + j \in 1..b[n] /\ bytes[b[i - 1] + j] = Encoded(values[i])[j]
  BY PlacesAre DEF Stored
<1>9. m = n - k
  OBVIOUS
<1>. HIDE DEF n, a, b, c, m, L
<1>10. \A j \in 0..m : c[j] \in Nat
  <2>1. \A j \in 0..Len(a) : Begins(a)[j] \in Nat
    BY <1>2, PlacesAre
  <2>. QED  BY <1>2, <2>1 DEF c
<1>11. ASSUME NEW i \in 1..m, NEW j \in 1..SizeInStream(a[i])
       PROVE  rest[c[i - 1] + j] = Encoded(a[i])[j]
  <2>1. /\ k + i \in 1..n /\ k + i - 1 \in 0..n /\ i - 1 \in 0..m /\ k + (i - 1) = k + i - 1
        /\ k \in 0..n /\ n \in 0..n
    BY <1>1, <1>9
  <2>2. a[i] = values[k + i] /\ c[i - 1] = b[k + i - 1] - b[k]
    BY <1>2, <1>3, <2>1
  <2>3. b[k + i - 1] + j \in 1..b[n] /\ bytes[b[k + i - 1] + j] = Encoded(values[k + i])[j]
    BY <1>8, <2>1, <2>2
  <2>4. /\ b[k + i - 1] \in Nat /\ b[k] \in Nat /\ b[n] \in Nat /\ c[i - 1] \in Nat
    BY <1>4, <1>10, <2>1
  <2>5. j \in Nat /\ j >= 1
    <3>1. a[i] \in Entries
      BY <1>2, ElementOfSeq
    <3>2. SizeInStream(a[i]) \in Nat
      BY <3>1, StoredAndBack
    <3>. QED  BY <3>2
  <2>6. c[i - 1] + j \in 1..L - b[k] /\ b[k] + (c[i - 1] + j) = b[k + i - 1] + j
    <3>1. b[k + i - 1] + j \in 1..b[n]
      BY <2>3
    <3>2. c[i - 1] = b[k + i - 1] - b[k]
      BY <2>2
    <3>3. PICK p, q, z, x : p = b[k + i - 1] /\ q = b[k] /\ z = b[n] /\ x = c[i - 1]
      OBVIOUS
    <3>4. p \in Nat /\ q \in Nat /\ z \in Nat /\ x \in Nat
      BY <2>4, <3>3
    <3>5. x = p - q /\ p + j \in 1..z /\ z <= L
      BY <1>5, <3>1, <3>2, <3>3
    <3>6. x + j \in 1..L - q /\ q + (x + j) = p + j
      BY <1>1, <2>5, <3>4, <3>5
    <3>. QED  BY <3>3, <3>6
  <2>. QED  BY <1>7, <2>2, <2>3, <2>6
<1>12. c[m] <= Len(rest)
  <2>1. k + m = n /\ m \in 0..m /\ n \in 0..n /\ k \in 0..n
    BY <1>1, <1>9
  <2>2. c[m] = b[n] - b[k] /\ b[n] \in Nat /\ b[k] \in Nat
    BY <1>3, <1>4, <2>1
  <2>. QED  BY <1>1, <1>5, <1>7, <2>2
<1>13. Stored(rest, a)
  BY <1>2, <1>11, <1>12 DEF Stored, c
<1>. QED  BY <1>6, <1>7, <1>13 DEF a, b, L

-----------------------------------------------------------------------------
(* What the calls make of a stream.                                            *)

(* t is s with other bytes, another place or another end.                      *)
Alike(s, t) ==
  /\ t \in StreamStates /\ t.kind = s.kind /\ t.mode = s.mode /\ t.order = s.order
  /\ t.left = s.left

(* The fields of a stream.                                                     *)
LEMMA StreamFields ==
  ASSUME NEW s \in StreamStates
  PROVE  /\ s.kind \in {"memory", "queue", "file", "reversed"} /\ s.order \in ByteOrders
         /\ s.bytes \in Seq(CellBytes) /\ s.pos \in Nat /\ s.owned \in BOOLEAN
         /\ s.left \in Nat /\ s.mode \in Modes /\ s.eof \in BOOLEAN /\ Len(s.bytes) \in Nat
         /\ Size(s) = Len(s.bytes)
  BY DEF StreamStates, Size

(* reallocSize adds bytes at the end and moves nothing.                        *)
LEMMA ReallocIs ==
  ASSUME NEW s \in StreamStates, NEW n \in Nat
  PROVE  LET t == reallocSize(s, n)
         IN  /\ Alike(s, t) /\ t.pos = s.pos /\ t.eof = s.eof
             /\ Size(t) = IF s.owned /\ n > Size(s) THEN n ELSE Size(s)
             /\ \A i \in 1..Size(s) : t.bytes[i] = s.bytes[i]
<1>. DEFINE t == reallocSize(s, n)
            m == Len(s.bytes)
            fill == [i \in 1..n - m |-> Wild]
            longer == s.bytes \o fill
<1>1. /\ s.bytes \in Seq(CellBytes) /\ m \in Nat /\ Size(s) = m /\ s.pos \in Nat
  BY StreamFields
<1>2. CASE s.owned /\ n > Size(s)
  <2>1. fill \in Seq(CellBytes) /\ Len(fill) = n - m
    <3>. HIDE DEF m
    <3>1. n - m \in Nat
      BY <1>1, <1>2
    <3>. QED  BY <3>1 DEF Wild, CellBytes
  <2>2. t = [s EXCEPT !.bytes = longer]
    BY <1>1, <1>2 DEF reallocSize
  <2>. HIDE DEF fill, t
  <2>3. /\ longer \in Seq(CellBytes) /\ Len(longer) = Len(s.bytes) + Len(fill)
        /\ \A i \in 1..Len(s.bytes) : longer[i] = s.bytes[i]
    BY <1>1, <2>1, JoinOf
  <2>4. Len(longer) = n /\ \A i \in 1..m : longer[i] = s.bytes[i]
    <3>1. Len(s.bytes) = m
      OBVIOUS
    <3>. HIDE DEF longer, m
    <3>. QED  BY <1>1, <2>1, <2>3, <3>1
  <2>. HIDE DEF longer, m
  <2>5. /\ t \in StreamStates /\ t.kind = s.kind /\ t.mode = s.mode /\ t.order = s.order
        /\ t.left = s.left /\ t.pos = s.pos /\ t.eof = s.eof /\ t.bytes = longer
    BY <2>2, <2>3 DEF StreamStates
  <2>. QED  BY <1>1, <1>2, <2>4, <2>5 DEF Alike, Size, t
<1>3. CASE ~(s.owned /\ n > Size(s))
  <2>1. t = s
    BY <1>3 DEF reallocSize
  <2>. QED  BY <1>3, <2>1 DEF Alike
<1>. QED  BY <1>2, <1>3

(* Where write begins.                                                         *)
WriteAt(s) == IF s.kind = "queue" \/ s.mode \in {"ab", "ab+"} THEN Size(s) ELSE s.pos

(* t is s with the data written there.                                         *)
PutAt(s, t, at, data) ==
  /\ Alike(s, t) /\ t.eof = s.eof
  /\ t.pos = IF s.kind = "queue" THEN s.pos ELSE at + Len(data)
  /\ Size(t) = IF at + Len(data) > Size(s) THEN at + Len(data) ELSE Size(s)
  /\ \A i \in 1..at : t.bytes[i] = s.bytes[i]
  /\ \A j \in 1..Len(data) : t.bytes[at + j] = data[j]

(* Bytes put over others.                                                      *)
LEMMA OverIs ==
  ASSUME NEW bytes \in Seq(CellBytes), NEW data \in Seq(StreamBytes), NEW at \in Nat,
         at + Len(data) <= Len(bytes)
  PROVE  /\ Over(bytes, at, data) \in Seq(CellBytes) /\ Len(Over(bytes, at, data)) = Len(bytes)
         /\ \A i \in 1..at : Over(bytes, at, data)[i] = bytes[i]
         /\ \A j \in 1..Len(data) : Over(bytes, at, data)[at + j] = data[j]
<1>. DEFINE m == Len(bytes)
            n == Len(data)
            over == Over(bytes, at, data)
<1>1. /\ m \in Nat /\ n \in Nat /\ bytes \in [1..m -> CellBytes] /\ data \in [1..n -> StreamBytes]
      /\ at + n <= m
  OBVIOUS
<1>2. over = [i \in 1..m |-> IF i \in at + 1..at + n THEN data[i - at] ELSE bytes[i]]
  BY <1>1 DEF Over
<1>. HIDE DEF m, n, over
<1>3. ASSUME NEW i \in 1..m PROVE over[i] \in CellBytes
  <2>1. CASE i \in at + 1..at + n
    <3>1. i - at \in 1..n
      BY <1>1, <2>1
    <3>2. data[i - at] \in CellBytes
      BY <1>1, <3>1 DEF StreamBytes, CellBytes
    <3>. QED  BY <1>2, <2>1, <3>2
  <2>2. CASE i \notin at + 1..at + n
    BY <1>1, <1>2, <2>2
  <2>. QED  BY <2>1, <2>2
<1>4. over \in [1..m -> CellBytes]
  BY <1>2, <1>3
<1>5. over \in Seq(CellBytes) /\ Len(over) = m
  BY <1>1, <1>4
<1>6. \A i \in 1..at : over[i] = bytes[i]
  BY <1>1, <1>2
<1>7. ASSUME NEW j \in 1..n PROVE over[at + j] = data[j]
  <2>1. at + j \in 1..m /\ at + j \in at + 1..at + n /\ at + j - at = j
    BY <1>1
  <2>. QED  BY <1>2, <2>1
<1>. QED  BY <1>5, <1>6, <1>7 DEF m, n, over

(* write and push put the data where they begin, or nothing.                   *)
LEMMA WriteIs ==
  ASSUME NEW s \in StreamStates, NEW data \in Seq(StreamBytes), NEW at, at = WriteAt(s),
         at <= Size(s)
  PROVE  WriteTo(s, data) = s \/ PutAt(s, WriteTo(s, data), at, data)
<1>. DEFINE grown == reallocSize([s EXCEPT !.owned = @ \/ MayWrite(s)], at + Len(data))
            refused == (s.kind = "file" /\ ~MayWrite(s)) \/ at + Len(data) > Size(grown)
            pos == IF s.kind = "queue" THEN s.pos ELSE at + Len(data)
            t == [s EXCEPT !.bytes = Over(grown.bytes, at, data), !.pos = pos]
<1>1. WriteTo(s, data) = IF refused THEN s ELSE t
  BY Zenon DEF WriteTo, WriteAt
<1>2. at \in Nat /\ Len(data) \in Nat /\ s.pos \in Nat /\ Size(s) \in Nat
  BY StreamFields DEF WriteAt
<1>3. SUFFICES ASSUME ~refused PROVE PutAt(s, t, at, data)
  BY <1>1, Zenon
<1>. DEFINE mine == [s EXCEPT !.owned = @ \/ MayWrite(s)]
<1>4. mine \in StreamStates /\ mine.bytes = s.bytes /\ Size(mine) = Size(s)
  BY DEF StreamStates, Size, MayWrite
<1>5. at + Len(data) \in Nat
  BY <1>2
<1>6. /\ grown \in StreamStates
      /\ Size(grown) = at + Len(data) \/ Size(grown) = Size(s)
      /\ Size(grown) >= Size(s)
      /\ \A i \in 1..Size(s) : grown.bytes[i] = s.bytes[i]
  <2>. DEFINE n == at + Len(data)
  <2>1. grown = reallocSize(mine, n)
    OBVIOUS
  <2>. HIDE DEF mine, n, grown
  <2>2. /\ Alike(mine, grown)
        /\ Size(grown) = IF mine.owned /\ n > Size(mine) THEN n ELSE Size(mine)
        /\ \A i \in 1..Size(mine) : grown.bytes[i] = mine.bytes[i]
    BY <1>4, <1>5, <2>1, ReallocIs DEF n
  <2>3. n \in Nat
    BY <1>5 DEF n
  <2>4. grown \in StreamStates
    BY <2>2 DEF Alike
  <2>5. Size(grown) = n \/ Size(grown) = Size(s)
    BY <1>4, <2>2
  <2>6. Size(grown) >= Size(s)
    BY <1>2, <1>4, <2>2, <2>3
  <2>7. \A i \in 1..Size(s) : grown.bytes[i] = s.bytes[i]
    BY <1>4, <2>2
  <2>. QED  BY <2>4, <2>5, <2>6, <2>7 DEF n
<1>. DEFINE n == Len(data)
            g == grown.bytes
            over == Over(g, at, data)
<1>7. g \in Seq(CellBytes) /\ Len(g) \in Nat /\ Size(grown) = Len(g)
  <2>. HIDE DEF grown
  <2>. QED  BY <1>6, StreamFields
<1>8. at + n <= Len(g)
  <2>1. ~(at + n > Size(grown))
    BY <1>3
  <2>. HIDE DEF n, grown
  <2>2. at + n \in Nat
    BY <1>5 DEF n
  <2>. QED  BY <1>7, <2>1, <2>2
<1>. HIDE DEF grown, g
<1>9. /\ over \in Seq(CellBytes) /\ Len(over) = Len(g)
      /\ \A i \in 1..at : over[i] = g[i]
      /\ \A j \in 1..n : over[at + j] = data[j]
  BY <1>2, <1>7, <1>8, OverIs
<1>10. t = [s EXCEPT !.bytes = over, !.pos = pos]
  BY DEF g
<1>11. pos \in Nat
  BY <1>2
<1>. HIDE DEF over, pos, t
<1>12. /\ t \in StreamStates /\ t.kind = s.kind /\ t.mode = s.mode /\ t.order = s.order
       /\ t.left = s.left /\ t.eof = s.eof /\ t.bytes = over /\ t.pos = pos
  BY <1>9, <1>10, <1>11 DEF StreamStates
<1>13. Size(t) = Len(g)
  BY <1>9, <1>12 DEF Size
<1>14. Len(g) = at + n \/ Len(g) = Size(s)
  BY <1>6, <1>7
<1>15. Len(g) >= Size(s)
  BY <1>6, <1>7
<1>16. Size(t) = IF at + n > Size(s) THEN at + n ELSE Size(s)
  <2>1. n \in Nat
    BY <1>2
  <2>. HIDE DEF n
  <2>. QED  BY <1>2, <1>7, <1>8, <1>13, <1>14, <1>15, <2>1
<1>17. ASSUME NEW i \in 1..at PROVE t.bytes[i] = s.bytes[i]
  <2>1. i \in 1..Size(s)
    BY <1>2
  <2>2. g[i] = s.bytes[i]
    BY <1>6, <2>1 DEF g
  <2>. QED  BY <1>9, <1>12, <2>2
<1>18. \A j \in 1..n : t.bytes[at + j] = data[j]
  BY <1>9, <1>12
<1>. QED  BY <1>12, <1>16, <1>17, <1>18 DEF PutAt, Alike, pos

(* read moves the place by what it asks for, or to the end.                    *)
LEMMA ReadIs ==
  ASSUME NEW s \in StreamStates, NEW n \in Nat, s.pos <= Size(s), s.kind = "file" => MayRead(s)
  PROVE  LET t == ReadFrom(s, n)
         IN  /\ Alike(s, t) /\ t.bytes = s.bytes /\ t.pos \in s.pos..Size(s)
             /\ s.kind # "file" => ~t.eof
             /\ s.pos + n <= Size(s) => t.pos = s.pos + n /\ t.eof = (s.kind = "file" /\ s.eof)
<1>. DEFINE there == IF s.pos < Size(s) THEN Size(s) - s.pos ELSE 0
            pos == s.pos + (IF n < there THEN n ELSE there)
            eof == s.kind = "file" /\ (s.eof \/ there < n)
            t == [s EXCEPT !.pos = pos, !.eof = eof]
<1>1. s.pos \in Nat /\ Size(s) \in Nat /\ s.eof \in BOOLEAN
  BY StreamFields
<1>2. there = Size(s) - s.pos /\ there \in Nat
  BY <1>1
<1>3. ReadFrom(s, n) = t
  BY Zenon DEF ReadFrom
<1>4. pos \in s.pos..Size(s)
  BY <1>1, <1>2
<1>5. s.pos + n <= Size(s) => pos = s.pos + n /\ ~(there < n)
  BY <1>1, <1>2
<1>6. eof \in BOOLEAN
  OBVIOUS
<1>. HIDE DEF there
<1>7. s.pos + n <= Size(s) => eof = (s.kind = "file" /\ s.eof)
  BY <1>5
<1>. HIDE DEF pos, eof
<1>8. pos \in Nat
  BY <1>1, <1>4
<1>9. /\ t \in StreamStates /\ t.kind = s.kind /\ t.mode = s.mode /\ t.order = s.order
      /\ t.left = s.left /\ t.bytes = s.bytes /\ t.pos = pos /\ t.eof = eof
  BY <1>6, <1>8 DEF StreamStates
<1>10. s.kind # "file" => ~eof
  BY DEF eof
<1>. QED  BY <1>3, <1>4, <1>5, <1>7, <1>9, <1>10 DEF Alike

(* A stream that is put to a place, and has not ended there.                   *)
PutTo(s, p) == [Settled(s) EXCEPT !.pos = p]

(* A seek settles where it is told to.                                         *)
LEMMA PutToIs ==
  ASSUME NEW s \in StreamStates, NEW p \in Nat
  PROVE  /\ Alike(s, PutTo(s, p)) /\ PutTo(s, p).bytes = s.bytes /\ PutTo(s, p).pos = p
         /\ ~PutTo(s, p).eof
<1>1. Settled(s) \in StreamStates
  BY DEF Settled, StreamStates
<1>2. /\ Settled(s).kind = s.kind /\ Settled(s).mode = s.mode /\ Settled(s).order = s.order
      /\ Settled(s).left = s.left /\ Settled(s).bytes = s.bytes /\ ~Settled(s).eof
  BY DEF Settled, StreamStates
<1>3. PICK u : u = Settled(s)
  OBVIOUS
<1>4. PutTo(s, p) = [u EXCEPT !.pos = p]
  BY <1>3 DEF PutTo
<1>5. u \in StreamStates
  BY <1>1, <1>3
<1>6. /\ PutTo(s, p) \in StreamStates /\ PutTo(s, p).kind = u.kind /\ PutTo(s, p).mode = u.mode
      /\ PutTo(s, p).order = u.order /\ PutTo(s, p).left = u.left /\ PutTo(s, p).bytes = u.bytes
      /\ PutTo(s, p).pos = p /\ PutTo(s, p).eof = u.eof
  BY <1>4, <1>5 DEF StreamStates
<1>. QED  BY <1>2, <1>3, <1>6 DEF Alike

-----------------------------------------------------------------------------
(* The steps.                                                                  *)

(* Values that were written are as good as read, all of them or the first k.   *)
LEMMA EntriesRead ==
  ASSUME NEW values \in Seq(Entries)
  PROVE  /\ values \in Seq(Readings) /\ Same(values, values)
         /\ \A k \in 0..Len(values) :
              LET read == SubSeq(values, 1, k)
              IN read \in Seq(Readings) /\ Len(read) = k /\ Same(values, read)
<1>1. Entries \subseteq Readings
  <2>1. ASSUME NEW w \in Entries PROVE w \in Readings
    <3>1. /\ w.kind \in StreamKinds /\ w.order \in ByteOrders /\ w.bytes \in Seq(StreamBytes)
          /\ w = [kind |-> w.kind, bytes |-> w.bytes, order |-> w.order]
      BY StoredAndBack
    <3>2. w.bytes \in Seq(CellBytes)
      BY <3>1 DEF StreamBytes, CellBytes
    <3>. QED  BY <3>1, <3>2 DEF Readings
  <2>. QED  BY <2>1
<1>2. values \in Seq(Readings)
  BY <1>1
<1>3. Same(values, values)
  BY DEF Same
<1>4. ASSUME NEW k \in 0..Len(values)
      PROVE  /\ SubSeq(values, 1, k) \in Seq(Readings) /\ Len(SubSeq(values, 1, k)) = k
             /\ Same(values, SubSeq(values, 1, k))
  <2>. DEFINE n == Len(values)
              read == SubSeq(values, 1, k)
  <2>1. n \in Nat /\ k \in 0..n /\ values \in Seq(Readings)
    BY <1>2
  <2>2. read \in Seq(Readings) /\ Len(read) = k /\ \A i \in 1..k : read[i] = values[i]
    BY <2>1
  <2>. HIDE DEF read
  <2>. QED  BY <2>1, <2>2 DEF Same
<1>. QED  BY <1>2, <1>3, <1>4

(* The same bytes at another place.                                            *)
LEMMA PlacedOk ==
  ASSUME NEW s, NEW values, NEW read, StreamOk(s, values, read), s.kind # "reversed",
         NEW t, Alike(s, t), t.bytes = s.bytes, t.pos <= Size(t),
         NEW seen \in Seq(Readings), Same(values, seen),
         t.eof => s.kind = "file" /\ Len(seen) = Len(values),
         ~t.eof => IF Len(seen) < Len(values) THEN t.pos = Begins(values)[Len(seen)]
                   ELSE t.pos >= Begins(values)[Len(values)]
  PROVE  StreamOk(t, values, seen)
<1>1. /\ t \in StreamStates /\ values \in Seq(Entries) /\ seen \in Seq(Readings) /\ Same(values, seen)
      /\ t.kind # "reversed"
  BY DEF StreamOk, Alike
<1>2. Stored(t.bytes, values)
  BY DEF StreamOk
<1>3. Size(t) = Size(s)
  BY DEF Size
<1>4. Stands(s, values, read)
  BY DEF StreamOk
<1>5. Stands(t, values, seen)
  <2>1. t.kind # "memory" => Size(t) = Begins(values)[Len(values)]
    BY <1>3, <1>4 DEF Stands, Alike
  <2>2. t.kind # "file" => t.mode = "none" /\ ~t.eof
    BY <1>4 DEF Stands, Alike
  <2>. QED  BY <2>1, <2>2 DEF Stands
<1>. QED  BY <1>1, <1>2, <1>5 DEF StreamOk

(* What is known of a stream that is not reversed.                             *)
LEMMA OkIs ==
  ASSUME NEW s, NEW values, NEW read, StreamOk(s, values, read), s.kind # "reversed"
  PROVE  /\ s \in StreamStates /\ values \in Seq(Entries) /\ read \in Seq(Readings)
         /\ Same(values, read) /\ Stored(s.bytes, values) /\ Stands(s, values, read)
         /\ Len(values) \in Nat /\ Len(read) \in 0..Len(values)
         /\ s.pos \in 0..Size(s) /\ Size(s) \in Nat /\ Size(s) = Len(s.bytes)
         /\ \A k \in 0..Len(values) : Begins(values)[k] \in 0..Size(s)
         /\ Begins(values)[0] = 0
<1>1. /\ s \in StreamStates /\ values \in Seq(Entries) /\ read \in Seq(Readings)
      /\ Same(values, read) /\ Stored(s.bytes, values) /\ Stands(s, values, read)
  BY DEF StreamOk
<1>2. Len(values) \in Nat /\ Len(read) \in Nat /\ Len(read) <= Len(values)
  BY <1>1 DEF Same
<1>3. s.pos \in Nat /\ Len(s.bytes) \in Nat /\ Size(s) = Len(s.bytes)
  BY <1>1, StreamFields
<1>4. s.pos <= Size(s)
  BY <1>1 DEF Stands
<1>5. Begins(values)[Len(values)] <= Size(s)
  BY <1>1, <1>3 DEF Stored
<1>6. Begins(values)[0] = 0
  BY <1>1, PlacesAre DEF Sums
<1>7. ASSUME NEW k \in 0..Len(values) PROVE Begins(values)[k] \in 0..Size(s)
  <2>1. k \in 0..Len(values) /\ Len(values) \in 0..Len(values) /\ k \in 0..Len(values)
    BY <1>2
  <2>2. Begins(values)[k] \in Nat /\ Begins(values)[Len(values)] \in Nat
    BY <1>1, <2>1, PlacesAre
  <2>3. Begins(values)[k] <= Begins(values)[Len(values)]
    BY <1>1, <2>1, PlacesAre
  <2>. QED  BY <1>3, <1>5, <2>2, <2>3
<1>. QED  BY <1>1, <1>2, <1>3, <1>4, <1>6, <1>7

(* One more value at the end of a stream.                                      *)
LEMMA WrittenOk ==
  ASSUME NEW s, NEW values, NEW read, StreamOk(s, values, read), s.kind # "reversed",
         NEW w \in Entries, NEW at, at = WriteAt(s), at = Begins(values)[Len(values)],
         ~s.eof, NEW t, PutAt(s, t, at, Encoded(w))
  PROVE  StreamOk(t, Append(values, w), IF s.kind = "queue" THEN read ELSE Append(values, w))
<1>. DEFINE l == Append(values, w)
            n == Len(values)
            b == Begins(values)
            c == Begins(l)
            size == SizeInStream(w)
            seen == IF s.kind = "queue" THEN read ELSE l
<1>1. /\ s \in StreamStates /\ values \in Seq(Entries) /\ read \in Seq(Readings)
      /\ Same(values, read) /\ Stored(s.bytes, values) /\ Stands(s, values, read)
      /\ n \in Nat /\ Len(read) \in 0..n
      /\ s.pos \in 0..Size(s) /\ Size(s) \in Nat /\ Size(s) = Len(s.bytes)
      /\ b[n] \in 0..Size(s)
  <2>1. Len(values) \in 0..Len(values)
    BY OkIs
  <2>. QED  BY <2>1, OkIs
<1>2. /\ l \in Seq(Entries) /\ Len(l) = n + 1
      /\ \A i \in 1..n : l[i] = values[i]
      /\ l[n + 1] = w
      /\ \A k \in 0..n : c[k] = b[k]
      /\ c[n + 1] = b[n] + size
  BY <1>1, BeginsAppended
<1>3. size \in Nat \ {0} /\ Len(Encoded(w)) = size
  BY StoredAndBack
<1>4. /\ Alike(s, t) /\ t.eof = s.eof
      /\ t.pos = IF s.kind = "queue" THEN s.pos ELSE at + size
      /\ Size(t) = IF at + size > Size(s) THEN at + size ELSE Size(s)
      /\ \A i \in 1..at : t.bytes[i] = s.bytes[i]
      /\ \A j \in 1..size : t.bytes[at + j] = Encoded(w)[j]
  BY <1>3 DEF PutAt
<1>5. t \in StreamStates /\ Size(t) = Len(t.bytes) /\ Size(t) \in Nat
  <2>1. t \in StreamStates
    BY <1>4 DEF Alike
  <2>. QED  BY <2>1, StreamFields
<1>6. Stored(t.bytes, l)
  <2>1. Begins(values)[Len(values)] + SizeInStream(w) <= Len(t.bytes)
    BY <1>1, <1>3, <1>4, <1>5
  <2>2. Len(t.bytes) \in Nat
    BY <1>5
  <2>3. \A i \in 1..Begins(values)[Len(values)] : t.bytes[i] = s.bytes[i]
    BY <1>4
  <2>4. \A j \in 1..SizeInStream(w) : t.bytes[Begins(values)[Len(values)] + j] = Encoded(w)[j]
    BY <1>4
  <2>. QED  BY <1>1, <2>1, <2>2, <2>3, <2>4, StoredOneMore
<1>7. seen \in Seq(Readings) /\ Same(l, seen)
  <2>1. CASE s.kind = "queue"
    <3>1. Len(read) <= Len(l)
      BY <1>1, <1>2
    <3>2. ASSUME NEW i \in 1..Len(read), ComesBack(l[i]), read[i].order = l[i].order
          PROVE  read[i] = l[i]
      <4>1. i \in 1..n /\ l[i] = values[i]
        BY <1>1, <1>2
      <4>. QED  BY <1>1, <3>2, <4>1 DEF Same
    <3>. QED  BY <1>1, <2>1, <3>1, <3>2 DEF Same
  <2>2. CASE s.kind # "queue"
    BY <1>2, <2>2, EntriesRead
  <2>. QED  BY <2>1, <2>2
<1>8. at = b[n] /\ at \in Nat
  BY <1>1
<1>9. Stands(s, values, read)
  BY <1>1
<1>. HIDE DEF l, n, b, c, size
<1>10. t.kind = s.kind /\ t.mode = s.mode /\ ~t.eof
  BY <1>4 DEF Alike
<1>11. t.pos <= Size(t)
  <2>1. CASE s.kind = "queue"
    BY <1>1, <1>3, <1>4, <1>8, <2>1
  <2>2. CASE s.kind # "queue"
    BY <1>1, <1>3, <1>4, <1>8, <2>2
  <2>. QED  BY <2>1, <2>2
<1>12. t.kind # "memory" => Size(t) = c[n + 1]
  <2>1. ASSUME t.kind # "memory" PROVE Size(s) = b[n]
    BY <1>9, <1>10, <2>1 DEF Stands, b, n
  <2>2. ASSUME t.kind # "memory" PROVE at + size > Size(s)
    BY <1>1, <1>3, <1>8, <2>1, <2>2
  <2>. QED  BY <1>2, <1>4, <1>8, <2>2
<1>13. IF Len(seen) < n + 1 THEN t.pos = c[Len(seen)] ELSE t.pos >= c[n + 1]
  <2>1. CASE s.kind = "queue"
    <3>1. seen = read /\ t.pos = s.pos /\ Len(read) < n + 1 /\ c[Len(read)] = b[Len(read)]
      BY <1>1, <1>2, <1>4, <2>1
    <3>2. IF Len(read) < n THEN s.pos = b[Len(read)] ELSE s.pos >= b[n]
      BY <1>9 DEF Stands, b, n
    <3>3. CASE Len(read) < n
      BY <3>1, <3>2, <3>3
    <3>4. CASE ~(Len(read) < n)
      <4>1. Len(read) = n /\ s.pos >= b[n]
        BY <1>1, <3>2, <3>4
      <4>2. Size(s) = b[n]
        BY <1>9, <2>1 DEF Stands, b, n
      <4>3. s.pos = b[n]
        BY <1>1, <4>1, <4>2
      <4>. QED  BY <3>1, <4>1, <4>3
    <3>. QED  BY <3>3, <3>4
  <2>2. CASE s.kind # "queue"
    <3>1. seen = l /\ Len(seen) = n + 1 /\ t.pos = at + size
      BY <1>2, <1>4, <2>2
    <3>2. t.pos = c[n + 1] /\ c[n + 1] \in Nat
      BY <1>2, <1>3, <1>8, <3>1
    <3>. QED  BY <1>1, <3>1, <3>2
  <2>. QED  BY <2>1, <2>2
<1>14. t.kind # "file" => t.mode = "none"
  BY <1>9, <1>10 DEF Stands
<1>15. Stands(t, l, seen)
  <2>1. Len(l) = n + 1
    BY <1>2
  <2>. HIDE DEF seen
  <2>. QED  BY <1>10, <1>11, <1>12, <1>13, <1>14, <2>1 DEF Stands, c
<1>16. t.kind # "reversed"
  BY <1>10
<1>. HIDE DEF seen
<1>17. StreamOk(t, l, seen)
  BY <1>2, <1>5, <1>6, <1>7, <1>15, <1>16 DEF StreamOk
<1>. QED  BY <1>17 DEF l, seen

(* operator<<.                                                                 *)
LEMMA WriteValueKeeps ==
  ASSUME StreamOk(stream, written, got), WriteValue
  PROVE  StreamOk(stream, written, got)'
<1>1. PICK v \in StreamValues :
        /\ stream.kind = "queue" \/ stream.pos = End \/ stream.mode \in {"ab", "ab+"}
        /\ InBuffer \/ (InFile /\ ~stream.eof)
        /\ LET s == WriteTo(stream, PutValue(v, stream.order))
               values == Append(written, Of(v, stream.order))
           IN IF s = stream THEN StreamStep(s, written, got)
              ELSE StreamStep(s, values, IF stream.kind = "queue" THEN got ELSE values)
  BY DEF WriteValue
<1>. DEFINE w == Of(v, stream.order)
            t == WriteTo(stream, PutValue(v, stream.order))
            l == Append(written, w)
<1>2. stream.kind # "reversed"
  BY <1>1 DEF InBuffer, InMemoryKinds, InFile
<1>3. /\ stream \in StreamStates /\ Stands(stream, written, got) /\ stream.pos \in 0..Size(stream)
      /\ Begins(written)[Len(written)] \in 0..Size(stream)
  <2>1. Len(written) \in 0..Len(written)
    BY <1>2, OkIs
  <2>. QED  BY <1>2, <2>1, OkIs
<1>4. stream.order \in ByteOrders
  BY <1>3, StreamFields
<1>5. w \in Entries /\ Encoded(w) = PutValue(v, stream.order)
  <2>1. w \in Entries
    BY <1>4 DEF Entries
  <2>2. w.kind = v.kind /\ w.bytes = v.bytes /\ w.order = stream.order
    BY DEF Of
  <2>. QED  BY <2>1, <2>2 DEF Encoded, PutValue
<1>6. CASE t = stream
  <2>1. stream' = stream /\ written' = written /\ got' = got
    BY <1>1, <1>6 DEF StreamStep
  <2>. QED  BY <2>1
<1>7. CASE t # stream
  <2>1. /\ stream' = t /\ written' = l
        /\ got' = IF stream.kind = "queue" THEN got ELSE l
    BY <1>1, <1>7 DEF StreamStep
  <2>2. ~stream.eof
    BY <1>1, <1>3 DEF Stands, InBuffer, InMemoryKinds, InFile
  <2>3. WriteAt(stream) = Begins(written)[Len(written)]
    <3>1. stream.kind # "memory" => Size(stream) = Begins(written)[Len(written)]
      BY <1>3 DEF Stands
    <3>2. CASE stream.kind = "queue" \/ stream.mode \in {"ab", "ab+"}
      <4>1. stream.kind # "memory"
        BY <1>3, <3>2 DEF Stands
      <4>. QED  BY <3>1, <3>2, <4>1 DEF WriteAt
    <3>3. CASE ~(stream.kind = "queue" \/ stream.mode \in {"ab", "ab+"})
      <4>1. stream.pos = End
        BY <1>1, <3>3
      <4>. QED  BY <3>3, <4>1 DEF WriteAt, End
    <3>. QED  BY <3>2, <3>3
  <2>4. WriteAt(stream) <= Size(stream)
    BY <1>3, <2>3
  <2>5. Encoded(w) \in Seq(StreamBytes)
    BY <1>5, StoredAndBack
  <2>6. PutAt(stream, t, WriteAt(stream), Encoded(w))
    <3>1. t = WriteTo(stream, Encoded(w))
      BY <1>5
    <3>. HIDE DEF t, w
    <3>. QED  BY <1>3, <1>7, <2>4, <2>5, <3>1, WriteIs
  <2>7. StreamOk(t, l, IF stream.kind = "queue" THEN got ELSE l)
    <3>. HIDE DEF t, w
    <3>. QED  BY <1>2, <1>5, <2>2, <2>3, <2>6, WrittenOk
  <2>. HIDE DEF t, l
  <2>. QED  BY <2>1, <2>7
<1>. QED  BY <1>6, <1>7

(* The value that is next is where the stream stands.                          *)
LEMMA NextValue ==
  ASSUME NEW s, NEW values, NEW read, StreamOk(s, values, read), s.kind # "reversed",
         Len(read) < Len(values), NEW w, w = values[Len(read) + 1]
  PROVE  /\ w \in Entries /\ ~s.eof /\ SizeInStream(w) \in Nat
         /\ s.pos + SizeInStream(w) <= Size(s)
         /\ s.pos + SizeInStream(w) = Begins(values)[Len(read) + 1]
         /\ SubSeq(s.bytes, s.pos + 1, s.pos + SizeInStream(w)) = Encoded(w)
<1>. DEFINE n == Len(values)
            k == Len(read)
            b == Begins(values)
            size == SizeInStream(w)
            found == SubSeq(s.bytes, s.pos + 1, s.pos + size)
<1>1. /\ s \in StreamStates /\ values \in Seq(Entries)
      /\ Stored(s.bytes, values) /\ Stands(s, values, read)
      /\ n \in Nat /\ k \in 0..n
      /\ s.pos \in 0..Size(s) /\ Size(s) \in Nat /\ Size(s) = Len(s.bytes)
      /\ \A i \in 0..n : b[i] \in 0..Size(s)
  BY OkIs
<1>2. k < n
  OBVIOUS
<1>3. s.bytes \in Seq(CellBytes)
  BY <1>1, StreamFields
<1>4. w \in Entries
  <2>1. k + 1 \in 1..Len(values)
    BY <1>1, <1>2
  <2>. QED  BY <1>1, <2>1, ElementOfSeq
<1>5. size \in Nat \ {0} /\ Encoded(w) \in Seq(StreamBytes) /\ Len(Encoded(w)) = size
  BY <1>4, StoredAndBack
<1>6. ~s.eof /\ s.pos = b[k]
  BY <1>1 DEF Stands
<1>7. b[k + 1] = b[k] + size
  <2>1. Sums(b, values, n)
    BY <1>1, PlacesAre
  <2>2. PICK i : i = k + 1
    OBVIOUS
  <2>3. i \in 1..n /\ i - 1 = k /\ w = values[i]
    BY <1>1, <1>2, <2>2
  <2>4. b[i] = b[i - 1] + SizeInStream(values[i])
    <3>. HIDE DEF n, k, b
    <3>. QED  BY <2>1, <2>3 DEF Sums
  <2>. QED  BY <2>2, <2>3, <2>4
<1>8. k + 1 \in 0..n /\ k + 1 \in 1..n /\ k + 1 - 1 = k
  BY <1>1, <1>2
<1>9. s.pos + size = b[k + 1] /\ s.pos + size <= Size(s)
  BY <1>1, <1>6, <1>7, <1>8
<1>10. \A j \in 1..size : s.bytes[s.pos + j] = Encoded(w)[j]
  <2>1. \A i \in 1..n : \A j \in 1..SizeInStream(values[i]) : s.bytes[b[i - 1] + j] = Encoded(values[i])[j]
    BY <1>1 DEF Stored
  <2>2. PICK i : i = k + 1
    OBVIOUS
  <2>3. i \in 1..n /\ i - 1 = k /\ w = values[i]
    BY <1>1, <1>2, <2>2
  <2>4. \A j \in 1..SizeInStream(values[i]) : s.bytes[b[i - 1] + j] = Encoded(values[i])[j]
    <3>. HIDE DEF n, k, b
    <3>. QED  BY <2>1, <2>3
  <2>. HIDE DEF k, b
  <2>. QED  BY <1>6, <2>3, <2>4
<1>11. found = Encoded(w)
  <2>. DEFINE p == s.pos
              cells == s.bytes
  <2>1. p \in Nat /\ p + size <= Len(cells) /\ cells \in Seq(CellBytes) /\ Len(cells) \in Nat
    BY <1>1, <1>3, <1>9
  <2>2. found = SubSeq(cells, p + 1, p + size)
    OBVIOUS
  <2>3. \A j \in 1..size : cells[p + j] = Encoded(w)[j]
    BY <1>10
  <2>. HIDE DEF found, p, cells, size
  <2>4. found \in Seq(CellBytes) /\ Len(found) = size /\ \A j \in 1..size : found[j] = cells[p + j]
    BY <1>5, <2>1, <2>2
  <2>5. Encoded(w) \in Seq(CellBytes)
    BY <1>5 DEF StreamBytes, CellBytes
  <2>6. Len(found) = Len(Encoded(w)) /\ \A j \in 1..Len(found) : found[j] = Encoded(w)[j]
    BY <1>5, <2>3, <2>4
  <2>. QED  BY <2>4, <2>5, <2>6, SeqEqual
<1>. QED  BY <1>4, <1>5, <1>6, <1>9, <1>11

(* What is read of a value in either order is bytes.                           *)
LEMMA BytesRead ==
  ASSUME NEW w \in Entries, NEW order \in ByteOrders
  PROVE  GetValue(w.kind, Encoded(w), order) \in Seq(StreamBytes)
<1>. DEFINE b == Encoded(w)
<1>1. b \in Seq(StreamBytes) /\ Len(b) = SizeInStream(w) /\ w.kind \in StreamKinds
  BY StoredAndBack
<1>2. /\ readNumber(b, order) \in Seq(StreamBytes)
      /\ Reverse(b) \in Seq(StreamBytes)
  BY <1>1, NumbersComeBack, BackwardsIs
<1>3. w.kind = "string" => SubSeq(b, 5, Len(b)) \in Seq(StreamBytes)
  <2>1. ASSUME w.kind = "string" PROVE SubSeq(b, 5, Len(b)) \in Seq(StreamBytes)
    <3>. DEFINE n == Len(b)
    <3>1. n \in Nat /\ \A i \in 1..n : b[i] \in StreamBytes
      BY <1>1
    <3>. HIDE DEF b
    <3>2. SubSeq(b, 5, n) \in Seq(StreamBytes)
      <4>. HIDE DEF n
      <4>1. \A i \in 5..n : b[i] \in StreamBytes
        BY <3>1
      <4>. QED  BY <3>1, <4>1, SubSeqProperties, SMT
    <3>. QED  BY <3>2
  <2>. QED  BY <2>1
<1>4. w.kind \in {"uint24", "int24"} => readUInt24(b, order) \in Seq(StreamBytes)
  <2>1. ASSUME w.kind \in {"uint24", "int24"} PROVE readUInt24(b, order) \in Seq(StreamBytes)
    <3>1. SizeInStream(w) = 3
      BY <2>1 DEF SizeInStream
    <3>2. Len(b) = 3
      BY <1>1, <3>1
    <3>. HIDE DEF b
    <3>3. \A i \in 1..Len(b) : b[i] \in StreamBytes
      BY <1>1, ElementOfSeq
    <3>4. <<b[1]>> \in Seq(StreamBytes) /\ <<0>> \in Seq(StreamBytes)
      BY <3>2, <3>3 DEF StreamBytes
    <3>5. SubSeq(b, 2, 3) \in Seq(StreamBytes)
      <4>1. \A i \in 2..3 : b[i] \in StreamBytes
        BY <3>2, <3>3
      <4>. QED  BY <4>1, SubSeqProperties, SMT
    <3>6. /\ readNumber(<<b[1]>>, order) \in Seq(StreamBytes)
          /\ readNumber(SubSeq(b, 2, 3), order) \in Seq(StreamBytes)
      BY <3>4, <3>5, NumbersComeBack
    <3>7. \A p, q, r \in Seq(StreamBytes) : p \o q \o r \in Seq(StreamBytes)
      OBVIOUS
    <3>. QED  BY <3>4, <3>6, <3>7, Zenon DEF readUInt24
  <2>. QED  BY <2>1
<1>. HIDE DEF b
<1>5. GetValue(w.kind, b, order) \in Seq(StreamBytes)
  BY <1>1, <1>2, <1>3, <1>4, Zenon DEF GetValue, StreamKinds
<1>. QED  BY <1>5 DEF b

(* One more value is read.                                                     *)
LEMMA SameOneMore ==
  ASSUME NEW values \in Seq(Entries), NEW read \in Seq(Readings), Same(values, read),
         Len(read) < Len(values), NEW x \in Readings,
         /\ ComesBack(values[Len(read) + 1]) /\ x.order = values[Len(read) + 1].order
         => x = values[Len(read) + 1]
  PROVE  /\ Append(read, x) \in Seq(Readings) /\ Len(Append(read, x)) = Len(read) + 1
         /\ Same(values, Append(read, x))
<1>. DEFINE n == Len(values)
            k == Len(read)
            l == Append(read, x)
<1>1. n \in Nat /\ k \in Nat /\ k < n
  OBVIOUS
<1>2. l \in Seq(Readings) /\ Len(l) = k + 1 /\ l[k + 1] = x /\ \A i \in 1..k : l[i] = read[i]
  BY AppendProperties
<1>3. ComesBack(values[k + 1]) /\ x.order = values[k + 1].order => x = values[k + 1]
  OBVIOUS
<1>4. \A i \in 1..k : ComesBack(values[i]) /\ read[i].order = values[i].order => read[i] = values[i]
  BY DEF Same
<1>. HIDE DEF l, k, n
<1>5. ASSUME NEW i \in 1..k + 1, ComesBack(values[i]), l[i].order = values[i].order
      PROVE  l[i] = values[i]
  <2>1. CASE i = k + 1
    BY <1>2, <1>3, <1>5, <2>1
  <2>2. CASE i # k + 1
    <3>1. i \in 1..k
      BY <1>1, <2>2
    <3>. QED  BY <1>2, <1>4, <1>5, <3>1
  <2>. QED  BY <2>1, <2>2
<1>6. Len(l) <= n
  BY <1>1, <1>2
<1>7. Same(values, l)
  BY <1>2, <1>5, <1>6 DEF Same, n
<1>. QED  BY <1>2, <1>7 DEF l, k

(* Where the stream stands when the value that is next has been passed.        *)
LEMMA Passed ==
  ASSUME NEW s, NEW values, NEW read, StreamOk(s, values, read), s.kind # "reversed",
         Len(read) < Len(values),
         NEW t, Alike(s, t), t.bytes = s.bytes, ~t.eof,
         t.pos = s.pos + SizeInStream(values[Len(read) + 1]),
         NEW x \in Readings,
         /\ ComesBack(values[Len(read) + 1]) /\ x.order = values[Len(read) + 1].order
         => x = values[Len(read) + 1]
  PROVE  StreamOk(t, values, Append(read, x))
<1>. DEFINE n == Len(values)
            k == Len(read)
            l == Append(read, x)
<1>1. /\ values \in Seq(Entries) /\ read \in Seq(Readings) /\ Same(values, read)
      /\ n \in Nat /\ k \in 0..n
  BY OkIs
<1>2. k < n
  OBVIOUS
<1>3. l \in Seq(Readings) /\ Len(l) = k + 1 /\ Same(values, l)
  BY <1>1, SameOneMore
<1>4. t.pos <= Size(s) /\ t.pos = Begins(values)[k + 1]
  BY NextValue
<1>5. Size(t) = Size(s)
  BY DEF Size
<1>6. Begins(values)[n] \in Nat
  <2>1. n \in 0..n
    BY <1>1
  <2>. QED  BY <1>1, <2>1, PlacesAre
<1>. HIDE DEF l
<1>7. IF Len(l) < n THEN t.pos = Begins(values)[Len(l)] ELSE t.pos >= Begins(values)[n]
  <2>1. CASE k + 1 < n
    BY <1>3, <1>4, <2>1
  <2>2. CASE ~(k + 1 < n)
    <3>1. k + 1 = n
      BY <1>1, <1>2, <2>2
    <3>2. Len(l) = n
      BY <1>3, <3>1
    <3>. QED  BY <1>1, <1>4, <1>6, <3>1, <3>2
  <2>. QED  BY <2>1, <2>2
<1>8. t.pos <= Size(t)
  BY <1>4, <1>5
<1>9. StreamOk(t, values, l)
  BY <1>3, <1>7, <1>8, PlacedOk
<1>. QED  BY <1>9 DEF l

(* operator>>.                                                                 *)
LEMMA ReadValueKeeps ==
  ASSUME StreamOk(stream, written, got), ReadValue
  PROVE  StreamOk(stream, written, got)'
<1>. DEFINE w == written[Len(got) + 1]
            size == SizeInStream(w)
            t == ReadFrom(stream, size)
            found == SubSeq(stream.bytes, stream.pos + 1, stream.pos + size)
            x == [kind |-> w.kind, order |-> stream.order,
                  bytes |-> GetValue(w.kind, found, stream.order)]
<1>1. /\ InBuffer \/ (InFile /\ MayRead(stream))
      /\ Len(got) < Len(written)
  BY DEF ReadValue
<1>2. stream.kind # "reversed" /\ (stream.kind = "file" => MayRead(stream))
  BY <1>1 DEF InBuffer, InMemoryKinds, InFile
<1>3. /\ w \in Entries /\ ~stream.eof /\ size \in Nat
      /\ stream.pos + size <= Size(stream)
      /\ found = Encoded(w)
  BY <1>1, <1>2, NextValue
<1>4. /\ stream' = t /\ written' = written /\ got' = Append(got, x)
  BY <1>3 DEF ReadValue, StreamStep
<1>5. stream \in StreamStates /\ stream.pos <= Size(stream)
  <2>1. stream.pos \in 0..Size(stream) /\ stream \in StreamStates /\ Size(stream) \in Nat
    BY <1>2, OkIs
  <2>. QED  BY <2>1
<1>6. stream.order \in ByteOrders /\ stream.eof \in BOOLEAN
  BY <1>5, StreamFields
<1>7. /\ Alike(stream, t) /\ t.bytes = stream.bytes
      /\ t.pos = stream.pos + size /\ t.eof = (stream.kind = "file" /\ stream.eof)
  <2>. HIDE DEF size, t
  <2>1. /\ Alike(stream, t) /\ t.bytes = stream.bytes
        /\ stream.pos + size <= Size(stream)
             => t.pos = stream.pos + size /\ t.eof = (stream.kind = "file" /\ stream.eof)
    BY <1>2, <1>3, <1>5, ReadIs DEF t
  <2>. QED  BY <1>3, <2>1
<1>8. ~t.eof
  BY <1>3, <1>7
<1>9. /\ w.kind \in StreamKinds /\ w.bytes \in Seq(StreamBytes)
      /\ w = [kind |-> w.kind, bytes |-> w.bytes, order |-> w.order]
      /\ ComesBack(w) => GetValue(w.kind, Encoded(w), w.order) = w.bytes
  BY <1>3, StoredAndBack
<1>10. x \in Readings
  <2>1. GetValue(w.kind, found, stream.order) \in Seq(StreamBytes)
    BY <1>3, <1>6, BytesRead
  <2>2. GetValue(w.kind, found, stream.order) \in Seq(CellBytes)
    BY <2>1 DEF StreamBytes, CellBytes
  <2>. HIDE DEF found, w
  <2>. QED  BY <1>6, <1>9, <2>2 DEF Readings
<1>11. ComesBack(w) /\ x.order = w.order => x = w
  <2>1. ASSUME ComesBack(w), x.order = w.order PROVE x = w
    <3>1. stream.order = w.order
      BY <2>1
    <3>2. GetValue(w.kind, found, stream.order) = w.bytes
      BY <1>3, <1>9, <2>1, <3>1
    <3>3. x = [kind |-> w.kind, bytes |-> w.bytes, order |-> w.order]
      <4>. HIDE DEF found, w
      <4>. QED  BY <3>1, <3>2
    <3>. HIDE DEF x, w
    <3>. QED  BY <1>9, <3>3
  <2>. QED  BY <2>1
<1>12. StreamOk(t, written, Append(got, x))
  <2>1. /\ t.pos = stream.pos + SizeInStream(written[Len(got) + 1])
        /\ ComesBack(written[Len(got) + 1]) /\ x.order = written[Len(got) + 1].order
             => x = written[Len(got) + 1]
    BY <1>7, <1>11
  <2>. HIDE DEF t, x, w, size
  <2>. QED  BY <1>1, <1>2, <1>7, <1>8, <1>10, <2>1, Passed
<1>. HIDE DEF t, x
<1>. QED  BY <1>4, <1>12

(* A read at the end.                                                          *)
LEMMA ReadBeyondKeeps ==
  ASSUME StreamOk(stream, written, got), ReadBeyond
  PROVE  StreamOk(stream, written, got)'
<1>. DEFINE t == ReadFrom(stream, 1)
<1>1. stream.kind # "reversed" /\ Len(got) = Len(written)
  BY DEF ReadBeyond, InBuffer, InMemoryKinds, InFile
<1>2. stream' = t /\ written' = written /\ got' = got
  BY DEF ReadBeyond, StreamStep
<1>3. CASE stream.kind = "file" /\ ~MayRead(stream)
  <2>1. t = stream
    BY <1>3 DEF ReadFrom
  <2>. QED  BY <1>2, <2>1
<1>4. CASE ~(stream.kind = "file" /\ ~MayRead(stream))
  <2>1. /\ stream \in StreamStates /\ stream.pos \in 0..Size(stream) /\ Size(stream) \in Nat
        /\ got \in Seq(Readings) /\ Same(written, got) /\ Len(written) \in Nat
        /\ Stands(stream, written, got)
    BY <1>1, OkIs
  <2>2. stream.pos <= Size(stream) /\ stream.pos \in Nat /\ stream.eof \in BOOLEAN
    BY <2>1, StreamFields
  <2>3. /\ Alike(stream, t) /\ t.bytes = stream.bytes /\ t.pos \in stream.pos..Size(stream)
        /\ stream.kind # "file" => ~t.eof
    <3>1. 1 \in Nat
      OBVIOUS
    <3>. QED  BY <1>4, <2>1, <2>2, <3>1, ReadIs
  <2>. HIDE DEF t
  <2>4. Size(t) = Size(stream)
    BY <2>3 DEF Size
  <2>5. ~stream.eof => stream.pos >= Begins(written)[Len(written)]
    BY <1>1, <2>1 DEF Stands
  <2>6. Begins(written)[Len(written)] \in Nat
    <3>1. written \in Seq(Entries) /\ Len(written) \in 0..Len(written)
      BY <1>1, OkIs
    <3>. QED  BY <3>1, PlacesAre
  <2>7. t.pos \in Nat /\ t.pos >= stream.pos /\ t.pos <= Size(t)
    BY <2>1, <2>2, <2>3, <2>4
  <2>8. stream.eof => stream.pos >= 0
    BY <2>2
  <2>9. ~t.eof => t.pos >= Begins(written)[Len(written)]
    <3>1. ~t.eof => ~stream.eof
      <4>1. stream.kind # "file" => ~stream.eof
        BY <2>1 DEF Stands
      <4>2. stream.eof => t.eof
        <5>1. ASSUME stream.eof, stream.kind = "file" PROVE t.eof
          BY <1>4, <2>1, <5>1 DEF t, ReadFrom, StreamStates
        <5>. QED  BY <4>1, <5>1
      <4>. QED  BY <4>2
    <3>. QED  BY <2>2, <2>5, <2>6, <2>7, <3>1
  <2>10. StreamOk(t, written, got)
    <3>1. t.eof => stream.kind = "file" /\ Len(got) = Len(written)
      BY <1>1, <2>3
    <3>2. ~t.eof => IF Len(got) < Len(written) THEN t.pos = Begins(written)[Len(got)]
                    ELSE t.pos >= Begins(written)[Len(written)]
      BY <1>1, <2>1, <2>9
    <3>. QED  BY <1>1, <2>1, <2>3, <2>7, <3>1, <3>2, PlacedOk
  <2>. QED  BY <1>2, <2>10
<1>. QED  BY <1>3, <1>4

(* seek and seekToEnd.                                                         *)
LEMMA SeekValueKeeps ==
  ASSUME StreamOk(stream, written, got), Seek
  PROVE  StreamOk(stream, written, got)'
<1>1. stream.kind # "reversed"
  BY DEF Seek, InBuffer, InMemoryKinds, InFile
<1>2. /\ stream \in StreamStates /\ written \in Seq(Entries) /\ Len(written) \in Nat
      /\ Size(stream) \in Nat
      /\ \A k \in 0..Len(written) : Begins(written)[k] \in 0..Size(stream)
  BY <1>1, OkIs
<1>3. ASSUME NEW p \in 0..Size(stream), NEW seen \in Seq(Readings), Same(written, seen),
             IF Len(seen) < Len(written) THEN p = Begins(written)[Len(seen)]
             ELSE p >= Begins(written)[Len(written)]
      PROVE  StreamOk(PutTo(stream, p), written, seen)
  <2>1. PICK t : t = PutTo(stream, p)
    OBVIOUS
  <2>2. p \in Nat /\ p <= Size(stream)
    BY <1>2
  <2>3. Alike(stream, t) /\ t.bytes = stream.bytes /\ t.pos = p /\ ~t.eof
    BY <1>2, <2>1, <2>2, PutToIs
  <2>4. t.pos <= Size(t)
    BY <2>2, <2>3 DEF Size
  <2>5. IF Len(seen) < Len(written) THEN t.pos = Begins(written)[Len(seen)]
        ELSE t.pos >= Begins(written)[Len(written)]
    BY <1>3, <2>3
  <2>6. StreamOk(t, written, seen)
    BY <1>1, <1>3, <2>3, <2>4, <2>5, PlacedOk
  <2>. QED  BY <2>1, <2>6
<1>4. CASE \E k \in 0..Len(written) :
             StreamStep([Settled(stream) EXCEPT !.pos = Begins(written)[k]], written,
                        SubSeq(written, 1, k))
  <2>1. PICK k \in 0..Len(written) :
          StreamStep(PutTo(stream, Begins(written)[k]), written, SubSeq(written, 1, k))
    BY <1>4 DEF PutTo
  <2>2. PICK seen : seen = SubSeq(written, 1, k)
    OBVIOUS
  <2>3. PICK p : p = Begins(written)[k]
    OBVIOUS
  <2>4. seen \in Seq(Readings) /\ Len(seen) = k /\ Same(written, seen)
    BY <1>2, <2>2, EntriesRead
  <2>5. p \in 0..Size(stream) /\ k \in Nat /\ k <= Len(written)
    BY <1>2, <2>3
  <2>6. IF Len(seen) < Len(written) THEN p = Begins(written)[Len(seen)]
        ELSE p >= Begins(written)[Len(written)]
    <3>1. CASE k < Len(written)
      BY <2>3, <2>4, <3>1
    <3>2. CASE ~(k < Len(written))
      <4>1. k = Len(written)
        BY <1>2, <2>5, <3>2
      <4>2. p = Begins(written)[Len(written)] /\ p \in Nat
        BY <2>3, <2>5, <4>1
      <4>. QED  BY <2>4, <4>1, <4>2
    <3>. QED  BY <3>1, <3>2
  <2>7. StreamOk(PutTo(stream, p), written, seen)
    BY <1>3, <2>4, <2>5, <2>6
  <2>8. stream' = PutTo(stream, p) /\ written' = written /\ got' = seen
    BY <2>1, <2>2, <2>3 DEF StreamStep
  <2>. QED  BY <2>7, <2>8
<1>5. CASE StreamStep([Settled(stream) EXCEPT !.pos = Size(stream)], written, written)
  <2>1. PICK p : p = Size(stream)
    OBVIOUS
  <2>2. stream' = PutTo(stream, p) /\ written' = written /\ got' = written
    BY <1>5, <2>1 DEF StreamStep, PutTo
  <2>3. Len(written) \in 0..Len(written) /\ ~(Len(written) < Len(written))
    BY <1>2
  <2>4. p \in 0..Size(stream) /\ p >= Begins(written)[Len(written)]
    BY <1>2, <2>1, <2>3
  <2>5. written \in Seq(Readings) /\ Same(written, written)
    BY <1>2, EntriesRead
  <2>6. StreamOk(PutTo(stream, p), written, written)
    BY <1>3, <2>3, <2>4, <2>5
  <2>. QED  BY <2>2, <2>6
<1>. QED  BY <1>4, <1>5 DEF Seek

(* skip.                                                                       *)
LEMMA SkipKeeps ==
  ASSUME StreamOk(stream, written, got), Skip
  PROVE  StreamOk(stream, written, got)'
<1>1. stream.kind # "reversed" /\ Len(got) < Len(written)
  BY DEF Skip, InBuffer, InMemoryKinds, InFile
<1>2. PICK w : w = written[Len(got) + 1]
  OBVIOUS
<1>3. PICK size : size = SizeInStream(w)
  OBVIOUS
<1>4. w \in Entries /\ ~stream.eof /\ size \in Nat
  BY <1>1, <1>2, <1>3, NextValue
<1>5. /\ stream' = [stream EXCEPT !.pos = @ + size] /\ written' = written
      /\ got' = Append(got, w)
  BY <1>2, <1>3, <1>4 DEF Skip, StreamStep, Settled
<1>6. stream \in StreamStates /\ stream.pos \in Nat
  <2>1. stream \in StreamStates
    BY <1>1, OkIs
  <2>. QED  BY <2>1, StreamFields
<1>7. PICK t : t = [stream EXCEPT !.pos = @ + size]
  OBVIOUS
<1>8. Alike(stream, t) /\ t.bytes = stream.bytes /\ ~t.eof /\ t.pos = stream.pos + size
  BY <1>4, <1>6, <1>7 DEF Alike, StreamStates
<1>9. w \in Readings
  <2>1. Len(got) + 1 \in 1..Len(written) /\ written \in Seq(Readings)
    <3>1. written \in Seq(Entries) /\ Len(written) \in Nat /\ Len(got) \in 0..Len(written)
      BY <1>1, OkIs
    <3>. QED  BY <1>1, <3>1, EntriesRead
  <2>. QED  BY <1>2, <2>1, ElementOfSeq
<1>10. t.pos = stream.pos + SizeInStream(written[Len(got) + 1])
  BY <1>2, <1>3, <1>8
<1>11. StreamOk(t, written, Append(got, w))
  BY <1>1, <1>2, <1>8, <1>9, <1>10, Passed
<1>. QED  BY <1>5, <1>7, <1>11

(* pos and size of a file that has ended start it anew.                        *)
LEMMA AskPlaceKeeps ==
  ASSUME StreamOk(stream, written, got), AskPlace
  PROVE  StreamOk(stream, written, got)'
<1>1. stream.kind = "file"
  BY DEF AskPlace, InFile
<1>2. CASE ~stream.eof
  BY <1>2 DEF AskPlace, StreamStep, Settled
<1>3. CASE stream.eof
  <2>1. PICK t : t = [stream EXCEPT !.pos = 0, !.eof = FALSE]
    OBVIOUS
  <2>2. stream' = t /\ written' = written /\ got' = <<>>
    BY <1>3, <2>1 DEF AskPlace, StreamStep, Settled
  <2>3. /\ stream \in StreamStates /\ Size(stream) \in Nat /\ Len(written) \in Nat
        /\ Begins(written)[0] = 0
    BY <1>1, OkIs
  <2>4. Alike(stream, t) /\ t.bytes = stream.bytes /\ t.pos = 0 /\ ~t.eof
    BY <2>1, <2>3 DEF Alike, StreamStates
  <2>5. PICK none \in Seq(Readings) : none = <<>> /\ Len(none) = 0
    <3>1. <<>> \in Seq(Readings) /\ Len(<<>>) = 0
      OBVIOUS
    <3>. QED  BY <3>1
  <2>6. Same(written, none)
    BY <2>3, <2>5 DEF Same
  <2>7. t.pos <= Size(t)
    BY <2>3, <2>4 DEF Size
  <2>8. IF Len(none) < Len(written) THEN t.pos = Begins(written)[Len(none)]
        ELSE t.pos >= Begins(written)[Len(written)]
    <3>1. CASE Len(written) = 0
      BY <2>3, <2>4, <2>5, <3>1
    <3>2. CASE Len(written) # 0
      BY <2>3, <2>4, <2>5, <3>2
    <3>. QED  BY <3>1, <3>2
  <2>9. StreamOk(t, written, none)
    BY <1>1, <2>4, <2>5, <2>6, <2>7, <2>8, PlacedOk
  <2>. QED  BY <2>2, <2>5, <2>9
<1>. QED  BY <1>2, <1>3

(* resize.                                                                     *)
LEMMA ResizeKeeps ==
  ASSUME StreamOk(stream, written, got), Resize
  PROVE  StreamOk(stream, written, got)'
<1>1. stream.kind = "memory"
  BY DEF Resize
<1>2. PICK n : n = End + 2
  OBVIOUS
<1>3. PICK t : t = reallocSize(stream, n)
  OBVIOUS
<1>4. stream' = t /\ written' = written /\ got' = got
  BY <1>2, <1>3 DEF Resize, StreamStep
<1>5. /\ stream \in StreamStates /\ written \in Seq(Entries) /\ got \in Seq(Readings)
      /\ Same(written, got) /\ Stored(stream.bytes, written) /\ Stands(stream, written, got)
      /\ stream.pos \in 0..Size(stream) /\ Size(stream) \in Nat /\ Size(stream) = Len(stream.bytes)
      /\ Len(written) \in Nat
  BY <1>1, OkIs
<1>6. Begins(written)[Len(written)] \in 0..Size(stream)
  <2>1. Len(written) \in 0..Len(written)
    BY <1>5
  <2>. QED  BY <1>1, <2>1, OkIs
<1>7. n \in Nat
  BY <1>2, <1>6 DEF End
<1>8. /\ Alike(stream, t) /\ t.pos = stream.pos /\ t.eof = stream.eof
      /\ Size(t) = IF stream.owned /\ n > Size(stream) THEN n ELSE Size(stream)
      /\ \A i \in 1..Size(stream) : t.bytes[i] = stream.bytes[i]
  BY <1>3, <1>5, <1>7, ReallocIs
<1>9. Size(t) \in Nat /\ Size(t) >= Size(stream) /\ Size(t) = Len(t.bytes) /\ t.kind = "memory"
  <2>1. Size(t) \in Nat /\ Size(t) >= Size(stream)
    BY <1>5, <1>7, <1>8
  <2>. QED  BY <1>1, <1>8, <2>1 DEF Size, Alike
<1>10. Stored(t.bytes, written)
  <2>1. Len(stream.bytes) \in Nat /\ Len(t.bytes) \in Nat
    BY <1>5, <1>9
  <2>2. Begins(written)[Len(written)] <= Len(t.bytes)
    BY <1>5, <1>6, <1>9
  <2>3. \A i \in 1..Begins(written)[Len(written)] : t.bytes[i] = stream.bytes[i]
    BY <1>5, <1>6, <1>8
  <2>. QED  BY <1>5, <2>1, <2>2, <2>3, StoredLonger
<1>11. Stands(t, written, got)
  BY <1>1, <1>5, <1>8, <1>9 DEF Stands, Alike
<1>12. StreamOk(t, written, got)
  BY <1>5, <1>8, <1>9, <1>10, <1>11 DEF StreamOk, Alike
<1>. QED  BY <1>4, <1>12

(* A stream that holds nothing.                                                *)
LEMMA EmptyOk ==
  ASSUME NEW t \in StreamStates, t.kind # "memory" => Size(t) = 0, t.pos = 0, ~t.eof,
         t.kind # "reversed", t.kind # "file" => t.mode = "none"
  PROVE  StreamOk(t, <<>>, <<>>)
<1>1. PICK none \in Seq(Entries) : none = <<>> /\ Len(none) = 0
  <2>1. <<>> \in Seq(Entries) /\ Len(<<>>) = 0
    OBVIOUS
  <2>. QED  BY <2>1
<1>2. none \in Seq(Readings) /\ Same(none, none)
  BY EntriesRead
<1>3. Begins(none)[0] = 0
  BY PlacesAre DEF Sums
<1>0. Len(t.bytes) \in Nat /\ Size(t) = Len(t.bytes)
  BY StreamFields
<1>4. Stored(t.bytes, none)
  BY <1>0, <1>1, <1>3 DEF Stored
<1>5. Stands(t, none, none)
  BY <1>0, <1>1, <1>3 DEF Stands
<1>6. StreamOk(t, none, none)
  BY <1>2, <1>4, <1>5 DEF StreamOk
<1>. QED  BY <1>1, <1>6

(* reset.                                                                      *)
LEMMA ResetKeeps ==
  ASSUME StreamOk(stream, written, got), Reset
  PROVE  StreamOk(stream, written, got)'
<1>1. PICK t : t = [stream EXCEPT !.bytes = <<>>, !.pos = 0]
  OBVIOUS
<1>2. stream' = t /\ written' = <<>> /\ got' = <<>> /\ stream.kind = "memory"
  BY <1>1 DEF Reset, StreamStep
<1>3. stream \in StreamStates /\ Stands(stream, written, got)
  BY <1>2, OkIs
<1>4. <<>> \in Seq(CellBytes) /\ Len(<<>>) = 0
  OBVIOUS
<1>5. /\ t \in StreamStates /\ t.kind = "memory" /\ t.bytes = <<>> /\ t.pos = 0
      /\ t.mode = stream.mode /\ t.eof = stream.eof
  BY <1>1, <1>2, <1>3, <1>4 DEF StreamStates
<1>6. Size(t) = 0 /\ ~t.eof /\ t.mode = "none"
  BY <1>2, <1>3, <1>4, <1>5 DEF Size, Stands
<1>7. StreamOk(t, <<>>, <<>>)
  BY <1>5, <1>6, EmptyOk
<1>. QED  BY <1>2, <1>7

(* The byte order and the owner of the buffer are not asked.                   *)
LEMMA OrderedOk ==
  ASSUME NEW s, NEW values, NEW read, StreamOk(s, values, read), NEW t \in StreamStates,
         t.kind = s.kind, t.mode = s.mode, t.bytes = s.bytes, t.pos = s.pos, t.left = s.left,
         t.eof = s.eof
  PROVE  StreamOk(t, values, read)
<1>1. Size(t) = Size(s)
  BY DEF Size
<1>2. Stands(s, values, read) => Stands(t, values, read)
  BY <1>1 DEF Stands
<1>. QED  BY <1>1, <1>2 DEF StreamOk

(* A copy of a stream.                                                         *)
LEMMA CopyKeeps ==
  ASSUME StreamOk(stream, written, got), CopyStream
  PROVE  StreamOk(stream, written, got)'
<1>1. PICK order \in ByteOrders :
        StreamStep([stream EXCEPT !.owned = TRUE, !.order = order], written, got)
  BY DEF CopyStream
<1>2. PICK t : t = [stream EXCEPT !.owned = TRUE, !.order = order]
  OBVIOUS
<1>3. stream' = t /\ written' = written /\ got' = got
  BY <1>1, <1>2 DEF StreamStep
<1>4. stream \in StreamStates
  BY DEF StreamOk
<1>5. /\ t \in StreamStates /\ t.kind = stream.kind /\ t.mode = stream.mode
      /\ t.bytes = stream.bytes /\ t.pos = stream.pos /\ t.left = stream.left
      /\ t.eof = stream.eof
  BY <1>2, <1>4 DEF StreamStates
<1>6. StreamOk(t, written, got)
  BY <1>5, OrderedOk
<1>. QED  BY <1>3, <1>6

(* Another byte order.                                                         *)
LEMMA SetOrderKeeps ==
  ASSUME StreamOk(stream, written, got), SetOrder
  PROVE  StreamOk(stream, written, got)'
<1>1. PICK order \in ByteOrders : StreamStep([stream EXCEPT !.order = order], written, got)
  BY DEF SetOrder
<1>2. PICK t : t = [stream EXCEPT !.order = order]
  OBVIOUS
<1>3. stream' = t /\ written' = written /\ got' = got
  BY <1>1, <1>2 DEF StreamStep
<1>4. stream \in StreamStates
  BY DEF StreamOk
<1>5. /\ t \in StreamStates /\ t.kind = stream.kind /\ t.mode = stream.mode
      /\ t.bytes = stream.bytes /\ t.pos = stream.pos /\ t.left = stream.left
      /\ t.eof = stream.eof
  BY <1>2, <1>4 DEF StreamStates
<1>6. StreamOk(t, written, got)
  BY <1>5, OrderedOk
<1>. QED  BY <1>3, <1>6

(* The stream that is read backwards, at another place.                        *)
LEMMA BackwardOk ==
  ASSUME StreamOk(stream, written, got), stream.kind = "reversed", NEW p \in 0..Size(stream)
  PROVE  StreamOk([stream EXCEPT !.pos = p], written, got)
<1>1. PICK t : t = [stream EXCEPT !.pos = p]
  OBVIOUS
<1>2. stream \in StreamStates /\ written = <<>> /\ stream.left <= Size(stream)
  BY DEF StreamOk
<1>3. p \in Nat /\ p <= Size(stream)
  <2>1. Size(stream) \in Nat
    BY <1>2, StreamFields
  <2>. QED  BY <2>1
<1>4. /\ t \in StreamStates /\ t.kind = stream.kind /\ t.bytes = stream.bytes /\ t.pos = p
      /\ t.left = stream.left
  BY <1>1, <1>2, <1>3 DEF StreamStates
<1>5. Size(t) = Size(stream)
  BY <1>4 DEF Size
<1>6. StreamOk(t, written, got)
  BY <1>2, <1>3, <1>4, <1>5 DEF StreamOk
<1>. QED  BY <1>1, <1>6

(* read and the seeks of the stream that is read backwards.                    *)
LEMMA BackwardsKeeps ==
  ASSUME StreamOk(stream, written, got), ReadReversed \/ SeekReversed
  PROVE  StreamOk(stream, written, got)'
<1>1. stream.kind = "reversed"
  BY DEF ReadReversed, SeekReversed
<1>2. /\ stream \in StreamStates /\ stream.pos <= Size(stream) /\ stream.left <= Size(stream)
  BY <1>1 DEF StreamOk
<1>3. stream.pos \in Nat /\ stream.left \in Nat /\ Size(stream) \in Nat
  BY <1>2, StreamFields
<1>4. PICK p \in 0..Size(stream) : StreamStep([stream EXCEPT !.pos = p], written, got)
  <2>1. CASE ReadReversed
    <3>1. PICK n \in 1..2 :
            /\ stream.pos > stream.left
            /\ StreamStep([stream EXCEPT !.pos = @ - (IF n > stream.pos - stream.left
                                                      THEN stream.pos - stream.left ELSE n)],
                          written, got)
      BY <2>1 DEF ReadReversed
    <3>2. PICK p : p = stream.pos - (IF n > stream.pos - stream.left
                                     THEN stream.pos - stream.left ELSE n)
      OBVIOUS
    <3>3. p \in 0..Size(stream)
      BY <1>2, <1>3, <3>1, <3>2
    <3>4. StreamStep([stream EXCEPT !.pos = p], written, got)
      BY <3>1, <3>2
    <3>. QED  BY <3>3, <3>4
  <2>2. CASE SeekReversed
    <3>1. CASE \E p \in 0..Size(stream) : StreamStep([stream EXCEPT !.pos = p], written, got)
      BY <3>1
    <3>2. CASE StreamStep([stream EXCEPT !.pos = stream.left], written, got)
      <4>1. stream.left \in 0..Size(stream)
        BY <1>2, <1>3
      <4>. QED  BY <3>2, <4>1
    <3>3. CASE \E n \in 0..2 :
                 StreamStep([stream EXCEPT !.pos = IF @ - n < stream.left THEN stream.left
                                                   ELSE @ - n], written, got)
      <4>1. PICK n \in 0..2 :
              StreamStep([stream EXCEPT !.pos = IF @ - n < stream.left THEN stream.left
                                                ELSE @ - n], written, got)
        BY <3>3
      <4>2. PICK p : p = IF stream.pos - n < stream.left THEN stream.left ELSE stream.pos - n
        OBVIOUS
      <4>3. p \in 0..Size(stream)
        BY <1>2, <1>3, <4>2
      <4>4. StreamStep([stream EXCEPT !.pos = p], written, got)
        BY <4>1, <4>2
      <4>. QED  BY <4>3, <4>4
    <3>. QED  BY <2>2, <3>1, <3>2, <3>3 DEF SeekReversed
  <2>. QED  BY <2>1, <2>2
<1>5. PICK t : t = [stream EXCEPT !.pos = p]
  OBVIOUS
<1>6. StreamOk(t, written, got)
  BY <1>1, <1>5, BackwardOk
<1>7. stream' = t /\ written' = written /\ got' = got
  BY <1>4, <1>5 DEF StreamStep
<1>. QED  BY <1>6, <1>7

(* What was read of the values behind the first k is what was written there.   *)
LEMMA SameAfter ==
  ASSUME NEW values \in Seq(Entries), NEW read \in Seq(Readings), Same(values, read),
         NEW k \in 0..Len(values)
  PROVE  /\ After(read, k) \in Seq(Readings)
         /\ Len(After(read, k)) = IF k <= Len(read) THEN Len(read) - k ELSE 0
         /\ Same(After(values, k), After(read, k))
<1>. DEFINE n == Len(values)
            m == Len(read)
            a == After(values, k)
            r == After(read, k)
<1>1. n \in Nat /\ m \in Nat /\ k \in 0..n /\ m <= n
  BY DEF Same
<1>2. Len(a) = n - k /\ \A i \in 1..n - k : a[i] = values[k + i]
  BY AfterIs
<1>3. \A i \in 1..m : ComesBack(values[i]) /\ read[i].order = values[i].order => read[i] = values[i]
  BY DEF Same
<1>4. CASE k <= m
  <2>1. k \in 0..Len(read)
    BY <1>1, <1>4
  <2>2. r \in Seq(Readings) /\ Len(r) = m - k /\ \A i \in 1..m - k : r[i] = read[k + i]
    BY <2>1, AfterIs
  <2>. HIDE DEF a, r, m, n
  <2>3. Len(r) <= Len(a)
    BY <1>1, <1>2, <2>2
  <2>4. ASSUME NEW i \in 1..Len(r), ComesBack(a[i]), r[i].order = a[i].order
        PROVE  r[i] = a[i]
    <3>1. k + i \in 1..m /\ i \in 1..n - k /\ i \in 1..m - k
      BY <1>1, <1>4, <2>2
    <3>2. a[i] = values[k + i] /\ r[i] = read[k + i]
      BY <1>2, <2>2, <3>1
    <3>. QED  BY <1>3, <2>4, <3>1, <3>2
  <2>5. Same(a, r)
    BY <2>3, <2>4 DEF Same
  <2>. QED  BY <1>4, <2>2, <2>5 DEF a, r, m
<1>5. CASE ~(k <= m)
  <2>1. k + 1 > m /\ k + 1 \in Int /\ m \in Int
    BY <1>1, <1>5
  <2>2. r = <<>>
    BY <2>1 DEF After
  <2>3. <<>> \in Seq(Readings) /\ Len(<<>>) = 0
    OBVIOUS
  <2>4. r \in Seq(Readings) /\ Len(r) = 0
    BY <2>2, <2>3
  <2>. HIDE DEF r, a, m, n
  <2>5. Same(a, r)
    BY <1>1, <1>2, <2>4 DEF Same
  <2>. QED  BY <1>5, <2>4, <2>5 DEF r, a, m
<1>. QED  BY <1>4, <1>5

(* cut: the place goes back by what is cut, and to the front when that is more *)
(* than was read.                                                              *)
LEMMA CutKeeps ==
  ASSUME StreamOk(stream, written, got), Cut
  PROVE  StreamOk(stream, written, got)'
<1>. DEFINE n == Len(written)
            m == Len(got)
            b == Begins(written)
<1>1. stream.kind = "queue"
  BY DEF Cut
<1>2. /\ stream \in StreamStates /\ written \in Seq(Entries) /\ got \in Seq(Readings)
      /\ Same(written, got) /\ Stored(stream.bytes, written) /\ Stands(stream, written, got)
      /\ n \in Nat /\ m \in 0..n
      /\ stream.pos \in 0..Size(stream) /\ Size(stream) \in Nat /\ Size(stream) = Len(stream.bytes)
      /\ \A k \in 0..n : b[k] \in 0..Size(stream)
  BY <1>1, OkIs
<1>3. stream.bytes \in Seq(CellBytes)
  BY <1>2, StreamFields
<1>4. stream.mode = "none" /\ ~stream.eof /\ Size(stream) = b[n]
  BY <1>1, <1>2 DEF Stands
<1>5. stream.pos = b[m]
  <2>1. CASE m < n
    BY <1>2, <1>4, <2>1 DEF Stands
  <2>2. CASE ~(m < n)
    <3>1. m = n /\ stream.pos >= b[n]
      BY <1>2, <1>4, <2>2 DEF Stands
    <3>. QED  BY <1>2, <1>4, <3>1
  <2>. QED  BY <2>1, <2>2
<1>6. ASSUME NEW k \in 0..Len(written),
             StreamStep(CutTo(stream, Begins(written)[k]), After(written, k), After(got, k))
      PROVE  StreamOk(stream, written, got)'
  <2>. DEFINE a == After(written, k)
              r == After(got, k)
              c == Begins(a)
              p == b[k]
              rest == After(stream.bytes, p)
              at == IF stream.pos - p >= 0 THEN stream.pos - p ELSE 0
              t == [stream EXCEPT !.bytes = rest, !.pos = at]
  <2>1. p \in 0..Size(stream) /\ k \in 0..n
    BY <1>2, <1>6
  <2>2. CutTo(stream, p) = t
    <3>1. p <= Size(stream)
      BY <1>2, <2>1
    <3>. HIDE DEF p
    <3>. QED  BY <3>1 DEF CutTo, After
  <2>3. stream' = t /\ written' = a /\ got' = r
    BY <1>6, <2>2 DEF StreamStep
  <2>4. /\ p \in 0..Len(stream.bytes) /\ rest \in Seq(CellBytes)
        /\ Len(rest) = Len(stream.bytes) - p /\ Stored(rest, a)
    BY <1>2, <1>3, StoredAfter
  <2>5. r \in Seq(Readings) /\ Len(r) = (IF k <= m THEN m - k ELSE 0) /\ Same(a, r)
    BY <1>2, SameAfter
  <2>6. a \in Seq(Entries) /\ Len(a) = n - k
    BY <1>2, AfterIs
  <2>7. \A j \in 0..n - k : c[j] = b[k + j] - b[k]
    BY <1>2, BeginsAfter
  <2>8. at \in Nat
    BY <1>2, <2>1
  <2>. HIDE DEF t, rest, at, a, r, c
  <2>9. /\ t \in StreamStates /\ t.kind = "queue" /\ t.mode = "none" /\ ~t.eof
        /\ t.bytes = rest /\ t.pos = at
    BY <1>1, <1>2, <1>4, <2>4, <2>8 DEF t, StreamStates
  <2>10. Size(t) = b[n] - b[k]
    BY <1>2, <1>4, <2>4, <2>9 DEF Size
  <2>11. b[n] \in Nat /\ b[m] \in Nat /\ b[k] \in Nat /\ b[m] <= b[n] /\ b[k] <= b[n]
    <3>1. n \in 0..n
      BY <1>2
    <3>2. b[n] \in Nat /\ b[m] \in Nat /\ b[k] \in Nat
      BY <1>2, <2>1, <3>1
    <3>3. b[m] \in 0..b[n] /\ b[k] \in 0..b[n]
      BY <1>2, <1>4, <2>1
    <3>. HIDE DEF b, n, m
    <3>. QED  BY <3>2, <3>3
  <2>12. at = c[Len(r)]
    <3>1. CASE k <= m
      <4>1. /\ Len(r) = m - k /\ m - k \in 0..n - k /\ k + (m - k) = m /\ k \in 0..m /\ m \in 0..n
        BY <1>2, <2>1, <2>5, <3>1
      <4>2. c[Len(r)] = b[m] - b[k]
        BY <2>7, <4>1
      <4>3. b[k] <= b[m]
        <5>1. \A i \in 0..Len(written) : \A j \in 0..i : Begins(written)[j] <= Begins(written)[i]
          BY <1>2, PlacesAre
        <5>. QED  BY <4>1, <5>1
      <4>. HIDE DEF b
      <4>. QED  BY <1>5, <2>11, <4>2, <4>3 DEF at
    <3>2. CASE ~(k <= m)
      <4>1. Len(r) = 0 /\ m \in 0..k /\ k \in 0..n /\ 0 \in 0..n - k /\ k + 0 = k
        BY <1>2, <2>1, <2>5, <3>2
      <4>2. c[Len(r)] = 0
        <5>1. c[0] = b[k + 0] - b[k]
          BY <2>7, <4>1
        <5>. HIDE DEF b
        <5>. QED  BY <2>11, <4>1, <5>1
      <4>3. b[m] <= b[k]
        <5>1. \A i \in 0..Len(written) : \A j \in 0..i : Begins(written)[j] <= Begins(written)[i]
          BY <1>2, PlacesAre
        <5>. QED  BY <4>1, <5>1
      <4>. HIDE DEF b
      <4>. QED  BY <1>5, <2>11, <4>2, <4>3 DEF at
    <3>. QED  BY <3>1, <3>2
  <2>13. c[Len(a)] = b[n] - b[k]
    <3>1. n - k \in 0..n - k /\ k + (n - k) = n
      BY <1>2, <2>1
    <3>. QED  BY <2>6, <2>7, <3>1
  <2>14. at <= Size(t)
    <3>. HIDE DEF b
    <3>. QED  BY <1>5, <2>10, <2>11 DEF at
  <2>15. Len(r) < Len(a) \/ Len(r) = Len(a)
    <3>1. n \in Nat /\ m \in 0..n /\ k \in 0..n
      BY <1>2, <2>1
    <3>2. Len(r) = (IF k <= m THEN m - k ELSE 0)
      BY <2>5
    <3>. HIDE DEF n, m
    <3>3. Len(r) \in 0..n - k
      BY <3>1, <3>2
    <3>. QED  BY <2>6, <3>1, <3>3
  <2>16. IF Len(r) < Len(a) THEN t.pos = c[Len(r)] ELSE t.pos >= c[Len(a)]
    <3>1. CASE Len(r) < Len(a)
      BY <2>9, <2>12, <3>1
    <3>2. CASE ~(Len(r) < Len(a))
      <4>1. at = c[Len(a)]
        BY <2>12, <2>15, <3>2
      <4>. QED  BY <2>8, <2>9, <3>2, <4>1
    <3>. QED  BY <3>1, <3>2
  <2>17. Stands(t, a, r)
    BY <2>9, <2>10, <2>13, <2>14, <2>16 DEF Stands, c
  <2>18. StreamOk(t, a, r)
    BY <2>4, <2>5, <2>6, <2>9, <2>17 DEF StreamOk
  <2>. QED  BY <2>3, <2>18
<1>7. ASSUME StreamStep(CutTo(stream, Size(stream) + 1), <<>>, <<>>)
      PROVE  StreamOk(stream, written, got)'
  <2>1. PICK t : t = [stream EXCEPT !.bytes = <<>>, !.pos = 0]
    OBVIOUS
  <2>2. ~(Size(stream) + 1 <= Size(stream))
    BY <1>2
  <2>3. CutTo(stream, Size(stream) + 1) = t
    BY <2>1, <2>2, Zenon DEF CutTo
  <2>4. stream' = t /\ written' = <<>> /\ got' = <<>>
    BY <1>7, <2>3 DEF StreamStep
  <2>5. <<>> \in Seq(CellBytes) /\ Len(<<>>) = 0
    OBVIOUS
  <2>6. /\ t \in StreamStates /\ t.kind = "queue" /\ t.bytes = <<>> /\ t.pos = 0
        /\ t.mode = "none" /\ ~t.eof
    BY <1>1, <1>2, <1>4, <2>1, <2>5 DEF StreamStates
  <2>7. Size(t) = 0
    BY <2>5, <2>6 DEF Size
  <2>8. StreamOk(t, <<>>, <<>>)
    BY <2>6, <2>7, EmptyOk
  <2>. QED  BY <2>4, <2>8
<1>. QED  BY <1>6, <1>7 DEF Cut

(* What is left of a stream, put into a new one.                               *)
LEMMA TransferKeeps ==
  ASSUME StreamOk(stream, written, got), Transfer
  PROVE  StreamOk(stream, written, got)'
<1>. DEFINE n == Len(written)
            m == Len(got)
            b == Begins(written)
            a == After(written, m)
            rest == After(stream.bytes, stream.pos)
            fresh == NewStream("memory", stream.order, rest, TRUE)
            t == [fresh EXCEPT !.pos = Size(fresh)]
<1>1. stream.kind # "reversed"
  BY DEF Transfer, InBuffer, InMemoryKinds, InFile
<1>2. /\ stream \in StreamStates /\ written \in Seq(Entries) /\ got \in Seq(Readings)
      /\ Stored(stream.bytes, written) /\ n \in Nat /\ m \in 0..n
  BY <1>1, OkIs
<1>3. stream.bytes \in Seq(CellBytes) /\ stream.order \in ByteOrders
  BY <1>2, StreamFields
<1>4. /\ stream.pos = b[m]
      /\ stream' = t /\ written' = a /\ got' = a
  BY DEF Transfer, StreamStep
<1>5. /\ rest \in Seq(CellBytes) /\ Stored(rest, a)
  BY <1>2, <1>3, <1>4, StoredAfter
<1>6. a \in Seq(Entries) /\ Len(a) = n - m
  BY <1>2, AfterIs
<1>. HIDE DEF a, rest, b, n, m
<1>7. /\ fresh \in StreamStates /\ fresh.kind = "memory" /\ fresh.bytes = rest
      /\ fresh.mode = "none" /\ fresh.eof = FALSE
  <2>1. "memory" \in {"memory", "queue", "file", "reversed"}
    OBVIOUS
  <2>2. PICK u : u = fresh
    OBVIOUS
  <2>3. u = NewStream("memory", stream.order, rest, TRUE)
    BY <2>2 DEF fresh
  <2>4. /\ u \in StreamStates /\ u.kind = "memory" /\ u.bytes = rest
        /\ u.mode = "none" /\ u.eof = FALSE
    BY <1>3, <1>5, <2>1, <2>3 DEF NewStream, StreamStates, Modes
  <2>. QED  BY <2>2, <2>4
<1>. HIDE DEF fresh
<1>8. Size(fresh) = Len(rest) /\ Len(rest) \in Nat
  <2>1. Len(rest) \in Nat
    BY <1>5
  <2>. QED  BY <1>7, <2>1 DEF Size
<1>9. /\ t \in StreamStates /\ t.kind = "memory" /\ t.bytes = rest /\ t.pos = Len(rest)
      /\ t.mode = "none" /\ ~t.eof
  BY <1>7, <1>8 DEF StreamStates
<1>. HIDE DEF t
<1>10. Begins(a)[Len(a)] <= Len(rest)
  BY <1>5 DEF Stored
<1>11. Begins(a)[Len(a)] \in Nat
  <2>1. Len(a) \in 0..Len(a)
    BY <1>6
  <2>. QED  BY <1>6, <2>1, PlacesAre
<1>12. Size(t) = Len(rest)
  BY <1>9 DEF Size
<1>13. Stands(t, a, a)
  <2>1. ~(Len(a) < Len(a))
    BY <1>6
  <2>2. t.pos >= Begins(a)[Len(a)] /\ t.pos <= Size(t)
    BY <1>8, <1>9, <1>10, <1>11, <1>12
  <2>. QED  BY <1>9, <2>1, <2>2 DEF Stands
<1>14. a \in Seq(Readings) /\ Same(a, a)
  BY <1>6, EntriesRead
<1>15. StreamOk(t, a, a)
  BY <1>5, <1>6, <1>9, <1>13, <1>14 DEF StreamOk
<1>. QED  BY <1>4, <1>15

(* open, whether it fails, empties the file or leaves it.                      *)
LEMMA OpenFileKeeps ==
  ASSUME StreamOk(stream, written, got), Open
  PROVE  StreamOk(stream, written, got)'
<1>1. stream.kind = "file"
  BY DEF Open, InFile
<1>2. /\ stream \in StreamStates /\ written \in Seq(Entries) /\ Len(written) \in Nat
      /\ Stored(stream.bytes, written) /\ Stands(stream, written, got)
      /\ Size(stream) = Len(stream.bytes) /\ Size(stream) \in Nat /\ Begins(written)[0] = 0
  BY <1>1, OkIs
<1>3. stream.bytes \in Seq(CellBytes) /\ stream.order \in ByteOrders
  BY <1>2, StreamFields
<1>4. Size(stream) = Begins(written)[Len(written)]
  BY <1>1, <1>2 DEF Stands
<1>. DEFINE closed == NewStream("file", stream.order, stream.bytes, FALSE)
<1>5. /\ closed \in StreamStates /\ closed.kind = "file" /\ closed.bytes = stream.bytes
      /\ closed.pos = 0 /\ closed.mode = "none" /\ closed.eof = FALSE
  <2>1. "file" \in {"memory", "queue", "file", "reversed"}
    OBVIOUS
  <2>2. PICK u : u = closed
    OBVIOUS
  <2>3. u = NewStream("file", stream.order, stream.bytes, FALSE)
    BY <2>2
  <2>. HIDE DEF closed
  <2>4. /\ u \in StreamStates /\ u.kind = "file" /\ u.bytes = stream.bytes
        /\ u.pos = 0 /\ u.mode = "none" /\ u.eof = FALSE
    BY <1>3, <2>1, <2>3 DEF NewStream, StreamStates, Modes
  <2>. QED  BY <2>2, <2>4
<1>6. PICK flags \in SUBSET {"Read", "Write", "Append", "Truncate"} :
        LET exists == stream.mode # "absent"
            mode == FopenMode(flags, exists)
            opened == [closed EXCEPT !.mode = mode]
            fails == mode = "none" \/ (mode \in {"rb", "rb+"} /\ ~exists)
        IN \/ /\ fails
              /\ StreamStep([closed EXCEPT !.mode = IF exists THEN @ ELSE "absent"], written, <<>>)
           \/ /\ ~fails /\ mode \in {"wb", "wb+"}
              /\ StreamStep([opened EXCEPT !.bytes = <<>>], <<>>, <<>>)
           \/ /\ ~fails /\ mode \notin {"wb", "wb+"}
              /\ StreamStep(opened, written, <<>>)
  BY Zenon DEF Open
<1>. DEFINE mode == FopenMode(flags, stream.mode # "absent")
<1>7. mode \in Modes
  BY DEF FopenMode, Modes
<1>. HIDE DEF closed, mode
<1>8. \/ \E to \in Modes : StreamStep([closed EXCEPT !.mode = to], written, <<>>)
      \/ \E to \in Modes : StreamStep([[closed EXCEPT !.mode = to] EXCEPT !.bytes = <<>>], <<>>, <<>>)
  <2>1. CASE StreamStep([closed EXCEPT !.mode = IF stream.mode # "absent" THEN @ ELSE "absent"],
                        written, <<>>)
    <3>1. PICK to : to = IF stream.mode # "absent" THEN closed.mode ELSE "absent"
      OBVIOUS
    <3>2. to \in Modes
      BY <1>5, <3>1 DEF Modes
    <3>. QED  BY <2>1, <3>1, <3>2
  <2>2. CASE StreamStep([[closed EXCEPT !.mode = mode] EXCEPT !.bytes = <<>>], <<>>, <<>>)
    BY <1>7, <2>2
  <2>3. CASE StreamStep([closed EXCEPT !.mode = mode], written, <<>>)
    BY <1>7, <2>3
  <2>. QED  BY <1>6, <2>1, <2>2, <2>3, Zenon DEF mode
<1>9. PICK none \in Seq(Readings) : none = <<>> /\ Len(none) = 0
  <2>1. <<>> \in Seq(Readings) /\ Len(<<>>) = 0
    OBVIOUS
  <2>. QED  BY <2>1
<1>10. CASE \E to \in Modes : StreamStep([closed EXCEPT !.mode = to], written, <<>>)
  <2>1. PICK to \in Modes : StreamStep([closed EXCEPT !.mode = to], written, <<>>)
    BY <1>10
  <2>2. PICK t : t = [closed EXCEPT !.mode = to]
    OBVIOUS
  <2>3. stream' = t /\ written' = written /\ got' = none
    BY <1>9, <2>1, <2>2 DEF StreamStep
  <2>4. /\ t \in StreamStates /\ t.kind = "file" /\ t.bytes = stream.bytes /\ t.pos = 0
        /\ t.eof = FALSE
    BY <1>5, <2>2 DEF StreamStates
  <2>5. Size(t) = Size(stream)
    BY <2>4 DEF Size
  <2>6. IF Len(none) < Len(written) THEN t.pos = Begins(written)[Len(none)]
        ELSE t.pos >= Begins(written)[Len(written)]
    <3>1. CASE Len(written) = 0
      BY <1>2, <1>9, <2>4, <3>1
    <3>2. CASE Len(written) # 0
      BY <1>2, <1>9, <2>4, <3>2
    <3>. QED  BY <3>1, <3>2
  <2>7. t.pos <= Size(t)
    BY <1>2, <2>4, <2>5
  <2>8. Stands(t, written, none)
    BY <1>4, <2>4, <2>5, <2>6, <2>7 DEF Stands
  <2>9. Same(written, none)
    BY <1>2, <1>9 DEF Same
  <2>10. StreamOk(t, written, none)
    BY <1>2, <2>4, <2>8, <2>9 DEF StreamOk
  <2>. QED  BY <2>3, <2>10
<1>11. CASE \E to \in Modes :
              StreamStep([[closed EXCEPT !.mode = to] EXCEPT !.bytes = <<>>], <<>>, <<>>)
  <2>1. PICK to \in Modes :
          StreamStep([[closed EXCEPT !.mode = to] EXCEPT !.bytes = <<>>], <<>>, <<>>)
    BY <1>11
  <2>2. PICK u : u = [closed EXCEPT !.mode = to]
    OBVIOUS
  <2>3. u \in StreamStates /\ u.kind = "file" /\ u.pos = 0 /\ u.eof = FALSE
    BY <1>5, <2>2 DEF StreamStates
  <2>4. PICK t : t = [u EXCEPT !.bytes = <<>>]
    OBVIOUS
  <2>5. stream' = t /\ written' = <<>> /\ got' = <<>>
    BY <2>1, <2>2, <2>4 DEF StreamStep
  <2>6. <<>> \in Seq(CellBytes) /\ Len(<<>>) = 0
    OBVIOUS
  <2>7. /\ t \in StreamStates /\ t.kind = "file" /\ t.bytes = <<>> /\ t.pos = 0
        /\ t.eof = FALSE
    BY <2>3, <2>4, <2>6 DEF StreamStates
  <2>8. Size(t) = 0
    BY <2>6, <2>7 DEF Size
  <2>9. StreamOk(t, <<>>, <<>>)
    BY <2>7, <2>8, EmptyOk
  <2>. QED  BY <2>5, <2>9
<1>. QED  BY <1>8, <1>10, <1>11

(* A buffer of the caller that holds a value.                                  *)
LEMMA HoldsOk ==
  ASSUME NEW w \in Entries, NEW order \in ByteOrders, NEW bytes, bytes = Encoded(w)
  PROVE  StreamOk(NewStream("memory", order, bytes, FALSE), <<w>>, <<>>)
<1>1. PICK none \in Seq(Entries) : none = <<>> /\ Len(none) = 0
  <2>1. <<>> \in Seq(Entries) /\ Len(<<>>) = 0
    OBVIOUS
  <2>. QED  BY <2>1
<1>2. PICK l : l = Append(none, w)
  OBVIOUS
<1>3. l = <<w>>
  BY <1>1, <1>2
<1>4. /\ Begins(none)[0] = 0 /\ Begins(l)[0] = 0
      /\ l \in Seq(Entries) /\ Len(l) = 1
  <2>1. Begins(none)[0] = 0
    BY PlacesAre DEF Sums
  <2>2. l \in Seq(Entries) /\ Len(l) = 1
    BY <1>1, <1>2, AppendProperties
  <2>3. Begins(l)[0] = 0
    BY <2>2, PlacesAre DEF Sums
  <2>. QED  BY <2>1, <2>2, <2>3
<1>5. /\ SizeInStream(w) \in Nat \ {0} /\ bytes \in Seq(StreamBytes)
      /\ Len(bytes) = SizeInStream(w)
  BY StoredAndBack
<1>6. bytes \in Seq(CellBytes)
  BY <1>5 DEF StreamBytes, CellBytes
<1>7. Stored(bytes, none)
  BY <1>1, <1>4, <1>5 DEF Stored
<1>8. Stored(bytes, l)
  <2>1. Begins(none)[Len(none)] = 0
    BY <1>1, <1>4
  <2>2. /\ Len(bytes) \in Nat
        /\ Begins(none)[Len(none)] + SizeInStream(w) <= Len(bytes)
        /\ \A i \in 1..Begins(none)[Len(none)] : bytes[i] = bytes[i]
    BY <1>5, <2>1
  <2>3. \A j \in 1..SizeInStream(w) : bytes[Begins(none)[Len(none)] + j] = Encoded(w)[j]
    <3>1. ASSUME NEW j \in 1..SizeInStream(w) PROVE 0 + j = j
      BY <1>5
    <3>. QED  BY <2>1, <3>1
  <2>. QED  BY <1>2, <1>7, <2>2, <2>3, StoredOneMore
<1>9. PICK t : t = NewStream("memory", order, bytes, FALSE)
  OBVIOUS
<1>10. /\ t \in StreamStates /\ t.kind = "memory" /\ t.bytes = bytes /\ t.pos = 0
       /\ t.mode = "none" /\ t.eof = FALSE
  <2>1. "memory" \in {"memory", "queue", "file", "reversed"}
    OBVIOUS
  <2>. QED  BY <1>6, <1>9, <2>1 DEF NewStream, StreamStates, Modes
<1>11. none \in Seq(Readings) /\ Same(l, none)
  <2>1. none \in Seq(Readings)
    BY EntriesRead
  <2>. QED  BY <1>1, <1>4, <2>1 DEF Same
<1>12. Stands(t, l, none)
  <2>1. Begins(l)[0] = 0 /\ Len(none) < Len(l)
    BY <1>1, <1>4
  <2>2. t.pos <= Size(t)
    BY <1>5, <1>10 DEF Size
  <2>. QED  BY <1>1, <1>10, <2>1, <2>2 DEF Stands
<1>13. StreamOk(t, l, none)
  BY <1>4, <1>8, <1>10, <1>11, <1>12 DEF StreamOk
<1>. QED  BY <1>1, <1>3, <1>9, <1>13

(* What the constructors make.                                                 *)
LEMMA StreamInitOk ==
  ASSUME StreamInit
  PROVE  DataStreamInv
<1>1. got = <<>>
  BY DEF StreamInit
<1>2. PICK order \in ByteOrders :
        \/ \E kind \in InMemoryKinds :
             stream = NewStream(kind, order, <<>>, TRUE) /\ written = <<>>
        \/ stream = NewStream("memory", order, <<Wild, Wild, Wild>>, TRUE) /\ written = <<>>
        \/ \E v \in StreamValues :
             /\ stream = NewStream("memory", order, PutValue(v, order), FALSE)
             /\ written = <<Of(v, order)>>
        \/ /\ stream = [NewStream("file", order, <<>>, FALSE) EXCEPT !.mode = "absent"]
           /\ written = <<>>
        \/ \E size, from \in 0..3 : \E at \in {0, size} :
             /\ from <= at /\ written = <<>>
             /\ stream = [NewStream("reversed", order, [i \in 1..size |-> Wild], TRUE) EXCEPT
                            !.left = from, !.pos = at]
  BY Zenon DEF StreamInit
<1>3. <<>> \in Seq(CellBytes) /\ Len(<<>>) = 0
  OBVIOUS
<1>4. CASE \E kind \in InMemoryKinds :
             stream = NewStream(kind, order, <<>>, TRUE) /\ written = <<>>
  <2>1. PICK kind \in {"memory", "queue"} :
          stream = NewStream(kind, order, <<>>, TRUE) /\ written = <<>>
    BY <1>4 DEF InMemoryKinds
  <2>2. kind \in {"memory", "queue", "file", "reversed"}
    OBVIOUS
  <2>3. /\ stream \in StreamStates /\ stream.kind = kind /\ stream.bytes = <<>>
        /\ stream.pos = 0 /\ stream.mode = "none" /\ stream.eof = FALSE
    BY <1>3, <2>1, <2>2 DEF NewStream, StreamStates, Modes
  <2>4. Size(stream) = 0
    BY <1>3, <2>3 DEF Size
  <2>5. stream.kind # "reversed"
    BY <2>1, <2>3
  <2>6. StreamOk(stream, <<>>, <<>>)
    BY <2>3, <2>4, <2>5, EmptyOk
  <2>. QED  BY <1>1, <2>1, <2>6 DEF DataStreamInv
<1>5. CASE stream = NewStream("memory", order, <<Wild, Wild, Wild>>, TRUE) /\ written = <<>>
  <2>1. <<Wild, Wild, Wild>> \in Seq(CellBytes)
    BY DEF Wild, CellBytes
  <2>2. "memory" \in {"memory", "queue", "file", "reversed"}
    OBVIOUS
  <2>3. PICK wild : wild = <<Wild, Wild, Wild>>
    OBVIOUS
  <2>4. /\ stream \in StreamStates /\ stream.kind = "memory"
        /\ stream.pos = 0 /\ stream.mode = "none" /\ stream.eof = FALSE
    <3>1. wild \in Seq(CellBytes) /\ stream = NewStream("memory", order, wild, TRUE)
      BY <1>5, <2>1, <2>3
    <3>. QED  BY <1>3, <2>2, <3>1 DEF NewStream, StreamStates, Modes
  <2>5. StreamOk(stream, <<>>, <<>>)
    BY <2>4, EmptyOk
  <2>. QED  BY <1>1, <1>5, <2>5 DEF DataStreamInv
<1>6. CASE \E v \in StreamValues :
             /\ stream = NewStream("memory", order, PutValue(v, order), FALSE)
             /\ written = <<Of(v, order)>>
  <2>1. PICK v \in StreamValues :
          /\ stream = NewStream("memory", order, PutValue(v, order), FALSE)
          /\ written = <<Of(v, order)>>
    BY <1>6
  <2>2. PICK w : w = Of(v, order)
    OBVIOUS
  <2>3. w \in Entries /\ Encoded(w) = PutValue(v, order)
    <3>1. w \in Entries
      BY <2>2 DEF Entries
    <3>2. w.kind = v.kind /\ w.bytes = v.bytes /\ w.order = order
      BY <2>2 DEF Of
    <3>. QED  BY <3>1, <3>2 DEF Encoded, PutValue
  <2>4. StreamOk(NewStream("memory", order, PutValue(v, order), FALSE), <<w>>, <<>>)
    BY <2>3, HoldsOk
  <2>. QED  BY <1>1, <2>1, <2>2, <2>4 DEF DataStreamInv
<1>7. CASE /\ stream = [NewStream("file", order, <<>>, FALSE) EXCEPT !.mode = "absent"]
           /\ written = <<>>
  <2>1. PICK u : u = NewStream("file", order, <<>>, FALSE)
    OBVIOUS
  <2>2. "file" \in {"memory", "queue", "file", "reversed"}
    OBVIOUS
  <2>3. /\ u \in StreamStates /\ u.kind = "file" /\ u.bytes = <<>> /\ u.pos = 0 /\ u.eof = FALSE
    BY <1>3, <2>1, <2>2 DEF NewStream, StreamStates, Modes
  <2>4. stream = [u EXCEPT !.mode = "absent"]
    BY <1>7, <2>1
  <2>5. /\ stream \in StreamStates /\ stream.kind = "file" /\ stream.bytes = <<>>
        /\ stream.pos = 0 /\ stream.eof = FALSE
    BY <2>3, <2>4 DEF StreamStates, Modes
  <2>6. Size(stream) = 0
    BY <1>3, <2>5 DEF Size
  <2>7. StreamOk(stream, <<>>, <<>>)
    BY <2>5, <2>6, EmptyOk
  <2>. QED  BY <1>1, <1>7, <2>7 DEF DataStreamInv
<1>8. CASE \E size, from \in 0..3 : \E at \in {0, size} :
             /\ from <= at /\ written = <<>>
             /\ stream = [NewStream("reversed", order, [i \in 1..size |-> Wild], TRUE) EXCEPT
                            !.left = from, !.pos = at]
  <2>0. PICK size \in 0..3, from \in 0..3 : \E at \in {0, size} :
          /\ from <= at /\ written = <<>>
          /\ stream = [NewStream("reversed", order, [i \in 1..size |-> Wild], TRUE) EXCEPT
                         !.left = from, !.pos = at]
    BY <1>8
  <2>1. PICK at \in {0, size} :
          /\ from <= at /\ written = <<>>
          /\ stream = [NewStream("reversed", order, [i \in 1..size |-> Wild], TRUE) EXCEPT
                         !.left = from, !.pos = at]
    BY <2>0
  <2>2. PICK wild : wild = [i \in 1..size |-> Wild]
    OBVIOUS
  <2>3. wild \in Seq(CellBytes) /\ Len(wild) = size
    BY <2>2 DEF Wild, CellBytes
  <2>4. PICK u : u = NewStream("reversed", order, wild, TRUE)
    OBVIOUS
  <2>5. "reversed" \in {"memory", "queue", "file", "reversed"}
    OBVIOUS
  <2>6. /\ u \in StreamStates /\ u.kind = "reversed" /\ u.bytes = wild
    BY <1>3, <2>3, <2>4, <2>5 DEF NewStream, StreamStates, Modes
  <2>7. at \in Nat /\ from \in Nat /\ at <= size /\ from <= size
    BY <2>1
  <2>8. stream = [u EXCEPT !.left = from, !.pos = at]
    BY <2>1, <2>2, <2>4
  <2>9. /\ stream \in StreamStates /\ stream.kind = "reversed" /\ stream.bytes = wild
        /\ stream.pos = at /\ stream.left = from
    BY <2>6, <2>7, <2>8 DEF StreamStates
  <2>10. Size(stream) = size
    BY <2>3, <2>9 DEF Size
  <2>11. PICK none \in Seq(Entries) : none = <<>> /\ Len(none) = 0
    <3>1. <<>> \in Seq(Entries) /\ Len(<<>>) = 0
      OBVIOUS
    <3>. QED  BY <3>1
  <2>12. none \in Seq(Readings) /\ Same(none, none)
    BY EntriesRead
  <2>13. StreamOk(stream, none, none)
    BY <2>7, <2>9, <2>10, <2>11, <2>12 DEF StreamOk
  <2>. QED  BY <1>1, <2>1, <2>11, <2>13 DEF DataStreamInv
<1>. QED  BY <1>2, <1>4, <1>5, <1>6, <1>7, <1>8

(* Every call keeps the invariant.                                             *)
LEMMA StreamStepKeeps ==
  ASSUME DataStreamInv, [StreamNext]_streamVars
  PROVE  DataStreamInv'
<1>. USE DEF DataStreamInv
<1>1. CASE WriteValue
  BY <1>1, WriteValueKeeps
<1>2. CASE ReadValue
  BY <1>2, ReadValueKeeps
<1>3. CASE ReadBeyond
  BY <1>3, ReadBeyondKeeps
<1>4. CASE Seek
  BY <1>4, SeekValueKeeps
<1>5. CASE Skip
  BY <1>5, SkipKeeps
<1>6. CASE AskPlace
  BY <1>6, AskPlaceKeeps
<1>7. CASE Resize
  BY <1>7, ResizeKeeps
<1>8. CASE Reset
  BY <1>8, ResetKeeps
<1>9. CASE Cut
  BY <1>9, CutKeeps
<1>10. CASE CopyStream
  BY <1>10, CopyKeeps
<1>11. CASE SetOrder
  BY <1>11, SetOrderKeeps
<1>12. CASE Transfer
  BY <1>12, TransferKeeps
<1>13. CASE Open
  BY <1>13, OpenFileKeeps
<1>14. CASE ReadReversed \/ SeekReversed
  BY <1>14, BackwardsKeeps
<1>15. CASE UNCHANGED streamVars
  BY <1>15 DEF streamVars
<1>. QED  BY <1>1, <1>2, <1>3, <1>4, <1>5, <1>6, <1>7, <1>8, <1>9, <1>10, <1>11, <1>12,
             <1>13, <1>14, <1>15, Zenon DEF StreamNext

(* The invariant gives the property.                                           *)
LEMMA DataStreamInvGives ==
  ASSUME DataStreamInv
  PROVE  ValuesComeBack
<1>1. /\ stream \in StreamStates /\ got \in Seq(Readings) /\ Same(written, got)
  BY DEF DataStreamInv, StreamOk
<1>2. stream.pos \in Nat /\ Size(stream) \in Nat
  BY <1>1, StreamFields
<1>3. stream.pos <= Size(stream)
  BY DEF DataStreamInv, StreamOk, Stands
<1>4. DOMAIN got = 1..Len(got)
  BY <1>1
<1>5. \A i \in DOMAIN got :
        ComesBack(written[i]) /\ got[i].order = written[i].order => got[i] = written[i]
  BY <1>1, <1>4 DEF Same
<1>. QED  BY <1>2, <1>3, <1>5 DEF ValuesComeBack

(* Whatever is written comes back, in order, as long as it is read in the byte *)
(* order it was written in: while the stream grows, is copied, cut or put into *)
(* another stream, and after seeks, skips and reads that found too little; and *)
(* no stream in memory is beyond what it holds. For all values, either machine *)
(* order and any number of calls.                                              *)
THEOREM WrittenValuesComeBack == StreamSpec => []ValuesComeBack
<1>1. StreamInit => DataStreamInv
  BY StreamInitOk
<1>2. DataStreamInv /\ [StreamNext]_streamVars => DataStreamInv'
  BY StreamStepKeeps
<1>3. DataStreamInv => ValuesComeBack
  BY DataStreamInvGives
<1>. QED  BY <1>1, <1>2, <1>3, PTL DEF StreamSpec

-----------------------------------------------------------------------------
(* GfBitStream.                                                                *)

BitModes == {"read", "file_read", "file_write", "dynamic", "write"}
BitStreams ==
  [mode : BitModes, bits : Seq(Bits), size : Nat, position : Nat, current : Seq(Bits),
   nbBits : 0..8, eof : BOOLEAN]

(* A stream that is read is on the tape, wherever it is there.                 *)
Reader(b, t) ==
  /\ b \in BitStreams /\ Reads(b) /\ b.bits = t /\ Len(t) = BytesOf(b.size)
  /\ b.nbBits \in 1..8 /\ (b.nbBits < 8 => Len(b.current) = 8)
  /\ b.mode = "read" => ~b.eof
  /\ b.eof => b.position > b.size

(* It is in the byte before its position, or between two bytes.                *)
Here(b, p) ==
  /\ p = BytesOf(b.position) - 8 + b.nbBits /\ ~b.eof
  /\ b.nbBits < 8 => b.position \in 1..b.size /\ b.current = ByteAt(b, b.position - 1)

(* It is behind the end, where bytes in memory are zeros.                      *)
Past(b, p) ==
  /\ p > Len(b.bits) /\ b.position >= b.size
  /\ b.nbBits < 8 => IF b.mode = "read" THEN b.current = Zeros(8) ELSE b.eof

ReaderAt(b, t, p) == Reader(b, t) /\ p \in Nat /\ (Here(b, p) \/ Past(b, p))

(* What is on the tape and not in the byte that is being filled is in the      *)
(* stream, or will be with that byte.                                          *)
Filling(b, t, p) ==
  \A i \in 1..Len(t) :
    IF i \in BytesOf(b.position) + 1..p THEN t[i] = b.current[i - BytesOf(b.position)]
    ELSE i \in p + 1..BytesOf(b.position) + (IF b.nbBits = 0 THEN 0 ELSE 8)
         \/ t[i] = IF i <= Len(b.bits) THEN b.bits[i] ELSE 0

(* A stream that is written, in its modes.                                     *)
Kind(b) ==
  /\ b \in BitStreams /\ ~Reads(b)
  /\ \E n \in 0..Len(b.bits) : Len(b.bits) = BytesOf(n)
  /\ b.mode = "write" => b.size = RoomSize /\ Len(b.bits) = BytesOf(RoomSize)
  /\ b.mode = "dynamic" => Len(b.bits) = BytesOf(b.size)
  /\ b.mode # "file_write" => b.position <= b.size

Writer(b, t, p) ==
  /\ Kind(b) /\ t \in Seq(Bits)
  /\ p = BytesOf(b.position) + b.nbBits
  /\ b.nbBits < 8 /\ Len(b.current) = b.nbBits
  /\ Len(t) = IF b.mode = "write" \/ b.nbBits = 0 THEN Len(b.bits) ELSE Longest(Len(b.bits), p)
  /\ Filling(b, t, p)

BitInv ==
  /\ readings[1] = readings[2]
  /\ tape \in Seq(Bits) /\ place \in Nat /\ astray \in BOOLEAN
  /\ IF ~Reads(bs) THEN ~astray /\ Writer(bs, tape, place)
     ELSE IF astray THEN bs.mode = "read" /\ Reader(bs, tape) ELSE ReaderAt(bs, tape, place)

(* No position comes near the number at which it wraps.                        *)
FarFromLimit == astray \/ bs.position + 3 < PositionLimit

-----------------------------------------------------------------------------
(* Reading goes on bit by bit.                                                 *)

Reads1(f, b, n) ==
  f = [k \in 0..n |-> IF k = 0 THEN [bs |-> b, value |-> <<>>] ELSE gf_bs_read_bit(f[k - 1])]

(* There is one function the loop computes, and a longer one goes on with it.  *)
LEMMA OneReading ==
  ASSUME NEW b, NEW n \in Nat, NEW f, NEW g, Reads1(f, b, n), Reads1(g, b, n + 1)
  PROVE  g[n + 1] = gf_bs_read_bit(f[n])
<1>. DEFINE S == {k \in Nat : k <= n => f[k] = g[k]}
            start == [bs |-> b, value |-> <<>>]
<1>1. /\ \A k \in 0..n : f[k] = IF k = 0 THEN start ELSE gf_bs_read_bit(f[k - 1])
      /\ \A k \in 0..n + 1 : g[k] = IF k = 0 THEN start ELSE gf_bs_read_bit(g[k - 1])
  BY Zenon DEF Reads1
<1>. HIDE DEF start
<1>2. 0 \in S
  <2>1. 0 \in 0..n /\ 0 \in 0..n + 1
    OBVIOUS
  <2>. QED  BY <1>1, <2>1
<1>3. ASSUME NEW k \in Nat, k \in S PROVE k + 1 \in S
  <2>1. ASSUME k + 1 <= n PROVE f[k + 1] = g[k + 1]
    <3>1. k + 1 \in 0..n /\ k + 1 \in 0..n + 1 /\ k + 1 # 0 /\ k + 1 - 1 = k /\ f[k] = g[k]
      BY <1>3, <2>1
    <3>2. f[k + 1] = gf_bs_read_bit(f[k + 1 - 1]) /\ g[k + 1] = gf_bs_read_bit(g[k + 1 - 1])
      BY <1>1, <3>1
    <3>. QED  BY <3>1, <3>2, Zenon
  <2>. QED  BY <2>1
<1>4. f[n] = g[n]
  <2>1. Nat \subseteq S
    <3>. HIDE DEF S
    <3>. QED  BY <1>2, <1>3, SetInduction
  <2>. QED  BY <2>1
<1>5. n + 1 \in 0..n + 1 /\ n + 1 # 0 /\ n + 1 - 1 = n
  OBVIOUS
<1>6. g[n + 1] = gf_bs_read_bit(g[n + 1 - 1])
  BY <1>1, <1>5
<1>. QED  BY <1>4, <1>5, <1>6, Zenon

LEMMA ReadingIs ==
  ASSUME NEW b
  PROVE  /\ gf_bs_read_int(b, 0) = [bs |-> b, value |-> <<>>]
         /\ \A n \in Nat : gf_bs_read_int(b, n + 1) = gf_bs_read_bit(gf_bs_read_int(b, n))
<1>. DEFINE S == {n \in Nat : \E f : Reads1(f, b, n)}
            start == [bs |-> b, value |-> <<>>]
<1>1. 0 \in S
  <2>. DEFINE f == [k \in 0..0 |-> start]
  <2>1. f = [k \in 0..0 |-> IF k = 0 THEN start ELSE gf_bs_read_bit(f[k - 1])]
    <3>. HIDE DEF start
    <3>. QED  OBVIOUS
  <2>2. Reads1(f, b, 0)
    <3>. HIDE DEF f
    <3>. QED  BY <2>1, Zenon DEF Reads1
  <2>. QED  BY <2>2
<1>2. ASSUME NEW n \in Nat, n \in S PROVE n + 1 \in S
  <2>1. PICK f : Reads1(f, b, n)
    BY <1>2
  <2>. DEFINE g == [k \in 0..n + 1 |-> IF k = n + 1 THEN gf_bs_read_bit(f[n]) ELSE f[k]]
  <2>2. \A k \in 0..n : f[k] = IF k = 0 THEN start ELSE gf_bs_read_bit(f[k - 1])
    BY <2>1, Zenon DEF Reads1
  <2>. HIDE DEF start
  <2>3. ASSUME NEW k \in 0..n + 1
        PROVE  g[k] = IF k = 0 THEN start ELSE gf_bs_read_bit(g[k - 1])
    <3>1. CASE k = n + 1
      <4>1. k # 0 /\ k - 1 = n /\ n \in 0..n + 1 /\ n # n + 1
        BY <3>1
      <4>2. g[k] = gf_bs_read_bit(f[n])
        BY <3>1, Zenon
      <4>3. g[n] = f[n]
        BY <4>1, Zenon
      <4>. QED  BY <4>1, <4>2, <4>3, Zenon
    <3>2. CASE k # n + 1 /\ k # 0
      <4>1. k \in 0..n /\ k - 1 \in 0..n + 1 /\ k - 1 # n + 1
        BY <3>2
      <4>2. g[k] = f[k] /\ g[k - 1] = f[k - 1]
        BY <3>2, <4>1, Zenon
      <4>. QED  BY <2>2, <3>2, <4>1, <4>2, Zenon
    <3>3. CASE k = 0
      <4>1. k \in 0..n /\ k # n + 1
        BY <3>3
      <4>2. g[k] = f[k]
        BY <4>1, Zenon
      <4>. QED  BY <2>2, <3>3, <4>1, <4>2, Zenon
    <3>. QED  BY <3>1, <3>2, <3>3
  <2>4. g = [k \in 0..n + 1 |-> g[k]]
    BY Zenon
  <2>. HIDE DEF g
  <2>5. g = [k \in 0..n + 1 |-> IF k = 0 THEN start ELSE gf_bs_read_bit(g[k - 1])]
    BY <2>3, <2>4, Zenon
  <2>6. Reads1(g, b, n + 1)
    BY <2>5, Zenon DEF Reads1, start
  <2>. QED  BY <2>6
<1>3. \A n \in Nat : \E f : Reads1(f, b, n)
  <2>1. Nat \subseteq S
    <3>. HIDE DEF S
    <3>. QED  BY <1>1, <1>2, SetInduction
  <2>. QED  BY <2>1
<1>4. ASSUME NEW n \in Nat
      PROVE  \E f : Reads1(f, b, n) /\ gf_bs_read_int(b, n) = f[n]
  <2>. DEFINE Is(f) == f = [k \in 0..n |-> IF k = 0 THEN [bs |-> b, value |-> <<>>]
                                           ELSE gf_bs_read_bit(f[k - 1])]
              h == CHOOSE f : Is(f)
  <2>1. gf_bs_read_int(b, n) = h[n]
    BY Zenon DEF gf_bs_read_int
  <2>2. \E f : Is(f)
    BY <1>3, Zenon DEF Reads1
  <2>3. Is(h)
    <3>. HIDE DEF Is
    <3>. QED  BY <2>2, Zenon
  <2>. HIDE DEF h
  <2>4. Reads1(h, b, n)
    BY <2>3, Zenon DEF Reads1
  <2>. QED  BY <2>1, <2>4
<1>5. gf_bs_read_int(b, 0) = start
  <2>1. PICK f : Reads1(f, b, 0) /\ gf_bs_read_int(b, 0) = f[0]
    BY <1>4
  <2>2. 0 \in 0..0
    OBVIOUS
  <2>3. f[0] = start
    BY <2>1, <2>2, Zenon DEF Reads1
  <2>. QED  BY <2>1, <2>3
<1>6. ASSUME NEW n \in Nat
      PROVE  gf_bs_read_int(b, n + 1) = gf_bs_read_bit(gf_bs_read_int(b, n))
  <2>1. PICK f : Reads1(f, b, n) /\ gf_bs_read_int(b, n) = f[n]
    BY <1>4
  <2>2. n + 1 \in Nat
    OBVIOUS
  <2>3. PICK g : Reads1(g, b, n + 1) /\ gf_bs_read_int(b, n + 1) = g[n + 1]
    BY <1>4, <2>2, Zenon
  <2>4. g[n + 1] = gf_bs_read_bit(f[n])
    BY <2>1, <2>3, OneReading
  <2>. QED  BY <2>1, <2>3, <2>4, Zenon
<1>. QED  BY <1>5, <1>6

(* Writing goes on bit by bit.                                                 *)

Writes1(f, b, bits, n) ==
  f = [k \in 0..n |-> IF k = 0 THEN b ELSE BS_WriteBit(f[k - 1], bits[k])]

LEMMA WritingIs ==
  ASSUME NEW b, NEW bits, Len(bits) \in Nat
  PROVE  \E f : /\ f[0] = b /\ gf_bs_write_int(b, bits) = f[Len(bits)]
                /\ \A k \in 1..Len(bits) : f[k] = BS_WriteBit(f[k - 1], bits[k])
<1>. DEFINE S == {n \in Nat : \E f : Writes1(f, b, bits, n)}
<1>1. 0 \in S
  <2>. DEFINE f == [k \in 0..0 |-> b]
  <2>1. f = [k \in 0..0 |-> IF k = 0 THEN b ELSE BS_WriteBit(f[k - 1], bits[k])]
    OBVIOUS
  <2>2. Writes1(f, b, bits, 0)
    <3>. HIDE DEF f
    <3>. QED  BY <2>1, Zenon DEF Writes1
  <2>. QED  BY <2>2
<1>2. ASSUME NEW n \in Nat, n \in S PROVE n + 1 \in S
  <2>1. PICK f : Writes1(f, b, bits, n)
    BY <1>2
  <2>. DEFINE g == [k \in 0..n + 1 |-> IF k = n + 1 THEN BS_WriteBit(f[n], bits[k]) ELSE f[k]]
  <2>2. \A k \in 0..n : f[k] = IF k = 0 THEN b ELSE BS_WriteBit(f[k - 1], bits[k])
    BY <2>1, Zenon DEF Writes1
  <2>3. ASSUME NEW k \in 0..n + 1
        PROVE  g[k] = IF k = 0 THEN b ELSE BS_WriteBit(g[k - 1], bits[k])
    <3>1. CASE k = n + 1
      <4>1. k # 0 /\ k - 1 = n /\ n \in 0..n + 1 /\ n # n + 1
        BY <3>1
      <4>2. g[k] = BS_WriteBit(f[n], bits[k])
        BY <3>1, Zenon
      <4>3. g[n] = f[n]
        BY <4>1, Zenon
      <4>. QED  BY <4>1, <4>2, <4>3, Zenon
    <3>2. CASE k # n + 1 /\ k # 0
      <4>1. k \in 0..n /\ k - 1 \in 0..n + 1 /\ k - 1 # n + 1
        BY <3>2
      <4>2. g[k] = f[k] /\ g[k - 1] = f[k - 1]
        BY <3>2, <4>1, Zenon
      <4>. QED  BY <2>2, <3>2, <4>1, <4>2, Zenon
    <3>3. CASE k = 0
      <4>1. k \in 0..n /\ k # n + 1
        BY <3>3
      <4>2. g[k] = f[k]
        BY <4>1, Zenon
      <4>. QED  BY <2>2, <3>3, <4>1, <4>2, Zenon
    <3>. QED  BY <3>1, <3>2, <3>3
  <2>4. g = [k \in 0..n + 1 |-> g[k]]
    BY Zenon
  <2>. HIDE DEF g
  <2>5. Writes1(g, b, bits, n + 1)
    BY <2>3, <2>4, Zenon DEF Writes1
  <2>. QED  BY <2>5
<1>3. \E f : Writes1(f, b, bits, Len(bits))
  <2>1. Nat \subseteq S
    <3>. HIDE DEF S
    <3>. QED  BY <1>1, <1>2, SetInduction
  <2>. QED  BY <2>1
<1>. DEFINE n == Len(bits)
            Is(f) == f = [k \in 0..n |-> IF k = 0 THEN b ELSE BS_WriteBit(f[k - 1], bits[k])]
            h == CHOOSE f : Is(f)
<1>4. gf_bs_write_int(b, bits) = h[n]
  BY Zenon DEF gf_bs_write_int
<1>5. \E f : Is(f)
  BY <1>3, Zenon DEF Writes1
<1>6. Is(h)
  <2>. HIDE DEF Is
  <2>. QED  BY <1>5, Zenon
<1>. HIDE DEF h
<1>7. \A k \in 0..n : h[k] = IF k = 0 THEN b ELSE BS_WriteBit(h[k - 1], bits[k])
  BY <1>6, Zenon
<1>8. h[0] = b /\ \A k \in 1..n : h[k] = BS_WriteBit(h[k - 1], bits[k])
  <2>. HIDE DEF n
  <2>1. n \in Nat
    BY DEF n
  <2>. QED  BY <1>7, <2>1
<1>. QED  BY <1>4, <1>8

-----------------------------------------------------------------------------
(* Reading.                                                                    *)

(* The parts of a stream.                                                      *)
LEMMA BitParts ==
  ASSUME NEW b \in BitStreams
  PROVE  /\ b = [mode |-> b.mode, bits |-> b.bits, size |-> b.size, position |-> b.position,
                 current |-> b.current, nbBits |-> b.nbBits, eof |-> b.eof]
         /\ b.mode \in BitModes /\ b.bits \in Seq(Bits) /\ b.size \in Nat /\ b.position \in Nat
         /\ b.current \in Seq(Bits) /\ b.nbBits \in 0..8 /\ b.eof \in BOOLEAN
  BY DEF BitStreams

LEMMA SameBits ==
  ASSUME NEW b \in BitStreams, NEW c \in BitStreams, b.mode = c.mode, b.bits = c.bits,
         b.size = c.size, b.position = c.position, b.current = c.current, b.nbBits = c.nbBits,
         b.eof = c.eof
  PROVE  b = c
<1>1. b = [mode |-> b.mode, bits |-> b.bits, size |-> b.size, position |-> b.position,
           current |-> b.current, nbBits |-> b.nbBits, eof |-> b.eof]
  BY BitParts
<1>2. c = [mode |-> c.mode, bits |-> c.bits, size |-> c.size, position |-> c.position,
           current |-> c.current, nbBits |-> c.nbBits, eof |-> c.eof]
  BY BitParts
<1>. QED  BY <1>1, <1>2, Zenon

(* Some equal bits.                                                            *)
LEMMA AlikeBits ==
  ASSUME NEW n \in Nat
  PROVE  /\ Zeros(n) \in Seq(Bits) /\ Len(Zeros(n)) = n /\ \A i \in 1..n : Zeros(n)[i] = 0
         /\ Ones(n) \in Seq(Bits) /\ Len(Ones(n)) = n /\ \A i \in 1..n : Ones(n)[i] = 1
<1>1. Zeros(n) \in Seq(Bits) /\ Len(Zeros(n)) = n /\ \A i \in 1..n : Zeros(n)[i] = 0
  BY DEF Zeros, Bits
<1>2. Ones(n) \in Seq(Bits) /\ Len(Ones(n)) = n /\ \A i \in 1..n : Ones(n)[i] = 1
  BY DEF Ones, Bits
<1>. QED  BY <1>1, <1>2

(* A byte of a stream.                                                         *)
LEMMA ByteIs ==
  ASSUME NEW b \in BitStreams, NEW k \in Nat, BytesOf(k + 1) <= Len(b.bits)
  PROVE  /\ ByteAt(b, k) \in Seq(Bits) /\ Len(ByteAt(b, k)) = 8
         /\ \A i \in 1..8 : ByteAt(b, k)[i] = b.bits[BytesOf(k) + i]
<1>. DEFINE m == 8 * k + 1
            n == 8 * (k + 1)
<1>1. b.bits \in Seq(Bits) /\ Len(b.bits) \in Nat
  BY BitParts
<1>2. m \in 1..Len(b.bits) /\ n \in 1..Len(b.bits) /\ n - m + 1 = 8 /\ m <= n /\ n <= Len(b.bits)
  BY <1>1 DEF BytesOf
<1>3. ByteAt(b, k) = SubSeq(b.bits, m, n)
  BY DEF ByteAt, BytesOf
<1>. HIDE DEF m, n
<1>4. /\ SubSeq(b.bits, m, n) \in Seq(Bits) /\ Len(SubSeq(b.bits, m, n)) = n - m + 1
      /\ \A i \in 1..n - m + 1 : SubSeq(b.bits, m, n)[i] = b.bits[m + i - 1]
  BY <1>1, <1>2, SubSeqProperties
<1>5. \A i \in 1..8 : m + i - 1 = BytesOf(k) + i
  BY DEF BytesOf, m
<1>. QED  BY <1>2, <1>3, <1>4, <1>5

(* A stream put together.                                                      *)
StreamOf(mode, bits, size, position, current, nbBits, eof) ==
  [mode |-> mode, bits |-> bits, size |-> size, position |-> position, current |-> current,
   nbBits |-> nbBits, eof |-> eof]

LEMMA StreamParts ==
  ASSUME NEW mode \in BitModes, NEW bits \in Seq(Bits), NEW size \in Nat, NEW position \in Nat,
         NEW current \in Seq(Bits), NEW nbBits \in 0..8, NEW eof \in BOOLEAN,
         NEW b, b = StreamOf(mode, bits, size, position, current, nbBits, eof)
  PROVE  /\ b \in BitStreams /\ b.mode = mode /\ b.bits = bits /\ b.size = size
         /\ b.position = position /\ b.current = current /\ b.nbBits = nbBits /\ b.eof = eof
  BY DEF StreamOf, BitStreams

(* What BS_ReadByte makes the next byte.                                       *)
LEMMA ReadByteIs ==
  ASSUME NEW b, NEW t, Reader(b, t), NEW c, c = BS_ReadByte(b)
  PROVE  /\ c \in BitStreams /\ c.mode = b.mode /\ c.bits = b.bits /\ c.size = b.size
         /\ c.nbBits = 0 /\ Len(c.current) = 8
         /\ b.position < b.size => /\ c.current = ByteAt(b, b.position) /\ c.eof = FALSE
                                   /\ c.position = b.position + 1
         /\ b.position >= b.size /\ b.mode = "file_read" /\ ~b.eof =>
              c.position = b.position + 1 /\ c.eof = TRUE /\ c.current = Ones(8)
         /\ b.position >= b.size /\ (b.mode = "read" \/ b.eof) =>
              c.position = b.position /\ c.eof = b.eof /\ c.current = Zeros(8)
<1>1. /\ b \in BitStreams /\ b.mode \in {"read", "file_read"} /\ Len(b.bits) = 8 * b.size
      /\ b.mode = "read" => ~b.eof
      /\ b.eof => b.position > b.size
  BY DEF Reader, Reads, BytesOf
<1>11. b = [mode |-> b.mode, bits |-> b.bits, size |-> b.size, position |-> b.position,
            current |-> b.current, nbBits |-> b.nbBits, eof |-> b.eof]
  BY <1>1, BitParts
<1>2. /\ b.bits \in Seq(Bits) /\ b.size \in Nat /\ b.position \in Nat /\ b.eof \in BOOLEAN
      /\ b.current \in Seq(Bits) /\ b.nbBits \in 0..8 /\ b.mode \in BitModes
  BY <1>1, BitParts
<1>3. (BytesOf(b.position) < Len(b.bits) /\ ~b.eof) <=> b.position < b.size
  BY <1>1, <1>2 DEF BytesOf
<1>4. InAFile(b) <=> b.mode = "file_read"
  BY <1>1 DEF InAFile
<1>5. Zeros(8) \in Seq(Bits) /\ Len(Zeros(8)) = 8 /\ Ones(8) \in Seq(Bits) /\ Len(Ones(8)) = 8
  BY AlikeBits
<1>6. CASE b.position < b.size
  <2>1. c = [b EXCEPT !.current = ByteAt(b, b.position), !.position = @ + 1, !.nbBits = 0]
    BY <1>3, <1>6 DEF BS_ReadByte
  <2>2. ByteAt(b, b.position) \in Seq(Bits) /\ Len(ByteAt(b, b.position)) = 8
    <3>1. BytesOf(b.position + 1) <= Len(b.bits)
      BY <1>1, <1>2, <1>6 DEF BytesOf
    <3>. QED  BY <1>1, <1>2, <3>1, ByteIs
  <2>3. b.eof = FALSE
    BY <1>1, <1>2, <1>6
  <2>. DEFINE x == ByteAt(b, b.position)
  <2>. HIDE DEF x
  <2>4. c = StreamOf(b.mode, b.bits, b.size, b.position + 1, x, 0, FALSE)
    BY <1>11, <2>1, <2>3 DEF StreamOf, x
  <2>5. /\ b.position + 1 \in Nat /\ x \in Seq(Bits) /\ Len(x) = 8 /\ 0 \in 0..8
        /\ TRUE \in BOOLEAN /\ FALSE \in BOOLEAN
    BY <1>2, <2>2 DEF x
  <2>6. c \in BitStreams /\ c.mode = b.mode /\ c.bits = b.bits /\ c.size = b.size
        /\ c.nbBits = 0 /\ c.current = x /\ c.position = b.position + 1 /\ c.eof = FALSE
    <3>1. c.mode = b.mode /\ c.bits = b.bits /\ c.size = b.size /\ c.nbBits = 0 /\ c.current = x
      BY <2>4 DEF StreamOf
    <3>2. c.position = b.position + 1 /\ c.eof = FALSE
      BY <2>4 DEF StreamOf
    <3>3. c \in BitStreams
      BY <1>2, <2>4, <2>5 DEF StreamOf, BitStreams
    <3>. QED  BY <3>1, <3>2, <3>3
  <2>. QED  BY <1>2, <1>6, <2>5, <2>6 DEF x
<1>7. CASE b.position >= b.size /\ b.mode = "file_read" /\ ~b.eof
  <2>1. c = [b EXCEPT !.current = Ones(8), !.position = @ + 1, !.nbBits = 0, !.eof = TRUE]
    BY <1>2, <1>3, <1>4, <1>7 DEF BS_ReadByte
  <2>. DEFINE x == Ones(8)
  <2>. HIDE DEF x
  <2>4. c = StreamOf(b.mode, b.bits, b.size, b.position + 1, x, 0, TRUE)
    BY <1>11, <2>1 DEF StreamOf, x
  <2>5. /\ b.position + 1 \in Nat /\ x \in Seq(Bits) /\ Len(x) = 8 /\ 0 \in 0..8
        /\ TRUE \in BOOLEAN /\ FALSE \in BOOLEAN
    BY <1>2, <1>5 DEF x
  <2>6. c \in BitStreams /\ c.mode = b.mode /\ c.bits = b.bits /\ c.size = b.size
        /\ c.nbBits = 0 /\ c.current = x /\ c.position = b.position + 1 /\ c.eof = TRUE
    <3>1. c.mode = b.mode /\ c.bits = b.bits /\ c.size = b.size /\ c.nbBits = 0 /\ c.current = x
      BY <2>4 DEF StreamOf
    <3>2. c.position = b.position + 1 /\ c.eof = TRUE
      BY <2>4 DEF StreamOf
    <3>3. c \in BitStreams
      BY <1>2, <2>4, <2>5 DEF StreamOf, BitStreams
    <3>. QED  BY <3>1, <3>2, <3>3
  <2>7. ~(b.position < b.size) /\ ~(b.mode = "read" \/ b.eof)
    BY <1>2, <1>7
  <2>. QED  BY <2>5, <2>6, <2>7 DEF x
<1>8. CASE b.position >= b.size /\ (b.mode = "read" \/ b.eof)
  <2>1. c = [b EXCEPT !.current = Zeros(8), !.nbBits = 0]
    BY <1>1, <1>2, <1>3, <1>4, <1>8 DEF BS_ReadByte
  <2>. DEFINE x == Zeros(8)
  <2>. HIDE DEF x
  <2>4. c = StreamOf(b.mode, b.bits, b.size, b.position, x, 0, b.eof)
    BY <1>11, <2>1 DEF StreamOf, x
  <2>5. x \in Seq(Bits) /\ Len(x) = 8 /\ 0 \in 0..8
    BY <1>2, <1>5 DEF x
  <2>6. c \in BitStreams /\ c.mode = b.mode /\ c.bits = b.bits /\ c.size = b.size
        /\ c.nbBits = 0 /\ c.current = x /\ c.position = b.position /\ c.eof = b.eof
    <3>1. c.mode = b.mode /\ c.bits = b.bits /\ c.size = b.size /\ c.nbBits = 0 /\ c.current = x
      BY <2>4 DEF StreamOf
    <3>2. c.position = b.position /\ c.eof = b.eof
      BY <2>4 DEF StreamOf
    <3>3. c \in BitStreams
      BY <1>2, <2>4, <2>5 DEF StreamOf, BitStreams
    <3>. QED  BY <3>1, <3>2, <3>3
  <2>7. ~(b.position < b.size) /\ ~(b.mode = "file_read" /\ ~b.eof)
    BY <1>1, <1>2, <1>8
  <2>. QED  BY <2>5, <2>6, <2>7 DEF x
<1>9. b.position < b.size \/ (b.position >= b.size /\ b.mode = "file_read" /\ ~b.eof)
      \/ (b.position >= b.size /\ (b.mode = "read" \/ b.eof))
  BY <1>1, <1>2
<1>. QED  BY <1>6, <1>7, <1>8, <1>9

(* The bits before there are only zeros: of the byte, of the bytes that        *)
(* follow, and the ones the end of a file reads as.                            *)
Ahead(b) ==
  8 - b.nbBits + BytesOf(IF b.position < b.size THEN b.size - b.position ELSE 0)
  + (IF b.mode = "file_read" /\ ~b.eof THEN 8 ELSE 0)

(* The bit that is read at a place.                                            *)
BitAt(b, t, p, bit) ==
  bit = IF p + 1 <= Len(t) THEN t[p + 1] ELSE IF b.mode = "read" THEN 0 ELSE bit

(* The byte a bit is read from, the stream behind the bit, and the bit.        *)
ByteOfBit(b) == IF b.nbBits = 8 THEN BS_ReadByte(b) ELSE b
BehindBit(b) == [ByteOfBit(b) EXCEPT !.nbBits = @ + 1]
NextBit(b) == ByteOfBit(b).current[ByteOfBit(b).nbBits + 1]

LEMMA NextBitIs ==
  ASSUME NEW b, NEW t, Reader(b, t)
  PROVE  /\ Reader(BehindBit(b), t) /\ BehindBit(b).mode = b.mode /\ NextBit(b) \in Bits
         /\ b.mode = "read" /\ b.position >= b.size => BehindBit(b).position = b.position
         /\ Ahead(b) = 0 => NextBit(b) = 0
         /\ Ahead(b) > 0 => Ahead(BehindBit(b)) = Ahead(b) - 1
         /\ \A p : ReaderAt(b, t, p) => /\ ReaderAt(BehindBit(b), t, p + 1)
                                        /\ BitAt(b, t, p, NextBit(b))
<1>. DEFINE c == ByteOfBit(b)
            d == BehindBit(b)
            bit == NextBit(b)
<1>2. /\ b \in BitStreams /\ b.mode \in {"read", "file_read"} /\ Len(t) = 8 * b.size /\ b.bits = t
      /\ b.nbBits \in 1..8 /\ (b.nbBits < 8 => Len(b.current) = 8)
      /\ b.mode = "read" => ~b.eof
      /\ b.eof => b.position > b.size
  BY DEF Reader, Reads, BytesOf
<1>3. b.size \in Nat /\ b.position \in Nat /\ b.eof \in BOOLEAN
  BY <1>2, BitParts
<1>31. b.mode \in {"read", "file_read"} /\ b.nbBits \in 1..8
  BY <1>2
<1>. HIDE DEF c, d, bit
<1>41. ASSUME b.nbBits = 8 PROVE c = BS_ReadByte(b)
  BY <1>41 DEF c, ByteOfBit
<1>42. b.nbBits # 8 => c = b
  BY DEF c, ByteOfBit
<1>43. /\ c \in BitStreams /\ c.mode = b.mode /\ c.bits = b.bits /\ c.size = b.size
       /\ c.nbBits = (IF b.nbBits = 8 THEN 0 ELSE b.nbBits) /\ Len(c.current) = 8
  <2>1. CASE b.nbBits = 8
    <3>1. c = BS_ReadByte(b)
      BY <1>41, <2>1
    <3>. QED  BY <2>1, <3>1, ReadByteIs
  <2>2. CASE b.nbBits # 8
    BY <1>2, <1>42, <2>2
  <2>. QED  BY <2>1, <2>2
<1>44. b.nbBits = 8 /\ b.position < b.size =>
         c.current = ByteAt(b, b.position) /\ c.eof = FALSE /\ c.position = b.position + 1
  BY <1>41, ReadByteIs
<1>45. b.nbBits = 8 /\ b.position >= b.size /\ b.mode = "file_read" /\ ~b.eof =>
         c.position = b.position + 1 /\ c.eof = TRUE /\ c.current = Ones(8)
  BY <1>41, ReadByteIs
<1>46. b.nbBits = 8 /\ b.position >= b.size /\ (b.mode = "read" \/ b.eof) =>
         c.position = b.position /\ c.eof = b.eof /\ c.current = Zeros(8)
  BY <1>41, ReadByteIs
<1>5. /\ c.mode \in BitModes /\ c.bits \in Seq(Bits) /\ c.size \in Nat /\ c.position \in Nat
      /\ c.current \in Seq(Bits) /\ c.nbBits \in 0..7 /\ c.eof \in BOOLEAN
  BY <1>2, <1>43, BitParts
<1>6. /\ d \in BitStreams /\ d.mode = b.mode /\ d.bits = t /\ d.size = b.size
      /\ d.nbBits = c.nbBits + 1 /\ d.position = c.position /\ d.current = c.current
      /\ d.eof = c.eof
  <2>1. d = StreamOf(c.mode, c.bits, c.size, c.position, c.current, c.nbBits + 1, c.eof)
    BY <1>43, BitParts DEF StreamOf, c, d, BehindBit
  <2>2. c.nbBits + 1 \in 0..8
    BY <1>5
  <2>3. /\ d \in BitStreams /\ d.mode = c.mode /\ d.bits = c.bits /\ d.size = c.size
        /\ d.nbBits = c.nbBits + 1 /\ d.position = c.position /\ d.current = c.current
        /\ d.eof = c.eof
    <3>1. /\ d.mode = c.mode /\ d.bits = c.bits /\ d.size = c.size
          /\ d.nbBits = c.nbBits + 1 /\ d.position = c.position /\ d.current = c.current
          /\ d.eof = c.eof
      BY <2>1 DEF StreamOf
    <3>2. d \in BitStreams
      BY <1>5, <2>1, <2>2 DEF StreamOf, BitStreams
    <3>. QED  BY <3>1, <3>2
  <2>. QED  BY <1>2, <1>43, <2>3
<1>7. bit \in Bits /\ bit = c.current[c.nbBits + 1]
  BY <1>43, <1>5 DEF c, bit, NextBit
<1>9. Reader(d, t)
  <2>1. Reads(d) /\ Len(t) = BytesOf(d.size)
    BY <1>2, <1>6 DEF Reads, BytesOf
  <2>2. (d.mode = "read" => ~d.eof) /\ (d.eof => d.position > d.size)
    <3>1. (b.mode = "read" => ~b.eof) /\ (b.eof => b.position > b.size)
      BY <1>2
    <3>2. CASE b.nbBits # 8
      BY <1>42, <1>6, <3>1, <3>2
    <3>3. CASE b.nbBits = 8 /\ b.position < b.size
      BY <1>44, <1>6, <3>3
    <3>4. CASE b.nbBits = 8 /\ b.position >= b.size /\ b.mode = "file_read" /\ ~b.eof
      BY <1>3, <1>45, <1>6, <3>4
    <3>5. CASE b.nbBits = 8 /\ b.position >= b.size /\ (b.mode = "read" \/ b.eof)
      BY <1>46, <1>6, <3>1, <3>5
    <3>. QED  BY <1>3, <1>31, <3>2, <3>3, <3>4, <3>5
  <2>4. d.nbBits \in 1..8 /\ Len(d.current) = 8
    BY <1>43, <1>5, <1>6
  <2>. QED  BY <1>6, <2>1, <2>2, <2>4 DEF Reader
<1>10. b.mode = "read" /\ b.position >= b.size => d.position = b.position
  <2>1. CASE b.nbBits # 8
    BY <1>42, <1>6, <2>1
  <2>2. CASE b.nbBits = 8
    BY <1>46, <1>6, <2>2
  <2>. QED  BY <2>1, <2>2
<1>11. /\ Ahead(b) = 0 => bit = 0
       /\ Ahead(b) > 0 => Ahead(d) = Ahead(b) - 1
  <2>1. CASE b.nbBits # 8
    <3>1. /\ d.nbBits = b.nbBits + 1 /\ d.position = b.position /\ d.eof = b.eof
          /\ d.size = b.size /\ d.mode = b.mode
      BY <1>42, <1>6, <2>1
    <3>2. b.nbBits \in 1..7
      BY <1>31, <2>1
    <3>. QED  BY <1>3, <3>1, <3>2 DEF Ahead, BytesOf
  <2>2. CASE b.nbBits = 8 /\ b.position < b.size
    <3>1. ~b.eof
      BY <1>2, <1>3, <2>2
    <3>2. /\ d.nbBits = 1 /\ d.position = b.position + 1 /\ ~d.eof
          /\ d.size = b.size /\ d.mode = b.mode
      BY <1>43, <1>44, <1>6, <2>2
    <3>. QED  BY <1>3, <2>2, <3>1, <3>2 DEF Ahead, BytesOf
  <2>3. CASE b.nbBits = 8 /\ b.position >= b.size /\ b.mode = "file_read" /\ ~b.eof
    <3>1. /\ d.nbBits = 1 /\ d.position = b.position + 1 /\ d.eof
          /\ d.size = b.size /\ d.mode = b.mode
      BY <1>43, <1>45, <1>6, <2>3
    <3>. QED  BY <1>3, <2>3, <3>1 DEF Ahead, BytesOf
  <2>4. CASE b.nbBits = 8 /\ b.position >= b.size /\ (b.mode = "read" \/ b.eof)
    <3>1. Ahead(b) = 0
      BY <1>3, <2>4 DEF Ahead, BytesOf
    <3>2. bit = 0
      <4>1. c.current = Zeros(8) /\ c.nbBits + 1 \in 1..8
        BY <1>43, <1>46, <1>5, <2>4
      <4>2. \A i \in 1..8 : Zeros(8)[i] = 0
        BY AlikeBits
      <4>. QED  BY <1>7, <4>1, <4>2
    <3>. QED  BY <3>1, <3>2
  <2>. QED  BY <1>3, <1>31, <2>1, <2>2, <2>3, <2>4
<1>12. ASSUME NEW p, ReaderAt(b, t, p)
       PROVE  ReaderAt(d, t, p + 1) /\ BitAt(b, t, p, bit)
  <2>1. p \in Nat /\ (Here(b, p) \/ Past(b, p)) /\ Len(t) \in Nat
    BY <1>12 DEF ReaderAt
  <2>2. CASE Here(b, p) /\ b.nbBits < 8
    <3>1. /\ p = 8 * b.position - 8 + b.nbBits /\ ~b.eof /\ b.position \in 1..b.size
          /\ b.current = ByteAt(b, b.position - 1) /\ b.nbBits \in 1..7
      BY <1>2, <2>2 DEF Here, BytesOf
    <3>2. c.position = b.position /\ c.nbBits = b.nbBits /\ c.current = b.current /\ c.eof = b.eof
      BY <1>42, <3>1
    <3>3. Here(d, p + 1)
      <4>1. p + 1 = BytesOf(d.position) - 8 + d.nbBits
        BY <1>3, <1>6, <3>1, <3>2 DEF BytesOf
      <4>2. d.position \in 1..d.size /\ d.current = ByteAt(d, d.position - 1) /\ ~d.eof
        BY <1>2, <1>6, <3>1, <3>2 DEF ByteAt
      <4>. QED  BY <4>1, <4>2 DEF Here
    <3>4. bit = t[p + 1] /\ p + 1 <= Len(t)
      <4>1. /\ b.position - 1 \in Nat /\ BytesOf(b.position - 1 + 1) <= Len(b.bits)
            /\ b.nbBits + 1 \in 1..8 /\ BytesOf(b.position - 1) + (b.nbBits + 1) = p + 1
            /\ p + 1 <= Len(t)
        <5>1. Len(b.bits) = 8 * b.size /\ Len(t) = 8 * b.size
          BY <1>2
        <5>2. b.position \in Int /\ b.size \in Int /\ b.nbBits \in Int /\ b.position >= 1
              /\ b.position <= b.size /\ b.nbBits >= 1 /\ b.nbBits <= 7
          BY <1>3, <3>1
        <5>3. b.position - 1 \in Nat /\ b.position - 1 + 1 = b.position /\ b.nbBits + 1 \in 1..8
          BY <5>2
        <5>4. 8 * b.position <= 8 * b.size /\ p + 1 <= 8 * b.size
          BY <3>1, <5>2
        <5>5. 8 * (b.position - 1) + (b.nbBits + 1) = p + 1
          BY <3>1, <5>2
        <5>. QED  BY <5>1, <5>3, <5>4, <5>5 DEF BytesOf
      <4>2. bit = ByteAt(b, b.position - 1)[b.nbBits + 1]
        BY <1>7, <3>1, <3>2
      <4>3. ByteAt(b, b.position - 1)[b.nbBits + 1] = b.bits[BytesOf(b.position - 1) + (b.nbBits + 1)]
        BY <1>2, <4>1, ByteIs
      <4>. QED  BY <1>2, <4>1, <4>2, <4>3
    <3>. QED  BY <1>9, <2>1, <3>3, <3>4 DEF ReaderAt, BitAt
  <2>3. CASE Here(b, p) /\ b.nbBits = 8 /\ b.position < b.size
    <3>1. p = 8 * b.position /\ ~b.eof
      BY <1>3, <2>3 DEF Here, BytesOf
    <3>2. /\ c.current = ByteAt(b, b.position) /\ ~c.eof /\ c.position = b.position + 1
          /\ c.nbBits = 0
      BY <1>43, <1>44, <2>3
    <3>3. Here(d, p + 1)
      <4>1. p + 1 = BytesOf(d.position) - 8 + d.nbBits
        BY <1>3, <1>6, <3>1, <3>2 DEF BytesOf
      <4>2. d.position \in 1..d.size /\ d.current = ByteAt(d, d.position - 1) /\ ~d.eof
        <5>1. d.position \in 1..d.size /\ ~d.eof
          BY <1>3, <1>6, <2>3, <3>2
        <5>2. b.position + 1 - 1 = b.position /\ d.bits = b.bits
          BY <1>2, <1>3, <1>6
        <5>3. ByteAt(d, d.position - 1) = ByteAt(b, b.position)
          <6>1. d.position - 1 = b.position
            BY <1>3, <1>6, <3>2
          <6>. QED  BY <5>2, <6>1 DEF ByteAt
        <5>. QED  BY <1>6, <3>2, <5>1, <5>3
      <4>. QED  BY <4>1, <4>2 DEF Here
    <3>4. bit = t[p + 1] /\ p + 1 <= Len(t)
      <4>1. /\ BytesOf(b.position + 1) <= Len(b.bits)
            /\ BytesOf(b.position) + 1 = p + 1 /\ p + 1 <= Len(t) /\ 1 \in 1..8
        BY <1>2, <1>3, <2>3, <3>1 DEF BytesOf
      <4>2. bit = ByteAt(b, b.position)[1]
        BY <1>7, <3>2
      <4>3. ByteAt(b, b.position)[1] = b.bits[BytesOf(b.position) + 1]
        BY <1>2, <1>3, <4>1, ByteIs
      <4>. QED  BY <1>2, <4>1, <4>2, <4>3
    <3>. QED  BY <1>9, <2>1, <3>3, <3>4 DEF ReaderAt, BitAt
  <2>4. CASE (Here(b, p) /\ b.nbBits = 8 /\ b.position >= b.size) \/ (Past(b, p) /\ b.nbBits = 8)
    <3>1. p >= Len(t) /\ b.position >= b.size /\ b.nbBits = 8
      BY <1>2, <1>3, <2>1, <2>4 DEF Here, Past, BytesOf
    <3>2. p + 1 > Len(t)
      BY <2>1, <3>1
    <3>3. CASE b.mode = "read"
      <4>1. c.position = b.position /\ c.current = Zeros(8) /\ c.nbBits = 0
        BY <1>43, <1>46, <3>1, <3>3
      <4>2. bit = 0
        <5>1. 1 \in 1..8
          OBVIOUS
        <5>. QED  BY <1>7, <4>1, <5>1, AlikeBits
      <4>3. Past(d, p + 1)
        BY <1>6, <3>1, <3>2, <3>3, <4>1 DEF Past
      <4>. QED  BY <1>9, <2>1, <3>2, <3>3, <4>2, <4>3 DEF ReaderAt, BitAt
    <3>4. CASE b.mode = "file_read"
      <4>1. c.eof /\ c.position >= b.position
        <5>1. CASE b.eof
          <6>1. c.position = b.position /\ c.eof = b.eof
            BY <1>46, <3>1, <5>1
          <6>. QED  BY <1>3, <5>1, <6>1
        <5>2. CASE ~b.eof
          BY <1>3, <1>45, <3>1, <3>4, <5>2
        <5>. QED  BY <5>1, <5>2
      <4>2. Past(d, p + 1)
        BY <1>3, <1>5, <1>6, <3>1, <3>2, <3>4, <4>1 DEF Past
      <4>. QED  BY <1>9, <2>1, <3>2, <3>4, <4>2 DEF ReaderAt, BitAt
    <3>. QED  BY <1>2, <3>3, <3>4
  <2>5. CASE Past(b, p) /\ b.nbBits < 8
    <3>1. /\ c.position = b.position /\ c.nbBits = b.nbBits /\ c.current = b.current
          /\ c.eof = b.eof /\ p > Len(t) /\ b.position >= b.size
      BY <1>2, <1>42, <2>5 DEF Past
    <3>2. p + 1 > Len(t)
      BY <2>1, <3>1
    <3>3. Past(d, p + 1)
      BY <1>6, <2>5, <3>1, <3>2 DEF Past
    <3>4. b.mode = "read" => bit = 0
      <4>1. ASSUME b.mode = "read" PROVE bit = 0
        <5>1. c.current = Zeros(8) /\ c.nbBits + 1 \in 1..8
          BY <1>43, <1>5, <2>5, <3>1, <4>1 DEF Past
        <5>2. \A i \in 1..8 : Zeros(8)[i] = 0
          BY AlikeBits
        <5>. QED  BY <1>7, <5>1, <5>2
      <4>. QED  BY <4>1
    <3>. QED  BY <1>9, <2>1, <3>2, <3>3, <3>4 DEF ReaderAt, BitAt
  <2>. QED  BY <1>3, <1>31, <2>1, <2>2, <2>3, <2>4, <2>5
<1>. QED  BY <1>6, <1>7, <1>9, <1>10, <1>11, <1>12 DEF d, bit

LEMMA ReadBitIs ==
  ASSUME NEW r
  PROVE  gf_bs_read_bit(r) = [bs |-> BehindBit(r.bs), value |-> Append(r.value, NextBit(r.bs))]
  BY DEF gf_bs_read_bit, BehindBit, NextBit, ByteOfBit

(* Bits that are what the tape says from a place on.                           *)
TapeSays(mode, t, p, value) ==
  \A i \in 1..Len(value) :
    value[i] = IF p + i <= Len(t) THEN t[p + i] ELSE IF mode = "read" THEN 0 ELSE value[i]

ReadOn(b, t, n, r) ==
  /\ Reader(r.bs, t) /\ r.bs.mode = b.mode /\ r.value \in Seq(Bits) /\ Len(r.value) = n
  /\ b.mode = "read" /\ b.position >= b.size => r.bs.position = b.position
  /\ n <= Ahead(b) => Ahead(r.bs) = Ahead(b) - n
  /\ \A p : ReaderAt(b, t, p) => ReaderAt(r.bs, t, p + n) /\ TapeSays(b.mode, t, p, r.value)

LEMMA AheadIs ==
  ASSUME NEW b, NEW t, Reader(b, t)
  PROVE  Ahead(b) \in Nat
<1>1. b.nbBits \in 1..8 /\ b \in BitStreams
  BY DEF Reader
<1>2. b.size \in Nat /\ b.position \in Nat
  BY <1>1, BitParts
<1>. DEFINE m == IF b.position < b.size THEN b.size - b.position ELSE 0
            n == IF b.mode = "file_read" /\ ~b.eof THEN 8 ELSE 0
<1>3. m \in Nat /\ n \in Nat
  BY <1>2
<1>4. Ahead(b) = 8 - b.nbBits + 8 * m + n
  BY DEF Ahead, BytesOf
<1>. HIDE DEF m, n
<1>. QED  BY <1>1, <1>3, <1>4

(* Reading some bits.                                                          *)
LEMMA ReadIntIs ==
  ASSUME NEW b, NEW t, Reader(b, t), NEW n \in Nat
  PROVE  ReadOn(b, t, n, gf_bs_read_int(b, n))
<1>. DEFINE S == {k \in Nat : ReadOn(b, t, k, gf_bs_read_int(b, k))}
<1>1. Ahead(b) \in Nat
  BY AheadIs
<1>2. 0 \in S
  <2>. DEFINE r == gf_bs_read_int(b, 0)
  <2>1. r.bs = b /\ r.value = <<>>
    BY ReadingIs
  <2>. HIDE DEF r
  <2>2. \A p : ReaderAt(b, t, p) => p + 0 = p
    BY DEF ReaderAt
  <2>3. \A p : TapeSays(b.mode, t, p, r.value)
    BY <2>1 DEF TapeSays
  <2>4. r.value \in Seq(Bits) /\ Len(r.value) = 0
    BY <2>1
  <2>5. ReadOn(b, t, 0, r)
    BY <1>1, <2>1, <2>2, <2>3, <2>4 DEF ReadOn
  <2>. QED  BY <2>5 DEF r
<1>3. ASSUME NEW k \in Nat, k \in S PROVE k + 1 \in S
  <2>. DEFINE r == gf_bs_read_int(b, k)
              s == gf_bs_read_int(b, k + 1)
              bit == NextBit(r.bs)
              d == BehindBit(r.bs)
  <2>1. ReadOn(b, t, k, r)
    BY <1>3
  <2>2. s.bs = d /\ s.value = Append(r.value, bit)
    <3>1. s = gf_bs_read_bit(r)
      BY <1>3, ReadingIs
    <3>2. gf_bs_read_bit(r) = [bs |-> d, value |-> Append(r.value, bit)]
      BY ReadBitIs
    <3>. QED  BY <3>1, <3>2
  <2>. HIDE DEF r, s, bit, d
  <2>3. /\ Reader(r.bs, t) /\ r.bs.mode = b.mode /\ r.value \in Seq(Bits) /\ Len(r.value) = k
    BY <2>1 DEF ReadOn
  <2>4. Reader(d, t) /\ d.mode = b.mode /\ bit \in Bits
    BY <2>3, NextBitIs DEF d, bit
  <2>5. /\ s.value \in Seq(Bits) /\ Len(s.value) = k + 1 /\ s.value[k + 1] = bit
        /\ \A i \in 1..k : s.value[i] = r.value[i]
    BY <2>2, <2>3, <2>4, AppendProperties
  <2>6. ASSUME b.mode = "read", b.position >= b.size PROVE d.position = b.position
    <3>1. r.bs.position = b.position
      BY <2>1, <2>6 DEF ReadOn
    <3>2. r.bs.size = b.size
      <4>1. /\ b \in BitStreams /\ Len(t) = 8 * b.size
            /\ r.bs \in BitStreams /\ Len(t) = 8 * r.bs.size
        BY <2>3 DEF Reader, BytesOf
      <4>2. b.size \in Nat /\ r.bs.size \in Nat
        BY <4>1, BitParts
      <4>. QED  BY <4>1, <4>2
    <3>3. r.bs.mode = "read" /\ r.bs.position >= r.bs.size
      BY <2>3, <2>6, <3>1, <3>2
    <3>. QED  BY <2>3, <3>1, <3>3, NextBitIs DEF d
  <2>7. ASSUME k + 1 <= Ahead(b) PROVE Ahead(d) = Ahead(b) - (k + 1)
    <3>1. Ahead(r.bs) = Ahead(b) - k
      BY <1>1, <2>1, <2>7 DEF ReadOn
    <3>2. Ahead(r.bs) > 0
      BY <1>1, <2>7, <3>1
    <3>3. Ahead(d) = Ahead(r.bs) - 1
      BY <2>3, <3>2, NextBitIs DEF d
    <3>. QED  BY <1>1, <3>1, <3>3
  <2>8. ASSUME NEW p, ReaderAt(b, t, p)
        PROVE  ReaderAt(d, t, p + (k + 1)) /\ TapeSays(b.mode, t, p, s.value)
    <3>1. ReaderAt(r.bs, t, p + k) /\ TapeSays(b.mode, t, p, r.value)
      BY <2>1, <2>8 DEF ReadOn
    <3>2. p \in Nat
      BY <2>8 DEF ReaderAt
    <3>3. ReaderAt(d, t, p + k + 1) /\ BitAt(r.bs, t, p + k, bit)
      BY <2>3, <3>1, NextBitIs DEF d, bit
    <3>4. p + k + 1 = p + (k + 1)
      BY <3>2
    <3>5. bit = IF p + (k + 1) <= Len(t) THEN t[p + (k + 1)]
                ELSE IF b.mode = "read" THEN 0 ELSE bit
      BY <2>3, <3>3, <3>4 DEF BitAt
    <3>6. ASSUME NEW i \in 1..Len(s.value)
          PROVE  s.value[i] = IF p + i <= Len(t) THEN t[p + i]
                              ELSE IF b.mode = "read" THEN 0 ELSE s.value[i]
      <4>1. CASE i = k + 1
        BY <2>5, <3>5, <4>1
      <4>2. CASE i # k + 1
        <5>1. i \in 1..k
          BY <2>5, <4>2
        <5>2. r.value[i] = IF p + i <= Len(t) THEN t[p + i]
                           ELSE IF b.mode = "read" THEN 0 ELSE r.value[i]
          BY <2>3, <3>1, <5>1 DEF TapeSays
        <5>. QED  BY <2>5, <5>1, <5>2
      <4>. QED  BY <4>1, <4>2
    <3>. QED  BY <3>3, <3>4, <3>6 DEF TapeSays
  <2>9. ReadOn(b, t, k + 1, s)
    BY <2>2, <2>4, <2>5, <2>6, <2>7, <2>8 DEF ReadOn
  <2>. QED  BY <2>9 DEF s
<1>4. Nat \subseteq S
  <2>. HIDE DEF S
  <2>. QED  BY <1>2, <1>3, SetInduction
<1>. QED  BY <1>4

(* A run of ones ends.                                                         *)
LEMMA OnesEnd ==
  ASSUME NEW b, NEW t, NEW p, ReaderAt(b, t, p)
  PROVE  \E k \in 0..Len(b.bits) + 8 : gf_bs_read_int(b, k + 1).value = Append(Ones(k), 0)
<1>. DEFINE R(k) == gf_bs_read_int(b, k)
            Z == {k \in Nat : NextBit(R(k).bs) = 0}
            a == Ahead(b)
<1>1. Reader(b, t)
  BY DEF ReaderAt
<1>2. \A k \in Nat : ReadOn(b, t, k, R(k))
  BY <1>1, ReadIntIs
<1>3. \A k \in Nat : R(k + 1).value = Append(R(k).value, NextBit(R(k).bs))
  <2>1. \A k \in Nat : R(k + 1) = gf_bs_read_bit(R(k))
    BY ReadingIs
  <2>2. ASSUME NEW r PROVE gf_bs_read_bit(r).value = Append(r.value, NextBit(r.bs))
    BY ReadBitIs
  <2>. HIDE DEF R
  <2>. QED  BY <2>1, <2>2
<1>4. R(0).value = <<>>
  BY ReadingIs
<1>. HIDE DEF R
<1>5. a \in Nat
  BY <1>1, AheadIs
<1>6. a <= Len(b.bits) + 8
  <2>1. /\ b \in BitStreams /\ Len(b.bits) = 8 * b.size /\ b.nbBits \in 1..8 /\ Reads(b)
    BY <1>1 DEF Reader, BytesOf
  <2>2. b.size \in Nat /\ b.position \in Nat
    BY <2>1, BitParts
  <2>. DEFINE m == IF b.position < b.size THEN b.size - b.position ELSE 0
              n == IF b.mode = "file_read" /\ ~b.eof THEN 8 ELSE 0
  <2>3. a = 8 - b.nbBits + 8 * m + n /\ m \in Nat /\ n \in {0, 8} /\ m <= b.size
    BY <2>2 DEF Ahead, BytesOf
  <2>4. b.nbBits < 8 => (m = 0 /\ n = 0) \/ m <= b.size - 1
    <3>1. ASSUME b.nbBits < 8 PROVE (m = 0 /\ n = 0) \/ m <= b.size - 1
      <4>1. CASE Here(b, p)
        BY <2>2, <3>1, <4>1 DEF Here
      <4>2. CASE Past(b, p)
        <5>1. b.position >= b.size /\ (b.mode = "read" \/ b.eof)
          BY <3>1, <4>2 DEF Past
        <5>. QED  BY <2>2, <5>1
      <4>. QED  BY <4>1, <4>2 DEF ReaderAt
    <3>. QED  BY <3>1
  <2>. HIDE DEF m, n, a
  <2>5. CASE b.nbBits = 8
    BY <2>1, <2>2, <2>3, <2>5
  <2>6. CASE b.nbBits < 8 /\ m = 0 /\ n = 0
    BY <2>1, <2>2, <2>3, <2>6
  <2>7. CASE b.nbBits < 8 /\ m <= b.size - 1
    <3>1. 8 * m <= 8 * b.size - 8
      BY <2>2, <2>3, <2>7
    <3>2. 8 - b.nbBits <= 7 /\ b.nbBits \in Int /\ m \in Int /\ n \in Int /\ n <= 8
      BY <2>1, <2>3
    <3>3. a = 8 - b.nbBits + 8 * m + n /\ Len(b.bits) = 8 * b.size
      BY <2>1, <2>3
    <3>. QED  BY <2>2, <3>1, <3>2, <3>3
  <2>. QED  BY <2>1, <2>4, <2>5, <2>6, <2>7
<1>7. a \in Z
  <2>1. Reader(R(a).bs, t) /\ Ahead(R(a).bs) = a - a
    BY <1>2, <1>5 DEF ReadOn
  <2>2. NextBit(R(a).bs) = 0
    BY <1>5, <2>1, NextBitIs
  <2>. QED  BY <1>5, <2>2
<1>8. PICK k \in Nat : k \in Z /\ k <= a /\ \A j \in Nat : j < k => j \notin Z
  <2>. DEFINE W == {m \in 1..a + 1 : m - 1 \in Z}
              m == Min(W)
  <2>1. W \in SUBSET (1..a + 1) /\ a + 1 \in Nat /\ a + 1 \in W
    BY <1>5, <1>7
  <2>2. m \in W /\ \A i \in W : m <= i
    <3>. HIDE DEF W
    <3>. QED  BY <2>1, MinIsLeast
  <2>. HIDE DEF Z, m
  <2>3. m \in 1..a + 1 /\ m - 1 \in Z /\ m - 1 \in Nat /\ m - 1 <= a
    BY <1>5, <2>2
  <2>4. ASSUME NEW j \in Nat, j < m - 1, j \in Z PROVE FALSE
    <3>1. j + 1 \in 1..a + 1 /\ j + 1 - 1 = j
      BY <1>5, <2>3, <2>4
    <3>2. m <= j + 1
      BY <2>2, <2>4, <3>1
    <3>. QED  BY <2>3, <2>4, <3>2
  <2>. QED  BY <2>3, <2>4
<1>9. k \in Nat /\ NextBit(R(k).bs) = 0 /\ k <= a
  BY <1>8
<1>. DEFINE Q == {j \in Nat : j <= k => R(j).value = Ones(j)}
<1>10. 0 \in Q
  <2>1. Ones(0) = <<>>
    BY DEF Ones
  <2>. QED  BY <1>4, <2>1
<1>11. ASSUME NEW j \in Nat, j \in Q PROVE j + 1 \in Q
  <2>1. ASSUME j + 1 <= k PROVE R(j + 1).value = Ones(j + 1)
    <3>1. R(j).value = Ones(j)
      BY <1>9, <1>11, <2>1
    <3>2. j \notin Z
      BY <1>8, <2>1
    <3>3. NextBit(R(j).bs) \in Bits
      BY <1>2, NextBitIs DEF ReadOn
    <3>4. NextBit(R(j).bs) = 1
      BY <3>2, <3>3 DEF Bits
    <3>5. R(j + 1).value = Append(Ones(j), 1)
      BY <1>3, <3>1, <3>4
    <3>6. Append(Ones(j), 1) = Ones(j + 1)
      <4>1. Ones(j) \in Seq(Bits) /\ Len(Ones(j)) = j /\ \A i \in 1..j : Ones(j)[i] = 1
        BY AlikeBits
      <4>2. /\ Ones(j + 1) \in Seq(Bits) /\ Len(Ones(j + 1)) = j + 1
            /\ \A i \in 1..j + 1 : Ones(j + 1)[i] = 1
        BY AlikeBits
      <4>3. 1 \in Bits
        BY DEF Bits
      <4>. DEFINE u == Append(Ones(j), 1)
                  v == Ones(j + 1)
      <4>4. /\ u \in Seq(Bits) /\ Len(u) = j + 1
            /\ \A i \in 1..j + 1 : u[i] = 1
        <5>. HIDE DEF v
        <5>. QED  BY <4>1, <4>3, AppendProperties
      <4>. HIDE DEF u, v
      <4>. QED  BY <4>2, <4>4, SeqEqual DEF u, v
    <3>. QED  BY <3>5, <3>6
  <2>. QED  BY <2>1
<1>12. R(k).value = Ones(k)
  <2>1. Nat \subseteq Q
    <3>. HIDE DEF Q
    <3>. QED  BY <1>10, <1>11, SetInduction
  <2>. QED  BY <1>9, <2>1
<1>13. R(k + 1).value = Append(Ones(k), 0)
  BY <1>3, <1>9, <1>12
<1>14. k \in 0..Len(b.bits) + 8
  <2>1. Len(b.bits) \in Nat
    <3>1. b \in BitStreams
      BY <1>1 DEF Reader
    <3>. QED  BY <3>1, BitParts
  <2>. QED  BY <1>5, <1>6, <1>9, <2>1
<1>. QED  BY <1>13, <1>14 DEF R

(* Reading the rest of a byte that has been begun reads no other.              *)
LEMMA RestOfByteIs ==
  ASSUME NEW b, NEW t, Reader(b, t), NEW n \in Nat, n <= 8 - b.nbBits
  PROVE  LET d == gf_bs_read_int(b, n).bs
         IN d.nbBits = b.nbBits + n /\ d.position = b.position /\ d.eof = b.eof
<1>. DEFINE D(k) == gf_bs_read_int(b, k).bs
            Kept1(k) == D(k).nbBits = b.nbBits + k /\ D(k).position = b.position /\ D(k).eof = b.eof
            S == {k \in Nat : k <= 8 - b.nbBits => Kept1(k)}
<1>1. b.nbBits \in 1..8
  BY DEF Reader
<1>2. 0 \in S
  <2>1. D(0) = b
    BY ReadingIs
  <2>. HIDE DEF D
  <2>. QED  BY <1>1, <2>1
<1>3. ASSUME NEW k \in Nat, k \in S PROVE k + 1 \in S
  <2>1. ASSUME k + 1 <= 8 - b.nbBits PROVE Kept1(k + 1)
    <3>1. D(k + 1) = BehindBit(D(k))
      <4>1. gf_bs_read_int(b, k + 1) = gf_bs_read_bit(gf_bs_read_int(b, k))
        BY ReadingIs
      <4>. QED  BY <4>1, ReadBitIs
    <3>2. ReadOn(b, t, k, gf_bs_read_int(b, k))
      BY ReadIntIs
    <3>3. D(k) \in BitStreams
      BY <3>2 DEF ReadOn, Reader
    <3>. HIDE DEF D
    <3>4. Kept1(k) /\ D(k).nbBits # 8
      BY <1>1, <1>3, <2>1
    <3>. DEFINE d == D(k)
                e == BehindBit(d)
    <3>. HIDE DEF d
    <3>5. d \in BitStreams /\ d.nbBits # 8
      BY <3>3, <3>4 DEF d
    <3>6. e.nbBits = d.nbBits + 1 /\ e.position = d.position /\ e.eof = d.eof
      BY <3>5 DEF BehindBit, ByteOfBit, BitStreams
    <3>. HIDE DEF e
    <3>7. D(k + 1) = e
      BY <3>1 DEF d, e
    <3>8. d.nbBits = b.nbBits + k /\ d.position = b.position /\ d.eof = b.eof
      BY <3>4 DEF d
    <3>. QED  BY <1>1, <3>6, <3>7, <3>8
  <2>. QED  BY <2>1
<1>4. Nat \subseteq S
  <2>. HIDE DEF S
  <2>. QED  BY <1>2, <1>3, SetInduction
<1>. QED  BY <1>4

(* The next byte's place.                                                      *)
LEMMA UpIs ==
  ASSUME NEW p \in Nat
  PROVE  /\ Up(p) \in Nat /\ Up(p) >= p /\ Up(p) < p + 8 /\ Up(p) % 8 = 0
         /\ \A k \in Nat, n \in 1..8 : p = 8 * k - 8 + n => Up(p) = 8 * k
         /\ \A k \in Nat, n \in 1..8 : p = 8 * k + n => Up(p) = 8 * (k + 1)
         /\ \A k \in Nat : p = 8 * k => Up(p) = 8 * k
<1>. DEFINE q == (p + 7) \div 8
<1>1. q \in Nat /\ 8 * q <= p + 7 /\ p + 7 < 8 * q + 8
  OBVIOUS
<1>2. Up(p) = 8 * q
  BY DEF Up, BytesOf
<1>. HIDE DEF q
<1>3. Up(p) % 8 = 0
  BY <1>1, <1>2
<1>4. \A k \in Nat, n \in 1..8 : p = 8 * k - 8 + n => q = k
  BY <1>1
<1>5. \A k \in Nat, n \in 1..8 : p = 8 * k + n => q = k + 1
  BY <1>1
<1>6. \A k \in Nat : p = 8 * k => q = k
  BY <1>1
<1>. QED  BY <1>1, <1>2, <1>3, <1>4, <1>5, <1>6

LEMMA AlignReadIs ==
  ASSUME NEW b, NEW t, Reader(b, t), NEW c, c = gf_bs_align(b)
  PROVE  /\ Reader(c, t) /\ c.mode = b.mode /\ c.nbBits = 8 /\ c.position = b.position
         /\ c.eof = b.eof
         /\ \A p : ReaderAt(b, t, p) => ReaderAt(c, t, Up(p))
<1>. DEFINE n == 8 - b.nbBits
<1>1. b.nbBits \in 1..8 /\ Reads(b) /\ b \in BitStreams /\ b.bits = t
  BY DEF Reader
<1>2. n \in Nat /\ n <= 8 - b.nbBits /\ b.nbBits + n = 8
  BY <1>1
<1>3. c = gf_bs_read_int(b, n).bs
  BY <1>1 DEF gf_bs_align
<1>. HIDE DEF n
<1>4. ReadOn(b, t, n, gf_bs_read_int(b, n))
  BY <1>2, ReadIntIs
<1>5. c.nbBits = 8 /\ c.position = b.position /\ c.eof = b.eof
  BY <1>2, <1>3, RestOfByteIs
<1>6. Reader(c, t) /\ c.mode = b.mode
  BY <1>3, <1>4 DEF ReadOn
<1>7. ASSUME NEW p, ReaderAt(b, t, p) PROVE ReaderAt(c, t, Up(p))
  <2>1. p \in Nat /\ (Here(b, p) \/ Past(b, p))
    BY <1>7 DEF ReaderAt
  <2>2. Up(p) \in Nat /\ Up(p) >= p
    BY <2>1, UpIs
  <2>3. b.position \in Nat /\ b.size \in Nat /\ c.size \in Nat /\ c.bits = t /\ Len(t) \in Nat
        /\ Len(t) = 8 * b.size /\ Len(t) = 8 * c.size
    <3>1. c \in BitStreams /\ c.bits = t /\ Len(t) = 8 * c.size /\ Len(t) = 8 * b.size
      BY <1>6 DEF Reader, BytesOf
    <3>. QED  BY <1>1, <3>1, BitParts
  <2>4. CASE Here(b, p)
    <3>1. p = 8 * b.position - 8 + b.nbBits /\ ~b.eof
      BY <2>4 DEF Here, BytesOf
    <3>2. Up(p) = 8 * b.position
      BY <1>1, <2>1, <2>3, <3>1, UpIs
    <3>3. Here(c, Up(p))
      BY <1>5, <2>3, <3>1, <3>2 DEF Here, BytesOf
    <3>. QED  BY <1>6, <2>2, <3>3 DEF ReaderAt
  <2>5. CASE Past(b, p)
    <3>1. p > Len(t) /\ b.position >= b.size
      BY <1>1, <2>5 DEF Past
    <3>2. Up(p) > Len(t) /\ c.position >= c.size
      BY <1>5, <2>1, <2>2, <2>3, <3>1
    <3>3. Past(c, Up(p))
      BY <1>5, <2>3, <3>2 DEF Past
    <3>. QED  BY <1>6, <2>2, <3>3 DEF ReaderAt
  <2>. QED  BY <2>1, <2>4, <2>5
<1>. QED  BY <1>5, <1>6, <1>7

(* A stream put to a byte.                                                     *)
AtByte(b, pos, nbBits) ==
  [b EXCEPT !.position = pos, !.nbBits = nbBits, !.current = <<>>, !.eof = FALSE]

LEMMA SeekInternIs ==
  ASSUME NEW b, NEW offset \in Nat, b.size \in Nat
  PROVE  /\ InAFile(b) \/ offset < b.size =>
              BS_SeekIntern(b, offset) = AtByte(b, offset, IF Reads(b) THEN 8 ELSE 0)
         /\ ~InAFile(b) /\ offset >= b.size /\ b.mode # "dynamic" =>
              BS_SeekIntern(b, offset) = b
         /\ ~InAFile(b) /\ offset >= b.size /\ b.mode = "dynamic" =>
              BS_SeekIntern(b, offset) =
                [AtByte(b, offset, IF Reads(b) THEN 8 ELSE 0) EXCEPT
                   !.bits = @ \o Zeros(BytesOf(offset + 1) - Len(@)), !.size = offset + 1]
<1>1. ASSUME InAFile(b) \/ offset < b.size
      PROVE  BS_SeekIntern(b, offset) = AtByte(b, offset, IF Reads(b) THEN 8 ELSE 0)
  BY <1>1 DEF BS_SeekIntern, AtByte
<1>2. ASSUME ~InAFile(b), offset >= b.size, b.mode # "dynamic"
      PROVE  BS_SeekIntern(b, offset) = b
  BY <1>2 DEF BS_SeekIntern
<1>3. ASSUME ~InAFile(b), offset >= b.size, b.mode = "dynamic"
      PROVE  BS_SeekIntern(b, offset) =
               [AtByte(b, offset, IF Reads(b) THEN 8 ELSE 0) EXCEPT
                  !.bits = @ \o Zeros(BytesOf(offset + 1) - Len(@)), !.size = offset + 1]
  BY <1>3 DEF BS_SeekIntern, AtByte
<1>. QED  BY <1>1, <1>2, <1>3

LEMMA PutThere ==
  ASSUME NEW b, NEW t, Reader(b, t), NEW pos \in Nat
  PROVE  /\ ReaderAt(AtByte(b, pos, 8), t, 8 * pos) /\ AtByte(b, pos, 8).mode = b.mode
         /\ AtByte(b, pos, 8).position = pos /\ AtByte(b, pos, 8).size = b.size
<1>. DEFINE c == AtByte(b, pos, 8)
<1>1. /\ b \in BitStreams /\ Reads(b) /\ b.bits = t /\ Len(t) = BytesOf(b.size)
  BY DEF Reader
<1>2. c = StreamOf(b.mode, b.bits, b.size, pos, <<>>, 8, FALSE)
  <2>1. b = [mode |-> b.mode, bits |-> b.bits, size |-> b.size, position |-> b.position,
             current |-> b.current, nbBits |-> b.nbBits, eof |-> b.eof]
    BY <1>1, BitParts
  <2>. DEFINE e == <<>>
  <2>2. c = [b EXCEPT !.position = pos, !.nbBits = 8, !.current = e, !.eof = FALSE]
    BY Zenon DEF AtByte
  <2>. HIDE DEF c, e
  <2>3. c = StreamOf(b.mode, b.bits, b.size, pos, e, 8, FALSE)
    BY <2>1, <2>2 DEF StreamOf
  <2>. QED  BY <2>3 DEF e
<1>. HIDE DEF c
<1>3. /\ c.mode = b.mode /\ c.bits = b.bits /\ c.size = b.size /\ c.position = pos
      /\ c.nbBits = 8 /\ c.eof = FALSE
  BY <1>2 DEF StreamOf
<1>4. c \in BitStreams
  <2>1. <<>> \in Seq(Bits) /\ 8 \in 0..8 /\ FALSE \in BOOLEAN
    OBVIOUS
  <2>. QED  BY <1>1, <1>2, <2>1, BitParts DEF StreamOf, BitStreams
<1>5. Reader(c, t)
  BY <1>1, <1>3, <1>4 DEF Reader, Reads
<1>6. Here(c, 8 * pos)
  BY <1>3 DEF Here, BytesOf
<1>. QED  BY <1>3, <1>5, <1>6 DEF ReaderAt, c

(* A seek of a reader.                                                         *)
LEMMA SeekReadIs ==
  ASSUME NEW b, NEW t, Reader(b, t), NEW offset \in Nat, offset <= b.size,
         NEW c, c = gf_bs_seek(b, offset)
  PROVE  /\ c.mode = b.mode
         /\ IF b.mode = "read" /\ offset = b.size THEN c = gf_bs_align(b)
            ELSE ReaderAt(c, t, 8 * offset) /\ c.position = offset
<1>. DEFINE a == gf_bs_align(b)
<1>1. b \in BitStreams /\ Len(t) = 8 * b.size /\ b.mode \in {"read", "file_read"}
  BY DEF Reader, Reads, BytesOf
<1>2. b.size \in Nat
  BY <1>1, BitParts
<1>3. c = BS_SeekIntern(a, offset)
  BY <1>2 DEF gf_bs_seek
<1>4. Reader(a, t) /\ a.mode = b.mode
  BY AlignReadIs
<1>. HIDE DEF a
<1>5. a \in BitStreams /\ Len(t) = 8 * a.size /\ Reads(a)
  BY <1>4 DEF Reader, BytesOf
<1>6. a.size = b.size
  <2>1. a.size \in Nat
    BY <1>5, BitParts
  <2>. QED  BY <1>1, <1>2, <1>5, <2>1
<1>. DEFINE there == AtByte(a, offset, 8)
<1>7. ReaderAt(there, t, 8 * offset) /\ there.mode = a.mode /\ there.position = offset
  BY <1>4, PutThere
<1>. HIDE DEF there
<1>8. CASE b.mode = "read" /\ offset = b.size
  <2>1. ~InAFile(a) /\ offset >= a.size /\ a.mode # "dynamic" /\ a.size \in Nat
    BY <1>2, <1>4, <1>6, <1>8 DEF InAFile
  <2>2. c = a
    BY <1>2, <1>3, <1>6, <2>1, SeekInternIs
  <2>. QED  BY <1>4, <1>8, <2>2 DEF a
<1>9. CASE ~(b.mode = "read" /\ offset = b.size)
  <2>1. InAFile(a) \/ offset < a.size
    BY <1>1, <1>2, <1>4, <1>6, <1>9 DEF InAFile
  <2>2. c = there
    <3>1. a.size \in Nat /\ (IF Reads(a) THEN 8 ELSE 0) = 8
      BY <1>2, <1>5, <1>6
    <3>. QED  BY <1>3, <2>1, <3>1, SeekInternIs DEF there
  <2>. QED  BY <1>4, <1>7, <1>9, <2>2
<1>. QED  BY <1>8, <1>9

-----------------------------------------------------------------------------
(* The steps of a reader.                                                      *)

LEMMA OnTapeIs ==
  ASSUME NEW b, NEW p, NEW value \in Seq(Bits), TapeSays(b.mode, tape, p, value)
  PROVE  value = OnTape(b, p, value)
<1>1. value = [i \in 1..Len(value) |-> value[i]]
  OBVIOUS
<1>2. \A i \in 1..Len(value) :
        value[i] = IF p + i <= Len(tape) THEN tape[p + i] ELSE IF b.mode = "read" THEN 0 ELSE value[i]
  BY DEF TapeSays
<1>3. [i \in 1..Len(value) |-> value[i]] = OnTape(b, p, value)
  BY <1>2, Zenon DEF OnTape
<1>. QED  BY <1>1, <1>3

LEMMA ReaderStep ==
  ASSUME BitInv, tape' = tape, readings'[1] = readings'[2], place' \in Nat, astray' \in BOOLEAN,
         IF astray' THEN bs'.mode = "read" /\ Reader(bs', tape) ELSE ReaderAt(bs', tape, place')
  PROVE  BitInv'
<1>1. Reads(bs')
  BY DEF ReaderAt, Reader
<1>2. tape' \in Seq(Bits)
  BY DEF BitInv
<1>. QED  BY <1>1, <1>2, Zenon DEF BitInv

LEMMA ReaderNow ==
  ASSUME BitInv, Reads(bs)
  PROVE  /\ Reader(bs, tape) /\ tape \in Seq(Bits) /\ place \in Nat /\ astray \in BOOLEAN
         /\ IF astray THEN bs.mode = "read" ELSE ReaderAt(bs, tape, place)
         /\ bs \in BitStreams /\ bs.size \in Nat /\ bs.position \in Nat /\ bs.nbBits \in 1..8
         /\ bs.eof \in BOOLEAN /\ Len(tape) = 8 * bs.size /\ bs.mode \in {"read", "file_read"}
<1>1. /\ Reader(bs, tape) /\ tape \in Seq(Bits) /\ place \in Nat /\ astray \in BOOLEAN
      /\ IF astray THEN bs.mode = "read" ELSE ReaderAt(bs, tape, place)
  BY DEF BitInv, ReaderAt
<1>2. /\ bs \in BitStreams /\ bs.nbBits \in 1..8 /\ Len(tape) = 8 * bs.size
      /\ bs.mode \in {"read", "file_read"}
  BY <1>1 DEF Reader, BytesOf, Reads
<1>3. bs.size \in Nat /\ bs.position \in Nat /\ bs.eof \in BOOLEAN
  BY <1>2, BitParts
<1>. QED  BY <1>1, <1>2, <1>3

(* Reading some bits from the stream as it is.                                 *)
LEMMA ReadingStep ==
  ASSUME BitInv, Reads(bs), NEW n \in Nat, Reading(gf_bs_read_int(bs, n), place),
         place' = place + n, astray' = astray
  PROVE  BitInv'
<1>. DEFINE r == gf_bs_read_int(bs, n)
<1>1. /\ Reader(bs, tape) /\ place \in Nat /\ astray \in BOOLEAN
      /\ IF astray THEN bs.mode = "read" ELSE ReaderAt(bs, tape, place)
  BY ReaderNow
<1>2. ReadOn(bs, tape, n, r)
  BY <1>1, ReadIntIs
<1>3. /\ bs' = r.bs /\ tape' = tape
      /\ readings' = IF astray THEN Nothing ELSE <<r.value, OnTape(bs, place, r.value)>>
  BY DEF Reading
<1>. HIDE DEF r
<1>4. Reader(r.bs, tape) /\ r.bs.mode = bs.mode /\ r.value \in Seq(Bits)
  BY <1>2 DEF ReadOn
<1>5. place' \in Nat
  BY <1>1
<1>6. CASE astray
  <2>1. readings'[1] = readings'[2]
    BY <1>3, <1>6 DEF Nothing
  <2>. QED  BY <1>1, <1>3, <1>4, <1>5, <1>6, <2>1, ReaderStep
<1>7. CASE ~astray
  <2>1. ReaderAt(r.bs, tape, place + n) /\ TapeSays(bs.mode, tape, place, r.value)
    BY <1>1, <1>2, <1>7 DEF ReadOn
  <2>2. r.value = OnTape(bs, place, r.value)
    BY <1>4, <2>1, OnTapeIs
  <2>. DEFINE v == r.value
              w == OnTape(bs, place, r.value)
  <2>. HIDE DEF v, w
  <2>3. readings' = <<v, w>> /\ v = w
    BY <1>3, <1>7, <2>2 DEF v, w
  <2>4. readings'[1] = readings'[2]
    BY <2>3
  <2>. QED  BY <1>1, <1>3, <1>5, <1>7, <2>1, <2>4, ReaderStep
<1>. QED  BY <1>6, <1>7

LEMMA ReadNumberStep ==
  ASSUME BitInv, ReadNumber
  PROVE  BitInv'
<1>1. PICK bits \in Numbers : /\ Reading(gf_bs_read_int(bs, Len(bits)), place)
                              /\ place' = place + Len(bits) /\ UNCHANGED astray
  BY DEF ReadNumber
<1>2. Len(bits) \in Nat
  BY BitAssumption
<1>. QED  BY <1>1, <1>2, ReadingStep DEF ReadNumber

LEMMA ReadBytesStep ==
  ASSUME BitInv, ReadBytes
  PROVE  BitInv'
<1>. DEFINE there(n) == bs.position + n <= bs.size
<1>1. PICK n \in 1..2 :
        /\ Reading(IF there(n) THEN gf_bs_read_int(bs, BytesOf(n)) ELSE [bs |-> bs, value |-> <<>>],
                   place)
        /\ place' = IF there(n) THEN place + BytesOf(n) ELSE place
        /\ UNCHANGED astray
  BY Zenon DEF ReadBytes
<1>2. Reads(bs)
  BY DEF ReadBytes
<1>3. CASE there(n)
  <2>1. BytesOf(n) \in Nat
    BY DEF BytesOf
  <2>2. Reading(gf_bs_read_int(bs, BytesOf(n)), place) /\ place' = place + BytesOf(n)
    BY <1>1, <1>3
  <2>. QED  BY <1>1, <1>2, <2>1, <2>2, ReadingStep
<1>4. CASE ~there(n)
  <2>1. gf_bs_read_int(bs, 0) = [bs |-> bs, value |-> <<>>]
    BY ReadingIs
  <2>2. Reading(gf_bs_read_int(bs, 0), place)
    BY <1>1, <1>4, <2>1
  <2>3. place' = place + 0
    BY <1>1, <1>2, <1>4, ReaderNow
  <2>. QED  BY <1>1, <1>2, <2>2, <2>3, ReadingStep
<1>. QED  BY <1>3, <1>4

LEMMA ReadWordsStep ==
  ASSUME BitInv, ReadWords
  PROVE  BitInv'
<1>. DEFINE Is(k) == gf_bs_read_int(bs, k + 1).value = Append(Ones(k), 0)
            ones == CHOOSE k \in 0..Len(bs.bits) + 8 : Is(k)
            mid == gf_bs_read_int(bs, ones + 1)
            r == gf_bs_read_vluimsbf5(bs)
            words == Len(r.value) \div 4
<1>1. Reads(bs) /\ ~astray /\ Reading(r, place + words) /\ place' = place + 5 * words
      /\ UNCHANGED astray
  BY Zenon DEF ReadWords
<1>2. Reader(bs, tape) /\ ReaderAt(bs, tape, place) /\ place \in Nat /\ bs.bits = tape
      /\ tape \in Seq(Bits)
  BY <1>1, ReaderNow DEF Reader
<1>3. ones \in 0..Len(bs.bits) + 8
  <2>1. \E k \in 0..Len(bs.bits) + 8 : Is(k)
    BY <1>2, OnesEnd
  <2>. HIDE DEF Is
  <2>. QED  BY <2>1, Zenon
<1>4. r = gf_bs_read_int(mid.bs, 4 * (ones + 1))
  BY Zenon DEF gf_bs_read_vluimsbf5
<1>. HIDE DEF ones, r
<1>5. ones + 1 \in Nat /\ 4 * (ones + 1) \in Nat
  BY <1>2, <1>3
<1>6. ReadOn(bs, tape, ones + 1, mid)
  BY <1>2, <1>5, ReadIntIs
<1>. HIDE DEF mid
<1>7. Reader(mid.bs, tape) /\ mid.bs.mode = bs.mode /\ ReaderAt(mid.bs, tape, place + (ones + 1))
  BY <1>2, <1>6 DEF ReadOn
<1>8. ReadOn(mid.bs, tape, 4 * (ones + 1), r)
  BY <1>4, <1>5, <1>7, ReadIntIs
<1>9. /\ r.value \in Seq(Bits) /\ Len(r.value) = 4 * (ones + 1)
      /\ ReaderAt(r.bs, tape, place + (ones + 1) + 4 * (ones + 1))
      /\ TapeSays(bs.mode, tape, place + (ones + 1), r.value)
  BY <1>7, <1>8 DEF ReadOn
<1>10. words = ones + 1 /\ place + (ones + 1) + 4 * (ones + 1) = place + 5 * words
       /\ place' \in Nat
  <2>. DEFINE m == ones + 1
  <2>1. m \in Nat /\ Len(r.value) = 4 * m
    BY <1>5, <1>9
  <2>. HIDE DEF m
  <2>2. (4 * m) \div 4 = m
    BY <2>1
  <2>3. words = m
    BY <2>1, <2>2
  <2>. HIDE DEF words
  <2>4. place + m + 4 * m = place + 5 * words /\ place + 5 * words \in Nat
    BY <1>2, <2>1, <2>3
  <2>. QED  BY <1>1, <2>3, <2>4 DEF m, words
<1>. HIDE DEF words
<1>11. /\ bs' = r.bs /\ tape' = tape
       /\ readings' = <<r.value, OnTape(bs, place + words, r.value)>>
  BY <1>1 DEF Reading
<1>12. r.value = OnTape(bs, place + words, r.value)
  BY <1>9, <1>10, OnTapeIs
<1>13. readings'[1] = readings'[2]
  <2>. DEFINE v == r.value
              w == OnTape(bs, place + words, r.value)
  <2>1. readings' = <<v, w>> /\ v = w
    BY <1>11, <1>12
  <2>. HIDE DEF v, w
  <2>. QED  BY <2>1
<1>14. ReaderAt(bs', tape, place') /\ ~astray' /\ astray' \in BOOLEAN
  <2>1. astray' = FALSE
    BY <1>1, ReaderNow
  <2>. QED  BY <1>1, <1>9, <1>10, <1>11, <2>1
<1>. QED  BY <1>10, <1>11, <1>13, <1>14, ReaderStep

LEMMA PutBackIs ==
  ASSUME NEW b \in BitStreams, NEW n, NEW c
  PROVE  [b EXCEPT !.nbBits = n, !.current = c] =
           StreamOf(b.mode, b.bits, b.size, b.position, c, n, b.eof)
<1>. DEFINE d == [b EXCEPT !.nbBits = n, !.current = c]
<1>1. b = [mode |-> b.mode, bits |-> b.bits, size |-> b.size, position |-> b.position,
           current |-> b.current, nbBits |-> b.nbBits, eof |-> b.eof]
  BY BitParts
<1>2. d = [b EXCEPT !.nbBits = n, !.current = c]
  BY Zenon
<1>. HIDE DEF d
<1>3. d = StreamOf(b.mode, b.bits, b.size, b.position, c, n, b.eof)
  BY <1>1, <1>2 DEF StreamOf
<1>. QED  BY <1>3 DEF d

(* A peek leaves the stream as it was.                                         *)
LEMMA PeekIs ==
  ASSUME NEW b, NEW t, Reader(b, t), NEW n \in Nat, NEW offset \in Nat,
         b.position + offset <= b.size,
         NEW there, there = IF offset > 0 THEN gf_bs_seek(b, b.position + offset) ELSE b,
         NEW r, r = gf_bs_peek_bits(b, n, offset)
  PROVE  r.bs = b /\ r.value = gf_bs_read_int(there, n).value /\ Reader(there, t)
         /\ there.mode = b.mode
<1>1. /\ b \in BitStreams /\ Len(t) = 8 * b.size /\ b.nbBits \in 1..8 /\ b.bits = t
      /\ b.mode \in {"read", "file_read"} /\ (b.mode = "read" => ~b.eof)
      /\ (b.eof => b.position > b.size)
  BY DEF Reader, Reads, BytesOf
<1>2. b.size \in Nat /\ b.position \in Nat /\ b.eof \in BOOLEAN
  BY <1>1, BitParts
<1>3. b.position + offset \in Nat /\ ~(b.size < b.position + offset) /\ b.position <= b.size
      /\ b.eof = FALSE
  BY <1>1, <1>2
<1>4. Reader(there, t) /\ there.mode = b.mode
  <2>1. CASE offset > 0
    <3>1. there = gf_bs_seek(b, b.position + offset)
      BY <2>1
    <3>2. /\ there.mode = b.mode
          /\ IF b.mode = "read" /\ b.position + offset = b.size THEN there = gf_bs_align(b)
             ELSE ReaderAt(there, t, 8 * (b.position + offset))
      BY <1>3, <3>1, SeekReadIs
    <3>3. Reader(gf_bs_align(b), t)
      BY AlignReadIs
    <3>. QED  BY <3>2, <3>3 DEF ReaderAt
  <2>2. CASE ~(offset > 0)
    BY <2>2
  <2>. QED  BY <2>1, <2>2
<1>. DEFINE q == gf_bs_read_int(there, n)
            back == gf_bs_seek(q.bs, b.position)
<1>5. r = [bs |-> [back EXCEPT !.nbBits = b.nbBits, !.current = b.current], value |-> q.value]
  BY <1>3, Zenon DEF gf_bs_peek_bits
<1>6. ReadOn(there, t, n, q)
  BY <1>4, ReadIntIs
<1>. HIDE DEF q
<1>7. Reader(q.bs, t) /\ q.bs.mode = b.mode
  BY <1>4, <1>6 DEF ReadOn
<1>8. b.position <= q.bs.size /\ q.bs.size = b.size
  <2>1. q.bs \in BitStreams /\ Len(t) = 8 * q.bs.size
    BY <1>7 DEF Reader, BytesOf
  <2>2. q.bs.size \in Nat
    BY <2>1, BitParts
  <2>. QED  BY <1>1, <1>2, <1>3, <2>1, <2>2
<1>9. /\ back.mode = q.bs.mode
      /\ IF q.bs.mode = "read" /\ b.position = q.bs.size THEN back = gf_bs_align(q.bs)
         ELSE ReaderAt(back, t, 8 * b.position) /\ back.position = b.position
  BY <1>2, <1>7, <1>8, SeekReadIs
<1>. HIDE DEF back
<1>10. Reader(back, t) /\ back.position = b.position /\ back.eof = FALSE
  <2>1. CASE b.mode = "read" /\ b.position = b.size
    <3>1. back = gf_bs_align(q.bs)
      BY <1>7, <1>8, <1>9, <2>1
    <3>2. Reader(back, t) /\ back.position = q.bs.position /\ back.mode = "read"
      BY <1>7, <2>1, <3>1, AlignReadIs
    <3>3. there = b
      BY <1>2, <1>3, <2>1
    <3>4. q.bs.position = b.position
      BY <1>2, <1>6, <2>1, <3>3 DEF ReadOn
    <3>5. back.eof = FALSE
      <4>1. back \in BitStreams /\ ~back.eof
        BY <3>2 DEF Reader
      <4>. QED  BY <4>1, BitParts
    <3>. QED  BY <3>2, <3>4, <3>5
  <2>2. CASE ~(b.mode = "read" /\ b.position = b.size)
    <3>1. ReaderAt(back, t, 8 * b.position) /\ back.position = b.position
      BY <1>7, <1>8, <1>9, <2>2
    <3>2. Reader(back, t)
      BY <3>1 DEF ReaderAt
    <3>3. back \in BitStreams /\ Len(t) = 8 * back.size /\ (back.eof => back.position > back.size)
      BY <3>2 DEF Reader, BytesOf
    <3>4. back.size \in Nat /\ back.eof \in BOOLEAN
      BY <3>3, BitParts
    <3>5. back.size = b.size
      BY <1>1, <1>2, <3>3, <3>4
    <3>6. ~back.eof
      BY <1>2, <1>3, <3>1, <3>3, <3>5
    <3>. QED  BY <3>1, <3>2, <3>4, <3>6
  <2>. QED  BY <2>1, <2>2
<1>11. r.bs = b
  <2>1. back \in BitStreams /\ back.bits = b.bits /\ Len(t) = 8 * back.size
    BY <1>1, <1>10 DEF Reader, BytesOf
  <2>2. back.size = b.size
    <3>1. back.size \in Nat
      BY <2>1, BitParts
    <3>. QED  BY <1>1, <1>2, <2>1, <3>1
  <2>3. back.mode = b.mode
    BY <1>7, <1>9
  <2>. DEFINE e == [back EXCEPT !.nbBits = b.nbBits, !.current = b.current]
  <2>4. e = StreamOf(back.mode, back.bits, back.size, back.position, b.current, b.nbBits, back.eof)
    BY <2>1, PutBackIs
  <2>. HIDE DEF e
  <2>5. e = StreamOf(b.mode, b.bits, b.size, b.position, b.current, b.nbBits, b.eof)
    BY <1>3, <1>10, <2>1, <2>2, <2>3, <2>4
  <2>6. b = StreamOf(b.mode, b.bits, b.size, b.position, b.current, b.nbBits, b.eof)
    BY <1>1, BitParts DEF StreamOf
  <2>7. r.bs = e
    BY <1>5 DEF e
  <2>. QED  BY <2>5, <2>6, <2>7
<1>12. r.value = gf_bs_read_int(there, n).value
  BY <1>5 DEF q
<1>. QED  BY <1>4, <1>11, <1>12

LEMMA PeekStep ==
  ASSUME BitInv, Peek
  PROVE  BitInv'
<1>. DEFINE unserved(k) == bs.mode = "read" /\ k > 0 /\ bs.position + k = bs.size
            from(k) == IF k = 0 THEN place ELSE BytesOf(bs.position + k)
            R(n, k) == gf_bs_peek_bits(bs, n, k)
<1>1. PICK n \in {Len(bits) : bits \in Numbers}, k \in 0..1 :
        /\ bs' = R(n, k).bs
        /\ readings' = IF astray \/ unserved(k) THEN Nothing
                       ELSE <<R(n, k).value, OnTape(bs, from(k), R(n, k).value)>>
        /\ UNCHANGED <<tape, place, astray>>
  BY Zenon DEF Peek
<1>2. n \in Nat
  BY BitAssumption
<1>3. /\ Reads(bs) /\ Reader(bs, tape) /\ tape \in Seq(Bits) /\ place \in Nat /\ astray \in BOOLEAN
      /\ IF astray THEN bs.mode = "read" ELSE ReaderAt(bs, tape, place)
      /\ bs.position \in Nat /\ bs.size \in Nat
  BY ReaderNow DEF Peek
<1>. DEFINE r == R(n, k)
<1>4. bs' = r.bs /\ UNCHANGED <<tape, place, astray>>
  BY <1>1
<1>. HIDE DEF R
<1>5. r.bs = bs /\ (~astray /\ ~unserved(k) =>
                      r.value \in Seq(Bits) /\ TapeSays(bs.mode, tape, from(k), r.value))
  <2>1. CASE bs.size < bs.position + k
    <3>1. r = [bs |-> bs, value |-> <<>>]
      BY <2>1 DEF R, gf_bs_peek_bits
    <3>2. r.value = <<>> /\ r.bs = bs
      BY <3>1
    <3>. QED  BY <3>2 DEF TapeSays
  <2>2. CASE bs.position + k <= bs.size
    <3>. DEFINE there == IF k > 0 THEN gf_bs_seek(bs, bs.position + k) ELSE bs
    <3>1. r = gf_bs_peek_bits(bs, n, k) /\ k \in Nat
      BY DEF R
    <3>. HIDE DEF there
    <3>2. /\ r.bs = bs /\ r.value = gf_bs_read_int(there, n).value /\ Reader(there, tape)
          /\ there.mode = bs.mode
      BY <1>2, <1>3, <2>2, <3>1, PeekIs DEF there
    <3>3. ReadOn(there, tape, n, gf_bs_read_int(there, n))
      BY <1>2, <3>2, ReadIntIs
    <3>4. ASSUME ~astray, ~unserved(k)
          PROVE  r.value \in Seq(Bits) /\ TapeSays(bs.mode, tape, from(k), r.value)
      <4>1. ReaderAt(there, tape, from(k))
        <5>1. CASE k = 0
          BY <1>3, <3>4, <5>1 DEF there
        <5>2. CASE k = 1
          <6>1. /\ bs.position + k \in Nat /\ there = gf_bs_seek(bs, bs.position + k)
                /\ ~(bs.mode = "read" /\ bs.position + k = bs.size)
            BY <1>3, <3>4, <5>2 DEF there
          <6>2. ReaderAt(there, tape, 8 * (bs.position + k))
            BY <1>3, <2>2, <6>1, SeekReadIs
          <6>. QED  BY <5>2, <6>2 DEF BytesOf
        <5>. QED  BY <5>1, <5>2
      <4>. QED  BY <3>2, <3>3, <4>1 DEF ReadOn
    <3>. QED  BY <3>2, <3>4
  <2>. QED  BY <1>3, <2>1, <2>2
<1>6. readings'[1] = readings'[2]
  <2>1. CASE astray \/ unserved(k)
    <3>1. readings' = Nothing
      BY <1>1, <2>1
    <3>. QED  BY <3>1 DEF Nothing
  <2>2. CASE ~astray /\ ~unserved(k)
    <3>. DEFINE v == r.value
                w == OnTape(bs, from(k), r.value)
    <3>1. readings' = <<v, w>>
      BY <1>1, <2>2
    <3>2. v = w
      BY <1>5, <2>2, OnTapeIs
    <3>. HIDE DEF v, w
    <3>. QED  BY <3>1, <3>2
  <2>. QED  BY <2>1, <2>2
<1>. QED  BY <1>3, <1>4, <1>5, <1>6, ReaderStep

(* A reader put to another byte as it is.                                      *)
LEMMA RepositionIs ==
  ASSUME NEW b, NEW t, Reader(b, t), NEW pos \in Nat,
         NEW d, d = StreamOf(b.mode, b.bits, b.size, pos, b.current, 8, FALSE)
  PROVE  /\ Reader(d, t) /\ d.mode = b.mode
         /\ \A p \in Nat : p = 8 * pos \/ (p > Len(t) /\ pos >= b.size) => ReaderAt(d, t, p)
<1>. DEFINE c == d
<1>1. /\ b \in BitStreams /\ Reads(b) /\ b.bits = t /\ Len(t) = BytesOf(b.size)
  BY DEF Reader
<1>2. /\ c.mode = b.mode /\ c.bits = b.bits /\ c.size = b.size /\ c.position = pos
      /\ c.nbBits = 8 /\ c.eof = FALSE
  BY DEF StreamOf
<1>3. c \in BitStreams
  <2>1. /\ b.mode \in BitModes /\ b.bits \in Seq(Bits) /\ b.size \in Nat /\ b.current \in Seq(Bits)
        /\ 8 \in 0..8 /\ FALSE \in BOOLEAN
    BY <1>1, BitParts
  <2>. QED  BY <2>1 DEF StreamOf, BitStreams
<1>. HIDE DEF c
<1>4. Reader(c, t)
  BY <1>1, <1>2, <1>3 DEF Reader, Reads
<1>5. ASSUME NEW p \in Nat, p = 8 * pos \/ (p > Len(t) /\ pos >= b.size)
      PROVE  ReaderAt(c, t, p)
  <2>1. CASE p = 8 * pos
    <3>1. Here(c, p)
      BY <1>2, <2>1 DEF Here, BytesOf
    <3>. QED  BY <1>4, <3>1 DEF ReaderAt
  <2>2. CASE p > Len(t) /\ pos >= b.size
    <3>1. Past(c, p)
      BY <1>1, <1>2, <2>2 DEF Past
    <3>. QED  BY <1>4, <3>1 DEF ReaderAt
  <2>. QED  BY <1>5, <2>1, <2>2
<1>. QED  BY <1>2, <1>4, <1>5 DEF c

LEMMA SkipReadStep ==
  ASSUME BitInv, AlignOrSkip, Reads(bs), FarFromLimit
  PROVE  BitInv'
<1>. DEFINE pad == Up(place) - place
            over(k) == IF InAFile(bs) THEN 0 ELSE BytesOf(k)
            a == gf_bs_align(bs)
<1>1. PICK k \in 0..2 :
        /\ bs' = IF k = 0 THEN a ELSE gf_bs_skip_bytes(bs, k)
        /\ tape' = IF Reads(bs) THEN tape ELSE Taped(Zeros(pad + over(k)))
        /\ place' = Kept(Up(place) + BytesOf(k))
        /\ UNCHANGED <<astray, readings>>
  BY Zenon DEF AlignOrSkip
<1>2. tape' = tape /\ UNCHANGED <<astray, readings>>
  BY <1>1
<1>3. /\ Reader(bs, tape) /\ place \in Nat /\ astray \in BOOLEAN
      /\ IF astray THEN bs.mode = "read" ELSE ReaderAt(bs, tape, place)
      /\ bs.position \in Nat /\ bs.size \in Nat /\ Len(tape) = 8 * bs.size
      /\ bs.mode \in {"read", "file_read"} /\ readings[1] = readings[2]
  BY ReaderNow DEF BitInv
<1>4. Up(place) \in Nat /\ Up(place) >= place
  BY <1>3, UpIs
<1>5. place' = Up(place) + 8 * k /\ place' \in Nat
  BY <1>1, <1>3, <1>4 DEF Kept, BytesOf
<1>6. /\ Reader(a, tape) /\ a.mode = bs.mode /\ a.nbBits = 8 /\ a.position = bs.position
      /\ a.eof = bs.eof
      /\ ReaderAt(bs, tape, place) => ReaderAt(a, tape, Up(place))
  BY <1>3, AlignReadIs
<1>. HIDE DEF a
<1>7. a \in BitStreams /\ Len(tape) = 8 * a.size /\ a.bits = tape
  BY <1>6 DEF Reader, BytesOf
<1>8. a.size = bs.size
  <2>1. a.size \in Nat
    BY <1>7, BitParts
  <2>. QED  BY <1>3, <1>7, <2>1
<1>9. CASE k = 0
  <2>1. bs' = a /\ place' = Up(place)
    BY <1>1, <1>4, <1>5, <1>9
  <2>. QED  BY <1>2, <1>3, <1>5, <1>6, <2>1, ReaderStep
<1>10. CASE k # 0
  <2>. DEFINE pos == (bs.position + k) % PositionLimit
              c == [a EXCEPT !.position = pos, !.eof = FALSE]
  <2>1. bs' = c
    <3>1. gf_bs_skip_bytes(bs, k) = [a EXCEPT !.position = (@ + k) % PositionLimit, !.eof = FALSE]
      BY <1>3 DEF gf_bs_skip_bytes, a
    <3>. QED  BY <1>1, <1>6, <1>10, <3>1
  <2>2. pos \in Nat
    <3>1. bs.position + k \in Nat /\ PositionLimit \in Nat \ {0}
      BY <1>3, BitAssumption
    <3>. DEFINE x == bs.position + k
    <3>. HIDE DEF x
    <3>. QED  BY <3>1 DEF x
  <2>3. c = StreamOf(a.mode, a.bits, a.size, pos, a.current, 8, FALSE)
    <3>1. a = [mode |-> a.mode, bits |-> a.bits, size |-> a.size, position |-> a.position,
               current |-> a.current, nbBits |-> a.nbBits, eof |-> a.eof]
      BY <1>7, BitParts
    <3>2. c = [a EXCEPT !.position = pos, !.eof = FALSE]
      BY Zenon
    <3>. HIDE DEF c, pos
    <3>. QED  BY <1>6, <3>1, <3>2 DEF StreamOf
  <2>. HIDE DEF c, pos
  <2>4. /\ Reader(c, tape) /\ c.mode = bs.mode
        /\ \A p \in Nat : p = 8 * pos \/ (p > Len(tape) /\ pos >= bs.size) => ReaderAt(c, tape, p)
    BY <1>6, <1>8, <2>2, <2>3, RepositionIs
  <2>5. ASSUME ~astray PROVE ReaderAt(c, tape, place')
    <3>1. bs.position + k \in Nat /\ bs.position + k < PositionLimit /\ PositionLimit \in Nat \ {0}
      BY <1>3, <2>5, BitAssumption DEF FarFromLimit
    <3>2. pos = bs.position + k
      <4>. DEFINE x == bs.position + k
      <4>. HIDE DEF x
      <4>. QED  BY <3>1 DEF pos, x
    <3>3. ReaderAt(a, tape, Up(place))
      BY <1>3, <1>6, <2>5
    <3>4. CASE Here(a, Up(place))
      <4>1. Up(place) = 8 * bs.position
        BY <1>3, <1>6, <3>4 DEF Here, BytesOf
      <4>2. place' = 8 * pos
        BY <1>3, <1>5, <3>2, <4>1
      <4>. QED  BY <1>5, <2>4, <4>2
    <3>5. CASE Past(a, Up(place))
      <4>1. Up(place) > Len(tape) /\ bs.position >= bs.size
        BY <1>6, <1>7, <1>8, <3>5 DEF Past
      <4>2. place' > Len(tape) /\ pos >= bs.size
        BY <1>3, <1>4, <1>5, <3>2, <4>1
      <4>. QED  BY <1>5, <2>4, <4>2
    <3>. QED  BY <3>3, <3>4, <3>5 DEF ReaderAt
  <2>. QED  BY <1>2, <1>3, <1>5, <2>1, <2>4, <2>5, ReaderStep
<1>. QED  BY <1>9, <1>10

LEMMA RewindStep ==
  ASSUME BitInv, Rewind, FarFromLimit
  PROVE  BitInv'
<1>1. PICK n \in 1..12 :
        /\ n <= place /\ bs.position * 8 >= n
        /\ bs' = gf_bs_rewind_bits(bs, n)
        /\ place' = place - n
        /\ astray' = (astray \/ n = place \/ place > Len(tape))
        /\ UNCHANGED <<tape, readings>>
  BY Zenon DEF Rewind
<1>2. /\ Reader(bs, tape) /\ place \in Nat /\ astray \in BOOLEAN
      /\ IF astray THEN bs.mode = "read" ELSE ReaderAt(bs, tape, place)
      /\ bs.position \in Nat /\ bs.size \in Nat /\ Len(tape) = 8 * bs.size
      /\ bs.mode = "read" /\ readings[1] = readings[2] /\ bs.nbBits \in 1..8
      /\ bs.eof = FALSE
  <2>1. Reads(bs) /\ bs.mode = "read"
    BY DEF Rewind, Reads
  <2>2. ~bs.eof /\ bs.eof \in BOOLEAN
    BY <2>1, ReaderNow DEF Reader
  <2>. QED  BY <2>1, <2>2, ReaderNow DEF BitInv
<1>. DEFINE a == gf_bs_align(bs)
            m == n - bs.nbBits
            K == (m + 8) \div 8
            pos == (bs.position - (K + 1)) % PositionLimit
            c == [a EXCEPT !.position = pos]
            rest == 8 * K - m
<1>3. /\ Reader(a, tape) /\ a.mode = "read" /\ a.nbBits = 8 /\ a.position = bs.position
      /\ a.eof = FALSE
  BY <1>2, AlignReadIs
<1>4. bs' = gf_bs_read_int(c, rest).bs
  <2>1. [a EXCEPT !.position = (@ - (K + 1)) % PositionLimit] = c
    BY <1>3
  <2>2. BytesOf(K) - m = rest
    BY DEF BytesOf
  <2>. HIDE DEF c
  <2>3. bs' = gf_bs_read_int([a EXCEPT !.position = (@ - (K + 1)) % PositionLimit], BytesOf(K) - m).bs
    BY <1>1, Zenon DEF gf_bs_rewind_bits
  <2>. QED  BY <2>1, <2>2, <2>3
<1>5. m \in Int /\ K \in Nat /\ rest \in 1..8 /\ 8 * K <= m + 8 /\ rest = 8 * K - m
  <2>1. m \in Int /\ m + 8 \in Nat
    BY <1>2
  <2>. DEFINE x == m + 8
  <2>2. x \in Nat /\ m = x - 8
    BY <2>1
  <2>. HIDE DEF x
  <2>3. x \div 8 \in Nat /\ 8 * (x \div 8) <= x /\ x < 8 * (x \div 8) + 8
    BY <2>2
  <2>4. K = x \div 8
    BY DEF x
  <2>. HIDE DEF K, m
  <2>. QED  BY <2>1, <2>2, <2>3, <2>4
<1>6. pos \in Nat
  <2>. HIDE DEF K, m
  <2>1. bs.position - (K + 1) \in Int
    BY <1>2, <1>5
  <2>2. PositionLimit \in Nat \ {0}
    BY BitAssumption
  <2>. DEFINE x == bs.position - (K + 1)
  <2>. HIDE DEF x
  <2>. QED  BY <2>1, <2>2 DEF x
<1>7. a \in BitStreams /\ a.bits = tape
  BY <1>3 DEF Reader
<1>8. c = StreamOf(a.mode, a.bits, a.size, pos, a.current, 8, FALSE)
  <2>1. a = [mode |-> a.mode, bits |-> a.bits, size |-> a.size, position |-> a.position,
             current |-> a.current, nbBits |-> a.nbBits, eof |-> a.eof]
    BY <1>7, BitParts
  <2>2. c = [a EXCEPT !.position = pos]
    BY Zenon
  <2>. HIDE DEF c, pos, a
  <2>. QED  BY <1>3, <2>1, <2>2 DEF StreamOf
<1>. HIDE DEF c, rest, a
<1>9. /\ Reader(c, tape) /\ c.mode = "read"
      /\ \A p \in Nat : p = 8 * pos => ReaderAt(c, tape, p)
  BY <1>3, <1>6, <1>8, RepositionIs
<1>. HIDE DEF K, m, pos
<1>10. ReadOn(c, tape, rest, gf_bs_read_int(c, rest))
  BY <1>5, <1>9, ReadIntIs
<1>11. Reader(bs', tape) /\ bs'.mode = "read"
  BY <1>4, <1>9, <1>10 DEF ReadOn
<1>12. place' \in Nat /\ astray' \in BOOLEAN /\ readings'[1] = readings'[2] /\ tape' = tape
  BY <1>1, <1>2
<1>13. ASSUME ~astray' PROVE ReaderAt(bs', tape, place')
  <2>1. ~astray /\ n < place /\ place <= Len(tape)
    <3>1. ~astray /\ ~(n = place) /\ ~(place > Len(tape))
      BY <1>1, <1>13
    <3>2. n \in Int /\ place \in Int /\ Len(tape) \in Int
      BY <1>2
    <3>. QED  BY <1>1, <3>1, <3>2
  <2>2. Here(bs, place)
    <3>1. ReaderAt(bs, tape, place) /\ bs.bits = tape
      BY <1>2, <2>1 DEF Reader
    <3>2. ~Past(bs, place)
      BY <1>2, <2>1, <3>1 DEF Past
    <3>. QED  BY <3>1, <3>2 DEF ReaderAt
  <2>3. place = 8 * bs.position - 8 + bs.nbBits
    BY <2>2 DEF Here, BytesOf
  <2>4. bs.position >= K + 1 /\ place - n = 8 * bs.position - 8 - m
    <3>1. m = n - bs.nbBits
      BY DEF m
    <3>2. place - n = 8 * bs.position - 8 - m
      <4>. DEFINE x == bs.nbBits
                  y == bs.position
      <4>1. x \in Int /\ y \in Int /\ n \in Int /\ place = 8 * y - 8 + x /\ m = n - x
        BY <1>2, <2>3, <3>1
      <4>. HIDE DEF x, y
      <4>2. place - n = 8 * y - 8 - m
        BY <4>1
      <4>. QED  BY <4>2 DEF y
    <3>3. 8 * bs.position > 8 * K
      BY <1>2, <1>5, <2>1, <3>2
    <3>4. bs.position > K
      BY <1>2, <1>5, <3>3
    <3>. QED  BY <1>2, <1>5, <3>2, <3>4
  <2>5. pos = bs.position - (K + 1)
    <3>1. PositionLimit \in Nat \ {0} /\ bs.position < PositionLimit
      BY <1>2, <2>1, BitAssumption DEF FarFromLimit
    <3>2. bs.position - (K + 1) \in Nat /\ bs.position - (K + 1) < PositionLimit
      BY <1>2, <1>5, <2>4, <3>1
    <3>. DEFINE x == bs.position - (K + 1)
    <3>. HIDE DEF x
    <3>. QED  BY <3>1, <3>2 DEF pos, x
  <2>6. 8 * pos \in Nat /\ 8 * pos + rest = place - n
    <3>. DEFINE y == bs.position
    <3>1. y \in Int /\ K \in Int /\ m \in Int /\ rest = 8 * K - m /\ pos = y - (K + 1)
          /\ place - n = 8 * y - 8 - m /\ pos \in Nat
      BY <1>2, <1>5, <1>6, <2>4, <2>5
    <3>. HIDE DEF y
    <3>. QED  BY <3>1
  <2>7. ReaderAt(c, tape, 8 * pos)
    BY <1>9, <2>6
  <2>8. ReaderAt(bs', tape, 8 * pos + rest)
    BY <1>4, <1>10, <2>7 DEF ReadOn
  <2>. QED  BY <1>1, <2>6, <2>8
<1>. QED  BY <1>11, <1>12, <1>13, ReaderStep

LEMMA SeekReadStep ==
  ASSUME BitInv, SeekByte, Reads(bs)
  PROVE  BitInv'
<1>. DEFINE refused(k) == k > bs.size
            atEnd(k) == k = bs.size /\ bs.mode \in {"read", "write"}
            aligned == IF Reads(bs) THEN tape ELSE Taped(Zeros(Up(place) - place))
<1>1. PICK k \in 0..Len(tape) \div 8 :
        /\ bs' = gf_bs_seek(bs, k)
        /\ tape' = CASE refused(k) -> tape
                     [] ~refused(k) /\ bs.mode = "dynamic" ->
                          aligned \o Zeros(Longest(0, BytesOf(k + 1) - Len(aligned)))
                     [] OTHER -> aligned
        /\ place' = CASE refused(k) -> place
                      [] ~refused(k) /\ atEnd(k) -> Kept(Up(place))
                      [] OTHER -> BytesOf(k)
        /\ astray' = (astray /\ (refused(k) \/ atEnd(k)))
        /\ UNCHANGED readings
  BY Zenon DEF SeekByte
<1>2. /\ Reader(bs, tape) /\ place \in Nat /\ astray \in BOOLEAN
      /\ IF astray THEN bs.mode = "read" ELSE ReaderAt(bs, tape, place)
      /\ bs.position \in Nat /\ bs.size \in Nat /\ Len(tape) = 8 * bs.size
      /\ bs.mode \in {"read", "file_read"} /\ readings[1] = readings[2]
  BY ReaderNow DEF BitInv
<1>3. k \in Nat /\ k <= bs.size
  <2>1. (8 * bs.size) \div 8 = bs.size
    BY <1>2
  <2>. QED  BY <1>2, <2>1
<1>4. ~refused(k)
  BY <1>2, <1>3
<1>5. tape' = tape
  <2>1. aligned = tape /\ bs.mode # "dynamic"
    BY <1>2
  <2>. HIDE DEF aligned, refused
  <2>. QED  BY <1>1, <1>4, <2>1
<1>6. /\ gf_bs_seek(bs, k).mode = bs.mode
      /\ IF bs.mode = "read" /\ k = bs.size THEN gf_bs_seek(bs, k) = gf_bs_align(bs)
         ELSE ReaderAt(gf_bs_seek(bs, k), tape, 8 * k)
  BY <1>2, <1>3, SeekReadIs
<1>7. CASE bs.mode = "read" /\ k = bs.size
  <2>1. atEnd(k)
    BY <1>7
  <2>2. bs' = gf_bs_align(bs) /\ astray' = astray
    BY <1>1, <1>2, <1>6, <1>7, <2>1
  <2>3. place' = Kept(Up(place))
    <3>. HIDE DEF refused, atEnd
    <3>. QED  BY <1>1, <1>4, <2>1
  <2>4. place' = Up(place) /\ place' \in Nat
    BY <1>2, <2>3, UpIs DEF Kept
  <2>5. /\ Reader(bs', tape) /\ bs'.mode = bs.mode
        /\ ReaderAt(bs, tape, place) => ReaderAt(bs', tape, Up(place))
    BY <1>2, <2>2, AlignReadIs
  <2>. QED  BY <1>1, <1>2, <1>5, <1>7, <2>2, <2>4, <2>5, ReaderStep
<1>8. CASE ~(bs.mode = "read" /\ k = bs.size)
  <2>1. ~atEnd(k)
    BY <1>2, <1>8
  <2>2. astray' = FALSE
    BY <1>1, <1>2, <1>4, <2>1
  <2>3. place' = 8 * k
    <3>. HIDE DEF refused, atEnd
    <3>1. place' = BytesOf(k)
      BY <1>1, <1>4, <2>1
    <3>. QED  BY <3>1 DEF BytesOf
  <2>4. ReaderAt(bs', tape, place') /\ place' \in Nat
    BY <1>1, <1>3, <1>6, <1>8, <2>3
  <2>. QED  BY <1>1, <1>2, <1>5, <2>2, <2>4, ReaderStep
<1>. QED  BY <1>7, <1>8

-----------------------------------------------------------------------------
(* Writing.                                                                    *)

LEMMA LongestIs ==
  ASSUME NEW m \in Int, NEW n \in Int
  PROVE  /\ Longest(m, n) \in {m, n} /\ Longest(m, n) >= m /\ Longest(m, n) >= n
         /\ m >= n => Longest(m, n) = m
         /\ m <= n => Longest(m, n) = n
  BY DEF Longest

LEMMA OverwrittenIs ==
  ASSUME NEW bits \in Seq(Bits), NEW from \in Nat, NEW new \in Seq(Bits),
         NEW o, o = Overwritten(bits, from, new)
  PROVE  /\ o \in Seq(Bits)
         /\ Len(o) = IF Len(new) = 0 THEN Len(bits) ELSE Longest(from + Len(new), Len(bits))
         /\ \A i \in 1..Len(o) : o[i] = IF i \in from + 1..from + Len(new) THEN new[i - from]
                                        ELSE IF i <= Len(bits) THEN bits[i] ELSE 0
<1>. DEFINE n == IF Len(new) = 0 THEN Len(bits) ELSE Longest(from + Len(new), Len(bits))
            F(i) == IF i \in from + 1..from + Len(new) THEN new[i - from]
                    ELSE IF i <= Len(bits) THEN bits[i] ELSE 0
<1>1. Len(bits) \in Nat /\ Len(new) \in Nat /\ (new = <<>> <=> Len(new) = 0)
  OBVIOUS
<1>2. n \in Nat
  BY <1>1 DEF Longest
<1>3. o = [i \in 1..n |-> F(i)]
  <2>1. (IF new = <<>> THEN Len(bits) ELSE Longest(from + Len(new), Len(bits))) = n
    BY <1>1
  <2>. QED  BY <2>1, Zenon DEF Overwritten
<1>4. \A i \in 1..n : F(i) \in Bits
  <2>1. ASSUME NEW i \in 1..n PROVE F(i) \in Bits
    <3>1. CASE i \in from + 1..from + Len(new)
      <4>1. i - from \in 1..Len(new)
        BY <1>1, <3>1
      <4>. QED  BY <3>1, <4>1
    <3>2. CASE i \notin from + 1..from + Len(new)
      <4>1. i \in 1..n /\ (i <= Len(bits) => i \in 1..Len(bits)) /\ 0 \in Bits
        BY <1>1, <1>2 DEF Bits
      <4>. QED  BY <3>2, <4>1
    <3>. QED  BY <3>1, <3>2
  <2>. QED  BY <2>1
<1>. HIDE DEF n, F
<1>5. o \in Seq(Bits) /\ Len(o) = n /\ \A i \in 1..n : o[i] = F(i)
  BY <1>2, <1>3, <1>4
<1>. QED  BY <1>5 DEF n, F

(* What a write leaves of a tape, and where.                                   *)
KeptAt(mode, p) ==
  IF mode = "write" /\ p >= BytesOf(RoomSize) THEN BytesOf(RoomSize) + (p % 8) ELSE p

TapeOf(mode, t, p, bits) ==
  IF mode = "write" THEN SubSeq(Overwritten(t, p, bits), 1, BytesOf(RoomSize))
  ELSE Overwritten(t, p, bits)

(* u is t with some bits laid over it from a place on.                         *)
LaidOver(mode, t, p, x, u) ==
  /\ u \in Seq(Bits)
  /\ Len(u) = IF mode = "write" \/ Len(x) = 0 THEN Len(t) ELSE Longest(p + Len(x), Len(t))
  /\ \A i \in 1..Len(u) : u[i] = IF i \in p + 1..p + Len(x) THEN x[i - p]
                                 ELSE IF i <= Len(t) THEN t[i] ELSE 0

LEMMA LaidSame ==
  ASSUME NEW mode, NEW t, NEW p, NEW x, NEW u, NEW v, LaidOver(mode, t, p, x, u), LaidOver(mode, t, p, x, v)
  PROVE  u = v
<1>1. u \in Seq(Bits) /\ v \in Seq(Bits) /\ Len(u) = Len(v)
  BY DEF LaidOver
<1>2. \A i \in 1..Len(u) : u[i] = v[i]
  BY <1>1 DEF LaidOver
<1>. QED  BY <1>1, <1>2, SeqEqual

LEMMA TapeOfIs ==
  ASSUME NEW mode, NEW t \in Seq(Bits), NEW p \in Nat, NEW x \in Seq(Bits),
         mode = "write" => Len(t) = BytesOf(RoomSize)
  PROVE  LaidOver(mode, t, p, x, TapeOf(mode, t, p, x))
<1>. DEFINE o == Overwritten(t, p, x)
            F(i) == IF i \in p + 1..p + Len(x) THEN x[i - p] ELSE IF i <= Len(t) THEN t[i] ELSE 0
<1>1. /\ o \in Seq(Bits)
      /\ Len(o) = IF Len(x) = 0 THEN Len(t) ELSE Longest(p + Len(x), Len(t))
      /\ \A i \in 1..Len(o) : o[i] = F(i)
  BY OverwrittenIs
<1>2. Len(t) \in Nat /\ Len(x) \in Nat /\ Len(o) \in Nat /\ Len(o) >= Len(t)
  BY <1>1 DEF Longest
<1>. HIDE DEF o, F
<1>3. CASE mode # "write"
  <2>1. TapeOf(mode, t, p, x) = o
    BY <1>3 DEF TapeOf, o
  <2>. QED  BY <1>1, <1>3, <2>1 DEF LaidOver, F
<1>4. CASE mode = "write"
  <2>. DEFINE n == BytesOf(RoomSize)
              u == SubSeq(o, 1, n)
  <2>1. TapeOf(mode, t, p, x) = u
    BY <1>4 DEF TapeOf, o
  <2>2. n = Len(t) /\ n \in Nat
    BY <1>2, <1>4
  <2>. HIDE DEF n
  <2>3. u \in Seq(Bits) /\ Len(u) = n /\ \A i \in 1..n : u[i] = o[i]
    <3>1. CASE n = 0
      <4>1. u = <<>>
        BY <1>1, <3>1
      <4>. QED  BY <3>1, <4>1
    <3>2. CASE n > 0
      <4>1. 1 \in 1..Len(o) /\ n \in 1..Len(o) /\ n - 1 + 1 = n /\ 1 <= n /\ n <= Len(o)
        BY <1>2, <2>2, <3>2
      <4>2. /\ SubSeq(o, 1, n) \in Seq(Bits) /\ Len(SubSeq(o, 1, n)) = n - 1 + 1
            /\ \A i \in 1..n - 1 + 1 : SubSeq(o, 1, n)[i] = o[1 + i - 1]
        BY <1>1, <4>1, SubSeqProperties
      <4>3. \A i \in 1..n : 1 + i - 1 = i
        BY <2>2
      <4>. QED  BY <4>1, <4>2, <4>3
    <3>. QED  BY <2>2, <3>1, <3>2
  <2>. HIDE DEF u
  <2>4. \A i \in 1..n : i \in 1..Len(o)
    BY <1>2, <2>2
  <2>5. \A i \in 1..Len(u) : u[i] = F(i)
    BY <1>1, <2>3, <2>4
  <2>. QED  BY <1>4, <2>1, <2>2, <2>3, <2>5 DEF LaidOver, F
<1>. QED  BY <1>3, <1>4

(* What is laid in two parts is laid at once.                                  *)
LEMMA LaidOn ==
  ASSUME NEW mode, NEW t \in Seq(Bits), NEW p \in Nat, NEW x \in Seq(Bits), NEW y \in Seq(Bits),
         NEW z \in Seq(Bits), Len(z) = Len(x) + Len(y),
         \A i \in 1..Len(x) : z[i] = x[i],
         \A i \in 1..Len(y) : z[Len(x) + i] = y[i],
         NEW u, NEW v, LaidOver(mode, t, p, x, u), LaidOver(mode, u, KeptAt(mode, p + Len(x)), y, v),
         mode = "write" => Len(t) = BytesOf(RoomSize)
  PROVE  LaidOver(mode, t, p, z, v)
<1>. DEFINE q == KeptAt(mode, p + Len(x))
            nx == Len(x)
            ny == Len(y)
            nt == Len(t)
            nu == Len(u)
            nv == Len(v)
<1>1. nx \in Nat /\ ny \in Nat /\ nt \in Nat /\ u \in Seq(Bits) /\ nu \in Nat /\ v \in Seq(Bits)
      /\ nv \in Nat
  BY DEF LaidOver
<1>2. /\ nu = IF mode = "write" \/ nx = 0 THEN nt ELSE Longest(p + nx, nt)
      /\ \A i \in 1..nu : u[i] = IF i \in p + 1..p + nx THEN x[i - p] ELSE IF i <= nt THEN t[i] ELSE 0
  BY DEF LaidOver
<1>3. /\ nv = IF mode = "write" \/ ny = 0 THEN nu ELSE Longest(q + ny, nu)
      /\ \A i \in 1..nv : v[i] = IF i \in q + 1..q + ny THEN y[i - q] ELSE IF i <= nu THEN u[i] ELSE 0
  BY DEF LaidOver
<1>4. Len(z) = nx + ny
  OBVIOUS
<1>5. RoomSize \in Nat /\ BytesOf(RoomSize) = 8 * RoomSize /\ (mode = "write" => nt = 8 * RoomSize)
  BY BitAssumption DEF BytesOf
<1>6. q = p + nx \/ (mode = "write" /\ p + nx >= nt /\ q >= nt /\ q \in Nat)
  <2>1. (p + nx) % 8 \in Nat
    BY <1>1
  <2>2. CASE mode = "write" /\ p + nx >= nt
    <3>1. q = nt + ((p + nx) % 8)
      BY <1>5, <2>2 DEF KeptAt
    <3>. HIDE DEF q, nx, nt
    <3>. DEFINE m == (p + nx) % 8
    <3>2. m \in Nat /\ q = nt + m
      BY <2>1, <3>1
    <3>. HIDE DEF m
    <3>. QED  BY <1>1, <2>2, <3>2
  <2>3. CASE ~(mode = "write" /\ p + nx >= nt)
    BY <1>5, <2>3 DEF KeptAt
  <2>. QED  BY <2>2, <2>3
<1>. HIDE DEF q, nx, ny, nt, nu, nv
<1>7. nu >= nt /\ (mode # "write" /\ nx # 0 => nu >= p + nx)
  BY <1>1, <1>2 DEF Longest
<1>8. nv = IF mode = "write" \/ nx + ny = 0 THEN nt ELSE Longest(p + (nx + ny), nt)
  <2>1. CASE mode = "write"
    BY <1>2, <1>3, <2>1
  <2>2. CASE mode # "write" /\ ny = 0
    BY <1>1, <1>2, <1>3, <2>2
  <2>3. CASE mode # "write" /\ ny # 0
    <3>1. q + ny = p + (nx + ny) /\ nv = Longest(q + ny, nu)
      BY <1>1, <1>3, <1>6, <2>3
    <3>2. CASE nx = 0
      BY <1>1, <1>2, <2>3, <3>1, <3>2
    <3>3. CASE nx # 0
      <4>1. nu = Longest(p + nx, nt)
        BY <1>2, <2>3, <3>3
      <4>2. Longest(p + (nx + ny), nu) = Longest(p + (nx + ny), nt)
        BY <1>1, <4>1 DEF Longest
      <4>. QED  BY <1>1, <2>3, <3>1, <3>3, <4>2
    <3>. QED  BY <3>2, <3>3
  <2>. QED  BY <2>1, <2>2, <2>3
<1>9. ASSUME NEW i \in 1..nv
      PROVE  v[i] = IF i \in p + 1..p + (nx + ny) THEN z[i - p] ELSE IF i <= nt THEN t[i] ELSE 0
  <2>1. i \in Nat /\ i >= 1 /\ i <= nv
    BY <1>1
  <2>2. CASE q = p + nx
    <3>1. CASE i \in q + 1..q + ny
      <4>1. i \in p + 1..p + (nx + ny) /\ i - q \in 1..ny /\ nx + (i - q) = i - p
        BY <1>1, <2>1, <2>2, <3>1
      <4>2. v[i] = y[i - q]
        BY <1>3, <3>1
      <4>3. z[nx + (i - q)] = y[i - q]
        BY <4>1 DEF nx, ny
      <4>. QED  BY <4>1, <4>2, <4>3
    <3>2. CASE i \notin q + 1..q + ny
      <4>1. v[i] = IF i <= nu THEN u[i] ELSE 0
        BY <1>3, <3>2
      <4>2. CASE i \in p + 1..p + nx
        <5>1. i \in p + 1..p + (nx + ny) /\ i - p \in 1..nx
          BY <1>1, <2>1, <4>2
        <5>2. i <= nu
          <6>1. CASE mode = "write"
            BY <1>3, <2>1, <6>1
          <6>2. CASE mode # "write"
            BY <1>1, <1>7, <2>1, <4>2, <6>2
          <6>. QED  BY <6>1, <6>2
        <5>3. i \in 1..nu
          BY <1>1, <2>1, <5>2
        <5>4. u[i] = x[i - p]
          BY <1>2, <4>2, <5>3
        <5>5. z[i - p] = x[i - p]
          BY <5>1 DEF nx
        <5>. QED  BY <4>1, <5>1, <5>2, <5>4, <5>5
      <4>3. CASE i \notin p + 1..p + nx
        <5>1. i \notin p + 1..p + (nx + ny)
          BY <1>1, <2>1, <2>2, <3>2, <4>3
        <5>2. CASE i <= nu
          <6>1. u[i] = IF i <= nt THEN t[i] ELSE 0
            BY <1>1, <1>2, <2>1, <4>3, <5>2
          <6>. QED  BY <4>1, <5>1, <5>2, <6>1
        <5>3. CASE ~(i <= nu)
          BY <1>1, <1>7, <2>1, <4>1, <5>1, <5>3
        <5>. QED  BY <5>2, <5>3
      <4>. QED  BY <4>2, <4>3
    <3>. QED  BY <3>1, <3>2
  <2>3. CASE mode = "write" /\ p + nx >= nt /\ q >= nt /\ q \in Nat
    <3>1. nv = nt /\ nu = nt
      BY <1>2, <1>3, <2>3
    <3>2. i <= nt /\ i \in 1..nu
      BY <1>1, <2>1, <3>1
    <3>3. i \notin q + 1..q + ny
      BY <1>1, <2>1, <2>3, <3>2
    <3>4. v[i] = u[i]
      BY <1>3, <3>1, <3>2, <3>3
    <3>5. CASE i \in p + 1..p + nx
      <4>1. i \in p + 1..p + (nx + ny) /\ i - p \in 1..nx
        BY <1>1, <2>1, <3>5
      <4>2. u[i] = x[i - p]
        BY <1>2, <3>2, <3>5
      <4>3. z[i - p] = x[i - p]
        BY <4>1 DEF nx
      <4>. QED  BY <3>4, <4>1, <4>2, <4>3
    <3>6. CASE i \notin p + 1..p + nx
      <4>1. i \notin p + 1..p + (nx + ny)
        BY <1>1, <2>1, <2>3, <3>2, <3>6
      <4>2. u[i] = t[i]
        BY <1>2, <3>2, <3>6
      <4>. QED  BY <3>2, <3>4, <4>1, <4>2
    <3>. QED  BY <3>5, <3>6
  <2>. QED  BY <1>6, <2>2, <2>3
<1>. QED  BY <1>1, <1>4, <1>8, <1>9 DEF LaidOver, nt, nv

(* Bytes that are written.                                                     *)
Emptied(b) == [b EXCEPT !.current = <<>>, !.nbBits = 0]

LEMMA BytesWrittenIs ==
  ASSUME NEW b, Kind(b), NEW n \in Nat, NEW x \in Seq(Bits), Len(x) = 8 * n, Holds(b, n),
         NEW d, d = Emptied(BytesWritten(b, x))
  PROVE  /\ Kind(d) /\ d.mode = b.mode /\ d.position = b.position + n /\ d.nbBits = 0
         /\ d.current = <<>> /\ d.bits = Overwritten(b.bits, 8 * b.position, x)
         /\ Len(d.bits) = IF n = 0 THEN Len(b.bits)
                          ELSE Longest(8 * (b.position + n), Len(b.bits))
<1>1. /\ b \in BitStreams /\ ~Reads(b)
      /\ \E m \in 0..Len(b.bits) : Len(b.bits) = 8 * m
      /\ b.mode = "write" => b.size = RoomSize /\ Len(b.bits) = 8 * RoomSize
      /\ b.mode = "dynamic" => Len(b.bits) = 8 * b.size
      /\ b.mode # "file_write" => b.position <= b.size
  BY DEF Kind, BytesOf
<1>2. /\ b.mode \in {"file_write", "dynamic", "write"} /\ b.bits \in Seq(Bits) /\ b.size \in Nat
      /\ b.position \in Nat /\ b.eof \in BOOLEAN /\ Len(b.bits) \in Nat
  <2>1. b.mode \in BitModes
    BY <1>1, BitParts
  <2>2. b.mode \in {"file_write", "dynamic", "write"}
    BY <1>1, <2>1 DEF Reads, BitModes
  <2>. QED  BY <1>1, <2>2, BitParts
<1>. DEFINE o == Overwritten(b.bits, 8 * b.position, x)
            size == IF InAFile(b) THEN b.size + (IF b.size = b.position THEN n ELSE 0)
                    ELSE Longest(b.size, b.position + n)
            c == d
<1>3. Len(x) \div 8 = n /\ Len(x) \in Nat
  BY Z3
<1>4. c = StreamOf(b.mode, o, size, b.position + n, <<>>, 0, b.eof)
  <2>1. b = [mode |-> b.mode, bits |-> b.bits, size |-> b.size, position |-> b.position,
             current |-> b.current, nbBits |-> b.nbBits, eof |-> b.eof]
    BY <1>1, BitParts
  <2>. DEFINE e == [b EXCEPT !.bits = o, !.position = b.position + n, !.size = size]
              none == <<>>
  <2>2. BytesWritten(b, x) = e
    BY <1>3, Zenon DEF BytesWritten, BytesOf
  <2>3. e = [b EXCEPT !.bits = o, !.position = b.position + n, !.size = size]
    BY Zenon
  <2>4. c = [e EXCEPT !.current = none, !.nbBits = 0]
    BY <2>2, Zenon DEF Emptied
  <2>. HIDE DEF e, o, size, none, c
  <2>5. e = StreamOf(b.mode, o, size, b.position + n, b.current, b.nbBits, b.eof)
    BY <2>1, <2>3 DEF StreamOf
  <2>6. c = StreamOf(b.mode, o, size, b.position + n, none, 0, b.eof)
    BY <2>4, <2>5 DEF StreamOf
  <2>. QED  BY <2>6 DEF none
<1>5. /\ o \in Seq(Bits)
      /\ Len(o) = IF Len(x) = 0 THEN Len(b.bits) ELSE Longest(8 * b.position + Len(x), Len(b.bits))
  <2>. DEFINE k == 8 * b.position
              z == b.bits
              v == Overwritten(z, k, x)
  <2>1. k \in Nat /\ z \in Seq(Bits) /\ x \in Seq(Bits) /\ v = Overwritten(z, k, x)
    BY <1>2
  <2>. HIDE DEF k, z, v
  <2>2. /\ v \in Seq(Bits)
        /\ Len(v) = IF Len(x) = 0 THEN Len(z) ELSE Longest(k + Len(x), Len(z))
    BY ONLY <2>1, OverwrittenIs
  <2>. QED  BY <2>2 DEF k, z, v
<1>6. Len(o) = IF n = 0 THEN Len(b.bits) ELSE Longest(8 * (b.position + n), Len(b.bits))
  <2>1. 8 * b.position + 8 * n = 8 * (b.position + n) /\ (8 * n = 0 <=> n = 0)
    BY <1>2
  <2>. QED  BY <1>5, <2>1
<1>7. size \in Nat /\ (b.mode = "file_write" <=> InAFile(b))
  BY <1>2 DEF Longest, InAFile
<1>. HIDE DEF c, o
<1>8. /\ c.mode = b.mode /\ c.bits = o /\ c.size = size /\ c.position = b.position + n
      /\ c.current = <<>> /\ c.nbBits = 0 /\ c.eof = b.eof
  BY <1>4 DEF StreamOf
<1>9. c \in BitStreams
  <2>1. /\ b.mode \in BitModes /\ o \in Seq(Bits) /\ size \in Nat /\ b.position + n \in Nat
        /\ <<>> \in Seq(Bits) /\ 0 \in 0..8 /\ b.eof \in BOOLEAN
    BY <1>1, <1>2, <1>5, <1>7, BitParts
  <2>. HIDE DEF size
  <2>. QED  BY <1>4, <2>1 DEF StreamOf, BitStreams
<1>10. \E m \in 0..Len(o) : Len(o) = 8 * m
  <2>1. PICK m \in Nat : Len(b.bits) = 8 * m
    BY <1>1
  <2>2. CASE Len(o) = Len(b.bits)
    BY <2>1, <2>2
  <2>3. CASE Len(o) = 8 * (b.position + n)
    <3>1. b.position + n \in 0..Len(o)
      BY <1>2, <2>3
    <3>. QED  BY <2>3, <3>1
  <2>. QED  BY <1>6, <2>2, <2>3 DEF Longest
<1>11. b.mode = "write" => size = RoomSize /\ Len(o) = 8 * RoomSize
  <2>1. ASSUME b.mode = "write" PROVE size = RoomSize /\ Len(o) = 8 * RoomSize
    <3>1. b.position + n <= b.size /\ b.size = RoomSize /\ Len(b.bits) = 8 * RoomSize
      BY <1>1, <2>1 DEF Holds
    <3>2. size = RoomSize
      BY <1>2, <1>7, <2>1, <3>1 DEF Longest
    <3>3. 8 * (b.position + n) <= 8 * RoomSize
      BY <1>2, <3>1
    <3>4. Longest(8 * (b.position + n), Len(b.bits)) = 8 * RoomSize
      <4>. DEFINE k == 8 * (b.position + n)
      <4>1. k \in Int /\ 8 * RoomSize \in Int /\ k <= 8 * RoomSize
        BY <1>2, <3>1, <3>3
      <4>. HIDE DEF k
      <4>2. Longest(k, 8 * RoomSize) = 8 * RoomSize
        BY <4>1, LongestIs
      <4>. QED  BY <3>1, <4>2 DEF k
    <3>. QED  BY <1>6, <3>1, <3>2, <3>4
  <2>. QED  BY <2>1
<1>12. b.mode = "dynamic" => Len(o) = 8 * size
  <2>1. ASSUME b.mode = "dynamic" PROVE Len(o) = 8 * size
    <3>1. Len(b.bits) = 8 * b.size /\ b.position <= b.size /\ size = Longest(b.size, b.position + n)
      BY <1>1, <1>7, <2>1
    <3>. DEFINE k == b.position + n
    <3>2. k \in Nat /\ (n = 0 => k <= b.size)
      BY <1>2, <3>1
    <3>3. Longest(8 * k, 8 * b.size) = 8 * Longest(b.size, k)
      <4>. HIDE DEF k
      <4>. QED  BY <1>2, <3>2 DEF Longest
    <3>4. n = 0 => Longest(b.size, k) = b.size
      BY <1>2, <3>2, LongestIs
    <3>. HIDE DEF size
    <3>. QED  BY <1>6, <3>1, <3>3, <3>4
  <2>. QED  BY <2>1
<1>13. b.mode # "file_write" => b.position + n <= size
  <2>1. ASSUME b.mode # "file_write" PROVE b.position + n <= size
    <3>1. size = Longest(b.size, b.position + n) /\ b.position + n \in Int /\ b.size \in Int
      BY <1>2, <1>7, <2>1
    <3>. QED  BY <3>1, LongestIs
  <2>. QED  BY <2>1
<1>. HIDE DEF size
<1>14. Kind(c)
  <2>1. ~Reads(c)
    BY <1>1, <1>8 DEF Reads
  <2>. QED  BY <1>8, <1>9, <1>10, <1>11, <1>12, <1>13, <2>1 DEF Kind, BytesOf
<1>. QED  BY <1>6, <1>8, <1>14 DEF c, o

(* What is known of a writer.                                                  *)
LEMMA WriterIs ==
  ASSUME NEW b, NEW t, NEW p, Writer(b, t, p)
  PROVE  /\ Kind(b) /\ b \in BitStreams /\ ~Reads(b) /\ t \in Seq(Bits)
         /\ b.mode \in {"file_write", "dynamic", "write"}
         /\ b.size \in Nat /\ b.position \in Nat /\ b.nbBits \in 0..7 /\ b.bits \in Seq(Bits)
         /\ b.current \in Seq(Bits) /\ Len(b.current) = b.nbBits /\ Len(b.bits) \in Nat
         /\ p = 8 * b.position + b.nbBits /\ p \in Nat
         /\ b.mode = "write" => /\ b.size = RoomSize /\ Len(b.bits) = BytesOf(RoomSize)
                                /\ Len(t) = BytesOf(RoomSize) /\ b.position <= RoomSize
         /\ RoomSize \in Nat /\ BytesOf(RoomSize) = 8 * RoomSize
<1>1. /\ Kind(b) /\ b \in BitStreams /\ ~Reads(b) /\ t \in Seq(Bits) /\ b.nbBits < 8
      /\ Len(b.current) = b.nbBits /\ p = 8 * b.position + b.nbBits
  BY DEF Writer, Kind, BytesOf
<1>2. /\ b.size \in Nat /\ b.position \in Nat /\ b.nbBits \in 0..8 /\ b.bits \in Seq(Bits)
      /\ b.current \in Seq(Bits) /\ b.mode \in BitModes
  BY <1>1, BitParts
<1>3. b.mode \in {"file_write", "dynamic", "write"}
  BY <1>1, <1>2 DEF Reads, BitModes
<1>4. b.nbBits \in 0..7 /\ p \in Nat /\ Len(b.bits) \in Nat
  BY <1>1, <1>2
<1>5. b.mode = "write" => /\ b.size = RoomSize /\ Len(b.bits) = BytesOf(RoomSize)
                          /\ Len(t) = BytesOf(RoomSize) /\ b.position <= RoomSize
  BY DEF Writer, Kind
<1>6. RoomSize \in Nat /\ BytesOf(RoomSize) = 8 * RoomSize
  BY BitAssumption DEF BytesOf
<1>. QED  BY <1>1, <1>2, <1>3, <1>4, <1>5, <1>6

(* A writer's place is kept as it is.                                          *)
LEMMA KeptIs ==
  ASSUME NEW b, NEW t, NEW p, Writer(b, t, p), NEW n \in Nat
  PROVE  /\ KeptAt(b.mode, p) = p /\ KeptAt(b.mode, p + n) \in Nat
         /\ KeptAt(b.mode, KeptAt(b.mode, p + n) + 1) = KeptAt(b.mode, p + n + 1)
<1>. DEFINE R == BytesOf(RoomSize)
<1>1. /\ p = 8 * b.position + b.nbBits /\ p \in Nat /\ b.nbBits \in 0..7 /\ b.position \in Nat
      /\ (b.mode = "write" => b.position <= RoomSize) /\ RoomSize \in Nat /\ R = 8 * RoomSize
  BY WriterIs
<1>2. KeptAt(b.mode, p) = p
  <2>1. CASE b.mode = "write" /\ p >= R
    <3>1. b.position = RoomSize
      BY <1>1, <2>1
    <3>2. p = R + b.nbBits /\ p % 8 = b.nbBits
      BY <1>1, <3>1
    <3>. QED  BY <2>1, <3>2 DEF KeptAt
  <2>2. CASE ~(b.mode = "write" /\ p >= R)
    BY <2>2 DEF KeptAt
  <2>. QED  BY <2>1, <2>2
<1>. DEFINE q == p + n
<1>3. q \in Nat /\ R \in Nat /\ RoomSize \in Nat /\ R = 8 * RoomSize
  <2>. HIDE DEF R
  <2>. QED  BY <1>1
<1>. HIDE DEF q, R
<1>4. q % 8 \in 0..7 /\ (R + (q % 8) + 1) % 8 = (q + 1) % 8
  <2>. DEFINE k == RoomSize
  <2>1. k \in Nat /\ R = 8 * k
    BY <1>3
  <2>. HIDE DEF k
  <2>. DEFINE m == q \div 8
              r == q % 8
  <2>2. q = 8 * m + r /\ m \in Nat /\ r \in 0..7
    BY <1>3
  <2>. HIDE DEF m, r
  <2>3. CASE r = 7
    <3>1. q + 1 = 8 * (m + 1) /\ R + r + 1 = 8 * (k + 1)
      BY <2>1, <2>2, <2>3
    <3>2. (8 * (m + 1)) % 8 = 0 /\ (8 * (k + 1)) % 8 = 0
      BY <2>1, <2>2
    <3>3. (q + 1) % 8 = (R + r + 1) % 8
      BY <3>1, <3>2
    <3>. QED  BY <2>2, <3>3 DEF r
  <2>4. CASE r # 7
    <3>1. q + 1 = 8 * m + (r + 1) /\ R + r + 1 = 8 * k + (r + 1) /\ r + 1 \in 0..7
      BY <2>1, <2>2, <2>4
    <3>2. (8 * m + (r + 1)) % 8 = r + 1 /\ (8 * k + (r + 1)) % 8 = r + 1
      BY <2>1, <2>2, <3>1
    <3>3. (q + 1) % 8 = (R + r + 1) % 8
      BY <3>1, <3>2
    <3>. QED  BY <2>2, <3>3 DEF r
  <2>. QED  BY <2>3, <2>4
<1>5. KeptAt(b.mode, q) \in Nat /\ KeptAt(b.mode, KeptAt(b.mode, q) + 1) = KeptAt(b.mode, q + 1)
  <2>. DEFINE r == q % 8
              s == (q + 1) % 8
  <2>1. r \in 0..7 /\ (R + r + 1) % 8 = s
    BY <1>4
  <2>2. CASE b.mode = "write" /\ q >= R
    <3>1. KeptAt(b.mode, q) = R + r
      BY <2>2 DEF KeptAt, R
    <3>2. KeptAt(b.mode, q + 1) = R + s
      BY <1>3, <2>2 DEF KeptAt, R
    <3>. HIDE DEF r, s
    <3>3. KeptAt(b.mode, R + r + 1) = R + s
      BY <1>3, <2>1, <2>2 DEF KeptAt, R
    <3>. QED  BY <1>3, <2>1, <3>1, <3>2, <3>3
  <2>3. CASE ~(b.mode = "write" /\ q >= R)
    <3>1. KeptAt(b.mode, q) = q
      BY <2>3 DEF KeptAt, R
    <3>. QED  BY <1>3, <3>1
  <2>. QED  BY <2>2, <2>3
<1>. QED  BY <1>2, <1>5 DEF q

(* A bit that does not fill its byte.                                          *)
LEMMA WriteOneMore ==
  ASSUME NEW b, NEW t, NEW p, Writer(b, t, p), b.nbBits < 7, NEW bit \in Bits,
         NEW u, LaidOver(b.mode, t, p, <<bit>>, u)
  PROVE  LET c == [b EXCEPT !.current = Append(@, bit), !.nbBits = @ + 1]
         IN Writer(c, u, p + 1) /\ c.mode = b.mode /\ c.nbBits # 8
<1>. DEFINE cur == Append(b.current, bit)
            k == b.nbBits
            c == [b EXCEPT !.current = Append(@, bit), !.nbBits = @ + 1]
            nt == Len(t)
            nb == Len(b.bits)
            base == 8 * b.position
<1>1. /\ Kind(b) /\ b \in BitStreams /\ ~Reads(b) /\ t \in Seq(Bits)
      /\ b.size \in Nat /\ b.position \in Nat /\ k \in 0..6 /\ b.bits \in Seq(Bits)
      /\ b.current \in Seq(Bits) /\ Len(b.current) = k /\ nb \in Nat
      /\ p = base + k /\ p \in Nat
  BY WriterIs
<1>2. /\ cur \in Seq(Bits) /\ Len(cur) = k + 1 /\ cur[k + 1] = bit
      /\ \A i \in 1..k : cur[i] = b.current[i]
  BY <1>1, AppendProperties
<1>3. c = StreamOf(b.mode, b.bits, b.size, b.position, cur, k + 1, b.eof)
  <2>1. b = [mode |-> b.mode, bits |-> b.bits, size |-> b.size, position |-> b.position,
             current |-> b.current, nbBits |-> b.nbBits, eof |-> b.eof]
    BY <1>1, BitParts
  <2>. DEFINE e == [b EXCEPT !.current = cur, !.nbBits = k + 1]
  <2>2. c = e
    BY Zenon
  <2>3. e = [b EXCEPT !.current = cur, !.nbBits = k + 1]
    BY Zenon
  <2>. HIDE DEF cur, k, e, c
  <2>4. e = StreamOf(b.mode, b.bits, b.size, b.position, cur, k + 1, b.eof)
    BY <2>1, <2>3 DEF StreamOf
  <2>. QED  BY <2>2, <2>4
<1>. HIDE DEF c, cur
<1>4. /\ c.mode = b.mode /\ c.bits = b.bits /\ c.size = b.size /\ c.position = b.position
      /\ c.current = cur /\ c.nbBits = k + 1
  BY <1>3 DEF StreamOf
<1>5. c \in BitStreams
  <2>1. /\ b.mode \in BitModes /\ b.bits \in Seq(Bits) /\ b.size \in Nat /\ b.position \in Nat
        /\ cur \in Seq(Bits) /\ k + 1 \in 0..8 /\ b.eof \in BOOLEAN
    BY <1>1, <1>2, BitParts
  <2>. HIDE DEF k
  <2>. QED  BY <1>3, <2>1 DEF StreamOf, BitStreams
<1>6. Kind(c)
  BY <1>1, <1>4, <1>5 DEF Kind, Reads
<1>7. Len(<<bit>>) = 1 /\ <<bit>>[1] = bit
  OBVIOUS
<1>8. /\ u \in Seq(Bits)
      /\ Len(u) = IF b.mode = "write" THEN nt ELSE Longest(p + 1, nt)
      /\ \A i \in 1..Len(u) : u[i] = IF i \in p + 1..p + 1 THEN <<bit>>[i - p]
                                     ELSE IF i <= nt THEN t[i] ELSE 0
  <2>. DEFINE x == <<bit>>
  <2>. HIDE DEF x, nt
  <2>1. Len(x) = 1 /\ LaidOver(b.mode, t, p, x, u)
    BY <1>7 DEF x
  <2>2. /\ u \in Seq(Bits)
        /\ Len(u) = IF b.mode = "write" THEN nt ELSE Longest(p + 1, nt)
        /\ \A i \in 1..Len(u) : u[i] = IF i \in p + 1..p + 1 THEN x[i - p]
                                       ELSE IF i <= nt THEN t[i] ELSE 0
    BY <2>1 DEF LaidOver, nt
  <2>. QED  BY <2>2 DEF x
<1>9. \A i \in 1..Len(u) : u[i] = IF i = p + 1 THEN bit ELSE IF i <= nt THEN t[i] ELSE 0
  <2>1. ASSUME NEW i \in 1..Len(u)
        PROVE  u[i] = IF i = p + 1 THEN bit ELSE IF i <= nt THEN t[i] ELSE 0
    <3>1. i \in p + 1..p + 1 <=> i = p + 1
      BY <1>1, <1>8
    <3>2. i = p + 1 => i - p = 1
      BY <1>1
    <3>. QED  BY <1>7, <1>8, <3>1, <3>2
  <2>. QED  BY <2>1
<1>10. /\ nt = IF b.mode = "write" \/ k = 0 THEN nb ELSE Longest(nb, p)
       /\ \A i \in 1..nt : IF i \in base + 1..p THEN t[i] = b.current[i - base]
                           ELSE i \in p + 1..base + (IF k = 0 THEN 0 ELSE 8)
                                \/ t[i] = IF i <= nb THEN b.bits[i] ELSE 0
  BY DEF Writer, Filling, BytesOf
<1>. HIDE DEF k, nt, nb, base
<1>11. Len(u) = IF b.mode = "write" THEN nb ELSE Longest(nb, p + 1)
  <2>1. nt \in Nat
    BY <1>1 DEF nt
  <2>. QED  BY <1>1, <1>8, <1>10, <2>1 DEF Longest
<1>12. ASSUME NEW i \in 1..Len(u)
       PROVE  IF i \in base + 1..p + 1 THEN u[i] = cur[i - base]
              ELSE i \in p + 1 + 1..base + 8 \/ u[i] = IF i <= nb THEN b.bits[i] ELSE 0
  <2>1. i \in Nat /\ i >= 1 /\ nt \in Nat /\ base \in Nat
    BY <1>1, <1>8 DEF nt, base
  <2>2. CASE i = p + 1
    <3>1. i \in base + 1..p + 1 /\ i - base = k + 1
      BY <1>1, <2>1, <2>2
    <3>. QED  BY <1>2, <1>9, <2>2, <3>1
  <2>3. CASE i # p + 1
    <3>1. u[i] = IF i <= nt THEN t[i] ELSE 0
      BY <1>9, <2>3
    <3>2. CASE i \in base + 1..p
      <4>1. i <= nt /\ i - base \in 1..k
        <5>1. k # 0 /\ i - base \in 1..k
          BY <1>1, <2>1, <3>2
        <5>2. CASE b.mode = "write"
          <6>1. Len(u) = nt
            BY <1>8, <5>2
          <6>. QED  BY <5>1, <6>1
        <5>3. CASE b.mode # "write"
          <6>1. nt >= p
            BY <1>1, <1>10, <5>1, <5>3, LongestIs
          <6>. QED  BY <1>1, <2>1, <3>2, <5>1, <6>1
        <5>. QED  BY <2>1, <5>1, <5>2, <5>3
      <4>2. i \in 1..nt
        BY <2>1, <4>1
      <4>3. t[i] = b.current[i - base]
        BY <1>10, <3>2, <4>2
      <4>4. i \in base + 1..p + 1
        BY <1>1, <2>1, <3>2
      <4>. QED  BY <1>2, <3>1, <4>1, <4>3, <4>4
    <3>3. CASE i \notin base + 1..p
      <4>1. i \notin base + 1..p + 1
        BY <1>1, <2>1, <2>3, <3>3
      <4>2. CASE i \in p + 1 + 1..base + 8
        BY <4>1, <4>2
      <4>3. CASE i \notin p + 1 + 1..base + 8
        <5>1. i \notin p + 1..base + (IF k = 0 THEN 0 ELSE 8)
          BY <1>1, <2>1, <2>3, <4>3
        <5>2. CASE i <= nt
          <6>1. i \in 1..nt
            BY <2>1, <5>2
          <6>2. t[i] = IF i <= nb THEN b.bits[i] ELSE 0
            BY <1>10, <3>3, <5>1, <6>1
          <6>. QED  BY <3>1, <4>1, <5>2, <6>2
        <5>3. CASE ~(i <= nt)
          <6>1. nt >= nb
            BY <1>1, <1>10, LongestIs
          <6>2. ~(i <= nb)
            BY <1>1, <2>1, <5>3, <6>1
          <6>. QED  BY <3>1, <4>1, <5>3, <6>2
        <5>. QED  BY <5>2, <5>3
      <4>. QED  BY <4>2, <4>3
    <3>. QED  BY <3>2, <3>3
  <2>. QED  BY <2>2, <2>3
<1>13. Filling(c, u, p + 1)
  <2>1. c.nbBits # 0 /\ BytesOf(c.position) = base
    BY <1>1, <1>4 DEF BytesOf, base
  <2>. QED  BY <1>4, <1>12, <2>1 DEF Filling, nb
<1>14. Writer(c, u, p + 1)
  <2>1. /\ p + 1 = BytesOf(c.position) + c.nbBits /\ c.nbBits < 8 /\ Len(c.current) = c.nbBits
        /\ c.nbBits # 0
    <3>1. BytesOf(c.position) = base /\ base \in Nat
      BY <1>1, <1>4 DEF BytesOf, base
    <3>. QED  BY <1>1, <1>2, <1>4, <3>1
  <2>2. Len(u) = IF c.mode = "write" \/ c.nbBits = 0 THEN Len(c.bits) ELSE Longest(Len(c.bits), p + 1)
    BY <1>4, <1>11, <2>1 DEF nb
  <2>. QED  BY <1>6, <1>8, <1>13, <2>1, <2>2 DEF Writer
<1>. QED  BY <1>1, <1>4, <1>14 DEF c

(* The bit that fills its byte.                                                *)
LEMMA WriteTheLast ==
  ASSUME NEW b, NEW t, NEW p, Writer(b, t, p), b.nbBits = 7, NEW bit \in Bits,
         NEW u, LaidOver(b.mode, t, p, <<bit>>, u)
  PROVE  LET s == [b EXCEPT !.current = Append(@, bit), !.nbBits = @ + 1]
         IN /\ s.nbBits = 8 /\ Writer(BS_WriteByte(s), u, KeptAt(b.mode, p + 1))
            /\ BS_WriteByte(s).mode = b.mode
<1>. DEFINE cur == Append(b.current, bit)
            s == [b EXCEPT !.current = Append(@, bit), !.nbBits = @ + 1]
            d == BS_WriteByte(s)
            nt == Len(t)
            nb == Len(b.bits)
            base == 8 * b.position
            x == <<bit>>
<1>1. /\ Kind(b) /\ b \in BitStreams /\ ~Reads(b) /\ t \in Seq(Bits)
      /\ b.size \in Nat /\ b.position \in Nat /\ b.bits \in Seq(Bits)
      /\ b.current \in Seq(Bits) /\ Len(b.current) = 7 /\ nb \in Nat
      /\ p = base + 7 /\ p \in Nat /\ b.eof \in BOOLEAN /\ b.mode \in BitModes
  BY WriterIs, BitParts
<1>2. /\ cur \in Seq(Bits) /\ Len(cur) = 8 /\ cur[8] = bit
      /\ \A i \in 1..7 : cur[i] = b.current[i]
  <2>. DEFINE k == Len(b.current)
  <2>1. /\ cur \in Seq(Bits) /\ Len(cur) = k + 1 /\ cur[k + 1] = bit
        /\ \A i \in 1..k : cur[i] = b.current[i]
    <3>1. b.current \in Seq(Bits) /\ bit \in Bits
      BY <1>1
    <3>. DEFINE z == b.current
    <3>2. z \in Seq(Bits)
      BY <3>1
    <3>. HIDE DEF z
    <3>3. /\ Append(z, bit) \in Seq(Bits) /\ Len(Append(z, bit)) = Len(z) + 1
          /\ Append(z, bit)[Len(z) + 1] = bit
          /\ \A i \in 1..Len(z) : Append(z, bit)[i] = z[i]
      BY <3>2, AppendProperties
    <3>. QED  BY <3>3, Zenon DEF z
  <2>2. k = 7 /\ k + 1 = 8
    BY <1>1
  <2>. HIDE DEF k, cur
  <2>. QED  BY <2>1, <2>2
<1>3. s = StreamOf(b.mode, b.bits, b.size, b.position, cur, 8, b.eof)
  <2>1. b = [mode |-> b.mode, bits |-> b.bits, size |-> b.size, position |-> b.position,
             current |-> b.current, nbBits |-> b.nbBits, eof |-> b.eof]
    BY <1>1, BitParts
  <2>. DEFINE e == [b EXCEPT !.current = cur, !.nbBits = 8]
  <2>2. s = e
    <3>1. b.nbBits + 1 = 8
      OBVIOUS
    <3>. QED  BY <3>1, Zenon
  <2>3. e = [b EXCEPT !.current = cur, !.nbBits = 8]
    BY Zenon
  <2>. HIDE DEF cur, e, s
  <2>4. e = StreamOf(b.mode, b.bits, b.size, b.position, cur, 8, b.eof)
    BY <2>1, <2>3 DEF StreamOf
  <2>. QED  BY <2>2, <2>4
<1>4. /\ Len(x) = 1 /\ x[1] = bit /\ LaidOver(b.mode, t, p, x, u)
  OBVIOUS
<1>. HIDE DEF s, cur, x
<1>5. /\ s.mode = b.mode /\ s.bits = b.bits /\ s.size = b.size /\ s.position = b.position
      /\ s.current = cur /\ s.nbBits = 8 /\ s.eof = b.eof
  BY <1>3 DEF StreamOf
<1>6. s \in BitStreams
  <2>1. cur \in Seq(Bits) /\ 8 \in 0..8
    BY <1>2
  <2>. QED  BY <1>1, <1>3, <2>1 DEF StreamOf, BitStreams
<1>7. Kind(s) /\ ~Reads(s)
  BY <1>1, <1>5, <1>6 DEF Kind, Reads
<1>8. /\ u \in Seq(Bits)
      /\ Len(u) = IF b.mode = "write" THEN nt ELSE Longest(p + 1, nt)
      /\ \A i \in 1..Len(u) : u[i] = IF i \in p + 1..p + 1 THEN x[i - p]
                                     ELSE IF i <= nt THEN t[i] ELSE 0
  BY <1>4 DEF LaidOver
<1>9. \A i \in 1..Len(u) : u[i] = IF i = p + 1 THEN bit ELSE IF i <= nt THEN t[i] ELSE 0
  <2>1. ASSUME NEW i \in 1..Len(u)
        PROVE  u[i] = IF i = p + 1 THEN bit ELSE IF i <= nt THEN t[i] ELSE 0
    <3>1. i \in p + 1..p + 1 <=> i = p + 1
      BY <1>1, <1>8
    <3>2. i = p + 1 => i - p = 1
      BY <1>1
    <3>. QED  BY <1>4, <1>8, <3>1, <3>2
  <2>. QED  BY <2>1
<1>10. /\ nt = IF b.mode = "write" THEN nb ELSE Longest(nb, p)
       /\ \A i \in 1..nt : IF i \in base + 1..p THEN t[i] = b.current[i - base]
                           ELSE i \in p + 1..base + 8
                                \/ t[i] = IF i <= nb THEN b.bits[i] ELSE 0
  BY DEF Writer, Filling, BytesOf
<1>. HIDE DEF nt, nb, base
<1>11. Len(u) = (IF b.mode = "write" THEN nb ELSE Longest(nb, p + 1)) /\ nt \in Nat /\ base \in Nat
       /\ nt >= nb
  <2>1. nt \in Nat /\ base \in Nat
    BY <1>1 DEF nt, base
  <2>. QED  BY <1>1, <1>8, <1>10, <2>1 DEF Longest
<1>12. s.position + 1 \in Nat
  BY <1>1, <1>5
<1>13. CASE Holds(s, 1)
  <2>1. d = Emptied(BytesWritten(s, s.current))
    BY <1>7, <1>13, Zenon DEF BS_WriteByte, Emptied
  <2>2. s.current \in Seq(Bits) /\ Len(s.current) = 8 * 1 /\ 1 \in Nat
    BY <1>2, <1>5
  <2>. HIDE DEF d
  <2>3. /\ Kind(d) /\ d.mode = s.mode /\ d.position = s.position + 1 /\ d.nbBits = 0
        /\ d.current = <<>> /\ d.bits = Overwritten(s.bits, 8 * s.position, s.current)
        /\ Len(d.bits) = Longest(8 * (s.position + 1), Len(s.bits))
    <3>. DEFINE n == 1
    <3>1. n \in Nat /\ n # 0 /\ Len(s.current) = 8 * n /\ Holds(s, n) /\ n = 1
      BY <1>13, <2>2
    <3>. HIDE DEF n
    <3>2. /\ Kind(d) /\ d.mode = s.mode /\ d.position = s.position + n /\ d.nbBits = 0
          /\ d.current = <<>> /\ d.bits = Overwritten(s.bits, 8 * s.position, s.current)
          /\ Len(d.bits) = IF n = 0 THEN Len(s.bits)
                           ELSE Longest(8 * (s.position + n), Len(s.bits))
      <4>. DEFINE y == s.current
      <4>1. /\ Kind(s) /\ n \in Nat /\ y \in Seq(Bits) /\ Len(y) = 8 * n /\ Holds(s, n)
            /\ d = Emptied(BytesWritten(s, y))
        BY <1>7, <2>1, <2>2, <3>1
      <4>. HIDE DEF y
      <4>2. /\ Kind(d) /\ d.mode = s.mode /\ d.position = s.position + n /\ d.nbBits = 0
            /\ d.current = <<>> /\ d.bits = Overwritten(s.bits, 8 * s.position, y)
            /\ Len(d.bits) = IF n = 0 THEN Len(s.bits)
                             ELSE Longest(8 * (s.position + n), Len(s.bits))
        BY ONLY <4>1, BytesWrittenIs
      <4>. QED  BY <4>2 DEF y
    <3>. QED  BY <3>1, <3>2
  <2>4. 8 * (s.position + 1) = p + 1 /\ 8 * s.position = base
    BY <1>1, <1>5 DEF base
  <2>5. \A i \in 1..Len(d.bits) :
          d.bits[i] = IF i \in base + 1..base + 8 THEN cur[i - base]
                      ELSE IF i <= nb THEN b.bits[i] ELSE 0
    <3>1. d.bits = Overwritten(b.bits, base, cur)
      BY <1>5, <2>3, <2>4
    <3>. DEFINE k == Len(cur)
                o == Overwritten(b.bits, base, cur)
    <3>2. k = 8 /\ k # 0
      BY <1>2
    <3>3. \A i \in 1..Len(o) : o[i] = IF i \in base + 1..base + k THEN cur[i - base]
                                      ELSE IF i <= Len(b.bits) THEN b.bits[i] ELSE 0
      <4>. DEFINE z == b.bits
                  v == Overwritten(z, base, cur)
      <4>1. z \in Seq(Bits) /\ base \in Nat /\ cur \in Seq(Bits) /\ v = Overwritten(z, base, cur)
        BY <1>1, <1>2, <1>11
      <4>. HIDE DEF v, z
      <4>2. \A i \in 1..Len(v) : v[i] = IF i \in base + 1..base + Len(cur) THEN cur[i - base]
                                        ELSE IF i <= Len(z) THEN z[i] ELSE 0
        BY ONLY <4>1, OverwrittenIs
      <4>. QED  BY <4>2 DEF v, z
    <3>. HIDE DEF k, o
    <3>. QED  BY <3>1, <3>2, <3>3 DEF nb, o
  <2>6. Len(d.bits) = Longest(p + 1, nb)
    BY <1>5, <2>3, <2>4 DEF nb
  <2>7. Len(u) = Len(d.bits)
    <3>1. CASE b.mode = "write"
      <4>1. nb = 8 * RoomSize /\ RoomSize \in Nat
        BY <3>1, WriterIs DEF nb
      <4>2. s.position + 1 <= RoomSize
        BY <1>5, <1>13, <3>1, WriterIs DEF Holds
      <4>3. p + 1 <= nb
        BY <1>12, <2>4, <4>1, <4>2
      <4>. QED  BY <1>1, <1>11, <2>6, <3>1, <4>3, LongestIs
    <3>2. CASE b.mode # "write"
      BY <1>1, <1>11, <2>6, <3>2 DEF Longest
    <3>. QED  BY <3>1, <3>2
  <2>8. ASSUME NEW i \in 1..Len(u)
        PROVE  u[i] = d.bits[i]
    <3>1. i \in Nat /\ i >= 1 /\ i \in 1..Len(d.bits)
      BY <1>8, <2>7
    <3>2. CASE i = p + 1
      <4>1. i \in base + 1..base + 8 /\ i - base = 8
        BY <1>1, <1>11, <3>1, <3>2
      <4>. QED  BY <1>2, <1>9, <2>5, <3>1, <3>2, <4>1
    <3>3. CASE i \in base + 1..p
      <4>1. i \in base + 1..base + 8 /\ i - base \in 1..7 /\ i # p + 1
        BY <1>1, <1>11, <3>1, <3>3
      <4>2. i \in 1..nt
        <5>1. CASE b.mode = "write"
          <6>1. Len(u) = nt
            BY <1>8, <5>1
          <6>. QED  BY <6>1
        <5>2. CASE b.mode # "write"
          <6>1. nt >= p
            BY <1>1, <1>10, <5>2, LongestIs
          <6>. QED  BY <1>1, <1>11, <3>1, <3>3, <6>1
        <5>. QED  BY <5>1, <5>2
      <4>3. t[i] = b.current[i - base]
        BY <1>10, <3>3, <4>2
      <4>4. u[i] = t[i]
        BY <1>9, <1>11, <4>1, <4>2
      <4>5. d.bits[i] = cur[i - base]
        BY <2>5, <3>1, <4>1
      <4>. QED  BY <1>2, <4>1, <4>3, <4>4, <4>5
    <3>4. CASE i # p + 1 /\ i \notin base + 1..p
      <4>1. i \notin base + 1..base + 8 /\ i \notin p + 1..base + 8
        BY <1>1, <1>11, <3>1, <3>4
      <4>2. d.bits[i] = IF i <= nb THEN b.bits[i] ELSE 0
        BY <2>5, <3>1, <4>1
      <4>3. u[i] = IF i <= nt THEN t[i] ELSE 0
        BY <1>9, <3>4
      <4>4. CASE i <= nt
        <5>1. i \in 1..nt
          BY <1>11, <3>1, <4>4
        <5>2. t[i] = IF i <= nb THEN b.bits[i] ELSE 0
          BY <1>10, <3>4, <4>1, <5>1
        <5>. QED  BY <4>2, <4>3, <4>4, <5>2
      <4>5. CASE ~(i <= nt)
        <5>1. ~(i <= nb)
          BY <1>1, <1>11, <3>1, <4>5
        <5>. QED  BY <4>2, <4>3, <4>5, <5>1
      <4>. QED  BY <4>4, <4>5
    <3>. QED  BY <3>2, <3>3, <3>4
  <2>9. u = d.bits
    <3>1. d.bits \in Seq(Bits)
      BY <2>3, BitParts DEF Kind
    <3>. QED  BY <1>8, <2>7, <2>8, <3>1, SeqEqual
  <2>10. KeptAt(b.mode, p + 1) = p + 1
    <3>1. ASSUME b.mode = "write", p + 1 >= BytesOf(RoomSize)
          PROVE  BytesOf(RoomSize) + ((p + 1) % 8) = p + 1
      <4>1. RoomSize \in Nat /\ BytesOf(RoomSize) = 8 * RoomSize
        BY WriterIs
      <4>2. s.position + 1 <= RoomSize
        BY <1>5, <1>13, <3>1, WriterIs DEF Holds
      <4>3. p + 1 = 8 * RoomSize
        BY <1>1, <1>12, <2>4, <3>1, <4>1, <4>2
      <4>4. (8 * RoomSize) % 8 = 0
        BY <4>1
      <4>. QED  BY <4>1, <4>3, <4>4
    <3>. QED  BY <3>1 DEF KeptAt
  <2>11. Filling(d, u, p + 1)
    <3>1. BytesOf(d.position) = p + 1 /\ d.nbBits = 0
      BY <1>5, <2>3, <2>4 DEF BytesOf
    <3>2. \A i \in 1..Len(u) : i \notin p + 1 + 1..p + 1 /\ i <= Len(d.bits)
      BY <1>1, <1>8, <2>7
    <3>. QED  BY <2>9, <3>1, <3>2 DEF Filling
  <2>12. Writer(d, u, p + 1)
    <3>1. p + 1 = BytesOf(d.position) + d.nbBits /\ d.nbBits < 8 /\ Len(d.current) = d.nbBits
      BY <1>1, <1>5, <2>3, <2>4 DEF BytesOf
    <3>2. Len(u) = IF d.mode = "write" \/ d.nbBits = 0 THEN Len(d.bits)
                   ELSE Longest(Len(d.bits), p + 1)
      BY <2>3, <2>7
    <3>. QED  BY <1>8, <2>3, <2>11, <3>1, <3>2 DEF Writer
  <2>. QED  BY <1>5, <2>3, <2>10, <2>12 DEF s, d
<1>14. CASE ~Holds(s, 1)
  <2>. DEFINE none == <<>>
              e == [s EXCEPT !.current = none, !.nbBits = 0]
  <2>1. d = e
    BY <1>14, Zenon DEF BS_WriteByte
  <2>2. e = [s EXCEPT !.current = none, !.nbBits = 0]
    BY Zenon
  <2>3. s = [mode |-> s.mode, bits |-> s.bits, size |-> s.size, position |-> s.position,
             current |-> s.current, nbBits |-> s.nbBits, eof |-> s.eof]
    BY <1>6, BitParts
  <2>. HIDE DEF e, none, d
  <2>4. d = StreamOf(b.mode, b.bits, b.size, b.position, none, 0, b.eof)
    <3>1. e = StreamOf(s.mode, s.bits, s.size, s.position, none, 0, s.eof)
      BY <2>2, <2>3 DEF StreamOf
    <3>. QED  BY <1>5, <2>1, <3>1
  <2>5. /\ d.mode = b.mode /\ d.bits = b.bits /\ d.size = b.size /\ d.position = b.position
        /\ d.current = none /\ d.nbBits = 0
    BY <2>4 DEF StreamOf
  <2>6. d \in BitStreams
    <3>1. none \in Seq(Bits) /\ 0 \in 0..8
      BY DEF none
    <3>. QED  BY <1>1, <2>4, <3>1 DEF StreamOf, BitStreams
  <2>7. Kind(d)
    BY <1>1, <2>5, <2>6 DEF Kind, Reads
  <2>8. b.mode = "write" /\ b.position = RoomSize /\ RoomSize \in Nat /\ nb = 8 * RoomSize
        /\ BytesOf(RoomSize) = 8 * RoomSize
    <3>1. b.mode = "write" /\ ~(b.position + 1 <= b.size)
      BY <1>5, <1>14 DEF Holds
    <3>2. b.size = RoomSize /\ b.position <= RoomSize /\ RoomSize \in Nat /\ nb = 8 * RoomSize
          /\ BytesOf(RoomSize) = 8 * RoomSize
      BY <3>1, WriterIs DEF nb
    <3>. QED  BY <1>1, <3>1, <3>2
  <2>9. KeptAt(b.mode, p + 1) = base /\ base = nb
    <3>1. base = 8 * RoomSize /\ p + 1 = 8 * (RoomSize + 1) /\ p + 1 >= BytesOf(RoomSize)
      BY <1>1, <2>8 DEF base
    <3>2. (8 * (RoomSize + 1)) % 8 = 0
      BY <2>8
    <3>. QED  BY <2>8, <3>1, <3>2 DEF KeptAt
  <2>10. Len(u) = nb /\ nt = nb
    BY <1>10, <1>11, <2>8
  <2>11. ASSUME NEW i \in 1..Len(u) PROVE u[i] = IF i <= nb THEN b.bits[i] ELSE 0
    <3>1. i \in 1..nt /\ i # p + 1 /\ i <= nt /\ i \notin base + 1..p /\ i \notin p + 1..base + 8
      BY <1>1, <1>11, <2>9, <2>10
    <3>2. u[i] = t[i]
      BY <1>9, <3>1
    <3>. QED  BY <1>10, <3>1, <3>2
  <2>12. Filling(d, u, base)
    <3>1. BytesOf(d.position) = base /\ d.nbBits = 0
      BY <2>5 DEF BytesOf, base
    <3>2. \A i \in 1..Len(u) : i \notin base + 1..base
      BY <1>11
    <3>. QED  BY <2>5, <2>11, <3>1, <3>2 DEF Filling, nb
  <2>13. Writer(d, u, base)
    <3>1. base = BytesOf(d.position) + d.nbBits /\ d.nbBits < 8 /\ Len(d.current) = d.nbBits
      BY <1>1, <2>5 DEF BytesOf, base, none
    <3>2. Len(u) = IF d.mode = "write" \/ d.nbBits = 0 THEN Len(d.bits)
                   ELSE Longest(Len(d.bits), base)
      BY <2>5, <2>8, <2>10 DEF nb
    <3>. QED  BY <1>8, <2>7, <2>12, <3>1, <3>2 DEF Writer
  <2>. QED  BY <1>5, <2>5, <2>9, <2>13 DEF s, d
<1>. QED  BY <1>13, <1>14

(* A bit is written.                                                           *)
LEMMA WriteBitIs ==
  ASSUME NEW b, NEW t, NEW p, Writer(b, t, p), NEW bit \in Bits,
         NEW u, LaidOver(b.mode, t, p, <<bit>>, u), NEW d, d = BS_WriteBit(b, bit)
  PROVE  Writer(d, u, KeptAt(b.mode, p + 1)) /\ d.mode = b.mode
<1>. DEFINE s == [b EXCEPT !.current = Append(@, bit), !.nbBits = @ + 1]
<1>1. d = IF s.nbBits = 8 THEN BS_WriteByte(s) ELSE s
  BY Zenon DEF BS_WriteBit
<1>2. b.nbBits \in 0..7
  BY WriterIs
<1>3. CASE b.nbBits = 7
  <2>1. s.nbBits = 8 /\ Writer(BS_WriteByte(s), u, KeptAt(b.mode, p + 1)) /\ BS_WriteByte(s).mode = b.mode
    BY <1>3, WriteTheLast, Zenon
  <2>. HIDE DEF s
  <2>. QED  BY <1>1, <2>1, Zenon
<1>4. CASE b.nbBits # 7
  <2>1. b.nbBits < 7
    BY <1>2, <1>4
  <2>2. Writer(s, u, p + 1) /\ s.mode = b.mode /\ s.nbBits # 8
    BY <2>1, WriteOneMore, Zenon
  <2>. HIDE DEF s
  <2>3. d = s
    BY <1>1, <2>2, Zenon
  <2>4. KeptAt(d.mode, p + 1) = p + 1
    BY <2>2, <2>3, KeptIs
  <2>. QED  BY <2>2, <2>3, <2>4
<1>. QED  BY <1>3, <1>4

(* Nothing is laid over a tape.                                                *)
LEMMA LaidNone ==
  ASSUME NEW mode, NEW t \in Seq(Bits), NEW p \in Nat
  PROVE  LaidOver(mode, t, p, <<>>, t)
<1>. DEFINE x == <<>>
<1>1. Len(x) = 0
  OBVIOUS
<1>. HIDE DEF x
<1>2. ASSUME NEW i \in 1..Len(t) PROVE i \notin p + 1..p + Len(x) /\ i <= Len(t)
  BY <1>1
<1>3. LaidOver(mode, t, p, x, t)
  BY <1>1, <1>2 DEF LaidOver
<1>. QED  BY <1>3 DEF x

(* A number is written: it is laid over the tape, from the place on.           *)
LEMMA WriteIntIs ==
  ASSUME NEW b, NEW t, NEW p, Writer(b, t, p), NEW x \in Seq(Bits),
         NEW u, LaidOver(b.mode, t, p, x, u), NEW d, d = gf_bs_write_int(b, x)
  PROVE  Writer(d, u, KeptAt(b.mode, p + Len(x))) /\ d.mode = b.mode
<1>. DEFINE n == Len(x)
            P(k) == SubSeq(x, 1, k)
            T(k) == TapeOf(b.mode, t, p, P(k))
<1>1. /\ t \in Seq(Bits) /\ p \in Nat /\ n \in Nat
      /\ b.mode = "write" => Len(t) = BytesOf(RoomSize)
  BY WriterIs
<1>2. PICK f : /\ f[0] = b /\ d = f[n]
               /\ \A k \in 1..n : f[k] = BS_WriteBit(f[k - 1], x[k])
  <2>1. Len(x) \in Nat
    BY <1>1
  <2>2. \E f : /\ f[0] = b /\ gf_bs_write_int(b, x) = f[Len(x)]
               /\ \A k \in 1..Len(x) : f[k] = BS_WriteBit(f[k - 1], x[k])
    BY <2>1, WritingIs
  <2>. QED  BY <2>2, Zenon
<1>3. \A k \in 0..n : P(k) \in Seq(Bits) /\ Len(P(k)) = k /\ \A i \in 1..k : P(k)[i] = x[i]
  BY <1>1
<1>. HIDE DEF P
<1>4. \A k \in 0..n : LaidOver(b.mode, t, p, P(k), T(k))
  <2>1. ASSUME NEW k \in 0..n PROVE LaidOver(b.mode, t, p, P(k), T(k))
    <3>. DEFINE y == P(k)
    <3>1. y \in Seq(Bits)
      BY <1>3
    <3>. HIDE DEF y
    <3>2. LaidOver(b.mode, t, p, y, TapeOf(b.mode, t, p, y))
      BY <1>1, <3>1, TapeOfIs
    <3>. QED  BY <3>2 DEF y
  <2>. QED  BY <2>1
<1>. HIDE DEF T
<1>. DEFINE S == {k \in Nat : k <= n => /\ Writer(f[k], T(k), KeptAt(b.mode, p + k))
                                        /\ f[k].mode = b.mode}
<1>5. 0 \in S
  <2>1. 0 \in 0..n
    BY <1>1
  <2>2. P(0) = <<>>
    BY <1>3, <2>1
  <2>3. LaidOver(b.mode, t, p, <<>>, t)
    BY <1>1, LaidNone
  <2>4. T(0) = t
    BY <1>4, <2>1, <2>2, <2>3, LaidSame
  <2>5. KeptAt(b.mode, p + 0) = p
    <3>1. p + 0 = p /\ KeptAt(b.mode, p) = p
      BY <1>1, KeptIs
    <3>. QED  BY <3>1
  <2>. QED  BY <1>2, <2>4, <2>5
<1>6. ASSUME NEW k \in Nat, k \in S PROVE k + 1 \in S
  <2>1. SUFFICES ASSUME k + 1 <= n
                 PROVE  /\ Writer(f[k + 1], T(k + 1), KeptAt(b.mode, p + (k + 1)))
                        /\ f[k + 1].mode = b.mode
    OBVIOUS
  <2>. DEFINE q == KeptAt(b.mode, p + k)
              bit == x[k + 1]
              v == TapeOf(b.mode, T(k), q, <<bit>>)
  <2>2. k \in 0..n /\ k + 1 \in 1..n /\ k + 1 \in 0..n /\ k <= n /\ (k + 1) - 1 = k
    BY <1>1, <2>1
  <2>3. Writer(f[k], T(k), q) /\ f[k].mode = b.mode
    BY <1>6, <2>2
  <2>4. bit \in Bits
    BY <2>2
  <2>5. f[k + 1] = BS_WriteBit(f[k], bit)
    BY <1>2, <2>2
  <2>6. /\ T(k) \in Seq(Bits) /\ q \in Nat
        /\ b.mode = "write" => Len(T(k)) = BytesOf(RoomSize)
    <3>. DEFINE g == f[k]
                w == T(k)
    <3>. HIDE DEF g, w, q
    <3>1. Writer(g, w, q) /\ g.mode = b.mode
      BY <2>3 DEF g, w
    <3>. QED  BY <3>1, WriterIs DEF w
  <2>7. LaidOver(b.mode, T(k), q, <<bit>>, v)
    <3>. DEFINE w == T(k)
                y == <<bit>>
    <3>1. y \in Seq(Bits) /\ w \in Seq(Bits) /\ q \in Nat
          /\ (b.mode = "write" => Len(w) = BytesOf(RoomSize))
      BY <2>4, <2>6
    <3>. HIDE DEF w, y, q
    <3>2. LaidOver(b.mode, w, q, y, TapeOf(b.mode, w, q, y))
      BY <3>1, TapeOfIs
    <3>. QED  BY <3>2, Zenon DEF w, y
  <2>. HIDE DEF v
  <2>8. Writer(f[k + 1], v, KeptAt(b.mode, q + 1)) /\ f[k + 1].mode = b.mode
    <3>. DEFINE g == f[k]
                w == T(k)
                h == f[k + 1]
    <3>1. Writer(g, w, q) /\ g.mode = b.mode /\ h = BS_WriteBit(g, bit)
          /\ LaidOver(g.mode, w, q, <<bit>>, v) /\ bit \in Bits
      BY <2>3, <2>4, <2>5, <2>7
    <3>. HIDE DEF g, w, h, q, bit
    <3>2. Writer(h, v, KeptAt(g.mode, q + 1)) /\ h.mode = g.mode
      BY <3>1, WriteBitIs
    <3>. QED  BY <3>1, <3>2 DEF h
  <2>9. KeptAt(b.mode, q + 1) = KeptAt(b.mode, p + (k + 1))
    <3>1. KeptAt(b.mode, q + 1) = KeptAt(b.mode, p + k + 1)
      BY KeptIs
    <3>2. p + k + 1 = p + (k + 1)
      BY <1>1
    <3>. QED  BY <3>1, <3>2
  <2>10. T(k + 1) = v
    <3>. DEFINE y == <<bit>>
                z == P(k + 1)
                o == P(k)
                w == T(k)
    <3>1. y \in Seq(Bits) /\ Len(y) = 1 /\ y[1] = bit
      BY <2>4
    <3>2. /\ z \in Seq(Bits) /\ o \in Seq(Bits) /\ Len(o) = k /\ Len(z) = k + 1
          /\ \A i \in 1..k : z[i] = o[i]
          /\ z[k + 1] = bit
      <4>1. /\ z \in Seq(Bits) /\ o \in Seq(Bits) /\ Len(o) = k /\ Len(z) = k + 1
            /\ (\A i \in 1..k + 1 : z[i] = x[i]) /\ \A i \in 1..k : o[i] = x[i]
        BY <1>3, <2>2
      <4>2. k + 1 \in 1..k + 1 /\ \A i \in 1..k : i \in 1..k + 1
        OBVIOUS
      <4>. HIDE DEF z, o
      <4>. QED  BY <4>1, <4>2
    <3>3. LaidOver(b.mode, t, p, o, w) /\ LaidOver(b.mode, t, p, z, T(k + 1))
      BY <1>4, <2>2
    <3>4. LaidOver(b.mode, w, q, y, v)
      BY <2>7
    <3>. HIDE DEF y, z, o, w, q, bit
    <3>5. /\ Len(z) = Len(o) + Len(y)
          /\ \A i \in 1..Len(o) : z[i] = o[i]
          /\ \A i \in 1..Len(y) : z[Len(o) + i] = y[i]
      BY <3>1, <3>2
    <3>6. q = KeptAt(b.mode, p + Len(o))
      BY <3>2 DEF q
    <3>7. LaidOver(b.mode, t, p, z, v)
      BY <1>1, <3>1, <3>2, <3>3, <3>4, <3>5, <3>6, LaidOn
    <3>. QED  BY <3>3, <3>7, LaidSame
  <2>. QED  BY <2>8, <2>9, <2>10
<1>7. n \in S
  <2>1. Nat \subseteq S
    <3>. HIDE DEF S
    <3>. QED  BY <1>5, <1>6, SetInduction
  <2>. QED  BY <1>1, <2>1
<1>8. Writer(d, T(n), KeptAt(b.mode, p + n)) /\ d.mode = b.mode
  BY <1>1, <1>2, <1>7
<1>9. T(n) = u
  <2>1. n \in 0..n
    BY <1>1
  <2>2. P(n) = x
    <3>1. P(n) \in Seq(Bits) /\ Len(P(n)) = Len(x) /\ \A i \in 1..Len(P(n)) : P(n)[i] = x[i]
      BY <1>3, <2>1
    <3>. QED  BY <3>1, SeqEqual
  <2>3. LaidOver(b.mode, t, p, x, T(n))
    BY <1>4, <2>1, <2>2
  <2>. QED  BY <2>3, LaidSame
<1>. QED  BY <1>8, <1>9

LEMMA ZerosAre ==
  ASSUME NEW n \in Nat
  PROVE  Zeros(n) \in Seq(Bits) /\ Len(Zeros(n)) = n /\ \A i \in 1..n : Zeros(n)[i] = 0
  BY DEF Zeros, Bits

(* A writer between two bytes: the tape is what the stream holds.              *)
LEMMA SettledIs ==
  ASSUME NEW d, Kind(d), d.nbBits = 0, d.current = <<>>
  PROVE  Writer(d, d.bits, 8 * d.position)
<1>. DEFINE t == d.bits
            p == 8 * d.position
<1>1. d \in BitStreams
  BY DEF Kind
<1>2. t \in Seq(Bits) /\ d.position \in Nat
  BY <1>1, BitParts
<1>3. p = BytesOf(d.position) + d.nbBits /\ d.nbBits < 8 /\ Len(d.current) = d.nbBits
  BY <1>2 DEF BytesOf
<1>4. \A i \in 1..Len(t) : i \notin p + 1..p /\ i <= Len(t)
  BY <1>2
<1>5. BytesOf(d.position) = p
  BY DEF BytesOf
<1>. HIDE DEF t, p
<1>6. Filling(d, t, p)
  <2>1. t = d.bits
    BY DEF t
  <2>. QED  BY <1>4, <1>5, <2>1 DEF Filling
<1>7. Len(t) = IF d.mode = "write" \/ d.nbBits = 0 THEN Len(d.bits) ELSE Longest(Len(d.bits), p)
  BY DEF t
<1>8. Writer(d, t, p)
  BY <1>2, <1>3, <1>6, <1>7 DEF Writer
<1>. QED  BY <1>8 DEF t, p

LEMMA SettledTape ==
  ASSUME NEW b, NEW t, NEW p, Writer(b, t, p), b.nbBits = 0
  PROVE  t = b.bits /\ p = 8 * b.position /\ b.current = <<>>
<1>1. /\ t \in Seq(Bits) /\ b.bits \in Seq(Bits) /\ b.position \in Nat /\ p = 8 * b.position
      /\ b.current \in Seq(Bits) /\ Len(b.current) = 0
  <2>1. /\ t \in Seq(Bits) /\ b.bits \in Seq(Bits) /\ b.position \in Nat
        /\ p = 8 * b.position + b.nbBits /\ b.current \in Seq(Bits) /\ Len(b.current) = b.nbBits
    BY WriterIs
  <2>. QED  BY <2>1
<1>2. Len(t) = Len(b.bits) /\ Filling(b, t, p)
  BY DEF Writer
<1>3. \A i \in 1..Len(t) : t[i] = b.bits[i]
  <2>1. ASSUME NEW i \in 1..Len(t) PROVE t[i] = b.bits[i]
    <3>1. i \notin BytesOf(b.position) + 1..p /\ i <= Len(b.bits)
          /\ i \notin p + 1..BytesOf(b.position) + 0
      BY <1>1, <1>2 DEF BytesOf
    <3>. QED  BY <1>2, <3>1 DEF Filling
  <2>. QED  BY <2>1
<1>4. t = b.bits
  BY <1>1, <1>2, <1>3, SeqEqual
<1>5. b.current = <<>>
  BY <1>1
<1>. QED  BY <1>1, <1>4, <1>5

(* Bytes are written together.                                                 *)
LEMMA WriteDataIs ==
  ASSUME NEW b, NEW t, NEW p, Writer(b, t, p), b.nbBits = 0, NEW n \in Nat, NEW x \in Seq(Bits),
         Len(x) = 8 * n, Holds(b, n), NEW u, LaidOver(b.mode, t, p, x, u),
         NEW d, d = BytesWritten(b, x)
  PROVE  Writer(d, u, KeptAt(b.mode, p + Len(x))) /\ d.mode = b.mode
<1>. DEFINE base == 8 * b.position
            nx == Len(x)
            nb == Len(b.bits)
<1>1. /\ Kind(b) /\ b \in BitStreams /\ b.bits \in Seq(Bits) /\ b.position \in Nat /\ nb \in Nat
      /\ b.size \in Nat
      /\ b.mode = "write" => b.size = RoomSize /\ nb = 8 * RoomSize /\ RoomSize \in Nat
  BY WriterIs
<1>2. t = b.bits /\ p = base /\ b.current = <<>> /\ base \in Nat
  BY <1>1, SettledTape
<1>3. d = Emptied(d)
  <2>. DEFINE o == Overwritten(b.bits, BytesOf(b.position), x)
              q == b.position + (Len(x) \div 8)
              m == Len(x) \div 8
              size == IF InAFile(b) THEN b.size + (IF b.size = b.position THEN m ELSE 0)
                      ELSE Longest(b.size, b.position + m)
              e == [b EXCEPT !.bits = o, !.position = q, !.size = size]
              none == <<>>
  <2>1. d = e
    BY Zenon DEF BytesWritten
  <2>2. e = [b EXCEPT !.bits = o, !.position = q, !.size = size]
    BY Zenon
  <2>3. b = [mode |-> b.mode, bits |-> b.bits, size |-> b.size, position |-> b.position,
             current |-> b.current, nbBits |-> b.nbBits, eof |-> b.eof]
    BY <1>1, BitParts
  <2>4. b.current = none
    BY <1>2
  <2>. HIDE DEF o, q, size, e, none
  <2>5. d = [mode |-> b.mode, bits |-> o, size |-> size, position |-> q,
             current |-> none, nbBits |-> 0, eof |-> b.eof]
    BY <2>1, <2>2, <2>3, <2>4
  <2>. DEFINE f == [d EXCEPT !.current = none, !.nbBits = 0]
  <2>6. f = [d EXCEPT !.current = none, !.nbBits = 0]
    BY Zenon
  <2>. HIDE DEF f
  <2>7. f = [mode |-> b.mode, bits |-> o, size |-> size, position |-> q,
             current |-> none, nbBits |-> 0, eof |-> b.eof]
    BY ONLY <2>5, <2>6
  <2>. QED  BY <2>5, <2>6, <2>7, Zenon DEF Emptied, none
<1>4. /\ Kind(d) /\ d.mode = b.mode /\ d.position = b.position + n /\ d.nbBits = 0
      /\ d.current = <<>> /\ d.bits = Overwritten(b.bits, base, x)
      /\ Len(d.bits) = IF n = 0 THEN nb ELSE Longest(8 * (b.position + n), nb)
  <2>1. d = Emptied(BytesWritten(b, x))
    BY <1>3, Zenon
  <2>2. Kind(b) /\ n \in Nat /\ x \in Seq(Bits) /\ Len(x) = 8 * n /\ Holds(b, n)
    BY <1>1
  <2>. QED  BY ONLY <2>1, <2>2, BytesWrittenIs
<1>5. /\ d.bits \in Seq(Bits)
      /\ \A i \in 1..Len(d.bits) : d.bits[i] = IF i \in base + 1..base + nx THEN x[i - base]
                                               ELSE IF i <= nb THEN b.bits[i] ELSE 0
  <2>. DEFINE v == d.bits
              z == b.bits
  <2>1. v = Overwritten(z, base, x) /\ z \in Seq(Bits) /\ base \in Nat /\ x \in Seq(Bits)
    BY <1>1, <1>2, <1>4
  <2>. HIDE DEF v, z, base
  <2>2. /\ v \in Seq(Bits)
        /\ \A i \in 1..Len(v) : v[i] = IF i \in base + 1..base + Len(x) THEN x[i - base]
                                       ELSE IF i <= Len(z) THEN z[i] ELSE 0
    BY ONLY <2>1, OverwrittenIs
  <2>. QED  BY <2>2 DEF v, z
<1>6. Len(d.bits) = IF b.mode = "write" \/ nx = 0 THEN nb ELSE Longest(p + nx, nb)
  <2>1. nx = 8 * n /\ (nx = 0 <=> n = 0)
    OBVIOUS
  <2>2. p + nx = 8 * (b.position + n)
    BY <1>1, <1>2, <2>1
  <2>3. CASE b.mode = "write"
    <3>1. b.position + n <= RoomSize /\ nb = 8 * RoomSize /\ RoomSize \in Nat
      BY <1>1, <2>3 DEF Holds
    <3>2. 8 * (b.position + n) <= nb /\ 8 * (b.position + n) \in Int
      BY <1>1, <3>1
    <3>. DEFINE k == 8 * (b.position + n)
    <3>. HIDE DEF k, nb
    <3>3. Longest(k, nb) = nb
      BY <1>1, <3>2, LongestIs DEF k
    <3>. QED  BY <1>4, <2>3, <3>3 DEF k
  <2>4. CASE b.mode # "write"
    <3>. HIDE DEF nx, nb
    <3>. QED  BY <1>4, <2>1, <2>2, <2>4
  <2>. QED  BY <2>3, <2>4
<1>7. LaidOver(b.mode, t, p, x, d.bits)
  BY <1>2, <1>5, <1>6 DEF LaidOver
<1>8. u = d.bits
  BY <1>7, LaidSame
<1>9. 8 * d.position = p + Len(x)
  BY <1>1, <1>2, <1>4
<1>10. Writer(d, u, p + Len(x))
  BY <1>4, <1>8, <1>9, SettledIs
<1>11. KeptAt(d.mode, p + Len(x)) = p + Len(x)
  <2>. DEFINE q == p + Len(x)
  <2>1. Writer(d, u, q) /\ 0 \in Nat
    BY <1>10
  <2>. HIDE DEF q
  <2>2. KeptAt(d.mode, q) = q
    BY ONLY <2>1, KeptIs
  <2>. QED  BY <2>2 DEF q
<1>. QED  BY <1>4, <1>10, <1>11

(* What is known of a writer's step.                                           *)
LEMMA WriterNow ==
  ASSUME BitInv, ~Reads(bs)
  PROVE  /\ Writer(bs, tape, place) /\ astray = FALSE /\ readings[1] = readings[2]
         /\ tape \in Seq(Bits) /\ place \in Nat
         /\ \A x : Taped(x) = TapeOf(bs.mode, tape, place, x)
         /\ \A p : Kept(p) = KeptAt(bs.mode, p)
         /\ \A x \in Seq(Bits) : LaidOver(bs.mode, tape, place, x, Taped(x))
<1>1. Writer(bs, tape, place) /\ astray = FALSE /\ readings[1] = readings[2] /\ tape \in Seq(Bits)
      /\ place \in Nat
  BY DEF BitInv
<1>2. \A x : Taped(x) = TapeOf(bs.mode, tape, place, x)
  BY Zenon DEF Taped, TapeOf
<1>3. \A p : Kept(p) = KeptAt(bs.mode, p)
  BY Zenon DEF Kept, KeptAt
<1>4. bs.mode = "write" => Len(tape) = BytesOf(RoomSize)
  BY <1>1, WriterIs
<1>5. ASSUME NEW x \in Seq(Bits) PROVE LaidOver(bs.mode, tape, place, x, Taped(x))
  BY <1>1, <1>2, <1>4, TapeOfIs
<1>. QED  BY <1>1, <1>2, <1>3, <1>5

LEMMA WriterStep ==
  ASSUME Writer(bs', tape', place'), astray' = FALSE, readings'[1] = readings'[2]
  PROVE  BitInv'
<1>1. ~Reads(bs)' /\ tape' \in Seq(Bits) /\ place' \in Nat
  <2>. DEFINE c == bs'
              u == tape'
              q == place'
  <2>1. Writer(c, u, q)
    OBVIOUS
  <2>. HIDE DEF c, u, q
  <2>2. ~Reads(c) /\ u \in Seq(Bits) /\ q \in Nat
    BY <2>1, WriterIs
  <2>. QED  BY <2>2 DEF c, u, q
<1>2. Writer(bs, tape, place)'
  OBVIOUS
<1>. QED  BY <1>1, <1>2 DEF BitInv

LEMMA WriteNumberStep ==
  ASSUME BitInv, WriteNumber
  PROVE  BitInv'
<1>1. PICK x \in Numbers : Puts(gf_bs_write_int(bs, x), x)
  BY DEF WriteNumber
<1>2. x \in Seq(Bits) /\ ~Reads(bs)
  BY BitAssumption DEF WriteNumber
<1>3. /\ bs' = gf_bs_write_int(bs, x) /\ tape' = Taped(x) /\ place' = Kept(place + Len(x))
      /\ UNCHANGED <<astray, readings>>
  BY <1>1 DEF Puts
<1>4. Writer(bs, tape, place) /\ LaidOver(bs.mode, tape, place, x, tape')
  BY <1>2, <1>3, WriterNow
<1>5. Writer(bs', tape', KeptAt(bs.mode, place + Len(x)))
  BY <1>2, <1>3, <1>4, WriteIntIs
<1>6. place' = KeptAt(bs.mode, place + Len(x)) /\ astray' = FALSE /\ readings'[1] = readings'[2]
  BY <1>2, <1>3, WriterNow
<1>. QED  BY <1>5, <1>6, WriterStep

LEMMA WriteBytesStep ==
  ASSUME BitInv, WriteBytes
  PROVE  BitInv'
<1>. DEFINE refused(x) == bs.nbBits = 0 /\ ~Holds(bs, Len(x) \div 8)
<1>1. PICK x \in {n \in Numbers : Len(n) % 8 = 0} :
        Puts(gf_bs_write_data(bs, x), IF refused(x) THEN <<>> ELSE x)
  BY DEF WriteBytes
<1>. DEFINE n == Len(x) \div 8
            y == IF refused(x) THEN <<>> ELSE x
            d == gf_bs_write_data(bs, x)
<1>2. x \in Seq(Bits) /\ ~Reads(bs) /\ Len(x) % 8 = 0
  BY BitAssumption DEF WriteBytes
<1>3. n \in Nat /\ Len(x) = 8 * n
  BY <1>2
<1>4. /\ bs' = d /\ tape' = Taped(y) /\ place' = Kept(place + Len(y))
      /\ UNCHANGED <<astray, readings>>
  BY <1>1 DEF Puts
<1>5. /\ Writer(bs, tape, place) /\ astray' = FALSE /\ readings'[1] = readings'[2]
      /\ bs.nbBits \in 0..7
  BY <1>2, <1>4, WriterNow, WriterIs
<1>6. Writer(bs', tape', KeptAt(bs.mode, place + Len(y)))
  <2>. HIDE DEF n, d
  <2>1. CASE bs.nbBits > 0
    <3>1. y = x
      BY <2>1
    <3>2. d = gf_bs_write_int(bs, x)
      <4>1. ~(bs.nbBits = 0 /\ Holds(bs, Len(x) \div 8))
        BY <2>1
      <4>. QED  BY <2>1, <4>1 DEF gf_bs_write_data, d
    <3>3. LaidOver(bs.mode, tape, place, x, tape')
      BY <1>2, <1>4, <3>1, WriterNow
    <3>. QED  BY <1>2, <1>4, <1>5, <3>1, <3>2, <3>3, WriteIntIs
  <2>2. CASE bs.nbBits = 0 /\ Holds(bs, n)
    <3>1. y = x
      BY <2>2 DEF n
    <3>2. d = BytesWritten(bs, x)
      <4>1. ~(bs.nbBits > 0)
        BY <2>2
      <4>. QED  BY <2>2, <4>1 DEF gf_bs_write_data, d, n
    <3>3. LaidOver(bs.mode, tape, place, x, tape')
      BY <1>2, <1>4, <3>1, WriterNow
    <3>4. Writer(bs', tape', KeptAt(bs.mode, place + Len(x)))
      BY <1>2, <1>3, <1>4, <1>5, <2>2, <3>2, <3>3, WriteDataIs
    <3>. QED  BY <3>1, <3>4
  <2>3. CASE bs.nbBits = 0 /\ ~Holds(bs, n)
    <3>1. y = <<>> /\ Len(y) = 0
      BY <2>3 DEF n
    <3>2. d = bs
      <4>1. ~(bs.nbBits > 0)
        BY <2>3
      <4>. QED  BY <2>3, <4>1 DEF gf_bs_write_data, d, n
    <3>3. tape' = tape
      <4>. DEFINE e == <<>>
      <4>1. e \in Seq(Bits) /\ tape' = Taped(e)
        BY <1>4, <3>1
      <4>. HIDE DEF e
      <4>2. LaidOver(bs.mode, tape, place, e, tape')
        BY <1>2, <4>1, WriterNow
      <4>3. LaidOver(bs.mode, tape, place, <<>>, tape)
        BY <1>2, LaidNone, WriterNow
      <4>. QED  BY <4>2, <4>3, LaidSame DEF e
    <3>4. KeptAt(bs.mode, place + Len(y)) = place
      <4>1. place + Len(y) = place
        BY <1>2, <3>1, WriterNow
      <4>2. KeptAt(bs.mode, place) = place
        BY <1>5, KeptIs
      <4>. QED  BY <4>1, <4>2
    <3>. QED  BY <1>4, <1>5, <3>2, <3>3, <3>4
  <2>. QED  BY <1>5, <2>1, <2>2, <2>3
<1>7. place' = KeptAt(bs.mode, place + Len(y))
  BY <1>2, <1>4, WriterNow
<1>. QED  BY <1>5, <1>6, <1>7, WriterStep

(* A writer is aligned.                                                        *)
Padding(p) == Zeros(Up(p) - p)

LEMMA AlignWriteIs ==
  ASSUME NEW b, NEW t, NEW p, Writer(b, t, p), NEW u, LaidOver(b.mode, t, p, Padding(p), u),
         NEW c, c = gf_bs_align(b)
  PROVE  /\ Writer(c, u, KeptAt(b.mode, Up(p))) /\ c.mode = b.mode /\ c.nbBits = 0
         /\ u = c.bits /\ KeptAt(b.mode, Up(p)) = 8 * c.position
         /\ c.position <= b.position + 1
<1>1. /\ ~Reads(b) /\ b.nbBits \in 0..7 /\ b.position \in Nat /\ p = 8 * b.position + b.nbBits
      /\ p \in Nat /\ t \in Seq(Bits) /\ RoomSize \in Nat /\ BytesOf(RoomSize) = 8 * RoomSize
      /\ b.mode = "write" => b.position <= RoomSize
  BY WriterIs
<1>2. /\ Up(p) \in Nat /\ Up(p) - p \in Nat /\ Up(p) % 8 = 0
      /\ b.nbBits = 0 => Up(p) = 8 * b.position
      /\ b.nbBits > 0 => Up(p) = 8 * (b.position + 1)
  <2>1. /\ Up(p) \in Nat /\ Up(p) >= p /\ Up(p) % 8 = 0
        /\ \A k \in Nat, n \in 1..8 : p = 8 * k + n => Up(p) = 8 * (k + 1)
        /\ \A k \in Nat : p = 8 * k => Up(p) = 8 * k
    BY <1>1, UpIs
  <2>2. Up(p) - p \in Nat
    <3>. DEFINE w == Up(p)
    <3>1. w \in Nat /\ w >= p /\ p \in Nat
      BY <1>1, <2>1
    <3>. HIDE DEF w
    <3>2. w - p \in Nat
      BY ONLY <3>1
    <3>. QED  BY <3>2 DEF w
  <2>3. b.nbBits = 0 => p = 8 * b.position
    BY <1>1
  <2>4. b.nbBits > 0 => b.nbBits \in 1..8
    BY <1>1
  <2>. QED  BY <1>1, <2>1, <2>2, <2>3, <2>4
<1>. DEFINE q == KeptAt(b.mode, Up(p))
<1>3. Writer(c, u, q) /\ c.mode = b.mode
  <2>1. CASE b.nbBits > 0
    <3>. DEFINE x == Zeros(8 - b.nbBits)
    <3>1. 8 - b.nbBits = Up(p) - p /\ 8 - b.nbBits \in Nat
      <4>. DEFINE w == Up(p)
                  k == b.nbBits
                  m == b.position
      <4>1. w = 8 * (m + 1) /\ p = 8 * m + k /\ k \in 0..7 /\ m \in Nat
        BY <1>1, <1>2, <2>1
      <4>. HIDE DEF w, k, m
      <4>2. 8 - k = w - p /\ 8 - k \in Nat
        BY ONLY <4>1
      <4>. QED  BY <4>2 DEF w, k
    <3>2. x \in Seq(Bits) /\ Len(x) = 8 - b.nbBits
      BY <3>1, ZerosAre
    <3>3. LaidOver(b.mode, t, p, x, u)
      <4>1. x = Padding(p)
        BY <3>1 DEF Padding
      <4>. QED  BY <4>1, Zenon
    <3>4. c = gf_bs_write_int(b, x)
      BY <1>1, <2>1 DEF gf_bs_align
    <3>5. p + Len(x) = Up(p)
      BY <1>1, <1>2, <3>1, <3>2
    <3>. HIDE DEF x
    <3>6. Writer(c, u, KeptAt(b.mode, p + Len(x))) /\ c.mode = b.mode
      <4>1. /\ Writer(b, t, p) /\ x \in Seq(Bits) /\ LaidOver(b.mode, t, p, x, u)
            /\ c = gf_bs_write_int(b, x)
        BY <3>2, <3>3, <3>4
      <4>. QED  BY ONLY <4>1, WriteIntIs
    <3>. QED  BY <3>5, <3>6
  <2>2. CASE b.nbBits = 0
    <3>1. Up(p) = p /\ Up(p) - p = 0
      BY <1>1, <1>2, <2>2
    <3>2. c = b
      BY <1>1, <2>2 DEF gf_bs_align
    <3>3. Padding(p) = <<>>
      <4>1. Zeros(0) \in Seq(Bits) /\ Len(Zeros(0)) = 0
        BY ZerosAre
      <4>. QED  BY <3>1, <4>1 DEF Padding
    <3>4. u = t
      <4>1. LaidOver(b.mode, t, p, <<>>, t)
        BY <1>1, LaidNone
      <4>. QED  BY <3>3, <4>1, LaidSame
    <3>5. KeptAt(b.mode, p) = p
      BY KeptIs
    <3>. QED  BY <3>1, <3>2, <3>4, <3>5
  <2>. QED  BY <1>1, <2>1, <2>2
<1>. HIDE DEF q
<1>4. q = 8 * c.position + c.nbBits /\ c.nbBits \in 0..7 /\ c.position \in Nat
  BY <1>3, WriterIs
<1>5. /\ b.mode = "write" /\ Up(p) >= BytesOf(RoomSize) => q = 8 * RoomSize
      /\ ~(b.mode = "write" /\ Up(p) >= BytesOf(RoomSize)) => q = Up(p)
  BY <1>1, <1>2 DEF KeptAt, q
<1>6. q % 8 = 0 /\ q <= 8 * (b.position + 1)
  <2>1. Up(p) <= 8 * (b.position + 1)
    BY <1>1, <1>2
  <2>2. CASE b.mode = "write" /\ Up(p) >= BytesOf(RoomSize)
    <3>1. (8 * RoomSize) % 8 = 0
      BY <1>1
    <3>. QED  BY <1>1, <1>2, <1>5, <2>1, <2>2, <3>1
  <2>3. CASE ~(b.mode = "write" /\ Up(p) >= BytesOf(RoomSize))
    BY <1>2, <1>5, <2>1, <2>3
  <2>. QED  BY <2>2, <2>3
<1>7. c.nbBits = 0 /\ c.position <= b.position + 1
  <2>. DEFINE m == c.position
              r == c.nbBits
  <2>1. q = 8 * m + r /\ r \in 0..7 /\ m \in Nat
    BY <1>4
  <2>. HIDE DEF m, r
  <2>2. q % 8 = r
    BY <2>1
  <2>3. r = 0
    BY <1>6, <2>2
  <2>4. m <= b.position + 1
    BY <1>1, <1>6, <2>1
  <2>. QED  BY <2>3, <2>4 DEF m, r
<1>8. u = c.bits /\ q = 8 * c.position
  BY <1>3, <1>7, SettledTape
<1>. QED  BY <1>2, <1>3, <1>7, <1>8 DEF q

(* A writer at another byte.                                                   *)
LEMMA MovedIs ==
  ASSUME NEW b, Kind(b), NEW pos \in Nat, b.mode # "file_write" => pos <= b.size,
         NEW current, current = <<>>, NEW eof \in BOOLEAN,
         NEW d, d = StreamOf(b.mode, b.bits, b.size, pos, current, 0, eof)
  PROVE  Writer(d, b.bits, 8 * pos) /\ d.mode = b.mode
<1>1. b \in BitStreams
  BY DEF Kind
<1>2. /\ b.mode \in BitModes /\ b.bits \in Seq(Bits) /\ b.size \in Nat
      /\ current \in Seq(Bits) /\ 0 \in 0..8
  BY <1>1, BitParts
<1>3. /\ d \in BitStreams /\ d.mode = b.mode /\ d.bits = b.bits /\ d.size = b.size
      /\ d.position = pos /\ d.current = current /\ d.nbBits = 0 /\ d.eof = eof
  BY <1>2 DEF StreamOf, BitStreams
<1>4. Kind(d)
  BY <1>1, <1>3 DEF Kind, Reads
<1>5. d.current = <<>>
  BY <1>3
<1>. QED  BY <1>3, <1>4, <1>5, SettledIs

(* The writer aligned, and its tape.                                           *)
LEMMA AlignedNow ==
  ASSUME BitInv, ~Reads(bs), NEW a, a = gf_bs_align(bs),
         NEW u, u = Taped(Zeros(Up(place) - place))
  PROVE  /\ Up(place) \in Nat /\ Up(place) - place \in Nat /\ Up(place) % 8 = 0
         /\ LaidOver(bs.mode, tape, place, Zeros(Up(place) - place), u)
         /\ Writer(a, u, KeptAt(bs.mode, Up(place))) /\ a.mode = bs.mode /\ a.nbBits = 0
         /\ u = a.bits /\ KeptAt(bs.mode, Up(place)) = 8 * a.position
         /\ a.position <= bs.position + 1
<1>1. place \in Nat /\ Writer(bs, tape, place)
  BY WriterNow
<1>2. Up(place) \in Nat /\ Up(place) >= place /\ Up(place) % 8 = 0
  BY <1>1, UpIs
<1>. DEFINE w == Up(place)
            n == w - place
            x == Zeros(n)
<1>. HIDE DEF w
<1>3. n \in Nat
  <2>1. w \in Nat /\ w >= place /\ place \in Nat
    BY <1>1, <1>2 DEF w
  <2>. QED  BY ONLY <2>1
<1>. HIDE DEF n
<1>4. x \in Seq(Bits)
  BY <1>3, ZerosAre
<1>. HIDE DEF x
<1>5. LaidOver(bs.mode, tape, place, x, u)
  <2>1. u = Taped(x)
    BY Zenon DEF x, n, w
  <2>. QED  BY <1>4, <2>1, WriterNow
<1>6. LaidOver(bs.mode, tape, place, Zeros(Up(place) - place), u)
  BY <1>5 DEF x, n, w
<1>7. /\ Writer(a, u, KeptAt(bs.mode, Up(place))) /\ a.mode = bs.mode /\ a.nbBits = 0
      /\ u = a.bits /\ KeptAt(bs.mode, Up(place)) = 8 * a.position
      /\ a.position <= bs.position + 1
  <2>. DEFINE b == bs
              t == tape
              p == place
  <2>1. Writer(b, t, p) /\ LaidOver(b.mode, t, p, Padding(p), u) /\ a = gf_bs_align(b)
    BY <1>1, <1>6, Zenon DEF Padding
  <2>. HIDE DEF b, t, p
  <2>2. /\ Writer(a, u, KeptAt(b.mode, Up(p))) /\ a.mode = b.mode /\ a.nbBits = 0
        /\ u = a.bits /\ KeptAt(b.mode, Up(p)) = 8 * a.position
        /\ a.position <= b.position + 1
    BY <2>1, AlignWriteIs
  <2>. QED  BY <2>2 DEF b, p
<1>. QED  BY <1>2, <1>3, <1>6, <1>7 DEF n, w

LEMMA SkipWriteStep ==
  ASSUME BitInv, AlignOrSkip, ~Reads(bs), FarFromLimit
  PROVE  BitInv'
<1>. DEFINE pad == Up(place) - place
            over(k) == IF InAFile(bs) THEN 0 ELSE BytesOf(k)
            a == gf_bs_align(bs)
            mode == bs.mode
<1>1. PICK k \in 0..2 :
        /\ bs' = IF k = 0 THEN a ELSE gf_bs_skip_bytes(bs, k)
        /\ tape' = Taped(Zeros(pad + over(k)))
        /\ place' = Kept(Up(place) + BytesOf(k))
        /\ UNCHANGED <<astray, readings>>
  BY Zenon DEF AlignOrSkip
<1>2. /\ Writer(bs, tape, place) /\ astray' = FALSE /\ readings'[1] = readings'[2]
      /\ place \in Nat /\ tape \in Seq(Bits)
      /\ place' = KeptAt(mode, Up(place) + BytesOf(k))
  BY <1>1, WriterNow
<1>3. /\ mode \in {"file_write", "dynamic", "write"} /\ bs.position \in Nat /\ RoomSize \in Nat
      /\ BytesOf(RoomSize) = 8 * RoomSize /\ (mode = "write" => Len(tape) = BytesOf(RoomSize))
  BY <1>2, WriterIs
<1>. DEFINE u == Taped(Zeros(pad))
<1>4. pad \in Nat /\ Up(place) \in Nat /\ Up(place) = place + pad /\ Up(place) % 8 = 0
  <2>1. Up(place) \in Nat /\ Up(place) >= place /\ Up(place) % 8 = 0
    BY <1>2, UpIs
  <2>. QED  BY <1>2, <2>1
<1>. HIDE DEF pad, a, mode
<1>5. LaidOver(mode, tape, place, Zeros(pad), u) /\ Zeros(pad) \in Seq(Bits) /\ Len(Zeros(pad)) = pad
  <2>1. Zeros(pad) \in Seq(Bits) /\ Len(Zeros(pad)) = pad
    BY <1>4, ZerosAre
  <2>. QED  BY <2>1, WriterNow DEF mode
<1>. HIDE DEF u
<1>6. /\ Writer(a, u, KeptAt(mode, Up(place))) /\ a.mode = mode /\ a.nbBits = 0 /\ u = a.bits
      /\ KeptAt(mode, Up(place)) = 8 * a.position /\ a.position <= bs.position + 1
  <2>1. a = gf_bs_align(bs) /\ u = Taped(Zeros(Up(place) - place))
    BY Zenon DEF a, u, pad
  <2>2. /\ Writer(a, u, KeptAt(bs.mode, Up(place))) /\ a.mode = bs.mode /\ a.nbBits = 0
        /\ u = a.bits /\ KeptAt(bs.mode, Up(place)) = 8 * a.position
        /\ a.position <= bs.position + 1
    BY <2>1, AlignedNow
  <2>. QED  BY <2>2 DEF mode
<1>7. Writer(bs', tape', place')
  <2>1. CASE k = 0
    <3>1. BytesOf(k) = 0 /\ over(k) = 0 /\ pad + over(k) = pad /\ Up(place) + BytesOf(k) = Up(place)
      BY <1>4, <2>1 DEF BytesOf
    <3>2. bs' = a /\ tape' = u /\ place' = KeptAt(mode, Up(place))
      BY <1>1, <1>2, <2>1, <3>1 DEF u
    <3>. QED  BY <1>6, <3>2
  <2>2. CASE k # 0 /\ InAFile(bs)
    <3>1. over(k) = 0 /\ pad + over(k) = pad /\ mode = "file_write"
      BY <1>3, <1>4, <2>2 DEF InAFile, mode
    <3>2. tape' = u /\ place' = Up(place) + BytesOf(k) /\ KeptAt(mode, Up(place)) = Up(place)
      BY <1>1, <1>2, <3>1 DEF u, KeptAt
    <3>. DEFINE c == bs'
                q == a.position + k
                none == a.current
    <3>3. bs.position + 3 < PositionLimit /\ PositionLimit \in Nat /\ a.position \in Nat
      <4>1. astray = FALSE
        BY WriterNow
      <4>2. a.position \in Nat
        BY <1>6, WriterIs
      <4>. QED  BY <4>1, <4>2, BitAssumption DEF FarFromLimit
    <3>4. q \in Nat /\ q % PositionLimit = q
      <4>1. q \in Nat /\ q < PositionLimit
        BY <1>3, <1>6, <3>3
      <4>. HIDE DEF q
      <4>. QED  BY <3>3, <4>1
    <3>5. c = [a EXCEPT !.position = (a.position + k) % PositionLimit, !.eof = FALSE]
      BY <1>1, <2>2 DEF gf_bs_skip_bytes, a
    <3>6. c = StreamOf(a.mode, a.bits, a.size, q, none, 0, FALSE)
      <4>1. a \in BitStreams
        BY <1>6, WriterIs
      <4>2. a = [mode |-> a.mode, bits |-> a.bits, size |-> a.size, position |-> a.position,
                 current |-> a.current, nbBits |-> a.nbBits, eof |-> a.eof]
        BY <4>1, BitParts
      <4>3. c = [a EXCEPT !.position = q, !.eof = FALSE]
        BY <3>4, <3>5
      <4>. HIDE DEF c, q
      <4>. QED  BY ONLY <1>6, <4>2, <4>3 DEF StreamOf, none
    <3>7. Kind(a) /\ none = <<>>
      BY <1>6, WriterIs, SettledTape
    <3>. HIDE DEF c, q, none
    <3>8. Writer(c, a.bits, 8 * q)
      BY <1>6, <3>1, <3>4, <3>6, <3>7, MovedIs
    <3>9. place' = 8 * q
      <4>1. Up(place) = 8 * a.position
        BY <1>6, <3>2
      <4>2. place' = 8 * a.position + 8 * k
        BY <3>2, <4>1 DEF BytesOf
      <4>. QED  BY <3>3, <4>2 DEF q
    <3>. QED  BY <1>6, <3>2, <3>8, <3>9 DEF c
  <2>3. CASE k # 0 /\ ~InAFile(bs)
    <3>. DEFINE n == BytesOf(k)
                y == Zeros(n)
                x == Zeros(pad)
                z == Zeros(pad + n)
                q == KeptAt(mode, Up(place))
                v == TapeOf(mode, u, q, y)
    <3>1. n = 8 * k /\ n \in Nat /\ pad + n \in Nat /\ over(k) = n
      BY <1>4, <2>3 DEF BytesOf
    <3>2. tape' = Taped(z) /\ bs' = gf_bs_write_int(a, y)
      BY <1>1, <2>3, <3>1 DEF gf_bs_skip_bytes, a
    <3>3. /\ y \in Seq(Bits) /\ z \in Seq(Bits) /\ Len(y) = n /\ Len(z) = pad + n
          /\ \A i \in 1..n : y[i] = 0
          /\ \A i \in 1..pad : x[i] = 0
          /\ \A i \in 1..pad + n : z[i] = 0
      BY <1>4, <3>1, ZerosAre
    <3>. HIDE DEF n, y, x, z, q
    <3>4. u \in Seq(Bits) /\ q \in Nat /\ (mode = "write" => Len(u) = BytesOf(RoomSize))
      BY <1>6, WriterIs DEF q
    <3>5. LaidOver(mode, u, q, y, v)
      BY <3>3, <3>4, TapeOfIs
    <3>. HIDE DEF v
    <3>6. LaidOver(mode, tape, place, z, v)
      <4>1. x \in Seq(Bits) /\ Len(x) = pad /\ LaidOver(mode, tape, place, x, u)
        BY <1>5 DEF x
      <4>2. /\ Len(z) = Len(x) + Len(y)
            /\ \A i \in 1..Len(x) : z[i] = x[i]
            /\ \A i \in 1..Len(y) : z[Len(x) + i] = y[i]
        <5>1. \A i \in 1..pad : i \in 1..pad + n
          BY <1>4, <3>1
        <5>2. \A i \in 1..n : pad + i \in 1..pad + n
          BY <1>4, <3>1
        <5>. QED  BY <3>3, <4>1, <5>1, <5>2
      <4>3. LaidOver(mode, u, KeptAt(mode, place + Len(x)), y, v)
        BY <1>4, <3>5, <4>1 DEF q
      <4>. QED  BY <1>2, <1>3, <3>3, <4>1, <4>2, <4>3, LaidOn
    <3>7. tape' = v
      <4>1. LaidOver(mode, tape, place, z, tape')
        BY <3>2, <3>3, WriterNow DEF mode
      <4>. QED  BY <3>6, <4>1, LaidSame
    <3>8. Writer(bs', v, KeptAt(mode, q + n))
      <4>. DEFINE d == bs'
      <4>1. d = gf_bs_write_int(a, y) /\ Writer(a, u, q) /\ LaidOver(a.mode, u, q, y, v)
        BY <1>6, <3>2, <3>5 DEF q
      <4>. HIDE DEF d
      <4>2. Writer(d, v, KeptAt(a.mode, q + Len(y)))
        BY <3>3, <4>1, WriteIntIs
      <4>. QED  BY <1>6, <3>3, <4>2 DEF d
    <3>9. KeptAt(mode, q + n) = KeptAt(mode, Up(place) + n)
      <4>1. CASE mode = "write" /\ Up(place) >= BytesOf(RoomSize)
        <5>1. q = 8 * RoomSize
          BY <1>3, <1>4, <4>1 DEF KeptAt, q
        <5>2. /\ q + n = 8 * (RoomSize + k) /\ q + n >= BytesOf(RoomSize)
              /\ Up(place) + n >= BytesOf(RoomSize)
          BY <1>3, <1>4, <3>1, <4>1, <5>1
        <5>3. (q + n) % 8 = 0
          <6>. DEFINE m == RoomSize + k
          <6>1. m \in Nat
            BY <1>3
          <6>. HIDE DEF m
          <6>2. (8 * m) % 8 = 0
            BY <6>1
          <6>. QED  BY <5>2, <6>2 DEF m
        <5>4. (Up(place) + n) % 8 = 0
          <6>. DEFINE w == Up(place)
          <6>1. w \in Nat /\ w % 8 = 0 /\ n = 8 * k
            BY <1>4, <3>1
          <6>. HIDE DEF w
          <6>2. (w + 8 * k) % 8 = 0
            BY <6>1
          <6>. QED  BY <6>1, <6>2 DEF w
        <5>. QED  BY <4>1, <5>2, <5>3, <5>4 DEF KeptAt
      <4>2. CASE ~(mode = "write" /\ Up(place) >= BytesOf(RoomSize))
        <5>1. q = Up(place)
          BY <4>2 DEF KeptAt, q
        <5>. QED  BY <5>1
      <4>. QED  BY <4>1, <4>2
    <3>10. place' = KeptAt(mode, Up(place) + n)
      BY <1>2 DEF n
    <3>. QED  BY <3>7, <3>8, <3>9, <3>10
  <2>. QED  BY <2>1, <2>2, <2>3
<1>. QED  BY <1>2, <1>7, WriterStep

(* A byte is sought: a place that is refused changes nothing; a writer is      *)
(* aligned before it is moved, and a dynamic one grows.                        *)
LEMMA SeekWriteStep ==
  ASSUME BitInv, SeekByte, ~Reads(bs)
  PROVE  BitInv'
<1>. DEFINE refused(k) == k > bs.size
            atEnd(k) == k = bs.size /\ bs.mode \in {"read", "write"}
            aligned == Taped(Zeros(Up(place) - place))
            mode == bs.mode
            a == gf_bs_align(bs)
            u == aligned
            q == KeptAt(mode, Up(place))
<1>1. PICK k \in 0..Len(tape) \div 8 :
        /\ bs' = gf_bs_seek(bs, k)
        /\ tape' = CASE refused(k) -> tape
                     [] ~refused(k) /\ bs.mode = "dynamic" ->
                          aligned \o Zeros(Longest(0, BytesOf(k + 1) - Len(aligned)))
                     [] OTHER -> aligned
        /\ place' = CASE refused(k) -> place
                      [] ~refused(k) /\ atEnd(k) -> Kept(Up(place))
                      [] OTHER -> BytesOf(k)
        /\ astray' = (astray /\ (refused(k) \/ atEnd(k)))
        /\ UNCHANGED readings
  BY Zenon DEF SeekByte
<1>2. /\ Writer(bs, tape, place) /\ astray = FALSE /\ readings'[1] = readings'[2]
      /\ place \in Nat /\ tape \in Seq(Bits) /\ Kept(Up(place)) = q
  BY <1>1, WriterNow
<1>3. /\ mode \in {"file_write", "dynamic", "write"} /\ bs.size \in Nat /\ RoomSize \in Nat
      /\ (mode = "write" => bs.size = RoomSize) /\ BytesOf(k) = 8 * k
  BY <1>2, WriterIs DEF BytesOf
<1>4. k \in Nat /\ astray' = FALSE
  <2>1. Len(tape) \in Nat
    BY <1>2
  <2>2. k \in Nat
    BY <2>1
  <2>. QED  BY <1>1, <1>2, <2>2
<1>5. /\ Writer(a, u, q) /\ a.mode = mode /\ a.nbBits = 0 /\ u = a.bits /\ q = 8 * a.position
  <2>1. a = gf_bs_align(bs) /\ u = Taped(Zeros(Up(place) - place))
    BY Zenon
  <2>. HIDE DEF a, u, aligned
  <2>2. /\ Writer(a, u, KeptAt(bs.mode, Up(place))) /\ a.mode = bs.mode /\ a.nbBits = 0
        /\ u = a.bits /\ KeptAt(bs.mode, Up(place)) = 8 * a.position
    BY <2>1, AlignedNow
  <2>. QED  BY <2>2
<1>. HIDE DEF u, aligned, a, q
<1>6. /\ Kind(a) /\ a \in BitStreams /\ ~Reads(a) /\ a.size \in Nat /\ a.current = <<>>
      /\ a.bits \in Seq(Bits) /\ a.position \in Nat
      /\ mode = "write" => a.size = RoomSize
      /\ mode = "dynamic" => Len(a.bits) = 8 * a.size
  <2>1. mode = "dynamic" => Len(a.bits) = 8 * a.size
    BY <1>5, WriterIs DEF Kind, BytesOf
  <2>. QED  BY <1>5, <2>1, WriterIs, SettledTape
<1>. HIDE DEF refused, atEnd, mode
<1>7. CASE refused(k)
  <2>1. bs' = bs
    BY <1>1, <1>7 DEF gf_bs_seek, refused
  <2>2. tape' = tape /\ place' = place
    BY <1>1, <1>7
  <2>. QED  BY <1>2, <1>4, <2>1, <2>2, WriterStep
<1>8. CASE ~refused(k)
  <2>1. bs' = BS_SeekIntern(a, k)
    BY <1>1, <1>8 DEF gf_bs_seek, refused, a
  <2>2. a = [mode |-> a.mode, bits |-> a.bits, size |-> a.size, position |-> a.position,
             current |-> a.current, nbBits |-> a.nbBits, eof |-> a.eof]
    BY <1>6, BitParts
  <2>. DEFINE d == bs'
              none == a.current
              there == AtByte(a, k, 0)
  <2>3. there = StreamOf(a.mode, a.bits, a.size, k, none, 0, FALSE)
    <3>. DEFINE e == <<>>
    <3>1. there = [a EXCEPT !.position = k, !.nbBits = 0, !.current = e, !.eof = FALSE]
      BY Zenon DEF AtByte
    <3>2. e = none
      BY <1>6
    <3>. HIDE DEF there, e, none
    <3>. QED  BY ONLY <2>2, <3>1, <3>2 DEF StreamOf
  <2>4. none = <<>>
    BY <1>6
  <2>5. /\ InAFile(a) \/ k < a.size => d = there
        /\ ~InAFile(a) /\ k >= a.size /\ a.mode # "dynamic" => d = a
        /\ ~InAFile(a) /\ k >= a.size /\ a.mode = "dynamic" =>
             d = [there EXCEPT !.bits = @ \o Zeros(BytesOf(k + 1) - Len(@)), !.size = k + 1]
    BY <1>4, <1>6, <2>1, SeekInternIs
  <2>6. InAFile(a) <=> mode = "file_write"
    BY <1>3, <1>5 DEF InAFile
  <2>7. (CASE refused(k) -> place [] ~refused(k) /\ atEnd(k) -> q [] OTHER -> 8 * k)
          = IF atEnd(k) THEN q ELSE 8 * k
    BY <1>8
  <2>8. place' = IF atEnd(k) THEN q ELSE 8 * k
    BY <1>1, <1>2, <1>3, <2>7
  <2>9. /\ mode = "dynamic" => tape' = u \o Zeros(Longest(0, BytesOf(k + 1) - Len(u)))
        /\ mode # "dynamic" => tape' = u
    <3>. DEFINE g == aligned \o Zeros(Longest(0, BytesOf(k + 1) - Len(aligned)))
    <3>. HIDE DEF g
    <3>1. /\ mode = "dynamic" => tape' = g
          /\ mode # "dynamic" => tape' = aligned
      BY <1>1, <1>8 DEF mode, g
    <3>. QED  BY <3>1 DEF g, u
  <2>. HIDE DEF there, none, d
  <2>10. InAFile(a) \/ k < a.size => Writer(d, u, 8 * k)
    <3>1. ASSUME InAFile(a) \/ k < a.size PROVE Writer(d, u, 8 * k)
      <4>1. d = StreamOf(a.mode, a.bits, a.size, k, none, 0, FALSE)
        BY <2>3, <2>5, <3>1
      <4>2. a.mode # "file_write" => k <= a.size
        BY <1>4, <1>5, <1>6, <2>6, <3>1
      <4>3. Writer(d, a.bits, 8 * k)
        BY ONLY <1>4, <1>6, <2>4, <4>1, <4>2, MovedIs
      <4>. QED  BY <1>5, <4>3
    <3>. QED  BY <3>1
  <2>11. CASE mode = "file_write"
    <3>1. ~atEnd(k) /\ tape' = u
      BY <2>9, <2>11 DEF atEnd, mode
    <3>2. Writer(bs', tape', place')
      BY <2>6, <2>8, <2>10, <2>11, <3>1 DEF d
    <3>. QED  BY <1>2, <1>4, <3>2, WriterStep
  <2>12. CASE mode = "write"
    <3>1. tape' = u /\ (atEnd(k) <=> k = a.size) /\ k <= a.size
      BY <1>3, <1>4, <1>6, <1>8, <2>9, <2>12 DEF atEnd, mode, refused
    <3>2. CASE k = a.size
      <4>1. d = a /\ place' = q
        BY <1>3, <1>4, <1>5, <2>5, <2>6, <2>8, <2>12, <3>1, <3>2
      <4>2. Writer(bs', tape', place')
        BY <1>5, <3>1, <4>1 DEF d
      <4>. QED  BY <1>2, <1>4, <4>2, WriterStep
    <3>3. CASE k # a.size
      <4>1. k < a.size /\ place' = 8 * k
        BY <1>4, <1>6, <2>8, <3>1, <3>3
      <4>2. Writer(bs', tape', place')
        BY <2>10, <3>1, <4>1 DEF d
      <4>. QED  BY <1>2, <1>4, <4>2, WriterStep
    <3>. QED  BY <3>2, <3>3
  <2>13. CASE mode = "dynamic"
    <3>. DEFINE m == BytesOf(k + 1) - Len(u)
    <3>1. /\ Len(u) = 8 * a.size /\ u \in Seq(Bits) /\ BytesOf(k + 1) = 8 * (k + 1)
          /\ m = 8 * (k + 1) - 8 * a.size /\ place' = 8 * k /\ ~InAFile(a)
      <4>1. Len(u) = 8 * a.size /\ u \in Seq(Bits) /\ BytesOf(k + 1) = 8 * (k + 1)
        BY <1>5, <1>6, <2>13 DEF BytesOf
      <4>2. ~atEnd(k)
        BY <2>13 DEF atEnd, mode
      <4>. QED  BY <2>6, <2>8, <2>13, <4>1, <4>2
    <3>2. tape' = u \o Zeros(Longest(0, m))
      BY <2>9, <2>13
    <3>. HIDE DEF m
    <3>3. CASE k < a.size
      <4>1. m <= 0 /\ m \in Int
        BY <1>4, <1>6, <3>1, <3>3
      <4>2. Longest(0, m) = 0
        BY <4>1 DEF Longest
      <4>3. tape' = u
        <5>. DEFINE z == Zeros(0)
        <5>1. z \in Seq(Bits) /\ Len(z) = 0
          BY ZerosAre
        <5>. HIDE DEF z
        <5>2. u \o z = u
          BY ONLY <3>1, <5>1
        <5>. QED  BY <3>2, <4>2, <5>2 DEF z
      <4>4. Writer(bs', tape', place')
        BY <2>10, <3>1, <3>3, <4>3 DEF d
      <4>. QED  BY <1>2, <1>4, <4>4, WriterStep
    <3>4. CASE k >= a.size
      <4>1. m \in Nat /\ Longest(0, m) = m
        <5>1. m \in Nat
          BY <1>4, <1>6, <3>1, <3>4
        <5>. QED  BY <5>1 DEF Longest
      <4>. DEFINE z == Zeros(m)
                  g == u \o z
      <4>2. z \in Seq(Bits) /\ Len(z) = m
        BY <4>1, ZerosAre
      <4>3. g \in Seq(Bits) /\ Len(g) = 8 * (k + 1)
        <5>. HIDE DEF z
        <5>1. g \in Seq(Bits) /\ Len(g) = Len(u) + Len(z)
          <6>1. u \in Seq(Bits) /\ z \in Seq(Bits)
            BY ONLY <3>1, <4>2
          <6>. QED  BY ONLY <6>1, ConcatProperties
        <5>. HIDE DEF g
        <5>2. 8 * a.size + (8 * (k + 1) - 8 * a.size) = 8 * (k + 1)
          BY <1>4, <1>6
        <5>. QED  BY <3>1, <4>2, <5>1, <5>2
      <4>4. tape' = g
        BY <3>2, <4>1
      <4>5. d = [there EXCEPT !.bits = g, !.size = k + 1]
        <5>1. there.bits = u
          BY <1>5, <2>3 DEF StreamOf
        <5>2. d = [there EXCEPT !.bits = @ \o Zeros(BytesOf(k + 1) - Len(@)), !.size = k + 1]
          BY <1>5, <2>5, <2>13, <3>1, <3>4
        <5>. DEFINE h == there.bits \o Zeros(BytesOf(k + 1) - Len(there.bits))
        <5>3. h = g
          BY <5>1 DEF m
        <5>4. d = [there EXCEPT !.bits = h, !.size = k + 1]
          BY <5>2, Zenon
        <5>. HIDE DEF g, h
        <5>. QED  BY <5>3, <5>4
      <4>. HIDE DEF z, g
      <4>6. d = StreamOf(a.mode, g, k + 1, k, none, 0, FALSE)
        BY ONLY <2>3, <4>5 DEF StreamOf
      <4>7. d \in BitStreams
        <5>1. /\ a.mode \in BitModes /\ g \in Seq(Bits) /\ k + 1 \in Nat /\ k \in Nat
              /\ none \in Seq(Bits) /\ 0 \in 0..8
          BY <1>4, <1>6, <4>3, BitParts DEF none
        <5>. QED  BY ONLY <4>6, <5>1 DEF StreamOf, BitStreams
      <4>8. /\ d.mode = a.mode /\ d.bits = g /\ d.size = k + 1 /\ d.position = k
            /\ d.current = none /\ d.nbBits = 0
        BY ONLY <4>6 DEF StreamOf
      <4>9. Kind(d)
        <5>1. ~Reads(d) /\ d.mode = "dynamic"
          BY <1>5, <2>13, <4>8 DEF Reads
        <5>2. \E n \in 0..Len(d.bits) : Len(d.bits) = BytesOf(n)
          <6>1. k + 1 \in 0..Len(d.bits) /\ Len(d.bits) = BytesOf(k + 1)
            BY <1>4, <3>1, <4>3, <4>8
          <6>. QED  BY <6>1
        <5>3. Len(d.bits) = BytesOf(d.size) /\ d.position <= d.size
          BY <1>4, <3>1, <4>3, <4>8
        <5>. QED  BY <4>7, <5>1, <5>2, <5>3 DEF Kind
      <4>10. Writer(d, g, 8 * k)
        BY <2>4, <4>8, <4>9, SettledIs
      <4>11. Writer(bs', tape', place')
        BY <3>1, <4>4, <4>10 DEF d
      <4>. QED  BY <1>2, <1>4, <4>11, WriterStep
    <3>. QED  BY <1>4, <1>6, <3>3, <3>4
  <2>. QED  BY <1>3, <2>11, <2>12, <2>13
<1>. QED  BY <1>7, <1>8

(* A stream that is opened to be read.                                         *)
LEMMA OpenedIs ==
  ASSUME NEW mode \in {"read", "file_read"}, NEW bits \in Seq(Bits), NEW n \in Nat,
         Len(bits) = 8 * n, NEW c, c = StreamOf(mode, bits, n, 0, <<>>, 8, FALSE)
  PROVE  ReaderAt(c, bits, 0) /\ c.mode = mode
<1>1. mode \in BitModes /\ <<>> \in Seq(Bits) /\ 0 \in Nat /\ 8 \in 0..8 /\ FALSE \in BOOLEAN
  BY DEF BitModes
<1>2. /\ c \in BitStreams /\ c.mode = mode /\ c.bits = bits /\ c.size = n /\ c.position = 0
      /\ c.nbBits = 8 /\ c.eof = FALSE
  BY <1>1 DEF StreamOf, BitStreams
<1>3. ~c.eof /\ 8 \in 1..8 /\ ~(8 < 8) /\ BytesOf(n) = 8 * n /\ 0 = BytesOf(0) - 8 + 8
  <2>1. 8 \in 1..8 /\ ~(8 < 8) /\ BytesOf(n) = 8 * n /\ 0 = BytesOf(0) - 8 + 8
    BY ONLY DEF BytesOf
  <2>2. ~c.eof
    BY <1>2, Zenon
  <2>. QED  BY <2>1, <2>2
<1>4. Reader(c, bits)
  BY <1>2, <1>3 DEF Reader, Reads
<1>5. Here(c, 0)
  BY <1>2, <1>3 DEF Here
<1>. QED  BY <1>2, <1>4, <1>5 DEF ReaderAt

(* The content of a writer is taken: a reader of the tape so far.              *)
LEMMA TakeContentStep ==
  ASSUME BitInv, TakeContent
  PROVE  BitInv'
<1>. DEFINE a == gf_bs_align(bs)
            x == Zeros(Up(place) - place)
            u == Taped(x)
            content == SubSeq(a.bits, 1, BytesOf(a.position))
<1>1. /\ bs.mode = "dynamic" /\ bs' = NewBs("read", content, 8)
      /\ tape' = SubSeq(u, 1, Up(place)) /\ place' = 0 /\ UNCHANGED <<astray, readings>>
  BY Zenon DEF TakeContent
<1>2. ~Reads(bs)
  BY <1>1 DEF Reads
<1>3. /\ Writer(bs, tape, place) /\ astray = FALSE /\ readings'[1] = readings'[2] /\ place \in Nat
  BY <1>1, <1>2, WriterNow
<1>. HIDE DEF u
<1>6. /\ Writer(a, u, KeptAt(bs.mode, Up(place))) /\ a.mode = bs.mode /\ a.nbBits = 0
      /\ u = a.bits /\ KeptAt(bs.mode, Up(place)) = 8 * a.position
  <2>1. a = gf_bs_align(bs) /\ u = Taped(Zeros(Up(place) - place))
    BY Zenon DEF u
  <2>. HIDE DEF a
  <2>. QED  BY <1>2, <2>1, AlignedNow
<1>. HIDE DEF a
<1>7. /\ Up(place) = 8 * a.position /\ a.bits \in Seq(Bits) /\ a.position \in Nat
      /\ Len(a.bits) = 8 * a.size /\ a.position <= a.size /\ a.size \in Nat
  <2>1. Up(place) = 8 * a.position
    BY <1>1, <1>6 DEF KeptAt
  <2>2. Len(a.bits) = 8 * a.size /\ a.position <= a.size
    BY <1>1, <1>6, WriterIs DEF Kind, BytesOf
  <2>3. a.bits \in Seq(Bits) /\ a.position \in Nat /\ a.size \in Nat
    BY <1>6, WriterIs
  <2>. QED  BY <2>1, <2>2, <2>3
<1>. DEFINE n == a.position
<1>8. tape' = content
  BY <1>1, <1>6, <1>7 DEF BytesOf
<1>9. content \in Seq(Bits) /\ Len(content) = 8 * n
  <2>. DEFINE z == a.bits
              m == BytesOf(a.position)
  <2>1. z \in Seq(Bits) /\ m \in Nat /\ m <= Len(z) /\ m = 8 * n
    BY <1>7 DEF BytesOf
  <2>. HIDE DEF z, m, n
  <2>2. SubSeq(z, 1, m) \in Seq(Bits) /\ Len(SubSeq(z, 1, m)) = m
    BY ONLY <2>1
  <2>. QED  BY <2>1, <2>2 DEF z, m
<1>. HIDE DEF content
<1>10. Len(content) \div 8 = n
  <2>1. n \in Nat
    BY <1>7
  <2>. HIDE DEF n
  <2>2. (8 * n) \div 8 = n
    BY ONLY <2>1
  <2>. QED  BY <1>9, <2>2
<1>. DEFINE c == bs'
<1>. HIDE DEF n
<1>11. c = StreamOf("read", content, n, 0, <<>>, 8, FALSE)
  BY <1>1, <1>10 DEF NewBs, StreamOf
<1>12. n \in Nat
  BY <1>7 DEF n
<1>. HIDE DEF c
<1>13. ReaderAt(c, content, 0) /\ c.mode = "read"
  BY <1>9, <1>11, <1>12, OpenedIs
<1>14. Reads(bs)' /\ tape' \in Seq(Bits) /\ place' \in Nat /\ astray' = FALSE
  BY <1>1, <1>3, <1>8, <1>9, <1>13 DEF Reads, c
<1>15. ReaderAt(bs, tape, place)'
  BY <1>1, <1>8, <1>13 DEF c
<1>. QED  BY <1>3, <1>14, <1>15 DEF BitInv

(* The streams as they are opened.                                             *)
LEMMA OpenedNow ==
  ASSUME BitInit
  PROVE  BitInv
<1>1. /\ place = 0 /\ astray = FALSE /\ readings = Nothing /\ tape = bs.bits
      /\ \/ \E mode \in {"read", "file_read"}, bits \in Contents : bs = NewBs(mode, bits, 8)
         \/ \E bits \in Contents : bs = NewBs("file_write", bits, 0)
         \/ bs = NewBs("dynamic", <<>>, 0)
         \/ bs = NewBs("write", Zeros(BytesOf(RoomSize)), 0)
  BY DEF BitInit
<1>2. readings[1] = readings[2]
  BY <1>1 DEF Nothing
<1>3. ASSUME NEW mode \in {"read", "file_read"}, NEW bits \in Contents, bs = NewBs(mode, bits, 8)
      PROVE  BitInv
  <2>. DEFINE n == Len(bits) \div 8
              c == bs
  <2>1. bits \in Seq(Bits) /\ n \in Nat /\ Len(bits) = 8 * n
    <3>1. bits \in Seq(Bits) /\ Len(bits) % 8 = 0
      BY BitAssumption
    <3>. QED  BY <3>1
  <2>. HIDE DEF n
  <2>2. c = StreamOf(mode, bits, n, 0, <<>>, 8, FALSE)
    BY <1>3 DEF NewBs, StreamOf, n
  <2>. HIDE DEF c
  <2>3. ReaderAt(c, bits, 0) /\ c.mode = mode
    BY <2>1, <2>2, OpenedIs
  <2>4. tape = bits
    <3>1. c.bits = bits
      BY <2>2 DEF StreamOf
    <3>. QED  BY <1>1, <3>1 DEF c
  <2>. QED  BY <1>1, <1>2, <2>1, <2>3, <2>4 DEF BitInv, Reads, c
<1>4. ASSUME NEW mode \in {"file_write", "dynamic", "write"}, NEW bits \in Seq(Bits),
             NEW n \in Nat, Len(bits) = 8 * n, bs = NewBs(mode, bits, 0),
             mode = "write" => n = RoomSize
      PROVE  BitInv
  <2>. DEFINE c == bs
              none == <<>>
  <2>1. (8 * n) \div 8 = n
    BY ONLY n \in Nat
  <2>2. c = StreamOf(mode, bits, n, 0, none, 0, FALSE)
    BY <1>4, <2>1 DEF NewBs, StreamOf
  <2>3. /\ mode \in BitModes /\ mode # "read" /\ mode # "file_read" /\ none \in Seq(Bits)
        /\ 0 \in 0..8 /\ 0 \in Nat /\ FALSE \in BOOLEAN
    BY DEF BitModes
  <2>4. BytesOf(n) = 8 * n /\ n \in 0..Len(bits) /\ 0 <= n
    BY <1>4 DEF BytesOf
  <2>. HIDE DEF c, none
  <2>5. /\ c \in BitStreams /\ c.mode = mode /\ c.bits = bits /\ c.size = n /\ c.position = 0
        /\ c.current = none /\ c.nbBits = 0
    BY ONLY <2>2, <2>3, n \in Nat, bits \in Seq(Bits) DEF StreamOf, BitStreams
  <2>6. Kind(c)
    <3>1. ~Reads(c)
      BY <2>3, <2>5 DEF Reads
    <3>2. \E m \in 0..Len(c.bits) : Len(c.bits) = BytesOf(m)
      BY <1>4, <2>4, <2>5
    <3>. QED  BY <1>4, <2>4, <2>5, <3>1, <3>2 DEF Kind
  <2>7. Writer(c, bits, 8 * 0)
    <3>1. c.current = <<>>
      BY <2>5 DEF none
    <3>. QED  BY <2>5, <2>6, <3>1, SettledIs
  <2>8. 8 * 0 = 0 /\ ~Reads(c)
    BY <2>6 DEF Kind
  <2>. QED  BY <1>1, <1>2, <2>5, <2>7, <2>8 DEF BitInv, c
<1>5. ASSUME NEW bits \in Contents, bs = NewBs("file_write", bits, 0) PROVE BitInv
  <2>. DEFINE n == Len(bits) \div 8
  <2>1. bits \in Seq(Bits) /\ n \in Nat /\ Len(bits) = 8 * n
    <3>1. bits \in Seq(Bits) /\ Len(bits) % 8 = 0
      BY BitAssumption
    <3>. QED  BY <3>1
  <2>. HIDE DEF n
  <2>. QED  BY <1>4, <1>5, <2>1
<1>6. ASSUME bs = NewBs("dynamic", <<>>, 0) PROVE BitInv
  <2>. DEFINE none == <<>>
  <2>1. none \in Seq(Bits) /\ Len(none) = 8 * 0 /\ 0 \in Nat /\ bs = NewBs("dynamic", none, 0)
    BY <1>6
  <2>. HIDE DEF none
  <2>. QED  BY <1>4, <2>1
<1>7. ASSUME bs = NewBs("write", Zeros(BytesOf(RoomSize)), 0) PROVE BitInv
  <2>. DEFINE z == Zeros(BytesOf(RoomSize))
  <2>1. RoomSize \in Nat /\ BytesOf(RoomSize) = 8 * RoomSize /\ BytesOf(RoomSize) \in Nat
    BY BitAssumption DEF BytesOf
  <2>2. z \in Seq(Bits) /\ Len(z) = 8 * RoomSize /\ bs = NewBs("write", z, 0)
    BY <1>7, <2>1, ZerosAre
  <2>. HIDE DEF z
  <2>. QED  BY <1>4, <2>1, <2>2
<1>. QED  BY <1>1, <1>3, <1>5, <1>6, <1>7

LEMMA BitsStay ==
  ASSUME BitInv, [BitNext]_bitVars, FarFromLimit
  PROVE  BitInv'
<1>1. CASE WriteNumber
  BY <1>1, WriteNumberStep
<1>2. CASE WriteBytes
  BY <1>2, WriteBytesStep
<1>3. CASE ReadNumber
  BY <1>3, ReadNumberStep
<1>4. CASE ReadBytes
  BY <1>4, ReadBytesStep
<1>5. CASE ReadWords
  BY <1>5, ReadWordsStep
<1>6. CASE Peek
  BY <1>6, PeekStep
<1>7. CASE SeekByte
  BY <1>7, SeekReadStep, SeekWriteStep
<1>8. CASE AlignOrSkip
  BY <1>8, SkipReadStep, SkipWriteStep
<1>9. CASE Rewind
  BY <1>9, RewindStep
<1>10. CASE TakeContent
  BY <1>10, TakeContentStep
<1>11. CASE UNCHANGED bitVars
  <2>1. bs' = bs /\ tape' = tape /\ place' = place /\ astray' = astray /\ readings' = readings
    BY <1>11 DEF bitVars
  <2>. QED  BY <2>1 DEF BitInv, ReaderAt, Reader, Here, Past, Writer, Filling, Kind, Reads
<1>. QED  BY <1>1, <1>2, <1>3, <1>4, <1>5, <1>6, <1>7, <1>8, <1>9, <1>10, <1>11 DEF BitNext

LEMMA TapeIsThere ==
  ASSUME BitInv
  PROVE  TapeIsKept
<1>1. readings[1] = readings[2]
  BY DEF BitInv
<1>2. ASSUME ~Reads(bs)
      PROVE  /\ place = BytesOf(bs.position) + bs.nbBits
             /\ \A i \in 1..Len(tape) :
                  IF i \in place - bs.nbBits + 1..place
                  THEN bs.current[i - (place - bs.nbBits)] = tape[i]
                  ELSE \/ i \in place + 1..Up(place)
                       \/ IF i > Len(bs.bits)
                          THEN bs.mode = "file_write" /\ bs.nbBits > 0 /\ tape[i] = 0
                          ELSE bs.bits[i] = tape[i]
  <2>. DEFINE base == BytesOf(bs.position)
              k == bs.nbBits
              nb == Len(bs.bits)
              nt == Len(tape)
  <2>1. /\ Writer(bs, tape, place) /\ base \in Nat /\ k \in 0..7 /\ place = base + k /\ nb \in Nat
        /\ nt \in Nat /\ bs.mode \in {"file_write", "dynamic", "write"}
        /\ bs.position \in Nat /\ base = 8 * bs.position
    <3>1. Writer(bs, tape, place) /\ tape \in Seq(Bits)
      BY <1>2, WriterNow
    <3>. QED  BY <3>1, WriterIs DEF BytesOf
  <2>2. Up(place) = base + (IF k = 0 THEN 0 ELSE 8)
    <3>1. CASE k = 0
      <4>1. place = 8 * bs.position /\ place \in Nat
        BY <2>1, <3>1
      <4>. QED  BY <2>1, <3>1, <4>1, UpIs
    <3>2. CASE k # 0
      <4>1. k \in 1..8 /\ place = 8 * bs.position + k /\ place \in Nat
        BY <2>1, <3>2
      <4>2. Up(place) = 8 * (bs.position + 1)
        BY <2>1, <4>1, UpIs
      <4>. QED  BY <2>1, <3>2, <4>2
    <3>. QED  BY <3>1, <3>2
  <2>3. /\ \A i \in 1..nt :
             IF i \in base + 1..place THEN tape[i] = bs.current[i - base]
             ELSE i \in place + 1..base + (IF k = 0 THEN 0 ELSE 8)
                  \/ tape[i] = IF i <= nb THEN bs.bits[i] ELSE 0
        /\ nt = IF bs.mode = "write" \/ k = 0 THEN nb ELSE Longest(nb, place)
    BY <2>1 DEF Writer, Filling
  <2>4. ASSUME NEW i \in 1..nt, i > nb, i \notin base + 1..place, i \notin place + 1..Up(place)
        PROVE  bs.mode = "file_write" /\ k > 0
    <3>1. bs.mode # "write" /\ k > 0 /\ nt = Longest(nb, place)
      BY <2>1, <2>3, <2>4
    <3>2. i <= place
      BY <2>1, <2>3, <2>4 DEF Longest
    <3>3. i <= base
      BY <2>1, <2>4, <3>2
    <3>4. ASSUME bs.mode = "dynamic" PROVE FALSE
      <4>1. nb = 8 * bs.size /\ bs.position <= bs.size /\ bs.size \in Nat
        BY <2>1, <3>4, WriterIs DEF Writer, Kind, BytesOf
      <4>. QED  BY <2>1, <2>4, <3>3, <4>1
    <3>. QED  BY <2>1, <3>1, <3>4
  <2>5. place - k = base
    BY <2>1
  <2>. HIDE DEF base, k, nb, nt
  <2>6. ASSUME NEW i \in 1..nt
        PROVE  IF i \in base + 1..place THEN bs.current[i - base] = tape[i]
               ELSE \/ i \in place + 1..Up(place)
                    \/ IF i > nb THEN bs.mode = "file_write" /\ k > 0 /\ tape[i] = 0
                       ELSE bs.bits[i] = tape[i]
    <3>1. i > nb <=> ~(i <= nb)
      BY <2>1
    <3>. QED  BY <2>2, <2>3, <2>4, <3>1
  <2>. QED  BY <2>1, <2>5, <2>6 DEF base, k, nb, nt
<1>. QED  BY <1>1, <1>2 DEF TapeIsKept

(* Every bit is where the calls of GF_BitStream put it and is read from there, *)
(* as long as no position comes near 2^64.                                     *)
THEOREM EveryBitIsKept == BitSpec /\ []FarFromLimit => []TapeIsKept
<1>1. BitInit => BitInv
  BY OpenedNow
<1>2. BitInv /\ [BitNext]_bitVars /\ FarFromLimit => BitInv'
  BY BitsStay
<1>3. BitInv => TapeIsKept
  BY TapeIsThere
<1>. QED  BY <1>1, <1>2, <1>3, PTL DEF BitSpec
==============================================================================
