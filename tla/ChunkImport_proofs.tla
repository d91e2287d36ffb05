------------------------- MODULE ChunkImport_proofs -------------------------
(* The chunk importer hands over the stream: the four invariants that the run  *)
(* of ChunkImport checks hold for all streams and all ways to cut them.  First *)
(* where the bytes of a message are on the wire, then what the last header of  *)
(* a chunk stream says, and then the parser step by step.                      *)
EXTENDS ChunkImport, RunLemmas

-----------------------------------------------------------------------------
(* What a stream says of its messages.                                         *)

(* The messages up to d on chunk stream c.                                     *)
On(s, c, d) == {m \in 1..d : s[m].csid = c}

(* The greatest member is the maximum.                                         *)
LEMMA MaxIs ==
  ASSUME NEW n \in Nat, NEW S \in SUBSET (1..n), NEW x \in S, \A y \in S : y <= x
  PROVE  Max(S) = x
<1>1. Max(S) \in S /\ x <= Max(S)
  BY MaxIsGreatest
<1>2. Max(S) <= x /\ Max(S) \in 1..n /\ x \in 1..n
  BY <1>1
<1>. HIDE DEF Max
<1>. QED  BY <1>1, <1>2

(* What the assumptions on the constants say of a message of a stream.         *)
LEMMA MessageFacts ==
  ASSUME NEW s \in Streams, NEW n \in 1..MaxMessages
  PROVE  /\ Len(s) = MaxMessages /\ MaxMessages \in Nat
         /\ n \in Nat /\ 1 <= n /\ n <= MaxMessages /\ n - 1 \in Nat
         /\ s[n].fmt \in {"T0", "T1", "T2", "T3"}
         /\ <<s[n].csid, s[n].size>> \in ChunkStreams
         /\ s[n].csid \in StreamIds
         /\ Fits(s[n].csid, s[n].size) /\ s[n].csid \in Nat /\ s[n].size \in 1..3
         /\ s[n].kind \in Kinds /\ s[n].kind.length \in Nat \ {0} /\ s[n].kind.value \in Nat
         /\ s[n].timestamp \in Times /\ s[n].timestamp \in Nat
         /\ Legal(s, n)
<1>1. s \in [1..MaxMessages -> ClientMessages] /\ Legal(s, n)
  BY DEF Streams
<1>2. MaxMessages \in Nat
  BY WireAssumption
<1>3. Len(s) = MaxMessages
  BY <1>1, <1>2
<1>4. s[n] \in ClientMessages
  BY <1>1
<1>5. PICK f \in {"T0", "T1", "T2", "T3"}, c \in ChunkStreams, k \in Kinds, t \in Times :
        s[n] = [fmt |-> f, csid |-> c[1], size |-> c[2], kind |-> k, timestamp |-> t]
  BY <1>4 DEF ClientMessages
<1>6. c \in Nat \X (1..3) /\ Fits(c[1], c[2])
  BY WireAssumption
<1>10. c[1] \in Nat /\ c[2] \in 1..3 /\ c = <<c[1], c[2]>>
  BY <1>6
<1>7. <<s[n].csid, s[n].size>> = c
  BY <1>5, <1>10
<1>8. s[n].csid = c[1] /\ s[n].size = c[2] /\ s[n].fmt = f /\ s[n].kind = k /\ s[n].timestamp = t
  BY <1>5
<1>9. c[1] \in StreamIds
  BY DEF StreamIds
<1>11. k.length \in Nat \ {0} /\ k.value \in Nat /\ t \in Nat
  BY WireAssumption
<1>12. n \in Nat /\ 1 <= n /\ n <= MaxMessages /\ n - 1 \in Nat
  BY <1>2
<1>13. /\ s[n].fmt \in {"T0", "T1", "T2", "T3"}
       /\ s[n].csid \in StreamIds /\ Fits(s[n].csid, s[n].size)
       /\ s[n].csid \in Nat /\ s[n].size \in 1..3
       /\ s[n].timestamp \in Times /\ s[n].timestamp \in Nat
  BY <1>6, <1>8, <1>9, <1>10, <1>11
<1>14. s[n].kind \in Kinds /\ s[n].kind.length \in Nat \ {0} /\ s[n].kind.value \in Nat
  BY <1>8, <1>11
<1>. QED  BY <1>1, <1>2, <1>3, <1>7, <1>12, <1>13, <1>14

(* The message before n on its chunk stream.                                   *)
LEMMA PreviousIs ==
  ASSUME NEW s \in Streams, NEW n \in 1..MaxMessages
  PROVE  /\ Previous(s, n) = 0 <=> On(s, s[n].csid, n - 1) = {}
         /\ Previous(s, n) # 0 =>
              /\ Previous(s, n) = Max(On(s, s[n].csid, n - 1))
              /\ Previous(s, n) \in 1..n - 1 /\ Previous(s, n) \in 1..MaxMessages
              /\ s[Previous(s, n)].csid = s[n].csid
              /\ \A m \in On(s, s[n].csid, n - 1) : m <= Previous(s, n)
<1>. DEFINE B == On(s, s[n].csid, n - 1)
<1>0. n \in Nat /\ n - 1 \in Nat /\ n <= MaxMessages /\ MaxMessages \in Nat
  BY MessageFacts
<1>1. Previous(s, n) = IF B = {} THEN 0 ELSE Max(B)
  BY DEF Previous, On
<1>2. ASSUME B # {} PROVE Max(B) \in B /\ \A m \in B : m <= Max(B)
  <2>1. B \in SUBSET (1..n - 1)
    BY DEF On
  <2>. HIDE DEF B
  <2>. QED  BY <1>0, <1>2, <2>1, MaxIsGreatest
<1>3. ASSUME NEW m \in B PROVE m \in 1..n - 1 /\ m \in 1..MaxMessages /\ s[m].csid = s[n].csid /\ m # 0
  BY <1>0 DEF On
<1>. HIDE DEF B
<1>4. CASE B = {}
  BY <1>1, <1>4 DEF B
<1>5. CASE B # {}
  <2>1. Previous(s, n) = Max(B) /\ Max(B) \in B
    BY <1>1, <1>2, <1>5
  <2>2. Previous(s, n) \in 1..n - 1 /\ Previous(s, n) \in 1..MaxMessages
        /\ s[Previous(s, n)].csid = s[n].csid /\ Previous(s, n) # 0
    BY <1>3, <2>1
  <2>. QED  BY <1>2, <1>5, <2>1, <2>2 DEF B
<1>. QED  BY <1>4, <1>5

(* A compressed header has one before it.                                      *)
LEMMA CompressedFollows ==
  ASSUME NEW s \in Streams, NEW n \in 1..MaxMessages, s[n].fmt # "T0"
  PROVE  /\ Previous(s, n) # 0
         /\ s[n].fmt \in {"T2", "T3"} => s[n].kind = s[Previous(s, n)].kind
         /\ s[n].fmt = "T3" => Delta(s, n) = Delta(s, Previous(s, n))
<1>1. Legal(s, n)
  BY MessageFacts
<1>. QED  BY <1>1 DEF Legal

(* A full or shortened header has its own extended timestamp; type 3 has one   *)
(* if the header before it has.                                                *)
LEMMA ExtendedIs ==
  ASSUME NEW s \in Streams, NEW n \in 1..MaxMessages
  PROVE  /\ s[n].fmt # "T3" => (IsExtended(s, n) <=> Field(s, n) >= RTMP_EXTEND_TIMESTAMP)
         /\ s[n].fmt = "T3" => (IsExtended(s, n) <=> IsExtended(s, Previous(s, n)))
<1>. DEFINE Full(k) == {m \in 1..k : s[m].csid = s[k].csid /\ s[m].fmt # "T3"}
            p == Previous(s, n)
<1>0. n \in Nat /\ 1 <= n /\ n - 1 \in Nat
  BY MessageFacts
<1>1. ASSUME s[n].fmt # "T3" PROVE Repeated(s, n) = n
  <2>1. Full(n) \in SUBSET (1..n) /\ n \in Full(n) /\ \A m \in Full(n) : m <= n
    BY <1>0, <1>1
  <2>2. Max(Full(n)) = n
    <3>. HIDE DEF Full
    <3>. QED  BY <1>0, <2>1, MaxIs
  <2>. QED  BY <2>2 DEF Repeated
<1>2. ASSUME s[n].fmt = "T3" PROVE Repeated(s, n) = Repeated(s, p)
  <2>1. p # 0
    BY <1>2, CompressedFollows
  <2>2. p \in 1..n - 1 /\ s[p].csid = s[n].csid /\ \A m \in On(s, s[n].csid, n - 1) : m <= p
    BY <2>1, PreviousIs
  <2>. HIDE DEF p
  <2>3. ASSUME NEW m \in Full(n) PROVE m \in Full(p)
    <3>1. m \in 1..n /\ s[m].csid = s[n].csid /\ s[m].fmt # "T3" /\ m # n
      BY <1>2
    <3>2. m \in On(s, s[n].csid, n - 1)
      BY <1>0, <3>1 DEF On
    <3>. QED  BY <2>2, <3>1, <3>2
  <2>4. ASSUME NEW m \in Full(p) PROVE m \in Full(n)
    BY <1>0, <2>2
  <2>5. Full(n) = Full(p)
    BY <2>3, <2>4
  <2>6. Repeated(s, n) = Max(Full(n)) /\ Repeated(s, p) = Max(Full(p))
    BY DEF Repeated
  <2>. QED  BY <2>5, <2>6
<1>. QED  BY <1>1, <1>2 DEF IsExtended

(* The chunk size of the first message, and of the one after a message.        *)
LEMMA ChunkSizeIs ==
  ASSUME NEW s \in Streams
  PROVE  /\ ChunkSize(s, 1) = InitialChunkSize
         /\ \A n \in 1..MaxMessages :
              /\ ChunkSize(s, n) \in Nat \ {0}
              /\ ChunkSize(s, n + 1) =
                   IF s[n].kind.type = "set_chunk_size" /\ s[n].kind.value > 0
                   THEN s[n].kind.value ELSE ChunkSize(s, n)
<1>. DEFINE Sets(n) == {m \in 1..n-1 : s[m].kind.type = "set_chunk_size" /\ s[m].kind.value > 0}
<1>1. \A n : ChunkSize(s, n) = IF Sets(n) = {} THEN InitialChunkSize ELSE s[Max(Sets(n))].kind.value
  BY DEF ChunkSize
<1>2. ChunkSize(s, 1) = InitialChunkSize
  <2>1. Sets(1) = {}
    OBVIOUS
  <2>. HIDE DEF Sets
  <2>. QED  BY <1>1, <2>1
<1>3. ASSUME NEW n \in 1..MaxMessages PROVE ChunkSize(s, n) \in Nat \ {0}
  <2>0. n \in Nat /\ n - 1 \in Nat /\ n <= MaxMessages /\ MaxMessages \in Nat
    BY MessageFacts
  <2>1. InitialChunkSize \in Nat \ {0}
    BY WireAssumption
  <2>2. ASSUME NEW m \in Sets(n) PROVE s[m].kind.value \in Nat \ {0}
    <3>1. m \in 1..MaxMessages /\ s[m].kind.value > 0
      BY <2>0
    <3>2. s[m].kind.value \in Nat
      BY <3>1, MessageFacts
    <3>. QED  BY <3>1, <3>2
  <2>3. Sets(n) \in SUBSET (1..n - 1)
    OBVIOUS
  <2>. HIDE DEF Sets
  <2>4. Sets(n) # {} => Max(Sets(n)) \in Sets(n)
    BY <2>0, <2>3, MaxIsGreatest
  <2>. QED  BY <1>1, <2>1, <2>2, <2>4
<1>4. ASSUME NEW n \in 1..MaxMessages
      PROVE  ChunkSize(s, n + 1) =
               IF s[n].kind.type = "set_chunk_size" /\ s[n].kind.value > 0
               THEN s[n].kind.value ELSE ChunkSize(s, n)
  <2>0. n \in Nat /\ 1 <= n /\ n + 1 - 1 = n
    BY MessageFacts
  <2>1. CASE s[n].kind.type = "set_chunk_size" /\ s[n].kind.value > 0
    <3>1. n \in Sets(n + 1) /\ Sets(n + 1) \in SUBSET (1..n) /\ \A m \in Sets(n + 1) : m <= n
      BY <2>0, <2>1
    <3>. HIDE DEF Sets
    <3>2. Max(Sets(n + 1)) = n
      BY <2>0, <3>1, MaxIs
    <3>. QED  BY <1>1, <2>1, <3>1, <3>2
  <2>2. CASE ~(s[n].kind.type = "set_chunk_size" /\ s[n].kind.value > 0)
    <3>1. Sets(n + 1) = Sets(n)
      BY <2>0, <2>2
    <3>2. ChunkSize(s, n + 1) = ChunkSize(s, n)
      <4>. HIDE DEF Sets
      <4>. QED  BY <1>1, <3>1
    <3>. QED  BY <2>2, <3>2
  <2>. QED  BY <2>1, <2>2
<1>. QED  BY <1>2, <1>3, <1>4

-----------------------------------------------------------------------------
(* Where the bytes of a message are on the wire.                               *)

ByteTypes == {"basic", "message", "extended", "payload", "type3"} \X (1..MaxMessages) \X Int

ExtraSize(s, n) == IF IsExtended(s, n) THEN ExtendedSize ELSE 0

(* The place after each message.                                               *)
Ends(s) ==
  LET e[n \in 0..Len(s)] == IF n = 0 THEN 0 ELSE e[n - 1] + Len(Chunks(s, n))
  IN  e

BasicAt(s, n) == Ends(s)[n - 1]
MessageAt(s, n) == BasicAt(s, n) + s[n].size
ExtendedAt(s, n) == MessageAt(s, n) + MessageHeaderSize[s[n].fmt]
PayloadAt(s, n) == ExtendedAt(s, n) + ExtraSize(s, n)

(* Division, multiplication and order of natural numbers.                      *)
LEMMA QuotientIs ==
  ASSUME NEW d \in Nat \ {0}, NEW q \in Nat, NEW r \in Nat, r < d
  PROVE  /\ q * d + r \in Nat
         /\ (q * d + r) \div d = q
         /\ (q * d + r) % d = r
<1>1. q * d \in Nat
  OBVIOUS
<1>. QED  BY <1>1

(* Quotient and remainder are one number each.                                 *)
LEMMA Quotient ==
  ASSUME NEW C \in Nat \ {0}, NEW k \in Nat
  PROVE  /\ k \div C \in Nat /\ k % C \in Nat /\ k % C < C
         /\ k = ((k \div C) * C) + (k % C)
         /\ (k \div C) * C <= k
OBVIOUS

(* Greater numbers have greater quotients.                                     *)
LEMMA QuotientMonotone ==
  ASSUME NEW C \in Nat \ {0}, NEW k \in Nat, NEW l \in Nat, k <= l
  PROVE  k \div C <= l \div C
OBVIOUS

(* And greater products.                                                       *)
LEMMA ProductMonotone ==
  ASSUME NEW a \in Nat, NEW b \in Nat, NEW c \in Nat, a <= b
  PROVE  a * c \in Nat /\ b * c \in Nat /\ a * c <= b * c
OBVIOUS

(* b is a payload of l bytes of message n in chunks of C bytes, with a header  *)
(* of H bytes after all but the last, h of them the basic one.                 *)
Chunked(b, n, C, H, h, l) ==
  /\ Len(b) = l + ((l - 1) \div C) * H /\ Len(b) \in Nat \ {0}
  /\ \A k \in 1..l :
       /\ k + ((k - 1) \div C) * H \in 1..Len(b)
       /\ b[k + ((k - 1) \div C) * H] = <<"payload", n, k>>
  /\ \A j \in 1..((l - 1) \div C) : \A i \in 1..h :
       /\ j * C + (j - 1) * H + i \in 1..Len(b)
       /\ b[j * C + (j - 1) * H + i] = <<"type3", n, i>>
  /\ \A o \in 1..Len(b) :
       /\ \E f \in {"payload", "type3", "extended"}, k \in Int : b[o] = <<f, n, k>>
       /\ b[o] = <<"payload", n, l>> => o = Len(b)

(* So is the body of every message.                                            *)
LEMMA BodyLayout ==
  ASSUME NEW s \in Streams, NEW n \in 1..MaxMessages,
         NEW C, C = ChunkSize(s, n), NEW H, H = s[n].size + ExtraSize(s, n),
         NEW l, l = s[n].kind.length
  PROVE  /\ C \in Nat \ {0} /\ H \in Nat /\ l \in Nat \ {0} /\ (l - 1) \div C \in Nat
         /\ Body(s, n) \in Seq(ByteTypes)
         /\ Chunked(Body(s, n), n, C, H, s[n].size, l)
<1>. DEFINE h == s[n].size
            At(q, r) == IF r < C THEN <<"payload", n, q * C + r + 1>>
                        ELSE IF r < C + h THEN <<"type3", n, r - C + 1>>
                        ELSE <<"extended", n, r - C - h + 1>>
            M == (l - 1) \div C
            L == l + M * H
            B == [i \in 1..L |-> At((i - 1) \div (C + H), (i - 1) % (C + H))]
<1>1. C \in Nat \ {0} /\ h \in Nat /\ h <= H /\ H \in Nat /\ l \in Nat \ {0} /\ l - 1 \in Nat
  <2>1. C \in Nat \ {0}
    BY ChunkSizeIs
  <2>2. h \in 1..3 /\ l \in Nat \ {0}
    BY MessageFacts
  <2>3. ExtraSize(s, n) \in {0, 2}
    BY DEF ExtraSize, ExtendedSize
  <2>. QED  BY <2>1, <2>2, <2>3
<1>2. M \in Nat /\ M * C <= l - 1
  BY <1>1, Quotient
<1>. HIDE DEF M
<1>3. M * H \in Nat /\ L \in Nat \ {0}
  <2>1. M \in Nat /\ M <= M
    BY <1>2
  <2>2. M * H \in Nat
    BY <1>1, <2>1, ProductMonotone
  <2>. QED  BY <1>1, <2>2
<1>4. Body(s, n) = B
  BY <1>1 DEF Body, ExtraSize, M
<1>. HIDE DEF h
<1>5. Len(B) = L
  <2>. HIDE DEF L, At
  <2>. QED  BY <1>3
<1>6. ASSUME NEW q \in Nat, NEW r \in Nat, r < C + H, q * (C + H) + r + 1 <= L
      PROVE  q * (C + H) + r + 1 \in 1..L /\ B[q * (C + H) + r + 1] = At(q, r)
  <2>. DEFINE i == q * (C + H) + r + 1
  <2>1. /\ q * (C + H) + r \in Nat
        /\ (q * (C + H) + r) \div (C + H) = q
        /\ (q * (C + H) + r) % (C + H) = r
    <3>. DEFINE d == C + H
    <3>1. d \in Nat \ {0} /\ r < d
      BY <1>1, <1>6
    <3>. HIDE DEF d
    <3>2. q * d + r \in Nat /\ (q * d + r) \div d = q /\ (q * d + r) % d = r
      BY <3>1, QuotientIs
    <3>. QED  BY <3>2 DEF d
  <2>2. i - 1 = q * (C + H) + r
    BY <2>1
  <2>3. i \in 1..L
    BY <1>3, <1>6, <2>1
  <2>4. B[i] = At((i - 1) \div (C + H), (i - 1) % (C + H))
    <3>. HIDE DEF i, At, L
    <3>. QED  BY <2>3
  <2>. QED
    <3>. HIDE DEF At, L, B
    <3>. QED  BY <2>1, <2>2, <2>3, <2>4
<1>7. ASSUME NEW k \in 1..l
      PROVE  /\ k + ((k - 1) \div C) * H \in 1..L
             /\ B[k + ((k - 1) \div C) * H] = <<"payload", n, k>>
  <2>. DEFINE q == (k - 1) \div C
              r == (k - 1) % C
  <2>1. k - 1 \in Nat /\ k - 1 <= l - 1
    BY <1>1
  <2>2. q \in Nat /\ r \in Nat /\ r < C /\ k - 1 = (q * C) + r
    BY <1>1, <2>1, Quotient
  <2>3. q <= M
    BY <1>1, <2>1, QuotientMonotone DEF M
  <2>. HIDE DEF q, r
  <2>4. q * H \in Nat /\ q * H <= M * H /\ q * C \in Nat
    BY <1>1, <1>2, <2>2, <2>3, ProductMonotone
  <2>5. q * (C + H) = q * C + q * H
    BY <1>1, <2>2
  <2>6. q * (C + H) + r + 1 = k + q * H
    BY <1>1, <2>1, <2>2, <2>4, <2>5
  <2>7. k + q * H <= L /\ r < C + H
    BY <1>1, <1>3, <2>2, <2>4
  <2>8. k + q * H \in 1..L /\ B[k + q * H] = At(q, r)
    <3>. HIDE DEF B, At, L
    <3>. QED  BY <1>6, <2>2, <2>6, <2>7
  <2>9. At(q, r) = <<"payload", n, k>>
    <3>1. q * C + r + 1 = k
      BY <2>2, <2>4
    <3>. QED  BY <2>2, <3>1
  <2>. QED
    <3>. HIDE DEF B, At, L
    <3>. QED  BY <2>8, <2>9 DEF q
<1>8. ASSUME NEW j \in 1..M, NEW i \in 1..h
      PROVE  /\ j * C + (j - 1) * H + i \in 1..L
             /\ B[j * C + (j - 1) * H + i] = <<"type3", n, i>>
  <2>1. j \in Nat /\ j - 1 \in Nat /\ j <= M /\ i \in Nat /\ i - 1 \in Nat /\ i <= H
    BY <1>1, <1>2
  <2>2. /\ (j - 1) * H \in Nat /\ j * H = (j - 1) * H + H /\ j * H \in Nat /\ j * H <= M * H
        /\ (j - 1) * C \in Nat /\ j * C = (j - 1) * C + C /\ j * C \in Nat /\ j * C <= M * C
    BY <1>1, <1>2, <2>1, ProductMonotone
  <2>3. (j - 1) * (C + H) = (j - 1) * C + (j - 1) * H
    BY <1>1, <2>1
  <2>. DEFINE r == C + (i - 1)
  <2>4. (j - 1) * (C + H) + r + 1 = j * C + (j - 1) * H + i
    BY <1>1, <2>1, <2>2, <2>3
  <2>5. r \in Nat /\ r < C + H /\ ~(r < C) /\ r < C + h /\ r - C + 1 = i
    BY <1>1, <2>1
  <2>6. j * C + (j - 1) * H + i <= L
    BY <1>1, <1>2, <1>3, <2>1, <2>2
  <2>7. /\ j * C + (j - 1) * H + i \in 1..L
        /\ B[j * C + (j - 1) * H + i] = At(j - 1, r)
    <3>. HIDE DEF B, At, L, r
    <3>. QED  BY <1>6, <2>1, <2>4, <2>5, <2>6
  <2>8. At(j - 1, r) = <<"type3", n, i>>
    <3>. HIDE DEF r
    <3>. QED  BY <2>5
  <2>. QED
    <3>. HIDE DEF B, At, L, r
    <3>. QED  BY <2>7, <2>8
<1>9. ASSUME NEW o \in 1..L
      PROVE  /\ \E f \in {"payload", "type3", "extended"}, k \in Int : B[o] = <<f, n, k>>
             /\ B[o] = <<"payload", n, l>> => o = L
  <2>. DEFINE d == C + H
              q == (o - 1) \div d
              r == (o - 1) % d
  <2>1. o - 1 \in Nat /\ d \in Nat \ {0} /\ o \in Nat
    BY <1>1, <1>3
  <2>2. q \in Nat /\ r \in Nat /\ o - 1 = (q * d) + r
    <3>. HIDE DEF d
    <3>. QED  BY <2>1, Quotient
  <2>3. B[o] = At(q, r)
    <3>. HIDE DEF At, L
    <3>. QED  OBVIOUS
  <2>. HIDE DEF B, q, r, L
  <2>4. q * C \in Nat /\ q * H \in Nat /\ q * d = q * C + q * H
    BY <1>1, <2>2, ProductMonotone
  <2>5. \E f \in {"payload", "type3", "extended"}, k \in Int : B[o] = <<f, n, k>>
    <3>1. q * C + r + 1 \in Int /\ r - C + 1 \in Int /\ r - C - h + 1 \in Int
      BY <1>1, <2>2, <2>4
    <3>. QED  BY <2>3, <3>1
  <2>6. ASSUME B[o] = <<"payload", n, l>> PROVE o = L
    <3>1. r < C /\ q * C + r + 1 = l
      BY <2>3, <2>6
    <3>2. l - 1 = (q * C) + r
      BY <1>1, <2>2, <2>4, <3>1
    <3>3. M = q
      <4>1. (q * C + r) \div C = q
        BY <1>1, <2>2, <3>1, QuotientIs
      <4>. QED  BY <3>2, <4>1 DEF M
    <3>4. o = l + q * H
      BY <1>1, <2>1, <2>2, <2>4, <3>2
    <3>. QED  BY <3>3, <3>4 DEF L
  <2>. QED  BY <2>5, <2>6
<1>. QED
  <2>. HIDE DEF B, At, L
  <2>1. Len(B) = l + M * H /\ Len(B) = L
    BY <1>5 DEF L
  <2>2. \A j \in 1..M : \A i \in 1..s[n].size :
          /\ j * C + (j - 1) * H + i \in 1..L
          /\ B[j * C + (j - 1) * H + i] = <<"type3", n, i>>
    BY <1>8 DEF h
  <2>3. Chunked(B, n, C, H, s[n].size, l)
    BY <1>3, <1>7, <1>9, <2>1, <2>2 DEF Chunked, M
  <2>4. B \in Seq(ByteTypes)
    <3>1. ASSUME NEW o \in 1..L PROVE B[o] \in ByteTypes
      <4>1. PICK f \in {"payload", "type3", "extended"}, k \in Int : B[o] = <<f, n, k>>
        BY <1>9
      <4>. QED  BY <4>1 DEF ByteTypes
    <3>2. B = [o \in 1..L |-> B[o]]
      BY DEF B
    <3>. QED  BY <1>3, <3>1, <3>2
  <2>. QED  BY <1>1, <1>2, <1>4, <2>3, <2>4 DEF M

(* The body of message n with what the stream says of it.                      *)
LEMMA BodyIs ==
  ASSUME NEW s \in Streams, NEW n \in 1..MaxMessages
  PROVE  /\ ChunkSize(s, n) \in Nat \ {0} /\ Len(Body(s, n)) \in Nat \ {0}
         /\ Chunked(Body(s, n), n, ChunkSize(s, n), s[n].size + ExtraSize(s, n), s[n].size,
                    s[n].kind.length)
<1>. DEFINE C == ChunkSize(s, n)
            H == s[n].size + ExtraSize(s, n)
            l == s[n].kind.length
<1>1. C = ChunkSize(s, n) /\ H = s[n].size + ExtraSize(s, n) /\ l = s[n].kind.length
  OBVIOUS
<1>. HIDE DEF C, H, l
<1>2. C \in Nat \ {0} /\ Chunked(Body(s, n), n, C, H, s[n].size, l)
  BY <1>1, BodyLayout
<1>. QED  BY <1>1, <1>2 DEF Chunked

(* What concatenating sequences makes of their elements.                       *)
LEMMA ConcatParts ==
  ASSUME NEW U, NEW v \in Seq(U), NEW w \in Seq(U)
  PROVE  /\ v \o w \in Seq(U) /\ Len(v \o w) = Len(v) + Len(w)
         /\ Len(v) \in Nat /\ Len(w) \in Nat
         /\ \A i \in 1..Len(v) : (v \o w)[i] = v[i]
         /\ \A i \in 1..Len(w) : (v \o w)[Len(v) + i] = w[i]
<1>. DEFINE x == v \o w
<1>1. /\ x \in Seq(U) /\ Len(x) = Len(v) + Len(w)
      /\ \A i \in 1..Len(v) + Len(w) : x[i] = IF i <= Len(v) THEN v[i] ELSE w[i - Len(v)]
  BY ConcatProperties
<1>2. Len(v) \in Nat /\ Len(w) \in Nat
  OBVIOUS
<1>. HIDE DEF x
<1>3. ASSUME NEW i \in 1..Len(v) PROVE x[i] = v[i]
  BY <1>1, <1>2
<1>4. ASSUME NEW i \in 1..Len(w) PROVE x[Len(v) + i] = w[i]
  <2>1. /\ Len(v) + i \in 1..Len(v) + Len(w) /\ ~(Len(v) + i <= Len(v))
        /\ Len(v) + i - Len(v) = i
    BY <1>2
  <2>. QED  BY <1>1, <2>1
<1>. QED  BY <1>1, <1>2, <1>3, <1>4 DEF x

(* Four parts one behind the other.                                            *)
LEMMA ConcatFour ==
  ASSUME NEW U, NEW A \in Seq(U), NEW B \in Seq(U), NEW X \in Seq(U), NEW P \in Seq(U),
         NEW w, w = ((A \o B) \o X) \o P
  PROVE  /\ w \in Seq(U) /\ Len(w) = Len(A) + Len(B) + Len(X) + Len(P)
         /\ \A i \in 1..Len(A) : w[i] = A[i]
         /\ \A i \in 1..Len(B) : w[Len(A) + i] = B[i]
         /\ \A i \in 1..Len(X) : w[Len(A) + Len(B) + i] = X[i]
         /\ \A i \in 1..Len(P) : w[Len(A) + Len(B) + Len(X) + i] = P[i]
<1>. DEFINE AB == A \o B
            ABX == AB \o X
            all == ABX \o P
<1>1. /\ AB \in Seq(U) /\ Len(AB) = Len(A) + Len(B) /\ Len(A) \in Nat /\ Len(B) \in Nat
      /\ \A i \in 1..Len(A) : AB[i] = A[i]
      /\ \A i \in 1..Len(B) : AB[Len(A) + i] = B[i]
  BY ConcatParts
<1>2. AB \in Seq(U)
  BY <1>1
<1>. HIDE DEF AB
<1>3. /\ ABX \in Seq(U) /\ Len(ABX) = Len(AB) + Len(X) /\ Len(X) \in Nat
      /\ \A i \in 1..Len(AB) : ABX[i] = AB[i]
      /\ \A i \in 1..Len(X) : ABX[Len(AB) + i] = X[i]
  BY <1>2, ConcatParts
<1>4. ABX \in Seq(U)
  BY <1>3
<1>. HIDE DEF ABX
<1>5. /\ all \in Seq(U) /\ Len(all) = Len(ABX) + Len(P) /\ Len(P) \in Nat
      /\ \A i \in 1..Len(ABX) : all[i] = ABX[i]
      /\ \A i \in 1..Len(P) : all[Len(ABX) + i] = P[i]
  BY <1>4, ConcatParts
<1>. HIDE DEF all
<1>6. ASSUME NEW i \in 1..Len(A) PROVE all[i] = A[i]
  <2>1. i \in 1..Len(AB) /\ i \in 1..Len(ABX)
    BY <1>1, <1>3
  <2>. QED  BY <1>1, <1>3, <1>5, <2>1
<1>7. ASSUME NEW i \in 1..Len(B) PROVE all[Len(A) + i] = B[i]
  <2>1. Len(A) + i \in 1..Len(AB) /\ Len(A) + i \in 1..Len(ABX)
    BY <1>1, <1>3
  <2>. QED  BY <1>1, <1>3, <1>5, <2>1
<1>8. ASSUME NEW i \in 1..Len(X) PROVE all[Len(A) + Len(B) + i] = X[i]
  <2>1. Len(AB) + i \in 1..Len(ABX)
    BY <1>1, <1>3
  <2>2. all[Len(AB) + i] = X[i]
    BY <1>3, <1>5, <2>1
  <2>. QED  BY <1>1, <2>2
<1>9. /\ Len(all) = Len(A) + Len(B) + Len(X) + Len(P)
      /\ \A i \in 1..Len(P) : all[Len(A) + Len(B) + Len(X) + i] = P[i]
  BY <1>1, <1>3, <1>5
<1>10. w = all
  BY DEF all, ABX, AB
<1>. QED  BY <1>5, <1>6, <1>7, <1>8, <1>9, <1>10

(* The sizes before the payload.                                               *)
LEMMA HeaderSizes ==
  ASSUME NEW s \in Streams, NEW n \in 1..MaxMessages
  PROVE  /\ s[n].size \in Nat \ {0} /\ MessageHeaderSize[s[n].fmt] \in Nat /\ ExtraSize(s, n) \in Nat
         /\ IsExtended(s, n) => ExtraSize(s, n) = ExtendedSize
         /\ ~IsExtended(s, n) => ExtraSize(s, n) = 0
<1>1. s[n].fmt \in {"T0", "T1", "T2", "T3"} /\ s[n].size \in 1..3
  BY MessageFacts
<1>2. MessageHeaderSize[s[n].fmt] \in Nat
  BY <1>1 DEF MessageHeaderSize
<1>. QED  BY <1>1, <1>2 DEF ExtraSize, ExtendedSize

(* x is the headers of message n, of a, b and c bytes, and a body.             *)
Parts(x, n, a, b, c, body) ==
  /\ Len(x) = a + b + c + Len(body)
  /\ \A i \in 1..a : x[i] = <<"basic", n, i>>
  /\ \A i \in 1..b : x[a + i] = <<"message", n, i>>
  /\ \A i \in 1..c : x[a + b + i] = <<"extended", n, i>>
  /\ \A i \in 1..Len(body) : x[a + b + c + i] = body[i]

(* So are the chunks of every message.                                         *)
LEMMA ChunksLayout ==
  ASSUME NEW s \in Streams, NEW n \in 1..MaxMessages
  PROVE  /\ Chunks(s, n) \in Seq(ByteTypes)
         /\ Parts(Chunks(s, n), n, s[n].size, MessageHeaderSize[s[n].fmt], ExtraSize(s, n), Body(s, n))
<1>. DEFINE a == s[n].size
            b == MessageHeaderSize[s[n].fmt]
            c == ExtraSize(s, n)
            A == Bytes("basic", n, a)
            B == Bytes("message", n, b)
            X == Bytes("extended", n, c)
            P == Body(s, n)
<1>1. a \in Nat /\ b \in Nat /\ c \in Nat
  BY HeaderSizes
<1>. HIDE DEF a, b, c
<1>2. A \in Seq(ByteTypes) /\ Len(A) = a /\ \A i \in 1..a : A[i] = <<"basic", n, i>>
  BY <1>1 DEF Bytes, ByteTypes
<1>3. B \in Seq(ByteTypes) /\ Len(B) = b /\ \A i \in 1..b : B[i] = <<"message", n, i>>
  BY <1>1 DEF Bytes, ByteTypes
<1>4. X \in Seq(ByteTypes) /\ Len(X) = c /\ \A i \in 1..c : X[i] = <<"extended", n, i>>
  BY <1>1 DEF Bytes, ByteTypes
<1>5. P \in Seq(ByteTypes)
  BY BodyLayout
<1>6. Chunks(s, n) = ((A \o B) \o X) \o P
  BY Zenon DEF Chunks, ExtraSize, a, b, c
<1>. HIDE DEF A, B, X, P
<1>. DEFINE all == ((A \o B) \o X) \o P
<1>7. /\ all \in Seq(ByteTypes) /\ Len(all) = Len(A) + Len(B) + Len(X) + Len(P)
      /\ \A i \in 1..Len(A) : all[i] = A[i]
      /\ \A i \in 1..Len(B) : all[Len(A) + i] = B[i]
      /\ \A i \in 1..Len(X) : all[Len(A) + Len(B) + i] = X[i]
      /\ \A i \in 1..Len(P) : all[Len(A) + Len(B) + Len(X) + i] = P[i]
  <2>1. A \in Seq(ByteTypes) /\ B \in Seq(ByteTypes) /\ X \in Seq(ByteTypes) /\ P \in Seq(ByteTypes)
    BY <1>2, <1>3, <1>4, <1>5
  <2>2. all = ((A \o B) \o X) \o P
    OBVIOUS
  <2>. HIDE DEF all
  <2>. QED  BY <2>1, <2>2, ConcatFour
<1>. HIDE DEF all
<1>8. /\ \A i \in 1..a : all[i] = <<"basic", n, i>>
      /\ \A i \in 1..b : all[a + i] = <<"message", n, i>>
      /\ \A i \in 1..c : all[a + b + i] = <<"extended", n, i>>
  BY <1>2, <1>3, <1>4, <1>7
<1>9. /\ all \in Seq(ByteTypes) /\ Len(all) = a + b + c + Len(P)
      /\ \A i \in 1..Len(P) : all[a + b + c + i] = P[i]
  BY <1>2, <1>3, <1>4, <1>7
<1>10. Chunks(s, n) = all /\ P = Body(s, n)
  BY <1>6 DEF all, P
<1>11. Parts(all, n, a, b, c, P)
  BY <1>8, <1>9 DEF Parts
<1>. QED  BY <1>9, <1>10, <1>11 DEF a, b, c

(* Behind the first n messages is the first place of the next one.             *)
LEMMA EndsIs ==
  ASSUME NEW s \in Streams
  PROVE  /\ Ends(s) \in [0..MaxMessages -> Nat] /\ Wire(s) \in Seq(ByteTypes)
         /\ Laid(Wire(s), Ends(s), [n \in 1..Len(s) |-> Chunks(s, n)], MaxMessages)
<1>. DEFINE N == MaxMessages
            seqs == [n \in 1..Len(s) |-> Chunks(s, n)]
            Is(e) == e = [n \in 0..N |-> IF n = 0 THEN 0 ELSE e[n - 1] + Len(Chunks(s, n))]
<1>1. N \in Nat /\ Len(s) = N
  <2>1. s \in [1..MaxMessages -> ClientMessages]
    BY DEF Streams
  <2>. QED  BY <2>1, WireAssumption
<1>2. seqs \in [1..N -> Seq(ByteTypes)]
  BY <1>1, ChunksLayout
<1>3. \A n \in 1..N : seqs[n] = Chunks(s, n)
  BY <1>1
<1>. HIDE DEF seqs
<1>4. PICK d \in [0..N -> Nat] : Laid(FlattenSeq(seqs), d, seqs, N)
  <2>. HIDE DEF N
  <2>. QED  BY <1>1, <1>2, FlattenLayout
<1>5. Is(d)
  <2>1. ASSUME NEW n \in 0..N PROVE d[n] = IF n = 0 THEN 0 ELSE d[n - 1] + Len(Chunks(s, n))
    BY <1>1, <1>3, <1>4 DEF Laid
  <2>. QED  BY <2>1, Zenon
<1>6. Is(Ends(s))
  <2>1. Ends(s) = CHOOSE e : Is(e)
    BY <1>1, Zenon DEF Ends
  <2>. HIDE DEF Is
  <2>. QED  BY <1>5, <2>1
<1>7. Ends(s) = d
  <2>. DEFINE e == Ends(s)
              Q(n) == n <= N => e[n] = d[n]
              S == {n \in Nat : Q(n)}
  <2>1. /\ DOMAIN e = 0..N /\ e = [n \in 0..N |-> e[n]]
        /\ \A n \in 0..N : e[n] = IF n = 0 THEN 0 ELSE e[n - 1] + Len(Chunks(s, n))
    <3>. HIDE DEF e
    <3>. QED  BY <1>6, Zenon DEF e
  <2>. HIDE DEF e
  <2>2. \A n \in 0..N : d[n] = IF n = 0 THEN 0 ELSE d[n - 1] + Len(Chunks(s, n))
    BY <1>5, Zenon
  <2>3. 0 \in S
    BY <1>1, <2>1, <2>2
  <2>4. ASSUME NEW k \in 0..N, k # 0, e[k - 1] = d[k - 1] PROVE e[k] = d[k]
    <3>1. e[k] = e[k - 1] + Len(Chunks(s, k)) /\ d[k] = d[k - 1] + Len(Chunks(s, k))
      BY <2>1, <2>2, <2>4
    <3>. QED  BY <2>4, <3>1
  <2>5. ASSUME NEW n \in Nat, n \in S PROVE n + 1 \in S
    <3>1. ASSUME n + 1 <= N PROVE e[n + 1] = d[n + 1]
      <4>1. n + 1 \in 0..N /\ n + 1 # 0 /\ n + 1 - 1 = n /\ n <= N
        BY <1>1, <3>1
      <4>2. e[n] = d[n]
        BY <2>5, <4>1
      <4>3. e[n + 1 - 1] = d[n + 1 - 1]
        BY <4>1, <4>2
      <4>. QED  BY <2>4, <4>1, <4>3
    <3>. QED  BY <3>1
  <2>6. Nat \subseteq S
    <3>. HIDE DEF S
    <3>. QED  BY <2>3, <2>5, SetInduction
  <2>7. \A n \in 0..N : e[n] = d[n]
    <3>. TAKE n \in 0..N
    <3>1. n \in Nat /\ n <= N
      BY <1>1
    <3>. QED  BY <2>6, <3>1
  <2>. QED  BY <2>1, <2>7 DEF e
<1>8. Wire(s) = FlattenSeq(seqs)
  BY DEF Wire, seqs
<1>9. Wire(s) \in Seq(ByteTypes)
  <2>. HIDE DEF N
  <2>. QED  BY <1>1, <1>2, <1>8, FlattenLayout
<1>. QED  BY <1>4, <1>7, <1>8, <1>9 DEF seqs

(* The ends of the messages are in their order.                                *)
LEMMA EndsGrow ==
  ASSUME NEW s \in Streams
  PROVE  \A n \in 0..MaxMessages : \A m \in 0..n : Ends(s)[m] <= Ends(s)[n]
<1>. DEFINE N == MaxMessages
            e == Ends(s)
            Q(n) == n <= N => \A m \in 0..n : e[m] <= e[n]
            S == {n \in Nat : Q(n)}
<1>1. N \in Nat /\ e \in [0..N -> Nat]
  BY EndsIs, WireAssumption
<1>2. ASSUME NEW n \in 1..N PROVE e[n] >= e[n - 1]
  <2>1. e[n] = e[n - 1] + Len([k \in 1..Len(s) |-> Chunks(s, k)][n])
    BY EndsIs DEF Laid
  <2>2. n \in 1..Len(s)
    BY MessageFacts
  <2>3. Chunks(s, n) \in Seq(ByteTypes)
    BY ChunksLayout
  <2>4. Len([k \in 1..Len(s) |-> Chunks(s, k)][n]) \in Nat
    BY <2>2, <2>3
  <2>5. e[n] \in Nat /\ e[n - 1] \in Nat
    BY <1>1
  <2>. QED  BY <2>1, <2>4, <2>5
<1>. HIDE DEF e
<1>3. 0 \in S
  BY <1>1
<1>4. ASSUME NEW n \in Nat, n \in S PROVE n + 1 \in S
  <2>1. ASSUME n + 1 <= N, NEW m \in 0..n + 1 PROVE e[m] <= e[n + 1]
    <3>1. n + 1 \in 1..N /\ n + 1 - 1 = n /\ n \in 0..N /\ n <= N /\ n + 1 \in 0..N
      BY <1>1, <2>1
    <3>2. e[n] <= e[n + 1]
      BY <1>2, <3>1
    <3>3. e[m] \in Nat /\ e[n] \in Nat /\ e[n + 1] \in Nat
      BY <1>1, <2>1, <3>1
    <3>4. CASE m = n + 1
      BY <3>3, <3>4
    <3>5. CASE m # n + 1
      <4>1. m \in 0..n
        BY <3>5
      <4>2. e[m] <= e[n]
        BY <1>4, <3>1, <4>1
      <4>. QED  BY <3>2, <3>3, <4>2
    <3>. QED  BY <3>4, <3>5
  <2>2. Q(n + 1)
    BY <2>1
  <2>. HIDE DEF Q
  <2>. QED  BY <2>2
<1>5. Nat \subseteq S
  <2>. HIDE DEF S
  <2>. QED  BY <1>3, <1>4, SetInduction
<1>6. ASSUME NEW n \in 0..N PROVE \A m \in 0..n : e[m] <= e[n]
  <2>1. n \in Nat /\ n <= N
    BY <1>1
  <2>. QED  BY <1>5, <2>1
<1>. QED  BY <1>6 DEF e

(* Every byte of a message, where it is.                                       *)
LEMMA WireLayout ==
  ASSUME NEW s \in Streams
  PROVE  /\ Ends(s)[0] = 0 /\ Ends(s)[MaxMessages] = Len(Wire(s)) /\ Len(Wire(s)) \in Nat
         /\ \A n \in 1..MaxMessages :
              /\ BasicAt(s, n) \in Nat /\ Ends(s)[n] \in Nat
              /\ Ends(s)[n] = PayloadAt(s, n) + Len(Body(s, n)) /\ Ends(s)[n] <= Len(Wire(s))
              /\ \A i \in 1..s[n].size : Wire(s)[BasicAt(s, n) + i] = <<"basic", n, i>>
              /\ \A i \in 1..MessageHeaderSize[s[n].fmt] :
                   Wire(s)[MessageAt(s, n) + i] = <<"message", n, i>>
              /\ \A i \in 1..ExtraSize(s, n) : Wire(s)[ExtendedAt(s, n) + i] = <<"extended", n, i>>
              /\ \A i \in 1..Len(Body(s, n)) : Wire(s)[PayloadAt(s, n) + i] = Body(s, n)[i]
<1>. DEFINE N == MaxMessages
            e == Ends(s)
            w == Wire(s)
            seqs == [n \in 1..Len(s) |-> Chunks(s, n)]
<1>1. /\ N \in Nat /\ e \in [0..N -> Nat] /\ e[0] = 0 /\ Len(w) = e[N]
      /\ \A n \in 1..N : e[n] = e[n - 1] + Len(seqs[n])
      /\ \A n \in 1..N : \A i \in 1..Len(seqs[n]) : w[e[n - 1] + i] = seqs[n][i]
  BY EndsIs, WireAssumption DEF Laid
<1>2. \A n \in 1..N : seqs[n] = Chunks(s, n)
  BY MessageFacts
<1>. HIDE DEF e, w, seqs
<1>3. ASSUME NEW n \in 1..N
      PROVE  /\ e[n - 1] \in Nat /\ e[n] \in Nat
             /\ e[n] = PayloadAt(s, n) + Len(Body(s, n)) /\ e[n] <= Len(w)
             /\ \A i \in 1..s[n].size : w[BasicAt(s, n) + i] = <<"basic", n, i>>
             /\ \A i \in 1..MessageHeaderSize[s[n].fmt] :
                  w[MessageAt(s, n) + i] = <<"message", n, i>>
             /\ \A i \in 1..ExtraSize(s, n) : w[ExtendedAt(s, n) + i] = <<"extended", n, i>>
             /\ \A i \in 1..Len(Body(s, n)) : w[PayloadAt(s, n) + i] = Body(s, n)[i]
  <2>. DEFINE a == s[n].size
              b == MessageHeaderSize[s[n].fmt]
              c == ExtraSize(s, n)
              l == Len(Body(s, n))
              x == Chunks(s, n)
              at0 == e[n - 1]
  <2>1. a \in Nat /\ b \in Nat /\ c \in Nat /\ l \in Nat
    BY HeaderSizes, BodyLayout DEF Chunked
  <2>2. /\ Len(x) = a + b + c + l
        /\ \A i \in 1..a : x[i] = <<"basic", n, i>>
        /\ \A i \in 1..b : x[a + i] = <<"message", n, i>>
        /\ \A i \in 1..c : x[a + b + i] = <<"extended", n, i>>
        /\ \A i \in 1..l : x[a + b + c + i] = Body(s, n)[i]
    <3>. DEFINE y == Body(s, n)
    <3>1. Parts(x, n, a, b, c, y)
      BY ChunksLayout
    <3>. HIDE DEF a, b, c, x, y
    <3>. QED  BY <3>1 DEF Parts, y, l
  <2>3. at0 \in Nat /\ e[n] \in Nat
    BY <1>1
  <2>4. e[n] = at0 + Len(x) /\ \A i \in 1..Len(x) : w[at0 + i] = x[i]
    BY <1>1, <1>2
  <2>5. e[n] <= Len(w)
    <3>1. N \in 0..N /\ n \in 0..N
      BY <1>1
    <3>. QED  BY <1>1, <3>1, EndsGrow DEF e
  <2>6. /\ BasicAt(s, n) = at0 /\ MessageAt(s, n) = at0 + a
        /\ ExtendedAt(s, n) = at0 + a + b /\ PayloadAt(s, n) = at0 + a + b + c
    BY DEF BasicAt, MessageAt, ExtendedAt, PayloadAt, e
  <2>. DEFINE length == Len(x)
  <2>. HIDE DEF a, b, c, l, x, at0
  <2>l. length = a + b + c + l
    BY <2>2
  <2>. HIDE DEF length
  <2>7. ASSUME NEW i \in 1..a PROVE w[at0 + i] = <<"basic", n, i>>
    <3>1. i \in 1..length
      BY <2>1, <2>l
    <3>. QED  BY <2>2, <2>4, <3>1 DEF length
  <2>8. ASSUME NEW i \in 1..b PROVE w[at0 + a + i] = <<"message", n, i>>
    <3>1. a + i \in 1..length /\ at0 + (a + i) = at0 + a + i
      BY <2>1, <2>3, <2>l
    <3>. QED  BY <2>2, <2>4, <3>1 DEF length
  <2>9. ASSUME NEW i \in 1..c PROVE w[at0 + a + b + i] = <<"extended", n, i>>
    <3>1. a + b + i \in 1..length /\ at0 + (a + b + i) = at0 + a + b + i
      BY <2>1, <2>3, <2>l
    <3>. QED  BY <2>2, <2>4, <3>1 DEF length
  <2>10. ASSUME NEW i \in 1..l PROVE w[at0 + a + b + c + i] = Body(s, n)[i]
    <3>1. a + b + c + i \in 1..length /\ at0 + (a + b + c + i) = at0 + a + b + c + i
      BY <2>1, <2>3, <2>l
    <3>. QED  BY <2>2, <2>4, <3>1 DEF length
  <2>11. e[n] = at0 + a + b + c + l
    BY <2>1, <2>3, <2>4, <2>l DEF length
  <2>. QED  BY <2>3, <2>5, <2>6, <2>7, <2>8, <2>9, <2>10, <2>11 DEF a, b, c, l, at0
<1>4. Len(w) \in Nat
  BY <1>1
<1>. QED  BY <1>1, <1>3, <1>4 DEF e, w, BasicAt

(* Every byte is one of a message.                                             *)
LEMMA EveryByteOfAMessage ==
  ASSUME NEW s \in Streams, NEW i \in 1..Len(Wire(s))
  PROVE  \E n \in 1..MaxMessages : Ends(s)[n - 1] < i /\ i <= Ends(s)[n]
<1>. DEFINE N == MaxMessages
            e == Ends(s)
            Q(m) == m <= N /\ i <= e[m] => \E n \in 1..m : e[n - 1] < i /\ i <= e[n]
            S == {m \in Nat : Q(m)}
<1>1. N \in Nat /\ e[0] = 0 /\ i <= e[N] /\ i \in Nat /\ 0 < i
  BY WireLayout, WireAssumption
<1>2. \A n \in 0..N : e[n] \in Nat
  BY EndsIs
<1>. HIDE DEF e
<1>3. 0 \in S
  BY <1>1
<1>4. ASSUME NEW m \in Nat, m \in S PROVE m + 1 \in S
  <2>1. ASSUME m + 1 <= N, i <= e[m + 1] PROVE \E n \in 1..m + 1 : e[n - 1] < i /\ i <= e[n]
    <3>1. m <= N /\ m \in 0..N /\ m + 1 \in 1..m + 1 /\ m + 1 - 1 = m /\ 1..m \subseteq 1..m + 1
      BY <1>1, <2>1
    <3>2. CASE i <= e[m]
      BY <1>4, <3>1, <3>2
    <3>3. CASE ~(i <= e[m])
      <4>1. e[m] < i
        BY <1>1, <1>2, <3>1, <3>3
      <4>. QED  BY <2>1, <3>1, <4>1
    <3>. QED  BY <3>2, <3>3
  <2>2. Q(m + 1)
    BY <2>1
  <2>. HIDE DEF Q
  <2>. QED  BY <2>2
<1>5. Q(N)
  <2>1. Nat \subseteq S
    <3>. HIDE DEF S
    <3>. QED  BY <1>3, <1>4, SetInduction
  <2>. HIDE DEF Q
  <2>. QED  BY <1>1, <2>1
<1>. QED  BY <1>1, <1>5 DEF e

(* The last byte of a payload is the last one of its message.                  *)
LEMMA LastByteEndsTheMessage ==
  ASSUME NEW s \in Streams, NEW i \in 1..Len(Wire(s)),
         Wire(s)[i][1] = "payload", Wire(s)[i][3] = s[Wire(s)[i][2]].kind.length
  PROVE  Wire(s)[i][2] \in 1..MaxMessages /\ i = Ends(s)[Wire(s)[i][2]]
<1>1. PICK n \in 1..MaxMessages : Ends(s)[n - 1] < i /\ i <= Ends(s)[n]
  BY EveryByteOfAMessage
<1>. DEFINE a == s[n].size
            b == MessageHeaderSize[s[n].fmt]
            c == ExtraSize(s, n)
            L == Len(Body(s, n))
            l == s[n].kind.length
            t == BasicAt(s, n)
            w == Wire(s)
<1>2. /\ a \in Nat /\ b \in Nat /\ c \in Nat /\ L \in Nat
      /\ \A o \in 1..L : /\ \E f \in {"payload", "type3", "extended"}, k \in Int : Body(s, n)[o] = <<f, n, k>>
                         /\ Body(s, n)[o] = <<"payload", n, l>> => o = L
  <2>1. /\ L \in Nat
        /\ \A o \in 1..L : /\ \E f \in {"payload", "type3", "extended"}, k \in Int :
                                 Body(s, n)[o] = <<f, n, k>>
                           /\ Body(s, n)[o] = <<"payload", n, l>> => o = L
    <3>. DEFINE B == Body(s, n)
                C == ChunkSize(s, n)
                H == a + c
    <3>1. Chunked(B, n, C, H, a, l)
      BY BodyIs
    <3>. HIDE DEF B, C, H, a, l
    <3>2. /\ Len(B) \in Nat
          /\ \A o \in 1..Len(B) : /\ \E f \in {"payload", "type3", "extended"}, k \in Int : B[o] = <<f, n, k>>
                                  /\ B[o] = <<"payload", n, l>> => o = Len(B)
      BY <3>1 DEF Chunked
    <3>. QED  BY <3>2 DEF B
  <2>2. a \in Nat /\ b \in Nat /\ c \in Nat
    BY HeaderSizes
  <2>. QED  BY <2>1, <2>2
<1>3. /\ t \in Nat /\ Ends(s)[n] = t + a + b + c + L /\ t < i /\ i <= Ends(s)[n] /\ i \in Nat
      /\ \A k \in 1..a : w[t + k] = <<"basic", n, k>>
      /\ \A k \in 1..b : w[t + a + k] = <<"message", n, k>>
      /\ \A k \in 1..c : w[t + a + b + k] = <<"extended", n, k>>
      /\ \A k \in 1..L : w[t + a + b + c + k] = Body(s, n)[k]
  <2>1. i \in Nat
    BY WireLayout
  <2>. QED  BY <1>1, <2>1, WireLayout DEF BasicAt, MessageAt, ExtendedAt, PayloadAt
<1>. HIDE DEF a, b, c, L, t, w
<1>4. CASE i <= t + a
  <2>1. i - t \in 1..a /\ t + (i - t) = i
    BY <1>2, <1>3, <1>4
  <2>2. w[i] = <<"basic", n, i - t>>
    BY <1>3, <2>1
  <2>. QED  BY <2>2 DEF w
<1>5. CASE t + a < i /\ i <= t + a + b
  <2>1. i - t - a \in 1..b /\ t + a + (i - t - a) = i
    BY <1>2, <1>3, <1>5
  <2>2. w[i] = <<"message", n, i - t - a>>
    BY <1>3, <2>1
  <2>. QED  BY <2>2 DEF w
<1>6. CASE t + a + b < i /\ i <= t + a + b + c
  <2>1. i - t - a - b \in 1..c /\ t + a + b + (i - t - a - b) = i
    BY <1>2, <1>3, <1>6
  <2>2. w[i] = <<"extended", n, i - t - a - b>>
    BY <1>3, <2>1
  <2>. QED  BY <2>2 DEF w
<1>7. CASE t + a + b + c < i
  <2>. DEFINE o == i - t - a - b - c
  <2>1. o \in 1..L /\ t + a + b + c + o = i
    BY <1>2, <1>3, <1>7
  <2>. HIDE DEF o
  <2>2. w[i] = Body(s, n)[o]
    BY <1>3, <2>1
  <2>3. PICK f \in {"payload", "type3", "extended"}, k \in Int : Body(s, n)[o] = <<f, n, k>>
    BY <1>2, <2>1
  <2>4. w[i][2] = n /\ f = "payload" /\ k = l
    BY <2>2, <2>3 DEF w
  <2>5. o = L
    BY <1>2, <2>1, <2>3, <2>4
  <2>6. i = Ends(s)[n]
    BY <1>2, <1>3, <2>1, <2>5
  <2>. QED  BY <2>4, <2>6 DEF w
<1>. QED  BY <1>2, <1>3, <1>4, <1>5, <1>6, <1>7

-----------------------------------------------------------------------------
(* The invariant.  While nothing has been refused, the parser is in the right  *)
(* place of the message it is reading, number k, and what it has read so far   *)
(* is what the stream says.                                                    *)

(* The timestamps of a stream fit into the wire's and are near each other.     *)
NearTimes ==
  \A t, u \in Times : t < WireSpan /\ t - u <= 2^(SERIAL_BITS - 1) - 1

(* Three-byte basic headers carry no stream id that needs a third byte.        *)
ShortIds == \A c \in ChunkStreams : c[2] = 3 => c[1] < 64 + 256

BasicOf(s, k) ==
  [NoHeader EXCEPT !.fmt = s[k].fmt, !.csid = s[k].csid, !.size = s[k].size, !.of = k]

ShortTimestamp(s, k) == IF IsExtended(s, k) THEN RTMP_EXTEND_TIMESTAMP ELSE Field(s, k)

ParsedOf(s, k) ==
  [BasicOf(s, k) EXCEPT !.time = IF s[k].fmt = "T3" THEN 0 ELSE ShortTimestamp(s, k),
                        !.kind = IF s[k].fmt \in {"T0", "T1"} THEN s[k].kind ELSE NoHeader.kind]

(* h is the completed header of message n.                                     *)
IsHeaderOf(s, h, n) ==
  /\ h.csid = s[n].csid /\ h.size = s[n].size /\ h.of = n /\ h.kind = s[n].kind
  /\ h.is_extended <=> IsExtended(s, n)
  /\ h.timestamp_delta = Delta(s, n)
  /\ h.expected_payload_size = Len(Body(s, n))
  /\ NearTimes => h.timestamp = s[n].timestamp

AtPlace(s, k, status, place, h) ==
  \/ /\ status = "BasicHeader" /\ k \in 1..MaxMessages + 1 /\ place = BasicAt(s, k)
  \/ /\ status = "MessageHeader" /\ k \in 1..MaxMessages
     /\ place = MessageAt(s, k) /\ h = BasicOf(s, k)
  \/ /\ status = "ExtendedTimestamp" /\ k \in 1..MaxMessages
     /\ place = ExtendedAt(s, k) /\ h = ParsedOf(s, k)
  \/ /\ status = "Completed" /\ k \in 1..MaxMessages
     /\ place = PayloadAt(s, k) /\ h.csid = s[k].csid

(* The last headers are those of the first d messages.                         *)
MapKept(s, d, map) ==
  /\ map = [c \in StreamIds |-> map[c]]
  /\ \A c \in StreamIds : IF On(s, c, d) = {} THEN map[c] = NoHeader
                          ELSE IsHeaderOf(s, map[c], Max(On(s, c, d)))

HeadersRead(k, status) == IF status = "Completed" THEN k ELSE k - 1

Handled(s, ms) ==
  /\ Len(ms) \in Nat /\ ms = [j \in 1..Len(ms) |-> ms[j]]
  /\ \A j \in 1..Len(ms) :
       /\ ms[j] = [csid |-> s[j].csid, kind |-> s[j].kind, timestamp |-> ms[j].timestamp,
                   payload |-> Bytes("payload", j, s[j].kind.length)]
       /\ NearTimes => ms[j].timestamp = s[j].timestamp

InStep ==
  LET k == Len(messages) + 1
  IN  /\ ~misread
      /\ Handled(stream, messages)
      /\ AtPlace(stream, k, _parse_status, at, _current_chunk_header)
      /\ MapKept(stream, HeadersRead(k, _parse_status), _chunk_map)
      /\ _chunk_size = ChunkSize(stream, k)
      /\ arrived \in Nat /\ at <= arrived /\ arrived <= Len(wire)
      /\ ~receiving => k > MaxMessages \/ arrived < Ends(stream)[k]

IInv ==
  /\ stream \in Streams /\ wire = Wire(stream)
  /\ refused \/ InStep
  /\ ShortIds => OnlyRefusableIsRefused

-----------------------------------------------------------------------------
(* Where the parser can be.                                                    *)

(* The places of a message, one behind the other.                              *)
LEMMA PlacesOf ==
  ASSUME NEW s \in Streams, NEW k \in 1..MaxMessages
  PROVE  /\ BasicAt(s, k) \in Nat /\ BasicAt(s, k) < MessageAt(s, k)
         /\ MessageAt(s, k) \in Nat /\ MessageAt(s, k) <= ExtendedAt(s, k)
         /\ ExtendedAt(s, k) \in Nat /\ ExtendedAt(s, k) <= PayloadAt(s, k)
         /\ PayloadAt(s, k) \in Nat /\ PayloadAt(s, k) < Ends(s)[k]
         /\ Ends(s)[k] \in Nat /\ Ends(s)[k] <= Len(Wire(s))
<1>. DEFINE a == s[k].size
            b == MessageHeaderSize[s[k].fmt]
            c == ExtraSize(s, k)
            L == Len(Body(s, k))
            e == Ends(s)
            t == BasicAt(s, k)
<1>1. a \in Nat \ {0} /\ b \in Nat /\ c \in Nat /\ L \in Nat \ {0}
  BY HeaderSizes, BodyIs
<1>2. t \in Nat /\ e[k] = PayloadAt(s, k) + L /\ e[k] <= Len(Wire(s)) /\ e[k] \in Nat
  BY WireLayout
<1>3. MessageAt(s, k) = t + a /\ ExtendedAt(s, k) = t + a + b /\ PayloadAt(s, k) = t + a + b + c
  BY DEF MessageAt, ExtendedAt, PayloadAt
<1>. HIDE DEF a, b, c, L, e, t
<1>. QED  BY <1>1, <1>2, <1>3 DEF e, t

(* Wherever the parser is, it is before the end of the message it is reading;  *)
(* behind the last one it is at the end of the wire.                           *)
LEMMA AtPlaceIs ==
  ASSUME NEW s \in Streams, NEW k, NEW status, NEW place, NEW h, AtPlace(s, k, status, place, h)
  PROVE  /\ k \in 1..MaxMessages + 1 /\ place \in Nat /\ MaxMessages \in Nat
         /\ k \in 1..MaxMessages => place < Ends(s)[k] /\ Ends(s)[k] \in Nat
         /\ k \notin 1..MaxMessages => status = "BasicHeader" /\ place = Len(Wire(s))
         /\ status \in Status
<1>1. MaxMessages \in Nat
  BY WireAssumption
<1>2. CASE k \in 1..MaxMessages
  <2>1. place \in Nat /\ place < Ends(s)[k] /\ Ends(s)[k] \in Nat
    BY <1>2, PlacesOf DEF AtPlace
  <2>. QED  BY <1>1, <1>2, <2>1 DEF AtPlace, Status
<1>3. CASE k \notin 1..MaxMessages
  <2>1. k = MaxMessages + 1 /\ status = "BasicHeader" /\ place = BasicAt(s, k)
    BY <1>1, <1>3 DEF AtPlace
  <2>2. k - 1 = MaxMessages
    BY <1>1, <2>1
  <2>3. place = Len(Wire(s)) /\ place \in Nat
    BY <2>1, <2>2, WireLayout DEF BasicAt
  <2>. QED  BY <1>1, <1>3, <2>1, <2>3 DEF Status
<1>. QED  BY <1>2, <1>3

(* A basic header says which type it is, how long and of which chunk stream.   *)
LEMMA BasicHeaderIs ==
  ASSUME NEW f, NEW c \in Nat, NEW z \in 1..3, Fits(c, z)
  PROVE  /\ BasicHeader(f, c, z)[1][1] = f
         /\ GetBasicHeaderSize(BasicHeader(f, c, z)[1]) = z
         /\ StreamId(BasicHeader(f, c, z)) = c
         /\ Len(BasicHeader(f, c, z)) = z
<1>1. CASE z = 1
  <2>1. BasicHeader(f, c, z) = << <<f, c>> >> /\ c >= 2
    BY <1>1 DEF BasicHeader, Fits
  <2>. QED  BY <1>1, <2>1 DEF GetBasicHeaderSize, StreamId
<1>2. CASE z = 2
  <2>1. BasicHeader(f, c, z) = << <<f, 0>>, c - 64 >> /\ c - 64 \in Nat
    BY <1>2 DEF BasicHeader, Fits
  <2>. QED  BY <1>2, <2>1 DEF GetBasicHeaderSize, StreamId
<1>3. CASE z = 3
  <2>. DEFINE x == (c - 64) % 256
              y == ((c - 64) \div 256) % 256
  <2>1. BasicHeader(f, c, z) = << <<f, 1>>, x, y >>
    BY <1>3 DEF BasicHeader
  <2>2. c - 64 \in Nat /\ c - 64 < 65536
    BY <1>3 DEF Fits
  <2>3. x + 64 + y * 256 = c
    BY <2>2
  <2>. HIDE DEF x, y
  <2>. QED  BY <1>3, <2>1, <2>3 DEF GetBasicHeaderSize, StreamId
<1>. QED  BY <1>1, <1>2, <1>3

(* The messages before the k-th on its chunk stream, the k-th among them.      *)
LEMMA OnGrows ==
  ASSUME NEW s \in Streams, NEW k \in 1..MaxMessages, NEW c
  PROVE  /\ c # s[k].csid => On(s, c, k) = On(s, c, k - 1)
         /\ c = s[k].csid => On(s, c, k) # {} /\ Max(On(s, c, k)) = k
<1>1. k \in Nat /\ 1 <= k /\ k - 1 \in Nat
  BY MessageFacts
<1>2. ASSUME c # s[k].csid PROVE On(s, c, k) = On(s, c, k - 1)
  BY <1>1, <1>2 DEF On
<1>3. ASSUME c = s[k].csid PROVE On(s, c, k) # {} /\ Max(On(s, c, k)) = k
  <2>. DEFINE S == On(s, c, k)
  <2>1. k \in S /\ S \in SUBSET (1..k) /\ \A m \in S : m <= k
    BY <1>1, <1>3 DEF On
  <2>. HIDE DEF S
  <2>2. Max(S) = k
    BY <1>1, <2>1, MaxIs
  <2>. QED  BY <2>1, <2>2 DEF S
<1>. QED  BY <1>2, <1>3

(* The last header of the chunk stream message k is on, before message k.      *)
LEMMA LastHeaderBefore ==
  ASSUME NEW s \in Streams, NEW k \in 1..MaxMessages, NEW map, MapKept(s, k - 1, map)
  PROVE  /\ Previous(s, k) = 0 => map[s[k].csid] = NoHeader
         /\ Previous(s, k) # 0 => /\ IsHeaderOf(s, map[s[k].csid], Previous(s, k))
                                  /\ map[s[k].csid] # NoHeader
<1>1. s[k].csid \in StreamIds
  BY MessageFacts
<1>2. ASSUME Previous(s, k) = 0 PROVE map[s[k].csid] = NoHeader
  BY <1>1, <1>2, PreviousIs DEF MapKept
<1>3. ASSUME Previous(s, k) # 0 PROVE IsHeaderOf(s, map[s[k].csid], Previous(s, k))
  BY <1>1, <1>3, PreviousIs DEF MapKept
<1>4. NoHeader.of = 0
  BY DEF NoHeader
<1>. QED  BY <1>2, <1>3, <1>4 DEF IsHeaderOf

(* The last header of the chunk stream of message k, after message k.          *)
LEMMA LastHeaderAfter ==
  ASSUME NEW s \in Streams, NEW k \in 1..MaxMessages, NEW map, MapKept(s, k, map)
  PROVE  IsHeaderOf(s, map[s[k].csid], k) /\ map[s[k].csid] # NoHeader
<1>1. s[k].csid \in StreamIds /\ k \in Nat /\ 1 <= k
  BY MessageFacts
<1>2. IsHeaderOf(s, map[s[k].csid], k)
  BY <1>1, OnGrows DEF MapKept
<1>3. NoHeader.of = 0 /\ k # 0
  BY <1>1 DEF NoHeader
<1>. QED  BY <1>2, <1>3 DEF IsHeaderOf

(* A new last header takes its place.                                          *)
LEMMA MapGrows ==
  ASSUME NEW s \in Streams, NEW k \in 1..MaxMessages, NEW map, MapKept(s, k - 1, map),
         NEW h, IsHeaderOf(s, h, k)
  PROVE  MapKept(s, k, [map EXCEPT ![s[k].csid] = h])
<1>. DEFINE new == [map EXCEPT ![s[k].csid] = h]
<1>1. s[k].csid \in StreamIds
  BY MessageFacts
<1>2. /\ new = [c \in StreamIds |-> new[c]]
      /\ new[s[k].csid] = h
      /\ \A c \in StreamIds : c # s[k].csid => new[c] = map[c]
  BY <1>1 DEF MapKept
<1>. HIDE DEF new
<1>3. ASSUME NEW c \in StreamIds
      PROVE  IF On(s, c, k) = {} THEN new[c] = NoHeader ELSE IsHeaderOf(s, new[c], Max(On(s, c, k)))
  <2>1. CASE c = s[k].csid
    BY <1>2, <2>1, OnGrows
  <2>2. CASE c # s[k].csid
    <3>1. On(s, c, k) = On(s, c, k - 1) /\ new[c] = map[c]
      BY <1>2, <2>2, OnGrows
    <3>. QED  BY <3>1 DEF MapKept
  <2>. QED  BY <2>1, <2>2
<1>. QED  BY <1>2, <1>3 DEF MapKept, new

-----------------------------------------------------------------------------
(* What the parser makes of the headers.                                       *)

HeaderFields ==
  {"fmt", "csid", "size", "of", "is_extended", "time", "kind", "timestamp", "timestamp_delta",
   "expected_payload_size"}

Says(h, f, c, z, n, t, kd) ==
  /\ DOMAIN h = HeaderFields
  /\ h.fmt = f /\ h.csid = c /\ h.size = z /\ h.of = n /\ h.time = t /\ h.kind = kd

(* The header that has been parsed so far.                                     *)
LEMMA ParsedIs ==
  ASSUME NEW s, NEW k
  PROVE  LET h == ParsedOf(s, k)
         IN  /\ Says(h, s[k].fmt, s[k].csid, s[k].size, k,
                     IF s[k].fmt = "T3" THEN 0 ELSE ShortTimestamp(s, k),
                     IF s[k].fmt \in {"T0", "T1"} THEN s[k].kind ELSE NoHeader.kind)
             /\ ~h.is_extended
<1>. DEFINE f == s[k].fmt
            c == s[k].csid
            z == s[k].size
            t == IF s[k].fmt = "T3" THEN 0 ELSE ShortTimestamp(s, k)
            kd == IF s[k].fmt \in {"T0", "T1"} THEN s[k].kind ELSE NoHeader.kind
            h == [[NoHeader EXCEPT !.fmt = f, !.csid = c, !.size = z, !.of = k]
                  EXCEPT !.time = t, !.kind = kd]
<1>1. ParsedOf(s, k) = h
  BY DEF ParsedOf, BasicOf
<1>. HIDE DEF f, c, z, t, kd
<1>2. Says(h, f, c, z, k, t, kd) /\ ~h.is_extended
  BY DEF Says, HeaderFields, NoHeader
<1>. QED  BY <1>1, <1>2 DEF f, c, z, t, kd

(* With its extended timestamp.                                                *)
LEMMA ExtendedHeaderSays ==
  ASSUME NEW f, NEW c, NEW z, NEW n, NEW t, NEW kd, NEW h, Says(h, f, c, z, n, t, kd), NEW u,
         NEW new, new = [h EXCEPT !.is_extended = TRUE, !.time = u]
  PROVE  Says(new, f, c, z, n, u, kd) /\ new.is_extended
BY DEF Says, HeaderFields

(* And with what it takes over from the one before.                            *)
LEMMA CompletedHeaderSays ==
  ASSUME NEW f, NEW c, NEW z, NEW n, NEW t, NEW kd, NEW h, Says(h, f, c, z, n, t, kd), NEW last,
         NEW m, m = Complete(h, last), NEW new, new = CalculateForType3Header(m)
  PROVE  /\ new.csid = c /\ new.size = z /\ new.of = n /\ (new.is_extended <=> h.is_extended)
         /\ f = "T0" => /\ new.timestamp_delta = 0 /\ new.kind = kd
                        /\ new.timestamp = IF last = NoHeader THEN t
                                           ELSE CalculateRolledTimestamp(last.timestamp, t)
         /\ f # "T0" => LET delta == IF f = "T3" THEN last.timestamp_delta ELSE t
                        IN  new.timestamp_delta = delta /\ new.timestamp = last.timestamp + delta
         /\ f = "T1" => new.kind = kd
         /\ f \notin {"T0", "T1"} => new.kind = last.kind
         /\ new.expected_payload_size =
              new.kind.length + ((IF new.kind.length = 0 THEN UINT_MAX ELSE new.kind.length - 1)
                                   \div _chunk_size) * (z + IF h.is_extended THEN ExtendedSize ELSE 0)
<1>. DEFINE md == IF f \in {"T0", "T1"} THEN kd ELSE last.kind
            td == IF f = "T0" THEN 0 ELSE IF f = "T3" THEN last.timestamp_delta ELSE t
            ts == IF f # "T0" THEN last.timestamp + td
                  ELSE IF last = NoHeader THEN t ELSE CalculateRolledTimestamp(last.timestamp, t)
<1>1. h.time = t /\ h.fmt = f /\ h.kind = kd
  BY DEF Says
<1>2. Says(m, f, c, z, n, t, md) /\ m.timestamp_delta = td /\ m.timestamp = ts
      /\ (m.is_extended <=> h.is_extended)
  <2>1. CASE f = "T0"
    <3>1. m = [h EXCEPT !.timestamp_delta = td, !.timestamp = ts]
      BY <1>1, <2>1 DEF Complete
    <3>2. md = kd
      BY <2>1
    <3>. HIDE DEF md, td, ts
    <3>. QED  BY <3>1, <3>2 DEF Says, HeaderFields
  <2>2. CASE f # "T0"
    <3>1. m = [h EXCEPT !.timestamp_delta = td, !.timestamp = ts, !.kind = md]
      BY <1>1, <2>2 DEF Complete
    <3>. HIDE DEF md, td, ts
    <3>. QED  BY <3>1 DEF Says, HeaderFields
  <2>. QED  BY <2>1, <2>2
<1>. DEFINE e == md.length + ((IF md.length = 0 THEN UINT_MAX ELSE md.length - 1) \div _chunk_size)
                               * (z + IF h.is_extended THEN ExtendedSize ELSE 0)
<1>. HIDE DEF md, td, ts
<1>3. new = [m EXCEPT !.expected_payload_size = e]
  <2>1. m.size = z /\ m.kind = md
    BY <1>2 DEF Says
  <2>2. HeaderSize(m) = z + IF h.is_extended THEN ExtendedSize ELSE 0
    BY <1>2, <2>1 DEF HeaderSize
  <2>3. Type3Count(m) = (IF md.length = 0 THEN UINT_MAX ELSE md.length - 1) \div _chunk_size
    BY <2>1 DEF Type3Count
  <2>. QED  BY <2>1, <2>2, <2>3, Zenon DEF CalculateForType3Header
<1>. HIDE DEF e
<1>4. /\ Says(new, f, c, z, n, t, md) /\ new.timestamp_delta = td /\ new.timestamp = ts
      /\ (new.is_extended <=> h.is_extended) /\ new.expected_payload_size = e
  BY <1>2, <1>3 DEF Says, HeaderFields
<1>5. new.csid = c /\ new.size = z /\ new.of = n /\ new.kind = md
  BY <1>4 DEF Says
<1>6. new.expected_payload_size =
              new.kind.length + ((IF new.kind.length = 0 THEN UINT_MAX ELSE new.kind.length - 1)
                                   \div _chunk_size) * (z + IF h.is_extended THEN ExtendedSize ELSE 0)
  BY <1>4, <1>5, Zenon DEF e
<1>. QED  BY <1>4, <1>5, <1>6 DEF md, td, ts

(* Near timestamps are taken as they are.                                      *)
LEMMA RolledIs ==
  ASSUME NearTimes, NEW t \in Times, NEW u \in Times
  PROVE  t \in Nat /\ u \in Nat /\ t % WireSpan = t /\ CalculateRolledTimestamp(u, t) = t
<1>1. t \in Nat /\ u \in Nat
  BY WireAssumption
<1>2. /\ t < WireSpan
      /\ t - u <= 2^(SERIAL_BITS - 1) - 1 /\ u - t <= 2^(SERIAL_BITS - 1) - 1
  BY DEF NearTimes
<1>3. WireSpan \in Int
  BY WireAssumption DEF WireSpan
<1>4. t % WireSpan = t
  <2>. HIDE DEF WireSpan
  <2>. QED  BY <1>1, <1>2, <1>3
<1>5. (IF u > t THEN u - t ELSE t - u) <= 2^(SERIAL_BITS - 1) - 1
  BY <1>2
<1>. QED  BY <1>1, <1>4, <1>5, Zenon DEF CalculateRolledTimestamp

(* The header the parser completes is the one of the message it is reading.    *)
LEMMA HeaderCompleted ==
  ASSUME stream \in Streams, NEW k \in 1..MaxMessages,
         MapKept(stream, k - 1, _chunk_map), _chunk_size = ChunkSize(stream, k),
         NEW h, h = ParsedOf(stream, k), NEW parsed, parsed = WithExtendedTimestamp(h),
         NEW last, last = _chunk_map[parsed.csid],
         NEW m, m = Complete(parsed, last), NEW new, new = CalculateForType3Header(m)
  PROVE  /\ TargetIsExtended(h) <=> IsExtended(stream, k)
         /\ parsed.csid = stream[k].csid /\ parsed.of = k /\ parsed.fmt = stream[k].fmt
         /\ (IF parsed.is_extended THEN ExtendedSize ELSE 0) = ExtraSize(stream, k)
         /\ last = NoHeader => parsed.fmt = "T0"
         /\ IsHeaderOf(stream, new, k)
<1>. DEFINE s == stream
            f == s[k].fmt
            c == s[k].csid
            z == s[k].size
            p == Previous(s, k)
            kd == IF f \in {"T0", "T1"} THEN s[k].kind ELSE NoHeader.kind
            u == IF f = "T3" THEN parsed.time ELSE Field(s, k)
            X == IF parsed.is_extended THEN ExtendedSize ELSE 0
<1>1. /\ Says(h, f, c, z, k, IF f = "T3" THEN 0 ELSE ShortTimestamp(s, k), kd) /\ ~h.is_extended
  BY ParsedIs
<1>2. h.fmt = f /\ h.csid = c /\ h.of = k /\ h.time = IF f = "T3" THEN 0 ELSE ShortTimestamp(s, k)
  BY <1>1 DEF Says
<1>3. f \in {"T0", "T1", "T2", "T3"}
  BY MessageFacts
<1>4. /\ p = 0 => _chunk_map[c] = NoHeader
      /\ p # 0 => IsHeaderOf(s, _chunk_map[c], p) /\ _chunk_map[c] # NoHeader
  BY LastHeaderBefore
<1>5. f # "T0" => /\ p # 0
                  /\ f \in {"T2", "T3"} => s[k].kind = s[p].kind
                  /\ f = "T3" => Delta(s, k) = Delta(s, p)
  BY CompressedFollows
<1>6. TargetIsExtended(h) <=> IsExtended(s, k)
  <2>1. CASE f = "T3"
    <3>1. TargetIsExtended(h) <=> _chunk_map[c].is_extended
      BY <1>2, <2>1 DEF TargetIsExtended
    <3>2. _chunk_map[c].is_extended <=> IsExtended(s, p)
      BY <1>4, <1>5, <2>1 DEF IsHeaderOf
    <3>3. IsExtended(s, k) <=> IsExtended(s, p)
      BY <2>1, ExtendedIs
    <3>. QED  BY <3>1, <3>2, <3>3
  <2>2. CASE f # "T3"
    <3>1. TargetIsExtended(h) <=> ShortTimestamp(s, k) = RTMP_EXTEND_TIMESTAMP
      BY <1>2, <2>2 DEF TargetIsExtended
    <3>2. IsExtended(s, k) <=> Field(s, k) >= RTMP_EXTEND_TIMESTAMP
      BY <2>2, ExtendedIs
    <3>3. RTMP_EXTEND_TIMESTAMP \in Nat
      BY WireAssumption
    <3>. QED  BY <3>1, <3>2, <3>3 DEF ShortTimestamp
  <2>. QED  BY <2>1, <2>2
<1>7. Says(parsed, f, c, z, k, u, kd) /\ (parsed.is_extended <=> IsExtended(s, k))
  <2>1. CASE IsExtended(s, k)
    <3>1. parsed = [h EXCEPT !.is_extended = TRUE, !.time = Field(s, k)]
      BY <1>2, <1>6, <2>1 DEF WithExtendedTimestamp
    <3>2. Says(parsed, f, c, z, k, Field(s, k), kd) /\ parsed.is_extended
      <4>. HIDE DEF f, c, z, kd, s
      <4>. QED  BY <1>1, <3>1, ExtendedHeaderSays
    <3>3. parsed.time = Field(s, k)
      BY <3>2 DEF Says
    <3>. QED  BY <2>1, <3>2, <3>3
  <2>2. CASE ~IsExtended(s, k)
    <3>1. parsed = h
      BY <1>6, <2>2 DEF WithExtendedTimestamp
    <3>2. u = h.time
      BY <1>2, <2>2, <3>1 DEF ShortTimestamp
    <3>. QED  BY <1>1, <1>2, <2>2, <3>1, <3>2
  <2>. QED  BY <2>1, <2>2
<1>8. parsed.csid = c /\ parsed.of = k /\ parsed.fmt = f /\ last = _chunk_map[c]
  BY <1>7 DEF Says
<1>9. X = ExtraSize(s, k)
  BY <1>7 DEF ExtraSize
<1>10. last = NoHeader => f = "T0"
  BY <1>4, <1>5, <1>8
<1>. DEFINE delta == IF f = "T3" THEN last.timestamp_delta ELSE u
<1>11. /\ new.csid = c /\ new.size = z /\ new.of = k /\ (new.is_extended <=> parsed.is_extended)
       /\ f = "T0" => /\ new.timestamp_delta = 0 /\ new.kind = kd
                      /\ new.timestamp = IF last = NoHeader THEN u
                                         ELSE CalculateRolledTimestamp(last.timestamp, u)
       /\ f # "T0" => new.timestamp_delta = delta /\ new.timestamp = last.timestamp + delta
       /\ f = "T1" => new.kind = kd
       /\ f \notin {"T0", "T1"} => new.kind = last.kind
       /\ new.expected_payload_size =
            new.kind.length + ((IF new.kind.length = 0 THEN UINT_MAX ELSE new.kind.length - 1)
                                 \div _chunk_size) * (z + X)
  <2>. HIDE DEF f, c, z, kd, u, s
  <2>. QED  BY <1>7, CompletedHeaderSays
<1>12. new.kind = s[k].kind
  <2>1. CASE f \in {"T0", "T1"}
    BY <1>11, <2>1
  <2>2. CASE f \in {"T2", "T3"}
    <3>1. last.kind = s[p].kind
      BY <1>4, <1>5, <1>8, <2>2 DEF IsHeaderOf
    <3>. QED  BY <1>5, <1>11, <2>2, <3>1
  <2>. QED  BY <1>3, <2>1, <2>2
<1>13. f # "T0" => delta = Delta(s, k)
  <2>1. CASE f = "T3"
    <3>1. last.timestamp_delta = Delta(s, p)
      BY <1>4, <1>5, <1>8, <2>1 DEF IsHeaderOf
    <3>. QED  BY <1>5, <2>1, <3>1
  <2>2. CASE f \in {"T1", "T2"}
    BY <2>2 DEF Field
  <2>. QED  BY <1>3, <2>1, <2>2
<1>14. new.timestamp_delta = Delta(s, k)
  BY <1>11, <1>13 DEF Delta
<1>15. new.expected_payload_size = Len(Body(s, k))
  <2>. DEFINE l == s[k].kind.length
              C == ChunkSize(s, k)
  <2>1. l \in Nat \ {0}
    BY MessageFacts
  <2>2. Len(Body(s, k)) = l + ((l - 1) \div C) * (z + X)
    BY <1>9, BodyIs DEF Chunked
  <2>3. new.kind.length = l /\ l # 0
    BY <1>12, <2>1
  <2>. HIDE DEF l, C, X, z
  <2>. QED  BY <1>11, <2>2, <2>3 DEF C
<1>16. ASSUME NearTimes PROVE new.timestamp = s[k].timestamp
  <2>1. s[k].timestamp \in Times
    BY MessageFacts
  <2>2. p # 0 => s[p].timestamp \in Times /\ last.timestamp = s[p].timestamp
    <3>1. p # 0 => p \in 1..MaxMessages
      BY PreviousIs
    <3>. QED  BY <1>4, <1>8, <1>16, <3>1, MessageFacts DEF IsHeaderOf
  <2>3. CASE f = "T0"
    <3>1. u = s[k].timestamp
      BY <1>16, <2>1, <2>3, RolledIs DEF Field
    <3>2. CASE p = 0
      BY <1>4, <1>8, <1>11, <2>3, <3>1, <3>2
    <3>3. CASE p # 0
      <4>1. CalculateRolledTimestamp(last.timestamp, u) = u
        BY <1>16, <2>1, <2>2, <3>1, <3>3, RolledIs
      <4>2. last # NoHeader
        BY <1>4, <1>8, <3>3
      <4>. QED  BY <1>11, <2>3, <3>1, <4>1, <4>2
    <3>. QED  BY <3>2, <3>3
  <2>4. CASE f # "T0"
    <3>1. p # 0
      BY <1>5, <2>4
    <3>2. s[k].timestamp \in Nat /\ s[p].timestamp \in Nat
      BY <2>1, <2>2, <3>1, WireAssumption
    <3>3. new.timestamp = s[p].timestamp + Delta(s, k)
      BY <1>11, <1>13, <2>2, <2>4, <3>1
    <3>4. Delta(s, k) = s[k].timestamp - s[p].timestamp
      BY <2>4 DEF Delta
    <3>. QED  BY <3>2, <3>3, <3>4
  <2>. QED  BY <2>3, <2>4
<1>17. IsHeaderOf(s, new, k)
  BY <1>7, <1>11, <1>12, <1>14, <1>15, <1>16 DEF IsHeaderOf
<1>. QED  BY <1>6, <1>8, <1>9, <1>10, <1>17

-----------------------------------------------------------------------------
(* The invariant holds at the beginning, and every action keeps it.            *)

(* Before the first block the parser is at the first message.                  *)
LEMMA InitInStep == Init => IInv
<1>. SUFFICES ASSUME Init PROVE IInv
  OBVIOUS
<1>. DEFINE s == stream
<1>1. /\ s \in Streams /\ wire = Wire(s) /\ messages = <<>> /\ ~refused /\ ~misread
      /\ at = 0 /\ arrived = 0 /\ _parse_status = "BasicHeader"
      /\ _chunk_map = [c \in StreamIds |-> NoHeader] /\ _chunk_size = InitialChunkSize
  BY DEF Init
<1>2. MaxMessages \in Nat
  BY WireAssumption
<1>3. Len(messages) = 0 /\ Len(messages) + 1 = 1 /\ 1 - 1 = 0
  BY <1>1
<1>4. Ends(s)[0] = 0 /\ Len(Wire(s)) \in Nat
  BY <1>1, WireLayout
<1>5. Handled(s, messages)
  BY <1>1 DEF Handled
<1>6. AtPlace(s, 1, _parse_status, at, _current_chunk_header)
  BY <1>1, <1>2, <1>3, <1>4 DEF AtPlace, BasicAt
<1>7. MapKept(s, HeadersRead(1, _parse_status), _chunk_map)
  <2>1. \A c : On(s, c, 0) = {}
    BY DEF On
  <2>2. HeadersRead(1, _parse_status) = 0
    BY <1>1 DEF HeadersRead
  <2>. QED  BY <1>1, <2>1, <2>2 DEF MapKept
<1>8. _chunk_size = ChunkSize(s, 1)
  BY <1>1, ChunkSizeIs
<1>9. 1 > MaxMessages \/ arrived < Ends(s)[1]
  <2>1. CASE 1 \in 1..MaxMessages
    <3>1. 0 < Ends(s)[1]
      BY <1>1, <2>1, PlacesOf
    <3>. QED  BY <1>1, <3>1
  <2>. QED  BY <1>2, <2>1
<1>. HIDE DEF s
<1>10. InStep
  BY <1>1, <1>3, <1>4, <1>5, <1>6, <1>7, <1>8, <1>9 DEF InStep, s
<1>. QED  BY <1>1, <1>10 DEF IInv, OnlyRefusableIsRefused, s

(* Where the parser is while it reads a message.                               *)
LEMMA Reading ==
  ASSUME IInv, ~refused, NEW status, Parsing(status), NEW k, k = Len(messages) + 1
  PROVE  /\ stream \in Streams /\ wire = Wire(stream)
         /\ k \in 1..MaxMessages /\ at \in Nat /\ arrived \in Nat
         /\ arrived <= Len(wire) /\ Len(wire) \in Nat /\ at < Ends(stream)[k] /\ Ends(stream)[k] \in Nat
         /\ _parse_status = status
         /\ AtPlace(stream, k, status, at, _current_chunk_header)
         /\ MapKept(stream, HeadersRead(k, status), _chunk_map)
         /\ _chunk_size = ChunkSize(stream, k)
<1>1. InStep /\ stream \in Streams /\ wire = Wire(stream)
  BY DEF IInv
<1>2. /\ AtPlace(stream, k, status, at, _current_chunk_header) /\ _parse_status = status
      /\ MapKept(stream, HeadersRead(k, status), _chunk_map)
      /\ _chunk_size = ChunkSize(stream, k)
      /\ arrived \in Nat /\ arrived <= Len(wire)
      /\ arrived - at > 0
  BY <1>1 DEF InStep, Parsing, Remained
<1>3. Len(wire) \in Nat
  BY <1>1, WireLayout
<1>4. at \in Nat /\ k \in 1..MaxMessages + 1 /\ (k \notin 1..MaxMessages => at = Len(wire))
  BY <1>1, <1>2, AtPlaceIs
<1>5. k \in 1..MaxMessages
  BY <1>2, <1>3, <1>4
<1>6. at < Ends(stream)[k] /\ Ends(stream)[k] \in Nat
  BY <1>1, <1>2, <1>5, AtPlaceIs
<1>. QED  BY <1>1, <1>2, <1>3, <1>4, <1>5, <1>6

(* A header or a part of one has been read.                                    *)
LEMMA PartRead ==
  ASSUME IInv, ~refused, UNCHANGED <<wireVars, messages, _chunk_size, arrived, refused, misread>>,
         receiving, UNCHANGED receiving, at' <= arrived,
         LET k == Len(messages) + 1
         IN  /\ AtPlace(stream, k, _parse_status', at', _current_chunk_header')
             /\ MapKept(stream, HeadersRead(k, _parse_status'), _chunk_map')
  PROVE  IInv'
<1>1. InStep'
  BY DEF IInv, InStep, wireVars
<1>. QED  BY <1>1 DEF IInv, wireVars, OnlyRefusableIsRefused

(* A block brings bytes of the wire, and the call runs.                        *)
LEMMA AppendBlockKeeps == ASSUME IInv, ~refused, AppendBlock PROVE IInv'
<1>1. PICK size \in BlockSizes :
        arrived' = IF arrived + size < Len(wire) THEN arrived + size ELSE Len(wire)
  BY DEF AppendBlock
<1>2. size \in Nat
  BY ImportAssumption
<1>3. InStep /\ stream \in Streams /\ wire = Wire(stream)
  BY DEF IInv
<1>4. Len(wire) \in Nat
  BY <1>3, WireLayout
<1>5. arrived \in Nat /\ at <= arrived /\ arrived <= Len(wire) /\ at \in Nat
  <2>1. AtPlace(stream, Len(messages) + 1, _parse_status, at, _current_chunk_header)
    BY <1>3 DEF InStep
  <2>2. at \in Nat
    BY <1>3, <2>1, AtPlaceIs
  <2>. QED  BY <1>3, <2>2 DEF InStep
<1>6. arrived' \in Nat /\ at <= arrived' /\ arrived' <= Len(wire)
  BY <1>1, <1>2, <1>4, <1>5
<1>7. /\ UNCHANGED <<stream, wire, at, _parse_status, _current_chunk_header, _chunk_map, _chunk_size,
                     messages, refused, misread>>
      /\ receiving' = TRUE
  BY DEF AppendBlock, wireVars, parserVars, importVars
<1>8. InStep'
  BY <1>3, <1>6, <1>7 DEF InStep
<1>. QED  BY <1>3, <1>7, <1>8 DEF IInv, OnlyRefusableIsRefused

(* The basic header read is the one of message k.                              *)
LEMMA ParseBasicHeaderKeeps == ASSUME IInv, ~refused, ParseBasicHeader PROVE IInv'
<1>. DEFINE s == stream
            k == Len(messages) + 1
            n == wire[at + 1][2]
            bytes == BasicHeader(s[n].fmt, s[n].csid, s[n].size)
            size == GetBasicHeaderSize(bytes[1])
<1>1. /\ Parsing("BasicHeader") /\ receiving
      /\ IsRemained(size)
      /\ _current_chunk_header' = [NoHeader EXCEPT !.fmt = bytes[1][1], !.csid = StreamId(bytes),
                                                      !.size = size, !.of = n]
      /\ at' = at + size /\ _parse_status' = "MessageHeader"
      /\ UNCHANGED <<wireVars, messages, _chunk_size, arrived, refused, misread, receiving, _chunk_map>>
  BY Zenon DEF ParseBasicHeader, Use, Parsing, importVars
<1>2. /\ s \in Streams /\ wire = Wire(s) /\ k \in 1..MaxMessages /\ at \in Nat /\ arrived \in Nat
      /\ AtPlace(s, k, "BasicHeader", at, _current_chunk_header)
      /\ MapKept(s, HeadersRead(k, "BasicHeader"), _chunk_map)
  BY <1>1, Reading
<1>3. at = BasicAt(s, k)
  BY <1>2 DEF AtPlace
<1>4. s[k].size \in 1..3 /\ Fits(s[k].csid, s[k].size) /\ s[k].csid \in Nat
  BY <1>2, MessageFacts
<1>5. wire[at + 1] = <<"basic", k, 1>>
  BY <1>2, <1>3, <1>4, WireLayout
<1>6. n = k
  BY <1>5
<1>7. bytes[1][1] = s[k].fmt /\ size = s[k].size /\ StreamId(bytes) = s[k].csid
  BY <1>4, <1>6, BasicHeaderIs
<1>8. _current_chunk_header' = BasicOf(s, k)
  <2>. HIDE DEF bytes, size, n, k, s
  <2>. QED  BY <1>1, <1>6, <1>7, Zenon DEF BasicOf
<1>9. at' = MessageAt(s, k)
  <2>. HIDE DEF bytes, size, n, k, s
  <2>. QED  BY <1>1, <1>3, <1>7 DEF MessageAt
<1>10. at' <= arrived
  <2>1. size \in Int
    BY <1>4, <1>7
  <2>. HIDE DEF bytes, size, n, k, s
  <2>. QED  BY <1>1, <1>2, <2>1 DEF IsRemained, Remained
<1>11. AtPlace(s, k, _parse_status', at', _current_chunk_header')
  BY <1>1, <1>2, <1>8, <1>9 DEF AtPlace
<1>12. MapKept(s, HeadersRead(k, _parse_status'), _chunk_map')
  BY <1>1, <1>2 DEF HeadersRead
<1>. HIDE DEF bytes, size, n
<1>. QED  BY <1>1, <1>10, <1>11, <1>12, PartRead

(* So is the message header, the short timestamp in it.                        *)
LEMMA ParseMessageHeaderKeeps == ASSUME IInv, ~refused, ParseMessageHeader PROVE IInv'
<1>. DEFINE s == stream
            k == Len(messages) + 1
            h == _current_chunk_header
            short == IF IsExtended(s, h.of) THEN RTMP_EXTEND_TIMESTAMP ELSE Field(s, h.of)
            size == MessageHeaderSize[h.fmt]
            t == IF h.fmt = "T3" THEN h.time ELSE short
            kd == IF h.fmt \in {"T0", "T1"} THEN s[h.of].kind ELSE h.kind
<1>1. /\ Parsing("MessageHeader") /\ receiving
      /\ IsRemained(size)
      /\ _current_chunk_header' = [h EXCEPT !.time = t, !.kind = kd]
      /\ at' = at + size /\ _parse_status' = "ExtendedTimestamp"
      /\ UNCHANGED <<wireVars, messages, _chunk_size, arrived, refused, misread, receiving, _chunk_map>>
  BY DEF ParseMessageHeader, Use, Parsing, importVars
<1>2. /\ s \in Streams /\ wire = Wire(s) /\ k \in 1..MaxMessages /\ at \in Nat /\ arrived \in Nat
      /\ AtPlace(s, k, "MessageHeader", at, h)
      /\ MapKept(s, HeadersRead(k, "MessageHeader"), _chunk_map)
  BY <1>1, Reading
<1>3. at = MessageAt(s, k) /\ h = BasicOf(s, k)
  BY <1>2 DEF AtPlace
<1>4. h.fmt = s[k].fmt /\ h.of = k /\ h.time = 0 /\ h.kind = NoHeader.kind
  BY <1>3 DEF BasicOf, NoHeader
<1>5. /\ t = IF s[k].fmt = "T3" THEN 0 ELSE ShortTimestamp(s, k)
      /\ kd = IF s[k].fmt \in {"T0", "T1"} THEN s[k].kind ELSE NoHeader.kind
      /\ size = MessageHeaderSize[s[k].fmt]
  BY <1>4 DEF ShortTimestamp
<1>6. _current_chunk_header' = ParsedOf(s, k)
  <2>. HIDE DEF t, kd, h, s, k
  <2>. QED  BY <1>1, <1>3, <1>5, Zenon DEF ParsedOf
<1>7. at' = ExtendedAt(s, k) /\ at' <= arrived
  <2>1. size \in Nat
    BY <1>2, <1>5, HeaderSizes
  <2>2. at' = ExtendedAt(s, k)
    BY <1>1, <1>3, <1>5 DEF ExtendedAt
  <2>. HIDE DEF size, k, s, h
  <2>. QED  BY <1>1, <1>2, <2>1, <2>2 DEF IsRemained, Remained
<1>8. AtPlace(s, k, _parse_status', at', _current_chunk_header')
  BY <1>1, <1>2, <1>6, <1>7 DEF AtPlace
<1>9. MapKept(s, HeadersRead(k, _parse_status'), _chunk_map')
  BY <1>1, <1>2 DEF HeadersRead
<1>. HIDE DEF t, kd, size, h
<1>. QED  BY <1>1, <1>7, <1>8, <1>9, PartRead

(* A call that fails at a message the server may refuse.                       *)
LEMMA RefusedRightly ==
  ASSUME IInv, NEW n \in 1..MaxMessages, Refusable(stream[n].kind), refused' = TRUE, UNCHANGED wireVars
  PROVE  IInv'
<1>1. n \in 1..Len(stream)
  BY MessageFacts DEF IInv
<1>. QED  BY <1>1 DEF IInv, wireVars, OnlyRefusableIsRefused, Refusable, HandlerFails

(* The completed header becomes the last one of its chunk stream, or the       *)
(* message is too long.                                                        *)
LEMMA ParseExtendedTimestampKeeps == ASSUME IInv, ~refused, ParseExtendedTimestamp PROVE IInv'
<1>. DEFINE s == stream
            k == Len(messages) + 1
            h == _current_chunk_header
            parsed == WithExtendedTimestamp(h)
            size == IF parsed.is_extended THEN ExtendedSize ELSE 0
            last == _chunk_map[parsed.csid]
            new == CalculateForType3Header(Complete(parsed, last))
<1>1. /\ Parsing("ExtendedTimestamp") /\ receiving
      /\ IsRemained(size)
      /\ _current_chunk_header' = new
      /\ IF \/ last = NoHeader /\ parsed.fmt # "T0"
            \/ new.kind.length > RTMP_MAX_PACKET_SIZE
         THEN Refuse /\ UNCHANGED _chunk_map
         ELSE Use(size) /\ _chunk_map' = [_chunk_map EXCEPT ![parsed.csid] = new]
      /\ _parse_status' = "Completed"
      /\ UNCHANGED <<wireVars, messages, _chunk_size>>
  BY DEF ParseExtendedTimestamp, Parsing
<1>2. /\ s \in Streams /\ wire = Wire(s) /\ k \in 1..MaxMessages /\ at \in Nat /\ arrived \in Nat
      /\ AtPlace(s, k, "ExtendedTimestamp", at, h)
      /\ MapKept(s, HeadersRead(k, "ExtendedTimestamp"), _chunk_map)
      /\ _chunk_size = ChunkSize(s, k)
  BY <1>1, Reading
<1>3. at = ExtendedAt(s, k) /\ h = ParsedOf(s, k) /\ MapKept(s, k - 1, _chunk_map)
  BY <1>2 DEF AtPlace, HeadersRead
<1>4. /\ parsed.csid = s[k].csid
      /\ size = ExtraSize(s, k)
      /\ last = NoHeader => parsed.fmt = "T0"
      /\ IsHeaderOf(s, new, k)
  <2>. DEFINE m == Complete(parsed, last)
  <2>1. new = CalculateForType3Header(m)
    OBVIOUS
  <2>. HIDE DEF k, h, parsed, last, m, new, size
  <2>. QED  BY <1>2, <1>3, <2>1, HeaderCompleted DEF parsed, last, m, size
<1>5. new.kind = s[k].kind /\ new.csid = s[k].csid
  BY <1>4 DEF IsHeaderOf
<1>. HIDE DEF parsed, last, new, size, h
<1>6. CASE new.kind.length > RTMP_MAX_PACKET_SIZE
  <2>1. refused' = TRUE
    BY <1>1, <1>6 DEF Refuse
  <2>2. Refusable(s[k].kind)
    BY <1>5, <1>6 DEF Refusable
  <2>. QED  BY <1>1, <1>2, <2>1, <2>2, RefusedRightly
<1>7. CASE ~(new.kind.length > RTMP_MAX_PACKET_SIZE)
  <2>1. /\ _chunk_map' = [_chunk_map EXCEPT ![s[k].csid] = new] /\ at' = at + size
        /\ UNCHANGED <<arrived, receiving, refused, misread>>
    BY <1>1, <1>4, <1>7 DEF Use
  <2>2. MapKept(s, k, _chunk_map')
    BY <1>2, <1>3, <1>4, <2>1, MapGrows
  <2>3. at' = PayloadAt(s, k)
    BY <1>3, <1>4, <2>1 DEF PayloadAt
  <2>4. at' <= arrived
    <3>1. size \in Nat
      BY <1>2, <1>4, HeaderSizes
    <3>. QED  BY <1>1, <1>2, <2>1, <3>1 DEF IsRemained, Remained
  <2>5. AtPlace(s, k, _parse_status', at', _current_chunk_header')
    BY <1>1, <1>2, <1>5, <2>3 DEF AtPlace
  <2>6. MapKept(s, HeadersRead(k, _parse_status'), _chunk_map')
    BY <1>1, <2>2 DEF HeadersRead
  <2>. QED  BY <1>1, <2>1, <2>4, <2>5, <2>6, PartRead
<1>. QED  BY <1>6, <1>7

(* Another message has been handed to its handler.                             *)
LEMMA HandledGrows ==
  ASSUME NEW s, NEW ms, Handled(s, ms), NEW t, NEW n, n = Len(ms) + 1,
         NEW m, m = [csid |-> s[n].csid, kind |-> s[n].kind, timestamp |-> t,
                     payload |-> Bytes("payload", n, s[n].kind.length)],
         NearTimes => t = s[n].timestamp
  PROVE  Handled(s, Append(ms, m)) /\ Len(Append(ms, m)) = n
<1>. DEFINE l == Len(ms)
            new == Append(ms, m)
            T == {ms[j] : j \in 1..l} \union {m}
<1>1. l \in Nat /\ ms = [j \in 1..l |-> ms[j]]
  BY DEF Handled
<1>. HIDE DEF l
<1>2. ms \in Seq(T) /\ m \in T
  BY <1>1
<1>. HIDE DEF T
<1>3. /\ new \in Seq(T) /\ Len(new) = l + 1 /\ new[l + 1] = m
      /\ \A j \in 1..l : new[j] = ms[j]
  BY <1>1, <1>2 DEF l
<1>. HIDE DEF new
<1>4. Len(new) \in Nat /\ new = [j \in 1..Len(new) |-> new[j]]
  BY <1>1, <1>3
<1>5. n = l + 1
  BY DEF l
<1>6. m.timestamp = t
  OBVIOUS
<1>7. ASSUME NEW j \in 1..Len(new)
      PROVE  /\ new[j] = [csid |-> s[j].csid, kind |-> s[j].kind, timestamp |-> new[j].timestamp,
                          payload |-> Bytes("payload", j, s[j].kind.length)]
             /\ NearTimes => new[j].timestamp = s[j].timestamp
  <2>1. CASE j \in 1..l
    <3>1. new[j] = ms[j]
      BY <1>3, <2>1
    <3>. QED  BY <2>1, <3>1 DEF Handled, l
  <2>2. CASE j = n
    <3>1. new[j] = m
      BY <1>3, <1>5, <2>2
    <3>. QED  BY <1>6, <2>2, <3>1
  <2>. QED  BY <1>1, <1>3, <1>5, <2>1, <2>2
<1>. QED  BY <1>3, <1>4, <1>5, <1>7 DEF Handled, new

(* What the chunk importer reads as the payload is the payload.                *)
LEMMA PayloadIs ==
  ASSUME NEW k \in 1..MaxMessages, stream \in Streams, wire = Wire(stream), at = PayloadAt(stream, k),
         _chunk_size = ChunkSize(stream, k), NEW h, IsHeaderOf(stream, h, k)
  PROVE  /\ Payload(h) = Bytes("payload", k, stream[k].kind.length)
         /\ wire[at + 1] = <<"payload", k, 1>>
         /\ \A j \in 1..Type3Count(h), i \in 1..h.size :
              wire[at + j * _chunk_size + (j - 1) * HeaderSize(h) + i] = <<"type3", k, i>>
<1>. DEFINE s == stream
            C == ChunkSize(s, k)
            H == s[k].size + ExtraSize(s, k)
            z == s[k].size
            l == s[k].kind.length
            b == Body(s, k)
            w == Wire(s)
            t == PayloadAt(s, k)
<1>1. l \in Nat \ {0} /\ C \in Nat \ {0} /\ H \in Nat /\ z \in Nat
  <2>1. l \in Nat \ {0} /\ z \in 1..3
    BY MessageFacts
  <2>2. C \in Nat \ {0}
    BY BodyIs
  <2>3. ExtraSize(s, k) \in Nat
    BY HeaderSizes
  <2>. QED  BY <2>1, <2>2, <2>3
<1>2. Chunked(b, k, C, H, z, l)
  BY BodyIs
<1>3. t \in Nat /\ \A i \in 1..Len(b) : w[t + i] = b[i]
  BY WireLayout, PlacesOf
<1>4. h.kind.length = l /\ h.size = z /\ HeaderSize(h) = H /\ Type3Count(h) = (l - 1) \div C
  BY <1>1 DEF IsHeaderOf, HeaderSize, ExtraSize, Type3Count
<1>. HIDE DEF C, H, z, l, b, w, t
<1>5. ASSUME NEW j \in 1..l
      PROVE  w[t + j + ((j - 1) \div C) * H] = <<"payload", k, j>>
  <2>. DEFINE i == j + ((j - 1) \div C) * H
  <2>1. i \in 1..Len(b) /\ b[i] = <<"payload", k, j>>
    BY <1>2 DEF Chunked
  <2>2. t + j + ((j - 1) \div C) * H = t + i
    <3>1. ((j - 1) \div C) * H \in Nat
      <4>1. (j - 1) \div C \in Nat
        BY <1>1
      <4>. HIDE DEF i
      <4>. QED  BY <1>1, <4>1
    <3>2. \A x \in Nat : t + j + x = t + (j + x)
      BY <1>1, <1>3
    <3>. QED  BY <3>1, <3>2
  <2>. HIDE DEF i
  <2>. QED  BY <1>3, <2>1, <2>2
<1>6. Payload(h) = Bytes("payload", k, l)
  <2>1. Payload(h) = [j \in 1..l |-> w[t + j + ((j - 1) \div C) * H]]
    BY <1>4, Zenon DEF Payload, C, w, t
  <2>2. Payload(h) = [j \in 1..l |-> <<"payload", k, j>>]
    BY <1>5, <2>1
  <2>. QED  BY <2>2 DEF Bytes
<1>7. w[t + 1] = <<"payload", k, 1>>
  <2>1. 1 \in 1..l /\ (1 - 1) \div C = 0 /\ 0 * H = 0
    BY <1>1
  <2>2. t + 1 + ((1 - 1) \div C) * H = t + 1
    BY <1>3, <2>1
  <2>. QED  BY <1>5, <2>1, <2>2
<1>8. ASSUME NEW j \in 1..(l - 1) \div C, NEW i \in 1..z
      PROVE  w[t + j * C + (j - 1) * H + i] = <<"type3", k, i>>
  <2>. DEFINE o == j * C + (j - 1) * H + i
  <2>1. o \in 1..Len(b) /\ b[o] = <<"type3", k, i>>
    BY <1>2 DEF Chunked
  <2>2. t + j * C + (j - 1) * H + i = t + o
    <3>1. j \in Nat /\ j - 1 \in Nat /\ i \in Nat
      BY <1>1
    <3>2. j * C \in Nat /\ (j - 1) * H \in Nat
      BY <1>1, <3>1
    <3>3. \A x, y \in Nat : t + x + y + i = t + (x + y + i)
      BY <1>3, <3>1
    <3>. QED  BY <3>2, <3>3
  <2>. HIDE DEF o
  <2>. QED  BY <1>3, <2>1, <2>2
<1>. QED  BY <1>4, <1>6, <1>7, <1>8 DEF C, l, w, t, z

(* The header that is expected in the middle is the one clients send.          *)
LEMMA ExpectedIs ==
  ASSUME ShortIds, NEW c, NEW z, <<c, z>> \in ChunkStreams, NEW h, h.csid = c, h.size = z
  PROVE  ExpectedType3Header(h) = BasicHeader("T3", c, z)
<1>1. c \in Nat /\ z \in 1..3 /\ Fits(c, z) /\ (z = 3 => c < 64 + 256)
  <2>1. c \in Nat /\ z \in 1..3
    BY WireAssumption
  <2>2. Fits(c, z) /\ (z = 3 => c < 64 + 256)
    BY WireAssumption DEF ShortIds
  <2>. QED  BY <2>1, <2>2
<1>2. CASE z = 3
  <2>1. (c - 64) \div 65536 = 0 /\ (c - 64) \div 256 = 0
    BY <1>1, <1>2 DEF Fits
  <2>. QED  BY <1>2, <2>1 DEF ExpectedType3Header, BasicHeader
<1>3. CASE z # 3
  BY <1>1, <1>3 DEF ExpectedType3Header, BasicHeader
<1>. QED  BY <1>2, <1>3

(* So no payload of a client's is taken for broken.                            *)
LEMMA Type3HeadersMatchIs ==
  ASSUME ShortIds, NEW k \in 1..MaxMessages, stream \in Streams, wire = Wire(stream),
         at = PayloadAt(stream, k), _chunk_size = ChunkSize(stream, k),
         NEW h, IsHeaderOf(stream, h, k)
  PROVE  Type3HeadersMatch(h)
<1>1. \A j \in 1..Type3Count(h), i \in 1..h.size :
        wire[at + j * _chunk_size + (j - 1) * HeaderSize(h) + i] = <<"type3", k, i>>
  BY PayloadIs
<1>2. ExpectedType3Header(h) = BasicHeader("T3", stream[k].csid, stream[k].size)
  <2>1. h.csid = stream[k].csid /\ h.size = stream[k].size
    BY DEF IsHeaderOf
  <2>2. <<stream[k].csid, stream[k].size>> \in ChunkStreams
    BY MessageFacts
  <2>. QED  BY <2>1, <2>2, ExpectedIs
<1>3. \A i : Type3Byte(<<"type3", k, i>>) = ExpectedType3Header(h)[i]
  BY <1>2 DEF Type3Byte
<1>4. ASSUME NEW j \in 1..Type3Count(h), NEW i \in 1..h.size, NEW u,
             u = wire[at + j * _chunk_size + (j - 1) * HeaderSize(h) + i]
      PROVE  u[1] = "type3" /\ Type3Byte(u) = ExpectedType3Header(h)[i]
  <2>1. u = <<"type3", k, i>>
    BY <1>1, <1>4, Zenon
  <2>. QED  BY <1>3, <2>1
<1>. QED  BY <1>4, Zenon DEF Type3HeadersMatch

(* The last header is the one of the message the parser is reading.            *)
LEMMA AtThePayload ==
  ASSUME IInv, ~refused, Parsing("Completed"), NEW k, k = Len(messages) + 1
  PROVE  /\ stream \in Streams /\ wire = Wire(stream) /\ k \in 1..MaxMessages
         /\ arrived \in Nat /\ arrived <= Len(wire)
         /\ at = PayloadAt(stream, k) /\ _chunk_size = ChunkSize(stream, k)
         /\ MapKept(stream, k, _chunk_map)
         /\ IsHeaderOf(stream, LastHeader, k) /\ LastHeader # NoHeader
<1>1. /\ stream \in Streams /\ wire = Wire(stream) /\ k \in 1..MaxMessages
      /\ arrived \in Nat /\ arrived <= Len(wire)
      /\ AtPlace(stream, k, "Completed", at, _current_chunk_header)
      /\ MapKept(stream, HeadersRead(k, "Completed"), _chunk_map)
      /\ _chunk_size = ChunkSize(stream, k)
  BY Reading
<1>2. at = PayloadAt(stream, k) /\ _current_chunk_header.csid = stream[k].csid
  BY <1>1 DEF AtPlace
<1>3. MapKept(stream, k, _chunk_map)
  BY <1>1 DEF HeadersRead
<1>. QED  BY <1>1, <1>2, <1>3, LastHeaderAfter DEF LastHeader

(* Message k goes to its handler, and the parser is at the next one or the     *)
(* handler has refused.                                                        *)
LEMMA FinalizeMessageKeeps == ASSUME IInv, ~refused, FinalizeMessage PROVE IInv'
<1>. DEFINE s == stream
            k == Len(messages) + 1
            h == LastHeader
            m == [csid |-> h.csid, kind |-> h.kind, timestamp |-> h.timestamp, payload |-> Payload(h)]
<1>1. /\ Parsing("Completed") /\ receiving
      /\ IsRemained(h.expected_payload_size)
      /\ messages' = Append(messages, m)
      /\ IF HandlerFails(h.kind)
         THEN Refuse /\ UNCHANGED _chunk_size
         ELSE /\ Use(h.expected_payload_size)
              /\ _chunk_size' = IF h.kind.type = "set_chunk_size" THEN h.kind.value ELSE _chunk_size
      /\ _parse_status' = "BasicHeader"
      /\ UNCHANGED <<wireVars, _chunk_map>>
  BY DEF FinalizeMessage, PayloadIsThere, Parsing
<1>2. /\ s \in Streams /\ wire = Wire(s) /\ k \in 1..MaxMessages
      /\ arrived \in Nat /\ arrived <= Len(wire)
      /\ at = PayloadAt(s, k) /\ _chunk_size = ChunkSize(s, k)
      /\ MapKept(s, k, _chunk_map)
      /\ IsHeaderOf(s, h, k)
  BY <1>1, AtThePayload
<1>3. /\ h.csid = s[k].csid /\ h.kind = s[k].kind /\ h.expected_payload_size = Len(Body(s, k))
      /\ NearTimes => h.timestamp = s[k].timestamp
  BY <1>2 DEF IsHeaderOf
<1>4. CASE HandlerFails(h.kind)
  <2>1. refused' = TRUE
    BY <1>1, <1>4 DEF Refuse
  <2>2. Refusable(s[k].kind)
    BY <1>3, <1>4 DEF Refusable
  <2>. HIDE DEF k, s
  <2>. QED  BY <1>1, <1>2, <2>1, <2>2, RefusedRightly DEF s
<1>5. CASE ~HandlerFails(h.kind)
  <2>1. /\ at' = at + h.expected_payload_size /\ UNCHANGED <<arrived, receiving, refused, misread>>
        /\ _chunk_size' = IF h.kind.type = "set_chunk_size" THEN h.kind.value ELSE _chunk_size
    BY <1>1, <1>5 DEF Use
  <2>2. Payload(h) = Bytes("payload", k, s[k].kind.length)
    <3>. HIDE DEF k, h
    <3>. QED  BY <1>2, PayloadIs
  <2>3. Handled(s, messages) /\ ~misread
    BY DEF IInv, InStep
  <2>4. Handled(s, messages') /\ Len(messages') = k
    <3>. DEFINE t == h.timestamp
    <3>1. m = [csid |-> s[k].csid, kind |-> s[k].kind, timestamp |-> t,
               payload |-> Bytes("payload", k, s[k].kind.length)]
      BY <1>3, <2>2
    <3>2. NearTimes => t = s[k].timestamp
      BY <1>3
    <3>3. k = Len(messages) + 1
      OBVIOUS
    <3>. HIDE DEF k, h, m, t, s
    <3>. QED  BY <1>1, <2>3, <3>1, <3>2, <3>3, HandledGrows
  <2>5. k \in Nat /\ 1 <= k /\ k <= MaxMessages /\ MaxMessages \in Nat /\ (k + 1) - 1 = k
    <3>. HIDE DEF k
    <3>1. k \in Nat /\ 1 <= k /\ k <= MaxMessages /\ MaxMessages \in Nat
      BY <1>2, MessageFacts
    <3>. QED  BY <3>1
  <2>6. at' = Ends(s)[k] /\ at' \in Nat
    BY <1>2, <1>3, <2>1, WireLayout
  <2>7. at' <= arrived
    <3>1. at \in Nat
      BY <1>2, PlacesOf
    <3>2. Len(Body(s, k)) \in Nat
      BY <1>2, BodyIs
    <3>3. arrived - at >= Len(Body(s, k))
      BY <1>1, <1>3 DEF IsRemained, Remained
    <3>. HIDE DEF k
    <3>. QED  BY <1>2, <1>3, <2>1, <3>1, <3>2, <3>3
  <2>. HIDE DEF k
  <2>8. AtPlace(s, k + 1, _parse_status', at', _current_chunk_header')
    BY <1>1, <2>5, <2>6 DEF AtPlace, BasicAt
  <2>9. MapKept(s, HeadersRead(k + 1, _parse_status'), _chunk_map')
    BY <1>1, <1>2, <2>5 DEF HeadersRead
  <2>10. _chunk_size' = ChunkSize(s, k + 1)
    <3>1. s[k].kind.value \in Nat
      BY <1>2, MessageFacts
    <3>2. s[k].kind.type = "set_chunk_size" => s[k].kind.value > 0
      BY <1>3, <1>5, <3>1 DEF HandlerFails
    <3>. QED  BY <1>2, <1>3, <2>1, <3>2, ChunkSizeIs
  <2>11. InStep'
    <3>1. stream' = s /\ wire' = wire /\ ~misread' /\ receiving' /\ arrived' = arrived
      BY <1>1, <2>1, <2>3 DEF wireVars
    <3>. HIDE DEF s
    <3>. QED  BY <1>2, <2>4, <2>7, <2>8, <2>9, <2>10, <3>1 DEF InStep
  <2>. QED  BY <1>1, <1>2, <2>1, <2>11 DEF IInv, OnlyRefusableIsRefused, wireVars
<1>. QED  BY <1>4, <1>5

(* A payload is not found broken as long as stream ids are short.              *)
LEMMA FinalizeFailsKeeps == ASSUME IInv, ~refused, FinalizeFails PROVE IInv'
<1>. DEFINE k == Len(messages) + 1
<1>1. /\ Parsing("Completed") /\ refused' /\ UNCHANGED wireVars
      /\ ~Type3HeadersMatch(LastHeader) \/ LastHeader = NoHeader
  BY DEF FinalizeFails, PayloadIsThere, Refuse
<1>2. /\ k \in 1..MaxMessages /\ stream \in Streams /\ wire = Wire(stream)
      /\ at = PayloadAt(stream, k) /\ _chunk_size = ChunkSize(stream, k)
      /\ IsHeaderOf(stream, LastHeader, k) /\ LastHeader # NoHeader
  BY <1>1, AtThePayload
<1>. HIDE DEF k
<1>3. ~ShortIds
  BY <1>1, <1>2, Type3HeadersMatchIs
<1>. QED  BY <1>1, <1>2, <1>3 DEF IInv, wireVars, ShortIds

(* When the call needs more data, message k is not there completely.           *)
LEMMA CallReturnsKeeps == ASSUME IInv, ~refused, CallReturns PROVE IInv'
<1>. DEFINE s == stream
            k == Len(messages) + 1
            h == _current_chunk_header
<1>1. /\ NeedMoreData
      /\ UNCHANGED <<stream, wire, arrived, at, _parse_status, _current_chunk_header, _chunk_map,
                     _chunk_size, messages, refused, misread>>
  BY DEF CallReturns, wireVars, parserVars, importVars
<1>2. InStep /\ s \in Streams /\ wire = Wire(s)
  BY DEF IInv
<1>3. /\ AtPlace(s, k, _parse_status, at, h)
      /\ MapKept(s, HeadersRead(k, _parse_status), _chunk_map)
      /\ _chunk_size = ChunkSize(s, k) /\ arrived \in Nat
  BY <1>2 DEF InStep
<1>4. k \in 1..MaxMessages + 1 /\ MaxMessages \in Nat /\ at \in Nat
  BY <1>2, <1>3, AtPlaceIs
<1>. HIDE DEF k
<1>5. ASSUME k \in 1..MaxMessages PROVE arrived < Ends(s)[k]
  <2>1. /\ BasicAt(s, k) \in Nat /\ MessageAt(s, k) \in Nat /\ ExtendedAt(s, k) \in Nat
        /\ PayloadAt(s, k) \in Nat /\ Ends(s)[k] \in Nat
        /\ BasicAt(s, k) < Ends(s)[k] /\ MessageAt(s, k) < Ends(s)[k]
        /\ ExtendedAt(s, k) < Ends(s)[k] /\ PayloadAt(s, k) < Ends(s)[k]
    <3>1. /\ BasicAt(s, k) \in Nat /\ BasicAt(s, k) < MessageAt(s, k)
          /\ MessageAt(s, k) \in Nat /\ MessageAt(s, k) <= ExtendedAt(s, k)
          /\ ExtendedAt(s, k) \in Nat /\ ExtendedAt(s, k) <= PayloadAt(s, k)
          /\ PayloadAt(s, k) \in Nat /\ PayloadAt(s, k) < Ends(s)[k] /\ Ends(s)[k] \in Nat
      BY <1>2, <1>5, PlacesOf
    <3>. QED  BY <3>1
  <2>2. CASE Remained = 0
    <3>1. arrived = at
      BY <1>3, <1>4, <2>2 DEF Remained
    <3>. QED  BY <1>2, <1>3, <1>5, <3>1, AtPlaceIs
  <2>3. CASE /\ _parse_status = "BasicHeader"
             /\ ~IsRemained(s[wire[at + 1][2]].size)
    <3>1. at = BasicAt(s, k)
      BY <1>3, <2>3 DEF AtPlace
    <3>2. s[k].size \in 1..3
      BY <1>2, <1>5, MessageFacts
    <3>3. wire[at + 1] = <<"basic", k, 1>>
      BY <1>2, <1>5, <3>1, <3>2, WireLayout
    <3>4. arrived - at < s[k].size
      BY <1>3, <1>4, <2>3, <3>2, <3>3 DEF IsRemained, Remained
    <3>5. at + s[k].size = MessageAt(s, k)
      BY <3>1 DEF MessageAt
    <3>. QED  BY <1>3, <1>4, <2>1, <3>2, <3>4, <3>5
  <2>4. CASE /\ _parse_status = "MessageHeader"
             /\ ~IsRemained(MessageHeaderSize[h.fmt])
    <3>1. at = MessageAt(s, k) /\ h = BasicOf(s, k)
      BY <1>3, <2>4 DEF AtPlace
    <3>2. h.fmt = s[k].fmt
      BY <3>1 DEF BasicOf, NoHeader
    <3>3. MessageHeaderSize[s[k].fmt] \in Nat
      BY <1>2, <1>5, HeaderSizes
    <3>4. arrived - at < MessageHeaderSize[s[k].fmt]
      BY <1>3, <1>4, <2>4, <3>2, <3>3 DEF IsRemained, Remained
    <3>5. at + MessageHeaderSize[s[k].fmt] = ExtendedAt(s, k)
      BY <3>1 DEF ExtendedAt
    <3>. QED  BY <1>3, <1>4, <2>1, <3>3, <3>4, <3>5
  <2>5. CASE /\ _parse_status = "ExtendedTimestamp" /\ TargetIsExtended(h)
             /\ ~IsRemained(ExtendedSize)
    <3>1. at = ExtendedAt(s, k) /\ h = ParsedOf(s, k) /\ MapKept(s, k - 1, _chunk_map)
      BY <1>3, <2>5 DEF AtPlace, HeadersRead
    <3>2. IsExtended(s, k)
      BY <1>2, <1>3, <1>5, <2>5, <3>1, HeaderCompleted
    <3>3. arrived - at < 2
      BY <1>3, <1>4, <2>5 DEF IsRemained, Remained, ExtendedSize
    <3>4. at + 2 = PayloadAt(s, k)
      BY <3>1, <3>2 DEF PayloadAt, ExtraSize, ExtendedSize
    <3>. QED  BY <1>3, <1>4, <2>1, <3>3, <3>4
  <2>6. CASE /\ _parse_status = "Completed"
             /\ ~IsRemained(LastHeader.expected_payload_size)
    <3>1. at = PayloadAt(s, k) /\ h.csid = s[k].csid /\ MapKept(s, k, _chunk_map)
      BY <1>3, <2>6 DEF AtPlace, HeadersRead
    <3>2. IsHeaderOf(s, LastHeader, k)
      BY <1>2, <1>5, <3>1, LastHeaderAfter DEF LastHeader
    <3>3. LastHeader.expected_payload_size = Len(Body(s, k)) /\ Len(Body(s, k)) \in Nat
      BY <1>2, <1>5, <3>2, BodyIs DEF IsHeaderOf
    <3>4. arrived - at < Len(Body(s, k))
      BY <1>3, <1>4, <2>6, <3>3 DEF IsRemained, Remained
    <3>5. at + Len(Body(s, k)) = Ends(s)[k]
      BY <1>2, <1>5, <3>1, WireLayout
    <3>. QED  BY <1>3, <1>4, <2>1, <3>3, <3>4, <3>5
  <2>. QED  BY <1>1, <2>2, <2>3, <2>4, <2>5, <2>6 DEF NeedMoreData
<1>6. k > MaxMessages \/ arrived < Ends(s)[k]
  BY <1>4, <1>5
<1>7. InStep'
  BY <1>1, <1>2, <1>6 DEF InStep, k
<1>. QED  BY <1>1, <1>2, <1>7 DEF IInv, OnlyRefusableIsRefused

(* The parser takes every header for what it is.                               *)
LEMMA NoMisread == ASSUME IInv, ~refused PROVE ~Misread
<1>. DEFINE s == stream
            k == Len(messages) + 1
            h == _current_chunk_header
<1>. SUFFICES ASSUME Misread PROVE FALSE
  OBVIOUS
<1>1. receiving /\ ~misread /\ ~NeedMoreData
  BY DEF Misread
<1>2. _parse_status \in Status /\ Remained > 0
  <2>1. InStep /\ s \in Streams
    BY DEF IInv
  <2>2. /\ AtPlace(s, k, _parse_status, at, h) /\ at <= arrived /\ arrived \in Nat
    BY <2>1 DEF InStep
  <2>3. at \in Nat /\ _parse_status \in Status
    BY <2>1, <2>2, AtPlaceIs
  <2>. QED  BY <1>1, <2>2, <2>3 DEF NeedMoreData, Remained
<1>3. Parsing(_parse_status)
  BY <1>1, <1>2 DEF Parsing
<1>4. /\ s \in Streams /\ wire = Wire(s) /\ k \in 1..MaxMessages
      /\ AtPlace(s, k, _parse_status, at, h)
      /\ MapKept(s, HeadersRead(k, _parse_status), _chunk_map)
      /\ _chunk_size = ChunkSize(s, k)
  BY <1>3, Reading
<1>. HIDE DEF k
<1>5. CASE _parse_status = "BasicHeader" /\ ~Reads("basic", wire[at + 1][2], 1)
  <2>1. at = BasicAt(s, k) /\ s[k].size \in 1..3
    BY <1>4, <1>5, MessageFacts DEF AtPlace
  <2>2. wire[at + 1] = <<"basic", k, 1>>
    BY <1>4, <2>1, WireLayout
  <2>. QED  BY <1>5, <2>2 DEF Reads
<1>6. CASE _parse_status = "MessageHeader" /\ ~Reads("message", h.of, MessageHeaderSize[h.fmt])
  <2>1. at = MessageAt(s, k) /\ h = BasicOf(s, k)
    BY <1>4, <1>6 DEF AtPlace
  <2>2. h.fmt = s[k].fmt /\ h.of = k
    BY <2>1 DEF BasicOf, NoHeader
  <2>3. \A i \in 1..MessageHeaderSize[s[k].fmt] : wire[at + i] = <<"message", k, i>>
    BY <1>4, <2>1, WireLayout
  <2>. QED  BY <1>6, <2>2, <2>3 DEF Reads
<1>7. CASE /\ _parse_status = "ExtendedTimestamp" /\ TargetIsExtended(h)
           /\ ~Reads("extended", h.of, ExtendedSize)
  <2>1. at = ExtendedAt(s, k) /\ h = ParsedOf(s, k) /\ MapKept(s, k - 1, _chunk_map)
    BY <1>4, <1>7 DEF AtPlace, HeadersRead
  <2>2. IsExtended(s, k)
    BY <1>4, <1>7, <2>1, HeaderCompleted
  <2>3. h.of = k
    BY <2>1, ParsedIs DEF Says
  <2>4. \A i \in 1..ExtendedSize : wire[at + i] = <<"extended", k, i>>
    BY <1>4, <2>1, <2>2, WireLayout DEF ExtraSize
  <2>. QED  BY <1>7, <2>3, <2>4 DEF Reads
<1>8. CASE _parse_status = "Completed" /\ LastHeader # NoHeader /\ ~Reads("payload", LastHeader.of, 1)
  <2>1. /\ at = PayloadAt(s, k) /\ IsHeaderOf(s, LastHeader, k)
    BY <1>3, <1>8, AtThePayload DEF k
  <2>2. wire[at + 1] = <<"payload", k, 1>>
    BY <1>4, <2>1, PayloadIs
  <2>3. LastHeader.of = k
    BY <2>1 DEF IsHeaderOf
  <2>. QED  BY <1>8, <2>2, <2>3 DEF Reads
<1>. QED  BY <1>5, <1>6, <1>7, <1>8 DEF Misread

(* After a refusal the invariant says nothing but why it was one.              *)
LEMMA RefusedKeeps == ASSUME IInv, refused, [Next]_vars PROVE IInv'
<1>1. UNCHANGED wireVars /\ refused'
  <2>1. CASE ParseBasicHeader
    BY <2>1 DEF ParseBasicHeader, Use
  <2>2. CASE ParseMessageHeader
    BY <2>2 DEF ParseMessageHeader, Use
  <2>3. CASE ParseExtendedTimestamp
    BY <2>3, Zenon DEF ParseExtendedTimestamp, Use, Refuse
  <2>4. CASE FinalizeMessage
    BY <2>4, Zenon DEF FinalizeMessage, Use, Refuse
  <2>5. CASE FinalizeFails
    BY <2>5 DEF FinalizeFails, Refuse
  <2>6. CASE AppendBlock \/ CallReturns \/ Misread
    BY <2>6 DEF AppendBlock, CallReturns, Misread
  <2>7. CASE Finished \/ UNCHANGED vars
    BY <2>7 DEF Finished, vars, wireVars
  <2>. QED  BY <2>1, <2>2, <2>3, <2>4, <2>5, <2>6, <2>7 DEF Next
<1>. QED  BY <1>1 DEF IInv, wireVars, OnlyRefusableIsRefused

(* Every step keeps the invariant.                                             *)
LEMMA NextKeeps == ASSUME IInv, [Next]_vars PROVE IInv'
<1>1. CASE refused
  BY <1>1, RefusedKeeps
<1>2. CASE ~refused
  <2>1. CASE AppendBlock
    BY <1>2, <2>1, AppendBlockKeeps
  <2>2. CASE ParseBasicHeader
    BY <1>2, <2>2, ParseBasicHeaderKeeps
  <2>3. CASE ParseMessageHeader
    BY <1>2, <2>3, ParseMessageHeaderKeeps
  <2>4. CASE ParseExtendedTimestamp
    BY <1>2, <2>4, ParseExtendedTimestampKeeps
  <2>5. CASE FinalizeMessage
    BY <1>2, <2>5, FinalizeMessageKeeps
  <2>6. CASE FinalizeFails
    BY <1>2, <2>6, FinalizeFailsKeeps
  <2>7. CASE CallReturns
    BY <1>2, <2>7, CallReturnsKeeps
  <2>8. CASE Misread
    BY <1>2, <2>8, NoMisread
  <2>9. CASE Finished \/ UNCHANGED vars
    <3>1. UNCHANGED vars
      BY <2>9 DEF Finished
    <3>. QED  BY <3>1 DEF vars, wireVars, callVars, parserVars, importVars, IInv, InStep,
                       OnlyRefusableIsRefused
  <2>. QED  BY <2>1, <2>2, <2>3, <2>4, <2>5, <2>6, <2>7, <2>8, <2>9 DEF Next
<1>. QED  BY <1>1, <1>2

-----------------------------------------------------------------------------
(* What the invariant implies.                                                 *)

(* In step, nothing is misread.                                                *)
LEMMA PlaceImplied == IInv => KeepsItsPlace
BY DEF IInv, InStep, KeepsItsPlace

(* What has been handled is what was meant, the timestamps when they are near  *)
(* each other.                                                                 *)
LEMMA MessagesImplied == IInv /\ NearTimes => HandlersGetTheStream
<1>. SUFFICES ASSUME IInv, NearTimes, ~refused, NEW j \in 1..Len(messages)
             PROVE  j <= Len(stream) /\ messages[j] = Meant(stream, j)
  BY DEF HandlersGetTheStream
<1>1. InStep /\ stream \in Streams
  BY DEF IInv
<1>2. /\ Handled(stream, messages)
      /\ AtPlace(stream, Len(messages) + 1, _parse_status, at, _current_chunk_header)
  BY <1>1 DEF InStep
<1>3. Len(messages) \in Nat
  BY <1>2 DEF Handled
<1>4. Len(messages) + 1 \in 1..MaxMessages + 1 /\ MaxMessages \in Nat
  BY <1>1, <1>2, AtPlaceIs
<1>5. j \in 1..MaxMessages
  BY <1>3, <1>4
<1>6. Len(stream) = MaxMessages
  BY <1>1, <1>5, MessageFacts
<1>7. messages[j] = [csid |-> stream[j].csid, kind |-> stream[j].kind, timestamp |-> messages[j].timestamp,
                     payload |-> Bytes("payload", j, stream[j].kind.length)]
      /\ messages[j].timestamp = stream[j].timestamp
  BY <1>2 DEF Handled
<1>. QED  BY <1>3, <1>4, <1>5, <1>6, <1>7 DEF Meant

(* The last byte of a message is where it ends, and that is behind what has    *)
(* arrived.                                                                    *)
LEMMA NothingWaitsImplied == IInv => NothingCompleteWaits
<1>. SUFFICES ASSUME IInv, ~refused, ~receiving, NEW i \in 1..arrived,
                    wire[i][1] = "payload", wire[i][3] = stream[wire[i][2]].kind.length
             PROVE  wire[i][2] <= Len(messages)
  BY DEF NothingCompleteWaits
<1>. DEFINE n == wire[i][2]
            k == Len(messages) + 1
<1>1. InStep /\ stream \in Streams /\ wire = Wire(stream)
  BY DEF IInv
<1>2. /\ arrived \in Nat /\ arrived <= Len(wire) /\ (k > MaxMessages \/ arrived < Ends(stream)[k])
      /\ AtPlace(stream, k, _parse_status, at, _current_chunk_header)
      /\ Handled(stream, messages)
  BY <1>1 DEF InStep
<1>3. Len(wire) \in Nat
  BY <1>1, WireLayout
<1>4. i \in 1..Len(wire)
  BY <1>2, <1>3
<1>5. n \in 1..MaxMessages /\ i = Ends(stream)[n]
  BY <1>1, <1>4, LastByteEndsTheMessage
<1>6. k \in 1..MaxMessages + 1 /\ MaxMessages \in Nat
  BY <1>1, <1>2, AtPlaceIs
<1>7. Len(messages) \in Nat
  BY <1>2 DEF Handled
<1>8. Ends(stream)[n] \in Nat
  BY <1>1, <1>5, WireLayout
<1>9. ASSUME n > Len(messages) PROVE FALSE
  <2>1. k \in 0..n /\ n \in 0..MaxMessages /\ k \in 1..MaxMessages
    BY <1>5, <1>6, <1>7, <1>9
  <2>2. Ends(stream)[k] <= Ends(stream)[n] /\ Ends(stream)[k] \in Nat
    BY <1>1, <2>1, EndsGrow, WireLayout
  <2>3. arrived < Ends(stream)[k]
    BY <1>2, <1>6, <2>1
  <2>4. Ends(stream)[n] <= arrived
    BY <1>2, <1>5
  <2>. HIDE DEF n, k
  <2>. QED  BY <1>2, <1>8, <2>2, <2>3, <2>4
<1>. QED  BY <1>5, <1>7, <1>9

(* Why something was refused is a part of the invariant.                       *)
LEMMA RefusedImplied == IInv /\ ShortIds => OnlyRefusableIsRefused
BY DEF IInv

-----------------------------------------------------------------------------
(* The theorems.                                                               *)

(* The parser is in its place of the stream until something is refused.        *)
THEOREM Invariance == Spec => []IInv
<1>1. Init => IInv
  BY InitInStep
<1>2. IInv /\ [Next]_vars => IInv'
  BY NextKeeps
<1>. QED  BY <1>1, <1>2, PTL DEF Spec

(* Nothing is taken for a header that is none, wherever the blocks end.        *)
THEOREM PlaceKept == Spec => []KeepsItsPlace
BY Invariance, PlaceImplied, PTL

(* No call returns while a complete message is waiting.                        *)
THEOREM NoCompleteMessageWaits == Spec => []NothingCompleteWaits
BY Invariance, NothingWaitsImplied, PTL

(* The handlers get the messages the client means, in their order, when the    *)
(* timestamps are near each other.                                             *)
THEOREM StreamHandled == ASSUME NearTimes PROVE Spec => []HandlersGetTheStream
<1>1. IInv => HandlersGetTheStream
  BY MessagesImplied
<1>. QED  BY <1>1, Invariance, PTL

(* And a call fails only at a message the server may refuse, when no stream id *)
(* needs a third byte.                                                         *)
THEOREM RefusedRightlyOnly == ASSUME ShortIds PROVE Spec => []OnlyRefusableIsRefused
<1>1. IInv => OnlyRefusableIsRefused
  BY RefusedImplied
<1>. QED  BY <1>1, Invariance, PTL
=============================================================================
