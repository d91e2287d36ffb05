------------------------ MODULE RtmpCommands_proofs ------------------------
(* The dialogue with a publishing client: the five invariants that the run of  *)
(* RtmpCommands checks hold for all clients and all codecs that fit together   *)
(* for what they say.  First what the server gets of a document, then what an  *)
(* answer adds to those sent, and then the handlers one by one.                *)
EXTENDS RtmpCommands, RunLemmas

-----------------------------------------------------------------------------
(* Documents.                                                                  *)

(* The type of a property is the name of its only field.                       *)
LEMMA GetTypeIs ==
  ASSUME NEW type, NEW property, DOMAIN property = {type}
  PROVE  GetType(property) = type
BY Zenon DEF GetType

(* The four types of values the dialogue is made of.                           *)
LEMMA ValuesAre ==
  ASSUME NEW v
  PROVE  /\ GetType(Number(v)) = "Number" /\ Number(v).Number = v
         /\ GetType(String(v)) = "String" /\ String(v).String = v
         /\ GetType(Object(v)) = "Object" /\ Object(v).Object = v
         /\ GetType(Array(v)) = "Array" /\ Array(v).Array = v
<1>1. DOMAIN Number(v) = {"Number"} /\ Number(v).Number = v
  BY DEF Number
<1>2. DOMAIN String(v) = {"String"} /\ String(v).String = v
  BY DEF String
<1>3. DOMAIN Object(v) = {"Object"} /\ Object(v).Object = v
  BY DEF Object
<1>4. DOMAIN Array(v) = {"Array"} /\ Array(v).Array = v
  BY DEF Array
<1>. QED  BY <1>1, <1>2, <1>3, <1>4, GetTypeIs

(* A property of type String is the string of its value.                       *)
LEMMA StringIs ==
  ASSUME NEW property, IsProperty(property), GetType(property) = "String"
  PROVE  property = String(property.String)
<1>1. property = [type \in {"String"} |-> property[type]]
  BY DEF IsProperty
<1>. DEFINE v == property.String
<1>2. DOMAIN property = {"String"}
  BY <1>1
<1>3. [type \in {"String"} |-> property[type]] = [String |-> v]
  OBVIOUS
<1>. QED  BY <1>1, <1>3 DEF String

(* What is received of a document: all of it but an empty string at its end.   *)
LEMMA ReceivedIs ==
  ASSUME NEW S, NEW document \in Seq(S)
  PROVE  LET r == Received(document)
         IN  /\ r \in Seq(S) /\ Len(r) <= Len(document)
             /\ \A i \in 1..Len(r) : r[i] = document[i]
             /\ Len(r) < Len(document) => Len(r) = Len(document) - 1
             /\ Len(r) < Len(document)
                  <=> document # <<>> /\ document[Len(document)] = String(Empty)
<1>. DEFINE ends == document # <<>> /\ document[Len(document)] = String(Empty)
<1>0. Len(document) \in Nat
  OBVIOUS
<1>1. CASE ends
  <2>1. Len(document) \in Nat /\ Len(document) # 0
    BY <1>1, EmptySeq
  <2>2. Received(document) = SubSeq(document, 1, Len(document) - 1)
    BY <1>1 DEF Received, Front, Last
  <2>3. \A i \in 1..Len(document) - 1 : document[i] \in S
    BY <2>1, ElementOfSeq
  <2>. DEFINE n == Len(document) - 1
  <2>4. n \in Nat /\ n = Len(document) - 1
    BY <2>1
  <2>. HIDE DEF n
  <2>5. \A i \in 1..n : document[i] \in S
    BY <2>3, <2>4
  <2>6. /\ Received(document) \in Seq(S) /\ Len(Received(document)) = n
        /\ \A i \in 1..n : Received(document)[i] = document[i]
    <3>1. /\ SubSeq(document, 1, n) \in Seq(S)
          /\ Len(SubSeq(document, 1, n)) = IF 1 <= n THEN n - 1 + 1 ELSE 0
          /\ \A i \in 1..n - 1 + 1 : SubSeq(document, 1, n)[i] = document[1 + i - 1]
      BY <2>4, <2>5, SubSeqProperties
    <3>. QED  BY <2>2, <2>4, <3>1
  <2>. QED  BY <1>0, <1>1, <2>4, <2>6
<1>2. CASE ~ends
  <2>1. Received(document) = document
    BY <1>2, Zenon DEF Received, Last
  <2>. QED  BY <1>0, <1>2, <2>1
<1>. QED  BY <1>1, <1>2

(* A property of the document has its type when it is received, too, if it is  *)
(* not an empty string at the end.                                             *)
LEMMA TypeReceived ==
  ASSUME NEW S, NEW document \in Seq(S), NEW index \in Nat, NEW type,
         type # "String" \/ index + 1 < Len(document) \/ document[index + 1] # String(Empty)
  PROVE  /\ IsType(Received(document), index, type) <=> IsType(document, index, type)
         /\ IsType(document, index, type) =>
              Received(document)[index + 1] = document[index + 1]
<1>. DEFINE r == Received(document)
<1>1. /\ r \in Seq(S) /\ Len(r) <= Len(document)
      /\ \A i \in 1..Len(r) : r[i] = document[i]
      /\ Len(r) < Len(document) =>
           Len(r) = Len(document) - 1 /\ document[Len(document)] = String(Empty)
  <2>. HIDE DEF r
  <2>. QED  BY ReceivedIs DEF r
<1>. HIDE DEF r
<1>0. Len(r) \in Nat /\ Len(document) \in Nat
  BY <1>1
<1>2. CASE index < Len(r)
  <2>1. index + 1 \in 1..Len(r) /\ index < Len(document)
    BY <1>0, <1>1, <1>2
  <2>2. r[index + 1] = document[index + 1]
    BY <1>1, <2>1
  <2>. QED  BY <1>2, <2>1, <2>2 DEF IsType, r
<1>3. CASE ~(index < Len(r))
  <2>1. ~IsType(r, index, type)
    BY <1>3 DEF IsType
  <2>2. ASSUME IsType(document, index, type) PROVE FALSE
    <3>1. index + 1 = Len(document) /\ document[index + 1] = String(Empty)
      BY <1>0, <1>1, <1>3, <2>2 DEF IsType
    <3>2. GetType(document[index + 1]) = "String"
      BY <3>1, ValuesAre
    <3>. QED  BY <2>2, <3>1, <3>2 DEF IsType
  <2>. QED  BY <2>1, <2>2 DEF r
<1>. QED  BY <1>2, <1>3

(* So it is with the third property, where objects and arrays are.             *)
LEMMA ThirdReceived ==
  ASSUME NEW S, NEW document \in Seq(S), NEW type, type # "String"
  PROVE  /\ IsType(Received(document), 2, type) <=> IsType(document, 2, type)
         /\ IsType(document, 2, type) => Received(document)[3] = document[3]
<1>1. /\ IsType(Received(document), 2, type) <=> IsType(document, 2, type)
      /\ IsType(document, 2, type) => Received(document)[2 + 1] = document[2 + 1]
  BY TypeReceived
<1>. QED  BY <1>1

(* What the assumption on the dialogue says of one request.                    *)
LEMMA RequestIs ==
  ASSUME NEW request \in Requests \cup Connects
  PROVE  /\ request.document \in Seq(Range(request.document))
         /\ \A i \in 1..Len(request.document) : IsProperty(request.document[i])
         /\ request.value \in Nat
         /\ request.type = "command" => request.document # <<>>
BY DialogueAssumption DEF IsDocument

(* A command as it is sent: its name, its number and its arguments.            *)
LEMMA NumberedIs ==
  ASSUME NEW request \in Requests \cup Connects, request.type = "command", NEW n \in Nat
  PROVE  LET d == Numbered(request, n)
         IN  /\ d \in Seq(Range(request.document) \cup {Number(n)})
             /\ Len(d) \in Nat /\ Len(d) >= 2
             /\ d[1] = Head(request.document) /\ d[2] = Number(n)
             /\ \A i \in 1..Len(d) : IsProperty(d[i])
<1>. DEFINE document == request.document
            S == Range(document) \cup {Number(n)}
            first == <<Head(document), Number(n)>>
            rest == Tail(document)
            d == first \o rest
<1>1. /\ document \in Seq(Range(document)) /\ document # <<>>
      /\ \A i \in 1..Len(document) : IsProperty(document[i])
  BY RequestIs
<1>2. /\ Head(document) \in Range(document) /\ rest \in Seq(Range(document))
      /\ Len(rest) = Len(document) - 1
      /\ \A i \in 1..Len(rest) : rest[i] = document[i + 1]
  <2>. DEFINE T == Range(document)
  <2>. HIDE DEF T, document
  <2>. QED  BY <1>1, HeadTailProperties DEF T
<1>3. Head(document) = document[1] /\ Len(document) \in Nat \ {0} /\ Len(rest) \in Nat
  <2>. HIDE DEF document
  <2>. QED  BY <1>1, <1>2, EmptySeq
<1>4. IsProperty(Number(n))
  <2>1. Number(n) = [type \in {"Number"} |-> Number(n)[type]]
    BY DEF Number
  <2>. QED  BY <2>1, ValuesAre DEF IsProperty
<1>5. first \in Seq(S) /\ Len(first) = 2 /\ first[1] = Head(document) /\ first[2] = Number(n)
  BY <1>2
<1>6. rest \in Seq(S)
  BY <1>2, SeqMonotonic
<1>7. /\ d \in Seq(S) /\ Len(d) = 2 + Len(rest)
      /\ \A i \in 1..2 + Len(rest) : d[i] = IF i <= 2 THEN first[i] ELSE rest[i - 2]
  <2>. HIDE DEF first, rest, S, d
  <2>1. /\ first \o rest \in Seq(S) /\ Len(first \o rest) = Len(first) + Len(rest)
        /\ \A i \in 1..Len(first) + Len(rest) :
             (first \o rest)[i] = IF i <= Len(first) THEN first[i] ELSE rest[i - Len(first)]
    BY <1>5, <1>6, ConcatProperties, Zenon
  <2>. QED  BY <1>5, <2>1 DEF d
<1>8. d = Numbered(request, n)
  BY DEF Numbered
<1>. HIDE DEF first, rest, S, d
<1>9. ASSUME NEW i \in 1..Len(d) PROVE IsProperty(d[i])
  <2>1. CASE i = 1
    <3>1. d[1] = document[1] /\ 1 \in 1..Len(document)
      BY <1>3, <1>5, <1>7
    <3>. QED  BY <1>1, <2>1, <3>1
  <2>2. CASE i = 2
    BY <1>4, <1>5, <1>7, <2>2
  <2>3. CASE i > 2
    <3>1. d[i] = rest[i - 2] /\ i - 2 \in 1..Len(rest) /\ i - 1 \in 1..Len(document)
      BY <1>2, <1>3, <1>7, <2>3
    <3>2. d[i] = document[i - 1]
      BY <1>2, <3>1
    <3>. QED  BY <1>1, <3>1, <3>2
  <2>. QED  BY <2>1, <2>2, <2>3
<1>10. Len(d) \in Nat /\ Len(d) >= 2 /\ d[1] = Head(document) /\ d[2] = Number(n)
  BY <1>3, <1>5, <1>7
<1>. QED  BY <1>7, <1>8, <1>9, <1>10 DEF S

(* Whether a document gives a name the server can read: AsksForName.           *)
Gives(document) ==
  /\ Len(document) > 3 /\ GetType(document[4]) = "String"
  /\ Len(document) > 4 \/ document[4] # String(Empty)

(* The command a message is, as the server gets it: its name, its number, its  *)
(* object and the name it gives.                                               *)
LEMMA CommandIs ==
  ASSUME NEW request \in Requests \cup Connects, request.type = "command",
         NEW n \in 1..MaxMessages
  PROVE  LET d == Numbered(request, n)
             r == DecodeAmf(ClientAmf(d))
         IN  /\ IsType(r, 0, "String") =>
                  \A name : r[1].String = name <=> Head(request.document) = String(name)
             /\ ~IsType(r, 0, "String") => \A name : Head(request.document) # String(name)
             /\ IsType(r, 1, "Number") /\ r[2].Number = n
             /\ ObjectOf(r) = ObjectOf(d)
             /\ HasName(r) <=> Gives(d)
             /\ HasName(r) => r[4] = d[4]
<1>. DEFINE d == Numbered(request, n)
            r == DecodeAmf(ClientAmf(d))
            S == Range(request.document) \cup {Number(n)}
<1>0. n \in Nat
  BY DialogueAssumption
<1>1. /\ d \in Seq(S)
      /\ Len(d) \in Nat /\ Len(d) >= 2
      /\ d[1] = Head(request.document) /\ d[2] = Number(n)
      /\ \A i \in 1..Len(d) : IsProperty(d[i])
  BY <1>0, NumberedIs
<1>2. r = Received(d)
  BY CodecAssumption
<1>. HIDE DEF d, r, S
<1>3. /\ IsType(r, 0, "String") <=> IsType(d, 0, "String")
      /\ IsType(d, 0, "String") => r[1] = d[1]
  <2>1. 0 + 1 < Len(d) /\ 0 \in Nat
    BY <1>1
  <2>. QED  BY <1>1, <1>2, <2>1, TypeReceived
<1>4. IsType(r, 1, "Number") /\ r[2].Number = n
  <2>1. IsType(d, 1, "Number")
    BY <1>1, ValuesAre DEF IsType
  <2>2. IsType(r, 1, "Number") /\ r[2] = d[2]
    BY <1>1, <1>2, <2>1, TypeReceived
  <2>. QED  BY <1>1, <2>2, ValuesAre
<1>5. ObjectOf(r) = ObjectOf(d)
  <2>1. /\ IsType(r, 2, "Object") <=> IsType(d, 2, "Object")
        /\ IsType(d, 2, "Object") => r[3] = d[3]
    BY <1>1, <1>2, ThirdReceived
  <2>. QED  BY <2>1 DEF ObjectOf
<1>6. (HasName(r) <=> Gives(d)) /\ (HasName(r) => r[4] = d[4])
  <2>. DEFINE len == Len(d)
  <2>1. len \in Nat /\ len = Len(d) /\ len >= 2
    BY <1>1
  <2>. HIDE DEF len
  <2>2. CASE len < 4
    <3>1. Len(r) <= len /\ Len(r) \in Nat
      BY <1>1, <1>2, <2>1, ReceivedIs
    <3>. QED  BY <2>1, <2>2, <3>1 DEF HasName, IsType, Gives
  <2>3. CASE len = 4 /\ d[4] = String(Empty)
    <3>1. d # <<>>
      BY <2>1, EmptySeq
    <3>2. d[Len(d)] = String(Empty)
      BY <2>1, <2>3
    <3>3. Len(r) < Len(d) /\ Len(r) \in Nat
      BY <1>1, <1>2, <3>1, <3>2, ReceivedIs
    <3>4. Len(r) < 4 /\ Len(r) \in Nat
      BY <2>1, <2>3, <3>3
    <3>5. ~HasName(r)
      BY <3>4 DEF HasName, IsType
    <3>6. ~Gives(d)
      BY <2>1, <2>3 DEF Gives
    <3>. QED  BY <3>5, <3>6
  <2>4. CASE len > 4 \/ (len = 4 /\ d[4] # String(Empty))
    <3>1. /\ IsType(r, 3, "String") <=> IsType(d, 3, "String")
          /\ IsType(d, 3, "String") => r[3 + 1] = d[3 + 1]
      <4>1. 3 + 1 < Len(d) \/ d[3 + 1] # String(Empty)
        BY <2>1, <2>4
      <4>. QED  BY <1>1, <1>2, <4>1, TypeReceived
    <3>2. IsType(d, 3, "String") <=> Gives(d)
      BY <2>1, <2>4 DEF IsType, Gives
    <3>. QED  BY <3>1, <3>2 DEF HasName
  <2>5. len < 4 \/ len = 4 \/ len > 4
    BY <2>1
  <2>. QED  BY <2>2, <2>3, <2>4, <2>5
<1>7. IsType(r, 0, "String") =>
        \A name : r[1].String = name <=> Head(request.document) = String(name)
  <2>1. SUFFICES ASSUME IsType(r, 0, "String"), NEW name
                 PROVE  d[1].String = name <=> d[1] = String(name)
    BY <1>1, <1>3
  <2>2. IsProperty(d[1]) /\ GetType(d[1]) = "String"
    BY <1>1, <1>3, <2>1 DEF IsType
  <2>3. d[1] = String(d[1].String)
    BY <2>2, StringIs
  <2>. QED  BY <2>3, ValuesAre
<1>8. ~IsType(r, 0, "String") => \A name : Head(request.document) # String(name)
  BY <1>1, <1>3, ValuesAre DEF IsType
<1>. QED  BY <1>4, <1>5, <1>6, <1>7, <1>8 DEF d, r

(* The metadata a message is, as the server gets it.                           *)
LEMMA DataIs ==
  ASSUME NEW request \in Requests \cup Connects, request.type = "data",
         NEW n \in 1..MaxMessages
  PROVE  LET d == Numbered(request, n)
             r == DecodeAmf(ClientAmf(d))
         IN  /\ IsMetaData(r) <=> IsMetaData(d)
             /\ IsMetaData(r) => r[3] = d[3]
<1>. DEFINE d == Numbered(request, n)
            r == DecodeAmf(ClientAmf(d))
            S == Range(request.document)
<1>1. d = request.document /\ d \in Seq(S)
  BY RequestIs DEF Numbered
<1>2. r = Received(d)
  BY CodecAssumption
<1>. HIDE DEF d, r, S
<1>3. Len(d) \in Nat
  BY <1>1
<1>4. /\ IsType(r, 2, "Object") <=> IsType(d, 2, "Object")
      /\ IsType(r, 2, "Array") <=> IsType(d, 2, "Array")
      /\ IsType(d, 2, "Object") \/ IsType(d, 2, "Array") => r[3] = d[3]
  <2>1. /\ IsType(r, 2, "Object") <=> IsType(d, 2, "Object")
        /\ IsType(d, 2, "Object") => r[3] = d[3]
    BY <1>1, <1>2, ThirdReceived
  <2>2. /\ IsType(r, 2, "Array") <=> IsType(d, 2, "Array")
        /\ IsType(d, 2, "Array") => r[3] = d[3]
    BY <1>1, <1>2, ThirdReceived
  <2>. QED  BY <2>1, <2>2
<1>5. ASSUME Len(d) >= 3
      PROVE  /\ IsType(r, 0, "String") <=> IsType(d, 0, "String")
             /\ IsType(d, 0, "String") => r[1] = d[1]
             /\ IsType(r, 1, "String") <=> IsType(d, 1, "String")
             /\ IsType(d, 1, "String") => r[2] = d[2]
  <2>1. 0 + 1 < Len(d) /\ 1 + 1 < Len(d) /\ 0 \in Nat /\ 1 \in Nat
    BY <1>3, <1>5
  <2>2. /\ IsType(r, 0, "String") <=> IsType(d, 0, "String")
        /\ IsType(d, 0, "String") => r[0 + 1] = d[0 + 1]
    BY <1>1, <1>2, <2>1, TypeReceived
  <2>3. /\ IsType(r, 1, "String") <=> IsType(d, 1, "String")
        /\ IsType(d, 1, "String") => r[1 + 1] = d[1 + 1]
    BY <1>1, <1>2, <2>1, TypeReceived
  <2>. QED  BY <2>2, <2>3
<1>6. IsType(d, 2, "Object") \/ IsType(d, 2, "Array") => Len(d) >= 3
  BY <1>3 DEF IsType
<1>. QED  BY <1>4, <1>5, <1>6 DEF IsMetaData, d, r

-----------------------------------------------------------------------------
(* What is sent to the client, and what the acknowledgements add up to.        *)

SentOk(s) == s \in Seq(Range(s)) /\ \A i \in 1..Len(s) : s[i].value \in Nat

(* One message more is behind the others.                                      *)
LEMMA SentGrows ==
  ASSUME NEW s, SentOk(s), NEW x, x.value \in Nat
  PROVE  LET t == Append(s, x)
         IN  /\ SentOk(t) /\ Len(s) \in Nat /\ Len(t) = Len(s) + 1
             /\ \A i \in 1..Len(s) : t[i] = s[i]
             /\ t[Len(s) + 1] = x
<1>. DEFINE S == Range(s) \cup {x}
            t == Append(s, x)
<1>1. s \in Seq(S)
  BY SeqMonotonic DEF SentOk
<1>2. x \in S
  OBVIOUS
<1>. HIDE DEF S
<1>3. /\ t \in Seq(S) /\ Len(t) = Len(s) + 1 /\ Len(s) \in Nat
      /\ \A i \in 1..Len(s) : t[i] = s[i]
      /\ t[Len(s) + 1] = x
  BY <1>1, <1>2, AppendProperties, LenProperties
<1>. HIDE DEF t
<1>4. t \in Seq(Range(t))
  BY <1>3, SeqOfRange
<1>5. ASSUME NEW i \in 1..Len(t) PROVE t[i].value \in Nat
  <2>1. i \in 1..Len(s) \/ i = Len(s) + 1
    BY <1>3
  <2>. QED  BY <1>3, <2>1 DEF SentOk
<1>. QED  BY <1>3, <1>4, <1>5 DEF SentOk, t

Acknowledges(x) == IF x.type = "acknowledgement" THEN x.value ELSE 0

SumOf(s) ==
  LET sum[i \in 0..Len(s)] == IF i = 0 THEN 0 ELSE sum[i - 1] + Acknowledges(s[i])
  IN  sum[Len(s)]

IsSum(f, s, n) ==
  f \in [0..n -> Nat] /\ f[0] = 0 /\ \A i \in 1..n : f[i] = f[i - 1] + Acknowledges(s[i])

(* The sum can be continued by one message.                                    *)
LEMMA SumFurther ==
  ASSUME NEW n \in Nat, NEW s, NEW t, NEW f, IsSum(f, s, n),
         \A i \in 1..n : t[i] = s[i], Acknowledges(t[n + 1]) \in Nat
  PROVE  \E g : IsSum(g, t, n + 1) /\ g[n + 1] = f[n] + Acknowledges(t[n + 1])
<1>. DEFINE a == Acknowledges(t[n + 1])
            g == [i \in 0..n + 1 |-> IF i = n + 1 THEN f[n] + a ELSE f[i]]
<1>. HIDE DEF a
<1>1. a \in Nat /\ f \in [0..n -> Nat] /\ f[n] \in Nat
  BY DEF IsSum, a
<1>2. g \in [0..n + 1 -> Nat] /\ g[n + 1] = f[n] + a /\ \A i \in 0..n : g[i] = f[i]
  BY <1>1
<1>. HIDE DEF g
<1>3. g[0] = 0
  BY <1>2 DEF IsSum
<1>4. ASSUME NEW i \in 1..n + 1 PROVE g[i] = g[i - 1] + Acknowledges(t[i])
  <2>1. CASE i = n + 1
    BY <1>2, <2>1 DEF a
  <2>2. CASE i # n + 1
    <3>1. i \in 1..n /\ i \in 0..n /\ i - 1 \in 0..n
      BY <2>2
    <3>2. f[i] = f[i - 1] + Acknowledges(s[i]) /\ t[i] = s[i]
      BY <3>1 DEF IsSum
    <3>. QED  BY <1>2, <3>1, <3>2
  <2>. QED  BY <2>1, <2>2
<1>5. IsSum(g, t, n + 1)
  BY <1>2, <1>3, <1>4 DEF IsSum
<1>. QED  BY <1>2, <1>5 DEF a

(* The acknowledgements of what was sent have a sum.                           *)
LEMMA SumExists ==
  ASSUME NEW s, SentOk(s)
  PROVE  \E f : IsSum(f, s, Len(s))
<1>. DEFINE S == {n \in Nat : n <= Len(s) => \E f : IsSum(f, s, n)}
<1>1. Len(s) \in Nat
  BY LenProperties DEF SentOk
<1>2. 0 \in S
  <2>. DEFINE f == [i \in 0..0 |-> 0]
  <2>1. f \in [0..0 -> Nat] /\ f[0] = 0 /\ 1..0 = {}
    OBVIOUS
  <2>. HIDE DEF f
  <2>2. IsSum(f, s, 0)
    BY <2>1 DEF IsSum
  <2>. QED  BY <2>2
<1>3. ASSUME NEW n \in Nat, n \in S PROVE n + 1 \in S
  <2>1. ASSUME n + 1 <= Len(s) PROVE \E f : IsSum(f, s, n + 1)
    <3>1. n <= Len(s) /\ n + 1 \in 1..Len(s)
      BY <1>1, <2>1
    <3>2. PICK f : IsSum(f, s, n)
      BY <1>3, <3>1
    <3>3. Acknowledges(s[n + 1]) \in Nat
      BY <3>1 DEF Acknowledges, SentOk
    <3>. QED  BY <3>2, <3>3, SumFurther
  <2>. QED  BY <2>1
<1>4. Nat \subseteq S
  <2>. HIDE DEF S
  <2>. QED  BY <1>2, <1>3, SetInduction
<1>. QED  BY <1>1, <1>4

(* And it is what the sum is computed to.                                      *)
LEMMA SumIs ==
  ASSUME NEW s, SentOk(s), NEW d, IsSum(d, s, Len(s))
  PROVE  SumOf(s) = d[Len(s)]
<1>. DEFINE N == Len(s)
            Is(f) == f = [i \in 0..N |-> IF i = 0 THEN 0 ELSE f[i - 1] + Acknowledges(s[i])]
            e == CHOOSE f : Is(f)
<1>1. N \in Nat
  BY LenProperties DEF SentOk
<1>2. SumOf(s) = e[N]
  BY Zenon DEF SumOf
<1>. HIDE DEF N
<1>3. Is(d)
  <2>1. ASSUME NEW n \in 0..N PROVE d[n] = IF n = 0 THEN 0 ELSE d[n - 1] + Acknowledges(s[n])
    BY <1>1, <2>1 DEF IsSum, N
  <2>2. d = [n \in 0..N |-> d[n]]
    BY DEF IsSum, N
  <2>. QED  BY <2>1, <2>2, Zenon
<1>4. Is(e)
  <2>. HIDE DEF Is
  <2>. QED  BY <1>3, Zenon
<1>. DEFINE S == {n \in Nat : n <= N => e[n] = d[n]}
<1>5. \A n \in 0..N : e[n] = IF n = 0 THEN 0 ELSE e[n - 1] + Acknowledges(s[n])
  <2>. HIDE DEF e
  <2>. QED  BY <1>4, Zenon
<1>. HIDE DEF e
<1>6. \A n \in 0..N : d[n] = IF n = 0 THEN 0 ELSE d[n - 1] + Acknowledges(s[n])
  BY <1>3, Zenon
<1>7. 0 \in S
  BY <1>1, <1>5, <1>6
<1>8. ASSUME NEW n \in Nat, n \in S PROVE n + 1 \in S
  <2>1. ASSUME n + 1 <= N PROVE e[n + 1] = d[n + 1]
    <3>1. n + 1 \in 0..N /\ n + 1 # 0 /\ n + 1 - 1 = n /\ n <= N
      BY <1>1, <2>1
    <3>2. e[n] = d[n]
      BY <1>8, <3>1
    <3>3. e[n + 1] = e[n] + Acknowledges(s[n + 1])
      BY <1>5, <3>1
    <3>4. d[n + 1] = d[n] + Acknowledges(s[n + 1])
      BY <1>6, <3>1
    <3>. QED  BY <3>2, <3>3, <3>4
  <2>. QED  BY <2>1
<1>9. Nat \subseteq S
  <2>. HIDE DEF S
  <2>. QED  BY <1>7, <1>8, SetInduction
<1>10. e[N] = d[N]
  BY <1>1, <1>9
<1>. QED  BY <1>2, <1>10 DEF N

(* A message more adds what it acknowledges.                                   *)
LEMMA SumGrows ==
  ASSUME NEW s, SentOk(s), NEW x, x.value \in Nat
  PROVE  SumOf(s) \in Nat /\ SumOf(Append(s, x)) = SumOf(s) + Acknowledges(x)
<1>. DEFINE t == Append(s, x)
            n == Len(s)
<1>1. /\ SentOk(t) /\ n \in Nat /\ Len(t) = n + 1
      /\ \A i \in 1..n : t[i] = s[i]
      /\ t[n + 1] = x
  BY SentGrows
<1>2. PICK f : IsSum(f, s, n)
  BY SumExists
<1>3. Acknowledges(t[n + 1]) \in Nat
  BY <1>1 DEF Acknowledges
<1>4. SumOf(s) = f[n]
  BY <1>2, SumIs
<1>. HIDE DEF t, n
<1>5. PICK g : IsSum(g, t, n + 1) /\ g[n + 1] = f[n] + Acknowledges(t[n + 1])
  BY <1>1, <1>2, <1>3, SumFurther
<1>6. SumOf(t) = g[n + 1]
  BY <1>1, <1>5, SumIs
<1>7. f[n] \in Nat
  BY <1>1, <1>2 DEF IsSum
<1>. QED  BY <1>1, <1>4, <1>5, <1>6, <1>7 DEF t

(* It is a number.                                                             *)
LEMMA SumIsNat ==
  ASSUME NEW s, SentOk(s)
  PROVE  SumOf(s) \in Nat
<1>. DEFINE x == [value |-> 0]
<1>1. x.value \in Nat
  OBVIOUS
<1>. HIDE DEF x
<1>. QED  BY <1>1, SumGrows

-----------------------------------------------------------------------------
(* The answers: what a client that looks for a name in one finds.              *)

(* The first pair of a name.                                                   *)
LEMMA FindIs ==
  ASSUME NEW pairs, NEW name, Len(pairs) \in Nat, NEW k \in 1..Len(pairs),
         pairs[k][1] = name, \A j \in 1..k - 1 : pairs[j][1] # name
  PROVE  FindName(pairs, name) = k
<1>. DEFINE N == Len(pairs)
            I == {i \in 1..N : pairs[i][1] = name}
            least == Min(I)
<1>1. FindName(pairs, name) = IF I # {} THEN least ELSE 0
  BY Zenon DEF FindName, SelectInSeq
<1>. HIDE DEF N
<1>2. N \in Nat /\ k \in 1..N
  BY DEF N
<1>3. I \in SUBSET (1..N) /\ k \in I /\ I # {}
  BY <1>2
<1>4. \A i \in I : k <= i
  BY <1>2
<1>. HIDE DEF I
<1>5. least \in I /\ least <= k
  BY <1>2, <1>3, MinIsLeast
<1>. HIDE DEF least
<1>6. least = k
  <2>1. least \in 1..N /\ k <= least
    BY <1>3, <1>4, <1>5
  <2>. QED  BY <1>2, <1>5, <2>1
<1>. QED  BY <1>1, <1>3, <1>6

(* What is got of a name that is there with the type that is asked for.        *)
LEMMA GetIs ==
  ASSUME NEW pairs, NEW name, NEW type, NEW value, NEW k \in Nat \ {0},
         FindName(pairs, name) = k, pairs[k][2][type] = value, GetType(pairs[k][2]) = type,
         NEW default
  PROVE  Get(pairs, name, type, default) = value
BY DEF Get, Has

(* An answer is the document it was made of.                                   *)
LEMMA AnswersDecoded ==
  ASSUME NEW n \in 1..MaxMessages
  PROVE  /\ \A request \in Requests \cup Connects :
              LET result == ConnectResult(n, ObjectEncoding(Numbered(request, n)))
              IN  DecodeAmf(EncodeAmf(result)) = result
         /\ DecodeAmf(EncodeAmf(CreateStreamResult(n))) = CreateStreamResult(n)
         /\ \A name \in {"onFCPublish", "onStatus"}, code \in {"Start", "Rejected"} :
              DecodeAmf(EncodeAmf(Status(name, code))) = Status(name, code)
BY CodecAssumption

(* The result of a connect is one, and says what the client needs.             *)
LEMMA ConnectResultIs ==
  ASSUME NEW n, NEW encoding
  PROVE  LET answer == ConnectResult(n, encoding)
         IN  /\ \A name : IsNamed(answer, name) <=> name = "_result"
             /\ Len(answer) = 4 /\ answer[2] = Number(n)
             /\ Get(InfoOf(answer), "objectEncoding", "Number", -1) = encoding
             /\ FindName(Get(InfoOf(answer), "data", "Array", <<>>), "version") = 1
<1>. DEFINE answer == ConnectResult(n, encoding)
            versions == << <<"version", String("3,5")>> >>
            pairs == << <<"code", String("Success")>>, <<"clientid", Number(_client_id)>>,
                        <<"objectEncoding", Number(encoding)>>, <<"data", Array(versions)>> >>
            mode == Object(<< <<"mode", Number(1)>> >>)
<1>. HIDE DEF versions
<1>1. /\ Len(pairs) \in Nat /\ 3 \in 1..Len(pairs) /\ 4 \in 1..Len(pairs)
      /\ pairs[1][1] = "code" /\ pairs[2][1] = "clientid"
      /\ pairs[3][1] = "objectEncoding" /\ pairs[3][2] = Number(encoding)
      /\ pairs[4][1] = "data" /\ pairs[4][2] = Array(versions)
  OBVIOUS
<1>. HIDE DEF pairs, mode
<1>2. answer = <<String("_result"), Number(n), mode, Object(pairs)>>
  BY DEF ConnectResult, mode, pairs, versions
<1>. HIDE DEF answer
<1>3. /\ Len(answer) = 4 /\ answer[1] = String("_result") /\ answer[2] = Number(n)
      /\ answer[4] = Object(pairs)
  BY <1>2
<1>4. IsType(answer, 0, "String") /\ answer[1].String = "_result"
  BY <1>3, ValuesAre DEF IsType
<1>5. InfoOf(answer) = pairs
  BY <1>3, ValuesAre DEF IsType, InfoOf
<1>6. FindName(pairs, "objectEncoding") = 3 /\ FindName(pairs, "data") = 4
  <2>1. \A j \in 1..3 - 1 : pairs[j][1] # "objectEncoding"
    BY <1>1
  <2>2. \A j \in 1..4 - 1 : pairs[j][1] # "data"
    BY <1>1
  <2>. QED  BY <1>1, <2>1, <2>2, FindIs
<1>7. Get(pairs, "objectEncoding", "Number", -1) = encoding
  <2>1. /\ pairs[3][2]["Number"] = encoding /\ GetType(pairs[3][2]) = "Number"
        /\ 3 \in Nat \ {0}
    BY <1>1, ValuesAre
  <2>. QED  BY <1>6, <2>1, GetIs
<1>8. Get(pairs, "data", "Array", <<>>) = versions
  <2>1. /\ pairs[4][2]["Array"] = versions /\ GetType(pairs[4][2]) = "Array"
        /\ 4 \in Nat \ {0}
    BY <1>1, ValuesAre
  <2>. QED  BY <1>6, <2>1, GetIs
<1>9. FindName(versions, "version") = 1
  <2>1. /\ Len(versions) \in Nat /\ 1 \in 1..Len(versions)
        /\ versions[1][1] = "version"
    BY DEF versions
  <2>. HIDE DEF versions
  <2>2. \A j \in 1..1 - 1 : versions[j][1] # "version"
    OBVIOUS
  <2>. QED  BY <2>1, <2>2, FindIs
<1>10. \A name : IsNamed(answer, name) <=> name = "_result"
  BY <1>4 DEF IsNamed
<1>. QED  BY <1>3, <1>5, <1>7, <1>8, <1>9, <1>10 DEF answer

(* So does the result of a createStream.                                       *)
LEMMA CreateStreamResultIs ==
  ASSUME NEW n
  PROVE  LET answer == CreateStreamResult(n)
         IN  /\ \A name : IsNamed(answer, name) <=> name = "_result"
             /\ Len(answer) = 4 /\ answer[2] = Number(n)
             /\ answer[4] = Number(_rtmp_stream_id)
<1>. DEFINE answer == CreateStreamResult(n)
<1>1. /\ Len(answer) = 4 /\ answer[1] = String("_result") /\ answer[2] = Number(n)
      /\ answer[4] = Number(_rtmp_stream_id)
  BY DEF CreateStreamResult
<1>. HIDE DEF answer
<1>2. IsType(answer, 0, "String") /\ answer[1].String = "_result"
  BY <1>1, ValuesAre DEF IsType
<1>. QED  BY <1>1, <1>2 DEF IsNamed, answer

(* A status has its name, and its code is found.                               *)
LEMMA StatusIs ==
  ASSUME NEW of, NEW code
  PROVE  LET answer == Status(of, code)
         IN  /\ \A name : IsNamed(answer, name) <=> name = of
             /\ Get(InfoOf(answer), "code", "String", Empty) = code
<1>. DEFINE answer == Status(of, code)
            pairs == << <<"code", String(code)>>, <<"clientid", Number(_client_id)>> >>
<1>1. /\ Len(pairs) \in Nat /\ 1 \in 1..Len(pairs)
      /\ pairs[1][1] = "code" /\ pairs[1][2] = String(code)
  OBVIOUS
<1>. HIDE DEF pairs
<1>2. Len(answer) = 4 /\ answer[1] = String(of) /\ answer[4] = Object(pairs)
  BY DEF Status, pairs
<1>. HIDE DEF answer
<1>3. IsType(answer, 0, "String") /\ answer[1].String = of
  BY <1>2, ValuesAre DEF IsType
<1>4. InfoOf(answer) = pairs
  BY <1>2, ValuesAre DEF IsType, InfoOf
<1>5. FindName(pairs, "code") = 1
  <2>1. \A j \in 1..1 - 1 : pairs[j][1] # "code"
    OBVIOUS
  <2>. QED  BY <1>1, <2>1, FindIs
<1>6. Get(pairs, "code", "String", Empty) = code
  <2>1. pairs[1][2]["String"] = code /\ GetType(pairs[1][2]) = "String" /\ 1 \in Nat \ {0}
    BY <1>1, ValuesAre
  <2>. QED  BY <1>5, <2>1, GetIs
<1>. QED  BY <1>3, <1>4, <1>6 DEF IsNamed, answer

-----------------------------------------------------------------------------
(* What a message that is sent adds to the answers.                            *)

IsAnswer(x, name) == x.type = "command" /\ IsNamed(DecodeAmf(x.body), name)
AnswersIn(s, name) == {i \in 1..Len(s) : IsAnswer(s[i], name)}
CallIn(s, i) == CHOOSE n \in 1..MaxMessages : Csid(n) = s[i].csid

(* Each of the calls has one of the answers, in their order.                   *)
OneEachIn(s, answers, calls) ==
  /\ {CallIn(s, i) : i \in answers} = calls
  /\ \A i, j \in answers : i < j => CallIn(s, i) < CallIn(s, j)

(* The same in the words of RtmpCommands.                                      *)
LEMMA AnswersAreIn ==
  /\ \A name : Answers(name) = AnswersIn(sent, name)
  /\ \A i : CallOf(i) = CallIn(sent, i)
  /\ \A answers, calls : OneEach(answers, calls) <=> OneEachIn(sent, answers, calls)
<1>1. \A name : Answers(name) = AnswersIn(sent, name)
  BY DEF Answers, AnswersIn, IsAnswer, Answer
<1>2. \A i : CallOf(i) = CallIn(sent, i)
  BY DEF CallOf, CallIn
<1>. QED  BY <1>1, <1>2 DEF OneEach, OneEachIn

(* The answers are those before and, if it is one, the last message.           *)
LEMMA AnswersGrow ==
  ASSUME NEW s, SentOk(s), NEW x, x.value \in Nat, NEW name
  PROVE  LET t == Append(s, x)
         IN  /\ AnswersIn(t, name)
                  = AnswersIn(s, name) \cup (IF IsAnswer(x, name) THEN {Len(s) + 1} ELSE {})
             /\ \A i \in AnswersIn(s, name) : t[i] = s[i] /\ CallIn(t, i) = CallIn(s, i)
             /\ t[Len(s) + 1] = x
<1>. DEFINE t == Append(s, x)
            n == Len(s)
<1>1. /\ n \in Nat /\ Len(t) = n + 1
      /\ \A i \in 1..n : t[i] = s[i]
      /\ t[n + 1] = x
  BY SentGrows
<1>. HIDE DEF t
<1>2. \A i \in AnswersIn(s, name) : t[i] = s[i] /\ CallIn(t, i) = CallIn(s, i)
  BY <1>1 DEF AnswersIn, CallIn
<1>3. ASSUME NEW i
      PROVE  i \in AnswersIn(t, name)
               <=> i \in AnswersIn(s, name) \/ (i = n + 1 /\ IsAnswer(x, name))
  <2>. HIDE DEF n
  <2>1. 1..n + 1 = (1..n) \cup {n + 1} /\ n + 1 \notin 1..n
    BY <1>1
  <2>2. CASE i \in 1..n
    BY <1>1, <2>1, <2>2 DEF AnswersIn, n
  <2>3. CASE i = n + 1
    BY <1>1, <2>1, <2>3 DEF AnswersIn, n
  <2>4. CASE i \notin 1..n /\ i # n + 1
    BY <1>1, <2>1, <2>4 DEF AnswersIn, n
  <2>. QED  BY <2>2, <2>3, <2>4
<1>. HIDE DEF n
<1>4. AnswersIn(t, name)
        = AnswersIn(s, name) \cup (IF IsAnswer(x, name) THEN {n + 1} ELSE {})
  BY <1>3
<1>. QED  BY <1>1, <1>2, <1>4 DEF t, n

(* A message that is no answer of that name leaves them as they are.           *)
LEMMA NoneAdded ==
  ASSUME NEW s, SentOk(s), NEW x, x.value \in Nat, NEW name, ~IsAnswer(x, name),
         NEW calls, OneEachIn(s, AnswersIn(s, name), calls)
  PROVE  LET t == Append(s, x)
         IN  /\ AnswersIn(t, name) = AnswersIn(s, name)
             /\ OneEachIn(t, AnswersIn(t, name), calls)
             /\ \A i \in AnswersIn(s, name) : t[i] = s[i] /\ CallIn(t, i) = CallIn(s, i)
<1>. DEFINE t == Append(s, x)
<1>1. /\ AnswersIn(t, name) = AnswersIn(s, name)
      /\ \A i \in AnswersIn(s, name) : t[i] = s[i] /\ CallIn(t, i) = CallIn(s, i)
  <2>. DEFINE added == IF IsAnswer(x, name) THEN {Len(s) + 1} ELSE {}
  <2>1. added = {}
    OBVIOUS
  <2>2. /\ AnswersIn(t, name) = AnswersIn(s, name) \cup added
        /\ \A i \in AnswersIn(s, name) : t[i] = s[i] /\ CallIn(t, i) = CallIn(s, i)
    BY AnswersGrow
  <2>. HIDE DEF added, t
  <2>. QED  BY <2>1, <2>2
<1>. HIDE DEF t
<1>2. {CallIn(t, i) : i \in AnswersIn(t, name)} = {CallIn(s, i) : i \in AnswersIn(s, name)}
  BY <1>1
<1>3. OneEachIn(t, AnswersIn(t, name), calls)
  BY <1>1, <1>2 DEF OneEachIn
<1>. QED  BY <1>1, <1>3 DEF t

(* An answer on the chunk stream of the next call is the one of this call.     *)
LEMMA OneAdded ==
  ASSUME NEW s, SentOk(s), NEW x, x.value \in Nat, NEW name, IsAnswer(x, name),
         NEW m \in 1..MaxMessages, x.csid = Csid(m),
         NEW calls \in SUBSET (1..m - 1), OneEachIn(s, AnswersIn(s, name), calls)
  PROVE  LET t == Append(s, x)
         IN  /\ AnswersIn(t, name) = AnswersIn(s, name) \cup {Len(s) + 1}
             /\ OneEachIn(t, AnswersIn(t, name), calls \cup {m})
             /\ \A i \in AnswersIn(s, name) : t[i] = s[i] /\ CallIn(t, i) = CallIn(s, i)
             /\ t[Len(s) + 1] = x /\ CallIn(t, Len(s) + 1) = m
<1>. DEFINE t == Append(s, x)
            n == Len(s)
            A == AnswersIn(s, name)
            B == AnswersIn(t, name)
<1>0. n \in Nat
  BY SentGrows
<1>1. /\ B = A \cup {n + 1}
      /\ \A i \in A : t[i] = s[i] /\ CallIn(t, i) = CallIn(s, i)
      /\ t[n + 1] = x
  BY AnswersGrow
<1>2. CallIn(t, n + 1) = m
  <2>. HIDE DEF t, n
  <2>1. m \in 1..MaxMessages /\ Csid(m) = t[n + 1].csid
    BY <1>1
  <2>2. \A k \in 1..MaxMessages : Csid(k) = t[n + 1].csid => k = m
    <3>. TAKE k \in 1..MaxMessages
    <3>1. k \in Int /\ m \in Int
      BY DialogueAssumption
    <3>. QED  BY <2>1, <3>1 DEF Csid
  <2>. QED  BY <2>1, <2>2 DEF CallIn
<1>3. \A i \in A : i \in 1..n
  BY DEF AnswersIn
<1>. HIDE DEF t, n, A, B
<1>4. {CallIn(s, i) : i \in A} = calls /\ \A i, j \in A : i < j => CallIn(s, i) < CallIn(s, j)
  BY DEF OneEachIn, A
<1>5. {CallIn(t, i) : i \in B} = calls \cup {m}
  <2>1. \A i \in A : CallIn(t, i) \in calls
    BY <1>1, <1>4
  <2>2. \A k \in calls : \E i \in A : CallIn(t, i) = k
    BY <1>1, <1>4
  <2>. QED  BY <1>1, <1>2, <2>1, <2>2
<1>6. ASSUME NEW i \in B, NEW j \in B, i < j PROVE CallIn(t, i) < CallIn(t, j)
  <2>1. i \in A
    <3>1. ASSUME i = n + 1 PROVE FALSE
      <4>1. j = n + 1 \/ j \in 1..n
        BY <1>1, <1>3
      <4>. QED  BY <1>0, <1>6, <3>1, <4>1
    <3>. QED  BY <1>1, <3>1
  <2>2. CASE j \in A
    BY <1>1, <1>4, <1>6, <2>1, <2>2
  <2>3. CASE j = n + 1
    <3>1. CallIn(t, i) \in calls
      BY <1>1, <1>4, <2>1
    <3>2. CallIn(t, i) \in 1..m - 1 /\ m \in Int
      <4>1. \A k \in calls : k \in 1..m - 1
        OBVIOUS
      <4>2. m \in Int
        BY DialogueAssumption
      <4>3. CallIn(t, i) \in 1..m - 1
        BY <3>1, <4>1, Zenon
      <4>. QED  BY <4>2, <4>3
    <3>. QED  BY <1>2, <2>3, <3>2
  <2>. QED  BY <1>1, <2>2, <2>3
<1>7. OneEachIn(t, B, calls \cup {m})
  BY <1>5, <1>6 DEF OneEachIn
<1>. QED  BY <1>1, <1>2, <1>7 DEF t, n, A, B

-----------------------------------------------------------------------------
(* What is said of the first m messages of a stream q, by what the server has  *)
(* sent (s) and by what it keeps: the properties of RtmpCommands, with the     *)
(* stream and the state for parameters.                                        *)

Doc(q, n) == Numbered(q[n], n)
Is(q, n, name) == q[n].type = "command" /\ Head(q[n].document) = String(name)
CallsIn(q, names, m) == {n \in 1..m : \E name \in names : Is(q, n, name)}
AskedIn(q, m) == {n \in CallsIn(q, {"FCPublish", "publish"}, m) : Gives(Doc(q, n))}
NameIn(q, n) == Doc(q, n)[4].String

Usual(q, m) ==
  /\ \A n \in CallsIn(q, {"connect"}, m) :
       Get(ObjectOf(Doc(q, n)), "tcUrl", "String", Empty) = "app"
  /\ \A n \in AskedIn(q, m) : NameIn(q, n) # Empty

ResultOf(q, answer, n) ==
  /\ Len(answer) = 4 /\ answer[2] = Number(n)
  /\ Is(q, n, "createStream") => answer[4] = Number(_rtmp_stream_id)
  /\ Is(q, n, "connect") =>
       /\ Get(InfoOf(answer), "objectEncoding", "Number", -1) = ObjectEncoding(Doc(q, n))
       /\ FindName(Get(InfoOf(answer), "data", "Array", <<>>), "version") = 1

ResultsOk(q, s, m) ==
  LET results == AnswersIn(s, "_result")
  IN  /\ OneEachIn(s, results, CallsIn(q, {"connect", "createStream"}, m))
      /\ \A i \in results : ResultOf(q, DecodeAmf(s[i].body), CallIn(s, i))

StatusOf(q, answer, n, m) ==
  LET started == Get(InfoOf(answer), "code", "String", Empty) = "Start"
  IN  /\ Gives(Doc(q, n)) => started
      /\ Usual(q, m) => (started <=> \E k \in AskedIn(q, m) : k <= n)

StatusesOk(q, s, m) ==
  LET statuses == AnswersIn(s, "onStatus")
  IN  /\ OneEachIn(s, statuses, CallsIn(q, {"publish"}, m))
      /\ \A i \in statuses : StatusOf(q, DecodeAmf(s[i].body), CallIn(s, i), m)

NameOk(q, name, m) ==
  Usual(q, m) => name = IF AskedIn(q, m) = {} THEN Empty ELSE NameIn(q, Min(AskedIn(q, m)))

UrlOk(q, url, m) == m > 0 /\ Usual(q, m) => url = "app"

MetasIn(q, m) == {n \in 1..m : q[n].type = "data" /\ IsMetaData(Doc(q, n))}
ObjectIn(q, n) == Doc(q, n)[3][GetType(Doc(q, n)[3])]

NamedIn(q, m) == {n \in MetasIn(q, m) : NamesDevice(ObjectIn(q, n))}
DeviceIn(q, m) ==
  IF NamedIn(q, m) = {} THEN Empty ELSE DeviceOf(ObjectIn(q, Max(NamedIn(q, m))), Empty)

InfoIn(q, device, m) ==
  IF MetasIn(q, m) = {} THEN NoMedia ELSE MediaInfo(ObjectIn(q, Max(MetasIn(q, m))), device)

SaidOk(q, info, device, m) == device = DeviceIn(q, m) /\ info = InfoIn(q, device, m)

TracksIn(q, kinds, m) ==
  IF MetasIn(q, m) = {} THEN TracksOf(kinds, NoMedia)
  ELSE [kind \in kinds |-> Described(kind, ObjectIn(q, Max(MetasIn(q, m))))]

MediaIn(q, m) == {n \in 1..m : q[n].type = "media"}

TracksOk(q, published, tracks, m) ==
  LET first == Min(MediaIn(q, m))
  IN  /\ published <=> MediaIn(q, m) # {}
      /\ ~published => tracks = NoTracks
      /\ published => tracks = TracksIn(q, q[first].kinds, first)

WindowsIn(q, m) == {n \in 1..m : q[n].type = "window" /\ q[n].value # 0}
WindowIn(q, m) ==
  IF WindowsIn(q, m) = {} THEN RTMP_DEFAULT_ACKNOWNLEDGEMENT_SIZE
  ELSE q[Max(WindowsIn(q, m))].value

(* The same in the words of RtmpCommands.                                      *)
LEMMA InItsWords ==
  /\ \A m : CallsAnsweredTo(m) <=> ResultsOk(stream, sent, m)
  /\ \A m : PublishToldTo(m) <=> StatusesOk(stream, sent, m)
  /\ \A m : NamedTo(m) <=> NameOk(stream, _stream_name, m)
  /\ \A m : \A kinds : TracksSaid(kinds, m) = TracksIn(stream, kinds, m)
  /\ \A m : DeviceSaid(m) = DeviceIn(stream, m)
  /\ \A m : WindowAt(m) = WindowIn(stream, m)
  /\ Acknowledged = SumOf(sent)
<1>1. \A n : Document(n) = Doc(stream, n)
  BY DEF Document, Doc
<1>2. \A n, name : IsCall(n, name) <=> Is(stream, n, name)
  BY DEF IsCall, Is
<1>3. \A names, m : CallsTo(names, m) = CallsIn(stream, names, m)
  BY <1>2 DEF CallsTo, CallsIn
<1>4. \A n : AsksForName(n) <=> Gives(Doc(stream, n))
  BY <1>1 DEF AsksForName, Gives
<1>5. \A m : Asked(m) = AskedIn(stream, m)
  BY <1>3, <1>4 DEF Asked, AskedIn
<1>6. \A n : NameAsked(n) = NameIn(stream, n)
  BY <1>1 DEF NameAsked, NameIn
<1>7. \A m : UsualClient(m) <=> Usual(stream, m)
  BY <1>1, <1>3, <1>5, <1>6 DEF UsualClient, Usual
<1>8. \A answer, n : IsResultOf(answer, n) <=> ResultOf(stream, answer, n)
  BY <1>1, <1>2 DEF IsResultOf, ResultOf
<1>9. \A m : CallsAnsweredTo(m) <=> ResultsOk(stream, sent, m)
  BY <1>3, <1>8, AnswersAreIn DEF CallsAnsweredTo, ResultsOk, Answer
<1>10. \A m : PublishToldTo(m) <=> StatusesOk(stream, sent, m)
  BY <1>3, <1>4, <1>5, <1>7, AnswersAreIn DEF PublishToldTo, StatusesOk, StatusOf, Answer
<1>11. \A m : NamedTo(m) <=> NameOk(stream, _stream_name, m)
  BY <1>5, <1>6, <1>7 DEF NamedTo, NameOk
<1>12. \A m : Metas(m) = MetasIn(stream, m)
  BY <1>1 DEF IsMeta, Metas, MetasIn
<1>15. \A n : MetaObject(n) = ObjectIn(stream, n)
  BY <1>1 DEF MetaObject, ObjectIn
<1>16. \A m : \A kinds : TracksSaid(kinds, m) = TracksIn(stream, kinds, m)
  BY <1>12, <1>15 DEF TracksSaid, TracksIn
<1>17. \A m : DeviceSaid(m) = DeviceIn(stream, m)
  BY <1>12, <1>15 DEF DeviceSaid, DeviceIn, NamedIn
<1>13. \A m : WindowAt(m) = WindowIn(stream, m)
  BY DEF WindowAt, WindowIn, WindowsIn
<1>14. Acknowledged = SumOf(sent)
  BY Zenon DEF Acknowledged, SumOf, Acknowledges
<1>. QED  BY <1>9, <1>10, <1>11, <1>13, <1>14, <1>16, <1>17

-----------------------------------------------------------------------------
(* What is said of the first m messages depends on no other.                   *)

(* Which calls, metadata, media and windows there are.                         *)
LEMMA PrefixSets ==
  ASSUME NEW m \in Nat, NEW q, NEW p, \A n \in 1..m : p[n] = q[n]
  PROVE  /\ \A names : CallsIn(p, names, m) = CallsIn(q, names, m)
         /\ AskedIn(p, m) = AskedIn(q, m)
         /\ Usual(p, m) <=> Usual(q, m)
         /\ MetasIn(p, m) = MetasIn(q, m) /\ NamedIn(p, m) = NamedIn(q, m)
         /\ \A n \in 1..m : ObjectIn(p, n) = ObjectIn(q, n)
         /\ MediaIn(p, m) = MediaIn(q, m)
         /\ WindowsIn(p, m) = WindowsIn(q, m)
<1>1. \A n \in 1..m : Doc(p, n) = Doc(q, n) /\ \A name : Is(p, n, name) <=> Is(q, n, name)
  BY DEF Doc, Is
<1>2. \A names : CallsIn(p, names, m) = CallsIn(q, names, m)
  BY <1>1 DEF CallsIn
<1>3. \A names : \A n \in CallsIn(q, names, m) : n \in 1..m
  BY DEF CallsIn
<1>4. AskedIn(p, m) = AskedIn(q, m) /\ \A n \in AskedIn(q, m) : n \in 1..m
  BY <1>1, <1>2, <1>3 DEF AskedIn
<1>5. Usual(p, m) <=> Usual(q, m)
  BY <1>1, <1>2, <1>3, <1>4 DEF Usual, NameIn
<1>6. MetasIn(p, m) = MetasIn(q, m)
  BY <1>1 DEF MetasIn
<1>7. MediaIn(p, m) = MediaIn(q, m) /\ WindowsIn(p, m) = WindowsIn(q, m)
  BY DEF MediaIn, WindowsIn
<1>8. \A n \in 1..m : ObjectIn(p, n) = ObjectIn(q, n)
  BY <1>1 DEF ObjectIn
<1>9. \A n \in MetasIn(q, m) : n \in 1..m
  BY DEF MetasIn
<1>10. NamedIn(p, m) = NamedIn(q, m)
  BY <1>6, <1>8, <1>9 DEF NamedIn
<1>. QED  BY <1>2, <1>4, <1>5, <1>6, <1>7, <1>8, <1>10

(* What the metadata says.                                                     *)
LEMMA PrefixSaid ==
  ASSUME NEW m \in Nat, NEW q, NEW p, \A n \in 1..m : p[n] = q[n]
  PROVE  /\ \A info, device : SaidOk(q, info, device, m) => SaidOk(p, info, device, m)
         /\ \A kinds : TracksIn(p, kinds, m) = TracksIn(q, kinds, m)
<1>1. /\ MetasIn(p, m) = MetasIn(q, m) /\ NamedIn(p, m) = NamedIn(q, m)
      /\ \A n \in 1..m : ObjectIn(p, n) = ObjectIn(q, n)
  BY PrefixSets
<1>2. MetasIn(q, m) \in SUBSET (1..m) /\ NamedIn(q, m) \in SUBSET (1..m)
  BY DEF MetasIn, NamedIn
<1>3. ASSUME NEW S \in SUBSET (1..m), S # {}
      PROVE  ObjectIn(p, Max(S)) = ObjectIn(q, Max(S))
  <2>1. Max(S) \in 1..m
    BY <1>3, MaxIsGreatest
  <2>. QED  BY <1>1, <2>1
<1>4. MetasIn(q, m) # {} => ObjectIn(p, Max(MetasIn(q, m))) = ObjectIn(q, Max(MetasIn(q, m)))
  BY <1>2, <1>3
<1>5. NamedIn(q, m) # {} => ObjectIn(p, Max(NamedIn(q, m))) = ObjectIn(q, Max(NamedIn(q, m)))
  BY <1>2, <1>3
<1>6. DeviceIn(p, m) = DeviceIn(q, m)
  BY <1>1, <1>5 DEF DeviceIn
<1>7. \A device : InfoIn(p, device, m) = InfoIn(q, device, m)
  BY <1>1, <1>4 DEF InfoIn
<1>8. \A kinds : TracksIn(p, kinds, m) = TracksIn(q, kinds, m)
  BY <1>1, <1>4 DEF TracksIn
<1>. QED  BY <1>6, <1>7, <1>8 DEF SaidOk

(* And so all that the invariant says.                                         *)
LEMMA PrefixSame ==
  ASSUME NEW m \in Nat, NEW q, NEW p, \A n \in 1..m : p[n] = q[n]
  PROVE  /\ \A s : ResultsOk(q, s, m) => ResultsOk(p, s, m)
         /\ \A s : StatusesOk(q, s, m) => StatusesOk(p, s, m)
         /\ \A name : NameOk(q, name, m) => NameOk(p, name, m)
         /\ \A url : UrlOk(q, url, m) => UrlOk(p, url, m)
         /\ \A info, device : SaidOk(q, info, device, m) => SaidOk(p, info, device, m)
         /\ \A published, tracks : TracksOk(q, published, tracks, m)
                                     => TracksOk(p, published, tracks, m)
         /\ WindowIn(p, m) = WindowIn(q, m)
<1>1. /\ \A names : CallsIn(p, names, m) = CallsIn(q, names, m)
      /\ AskedIn(p, m) = AskedIn(q, m)
      /\ Usual(p, m) <=> Usual(q, m)
      /\ MetasIn(p, m) = MetasIn(q, m)
      /\ MediaIn(p, m) = MediaIn(q, m)
      /\ WindowsIn(p, m) = WindowsIn(q, m)
  BY PrefixSets
<1>2. \A n \in 1..m : Doc(p, n) = Doc(q, n) /\ \A name : Is(p, n, name) <=> Is(q, n, name)
  BY DEF Doc, Is
<1>3. ASSUME NEW s, NEW answers, NEW names, OneEachIn(s, answers, CallsIn(q, names, m))
      PROVE  \A i \in answers : CallIn(s, i) \in 1..m
  BY <1>3 DEF OneEachIn, CallsIn
<1>4. ASSUME NEW s, ResultsOk(q, s, m) PROVE ResultsOk(p, s, m)
  <2>. DEFINE results == AnswersIn(s, "_result")
  <2>1. /\ OneEachIn(s, results, CallsIn(q, {"connect", "createStream"}, m))
        /\ \A i \in results : ResultOf(q, DecodeAmf(s[i].body), CallIn(s, i))
    BY <1>4 DEF ResultsOk
  <2>2. \A i \in results : CallIn(s, i) \in 1..m
    BY <1>3, <2>1
  <2>. HIDE DEF results
  <2>3. \A i \in results : ResultOf(p, DecodeAmf(s[i].body), CallIn(s, i))
    BY <1>2, <2>1, <2>2 DEF ResultOf
  <2>. QED  BY <1>1, <2>1, <2>3 DEF ResultsOk, results
<1>5. ASSUME NEW s, StatusesOk(q, s, m) PROVE StatusesOk(p, s, m)
  <2>. DEFINE statuses == AnswersIn(s, "onStatus")
  <2>1. /\ OneEachIn(s, statuses, CallsIn(q, {"publish"}, m))
        /\ \A i \in statuses : StatusOf(q, DecodeAmf(s[i].body), CallIn(s, i), m)
    BY <1>5 DEF StatusesOk
  <2>2. \A i \in statuses : CallIn(s, i) \in 1..m
    BY <1>3, <2>1
  <2>. HIDE DEF statuses
  <2>3. \A i \in statuses : StatusOf(p, DecodeAmf(s[i].body), CallIn(s, i), m)
    BY <1>1, <1>2, <2>1, <2>2 DEF StatusOf
  <2>. QED  BY <1>1, <2>1, <2>3 DEF StatusesOk, statuses
<1>6. ASSUME NEW name, NameOk(q, name, m) PROVE NameOk(p, name, m)
  <2>1. ASSUME AskedIn(q, m) # {}
        PROVE  NameIn(p, Min(AskedIn(q, m))) = NameIn(q, Min(AskedIn(q, m)))
    <3>1. AskedIn(q, m) \in SUBSET (1..m)
      BY DEF AskedIn, CallsIn
    <3>2. Min(AskedIn(q, m)) \in 1..m
      BY <2>1, <3>1, MinIsLeast
    <3>. QED  BY <1>2, <3>2 DEF NameIn
  <2>. QED  BY <1>1, <1>6, <2>1 DEF NameOk
<1>7. \A url : UrlOk(q, url, m) => UrlOk(p, url, m)
  BY <1>1 DEF UrlOk
<1>8. \A info, device : SaidOk(q, info, device, m) => SaidOk(p, info, device, m)
  BY PrefixSaid
<1>9. ASSUME NEW published, NEW tracks, TracksOk(q, published, tracks, m)
      PROVE  TracksOk(p, published, tracks, m)
  <2>. DEFINE first == Min(MediaIn(q, m))
  <2>1. CASE published
    <3>1. MediaIn(q, m) # {} /\ MediaIn(q, m) \in SUBSET (1..m)
      BY <1>9, <2>1 DEF TracksOk, MediaIn
    <3>2. first \in 1..m
      BY <3>1, MinIsLeast
    <3>. HIDE DEF first
    <3>3. first \in Nat /\ \A n \in 1..first : p[n] = q[n]
      BY <3>2
    <3>4. tracks = TracksIn(q, q[first].kinds, first)
      BY <1>9, <2>1 DEF TracksOk, first
    <3>5. tracks = TracksIn(p, p[first].kinds, first)
      BY <3>2, <3>3, <3>4, PrefixSaid
    <3>. QED  BY <1>1, <2>1, <3>1, <3>4, <3>5 DEF TracksOk, first
  <2>2. CASE ~published
    BY <1>1, <1>9, <2>2 DEF TracksOk
  <2>. QED  BY <2>1, <2>2
<1>10. WindowIn(p, m) = WindowIn(q, m)
  <2>1. ASSUME WindowsIn(q, m) # {}
        PROVE  p[Max(WindowsIn(q, m))] = q[Max(WindowsIn(q, m))]
    <3>1. WindowsIn(q, m) \in SUBSET (1..m)
      BY DEF WindowsIn
    <3>2. Max(WindowsIn(q, m)) \in 1..m
      BY <2>1, <3>1, MaxIsGreatest
    <3>. QED  BY <3>2
  <2>. QED  BY <1>1, <2>1 DEF WindowIn
<1>. QED  BY <1>4, <1>5, <1>6, <1>7, <1>8, <1>9, <1>10

-----------------------------------------------------------------------------
(* What message m of a stream adds.                                            *)

IsStream(q) ==
  /\ q \in Seq(Requests \cup Connects) /\ Len(q) <= MaxMessages
  /\ q # <<>> => q[1] \in Connects

CallNames == {"connect", "createStream", "FCPublish", "publish"}
Asks(q, n) == (Is(q, n, "FCPublish") \/ Is(q, n, "publish")) /\ Gives(Doc(q, n))

(* Each of the sets is the one of the messages before it and, if it belongs    *)
(* there, m.                                                                   *)
LEMMA CallsGrow ==
  ASSUME NEW q, NEW m \in Nat \ {0}, NEW names
  PROVE  \A n : n \in CallsIn(q, names, m)
               <=> n \in CallsIn(q, names, m - 1) \/ (n = m /\ \E name \in names : Is(q, m, name))
<1>1. \A n : n \in 1..m <=> n \in 1..m - 1 \/ n = m
  OBVIOUS
<1>. QED  BY <1>1, Zenon DEF CallsIn

(* The calls that asked for a name.                                            *)
LEMMA AskedGrow ==
  ASSUME NEW q, NEW m \in Nat \ {0}
  PROVE  \A n : n \in AskedIn(q, m) <=> n \in AskedIn(q, m - 1) \/ (n = m /\ Asks(q, m))
<1>1. \A n : n \in 1..m <=> n \in 1..m - 1 \/ n = m
  OBVIOUS
<1>. QED  BY <1>1, Zenon DEF AskedIn, CallsIn, Asks

(* The metadata.                                                               *)
LEMMA MetasGrow ==
  ASSUME NEW q, NEW m \in Nat \ {0}
  PROVE  \A n : n \in MetasIn(q, m)
               <=> n \in MetasIn(q, m - 1) \/ (n = m /\ q[m].type = "data" /\ IsMetaData(Doc(q, m)))
<1>1. \A n : n \in 1..m <=> n \in 1..m - 1 \/ n = m
  OBVIOUS
<1>. QED  BY <1>1, Zenon DEF MetasIn

(* The media.                                                                  *)
LEMMA MediaGrow ==
  ASSUME NEW q, NEW m \in Nat \ {0}
  PROVE  \A n : n \in MediaIn(q, m) <=> n \in MediaIn(q, m - 1) \/ (n = m /\ q[m].type = "media")
<1>1. \A n : n \in 1..m <=> n \in 1..m - 1 \/ n = m
  OBVIOUS
<1>. QED  BY <1>1, Zenon DEF MediaIn

(* The windows.                                                                *)
LEMMA WindowsGrow ==
  ASSUME NEW q, NEW m \in Nat \ {0}
  PROVE  \A n : n \in WindowsIn(q, m)
               <=> n \in WindowsIn(q, m - 1) \/ (n = m /\ q[m].type = "window" /\ q[m].value # 0)
<1>1. \A n : n \in 1..m <=> n \in 1..m - 1 \/ n = m
  OBVIOUS
<1>. QED  BY <1>1, Zenon DEF WindowsIn

(* The numbers in them are those of messages.                                  *)
LEMMA SetsAreNumbers ==
  ASSUME NEW q, NEW m \in Nat
  PROVE  /\ \A names : CallsIn(q, names, m) \in SUBSET (1..m)
         /\ AskedIn(q, m) \in SUBSET (1..m)
         /\ MetasIn(q, m) \in SUBSET (1..m)
         /\ MediaIn(q, m) \in SUBSET (1..m)
         /\ WindowsIn(q, m) \in SUBSET (1..m)
BY DEF CallsIn, AskedIn, MetasIn, MediaIn, WindowsIn

(* A client that is usual up to m was so before.                               *)
LEMMA UsualBefore ==
  ASSUME NEW q, NEW m \in Nat \ {0}, Usual(q, m)
  PROVE  /\ Usual(q, m - 1)
         /\ Is(q, m, "connect") => Get(ObjectOf(Doc(q, m)), "tcUrl", "String", Empty) = "app"
         /\ Asks(q, m) => NameIn(q, m) # Empty
<1>1. /\ \A n \in CallsIn(q, {"connect"}, m) :
           Get(ObjectOf(Doc(q, n)), "tcUrl", "String", Empty) = "app"
      /\ \A n \in AskedIn(q, m) : NameIn(q, n) # Empty
  BY Zenon DEF Usual
<1>2. /\ \A n : n \in CallsIn(q, {"connect"}, m)
             <=> n \in CallsIn(q, {"connect"}, m - 1)
                   \/ (n = m /\ \E name \in {"connect"} : Is(q, m, name))
      /\ \A n : n \in AskedIn(q, m) <=> n \in AskedIn(q, m - 1) \/ (n = m /\ Asks(q, m))
  BY CallsGrow, AskedGrow
<1>. QED  BY <1>1, <1>2, Zenon DEF Usual

(* What an answer to an earlier publish says goes on to be right.              *)
LEMMA StatusKept ==
  ASSUME NEW q, NEW m \in Nat \ {0}, NEW n \in 1..m - 1, NEW answer,
         StatusOf(q, answer, n, m - 1)
  PROVE  StatusOf(q, answer, n, m)
<1>1. Usual(q, m) => Usual(q, m - 1)
  BY UsualBefore
<1>2. ASSUME NEW k, k \in AskedIn(q, m), k <= n PROVE k \in AskedIn(q, m - 1)
  <2>1. k # m
    BY <1>2
  <2>2. k \in AskedIn(q, m - 1) \/ (k = m /\ Asks(q, m))
    BY <1>2, AskedGrow, Zenon
  <2>. QED  BY <2>1, <2>2
<1>3. \A k : k \in AskedIn(q, m - 1) => k \in AskedIn(q, m)
  BY AskedGrow, Zenon
<1>. QED  BY <1>1, <1>2, <1>3, Zenon DEF StatusOf

(* A number above the others is not the least of them.                         *)
LEMMA LeastStays ==
  ASSUME NEW m \in Nat \ {0}, NEW A \in SUBSET (1..m - 1), A # {},
         NEW B \in SUBSET (1..m), A \subseteq B, \A n \in B : n \in A \/ n = m
  PROVE  Min(A) \in A /\ B # {} /\ Min(B) = Min(A)
<1>1. m - 1 \in Nat
  OBVIOUS
<1>2. Min(A) \in A /\ \A n \in A : Min(A) <= n
  BY <1>1, MinIsLeast
<1>3. B # {} /\ Min(B) \in B /\ \A n \in B : Min(B) <= n
  BY MinIsLeast
<1>4. Min(A) \in B /\ Min(A) \in 1..m - 1 /\ Min(B) \in 1..m
  BY <1>2, <1>3
<1>5. Min(B) <= Min(A) /\ Min(B) # m
  BY <1>3, <1>4
<1>6. Min(B) \in A
  BY <1>3, <1>5
<1>7. Min(A) <= Min(B)
  BY <1>2, <1>6
<1>. QED  BY <1>2, <1>3, <1>4, <1>5, <1>7

(* The name after message m, if it has one and the stream has none.            *)
LEMMA NameGrows ==
  ASSUME NEW q, NEW m \in Nat \ {0}, NEW name, NEW url,
         NameOk(q, name, m - 1), UrlOk(q, url, m - 1), m > 1 \/ ~Asks(q, m)
  PROVE  NameOk(q, IF name = Empty /\ Asks(q, m)
                   THEN IF url = "app" THEN NameIn(q, m) ELSE Empty ELSE name, m)
<1>. DEFINE A == AskedIn(q, m - 1)
            B == AskedIn(q, m)
            new == IF name = Empty /\ Asks(q, m)
                   THEN IF url = "app" THEN NameIn(q, m) ELSE Empty ELSE name
<1>1. SUFFICES ASSUME Usual(q, m)
               PROVE  new = IF B = {} THEN Empty ELSE NameIn(q, Min(B))
  BY DEF NameOk
<1>2. Usual(q, m - 1) /\ (Asks(q, m) => NameIn(q, m) # Empty)
  BY <1>1, UsualBefore
<1>3. name = IF A = {} THEN Empty ELSE NameIn(q, Min(A))
  BY <1>2 DEF NameOk
<1>4. Asks(q, m) => url = "app"
  BY <1>2 DEF UrlOk
<1>5. \A n : n \in B <=> n \in A \/ (n = m /\ Asks(q, m))
  BY AskedGrow, Zenon
<1>6. A \in SUBSET (1..m - 1) /\ B \in SUBSET (1..m) /\ m - 1 \in Nat
  BY SetsAreNumbers
<1>7. \A n \in A : NameIn(q, n) # Empty
  BY <1>2 DEF Usual
<1>. HIDE DEF A, B
<1>8. CASE A = {}
  <2>1. CASE Asks(q, m)
    <3>1. B = {m}
      BY <1>5, <1>8, <2>1
    <3>2. Min(B) = m
      BY <1>6, <3>1, MinIsLeast
    <3>3. B # {}
      BY <3>1
    <3>. QED  BY <1>3, <1>4, <1>8, <2>1, <3>2, <3>3, Zenon
  <2>2. CASE ~Asks(q, m)
    <3>1. B = {}
      BY <1>5, <1>8, <2>2
    <3>. QED  BY <1>3, <1>8, <2>2, <3>1, Zenon
  <2>. QED  BY <2>1, <2>2
<1>9. CASE A # {}
  <2>1. A \subseteq B /\ \A n \in B : n \in A \/ n = m
    BY <1>5
  <2>2. Min(A) \in A /\ B # {} /\ Min(B) = Min(A)
    BY <1>6, <1>9, <2>1, LeastStays
  <2>3. name = NameIn(q, Min(A)) /\ name # Empty
    BY <1>3, <1>7, <1>9, <2>2
  <2>. QED  BY <2>2, <2>3
<1>. QED  BY <1>8, <1>9

-----------------------------------------------------------------------------
(* What the messages of other types and the other commands leave as it is.     *)

(* What is sent that is no result leaves the results as they are.              *)
LEMMA ResultsStay ==
  ASSUME NEW s, SentOk(s), NEW x, x.value \in Nat, ~IsAnswer(x, "_result"),
         NEW q, NEW m, ResultsOk(q, s, m)
  PROVE  ResultsOk(q, Append(s, x), m)
<1>. DEFINE t == Append(s, x)
<1>1. /\ OneEachIn(s, AnswersIn(s, "_result"), CallsIn(q, {"connect", "createStream"}, m))
      /\ \A i \in AnswersIn(s, "_result") : ResultOf(q, DecodeAmf(s[i].body), CallIn(s, i))
  BY Zenon DEF ResultsOk
<1>2. /\ AnswersIn(t, "_result") = AnswersIn(s, "_result")
      /\ OneEachIn(t, AnswersIn(t, "_result"), CallsIn(q, {"connect", "createStream"}, m))
      /\ \A i \in AnswersIn(s, "_result") : t[i] = s[i] /\ CallIn(t, i) = CallIn(s, i)
  BY <1>1, NoneAdded
<1>. HIDE DEF t
<1>3. ResultsOk(q, t, m)
  BY <1>1, <1>2 DEF ResultsOk
<1>. QED  BY <1>3 DEF t

(* And so it is with the statuses.                                             *)
LEMMA StatusesStay ==
  ASSUME NEW s, SentOk(s), NEW x, x.value \in Nat, ~IsAnswer(x, "onStatus"),
         NEW q, NEW m, StatusesOk(q, s, m)
  PROVE  StatusesOk(q, Append(s, x), m)
<1>. DEFINE t == Append(s, x)
<1>1. /\ OneEachIn(s, AnswersIn(s, "onStatus"), CallsIn(q, {"publish"}, m))
      /\ \A i \in AnswersIn(s, "onStatus") :
           StatusOf(q, DecodeAmf(s[i].body), CallIn(s, i), m)
  BY Zenon DEF StatusesOk
<1>2. /\ AnswersIn(t, "onStatus") = AnswersIn(s, "onStatus")
      /\ OneEachIn(t, AnswersIn(t, "onStatus"), CallsIn(q, {"publish"}, m))
      /\ \A i \in AnswersIn(s, "onStatus") : t[i] = s[i] /\ CallIn(t, i) = CallIn(s, i)
  BY <1>1, NoneAdded
<1>. HIDE DEF t
<1>3. StatusesOk(q, t, m)
  BY <1>1, <1>2 DEF StatusesOk
<1>. QED  BY <1>3 DEF t

(* The result of call m, behind the others, is one it wants.                   *)
LEMMA ResultAdded ==
  ASSUME NEW s, SentOk(s), NEW x, x.value \in Nat, x.type = "command",
         NEW m \in 1..MaxMessages, x.csid = Csid(m), IsNamed(DecodeAmf(x.body), "_result"),
         NEW q, ResultsOk(q, s, m - 1), ResultOf(q, DecodeAmf(x.body), m),
         Is(q, m, "connect") \/ Is(q, m, "createStream")
  PROVE  ResultsOk(q, Append(s, x), m)
<1>. DEFINE names == {"connect", "createStream"}
            t == Append(s, x)
            A == AnswersIn(s, "_result")
            calls == CallsIn(q, names, m - 1)
<1>1. m \in Nat \ {0} /\ m - 1 \in Nat
  <2>1. MaxMessages \in Nat
    BY DialogueAssumption
  <2>. QED  BY <2>1
<1>2. OneEachIn(s, A, calls) /\ \A i \in A : ResultOf(q, DecodeAmf(s[i].body), CallIn(s, i))
  BY Zenon DEF ResultsOk
<1>3. calls \in SUBSET (1..m - 1)
  <2>. HIDE DEF names
  <2>. QED  BY <1>1, SetsAreNumbers
<1>4. CallsIn(q, names, m) = calls \cup {m}
  <2>1. \A n : n \in CallsIn(q, names, m)
                 <=> n \in calls \/ (n = m /\ \E name \in names : Is(q, m, name))
    BY <1>1, CallsGrow
  <2>. HIDE DEF calls
  <2>. QED  BY <2>1
<1>5. IsAnswer(x, "_result")
  BY DEF IsAnswer
<1>. HIDE DEF names, calls
<1>6. /\ AnswersIn(t, "_result") = A \cup {Len(s) + 1}
      /\ OneEachIn(t, AnswersIn(t, "_result"), calls \cup {m})
      /\ \A i \in A : t[i] = s[i] /\ CallIn(t, i) = CallIn(s, i)
      /\ t[Len(s) + 1] = x /\ CallIn(t, Len(s) + 1) = m
  BY <1>2, <1>3, <1>5, OneAdded
<1>. HIDE DEF t, A
<1>7. \A i \in AnswersIn(t, "_result") : ResultOf(q, DecodeAmf(t[i].body), CallIn(t, i))
  BY <1>2, <1>6
<1>8. ResultsOk(q, t, m)
  BY <1>4, <1>6, <1>7 DEF ResultsOk, names
<1>. QED  BY <1>8 DEF t

(* So is the status of publish m.                                              *)
LEMMA StatusAdded ==
  ASSUME NEW s, SentOk(s), NEW x, x.value \in Nat, x.type = "command",
         NEW m \in 1..MaxMessages, x.csid = Csid(m), IsNamed(DecodeAmf(x.body), "onStatus"),
         NEW q, StatusesOk(q, s, m - 1), StatusOf(q, DecodeAmf(x.body), m, m),
         Is(q, m, "publish")
  PROVE  StatusesOk(q, Append(s, x), m)
<1>. DEFINE names == {"publish"}
            t == Append(s, x)
            A == AnswersIn(s, "onStatus")
            calls == CallsIn(q, names, m - 1)
<1>1. m \in Nat \ {0} /\ m - 1 \in Nat
  <2>1. MaxMessages \in Nat
    BY DialogueAssumption
  <2>. QED  BY <2>1
<1>2. /\ OneEachIn(s, A, calls)
      /\ \A i \in A : StatusOf(q, DecodeAmf(s[i].body), CallIn(s, i), m - 1)
  BY Zenon DEF StatusesOk
<1>3. calls \in SUBSET (1..m - 1)
  <2>. HIDE DEF names
  <2>. QED  BY <1>1, SetsAreNumbers
<1>4. CallsIn(q, names, m) = calls \cup {m}
  <2>1. \A n : n \in CallsIn(q, names, m)
                 <=> n \in calls \/ (n = m /\ \E name \in names : Is(q, m, name))
    BY <1>1, CallsGrow
  <2>. HIDE DEF calls
  <2>. QED  BY <2>1
<1>5. IsAnswer(x, "onStatus")
  BY DEF IsAnswer
<1>. HIDE DEF names, calls
<1>6. /\ AnswersIn(t, "onStatus") = A \cup {Len(s) + 1}
      /\ OneEachIn(t, AnswersIn(t, "onStatus"), calls \cup {m})
      /\ \A i \in A : t[i] = s[i] /\ CallIn(t, i) = CallIn(s, i)
      /\ t[Len(s) + 1] = x /\ CallIn(t, Len(s) + 1) = m
  BY <1>2, <1>3, <1>5, OneAdded
<1>. HIDE DEF t, A
<1>7. \A i \in A : CallIn(s, i) \in 1..m - 1
  BY <1>2, <1>3 DEF OneEachIn
<1>8. \A i \in A : StatusOf(q, DecodeAmf(s[i].body), CallIn(s, i), m)
  BY <1>1, <1>2, <1>7, StatusKept
<1>9. \A i \in AnswersIn(t, "onStatus") :
        StatusOf(q, DecodeAmf(t[i].body), CallIn(t, i), m)
  BY <1>6, <1>8
<1>10. StatusesOk(q, t, m)
  BY <1>4, <1>6, <1>9 DEF StatusesOk, names
<1>. QED  BY <1>10 DEF t

(* A message that is no connect and no createStream wants no result.           *)
LEMMA ResultsKept ==
  ASSUME NEW q, NEW m \in Nat \ {0}, NEW s, ResultsOk(q, s, m - 1),
         ~Is(q, m, "connect"), ~Is(q, m, "createStream")
  PROVE  ResultsOk(q, s, m)
<1>. DEFINE names == {"connect", "createStream"}
<1>1. \A n : n \in CallsIn(q, names, m)
               <=> n \in CallsIn(q, names, m - 1) \/ (n = m /\ \E name \in names : Is(q, m, name))
  BY CallsGrow
<1>2. CallsIn(q, names, m) = CallsIn(q, names, m - 1)
  BY <1>1
<1>. QED  BY <1>2, Zenon DEF ResultsOk

(* And one that is no publish wants no status.                                 *)
LEMMA StatusesKept ==
  ASSUME NEW q, NEW m \in Nat \ {0}, NEW s, StatusesOk(q, s, m - 1), ~Is(q, m, "publish")
  PROVE  StatusesOk(q, s, m)
<1>. DEFINE names == {"publish"}
            statuses == AnswersIn(s, "onStatus")
<1>1. \A n : n \in CallsIn(q, names, m)
               <=> n \in CallsIn(q, names, m - 1) \/ (n = m /\ \E name \in names : Is(q, m, name))
  BY CallsGrow
<1>2. CallsIn(q, names, m) = CallsIn(q, names, m - 1)
  BY <1>1
<1>3. /\ OneEachIn(s, statuses, CallsIn(q, names, m - 1))
      /\ \A i \in statuses : StatusOf(q, DecodeAmf(s[i].body), CallIn(s, i), m - 1)
  BY Zenon DEF StatusesOk
<1>. HIDE DEF names, statuses
<1>4. CallsIn(q, names, m - 1) \in SUBSET (1..m - 1)
  <2>1. m - 1 \in Nat
    OBVIOUS
  <2>. QED  BY <2>1, SetsAreNumbers
<1>5. \A i \in statuses : CallIn(s, i) \in 1..m - 1
  BY <1>3, <1>4 DEF OneEachIn
<1>6. \A i \in statuses : StatusOf(q, DecodeAmf(s[i].body), CallIn(s, i), m)
  BY <1>3, <1>5, StatusKept
<1>. QED  BY <1>2, <1>3, <1>6, Zenon DEF StatusesOk, names, statuses

(* The URL lasts as long as no connect changes it.                             *)
LEMMA UrlKept ==
  ASSUME NEW q, NEW m \in Nat, m > 1, NEW url, UrlOk(q, url, m - 1)
  PROVE  UrlOk(q, url, m)
<1>1. m \in Nat \ {0} /\ m - 1 > 0
  OBVIOUS
<1>. QED  BY <1>1, UsualBefore DEF UrlOk

(* A message that is no metadata says nothing of the media.                    *)
LEMMA SaidKept ==
  ASSUME NEW q, NEW m \in Nat \ {0}, NEW info, NEW device, SaidOk(q, info, device, m - 1),
         ~(q[m].type = "data" /\ IsMetaData(Doc(q, m)))
  PROVE  SaidOk(q, info, device, m)
<1>1. \A n : n \in MetasIn(q, m)
               <=> n \in MetasIn(q, m - 1) \/ (n = m /\ q[m].type = "data" /\ IsMetaData(Doc(q, m)))
  BY MetasGrow
<1>2. MetasIn(q, m) = MetasIn(q, m - 1)
  BY <1>1
<1>3. NamedIn(q, m) = NamedIn(q, m - 1)
  BY <1>2 DEF NamedIn
<1>. QED  BY <1>2, <1>3 DEF SaidOk, DeviceIn, InfoIn

(* The greatest number of a set that m belongs to.                             *)
LEMMA LastIs ==
  ASSUME NEW m \in Nat \ {0}, NEW S \in SUBSET (1..m), m \in S
  PROVE  Max(S) = m
<1>1. Max(S) \in S /\ \A n \in S : n <= Max(S)
  BY MaxIsGreatest
<1>2. Max(S) \in 1..m /\ m <= Max(S)
  BY <1>1
<1>. QED  BY <1>2

(* The encoder is that of the device.                                          *)
LEMMA EncoderIs ==
  ASSUME NEW q, NEW m, NEW info, NEW device, SaidOk(q, info, device, m)
  PROVE  info.encoder_type = EncoderTypeOf(DeviceIn(q, m))
<1>1. device = DeviceIn(q, m) /\ info = InfoIn(q, device, m)
  BY DEF SaidOk
<1>2. CASE MetasIn(q, m) = {}
  <2>1. NamedIn(q, m) = {}
    BY <1>2 DEF NamedIn
  <2>2. DeviceIn(q, m) = Empty
    BY <2>1 DEF DeviceIn
  <2>3. EncoderTypeOf(Empty) = "Custom"
    BY DEF EncoderTypeOf, Empty
  <2>4. info.encoder_type = "Custom"
    BY <1>1, <1>2 DEF InfoIn, NoMedia
  <2>. QED  BY <2>2, <2>3, <2>4
<1>3. CASE MetasIn(q, m) # {}
  <2>1. info = MediaInfo(ObjectIn(q, Max(MetasIn(q, m))), device)
    BY <1>1, <1>3 DEF InfoIn
  <2>. QED  BY <1>1, <2>1 DEF MediaInfo
<1>. QED  BY <1>2, <1>3

(* The device is the one the object names, and otherwise the one before.       *)
LEMMA DeviceNamed ==
  ASSUME NEW object, NEW device
  PROVE  /\ NamesDevice(object) => DeviceOf(object, device) = DeviceOf(object, Empty)
         /\ ~NamesDevice(object) => DeviceOf(object, device) = device
BY Zenon DEF NamesDevice, DeviceOf, Get

(* One that is metadata says it all, but for the device it may not name.       *)
LEMMA SaidNow ==
  ASSUME NEW q, NEW m \in Nat \ {0}, q[m].type = "data", IsMetaData(Doc(q, m)),
         NEW info, NEW device, SaidOk(q, info, device, m - 1)
  PROVE  LET named == DeviceOf(ObjectIn(q, m), device)
         IN  SaidOk(q, MediaInfo(ObjectIn(q, m), named), named, m)
<1>. DEFINE M == MetasIn(q, m)
            N == NamedIn(q, m)
            object == ObjectIn(q, m)
            named == DeviceOf(object, device)
<1>1. \A n : n \in MetasIn(q, m)
               <=> n \in MetasIn(q, m - 1) \/ (n = m /\ q[m].type = "data" /\ IsMetaData(Doc(q, m)))
  BY MetasGrow
<1>2. m \in M /\ M \in SUBSET (1..m) /\ M # {}
  BY <1>1 DEF MetasIn
<1>3. Max(M) = m
  <2>. HIDE DEF M
  <2>. QED  BY <1>2, LastIs
<1>4. InfoIn(q, named, m) = MediaInfo(object, named)
  BY <1>2, <1>3 DEF InfoIn
<1>5. device = DeviceIn(q, m - 1)
  BY DEF SaidOk
<1>6. CASE NamesDevice(object)
  <2>1. m \in N /\ N \in SUBSET (1..m) /\ N # {}
    BY <1>2, <1>6 DEF NamedIn
  <2>2. Max(N) = m
    <3>. HIDE DEF N
    <3>. QED  BY <2>1, LastIs
  <2>3. DeviceIn(q, m) = DeviceOf(object, Empty)
    BY <2>1, <2>2 DEF DeviceIn
  <2>4. DeviceIn(q, m) = named
    BY <1>6, <2>3, DeviceNamed
  <2>. QED  BY <1>4, <2>4 DEF SaidOk
<1>7. CASE ~NamesDevice(object)
  <2>1. NamedIn(q, m) = NamedIn(q, m - 1)
    BY <1>1, <1>7 DEF NamedIn
  <2>2. named = device
    BY <1>7, DeviceNamed
  <2>3. DeviceIn(q, m) = named
    BY <1>5, <2>1, <2>2 DEF DeviceIn
  <2>. QED  BY <1>4, <2>3 DEF SaidOk
<1>. QED  BY <1>6, <1>7

(* Only the first media message makes tracks.                                  *)
LEMMA TracksKept ==
  ASSUME NEW q, NEW m \in Nat \ {0}, NEW published, NEW tracks,
         TracksOk(q, published, tracks, m - 1), q[m].type # "media" \/ published
  PROVE  TracksOk(q, published, tracks, m)
<1>. DEFINE A == MediaIn(q, m - 1)
            B == MediaIn(q, m)
<1>1. \A n : n \in B <=> n \in A \/ (n = m /\ q[m].type = "media")
  BY MediaGrow
<1>2. A \in SUBSET (1..m - 1) /\ B \in SUBSET (1..m) /\ m - 1 \in Nat
  BY SetsAreNumbers
<1>3. /\ published <=> A # {}
      /\ ~published => tracks = NoTracks
      /\ published => tracks = TracksIn(q, q[Min(A)].kinds, Min(A))
  BY DEF TracksOk
<1>. HIDE DEF A, B
<1>4. CASE A = {}
  <2>1. B = {}
    BY <1>1, <1>3, <1>4
  <2>. QED  BY <1>3, <1>4, <2>1 DEF TracksOk, B
<1>5. CASE A # {}
  <2>1. A \subseteq B /\ \A n \in B : n \in A \/ n = m
    BY <1>1
  <2>2. B # {} /\ Min(B) = Min(A)
    BY <1>2, <1>5, <2>1, LeastStays
  <2>. QED  BY <1>3, <1>5, <2>2 DEF TracksOk, B
<1>. QED  BY <1>4, <1>5

(* What the tracks are made of is what the metadata describes.                 *)
LEMMA DescribedIs ==
  ASSUME NEW kinds, NEW object, NEW device
  PROVE  TracksOf(kinds, MediaInfo(object, device)) = [kind \in kinds |-> Described(kind, object)]
<1>. DEFINE info == MediaInfo(object, device)
<1>1. VideoTrack(info) = Described("video", object)
  BY DEF MediaInfo, VideoTrack, Described
<1>2. \A kind : kind # "video" => AudioTrack(info) = Described(kind, object)
  BY DEF MediaInfo, AudioTrack, Described
<1>. HIDE DEF info
<1>3. \A kind \in kinds : (IF kind = "video" THEN VideoTrack(info) ELSE AudioTrack(info))
                            = Described(kind, object)
  BY <1>1, <1>2
<1>. QED  BY <1>3 DEF TracksOf, info

(* The first one makes them of what has been said until then.                  *)
LEMMA TracksMade ==
  ASSUME NEW q, NEW m \in Nat \ {0}, NEW old, TracksOk(q, FALSE, old, m - 1),
         q[m].type = "media", NEW info, NEW device, SaidOk(q, info, device, m)
  PROVE  TracksOk(q, TRUE, TracksOf(q[m].kinds, info), m)
<1>. DEFINE A == MediaIn(q, m - 1)
            B == MediaIn(q, m)
            tracks == TracksOf(q[m].kinds, info)
<1>1. \A n : n \in B <=> n \in A \/ (n = m /\ q[m].type = "media")
  BY MediaGrow
<1>2. A = {} /\ B \in SUBSET (1..m)
  BY SetsAreNumbers DEF TracksOk
<1>3. tracks = TracksIn(q, q[m].kinds, m)
  <2>1. info = InfoIn(q, device, m)
    BY DEF SaidOk
  <2>. QED  BY <2>1, DescribedIs DEF InfoIn, TracksIn
<1>. HIDE DEF A, B, tracks
<1>4. B = {m} /\ B # {}
  BY <1>1, <1>2
<1>5. Min(B) = m
  BY <1>2, <1>4, MinIsLeast
<1>6. TracksOk(q, TRUE, tracks, m)
  BY <1>3, <1>4, <1>5 DEF TracksOk, B
<1>. QED  BY <1>6 DEF tracks

(* Only a window the client announces changes it.                              *)
LEMMA WindowKept ==
  ASSUME NEW q, NEW m \in Nat \ {0}, ~(q[m].type = "window" /\ q[m].value # 0)
  PROVE  WindowIn(q, m) = WindowIn(q, m - 1)
<1>1. \A n : n \in WindowsIn(q, m)
               <=> n \in WindowsIn(q, m - 1) \/ (n = m /\ q[m].type = "window" /\ q[m].value # 0)
  BY WindowsGrow
<1>2. WindowsIn(q, m) = WindowsIn(q, m - 1)
  BY <1>1
<1>. QED  BY <1>2 DEF WindowIn

(* The one announced last is in force.                                         *)
LEMMA WindowNow ==
  ASSUME NEW q, NEW m \in Nat \ {0}, q[m].type = "window", q[m].value # 0
  PROVE  WindowIn(q, m) = q[m].value
<1>. DEFINE W == WindowsIn(q, m)
<1>1. \A n : n \in WindowsIn(q, m)
               <=> n \in WindowsIn(q, m - 1) \/ (n = m /\ q[m].type = "window" /\ q[m].value # 0)
  BY WindowsGrow
<1>2. m \in W /\ W \in SUBSET (1..m) /\ W # {}
  BY <1>1, SetsAreNumbers
<1>. HIDE DEF W
<1>3. Max(W) \in W /\ \A n \in W : n <= Max(W)
  BY <1>2, MaxIsGreatest
<1>4. Max(W) = m
  <2>1. Max(W) \in 1..m /\ m <= Max(W)
    BY <1>2, <1>3
  <2>. QED  BY <2>1
<1>. QED  BY <1>2, <1>4 DEF WindowIn, W

-----------------------------------------------------------------------------
(* The commands: s is what was sent before message m, t what is sent after.    *)

(* A message has one name.                                                     *)
LEMMA OneName ==
  ASSUME NEW q, NEW n, NEW name1, Is(q, n, name1), NEW name2, Is(q, n, name2)
  PROVE  name1 = name2
BY ValuesAre DEF Is

(* Several messages are sent one by one.                                       *)
LEMMA TwoSent ==
  ASSUME NEW s, SentOk(s), NEW x, NEW y
  PROVE  s \o <<x, y>> = Append(Append(s, x), y)
<1>1. s \in Seq(Range(s) \cup {x, y})
  BY SeqMonotonic DEF SentOk
<1>. QED  BY <1>1

(* Four of them.                                                               *)
LEMMA FourSent ==
  ASSUME NEW s, SentOk(s), NEW v, NEW w, NEW x, NEW y
  PROVE  s \o <<v, w, x, y>> = Append(Append(Append(Append(s, v), w), x), y)
<1>1. s \in Seq(Range(s) \cup {v, w, x, y})
  BY SeqMonotonic DEF SentOk
<1>. QED  BY <1>1

Dialogue(q, s, name, url, m) ==
  /\ SentOk(s)
  /\ ResultsOk(q, s, m) /\ StatusesOk(q, s, m)
  /\ NameOk(q, name, m) /\ UrlOk(q, url, m)

(* What is neither an answer to a call nor an acknowledgement changes nothing. *)
LEMMA SentBetween ==
  ASSUME NEW s, SentOk(s), NEW x, x.value \in Nat, x.type # "acknowledgement",
         x.type # "command" \/ IsNamed(DecodeAmf(x.body), "onFCPublish"), NEW q, NEW m
  PROVE  LET t == Append(s, x)
         IN  /\ SentOk(t) /\ SumOf(t) = SumOf(s)
             /\ ResultsOk(q, s, m) => ResultsOk(q, t, m)
             /\ StatusesOk(q, s, m) => StatusesOk(q, t, m)
<1>1. ~IsAnswer(x, "_result") /\ ~IsAnswer(x, "onStatus")
  BY DEF IsAnswer, IsNamed
<1>2. Acknowledges(x) = 0
  BY DEF Acknowledges
<1>3. SumOf(Append(s, x)) = SumOf(s)
  BY <1>2, SumGrows
<1>. QED  BY <1>1, <1>3, SentGrows, ResultsStay, StatusesStay

(* What is sent with every connect, and before the status of a publish.        *)
LEMMA ServerMessages ==
  /\ SendWindowAcknowledgementSize.value \in Nat
  /\ SendWindowAcknowledgementSize.type = "window_acknowledgement_size"
  /\ SendSetPeerBandwidth.value \in Nat /\ SendSetPeerBandwidth.type = "set_peer_bandwidth"
  /\ SendStreamBegin.value \in Nat /\ SendStreamBegin.type = "stream_begin"
BY DialogueAssumption
   DEF SendWindowAcknowledgementSize, SendSetPeerBandwidth, SendStreamBegin, Sent, _rtmp_stream_id

(* An answer of the server: a command on its chunk stream.                     *)
LEMMA AmfSent ==
  ASSUME NEW csid, NEW stream_id, NEW document
  PROVE  LET x == SendAmfCommand(csid, stream_id, document)
         IN  /\ x.value \in Nat /\ x.type = "command" /\ x.csid = csid
             /\ x.body = EncodeAmf(document)
BY DEF SendAmfCommand, Sent

(* The URL of a usual client after a connect.                                  *)
LEMMA UrlNow ==
  ASSUME NEW q, NEW m \in Nat \ {0}, Is(q, m, "connect"), NEW url
  PROVE  UrlOk(q, Get(ObjectOf(Doc(q, m)), "tcUrl", "String", url), m)
<1>. DEFINE object == ObjectOf(Doc(q, m))
<1>1. SUFFICES ASSUME Usual(q, m) PROVE Get(object, "tcUrl", "String", url) = "app"
  BY DEF UrlOk
<1>2. Get(object, "tcUrl", "String", Empty) = "app"
  BY <1>1, UsualBefore
<1>3. "app" # Empty
  BY Zenon DEF Empty
<1>. HIDE DEF object
<1>. QED  BY <1>2, <1>3, Zenon DEF Get

(* A message that asks for no name changes none.                               *)
LEMMA NameKept ==
  ASSUME NEW q, NEW m \in Nat \ {0}, NEW name, NEW url,
         NameOk(q, name, m - 1), UrlOk(q, url, m - 1), ~Asks(q, m)
  PROVE  NameOk(q, name, m)
<1>. DEFINE new == IF name = Empty /\ Asks(q, m)
                   THEN IF url = "app" THEN NameIn(q, m) ELSE Empty ELSE name
<1>1. new = name
  OBVIOUS
<1>2. NameOk(q, new, m)
  BY NameGrows
<1>. HIDE DEF new
<1>. QED  BY <1>1, <1>2

(* connect: window, bandwidth, stream begin and the result.                    *)
LEMMA ConnectHandled ==
  ASSUME NEW q, NEW m \in 1..MaxMessages, q[m] \in Requests \cup Connects,
         Is(q, m, "connect"),
         NEW s, NEW name, NEW url, Dialogue(q, s, name, url, m - 1)
  PROVE  LET t == s \o <<SendWindowAcknowledgementSize, SendSetPeerBandwidth, SendStreamBegin,
                         SendAmfConnectResult(Csid(m), m, ObjectEncoding(Doc(q, m)))>>
         IN  /\ Dialogue(q, t, name, Get(ObjectOf(Doc(q, m)), "tcUrl", "String", url), m)
             /\ SumOf(t) = SumOf(s)
<1>. DEFINE encoding == ObjectEncoding(Doc(q, m))
            answer == ConnectResult(m, encoding)
            x == SendAmfConnectResult(Csid(m), m, encoding)
            s1 == Append(s, SendWindowAcknowledgementSize)
            s2 == Append(s1, SendSetPeerBandwidth)
            s3 == Append(s2, SendStreamBegin)
            t == Append(s3, x)
<1>1. m \in Nat \ {0}
  <2>1. MaxMessages \in Nat
    BY DialogueAssumption
  <2>. QED  BY <2>1
<1>2. SentOk(s) /\ ResultsOk(q, s, m - 1) /\ StatusesOk(q, s, m - 1)
  BY DEF Dialogue
<1>3. NameOk(q, name, m - 1) /\ UrlOk(q, url, m - 1)
  BY DEF Dialogue
<1>4. /\ x.value \in Nat /\ x.type = "command" /\ x.csid = Csid(m)
      /\ x.body = EncodeAmf(answer)
  BY AmfSent DEF SendAmfConnectResult
<1>5. DecodeAmf(x.body) = answer
  BY <1>4, AnswersDecoded DEF Doc
<1>6. /\ \A n : IsNamed(answer, n) <=> n = "_result"
      /\ Len(answer) = 4 /\ answer[2] = Number(m)
      /\ Get(InfoOf(answer), "objectEncoding", "Number", -1) = encoding
      /\ FindName(Get(InfoOf(answer), "data", "Array", <<>>), "version") = 1
  BY ConnectResultIs
<1>7. ~Is(q, m, "createStream") /\ ~Is(q, m, "publish") /\ ~Is(q, m, "FCPublish")
  BY OneName
<1>8. /\ SentOk(s1) /\ SumOf(s1) = SumOf(s)
      /\ ResultsOk(q, s1, m - 1) /\ StatusesOk(q, s1, m - 1)
  BY <1>2, ServerMessages, SentBetween
<1>. HIDE DEF s1, x, answer
<1>9. /\ SentOk(s2) /\ SumOf(s2) = SumOf(s)
      /\ ResultsOk(q, s2, m - 1) /\ StatusesOk(q, s2, m - 1)
  BY <1>8, ServerMessages, SentBetween
<1>. HIDE DEF s2
<1>10. /\ SentOk(s3) /\ SumOf(s3) = SumOf(s)
       /\ ResultsOk(q, s3, m - 1) /\ StatusesOk(q, s3, m - 1)
  BY <1>9, ServerMessages, SentBetween
<1>. HIDE DEF s3
<1>11. ResultOf(q, answer, m)
  BY <1>6, <1>7 DEF ResultOf
<1>12. ResultsOk(q, t, m)
  BY <1>4, <1>5, <1>6, <1>10, <1>11, ResultAdded
<1>13. SentOk(t) /\ SumOf(t) = SumOf(s)
  <2>1. Acknowledges(x) = 0
    BY <1>4 DEF Acknowledges
  <2>. QED  BY <1>4, <1>10, <2>1, SentGrows, SumGrows
<1>14. StatusesOk(q, t, m)
  <2>1. StatusesOk(q, s3, m)
    BY <1>1, <1>7, <1>10, StatusesKept
  <2>2. ~IsAnswer(x, "onStatus")
    BY <1>5, <1>6 DEF IsAnswer
  <2>. QED  BY <1>4, <1>10, <2>1, <2>2, StatusesStay
<1>15. NameOk(q, name, m) /\ UrlOk(q, Get(ObjectOf(Doc(q, m)), "tcUrl", "String", url), m)
  BY <1>1, <1>3, <1>7, NameKept, UrlNow DEF Asks
<1>16. Dialogue(q, t, name, Get(ObjectOf(Doc(q, m)), "tcUrl", "String", url), m)
  BY <1>12, <1>13, <1>14, <1>15 DEF Dialogue
<1>17. t = s \o <<SendWindowAcknowledgementSize, SendSetPeerBandwidth, SendStreamBegin, x>>
  BY <1>2, FourSent DEF s1, s2, s3
<1>. HIDE DEF t
<1>. QED  BY <1>13, <1>16, <1>17 DEF x

(* createStream: the result.                                                   *)
LEMMA CreateStreamHandled ==
  ASSUME NEW q, NEW m \in 1..MaxMessages, m > 1, Is(q, m, "createStream"),
         NEW s, NEW name, NEW url, Dialogue(q, s, name, url, m - 1)
  PROVE  LET t == Append(s, SendAmfCreateStreamResult(Csid(m), m))
         IN  Dialogue(q, t, name, url, m) /\ SumOf(t) = SumOf(s)
<1>. DEFINE answer == CreateStreamResult(m)
            x == SendAmfCreateStreamResult(Csid(m), m)
            t == Append(s, x)
<1>1. m \in Nat \ {0}
  <2>1. MaxMessages \in Nat
    BY DialogueAssumption
  <2>. QED  BY <2>1
<1>2. SentOk(s) /\ ResultsOk(q, s, m - 1) /\ StatusesOk(q, s, m - 1)
  BY DEF Dialogue
<1>3. NameOk(q, name, m - 1) /\ UrlOk(q, url, m - 1)
  BY DEF Dialogue
<1>4. /\ x.value \in Nat /\ x.type = "command" /\ x.csid = Csid(m)
      /\ x.body = EncodeAmf(answer)
  BY AmfSent DEF SendAmfCreateStreamResult
<1>5. DecodeAmf(x.body) = answer
  BY <1>4, AnswersDecoded
<1>6. /\ \A n : IsNamed(answer, n) <=> n = "_result"
      /\ Len(answer) = 4 /\ answer[2] = Number(m) /\ answer[4] = Number(_rtmp_stream_id)
  BY CreateStreamResultIs
<1>7. ~Is(q, m, "connect") /\ ~Is(q, m, "publish") /\ ~Is(q, m, "FCPublish")
  BY OneName
<1>. HIDE DEF x, answer
<1>8. ResultOf(q, answer, m)
  BY <1>6, <1>7 DEF ResultOf
<1>9. ResultsOk(q, t, m)
  BY <1>2, <1>4, <1>5, <1>6, <1>8, ResultAdded
<1>10. SentOk(t) /\ SumOf(t) = SumOf(s)
  <2>1. Acknowledges(x) = 0
    BY <1>4 DEF Acknowledges
  <2>. QED  BY <1>2, <1>4, <2>1, SentGrows, SumGrows
<1>11. StatusesOk(q, t, m)
  <2>1. StatusesOk(q, s, m)
    BY <1>1, <1>2, <1>7, StatusesKept
  <2>2. ~IsAnswer(x, "onStatus")
    BY <1>5, <1>6 DEF IsAnswer
  <2>. QED  BY <1>2, <1>4, <2>1, <2>2, StatusesStay
<1>12. NameOk(q, name, m) /\ UrlOk(q, url, m)
  BY <1>1, <1>3, <1>7, NameKept, UrlKept DEF Asks
<1>. HIDE DEF t
<1>. QED  BY <1>9, <1>10, <1>11, <1>12 DEF Dialogue, t, x

(* The name after FCPublish or publish, as the handlers set it.                *)
NameAfter(q, name, url, m) ==
  IF name = Empty /\ Gives(Doc(q, m))
  THEN IF url = "app" THEN NameIn(q, m) ELSE Empty ELSE name

(* FCPublish: an answer, or none.                                              *)
LEMMA FCPublishHandled ==
  ASSUME NEW q, NEW m \in 1..MaxMessages, m > 1, Is(q, m, "FCPublish"),
         NEW s, NEW name, NEW url, Dialogue(q, s, name, url, m - 1)
  PROVE  /\ Dialogue(q, s, NameAfter(q, name, url, m), url, m)
         /\ LET t == Append(s, SendAmfOnFCPublish(Csid(m)))
            IN  Dialogue(q, t, NameAfter(q, name, url, m), url, m) /\ SumOf(t) = SumOf(s)
<1>. DEFINE answer == Status("onFCPublish", "Start")
            x == SendAmfOnFCPublish(Csid(m))
            t == Append(s, x)
            new == NameAfter(q, name, url, m)
<1>1. m \in Nat \ {0}
  <2>1. MaxMessages \in Nat
    BY DialogueAssumption
  <2>. QED  BY <2>1
<1>2. SentOk(s) /\ ResultsOk(q, s, m - 1) /\ StatusesOk(q, s, m - 1)
  BY DEF Dialogue
<1>3. NameOk(q, name, m - 1) /\ UrlOk(q, url, m - 1)
  BY DEF Dialogue
<1>4. x.value \in Nat /\ x.type = "command" /\ x.body = EncodeAmf(answer)
  BY AmfSent DEF SendAmfOnFCPublish
<1>5. DecodeAmf(x.body) = answer
  BY <1>4, AnswersDecoded
<1>6. IsNamed(answer, "onFCPublish")
  BY StatusIs
<1>7. ~Is(q, m, "connect") /\ ~Is(q, m, "createStream") /\ ~Is(q, m, "publish")
  BY OneName
<1>. HIDE DEF x, answer
<1>8. ResultsOk(q, s, m) /\ StatusesOk(q, s, m)
  BY <1>1, <1>2, <1>7, ResultsKept, StatusesKept
<1>9. /\ SentOk(t) /\ SumOf(t) = SumOf(s)
      /\ ResultsOk(q, t, m) /\ StatusesOk(q, t, m)
  BY <1>2, <1>4, <1>5, <1>6, <1>8, SentBetween
<1>10. NameOk(q, new, m) /\ UrlOk(q, url, m)
  <2>1. Asks(q, m) <=> Gives(Doc(q, m))
    BY DEF Asks
  <2>2. NameOk(q, IF name = Empty /\ Asks(q, m)
                  THEN IF url = "app" THEN NameIn(q, m) ELSE Empty ELSE name, m)
    BY <1>1, <1>3, NameGrows
  <2>. QED  BY <1>1, <1>3, <2>1, <2>2, UrlKept DEF NameAfter
<1>. HIDE DEF t, new
<1>11. Dialogue(q, s, new, url, m) /\ Dialogue(q, t, new, url, m)
  BY <1>2, <1>8, <1>9, <1>10 DEF Dialogue
<1>. QED  BY <1>9, <1>11 DEF t, x, new

(* A stream that has a name, of a usual client, is one that was asked for.     *)
LEMMA NamedWhenAsked ==
  ASSUME NEW q, NEW m \in Nat, Usual(q, m), NEW name, NameOk(q, name, m)
  PROVE  name # Empty <=> AskedIn(q, m) # {}
<1>. DEFINE A == AskedIn(q, m)
<1>1. name = IF A = {} THEN Empty ELSE NameIn(q, Min(A))
  BY DEF NameOk
<1>2. \A n \in A : NameIn(q, n) # Empty
  BY DEF Usual
<1>3. A \in SUBSET (1..m)
  BY SetsAreNumbers
<1>. HIDE DEF A
<1>4. A # {} => Min(A) \in A
  BY <1>3, MinIsLeast
<1>. QED  BY <1>1, <1>2, <1>4 DEF A

(* publish: the status, which follows a stream begin if it may start.          *)
LEMMA PublishHandled ==
  ASSUME NEW q, NEW m \in 1..MaxMessages, m > 1, Is(q, m, "publish"),
         NEW s, NEW name, NEW url, Dialogue(q, s, name, url, m - 1)
  PROVE  /\ name = Empty /\ ~Gives(Doc(q, m)) =>
              LET t == Append(s, SendAmfOnStatus(Csid(m), "Rejected"))
              IN  Dialogue(q, t, name, url, m) /\ SumOf(t) = SumOf(s)
         /\ ~(name = Empty /\ ~Gives(Doc(q, m))) =>
              LET t == s \o <<SendStreamBegin, SendAmfOnStatus(Csid(m), "Start")>>
              IN  Dialogue(q, t, NameAfter(q, name, url, m), url, m) /\ SumOf(t) = SumOf(s)
<1>. DEFINE new == NameAfter(q, name, url, m)
            rejected == name = Empty /\ ~Gives(Doc(q, m))
<1>1. m \in Nat \ {0}
  <2>1. MaxMessages \in Nat
    BY DialogueAssumption
  <2>. QED  BY <2>1
<1>2. SentOk(s) /\ ResultsOk(q, s, m - 1) /\ StatusesOk(q, s, m - 1)
  BY DEF Dialogue
<1>3. NameOk(q, name, m - 1) /\ UrlOk(q, url, m - 1)
  BY DEF Dialogue
<1>4. ~Is(q, m, "connect") /\ ~Is(q, m, "createStream") /\ ~Is(q, m, "FCPublish")
  BY OneName
<1>5. Asks(q, m) <=> Gives(Doc(q, m))
  BY DEF Asks
<1>6. NameOk(q, new, m) /\ UrlOk(q, url, m)
  <2>1. NameOk(q, IF name = Empty /\ Asks(q, m)
                  THEN IF url = "app" THEN NameIn(q, m) ELSE Empty ELSE name, m)
    BY <1>1, <1>3, NameGrows
  <2>. QED  BY <1>1, <1>3, <1>5, <2>1, UrlKept DEF NameAfter
<1>7. Usual(q, m) => (rejected <=> AskedIn(q, m) = {})
  <2>1. SUFFICES ASSUME Usual(q, m) PROVE rejected <=> AskedIn(q, m) = {}
    OBVIOUS
  <2>2. Usual(q, m - 1) /\ m - 1 \in Nat
    BY <1>1, <2>1, UsualBefore
  <2>3. name # Empty <=> AskedIn(q, m - 1) # {}
    BY <1>3, <2>2, NamedWhenAsked
  <2>4. \A n : n \in AskedIn(q, m) <=> n \in AskedIn(q, m - 1) \/ (n = m /\ Asks(q, m))
    BY <1>1, AskedGrow
  <2>. QED  BY <1>5, <2>3, <2>4
<1>8. ASSUME NEW code \in {"Start", "Rejected"}, code = "Start" <=> ~rejected
      PROVE  StatusOf(q, Status("onStatus", code), m, m)
  <2>1. Get(InfoOf(Status("onStatus", code)), "code", "String", Empty) = code
    BY StatusIs
  <2>2. \A k \in AskedIn(q, m) : k <= m
    <3>1. AskedIn(q, m) \in SUBSET (1..m)
      BY <1>1, SetsAreNumbers
    <3>. QED  BY <1>1, <3>1
  <2>3. Usual(q, m) => (code = "Start" <=> \E k \in AskedIn(q, m) : k <= m)
    BY <1>7, <1>8, <2>2
  <2>. QED  BY <1>8, <2>1, <2>3 DEF StatusOf
<1>9. ASSUME NEW code \in {"Start", "Rejected"}, code = "Start" <=> ~rejected,
             NEW u, SentOk(u), SumOf(u) = SumOf(s),
             ResultsOk(q, u, m - 1), StatusesOk(q, u, m - 1)
      PROVE  LET t == Append(u, SendAmfOnStatus(Csid(m), code))
             IN  /\ SentOk(t) /\ SumOf(t) = SumOf(s)
                 /\ ResultsOk(q, t, m) /\ StatusesOk(q, t, m)
  <2>. DEFINE answer == Status("onStatus", code)
              x == SendAmfOnStatus(Csid(m), code)
              t == Append(u, x)
  <2>1. /\ x.value \in Nat /\ x.type = "command" /\ x.csid = Csid(m)
        /\ x.body = EncodeAmf(answer)
    BY AmfSent DEF SendAmfOnStatus
  <2>2. DecodeAmf(x.body) = answer
    BY <2>1, AnswersDecoded
  <2>3. \A n : IsNamed(answer, n) <=> n = "onStatus"
    BY StatusIs
  <2>4. StatusOf(q, answer, m, m)
    BY <1>8, <1>9
  <2>. HIDE DEF x, answer
  <2>5. StatusesOk(q, t, m)
    BY <1>9, <2>1, <2>2, <2>3, <2>4, StatusAdded
  <2>6. ResultsOk(q, t, m)
    <3>1. ResultsOk(q, u, m)
      BY <1>1, <1>4, <1>9, ResultsKept
    <3>2. ~IsAnswer(x, "_result")
      BY <2>2, <2>3 DEF IsAnswer
    <3>. QED  BY <1>9, <2>1, <3>1, <3>2, ResultsStay
  <2>7. SentOk(t) /\ SumOf(t) = SumOf(s)
    <3>1. Acknowledges(x) = 0
      BY <2>1 DEF Acknowledges
    <3>. QED  BY <1>9, <2>1, <3>1, SentGrows, SumGrows
  <2>. HIDE DEF t
  <2>. QED  BY <2>5, <2>6, <2>7 DEF t, x
<1>. HIDE DEF rejected
<1>10. ASSUME rejected
       PROVE  LET t == Append(s, SendAmfOnStatus(Csid(m), "Rejected"))
              IN  Dialogue(q, t, name, url, m) /\ SumOf(t) = SumOf(s)
  <2>. DEFINE t == Append(s, SendAmfOnStatus(Csid(m), "Rejected"))
  <2>1. /\ SentOk(t) /\ SumOf(t) = SumOf(s)
        /\ ResultsOk(q, t, m) /\ StatusesOk(q, t, m)
    BY <1>2, <1>9, <1>10
  <2>2. new = name
    BY <1>10 DEF rejected, NameAfter
  <2>. HIDE DEF t, new
  <2>3. Dialogue(q, t, name, url, m)
    BY <1>6, <2>1, <2>2 DEF Dialogue
  <2>. QED  BY <2>1, <2>3 DEF t
<1>11. ASSUME ~rejected
       PROVE  LET t == s \o <<SendStreamBegin, SendAmfOnStatus(Csid(m), "Start")>>
              IN  Dialogue(q, t, new, url, m) /\ SumOf(t) = SumOf(s)
  <2>. DEFINE s1 == Append(s, SendStreamBegin)
              t == Append(s1, SendAmfOnStatus(Csid(m), "Start"))
  <2>1. /\ SentOk(s1) /\ SumOf(s1) = SumOf(s)
        /\ ResultsOk(q, s1, m - 1) /\ StatusesOk(q, s1, m - 1)
    BY <1>2, ServerMessages, SentBetween
  <2>. HIDE DEF s1
  <2>2. /\ SentOk(t) /\ SumOf(t) = SumOf(s)
        /\ ResultsOk(q, t, m) /\ StatusesOk(q, t, m)
    BY <1>9, <1>11, <2>1
  <2>3. t = s \o <<SendStreamBegin, SendAmfOnStatus(Csid(m), "Start")>>
    BY <1>2, TwoSent DEF s1
  <2>. HIDE DEF t, new
  <2>4. Dialogue(q, t, new, url, m)
    BY <1>6, <2>2 DEF Dialogue
  <2>. QED  BY <2>2, <2>3, <2>4
<1>. QED  BY <1>10, <1>11 DEF rejected

(* A message that is none of the four calls.                                   *)
LEMMA NothingHandled ==
  ASSUME NEW q, NEW m \in Nat, m > 1, \A name \in CallNames : ~Is(q, m, name),
         NEW s, NEW name, NEW url, Dialogue(q, s, name, url, m - 1)
  PROVE  Dialogue(q, s, name, url, m)
<1>1. m \in Nat \ {0}
  OBVIOUS
<1>2. /\ ~Is(q, m, "connect") /\ ~Is(q, m, "createStream")
      /\ ~Is(q, m, "FCPublish") /\ ~Is(q, m, "publish")
  BY DEF CallNames
<1>. QED  BY <1>1, <1>2, ResultsKept, StatusesKept, NameKept, UrlKept DEF Dialogue, Asks

-----------------------------------------------------------------------------
(* The inductive invariant: what the state is made of, what has been counted,  *)
(* and, as long as no call has failed, what is said of the messages handled so *)
(* far by the answers, the name, the metadata, the tracks and the window.      *)

(* How many messages have been handled.                                        *)
Handled == IF next = 0 THEN cut ELSE next - 1

Shape ==
  /\ IsStream(stream)
  /\ cut \in 0..Len(stream) /\ next \in {0} \cup (cut + 1)..(Len(stream) + 1)
  /\ refused \in BOOLEAN /\ published_ \in BOOLEAN
  /\ _acknowledgement_size \in Nat /\ _acknowledgement_traffic \in Nat
  /\ SentOk(sent)

NoWindow(q) == \A n \in 1..Len(q) : q[n].type # "window"

Counted ==
  /\ SumOf(sent) + _acknowledgement_traffic <= cut
  /\ NoWindow(stream) => SumOf(sent) + _acknowledgement_traffic = cut

MediaSaid(m) ==
  SaidOk(stream, _media_info, _device_string, m) /\ TracksOk(stream, published_, _tracks, m)

InTime(m) ==
  /\ _acknowledgement_size = WindowIn(stream, m) \div 2
  /\ next = 0 => 2 * _acknowledgement_traffic <= WindowIn(stream, m)

Right(m) == Dialogue(stream, sent, _stream_name, _tc_url, m) /\ MediaSaid(m) /\ InTime(m)

IInv == Shape /\ Counted /\ (~refused => Right(Handled))

(* The message in the handler.                                                 *)
LEMMA InHandler ==
  ASSUME Shape, NEW type, Handles(type)
  PROVE  /\ next \in 1..MaxMessages /\ next \in Nat \ {0} /\ next - 1 \in Nat
         /\ next \in 1..Len(stream) /\ Len(stream) \in Nat
         /\ Handled = next - 1 /\ next # 0
         /\ stream[next] \in Requests \cup Connects /\ stream[next].type = type
         /\ next = 1 => type = "command" /\ Is(stream, next, "connect")
<1>1. stream \in Seq(Requests \cup Connects) /\ Len(stream) <= MaxMessages
  BY DEF Shape, IsStream
<1>2. next \in 1..Len(stream) /\ stream[next].type = type /\ Len(stream) \in Nat
  BY <1>1 DEF Handles
<1>3. MaxMessages \in Nat
  BY DialogueAssumption
<1>4. next \in 1..MaxMessages /\ next \in Nat \ {0} /\ next - 1 \in Nat /\ next # 0
  BY <1>1, <1>2, <1>3
<1>5. Handled = next - 1
  BY <1>4 DEF Handled
<1>6. stream[next] \in Requests \cup Connects
  BY <1>1, <1>2
<1>7. ASSUME next = 1 PROVE type = "command" /\ Is(stream, next, "connect")
  <2>1. stream # <<>>
    BY <1>1, <1>2, EmptySeq
  <2>2. stream[next] \in Connects
    BY <1>7, <2>1 DEF Shape, IsStream
  <2>3. stream[next].type = "command" /\ Head(stream[next].document) = String("connect")
    BY <2>2, DialogueAssumption
  <2>. QED  BY <1>2, <2>3 DEF Is
<1>. QED  BY <1>2, <1>4, <1>5, <1>6, <1>7

(* Once it is accepted the next one is; that keeps the shape, whatever has     *)
(* been sent.                                                                  *)
LEMMA Accepted ==
  ASSUME Shape, NEW type, Handles(type), Accept, SentOk(sent'), published_' \in BOOLEAN,
         _acknowledgement_size' \in Nat, _acknowledgement_traffic' \in Nat
  PROVE  /\ Shape' /\ Handled' = next /\ next' # 0
         /\ stream' = stream /\ refused' = refused /\ cut' = cut
<1>1. /\ stream' = stream /\ refused' = refused /\ cut' = cut /\ next' = next + 1
  BY DEF Accept
<1>2. next \in 1..Len(stream) /\ Len(stream) \in Nat
  BY InHandler
<1>3. next' # 0 /\ Handled' = next
  <2>1. next' # 0 /\ next' - 1 = next
    BY <1>1, <1>2
  <2>. QED  BY <2>1 DEF Handled
<1>4. next' \in {0} \cup (cut' + 1)..(Len(stream') + 1)
  BY <1>1, <1>2 DEF Shape
<1>5. IsStream(stream')
  BY <1>1 DEF Shape
<1>6. cut' \in 0..Len(stream') /\ refused' \in BOOLEAN
  BY <1>1, Zenon DEF Shape
<1>7. Shape'
  BY <1>4, <1>5, <1>6 DEF Shape
<1>. QED  BY <1>1, <1>3, <1>7

(* The command in the handler, by its name, and what its handler does.         *)
LEMMA CommandCases ==
  ASSUME Shape, ReceiveAmfCommandMessage
  PROVE  LET d == Doc(stream, next)
         IN  \/ /\ Is(stream, next, "connect")
                /\ _tc_url' = Get(ObjectOf(d), "tcUrl", "String", _tc_url)
                /\ _stream_name' = _stream_name
                /\ sent' = sent \o
                     <<SendWindowAcknowledgementSize, SendSetPeerBandwidth, SendStreamBegin,
                       SendAmfConnectResult(Csid(next), next, ObjectEncoding(d))>>
             \/ /\ Is(stream, next, "createStream")
                /\ sent' = Append(sent, SendAmfCreateStreamResult(Csid(next), next))
                /\ _tc_url' = _tc_url /\ _stream_name' = _stream_name
             \/ /\ Is(stream, next, "FCPublish")
                /\ sent' = sent \/ sent' = Append(sent, SendAmfOnFCPublish(Csid(next)))
                /\ _tc_url' = _tc_url
                /\ _stream_name' = NameAfter(stream, _stream_name, _tc_url, next)
             \/ /\ Is(stream, next, "publish") /\ _stream_name = Empty /\ ~Gives(d)
                /\ sent' = Append(sent, SendAmfOnStatus(Csid(next), "Rejected"))
                /\ _tc_url' = _tc_url /\ _stream_name' = _stream_name
             \/ /\ Is(stream, next, "publish") /\ ~(_stream_name = Empty /\ ~Gives(d))
                /\ sent' = sent \o <<SendStreamBegin, SendAmfOnStatus(Csid(next), "Start")>>
                /\ _tc_url' = _tc_url
                /\ _stream_name' = NameAfter(stream, _stream_name, _tc_url, next)
             \/ /\ \A name \in CallNames : ~Is(stream, next, name)
                /\ sent' = sent /\ _tc_url' = _tc_url /\ _stream_name' = _stream_name
<1>. DEFINE d == Doc(stream, next)
            r == DecodeAmf(ClientAmf(d))
            message_name == IF IsType(r, 0, "String") THEN r[1].String ELSE Empty
            transaction_id == IF IsType(r, 1, "Number") THEN r[2].Number ELSE 0
<1>1. Handles("command")
  BY DEF ReceiveAmfCommandMessage
<1>2. /\ next \in 1..MaxMessages /\ stream[next] \in Requests \cup Connects
      /\ stream[next].type = "command"
  BY <1>1, InHandler
<1>3. /\ IsType(r, 0, "String") =>
           \A name : r[1].String = name <=> Head(stream[next].document) = String(name)
      /\ ~IsType(r, 0, "String") => \A name : Head(stream[next].document) # String(name)
      /\ IsType(r, 1, "Number") /\ r[2].Number = next
      /\ ObjectOf(r) = ObjectOf(d)
      /\ HasName(r) <=> Gives(d)
      /\ HasName(r) => r[4] = d[4]
  BY <1>2, CommandIs DEF Doc
<1>4. d = Document(next)
  BY DEF Doc, Document
<1>5. \/ message_name = "connect" /\ OnAmfConnect(r, transaction_id)
      \/ message_name = "createStream" /\ OnAmfCreateStream(transaction_id)
      \/ message_name = "FCPublish" /\ OnAmfFCPublish(r)
      \/ message_name = "publish" /\ OnAmfPublish(r)
      \/ /\ message_name \notin {"connect", "createStream", "FCPublish", "publish"}
         /\ UNCHANGED <<nameVars, sent>>
  BY <1>4, Zenon DEF ReceiveAmfCommandMessage
<1>6. transaction_id = next
  BY <1>3
<1>7. \A name \in CallNames : message_name = name <=> Is(stream, next, name)
  <2>1. SUFFICES ASSUME NEW name \in CallNames
                 PROVE  message_name = name <=> Is(stream, next, name)
    OBVIOUS
  <2>2. name # Empty
    BY Zenon DEF CallNames, Empty
  <2>3. Is(stream, next, name) <=> Head(stream[next].document) = String(name)
    BY <1>2 DEF Is
  <2>4. CASE IsType(r, 0, "String")
    BY <1>3, <2>3, <2>4
  <2>5. CASE ~IsType(r, 0, "String")
    BY <1>3, <2>2, <2>3, <2>5
  <2>. QED  BY <2>4, <2>5
<1>. HIDE DEF d, r, message_name, transaction_id
<1>8. CASE message_name = "connect" /\ OnAmfConnect(r, transaction_id)
  <2>1. Is(stream, next, "connect")
    BY <1>7, <1>8 DEF CallNames
  <2>2. ObjectEncoding(r) = ObjectEncoding(d)
    BY <1>3 DEF ObjectEncoding
  <2>. QED  BY <1>3, <1>6, <1>8, <2>1, <2>2 DEF OnAmfConnect, TcUrlOf, d
<1>9. CASE message_name = "createStream" /\ OnAmfCreateStream(transaction_id)
  <2>1. Is(stream, next, "createStream")
    BY <1>7, <1>9 DEF CallNames
  <2>. QED  BY <1>6, <1>9, <2>1 DEF OnAmfCreateStream, nameVars
<1>10. HasName(r) => StreamOf(r[4].String) = IF _tc_url = "app" THEN NameIn(stream, next) ELSE Empty
  BY <1>3 DEF StreamOf, NameIn, d
<1>11. CASE message_name = "FCPublish" /\ OnAmfFCPublish(r)
  <2>1. Is(stream, next, "FCPublish")
    BY <1>7, <1>11 DEF CallNames
  <2>2. _tc_url' = _tc_url /\ (sent' = sent \/ sent' = Append(sent, SendAmfOnFCPublish(Csid(next))))
    BY <1>11, Zenon DEF OnAmfFCPublish, nameVars
  <2>3. _stream_name' = IF _stream_name = Empty /\ HasName(r) THEN StreamOf(r[4].String) ELSE _stream_name
    BY <1>11, Zenon DEF OnAmfFCPublish, FCPublishNames, nameVars
  <2>4. _stream_name' = NameAfter(stream, _stream_name, _tc_url, next)
    BY <1>3, <1>10, <2>3 DEF NameAfter, d
  <2>. QED  BY <2>1, <2>2, <2>4
<1>12. CASE message_name = "publish" /\ OnAmfPublish(r)
  <2>1. Is(stream, next, "publish")
    BY <1>7, <1>12 DEF CallNames
  <2>2. CASE _stream_name = Empty /\ ~Gives(d)
    <3>1. RejectPublish
      BY <1>3, <1>12, <2>2, Zenon DEF OnAmfPublish
    <3>. QED  BY <2>1, <2>2, <3>1 DEF RejectPublish, nameVars, d
  <2>3. CASE ~(_stream_name = Empty /\ ~Gives(d))
    <3>1. /\ sent' = sent \o <<SendStreamBegin, SendAmfOnStatus(Csid(next), "Start")>>
          /\ _tc_url' = _tc_url
          /\ _stream_name' = IF _stream_name = Empty THEN StreamOf(r[4].String) ELSE _stream_name
      BY <1>3, <1>12, <2>3, Zenon DEF OnAmfPublish
    <3>2. _stream_name' = NameAfter(stream, _stream_name, _tc_url, next)
      BY <1>3, <1>10, <2>3, <3>1 DEF NameAfter, d
    <3>. QED  BY <2>1, <2>3, <3>1, <3>2 DEF d
  <2>. QED  BY <2>2, <2>3
<1>13. CASE /\ message_name \notin {"connect", "createStream", "FCPublish", "publish"}
            /\ UNCHANGED <<nameVars, sent>>
  <2>1. \A name \in CallNames : ~Is(stream, next, name)
    BY <1>7, <1>13 DEF CallNames
  <2>. QED  BY <1>13, <2>1 DEF nameVars
<1>. QED  BY <1>5, <1>8, <1>9, <1>11, <1>12, <1>13

(* A command sends no acknowledgement, whatever it is.                         *)
LEMMA CommandSends ==
  ASSUME Shape, ReceiveAmfCommandMessage
  PROVE  SentOk(sent') /\ SumOf(sent') = SumOf(sent)
<1>1. SentOk(sent)
  BY DEF Shape
<1>2. ASSUME NEW s, SentOk(s), NEW x, x.value \in Nat, x.type # "acknowledgement"
      PROVE  SentOk(Append(s, x)) /\ SumOf(Append(s, x)) = SumOf(s)
  <2>1. Acknowledges(x) = 0
    BY <1>2 DEF Acknowledges
  <2>. QED  BY <1>2, <2>1, SentGrows, SumGrows
<1>3. ASSUME NEW csid, NEW stream_id, NEW document
      PROVE  LET x == SendAmfCommand(csid, stream_id, document)
             IN  x.value \in Nat /\ x.type # "acknowledgement"
  BY AmfSent
<1>4. \A n, e : LET x == SendAmfConnectResult(Csid(next), n, e)
                IN  x.value \in Nat /\ x.type # "acknowledgement"
  BY <1>3 DEF SendAmfConnectResult
<1>5. \A n : LET x == SendAmfCreateStreamResult(Csid(next), n)
             IN  x.value \in Nat /\ x.type # "acknowledgement"
  BY <1>3 DEF SendAmfCreateStreamResult
<1>6. LET x == SendAmfOnFCPublish(Csid(next)) IN x.value \in Nat /\ x.type # "acknowledgement"
  BY <1>3 DEF SendAmfOnFCPublish
<1>7. \A code : LET x == SendAmfOnStatus(Csid(next), code)
                IN  x.value \in Nat /\ x.type # "acknowledgement"
  BY <1>3 DEF SendAmfOnStatus
<1>8. ASSUME NEW x, x.value \in Nat, x.type # "acknowledgement",
             sent' = sent \o <<SendWindowAcknowledgementSize, SendSetPeerBandwidth, SendStreamBegin, x>>
      PROVE  SentOk(sent') /\ SumOf(sent') = SumOf(sent)
  <2>. DEFINE s1 == Append(sent, SendWindowAcknowledgementSize)
              s2 == Append(s1, SendSetPeerBandwidth)
              s3 == Append(s2, SendStreamBegin)
  <2>1. SentOk(s1) /\ SumOf(s1) = SumOf(sent)
    BY <1>1, <1>2, ServerMessages
  <2>2. sent' = Append(s3, x)
    BY <1>1, <1>8, FourSent
  <2>. HIDE DEF s1
  <2>3. SentOk(s2) /\ SumOf(s2) = SumOf(sent)
    BY <1>2, <2>1, ServerMessages
  <2>. HIDE DEF s2
  <2>4. SentOk(s3) /\ SumOf(s3) = SumOf(sent)
    BY <1>2, <2>3, ServerMessages
  <2>. HIDE DEF s3
  <2>. QED  BY <1>2, <1>8, <2>2, <2>4
<1>9. ASSUME NEW x, x.value \in Nat, x.type # "acknowledgement",
             sent' = sent \o <<SendStreamBegin, x>>
      PROVE  SentOk(sent') /\ SumOf(sent') = SumOf(sent)
  <2>. DEFINE s1 == Append(sent, SendStreamBegin)
  <2>1. SentOk(s1) /\ SumOf(s1) = SumOf(sent)
    BY <1>1, <1>2, ServerMessages
  <2>2. sent' = Append(s1, x)
    BY <1>1, <1>9, TwoSent
  <2>. HIDE DEF s1
  <2>. QED  BY <1>2, <1>9, <2>1, <2>2
<1>10. \/ \E e : sent' = sent \o <<SendWindowAcknowledgementSize, SendSetPeerBandwidth,
                                   SendStreamBegin, SendAmfConnectResult(Csid(next), next, e)>>
       \/ sent' = Append(sent, SendAmfCreateStreamResult(Csid(next), next))
       \/ sent' = Append(sent, SendAmfOnFCPublish(Csid(next)))
       \/ sent' = Append(sent, SendAmfOnStatus(Csid(next), "Rejected"))
       \/ sent' = sent \o <<SendStreamBegin, SendAmfOnStatus(Csid(next), "Start")>>
       \/ sent' = sent
  BY CommandCases, Zenon
<1>. QED  BY <1>1, <1>2, <1>4, <1>5, <1>6, <1>7, <1>8, <1>9, <1>10

(* And keeps the dialogue right.                                               *)
LEMMA CommandAnswers ==
  ASSUME Shape, ReceiveAmfCommandMessage,
         Dialogue(stream, sent, _stream_name, _tc_url, next - 1)
  PROVE  Dialogue(stream, sent', _stream_name', _tc_url', next)
<1>1. Handles("command")
  BY DEF ReceiveAmfCommandMessage
<1>2. /\ next \in 1..MaxMessages /\ stream[next] \in Requests \cup Connects
      /\ next \in Nat \ {0} /\ next = 1 => Is(stream, next, "connect")
  BY <1>1, InHandler
<1>3. ~Is(stream, next, "connect") => next > 1
  BY <1>2
<1>4. CASE Is(stream, next, "connect")
  <2>1. \A name \in CallNames : name # "connect" => ~Is(stream, next, name)
    BY <1>4, OneName
  <2>2. /\ _tc_url' = Get(ObjectOf(Doc(stream, next)), "tcUrl", "String", _tc_url)
        /\ _stream_name' = _stream_name
        /\ sent' = sent \o
             <<SendWindowAcknowledgementSize, SendSetPeerBandwidth, SendStreamBegin,
               SendAmfConnectResult(Csid(next), next, ObjectEncoding(Doc(stream, next)))>>
    BY <1>4, <2>1, CommandCases, Zenon DEF CallNames
  <2>. QED  BY <1>2, <1>4, <2>2, ConnectHandled
<1>5. CASE ~Is(stream, next, "connect")
  <2>1. next > 1
    BY <1>3, <1>5
  <2>2. CASE Is(stream, next, "createStream")
    <3>1. ~Is(stream, next, "FCPublish") /\ ~Is(stream, next, "publish")
      BY <2>2, OneName
    <3>2. /\ sent' = Append(sent, SendAmfCreateStreamResult(Csid(next), next))
          /\ _tc_url' = _tc_url /\ _stream_name' = _stream_name
      BY <1>5, <2>2, <3>1, CommandCases, Zenon DEF CallNames
    <3>. QED  BY <1>2, <2>1, <2>2, <3>2, CreateStreamHandled
  <2>3. CASE Is(stream, next, "FCPublish")
    <3>1. ~Is(stream, next, "createStream") /\ ~Is(stream, next, "publish")
      BY <2>3, OneName
    <3>2. /\ sent' = sent \/ sent' = Append(sent, SendAmfOnFCPublish(Csid(next)))
          /\ _tc_url' = _tc_url
          /\ _stream_name' = NameAfter(stream, _stream_name, _tc_url, next)
      BY <1>5, <2>3, <3>1, CommandCases, Zenon DEF CallNames
    <3>. QED  BY <1>2, <2>1, <2>3, <3>2, FCPublishHandled
  <2>4. CASE Is(stream, next, "publish")
    <3>1. ~Is(stream, next, "createStream") /\ ~Is(stream, next, "FCPublish")
      BY <2>4, OneName
    <3>2. \/ /\ _stream_name = Empty /\ ~Gives(Doc(stream, next))
             /\ sent' = Append(sent, SendAmfOnStatus(Csid(next), "Rejected"))
             /\ _tc_url' = _tc_url /\ _stream_name' = _stream_name
          \/ /\ ~(_stream_name = Empty /\ ~Gives(Doc(stream, next)))
             /\ sent' = sent \o <<SendStreamBegin, SendAmfOnStatus(Csid(next), "Start")>>
             /\ _tc_url' = _tc_url
             /\ _stream_name' = NameAfter(stream, _stream_name, _tc_url, next)
      BY <1>5, <2>4, <3>1, CommandCases, Zenon DEF CallNames
    <3>. QED  BY <1>2, <2>1, <2>4, <3>2, PublishHandled
  <2>5. CASE \A name \in CallNames : ~Is(stream, next, name)
    <3>1. /\ ~Is(stream, next, "createStream") /\ ~Is(stream, next, "FCPublish")
          /\ ~Is(stream, next, "publish")
      BY <2>5 DEF CallNames
    <3>2. sent' = sent /\ _tc_url' = _tc_url /\ _stream_name' = _stream_name
      BY <1>5, <3>1, CommandCases, Zenon
    <3>. QED  BY <1>2, <2>1, <2>5, <3>2, NothingHandled
  <2>. QED  BY <1>5, <2>2, <2>3, <2>4, <2>5 DEF CallNames
<1>. QED  BY <1>4, <1>5

(* A message that is no command leaves the dialogue as it is.                  *)
LEMMA OthersAnswerNothing ==
  ASSUME Shape, NEW type, Handles(type), type # "command",
         Dialogue(stream, sent, _stream_name, _tc_url, next - 1)
  PROVE  Dialogue(stream, sent, _stream_name, _tc_url, next)
<1>1. next \in Nat /\ next > 1 /\ stream[next].type = type
  BY InHandler
<1>2. \A name \in CallNames : ~Is(stream, next, name)
  BY <1>1 DEF Is
<1>. QED  BY <1>1, <1>2, NothingHandled

-----------------------------------------------------------------------------
(* The actions.                                                                *)

(* The invariant after a step, part by part.                                   *)
LEMMA InvHolds ==
  ASSUME Shape', Counted',
         ~refused' =>
           /\ Dialogue(stream', sent', _stream_name', _tc_url', Handled')
           /\ SaidOk(stream', _media_info', _device_string', Handled')
           /\ TracksOk(stream', published_', _tracks', Handled')
           /\ _acknowledgement_size' = WindowIn(stream', Handled') \div 2
           /\ next' = 0 => 2 * _acknowledgement_traffic' <= WindowIn(stream', Handled')
  PROVE  IInv'
BY DEF IInv, Right, MediaSaid, InTime

(* What is right of the messages before this one.                              *)
LEMMA RightBefore ==
  ASSUME IInv, NEW type, Handles(type), ~refused
  PROVE  /\ Dialogue(stream, sent, _stream_name, _tc_url, next - 1)
         /\ SaidOk(stream, _media_info, _device_string, next - 1)
         /\ TracksOk(stream, published_, _tracks, next - 1)
         /\ _acknowledgement_size = WindowIn(stream, next - 1) \div 2
<1>1. Handled = next - 1
  BY InHandler DEF IInv
<1>2. Right(Handled)
  BY DEF IInv
<1>. QED  BY <1>1, <1>2 DEF Right, MediaSaid, InTime

(* A window is a number.                                                       *)
LEMMA WindowIsNat ==
  ASSUME NEW q, IsStream(q), NEW m \in 0..Len(q)
  PROVE  WindowIn(q, m) \in Nat
<1>1. RTMP_DEFAULT_ACKNOWNLEDGEMENT_SIZE \in Nat
  BY DialogueAssumption
<1>. DEFINE W == WindowsIn(q, m)
<1>2. q \in Seq(Requests \cup Connects) /\ Len(q) \in Nat
  BY DEF IsStream
<1>3. m \in Nat /\ \A n \in 1..m : n \in 1..Len(q)
  BY <1>2
<1>4. W \in SUBSET (1..m)
  BY <1>3, SetsAreNumbers
<1>5. ASSUME W # {} PROVE q[Max(W)].value \in Nat
  <2>. HIDE DEF W
  <2>1. Max(W) \in W
    BY <1>3, <1>4, <1>5, MaxIsGreatest
  <2>2. Max(W) \in 1..Len(q)
    BY <1>3, <1>4, <2>1
  <2>3. q[Max(W)] \in Requests \cup Connects
    BY <1>2, <2>2
  <2>. QED  BY <2>3, RequestIs
<1>. QED  BY <1>1, <1>5 DEF WindowIn

(* Half of a window, rounded down, twice.                                      *)
LEMMA UpToHalf ==
  ASSUME NEW window \in Nat, NEW traffic \in Nat, traffic <= window \div 2
  PROVE  2 * traffic <= window
<1>1. window = 2 * (window \div 2) + (window % 2) /\ window % 2 \in Nat /\ window \div 2 \in Nat
  OBVIOUS
<1>. DEFINE half == window \div 2
            rest == window % 2
<1>2. window = 2 * half + rest /\ rest \in Nat /\ half \in Nat /\ traffic <= half
  BY <1>1
<1>. HIDE DEF half, rest
<1>. QED  BY <1>2

(* Nothing has been said yet.                                                  *)
LEMMA InitOk == Init => IInv
<1>. SUFFICES ASSUME Init PROVE IInv
  OBVIOUS
<1>1. /\ stream = <<>> /\ cut = 0 /\ next = 0 /\ refused = FALSE
      /\ published_ = FALSE /\ _tracks = NoTracks
      /\ _tc_url = Empty /\ _stream_name = Empty /\ _media_info = NoMedia /\ _device_string = Empty
      /\ _acknowledgement_traffic = 0 /\ sent = <<>>
      /\ _acknowledgement_size = RTMP_DEFAULT_ACKNOWNLEDGEMENT_SIZE \div 2
  BY DEF Init
<1>2. RTMP_DEFAULT_ACKNOWNLEDGEMENT_SIZE \in Nat /\ MaxMessages \in Nat
  BY DialogueAssumption
<1>3. Handled = 0
  BY <1>1 DEF Handled
<1>4. SentOk(sent)
  BY <1>1 DEF SentOk
<1>5. IsStream(stream)
  BY <1>1, <1>2 DEF IsStream
<1>6. Shape
  <2>1. cut \in 0..Len(stream) /\ next \in {0} \cup (cut + 1)..(Len(stream) + 1)
    BY <1>1
  <2>2. refused \in BOOLEAN /\ published_ \in BOOLEAN
    BY <1>1
  <2>3. _acknowledgement_size \in Nat /\ _acknowledgement_traffic \in Nat
    BY <1>1, <1>2
  <2>. QED  BY <1>4, <1>5, <2>1, <2>2, <2>3 DEF Shape
<1>7. SumOf(sent) = 0
  <2>. DEFINE f == [i \in 0..0 |-> 0]
  <2>1. f \in [0..0 -> Nat] /\ f[0] = 0 /\ 1..0 = {} /\ Len(sent) = 0
    BY <1>1
  <2>. HIDE DEF f
  <2>2. IsSum(f, sent, Len(sent))
    BY <2>1 DEF IsSum
  <2>. QED  BY <1>4, <2>1, <2>2, SumIs
<1>8. Counted
  BY <1>1, <1>7 DEF Counted
<1>9. 1..0 = {}
  OBVIOUS
<1>10. /\ \A names : CallsIn(stream, names, 0) = {}
       /\ AskedIn(stream, 0) = {} /\ MetasIn(stream, 0) = {}
       /\ MediaIn(stream, 0) = {} /\ WindowsIn(stream, 0) = {}
  BY <1>9 DEF CallsIn, AskedIn, MetasIn, MediaIn, WindowsIn
<1>11. \A name : AnswersIn(sent, name) = {}
  BY <1>1, <1>9 DEF AnswersIn
<1>12. Dialogue(stream, sent, _stream_name, _tc_url, 0)
  <2>1. ResultsOk(stream, sent, 0)
    BY <1>10, <1>11 DEF ResultsOk, OneEachIn
  <2>2. StatusesOk(stream, sent, 0)
    BY <1>10, <1>11 DEF StatusesOk, OneEachIn
  <2>3. NameOk(stream, _stream_name, 0)
    BY <1>1, <1>10 DEF NameOk
  <2>4. UrlOk(stream, _tc_url, 0)
    BY DEF UrlOk
  <2>. QED  BY <1>4, <2>1, <2>2, <2>3, <2>4 DEF Dialogue
<1>13. MediaSaid(0)
  BY <1>1, <1>10 DEF MediaSaid, SaidOk, DeviceIn, NamedIn, InfoIn, TracksOk
<1>14. InTime(0)
  BY <1>1, <1>2, <1>10 DEF InTime, WindowIn
<1>15. Right(Handled)
  BY <1>3, <1>12, <1>13, <1>14 DEF Right
<1>. QED  BY <1>6, <1>8, <1>15 DEF IInv

(* A window: the traffic of the call so far is forgotten.                      *)
LEMMA WindowStep ==
  ASSUME IInv, ReceiveWindowAcknowledgementSize
  PROVE  IInv'
<1>1. Handles("window") /\ Accept
  BY DEF ReceiveWindowAcknowledgementSize
<1>2. Shape /\ Counted
  BY DEF IInv
<1>3. /\ next \in Nat \ {0} /\ next \in 1..Len(stream)
      /\ stream[next] \in Requests \cup Connects /\ stream[next].type = "window"
  BY <1>1, <1>2, InHandler
<1>4. stream[next].value \in Nat
  BY <1>3, RequestIs
<1>5. /\ sent' = sent /\ _stream_name' = _stream_name /\ _tc_url' = _tc_url
      /\ _media_info' = _media_info /\ _device_string' = _device_string
      /\ published_' = published_ /\ _tracks' = _tracks
  BY DEF ReceiveWindowAcknowledgementSize, nameVars, mediaVars, trackVars
<1>6. \/ /\ stream[next].value = 0
         /\ _acknowledgement_size' = _acknowledgement_size
         /\ _acknowledgement_traffic' = _acknowledgement_traffic
      \/ /\ stream[next].value # 0
         /\ _acknowledgement_size' = stream[next].value \div 2
         /\ _acknowledgement_traffic' = 0
  BY DEF ReceiveWindowAcknowledgementSize, ackVars, Half
<1>7. _acknowledgement_size' \in Nat /\ _acknowledgement_traffic' \in Nat
  BY <1>2, <1>4, <1>6 DEF Shape
<1>8. /\ Shape' /\ Handled' = next /\ next' # 0
      /\ stream' = stream /\ refused' = refused /\ cut' = cut
  BY <1>1, <1>2, <1>5, <1>7, Accepted DEF Shape
<1>9. Counted'
  <2>1. ~NoWindow(stream)
    BY <1>3 DEF NoWindow
  <2>2. SumOf(sent) \in Nat /\ cut \in Nat /\ _acknowledgement_traffic \in Nat
    BY <1>2, SumIsNat DEF Shape
  <2>3. SumOf(sent) + _acknowledgement_traffic <= cut
    BY <1>2 DEF Counted
  <2>4. SumOf(sent) + _acknowledgement_traffic' <= cut
    BY <1>6, <2>2, <2>3
  <2>5. ~NoWindow(stream')
    BY <1>8, <2>1
  <2>. QED  BY <1>5, <1>8, <2>4, <2>5 DEF Counted
<1>10. ASSUME ~refused
       PROVE  /\ Dialogue(stream, sent, _stream_name, _tc_url, next)
              /\ SaidOk(stream, _media_info, _device_string, next)
              /\ TracksOk(stream, published_, _tracks, next)
              /\ _acknowledgement_size' = WindowIn(stream, next) \div 2
  <2>1. /\ Dialogue(stream, sent, _stream_name, _tc_url, next - 1)
        /\ SaidOk(stream, _media_info, _device_string, next - 1)
        /\ TracksOk(stream, published_, _tracks, next - 1)
        /\ _acknowledgement_size = WindowIn(stream, next - 1) \div 2
    BY <1>1, <1>10, RightBefore
  <2>2. Dialogue(stream, sent, _stream_name, _tc_url, next)
    BY <1>1, <1>2, <2>1, OthersAnswerNothing
  <2>3. /\ SaidOk(stream, _media_info, _device_string, next)
        /\ TracksOk(stream, published_, _tracks, next)
    BY <1>3, <2>1, SaidKept, TracksKept
  <2>4. _acknowledgement_size' = WindowIn(stream, next) \div 2
    BY <1>3, <1>6, <2>1, WindowKept, WindowNow
  <2>. QED  BY <2>2, <2>3, <2>4
<1>. QED  BY <1>5, <1>8, <1>9, <1>10, InvHolds

(* What has been counted stays so if nothing is.                               *)
LEMMA CountedKept ==
  ASSUME Counted, UNCHANGED <<stream, cut, _acknowledgement_traffic>>,
         SumOf(sent') = SumOf(sent)
  PROVE  Counted'
BY DEF Counted, NoWindow

(* A command: only the answers, the name and the URL change.                   *)
LEMMA CommandStep ==
  ASSUME IInv, ReceiveAmfCommandMessage
  PROVE  IInv'
<1>1. Handles("command") /\ Accept
  BY DEF ReceiveAmfCommandMessage
<1>2. Shape /\ Counted
  BY DEF IInv
<1>3. next \in Nat \ {0} /\ stream[next].type = "command"
  BY <1>1, <1>2, InHandler
<1>4. /\ _media_info' = _media_info /\ _device_string' = _device_string
      /\ published_' = published_ /\ _tracks' = _tracks
      /\ _acknowledgement_size' = _acknowledgement_size
      /\ _acknowledgement_traffic' = _acknowledgement_traffic
  BY DEF ReceiveAmfCommandMessage, mediaVars, trackVars, ackVars
<1>5. SentOk(sent') /\ SumOf(sent') = SumOf(sent)
  BY <1>2, CommandSends
<1>6. /\ Shape' /\ Handled' = next /\ next' # 0
      /\ stream' = stream /\ refused' = refused /\ cut' = cut
  BY <1>1, <1>2, <1>4, <1>5, Accepted DEF Shape
<1>7. Counted'
  BY <1>2, <1>4, <1>5, <1>6, CountedKept
<1>8. ASSUME ~refused
      PROVE  /\ Dialogue(stream, sent', _stream_name', _tc_url', next)
             /\ SaidOk(stream, _media_info, _device_string, next)
             /\ TracksOk(stream, published_, _tracks, next)
             /\ _acknowledgement_size = WindowIn(stream, next) \div 2
  <2>1. /\ Dialogue(stream, sent, _stream_name, _tc_url, next - 1)
        /\ SaidOk(stream, _media_info, _device_string, next - 1)
        /\ TracksOk(stream, published_, _tracks, next - 1)
        /\ _acknowledgement_size = WindowIn(stream, next - 1) \div 2
    BY <1>1, <1>8, RightBefore
  <2>2. Dialogue(stream, sent', _stream_name', _tc_url', next)
    BY <1>2, <2>1, CommandAnswers
  <2>3. /\ SaidOk(stream, _media_info, _device_string, next)
        /\ TracksOk(stream, published_, _tracks, next)
    BY <1>3, <2>1, SaidKept, TracksKept
  <2>4. WindowIn(stream, next) = WindowIn(stream, next - 1)
    BY <1>3, WindowKept
  <2>. QED  BY <2>1, <2>2, <2>3, <2>4
<1>. QED  BY <1>4, <1>6, <1>7, <1>8, InvHolds

(* Metadata: all that is known of the media changes.                           *)
LEMMA DataStep ==
  ASSUME IInv, ReceiveAmfDataMessage
  PROVE  IInv'
<1>1. Handles("data") /\ Accept
  BY DEF ReceiveAmfDataMessage
<1>2. Shape /\ Counted
  BY DEF IInv
<1>3. /\ next \in Nat \ {0} /\ next \in 1..MaxMessages /\ stream[next].type = "data"
      /\ stream[next] \in Requests \cup Connects
  BY <1>1, <1>2, InHandler
<1>4. /\ sent' = sent /\ _stream_name' = _stream_name /\ _tc_url' = _tc_url
      /\ published_' = published_ /\ _tracks' = _tracks
      /\ _acknowledgement_size' = _acknowledgement_size
      /\ _acknowledgement_traffic' = _acknowledgement_traffic
  BY DEF ReceiveAmfDataMessage, nameVars, trackVars, ackVars
<1>5. /\ Shape' /\ Handled' = next /\ next' # 0
      /\ stream' = stream /\ refused' = refused /\ cut' = cut
  BY <1>1, <1>2, <1>4, Accepted DEF Shape
<1>6. Counted'
  BY <1>2, <1>4, <1>5, CountedKept
<1>7. LET object == ObjectIn(stream, next)
      IN  IF IsMetaData(Doc(stream, next))
          THEN /\ _device_string' = DeviceOf(object, _device_string)
               /\ _media_info' = MediaInfo(object, _device_string')
          ELSE _device_string' = _device_string /\ _media_info' = _media_info
  <2>. DEFINE d == Doc(stream, next)
              r == DecodeAmf(ClientAmf(d))
  <2>1. (IsMetaData(r) <=> IsMetaData(d)) /\ (IsMetaData(r) => r[3] = d[3])
    BY <1>3, DataIs DEF Doc
  <2>2. d = Document(next)
    BY DEF Doc, Document
  <2>3. IF IsMetaData(r) THEN OnAmfMetaData(r[3][GetType(r[3])]) ELSE UNCHANGED mediaVars
    BY <2>2, Zenon DEF ReceiveAmfDataMessage
  <2>. HIDE DEF d, r
  <2>4. IF IsMetaData(d) THEN OnAmfMetaData(d[3][GetType(d[3])]) ELSE UNCHANGED mediaVars
    BY <2>1, <2>3
  <2>5. IF IsMetaData(d) THEN OnAmfMetaData(ObjectIn(stream, next)) ELSE UNCHANGED mediaVars
    BY <2>4 DEF d, ObjectIn
  <2>. QED  BY <2>5 DEF d, OnAmfMetaData, mediaVars
<1>8. ASSUME ~refused
      PROVE  /\ Dialogue(stream, sent, _stream_name, _tc_url, next)
             /\ SaidOk(stream, _media_info', _device_string', next)
             /\ TracksOk(stream, published_, _tracks, next)
             /\ _acknowledgement_size = WindowIn(stream, next) \div 2
  <2>1. /\ Dialogue(stream, sent, _stream_name, _tc_url, next - 1)
        /\ SaidOk(stream, _media_info, _device_string, next - 1)
        /\ TracksOk(stream, published_, _tracks, next - 1)
        /\ _acknowledgement_size = WindowIn(stream, next - 1) \div 2
    BY <1>1, <1>8, RightBefore
  <2>2. Dialogue(stream, sent, _stream_name, _tc_url, next)
    BY <1>1, <1>2, <2>1, OthersAnswerNothing
  <2>3. TracksOk(stream, published_, _tracks, next)
    BY <1>3, <2>1, TracksKept
  <2>4. WindowIn(stream, next) = WindowIn(stream, next - 1)
    BY <1>3, WindowKept
  <2>5. SaidOk(stream, _media_info', _device_string', next)
    <3>1. CASE IsMetaData(Doc(stream, next))
      <4>. DEFINE object == ObjectIn(stream, next)
                  named == DeviceOf(object, _device_string)
      <4>1. _device_string' = named /\ _media_info' = MediaInfo(object, named)
        BY <1>7, <3>1
      <4>2. SaidOk(stream, MediaInfo(object, named), named, next)
        BY <1>3, <2>1, <3>1, SaidNow
      <4>. QED  BY <4>1, <4>2
    <3>2. CASE ~IsMetaData(Doc(stream, next))
      <4>1. _media_info' = _media_info /\ _device_string' = _device_string
        BY <1>7, <3>2
      <4>. QED  BY <1>3, <2>1, <3>2, <4>1, SaidKept
    <3>. QED  BY <3>1, <3>2
  <2>. QED  BY <2>1, <2>2, <2>3, <2>4, <2>5
<1>. QED  BY <1>4, <1>5, <1>6, <1>8, InvHolds

(* Media: the tracks are made, or the call fails.                              *)
LEMMA MediaStep ==
  ASSUME IInv, ReceiveMedia
  PROVE  IInv'
<1>1. Handles("media")
  BY DEF ReceiveMedia
<1>2. Shape /\ Counted
  BY DEF IInv
<1>3. next \in Nat \ {0} /\ stream[next].type = "media"
  BY <1>1, <1>2, InHandler
<1>4. /\ sent' = sent /\ _stream_name' = _stream_name /\ _tc_url' = _tc_url
      /\ published_' = TRUE /\ _media_info' = _media_info /\ _device_string' = _device_string
      /\ _acknowledgement_size' = _acknowledgement_size
      /\ _acknowledgement_traffic' = _acknowledgement_traffic
  BY DEF ReceiveMedia, nameVars, mediaVars, ackVars
<1>5. /\ _tracks' = IF ~published_ /\ _stream_name # Empty
                    THEN TracksOf(stream[next].kinds, _media_info) ELSE _tracks
      /\ Refuse \/ Accept
  BY Zenon DEF ReceiveMedia
<1>6. Accept => DOMAIN _tracks' # {}
  <2>1. SUFFICES ASSUME Accept, DOMAIN _tracks' = {} PROVE FALSE
    OBVIOUS
  <2>2. Refuse
    BY <2>1 DEF ReceiveMedia
  <2>3. next' = 0 /\ next' = next + 1
    BY <2>1, <2>2 DEF Accept, Refuse
  <2>. QED  BY <1>3, <2>3
<1>7. CASE Refuse
  <2>1. next' = 0 /\ refused' = TRUE /\ stream' = stream /\ cut' = cut
    BY <1>7 DEF Refuse
  <2>2. Shape'
    BY <1>2, <1>4, <2>1 DEF Shape
  <2>3. Counted'
    BY <1>2, <1>4, <2>1, CountedKept
  <2>. QED  BY <2>1, <2>2, <2>3, InvHolds
<1>8. CASE Accept
  <2>1. /\ Shape' /\ Handled' = next /\ next' # 0
        /\ stream' = stream /\ refused' = refused /\ cut' = cut
    BY <1>1, <1>2, <1>4, <1>8, Accepted DEF Shape
  <2>2. Counted'
    BY <1>2, <1>4, <2>1, CountedKept
  <2>3. ASSUME ~refused
        PROVE  /\ Dialogue(stream, sent, _stream_name, _tc_url, next)
               /\ SaidOk(stream, _media_info, _device_string, next)
               /\ TracksOk(stream, TRUE, _tracks', next)
               /\ _acknowledgement_size = WindowIn(stream, next) \div 2
    <3>1. /\ Dialogue(stream, sent, _stream_name, _tc_url, next - 1)
          /\ SaidOk(stream, _media_info, _device_string, next - 1)
          /\ TracksOk(stream, published_, _tracks, next - 1)
          /\ _acknowledgement_size = WindowIn(stream, next - 1) \div 2
      BY <1>1, <2>3, RightBefore
    <3>2. Dialogue(stream, sent, _stream_name, _tc_url, next)
      BY <1>1, <1>2, <3>1, OthersAnswerNothing
    <3>3. /\ SaidOk(stream, _media_info, _device_string, next)
          /\ WindowIn(stream, next) = WindowIn(stream, next - 1)
      BY <1>3, <3>1, SaidKept, WindowKept
    <3>4. TracksOk(stream, TRUE, _tracks', next)
      <4>1. CASE published_ = TRUE
        <5>1. _tracks' = _tracks
          BY <1>5, <4>1
        <5>. QED  BY <1>3, <3>1, <4>1, <5>1, TracksKept
      <4>2. CASE published_ = FALSE /\ _stream_name # Empty
        <5>1. _tracks' = TracksOf(stream[next].kinds, _media_info)
          BY <1>5, <4>2
        <5>. QED  BY <1>3, <3>1, <3>3, <4>2, <5>1, TracksMade
      <4>3. CASE published_ = FALSE /\ _stream_name = Empty
        <5>1. _tracks' = _tracks
          BY <1>5, <4>3
        <5>2. _tracks = NoTracks
          BY <3>1, <4>3 DEF TracksOk
        <5>3. DOMAIN _tracks' = {}
          BY <5>1, <5>2 DEF NoTracks, TracksOf
        <5>. QED  BY <1>6, <1>8, <5>3
      <4>. QED  BY <1>2, <4>1, <4>2, <4>3 DEF Shape
    <3>. QED  BY <3>1, <3>2, <3>3, <3>4
  <2>. QED  BY <1>4, <2>1, <2>2, <2>3, InvHolds
<1>. QED  BY <1>5, <1>7, <1>8

(* A block arrives: what has been handled is what it was.                      *)
LEMMA BlockStep ==
  ASSUME IInv, AppendBlock
  PROVE  IInv'
<1>1. Shape /\ Counted
  BY DEF IInv
<1>2. PICK block \in Blocks : /\ Len(stream) + Len(block) <= MaxMessages
                              /\ stream = <<>> => block[1] \in Connects
                              /\ stream' = stream \o block
  BY DEF AppendBlock
<1>3. /\ next = 0 /\ next' = cut + 1 /\ cut' = cut /\ refused' = refused
      /\ _stream_name' = _stream_name /\ _tc_url' = _tc_url
      /\ _media_info' = _media_info /\ _device_string' = _device_string
      /\ published_' = published_ /\ _tracks' = _tracks /\ sent' = sent
      /\ _acknowledgement_size' = _acknowledgement_size
      /\ _acknowledgement_traffic' = _acknowledgement_traffic
  BY DEF AppendBlock, nameVars, mediaVars, trackVars, ackVars
<1>4. block \in Seq(Requests \cup Connects) /\ Len(block) \in Nat /\ Len(block) >= 1
  <2>1. PICK k \in 1..MaxBlock : block \in [1..k -> Requests \cup Connects]
    BY DEF Blocks
  <2>2. k \in Nat /\ k >= 1
    BY DialogueAssumption
  <2>3. block \in Seq(Requests \cup Connects) /\ Len(block) = k
    BY <2>1, <2>2
  <2>. QED  BY <2>2, <2>3
<1>5. stream \in Seq(Requests \cup Connects) /\ Len(stream) \in Nat
  BY <1>1 DEF Shape, IsStream
<1>6. /\ stream' \in Seq(Requests \cup Connects) /\ Len(stream') = Len(stream) + Len(block)
      /\ \A n \in 1..Len(stream) : stream'[n] = stream[n]
      /\ stream = <<>> => stream'[1] = block[1]
  <2>1. /\ stream \o block \in Seq(Requests \cup Connects)
        /\ Len(stream \o block) = Len(stream) + Len(block)
        /\ \A n \in 1..Len(stream) + Len(block) :
             (stream \o block)[n]
               = IF n <= Len(stream) THEN stream[n] ELSE block[n - Len(stream)]
    BY <1>4, <1>5, ConcatProperties, Zenon
  <2>2. stream = <<>> => Len(stream) = 0
    BY <1>5, EmptySeq
  <2>. QED  BY <1>2, <1>4, <1>5, <2>1, <2>2
<1>7. cut \in 0..Len(stream) /\ cut \in Nat
  BY <1>1, <1>5 DEF Shape
<1>8. Handled' = cut /\ Handled = cut /\ next' # 0
  <2>1. next' # 0 /\ next' - 1 = cut
    BY <1>3, <1>7
  <2>. QED  BY <1>3, <2>1 DEF Handled
<1>9. IsStream(stream')
  <2>1. Len(stream') <= MaxMessages
    BY <1>2, <1>6
  <2>2. stream'[1] \in Connects
    <3>1. CASE stream = <<>>
      BY <1>2, <1>6, <3>1
    <3>2. CASE stream # <<>>
      <4>1. stream[1] \in Connects
        BY <1>1, <3>2 DEF Shape, IsStream
      <4>2. 1 \in 1..Len(stream)
        BY <1>5, <3>2, EmptySeq
      <4>. QED  BY <1>6, <4>1, <4>2
    <3>. QED  BY <3>1, <3>2
  <2>. QED  BY <1>6, <2>1, <2>2 DEF IsStream
<1>10. Shape'
  <2>1. cut' \in 0..Len(stream') /\ next' \in {0} \cup (cut' + 1)..(Len(stream') + 1)
    BY <1>3, <1>4, <1>5, <1>6, <1>7
  <2>. QED  BY <1>1, <1>3, <1>9, <2>1 DEF Shape
<1>11. Counted'
  <2>1. NoWindow(stream') => NoWindow(stream)
    <3>1. \A n \in 1..Len(stream) : n \in 1..Len(stream')
      BY <1>4, <1>5, <1>6
    <3>. QED  BY <1>6, <3>1 DEF NoWindow
  <2>. QED  BY <1>1, <1>3, <2>1 DEF Counted
<1>12. ASSUME ~refused
       PROVE  /\ Dialogue(stream', sent, _stream_name, _tc_url, cut)
              /\ SaidOk(stream', _media_info, _device_string, cut)
              /\ TracksOk(stream', published_, _tracks, cut)
              /\ _acknowledgement_size = WindowIn(stream', cut) \div 2
  <2>1. \A n \in 1..cut : stream'[n] = stream[n]
    BY <1>5, <1>6, <1>7
  <2>2. Right(cut)
    BY <1>8, <1>12 DEF IInv
  <2>3. /\ Dialogue(stream, sent, _stream_name, _tc_url, cut)
        /\ SaidOk(stream, _media_info, _device_string, cut)
        /\ TracksOk(stream, published_, _tracks, cut)
        /\ _acknowledgement_size = WindowIn(stream, cut) \div 2
    BY <2>2 DEF Right, MediaSaid, InTime
  <2>4. /\ SaidOk(stream', _media_info, _device_string, cut)
        /\ TracksOk(stream', published_, _tracks, cut)
    BY <1>7, <2>1, <2>3, PrefixSame
  <2>5. WindowIn(stream', cut) = WindowIn(stream, cut)
    BY <1>7, <2>1, PrefixSame
  <2>6. Dialogue(stream', sent, _stream_name, _tc_url, cut)
    BY <1>7, <2>1, <2>3, PrefixSame DEF Dialogue
  <2>. QED  BY <2>3, <2>4, <2>5, <2>6
<1>. QED  BY <1>3, <1>8, <1>10, <1>11, <1>12, InvHolds

(* The call returns, and all it has processed is counted.                      *)
LEMMA ReturnStep ==
  ASSUME IInv, CallReturns
  PROVE  IInv'
<1>1. Shape /\ Counted
  BY DEF IInv
<1>2. /\ next = Len(stream) + 1 /\ cut' = Len(stream) /\ next' = 0
      /\ stream' = stream /\ refused' = refused
      /\ _stream_name' = _stream_name /\ _tc_url' = _tc_url
      /\ _media_info' = _media_info /\ _device_string' = _device_string
      /\ published_' = published_ /\ _tracks' = _tracks
      /\ _acknowledgement_size' = _acknowledgement_size
  BY DEF CallReturns, nameVars, mediaVars, trackVars
<1>. DEFINE traffic == _acknowledgement_traffic + Len(stream) - cut
            x == SendAcknowledgementSize(traffic)
<1>3. /\ Len(stream) \in Nat /\ cut \in 0..Len(stream)
      /\ _acknowledgement_traffic \in Nat /\ _acknowledgement_size \in Nat /\ SentOk(sent)
  BY <1>1 DEF Shape, IsStream
<1>4. traffic \in Nat
  BY <1>3
<1>5. SumOf(sent) \in Nat
  BY <1>3, SumIsNat
<1>6. \/ /\ traffic > _acknowledgement_size
         /\ sent' = Append(sent, x) /\ _acknowledgement_traffic' = 0
      \/ /\ ~(traffic > _acknowledgement_size)
         /\ sent' = sent /\ _acknowledgement_traffic' = traffic
  BY Zenon DEF CallReturns, Acknowledge
<1>7. x.value = traffic /\ x.type = "acknowledgement"
  BY DEF SendAcknowledgementSize, Sent
<1>. HIDE DEF x
<1>8. Acknowledges(x) = traffic
  BY <1>7 DEF Acknowledges
<1>9. /\ SentOk(sent') /\ _acknowledgement_traffic' \in Nat
      /\ SumOf(sent') + _acknowledgement_traffic' = SumOf(sent) + traffic
      /\ _acknowledgement_traffic' <= _acknowledgement_size
  <2>1. SentOk(Append(sent, x)) /\ SumOf(Append(sent, x)) = SumOf(sent) + traffic
    BY <1>3, <1>4, <1>7, <1>8, SentGrows, SumGrows
  <2>. HIDE DEF traffic
  <2>2. CASE /\ traffic > _acknowledgement_size
             /\ sent' = Append(sent, x) /\ _acknowledgement_traffic' = 0
    <3>1. SentOk(sent') /\ SumOf(sent') = SumOf(sent) + traffic
      BY <2>1, <2>2
    <3>. QED  BY <1>3, <1>4, <1>5, <2>2, <3>1
  <2>3. CASE /\ ~(traffic > _acknowledgement_size)
             /\ sent' = sent /\ _acknowledgement_traffic' = traffic
    BY <1>3, <1>4, <2>3
  <2>. QED  BY <1>6, <2>2, <2>3
<1>10. Handled = Len(stream) /\ Handled' = Len(stream)
  <2>1. next # 0 /\ next - 1 = Len(stream)
    BY <1>2, <1>3
  <2>. QED  BY <1>2, <2>1 DEF Handled
<1>11. Shape'
  <2>1. cut' \in 0..Len(stream') /\ next' \in {0} \cup (cut' + 1)..(Len(stream') + 1)
    BY <1>2, <1>3
  <2>. QED  BY <1>1, <1>2, <1>9, <2>1 DEF Shape
<1>12. Counted'
  <2>1. /\ SumOf(sent) + _acknowledgement_traffic <= cut
        /\ NoWindow(stream) => SumOf(sent) + _acknowledgement_traffic = cut
    BY <1>1 DEF Counted
  <2>2. SumOf(sent) + traffic = SumOf(sent) + _acknowledgement_traffic + Len(stream) - cut
    BY <1>3, <1>5
  <2>3. /\ SumOf(sent) + traffic <= Len(stream)
        /\ NoWindow(stream) => SumOf(sent) + traffic = Len(stream)
    BY <1>3, <1>5, <2>1, <2>2
  <2>. HIDE DEF traffic
  <2>. QED  BY <1>2, <1>9, <2>3 DEF Counted
<1>13. ASSUME ~refused
       PROVE  /\ Dialogue(stream, sent', _stream_name, _tc_url, Len(stream))
              /\ SaidOk(stream, _media_info, _device_string, Len(stream))
              /\ TracksOk(stream, published_, _tracks, Len(stream))
              /\ _acknowledgement_size = WindowIn(stream, Len(stream)) \div 2
              /\ 2 * _acknowledgement_traffic' <= WindowIn(stream, Len(stream))
  <2>1. Right(Len(stream))
    BY <1>10, <1>13 DEF IInv
  <2>2. /\ Dialogue(stream, sent, _stream_name, _tc_url, Len(stream))
        /\ SaidOk(stream, _media_info, _device_string, Len(stream))
        /\ TracksOk(stream, published_, _tracks, Len(stream))
        /\ _acknowledgement_size = WindowIn(stream, Len(stream)) \div 2
    BY <2>1 DEF Right, MediaSaid, InTime
  <2>3. WindowIn(stream, Len(stream)) \in Nat
    <3>1. IsStream(stream) /\ Len(stream) \in 0..Len(stream)
      BY <1>1, <1>3 DEF Shape
    <3>. QED  BY <3>1, WindowIsNat
  <2>4. 2 * _acknowledgement_traffic' <= WindowIn(stream, Len(stream))
    BY <1>9, <2>2, <2>3, UpToHalf
  <2>5. Dialogue(stream, sent', _stream_name, _tc_url, Len(stream))
    <3>1. ~IsAnswer(x, "_result") /\ ~IsAnswer(x, "onStatus")
      BY <1>7 DEF IsAnswer
    <3>2. /\ SentOk(sent) /\ x.value \in Nat
          /\ ResultsOk(stream, sent, Len(stream)) /\ StatusesOk(stream, sent, Len(stream))
      BY <1>3, <1>4, <1>7, <2>2 DEF Dialogue
    <3>3. /\ ResultsOk(stream, Append(sent, x), Len(stream))
          /\ StatusesOk(stream, Append(sent, x), Len(stream))
      BY <3>1, <3>2, ResultsStay, StatusesStay
    <3>4. ResultsOk(stream, sent', Len(stream)) /\ StatusesOk(stream, sent', Len(stream))
      BY <1>6, <3>2, <3>3
    <3>. QED  BY <1>9, <2>2, <3>4 DEF Dialogue
  <2>. QED  BY <2>2, <2>4, <2>5
<1>. QED  BY <1>2, <1>10, <1>11, <1>12, <1>13, InvHolds

(* Nothing happens.                                                            *)
LEMMA StutterStep ==
  ASSUME IInv, UNCHANGED vars
  PROVE  IInv'
BY DEF IInv, Shape, Counted, Right, MediaSaid, InTime, Handled, vars, callVars, nameVars,
       mediaVars, trackVars, ackVars

-----------------------------------------------------------------------------
(* What has been proved of every step holds always.                            *)
THEOREM Invariance == Spec => []IInv
<1>1. IInv /\ [Next]_vars => IInv'
  <2>. SUFFICES ASSUME IInv, [Next]_vars PROVE IInv'
    OBVIOUS
  <2>1. CASE AppendBlock
    BY <2>1, BlockStep
  <2>2. CASE CallReturns
    BY <2>2, ReturnStep
  <2>3. CASE ReceiveWindowAcknowledgementSize
    BY <2>3, WindowStep
  <2>4. CASE ReceiveAmfCommandMessage
    BY <2>4, CommandStep
  <2>5. CASE ReceiveAmfDataMessage
    BY <2>5, DataStep
  <2>6. CASE ReceiveMedia
    BY <2>6, MediaStep
  <2>7. CASE Finished
    BY <2>7, StutterStep DEF Finished
  <2>8. CASE UNCHANGED vars
    BY <2>8, StutterStep
  <2>. QED  BY <2>1, <2>2, <2>3, <2>4, <2>5, <2>6, <2>7, <2>8 DEF Next, ParserStep
<1>. QED  BY <1>1, InitOk, PTL DEF Spec

(* The first number of a prefix is the first of all.                           *)
LEMMA FirstMedia ==
  ASSUME NEW q, NEW m \in Nat, NEW n \in Nat, m <= n, MediaIn(q, m) # {}
  PROVE  MediaIn(q, n) # {} /\ Min(MediaIn(q, n)) = Min(MediaIn(q, m))
<1>. DEFINE A == MediaIn(q, m)
            B == MediaIn(q, n)
<1>1. A \in SUBSET (1..m) /\ B \in SUBSET (1..n)
  BY SetsAreNumbers
<1>2. \A k : k \in A <=> k \in B /\ k \in 1..m
  BY DEF MediaIn
<1>. HIDE DEF A, B
<1>3. Min(A) \in A /\ \A k \in A : Min(A) <= k
  BY <1>1, MinIsLeast DEF A
<1>4. B # {} /\ Min(B) \in B /\ \A k \in B : Min(B) <= k
  <2>1. B # {}
    BY <1>2, <1>3
  <2>. QED  BY <1>1, <2>1, MinIsLeast
<1>5. Min(A) \in B /\ Min(A) \in 1..m /\ Min(B) \in 1..n
  BY <1>1, <1>2, <1>3, <1>4
<1>6. Min(B) <= Min(A)
  BY <1>4, <1>5
<1>7. Min(B) \in A
  BY <1>2, <1>4, <1>5, <1>6
<1>8. Min(A) <= Min(B)
  BY <1>3, <1>7
<1>. QED  BY <1>4, <1>5, <1>6, <1>8 DEF A, B

(* What the invariant says to a client between two calls.                      *)
LEMMA SettledIsRight ==
  ASSUME IInv, Settled
  PROVE  Right(cut)
<1>1. Handled = cut
  BY DEF Settled, Handled
<1>. QED  BY <1>1 DEF IInv, Settled

(* Each connect and createStream is answered once, in order, with its number   *)
(* and what the client needs, whatever the dialogue.                           *)
THEOREM CallsAreAnswered == Spec => []CallsAnswered
<1>1. IInv => CallsAnswered
  BY SettledIsRight, InItsWords DEF CallsAnswered, Right, Dialogue
<1>. QED  BY <1>1, Invariance, PTL

(* Each publish is told whether it may start.                                  *)
THEOREM PublishIsTold == Spec => []PublishTold
<1>1. IInv => PublishTold
  BY SettledIsRight, InItsWords DEF PublishTold, Right, Dialogue
<1>. QED  BY <1>1, Invariance, PTL

(* A usual client is published under the name it gave first.                   *)
THEOREM FirstNameStays == Spec => []NamedByTheFirst
<1>1. IInv => NamedByTheFirst
  BY SettledIsRight, InItsWords DEF NamedByTheFirst, Right, Dialogue
<1>. QED  BY <1>1, Invariance, PTL

(* The tracks are those the metadata described that was the last when they     *)
(* were made, and the encoder the one named last.                              *)
THEOREM TracksAreOfTheMetadata == Spec => []TracksMatchMetadata
<1>1. IInv => TracksMatchMetadata
  <2>. SUFFICES ASSUME IInv PROVE TracksMatchMetadata
    OBVIOUS
  <2>. DEFINE media == MediaIn(stream, Len(stream))
  <2>1. ASSUME ~refused, published_
        PROVE  media # {} /\ _tracks = TracksSaid(stream[Min(media)].kinds, Min(media))
    <3>. DEFINE first == Min(MediaIn(stream, Handled))
    <3>1. /\ MediaIn(stream, Handled) # {}
          /\ _tracks = TracksIn(stream, stream[first].kinds, first)
      BY <2>1 DEF IInv, Right, MediaSaid, TracksOk
    <3>2. Handled \in Nat /\ Len(stream) \in Nat /\ Handled <= Len(stream)
      <4>1. /\ Len(stream) \in Nat /\ cut \in 0..Len(stream)
            /\ next \in {0} \cup (cut + 1)..(Len(stream) + 1)
        BY DEF IInv, Shape, IsStream
      <4>2. CASE next = 0
        BY <4>1, <4>2 DEF Handled
      <4>3. CASE next # 0
        BY <4>1, <4>3 DEF Handled
      <4>. QED  BY <4>2, <4>3
    <3>. HIDE DEF Handled
    <3>3. media # {} /\ Min(media) = first
      BY <3>1, <3>2, FirstMedia
    <3>. HIDE DEF media, first
    <3>. QED  BY <3>1, <3>3, InItsWords
  <2>2. ASSUME Settled
        PROVE  _media_info.encoder_type = EncoderTypeOf(DeviceSaid(cut))
    <3>1. SaidOk(stream, _media_info, _device_string, cut)
      BY <2>2, SettledIsRight DEF Right, MediaSaid
    <3>2. DeviceSaid(cut) = DeviceIn(stream, cut)
      BY InItsWords
    <3>. QED  BY <3>1, <3>2, EncoderIs
  <2>. QED  BY <2>1, <2>2 DEF TracksMatchMetadata, MediaIn
<1>. QED  BY <1>1, Invariance, PTL

(* Nothing is acknowledged twice, nothing is forgotten unless the window       *)
(* changes, and no more than half of the window is left between two calls.     *)
THEOREM AcknowledgedInTime == Spec => []AcknowledgedOnceInTime
<1>1. IInv => AcknowledgedOnceInTime
  <2>. SUFFICES ASSUME IInv PROVE AcknowledgedOnceInTime
    OBVIOUS
  <2>1. /\ Acknowledged + _acknowledgement_traffic <= cut
        /\ (\A n \in 1..Len(stream) : stream[n].type # "window")
             => Acknowledged + _acknowledgement_traffic = cut
    BY InItsWords DEF IInv, Counted, NoWindow
  <2>2. Settled => 2 * _acknowledgement_traffic <= WindowAt(cut)
    BY SettledIsRight, InItsWords DEF Settled, Right, InTime
  <2>. QED  BY <2>1, <2>2 DEF AcknowledgedOnceInTime
<1>. QED  BY <1>1, Invariance, PTL
=============================================================================
