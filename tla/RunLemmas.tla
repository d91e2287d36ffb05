----------------------------- MODULE RunLemmas -----------------------------
(* What the proofs share: what pushing and popping do to a queue that holds    *)
(* the consecutive numbers lo + 1, ..., hi, the form both hand-over queues     *)
(* keep; induction over the natural numbers, for what the models define by     *)
(* recursive functions; the least and the greatest of some numbers; and what   *)
(* FlattenSeq makes of some sequences.                                         *)
EXTENDS Integers, SequencesExt, SequenceTheorems, WellFoundedInduction, TLAPS

LEMMA EmptyRun ==
  ASSUME NEW n \in Nat
  PROVE  <<>> = [i \in 1..n - n |-> n + i]
<1>. DEFINE q == [i \in 1..n - n |-> n + i]
<1>1. q \in Seq(Nat) /\ Len(q) = 0
  OBVIOUS
<1>. QED  BY <1>1, EmptySeq

LEMMA PushKeepsRun ==
  ASSUME NEW lo \in Nat, NEW hi \in Nat, lo <= hi,
         NEW q, q = [i \in 1..hi - lo |-> lo + i]
  PROVE  Append(q, hi + 1) = [i \in 1..(hi + 1) - lo |-> lo + i]
<1>1. q \in Seq(Nat) /\ Len(q) = hi - lo
  OBVIOUS
<1>2. DOMAIN Append(q, hi + 1) = 1..(hi + 1) - lo
  BY <1>1
<1>3. \A i \in 1..(hi + 1) - lo : Append(q, hi + 1)[i] = lo + i
  BY <1>1
<1>. QED  BY <1>1, <1>2, <1>3

LEMMA PopKeepsRun ==
  ASSUME NEW lo \in Nat, NEW hi \in Nat, lo <= hi,
         NEW q, q = [i \in 1..hi - lo |-> lo + i], q # <<>>
  PROVE  /\ lo < hi
         /\ Head(q) = lo + 1
         /\ Tail(q) = [i \in 1..hi - (lo + 1) |-> (lo + 1) + i]
<1>1. q \in Seq(Nat) /\ Len(q) = hi - lo
  OBVIOUS
<1>2. lo < hi
  BY <1>1
<1>3. DOMAIN Tail(q) = 1..hi - (lo + 1)
  BY <1>1, <1>2
<1>4. \A i \in 1..hi - (lo + 1) : Tail(q)[i] = (lo + 1) + i
  BY <1>1, <1>2
<1>. QED  BY <1>1, <1>2, <1>3, <1>4

-----------------------------------------------------------------------------
(* Induction, with a set for the numbers that have the property: without an    *)
(* operator for a parameter it can be cited by name.                           *)
LEMMA SetInduction ==
  ASSUME NEW S, 0 \in S, \A n \in Nat : n \in S => n + 1 \in S
  PROVE  Nat \subseteq S
<1>. DEFINE T == Nat \ S
            Less == {ss \in Nat \X Nat : ss[1] < ss[2]}
<1>1. SUFFICES ASSUME T # {} PROVE FALSE
  OBVIOUS
<1>2. PICK x \in T : \A y \in T : ~ (<<y, x>> \in Less)
  <2>1. IsWellFoundedOn(Less, Nat)
    BY NatLessThanWellFounded, Zenon DEF OpToRel
  <2>2. T \subseteq Nat
    OBVIOUS
  <2>. HIDE DEF T, Less
  <2>. QED  BY <1>1, <2>1, <2>2, WFMin
<1>3. \A y \in T : ~(y < x)
  BY <1>2
<1>4. x - 1 \in Nat /\ x - 1 < x /\ x - 1 + 1 = x
  OBVIOUS
<1>. QED  BY <1>3, <1>4

-----------------------------------------------------------------------------
(* The least of some numbers up to n.                                          *)
LEMMA MinIsLeast ==
  ASSUME NEW n \in Nat, NEW S \in SUBSET (1..n), S # {}
  PROVE  Min(S) \in S /\ \A i \in S : Min(S) <= i
<1>. DEFINE Q(m) == m \in S => \E x \in S : \A y \in S : x <= y
            T == {m \in Nat : \A k \in 0..m : Q(k)}
<1>1. 0 \in T
  OBVIOUS
<1>2. ASSUME NEW m \in Nat, m \in T PROVE m + 1 \in T
  <2>1. \A k \in 0..m : Q(k)
    BY <1>2
  <2>2. ASSUME m + 1 \in S PROVE \E x \in S : \A y \in S : x <= y
    <3>1. CASE \E k \in 0..m : k \in S
      BY <2>1, <3>1
    <3>2. CASE \A k \in 0..m : k \notin S
      <4>1. \A y \in S : m + 1 <= y
        BY <3>2
      <4>. QED  BY <2>2, <4>1
    <3>. QED  BY <3>1, <3>2
  <2>3. \A k \in 0..m + 1 : k \in 0..m \/ k = m + 1
    OBVIOUS
  <2>. QED  BY <2>1, <2>2, <2>3
<1>3. Nat \subseteq T
  <2>. HIDE DEF T
  <2>. QED  BY <1>1, <1>2, SetInduction
<1>4. PICK m \in S : TRUE
  OBVIOUS
<1>5. m \in Nat /\ m \in 0..m
  OBVIOUS
<1>6. \E x \in S : \A y \in S : x <= y
  BY <1>3, <1>4, <1>5
<1>. QED  BY <1>6, Zenon DEF Min

(* A set of numbers up to n has a greatest one, and Max chooses it.            *)
LEMMA MaxIsGreatest ==
  ASSUME NEW n \in Nat, NEW S \in SUBSET (1..n), S # {}
  PROVE  Max(S) \in S /\ \A m \in S : m <= Max(S)
<1>. DEFINE Q(k) == \A T \in SUBSET (1..k) : T # {} => \E x \in T : \A y \in T : x >= y
            R == {k \in Nat : Q(k)}
<1>1. 0 \in R
  <2>1. \A T \in SUBSET (1..0) : T = {}
    OBVIOUS
  <2>2. Q(0)
    BY <2>1
  <2>. HIDE DEF Q
  <2>. QED  BY <2>2
<1>2. ASSUME NEW k \in Nat, k \in R PROVE k + 1 \in R
  <2>1. ASSUME NEW T \in SUBSET (1..k + 1), T # {} PROVE \E x \in T : \A y \in T : x >= y
    <3>1. CASE k + 1 \in T
      BY <3>1
    <3>2. CASE k + 1 \notin T
      <4>1. T \in SUBSET (1..k)
        BY <3>2
      <4>. QED  BY <1>2, <2>1, <4>1
    <3>. QED  BY <3>1, <3>2
  <2>. QED  BY <2>1
<1>3. Q(n)
  <2>1. Nat \subseteq R
    <3>. HIDE DEF R
    <3>. QED  BY <1>1, <1>2, SetInduction
  <2>. HIDE DEF Q
  <2>. QED  BY <2>1
<1>4. PICK x \in S : \A y \in S : x >= y
  BY <1>3
<1>5. Max(S) \in S /\ \A y \in S : Max(S) >= y
  BY <1>4 DEF Max
<1>. QED  BY <1>5

-----------------------------------------------------------------------------
(* FlattenSeq: where it puts the elements of each sequence.                    *)

Flattens(f, seqs, m) ==
  f[1] = seqs[1] /\ \A i \in 2..m : f[i] = f[i - 1] \o seqs[i]

(* The first m sequences fill w, the k-th one up to e[k].                      *)
Laid(w, e, seqs, m) ==
  /\ e[0] = 0 /\ Len(w) = e[m]
  /\ \A k \in 1..m : e[k] = e[k - 1] + Len(seqs[k])
  /\ \A k \in 1..m : \A i \in 1..Len(seqs[k]) : w[e[k - 1] + i] = seqs[k][i]

(* The function FlattenSeq is computed with can be continued by one sequence.  *)
LEMMA FlattensFurther ==
  ASSUME NEW U, NEW m \in Nat \ {0}, NEW seqs, seqs[m + 1] \in Seq(U),
         NEW f \in [1..m -> Seq(U)], Flattens(f, seqs, m)
  PROVE  \E g \in [1..m + 1 -> Seq(U)] : Flattens(g, seqs, m + 1)
<1>. DEFINE next == f[m] \o seqs[m + 1]
            g == [i \in 1..m + 1 |-> IF i = m + 1 THEN next ELSE f[i]]
<1>1. next \in Seq(U)
  BY ConcatProperties
<1>2. g \in [1..m + 1 -> Seq(U)]
  <2>. HIDE DEF next
  <2>. QED  BY <1>1
<1>3. \A i \in 1..m : g[i] = f[i]
  <2>. HIDE DEF next
  <2>. QED  OBVIOUS
<1>4. g[m + 1] = g[m] \o seqs[m + 1]
  <2>1. g[m + 1] = next
    <3>. HIDE DEF next
    <3>. QED  OBVIOUS
  <2>2. g[m] = f[m]
    BY <1>3
  <2>. HIDE DEF g
  <2>. QED  BY <2>1, <2>2
<1>5. Flattens(g, seqs, m + 1)
  <2>. HIDE DEF g
  <2>1. \A i \in 2..m : g[i] = g[i - 1] \o seqs[i]
    <3>. TAKE i \in 2..m
    <3>1. g[i] = f[i] /\ g[i - 1] = f[i - 1]
      BY <1>3
    <3>2. f[i] = f[i - 1] \o seqs[i]
      BY DEF Flattens
    <3>. QED  BY <3>1, <3>2
  <2>2. ASSUME NEW i \in 2..m + 1 PROVE g[i] = g[i - 1] \o seqs[i]
    <3>1. CASE i = m + 1
      <4>1. i - 1 = m
        BY <3>1
      <4>. QED  BY <1>4, <3>1, <4>1
    <3>2. CASE i # m + 1
      <4>1. i \in 2..m
        BY <3>2
      <4>. QED  BY <2>1, <4>1
    <3>. QED  BY <3>1, <3>2
  <2>3. g[1] = seqs[1]
    BY <1>3 DEF Flattens
  <2>. QED  BY <2>2, <2>3 DEF Flattens
<1>. QED  BY <1>2, <1>5

(* One more sequence is laid behind the others.                                *)
LEMMA LaidFurther ==
  ASSUME NEW U, NEW m \in Nat, NEW seqs, NEW w \in Seq(U), NEW v \in Seq(U), v = seqs[m + 1],
         \A k \in 1..m : Len(seqs[k]) \in Nat,
         NEW d \in [0..m -> Nat], Laid(w, d, seqs, m), \A k \in 0..m : d[k] <= d[m]
  PROVE  \E e \in [0..m + 1 -> Nat] :
           Laid(w \o v, e, seqs, m + 1) /\ \A k \in 0..m + 1 : e[k] <= e[m + 1]
<1>. DEFINE all == d[m] + Len(v)
            e == [k \in 0..m + 1 |-> IF k = m + 1 THEN all ELSE d[k]]
            x == w \o v
<1>1. Len(v) \in Nat /\ d[m] \in Nat /\ all \in Nat /\ Len(w) = d[m]
  BY DEF Laid
<1>2. x \in Seq(U) /\ Len(x) = all
  <2>1. x \in Seq(U) /\ Len(x) = Len(w) + Len(v)
    BY ConcatProperties
  <2>. HIDE DEF x
  <2>. QED  BY <1>1, <2>1
<1>3. /\ \A i \in 1..d[m] : x[i] = w[i]
      /\ \A i \in 1..Len(v) : x[d[m] + i] = v[i]
  <2>1. \A i \in 1..Len(w) + Len(v) : x[i] = IF i <= Len(w) THEN w[i] ELSE v[i - Len(w)]
    BY ConcatProperties
  <2>2. Len(w) = d[m] /\ Len(w) \in Nat /\ Len(v) \in Nat
    BY <1>1
  <2>. HIDE DEF x
  <2>3. ASSUME NEW i \in 1..Len(w) PROVE x[i] = w[i]
    BY <2>1, <2>2
  <2>4. ASSUME NEW i \in 1..Len(v) PROVE x[Len(w) + i] = v[i]
    <3>1. Len(w) + i \in 1..Len(w) + Len(v) /\ ~(Len(w) + i <= Len(w)) /\ Len(w) + i - Len(w) = i
      BY <2>2
    <3>. QED  BY <2>1, <3>1
  <2>. QED  BY <2>2, <2>3, <2>4
<1>. HIDE DEF x
<1>4. e[m + 1] = all /\ (\A k \in 0..m : e[k] = d[k]) /\ e \in [0..m + 1 -> Nat]
  BY <1>1
<1>. HIDE DEF e
<1>5. ASSUME NEW k \in 1..m + 1 PROVE e[k] = e[k - 1] + Len(seqs[k])
  <2>1. CASE k = m + 1
    <3>1. k - 1 = m
      BY <2>1
    <3>. QED  BY <1>4, <2>1, <3>1
  <2>2. CASE k # m + 1
    <3>1. k \in 1..m /\ k \in 0..m /\ k - 1 \in 0..m
      BY <2>2
    <3>2. d[k] = d[k - 1] + Len(seqs[k])
      BY <3>1 DEF Laid
    <3>. QED  BY <1>4, <3>1, <3>2
  <2>. QED  BY <2>1, <2>2
<1>6. ASSUME NEW k \in 1..m + 1, NEW i \in 1..Len(seqs[k]) PROVE x[e[k - 1] + i] = seqs[k][i]
  <2>1. CASE k = m + 1
    <3>1. k - 1 = m /\ e[m] = d[m] /\ seqs[k] = v
      BY <1>4, <2>1
    <3>. QED  BY <1>3, <3>1
  <2>2. CASE k # m + 1
    <3>1. k \in 1..m /\ k \in 0..m /\ k - 1 \in 0..m
      BY <2>2
    <3>2. d[k] = d[k - 1] + Len(seqs[k]) /\ w[d[k - 1] + i] = seqs[k][i]
      BY <3>1 DEF Laid
    <3>3. /\ d[k] <= d[m] /\ d[k - 1] \in Nat /\ d[k] \in Nat /\ Len(seqs[k]) \in Nat
          /\ i \in Nat /\ 1 <= i /\ i <= Len(seqs[k])
      BY <3>1
    <3>4. d[k - 1] + i \in 1..d[m]
      <4>. DEFINE low == d[k - 1]
                  high == d[k]
                  top == d[m]
                  length == Len(seqs[k])
      <4>1. /\ low \in Nat /\ high \in Nat /\ top \in Nat /\ length \in Nat
            /\ high = low + length /\ high <= top /\ i \in Nat /\ 1 <= i /\ i <= length
        BY <3>2, <3>3
      <4>. HIDE DEF low, high, top, length
      <4>2. low + i \in 1..top
        BY <4>1
      <4>. QED  BY <4>2 DEF low, top
    <3>. QED  BY <1>3, <1>4, <3>1, <3>2, <3>4
  <2>. QED  BY <2>1, <2>2
<1>7. e[0] = 0
  BY <1>4 DEF Laid
<1>8. Laid(x, e, seqs, m + 1)
  BY <1>2, <1>4, <1>5, <1>6, <1>7 DEF Laid
<1>9. \A k \in 0..m + 1 : e[k] <= e[m + 1]
  <2>. TAKE k \in 0..m + 1
  <2>1. CASE k = m + 1
    BY <2>1, <1>1, <1>4
  <2>2. CASE k # m + 1
    <3>1. k \in 0..m
      BY <2>2
    <3>2. d[k] <= d[m] /\ d[k] \in Nat
      BY <3>1
    <3>. QED  BY <1>1, <1>4, <3>1, <3>2
  <2>. QED  BY <2>1, <2>2
<1>. QED  BY <1>4, <1>8, <1>9 DEF x

(* FlattenSeq lays its sequences one behind the other.                         *)
LEMMA FlattenLayout ==
  ASSUME NEW U, NEW n \in Nat, NEW seqs \in [1..n -> Seq(U)]
  PROVE  /\ FlattenSeq(seqs) \in Seq(U)
         /\ \E e \in [0..n -> Nat] : Laid(FlattenSeq(seqs), e, seqs, n)
<1>0. seqs \in Seq(Seq(U)) /\ Len(seqs) = n
  OBVIOUS
<1>1. CASE n = 0
  <2>1. FlattenSeq(seqs) = seqs /\ Len(seqs) = 0 /\ seqs \in Seq(U)
    BY <1>0, <1>1 DEF FlattenSeq
  <2>. DEFINE e == [k \in 0..0 |-> 0]
  <2>2. e \in [0..n -> Nat] /\ Laid(seqs, e, seqs, n)
    BY <1>1, <2>1 DEF Laid
  <2>. QED  BY <2>1, <2>2
<1>2. CASE n # 0
  <2>. DEFINE Q(m) == m + 1 <= n => \E f \in [1..m + 1 -> Seq(U)] : Flattens(f, seqs, m + 1)
              S == {m \in Nat : Q(m)}
  <2>1. 0 \in S
    <3>. DEFINE f == [i \in 1..1 |-> seqs[1]]
    <3>1. seqs[1] \in Seq(U)
      BY <1>2
    <3>2. f \in [1..1 -> Seq(U)] /\ Flattens(f, seqs, 1)
      BY <3>1 DEF Flattens
    <3>. QED  BY <3>2
  <2>2. ASSUME NEW m \in Nat, m \in S PROVE m + 1 \in S
    <3>1. ASSUME m + 2 <= n PROVE \E f \in [1..m + 2 -> Seq(U)] : Flattens(f, seqs, m + 2)
      <4>1. PICK f \in [1..m + 1 -> Seq(U)] : Flattens(f, seqs, m + 1)
        BY <2>2, <3>1
      <4>2. m + 1 \in Nat \ {0} /\ m + 1 + 1 = m + 2 /\ seqs[m + 1 + 1] \in Seq(U)
        BY <3>1
      <4>3. \E g \in [1..m + 1 + 1 -> Seq(U)] : Flattens(g, seqs, m + 1 + 1)
        BY <4>1, <4>2, FlattensFurther
      <4>. QED  BY <4>2, <4>3
    <3>2. m + 1 + 1 = m + 2
      OBVIOUS
    <3>. QED  BY <3>1, <3>2
  <2>3. PICK f \in [1..n -> Seq(U)] : Flattens(f, seqs, n)
    <3>1. Nat \subseteq S
      <4>. HIDE DEF S
      <4>. QED  BY <2>1, <2>2, SetInduction
    <3>2. n - 1 \in Nat /\ n - 1 + 1 = n /\ n <= n
      BY <1>2
    <3>3. Q(n - 1)
      <4>. HIDE DEF Q
      <4>. QED  BY <3>1, <3>2
    <3>. QED  BY <3>2, <3>3
  <2>. DEFINE Is(h) == h = [i \in 1..n |-> IF i = 1 THEN seqs[i] ELSE h[i - 1] \o seqs[i]]
  <2>4. Is(f)
    <3>1. ASSUME NEW i \in 1..n PROVE f[i] = IF i = 1 THEN seqs[i] ELSE f[i - 1] \o seqs[i]
      <4>1. CASE i = 1
        BY <2>3, <4>1 DEF Flattens
      <4>2. CASE i # 1
        <5>1. i \in 2..n
          BY <4>2
        <5>2. f[i] = f[i - 1] \o seqs[i]
          BY <2>3, <5>1 DEF Flattens
        <5>. QED  BY <4>2, <5>2
      <4>. QED  BY <4>1, <4>2
    <3>. QED  BY <3>1, Zenon
  <2>. DEFINE h == CHOOSE g : Is(g)
  <2>5. FlattenSeq(seqs) = h[n]
    BY <1>0, <1>2, Zenon DEF FlattenSeq
  <2>6. Is(h)
    <3>. HIDE DEF Is
    <3>. QED  BY <2>4
  <2>7. Flattens(h, seqs, n)
    <3>. HIDE DEF h
    <3>0. 1 \in 1..n
      BY <1>2
    <3>1. h[1] = seqs[1]
      BY <2>6, <3>0, Zenon
    <3>2. ASSUME NEW i \in 2..n PROVE h[i] = h[i - 1] \o seqs[i]
      <4>1. i \in 1..n /\ i # 1
        OBVIOUS
      <4>. QED  BY <2>6, <4>1, Zenon
    <3>. QED  BY <3>1, <3>2 DEF Flattens
  <2>. HIDE DEF h
  <2>. DEFINE P(m) == m + 1 <= n => /\ h[m + 1] \in Seq(U)
                                    /\ \E e \in [0..m + 1 -> Nat] :
                                         /\ Laid(h[m + 1], e, seqs, m + 1)
                                         /\ \A k \in 0..m + 1 : e[k] <= e[m + 1]
              R == {m \in Nat : P(m)}
  <2>8. 0 \in R
    <3>. DEFINE e == [k \in 0..1 |-> IF k = 0 THEN 0 ELSE Len(seqs[1])]
    <3>1. seqs[1] \in Seq(U) /\ Len(seqs[1]) \in Nat /\ h[1] = seqs[1]
      BY <1>2, <2>7 DEF Flattens
    <3>2. e[0] = 0 /\ e[1] = Len(seqs[1]) /\ e \in [0..1 -> Nat]
      BY <3>1
    <3>. HIDE DEF e
    <3>3. Laid(h[1], e, seqs, 1)
      BY <3>1, <3>2 DEF Laid
    <3>4. \A k \in 0..1 : e[k] <= e[1]
      BY <3>1, <3>2
    <3>5. 0 + 1 = 1
      OBVIOUS
    <3>6. P(0)
      BY <3>1, <3>2, <3>3, <3>4, <3>5
    <3>. QED  BY <3>6
  <2>9. ASSUME NEW m \in Nat, m \in R PROVE m + 1 \in R
    <3>1. ASSUME m + 2 <= n
          PROVE  /\ h[m + 2] \in Seq(U)
                 /\ \E e \in [0..m + 2 -> Nat] : /\ Laid(h[m + 2], e, seqs, m + 2)
                                                 /\ \A k \in 0..m + 2 : e[k] <= e[m + 2]
      <4>. DEFINE p == m + 1
                  r == m + 2
      <4>0. /\ p \in Nat /\ p + 1 = r /\ r - 1 = p
            /\ r \in 2..n /\ r \in 1..n /\ 1..p \subseteq 1..n
        BY <3>1
      <4>. HIDE DEF p, r
      <4>1. /\ h[p] \in Seq(U)
            /\ \E e \in [0..p -> Nat] : Laid(h[p], e, seqs, p) /\ \A k \in 0..p : e[k] <= e[p]
        <5>1. P(m)
          <6>. HIDE DEF P
          <6>. QED  BY <2>9
        <5>2. m + 1 <= n
          BY <3>1
        <5>. QED  BY <5>1, <5>2, Zenon DEF p
      <4>2. PICK d \in [0..p -> Nat] : Laid(h[p], d, seqs, p) /\ \A k \in 0..p : d[k] <= d[p]
        BY <4>1
      <4>3. seqs[r] \in Seq(U) /\ \A k \in 1..p : Len(seqs[k]) \in Nat
        <5>1. seqs[r] \in Seq(U)
          BY <4>0
        <5>2. \A k \in 1..n : Len(seqs[k]) \in Nat
          OBVIOUS
        <5>. QED  BY <4>0, <5>1, <5>2
      <4>4. h[r] = h[p] \o seqs[r]
        <5>1. \A i \in 2..n : h[i] = h[i - 1] \o seqs[i]
          BY <2>7 DEF Flattens
        <5>2. h[r] = h[r - 1] \o seqs[r]
          BY <4>0, <5>1, Zenon
        <5>. QED  BY <4>0, <5>2
      <4>5. \E e \in [0..p + 1 -> Nat] :
              Laid(h[p] \o seqs[r], e, seqs, p + 1) /\ \A k \in 0..p + 1 : e[k] <= e[p + 1]
        <5>1. seqs[r] = seqs[p + 1]
          BY <4>0
        <5>. QED  BY <4>0, <4>1, <4>2, <4>3, <5>1, LaidFurther
      <4>6. h[r] \in Seq(U)
        BY <4>1, <4>3, <4>4, ConcatProperties
      <4>. QED  BY <4>0, <4>4, <4>5, <4>6 DEF r
    <3>2. m + 1 + 1 = m + 2
      OBVIOUS
    <3>3. P(m + 1)
      BY <3>1, <3>2
    <3>. HIDE DEF P
    <3>. QED  BY <3>3
  <2>10. P(n - 1)
    <3>1. Nat \subseteq R
      <4>. HIDE DEF R
      <4>. QED  BY <2>8, <2>9, SetInduction
    <3>2. n - 1 \in Nat
      BY <1>2
    <3>. HIDE DEF P
    <3>. QED  BY <3>1, <3>2
  <2>11. n - 1 + 1 = n /\ n <= n
    OBVIOUS
  <2>. QED  BY <2>5, <2>10, <2>11
<1>. QED  BY <1>1, <1>2

(* Two sequences joined, element by element.                                   *)
LEMMA JoinOf ==
  ASSUME NEW S, NEW s \in Seq(S), NEW t \in Seq(S)
  PROVE  /\ s \o t \in Seq(S) /\ Len(s \o t) = Len(s) + Len(t)
         /\ \A i \in 1..Len(s) : (s \o t)[i] = s[i]
         /\ \A i \in 1..Len(t) : (s \o t)[Len(s) + i] = t[i]
<1>. DEFINE m == Len(s)
            n == Len(t)
            x == s \o t
<1>1. m \in Nat /\ n \in Nat
  OBVIOUS
<1>2. x \in Seq(S) /\ Len(x) = m + n
  OBVIOUS
<1>3. \A i \in 1..m + n : x[i] = IF i <= m THEN s[i] ELSE t[i - m]
  BY ConcatProperties
<1>. HIDE DEF m, n, x
<1>4. ASSUME NEW i \in 1..n PROVE x[m + i] = t[i]
  <2>1. m + i \in 1..m + n /\ ~(m + i <= m) /\ m + i - m = i
    BY <1>1
  <2>. QED  BY <1>1, <1>3, <2>1
<1>5. \A i \in 1..m : x[i] = s[i]
  BY <1>1, <1>3
<1>. QED  BY <1>2, <1>4, <1>5 DEF m, n, x
=============================================================================
