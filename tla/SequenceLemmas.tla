--------------------------- MODULE SequenceLemmas ---------------------------
(***************************************************************************)
(* What the list operations of the key pools do to a list without          *)
(* repetition, what one write more or less does to a bag of writes, the    *)
(* arithmetic of positions on a ring, what a selection from a list holds,  *)
(* and where a search that jumps back through a list ends.                 *)
(***************************************************************************)
EXTENDS Naturals, FiniteSets, Bags, SequencesExt, KeyLists, Selection,
        SequenceTheorems, FiniteSetTheorems, FunctionTheorems, WellFoundedInduction, TLAPS

\* The length SubSeqProperties gives a tail, simplified.
LEMMA TailLength ==
    ASSUME NEW n \in Nat, NEW p \in 1..n
    PROVE  (IF p + 1 <= n THEN n - (p + 1) + 1 ELSE 0) = n - p
OBVIOUS

\* Dropping one position of a list without repetition drops one element.
LEMMA RemoveAtFacts ==
    ASSUME NEW S, NEW s \in Seq(S), NEW p \in 1..Len(s),
           \A i, j \in 1..Len(s) : s[i] = s[j] => i = j
    PROVE  /\ RemoveAt(s, p) \in Seq(S)
           /\ Len(RemoveAt(s, p)) = Len(s) - 1
           /\ ToSet(RemoveAt(s, p)) = ToSet(s) \ {s[p]}
           /\ \A i, j \in 1..Len(s) - 1 :
                 RemoveAt(s, p)[i] = RemoveAt(s, p)[j] => i = j
<1> DEFINE a == SubSeq(s, 1, p - 1)
           b == SubSeq(s, p + 1, Len(s))
           t == RemoveAt(s, p)
<1> HIDE DEF a, b, t
<1>1. /\ Len(s) \in Nat /\ DOMAIN s = 1..Len(s)
      /\ \A i \in 1..Len(s) : s[i] \in S
  BY LenProperties, ElementOfSeq
<1>2. /\ a \in Seq(S) /\ Len(a) = p - 1
      /\ \A i \in 1..p - 1 : a[i] = s[i]
  <2>1. \A i \in 1..p - 1 : s[i] \in S
    BY <1>1
  <2>2. /\ a \in Seq(S)
        /\ Len(a) = IF 1 <= p - 1 THEN (p - 1) - 1 + 1 ELSE 0
        /\ \A i \in 1..((p - 1) - 1 + 1) : a[i] = s[1 + i - 1]
    BY <2>1, SubSeqProperties, <1>1 DEF a
  <2> QED BY <2>2, <1>1
<1>3. /\ b \in Seq(S) /\ Len(b) = Len(s) - p
      /\ \A i \in 1..Len(s) - p : b[i] = s[p + i]
  <2>1. \A i \in (p + 1)..Len(s) : s[i] \in S
    BY <1>1
  <2>2. /\ b \in Seq(S)
        /\ Len(b) = IF p + 1 <= Len(s) THEN Len(s) - (p + 1) + 1 ELSE 0
        /\ \A i \in 1..(Len(s) - (p + 1) + 1) : b[i] = s[(p + 1) + i - 1]
    BY <2>1, SubSeqProperties, <1>1 DEF b
  <2>3. \A i \in 1..Len(s) - p : b[i] = s[p + i]
    <3> TAKE i \in 1..Len(s) - p
    <3>1. i \in 1..(Len(s) - (p + 1) + 1) /\ (p + 1) + i - 1 = p + i
      BY <1>1, TailLength
    <3> QED BY <2>2, <3>1
  <2>4. Len(b) = Len(s) - p
    <3>1. (IF p + 1 <= Len(s) THEN Len(s) - (p + 1) + 1 ELSE 0) = Len(s) - p
      BY <1>1, TailLength
    <3> QED BY <2>2, <3>1
  <2> QED BY <2>2, <2>3, <2>4
<1>4. /\ t \in Seq(S) /\ Len(t) = Len(s) - 1
      /\ \A i \in 1..Len(s) - 1 : t[i] = IF i < p THEN s[i] ELSE s[i + 1]
  <2>1. t = a \o b
    BY DEF RemoveAt, a, b, t
  <2>2. /\ t \in Seq(S) /\ Len(t) = Len(a) + Len(b)
        /\ \A i \in 1..Len(a) + Len(b) :
              t[i] = IF i <= Len(a) THEN a[i] ELSE b[i - Len(a)]
    <3>1. a \in Seq(S) /\ b \in Seq(S)
      BY <1>2, <1>3
    <3>2. /\ a \o b \in Seq(S) /\ Len(a \o b) = Len(a) + Len(b)
          /\ \A i \in 1..Len(a) + Len(b) :
                (a \o b)[i] = IF i <= Len(a) THEN a[i] ELSE b[i - Len(a)]
      BY <3>1, ConcatProperties
    <3> QED BY <2>1, <3>2, Zenon
  <2> QED BY <2>2, <1>1, <1>2, <1>3
<1>5. DOMAIN t = 1..Len(s) - 1
  BY <1>4, LenProperties
<1>6. ToSet(t) = ToSet(s) \ {s[p]}
  <2>1. ASSUME NEW i \in 1..Len(s) - 1 PROVE t[i] \in ToSet(s) \ {s[p]}
    BY <1>1, <1>4 DEF ToSet
  <2>2. ASSUME NEW j \in 1..Len(s), s[j] # s[p] PROVE s[j] \in ToSet(t)
    <3>1. CASE j < p
      BY <3>1, <1>1, <1>4, <1>5 DEF ToSet
    <3>2. CASE p < j
      <4>1. j - 1 \in 1..Len(s) - 1 /\ t[j - 1] = s[j]
        BY <3>2, <1>1, <1>4
      <4> QED BY <4>1, <1>5 DEF ToSet
    <3> QED BY <3>1, <3>2, <2>2, <1>1
  <2> QED BY <2>1, <2>2, <1>1, <1>5 DEF ToSet
<1>7. \A i, j \in 1..Len(s) - 1 : t[i] = t[j] => i = j
  BY <1>1, <1>4
<1> QED BY <1>4, <1>6, <1>7 DEF t

\* The members of a list.
Elems(s) == {s[i] : i \in DOMAIN s}

(***************************************************************************)
(* Lists and bags                                                          *)
(***************************************************************************)
LEMMA WithoutFacts ==
    ASSUME NEW S, NEW s \in Seq(S), IsInjective(s), NEW k
    PROVE  /\ Without(s, k) \in Seq(S) /\ IsInjective(Without(s, k))
           /\ Elems(Without(s, k)) = Elems(s) \ {k}
<1>1. DOMAIN s = 1..Len(s) /\ Len(s) \in Nat
  BY LenProperties
<1>2. CASE {i \in DOMAIN s : s[i] = k} = {}
  BY <1>2 DEF Without, Elems
<1>3. CASE {i \in DOMAIN s : s[i] = k} # {}
  <2> DEFINE p == CHOOSE i \in {i \in DOMAIN s : s[i] = k} : TRUE
             t == RemoveAt(s, p)
  <2>1. p \in 1..Len(s) /\ s[p] = k
    BY <1>1, <1>3
  <2>2. Without(s, k) = t
    BY <1>3 DEF Without
  <2> HIDE DEF p, t
  <2>3. \A i, j \in 1..Len(s) : s[i] = s[j] => i = j
    BY <1>1 DEF IsInjective
  <2>4. /\ t \in Seq(S) /\ Len(t) = Len(s) - 1 /\ ToSet(t) = ToSet(s) \ {s[p]}
        /\ \A i, j \in 1..Len(s) - 1 : t[i] = t[j] => i = j
    BY <2>1, <2>3, RemoveAtFacts DEF t
  <2>5. DOMAIN t = 1..Len(s) - 1
    BY <2>4, LenProperties
  <2>6. Elems(t) = ToSet(t) /\ Elems(s) = ToSet(s)
    BY DEF Elems, ToSet
  <2>7. IsInjective(t)
    BY <2>4, <2>5 DEF IsInjective
  <2> QED BY <2>1, <2>2, <2>4, <2>6, <2>7
<1> QED BY <1>2, <1>3

LEMMA AppendFacts ==
    ASSUME NEW S, NEW s \in Seq(S), IsInjective(s), NEW k \in S, k \notin Elems(s)
    PROVE  /\ Append(s, k) \in Seq(S) /\ IsInjective(Append(s, k))
           /\ Elems(Append(s, k)) = Elems(s) \cup {k}
           /\ Len(Append(s, k)) = Len(s) + 1
<1> DEFINE t == Append(s, k)
<1>1. /\ t \in Seq(S) /\ Len(t) = Len(s) + 1
      /\ DOMAIN s = 1..Len(s) /\ DOMAIN t = 1..Len(s) + 1 /\ Len(s) \in Nat
      /\ \A i \in 1..Len(s) : t[i] = s[i]
      /\ t[Len(s) + 1] = k
  OBVIOUS
<1> HIDE DEF t
<1>2. IsInjective(t)
  BY <1>1 DEF IsInjective, Elems
<1>3. Elems(t) = Elems(s) \cup {k}
  <2>1. Elems(t) \subseteq Elems(s) \cup {k}
    BY <1>1 DEF Elems
  <2>2. Elems(s) \subseteq Elems(t)
    BY <1>1 DEF Elems
  <2>3. k \in Elems(t)
    <3>1. Len(s) + 1 \in DOMAIN t
      BY <1>1
    <3> QED BY <1>1, <3>1 DEF Elems
  <2> QED BY <2>1, <2>2, <2>3
<1> QED BY <1>1, <1>2, <1>3 DEF t

\* One more copy of w.
LEMMA BagAdd ==
    ASSUME NEW B, IsABag(B), NEW w
    PROVE  /\ IsABag(B (+) SetToBag({w}))
           /\ DOMAIN (B (+) SetToBag({w})) = DOMAIN B \cup {w}
           /\ \A v \in DOMAIN B \ {w} : (B (+) SetToBag({w}))[v] = B[v]
           /\ w \notin DOMAIN B => (B (+) SetToBag({w}))[w] = 1
<1> DEFINE one == SetToBag({w})
           C   == B (+) one
<1>1. DOMAIN one = {w} /\ one[w] = 1
  BY DEF SetToBag
<1>2. B \in [DOMAIN B -> {n \in Nat : n > 0}]
  BY DEF IsABag
<1> HIDE DEF one
<1>3. C = [e \in DOMAIN B \cup {w} |-> (IF e \in DOMAIN B THEN B[e] ELSE 0)
                                     + (IF e \in {w} THEN one[e] ELSE 0)]
  BY <1>1 DEF (+)
<1> HIDE DEF C
<1>4. DOMAIN C = DOMAIN B \cup {w}
  BY <1>3
<1>5. ASSUME NEW v \in DOMAIN B \ {w} PROVE C[v] = B[v] /\ C[v] \in {n \in Nat : n > 0}
  <2>1. C[v] = B[v] + 0
    BY <1>3, <1>5
  <2>2. B[v] \in Nat /\ B[v] > 0
    BY <1>2
  <2> QED BY <2>1, <2>2
<1>6. C[w] = (IF w \in DOMAIN B THEN B[w] ELSE 0) + 1
  BY <1>1, <1>3
<1>7. C[w] \in {n \in Nat : n > 0} /\ (w \notin DOMAIN B => C[w] = 1)
  <2>1. w \in DOMAIN B => B[w] \in Nat
    BY <1>2
  <2> QED BY <1>6, <2>1
<1>8. C \in [DOMAIN C -> {n \in Nat : n > 0}]
  BY <1>3, <1>4, <1>5, <1>7
<1> QED BY <1>4, <1>5, <1>7, <1>8 DEF IsABag, C, one

\* One more copy of every member of W.
LEMMA BagAddSet ==
    ASSUME NEW B, IsABag(B), NEW W
    PROVE  /\ IsABag(B (+) SetToBag(W))
           /\ BagToSet(B (+) SetToBag(W)) = BagToSet(B) \cup W
<1> DEFINE one == SetToBag(W)
           C   == B (+) one
<1>1. DOMAIN one = W /\ \A w \in W : one[w] = 1
  BY DEF SetToBag
<1>2. B \in [DOMAIN B -> {n \in Nat : n > 0}]
  BY DEF IsABag
<1> HIDE DEF one
<1>3. C = [e \in DOMAIN B \cup W |-> (IF e \in DOMAIN B THEN B[e] ELSE 0)
                                  + (IF e \in W THEN one[e] ELSE 0)]
  BY <1>1 DEF (+)
<1> HIDE DEF C
<1>4. DOMAIN C = DOMAIN B \cup W
  BY <1>3
<1>5. ASSUME NEW v \in DOMAIN C PROVE C[v] \in {n \in Nat : n > 0}
  <2>1. C[v] = (IF v \in DOMAIN B THEN B[v] ELSE 0) + (IF v \in W THEN 1 ELSE 0)
    BY <1>1, <1>3, <1>4
  <2>2. v \in DOMAIN B => B[v] \in Nat /\ B[v] > 0
    BY <1>2
  <2> QED BY <1>4, <2>1, <2>2
<1>6. C \in [DOMAIN C -> {n \in Nat : n > 0}]
  BY <1>3, <1>4, <1>5
<1> QED BY <1>4, <1>6 DEF IsABag, C, one, BagToSet

\* One copy of w less.
LEMMA BagRemove ==
    ASSUME NEW B, IsABag(B), NEW w \in DOMAIN B
    PROVE  /\ IsABag(B (-) SetToBag({w}))
           /\ DOMAIN (B (-) SetToBag({w})) \subseteq DOMAIN B
           /\ DOMAIN B \ {w} \subseteq DOMAIN (B (-) SetToBag({w}))
           /\ \A v \in DOMAIN B \ {w} : (B (-) SetToBag({w}))[v] = B[v]
           /\ B[w] = 1 => w \notin DOMAIN (B (-) SetToBag({w}))
<1> DEFINE one == SetToBag({w})
           C   == B (-) one
           D   == [e \in DOMAIN B |-> IF e \in {w} THEN B[e] - one[e] ELSE B[e]]
<1>1. DOMAIN one = {w} /\ one[w] = 1
  BY DEF SetToBag
<1>2. B \in [DOMAIN B -> {n \in Nat : n > 0}]
  BY DEF IsABag
<1> HIDE DEF one
<1>3. C = [e \in {d \in DOMAIN D : D[d] > 0} |-> D[e]]
  BY <1>1 DEF (-)
<1>4. DOMAIN D = DOMAIN B
  OBVIOUS
<1>5. ASSUME NEW v \in DOMAIN B \ {w} PROVE D[v] = B[v] /\ D[v] \in Nat /\ D[v] > 0
  BY <1>2
<1>6. D[w] = B[w] - 1 /\ B[w] \in Nat
  BY <1>1, <1>2
<1> HIDE DEF C, D
<1>7. DOMAIN C = {d \in DOMAIN B : D[d] > 0}
  BY <1>3, <1>4
<1>8. \A v \in DOMAIN B \ {w} : v \in DOMAIN C /\ C[v] = B[v]
  BY <1>3, <1>5, <1>7
<1>9. B[w] = 1 => w \notin DOMAIN C
  BY <1>6, <1>7
<1>10. ASSUME NEW v \in DOMAIN C PROVE C[v] \in {n \in Nat : n > 0}
  <2>1. C[v] = D[v] /\ D[v] > 0 /\ v \in DOMAIN B
    BY <1>3, <1>4, <1>7
  <2>2. D[v] \in Nat \/ D[v] \in Int
    BY <1>5, <1>6, <2>1
  <2> QED BY <2>1, <2>2
<1>11. C = [e \in DOMAIN C |-> C[e]]
  BY <1>3, <1>4, <1>7
<1> QED BY <1>7, <1>8, <1>9, <1>10, <1>11 DEF IsABag, C, one

(***************************************************************************)
(* Positions                                                               *)
(***************************************************************************)
Less == {ss \in Nat \X Nat : ss[1] < ss[2]}

\* A nonempty set of positions has a first one.
LEMMA MinFacts ==
    ASSUME NEW S \in SUBSET Nat, S # {}
    PROVE  Min(S) \in S /\ Min(S) \in Nat /\ \A y \in S : Min(S) <= y
<1>1. IsWellFoundedOn(Less, Nat)
  <2>1. OpToRel(<, Nat) = Less
    BY Zenon DEF OpToRel, Less
  <2> QED BY <2>1, NatLessThanWellFounded, Zenon
<1>2. S \subseteq Nat
  OBVIOUS
<1>3. \E x \in S : \A y \in S : ~(<<y, x>> \in Less)
  BY <1>1, <1>2, WFMin, Zenon
<1>4. PICK x \in S : \A y \in S : ~(<<y, x>> \in Less)
  BY <1>3
<1>5. ASSUME NEW y \in S PROVE x <= y
  <2>1. x \in Nat /\ y \in Nat
    BY <1>2
  <2>2. ASSUME y < x PROVE FALSE
    <3>1. <<y, x>> \in Nat \X Nat
      BY <2>1
    <3>2. <<y, x>>[1] < <<y, x>>[2]
      BY <2>2
    <3>3. <<y, x>> \in Less
      BY <3>1, <3>2, Zenon DEF Less
    <3> QED BY <3>3, <1>4, Zenon
  <2> QED BY <2>1, <2>2
<1> QED BY <1>5 DEF Min

\* Division with remainder is unique.
LEMMA ModUnique ==
    ASSUME NEW n \in Nat, n > 0, NEW q \in Nat, NEW r \in 0..n - 1
    PROVE  (n * q + r) % n = r
<1> DEFINE x == n * q + r
           u == x \div n
           v == x % n
<1>0. n * q \in Nat /\ x \in Nat /\ r \in Nat
  OBVIOUS
<1>1. x = n * q + r
  OBVIOUS
<1> HIDE DEF x
<1>2. x = n * u + v /\ v \in 0..n - 1 /\ u \in Nat
  BY <1>0
<1> HIDE DEF u, v
<1>3. ASSUME u > q PROVE FALSE
  <2>1. PICK d \in Nat : u = q + 1 + d
    BY <1>2, <1>3, u - q - 1 \in Nat, u = q + 1 + (u - q - 1)
  <2>2. n * (q + 1 + d) = n * q + n + n * d /\ n * d \in Nat
    OBVIOUS
  <2>3. n * u >= n * q + n
    BY <1>0, <2>1, <2>2
  <2> QED BY <1>0, <1>1, <1>2, <2>3
<1>4. ASSUME u < q PROVE FALSE
  <2>1. PICK d \in Nat : q = u + 1 + d
    BY <1>2, <1>4, q - u - 1 \in Nat, q = u + 1 + (q - u - 1)
  <2>2. n * (u + 1 + d) = n * u + n + n * d /\ n * d \in Nat
    BY <1>2
  <2>3. n * q >= n * u + n
    BY <1>2, <2>1, <2>2
  <2> QED BY <1>0, <1>1, <1>2, <2>3
<1>5. u = q
  BY <1>2, <1>3, <1>4
<1>6. v = r
  BY <1>0, <1>1, <1>2, <1>5
<1> QED BY <1>6 DEF v, x

\* Going t positions on from x, round a ring of n.
LEMMA RingStep ==
    ASSUME NEW n \in Nat, n > 0, NEW x \in Nat, NEW t \in Nat
    PROVE  /\ x % n \in 0..n - 1
           /\ (x + t) % n = ((x % n) + t) % n
<1> DEFINE q == x \div n
           a == x % n
           p == (a + t) \div n
           b == (a + t) % n
<1>1. x = n * q + a /\ a \in 0..n - 1 /\ q \in Nat
  OBVIOUS
<1> HIDE DEF q, a
<1>2. a + t = n * p + b /\ b \in 0..n - 1 /\ p \in Nat
  BY <1>1
<1> HIDE DEF p
<1>3. x + t = n * (q + p) + b /\ q + p \in Nat
  <2>1. n * (q + p) = n * q + n * p
    BY <1>1, <1>2
  <2> HIDE DEF b
  <2>2. n * q \in Nat /\ n * p \in Nat
    BY <1>1, <1>2
  <2> QED BY <1>1, <1>2, <2>1, <2>2
<1> DEFINE m == q + p
<1>4. m \in Nat /\ x + t = n * m + b
  BY <1>3
<1> HIDE DEF m
<1>5. b \in 0..n - 1
  BY <1>2
<1>6. \A c \in 0..n - 1 : (n * m + c) % n = c
  BY <1>4, ModUnique
<1>7. (x + t) % n = b
  BY <1>4, <1>5, <1>6, Zenon
<1> QED BY <1>1, <1>7 DEF a, b

\* A whole turn leads back.
LEMMA WrapAround ==
    ASSUME NEW x \in Nat, NEW n \in Nat, n > 0
    PROVE  (x + n) % n = x % n
<1>1. x % n \in 0..n - 1 /\ (x + n) % n = ((x % n) + n) % n
  BY RingStep
<1>2. \A c \in 0..n - 1 : (c + n) % n = c
  <2> TAKE c \in 0..n - 1
  <2>1. c + n = n * 1 + c
    OBVIOUS
  <2> QED BY <2>1, ModUnique
<1> QED BY <1>1, <1>2, Zenon

\* Positions less than a turn apart are different.
LEMMA RingApart ==
    ASSUME NEW n \in Nat, n > 0, NEW x \in Nat, NEW t \in 1..n - 1
    PROVE  (x + t) % n # x % n
<1> DEFINE a == x % n
<1>1. a \in 0..n - 1 /\ (x + t) % n = (a + t) % n
  <2>1. t \in Nat
    OBVIOUS
  <2> QED BY <2>1, RingStep
<1> HIDE DEF a
<1>2. CASE a + t < n
  <2>1. \A c \in 0..n - 1 : c % n = c
    OBVIOUS
  <2>2. a + t \in 0..n - 1 /\ a + t # a
    BY <1>1, <1>2
  <2>3. (a + t) % n = a + t
    BY <2>1, <2>2
  <2> QED BY <1>1, <2>2, <2>3 DEF a
<1>3. CASE a + t >= n
  <2> DEFINE b == a + t - n
  <2>1. b \in 0..n - 1 /\ b \in Nat /\ b + n = a + t /\ b # a
    BY <1>1, <1>3
  <2> HIDE DEF b
  <2>2. (b + n) % n = b % n
    BY <2>1, WrapAround
  <2>3. \A c \in 0..n - 1 : c % n = c
    OBVIOUS
  <2>4. (a + t) % n = b
    BY <2>1, <2>2, <2>3, Zenon
  <2> QED BY <1>1, <2>1, <2>4 DEF a
<1> QED BY <1>1, <1>2, <1>3

\* Every position is less than one turn away from every other.
LEMMA RingReach ==
    ASSUME NEW n \in Nat, n > 0, NEW x \in Nat, NEW p \in 0..n - 1
    PROVE  \E t \in 0..n - 1 : (x + t) % n = p
<1> DEFINE a == x % n
           t == IF a <= p THEN p - a ELSE p + n - a
<1>1. a \in 0..n - 1
  OBVIOUS
<1> HIDE DEF a
<1>2. t \in 0..n - 1 /\ (a + t = p \/ a + t = p + n)
  BY <1>1
<1> HIDE DEF t
<1>3. p % n = p /\ (p + n) % n = p
  <2>1. p = n * 0 + p /\ p + n = n * 1 + p
    OBVIOUS
  <2> QED BY <2>1, ModUnique
<1>4. (a + t) % n = p
  <2>1. CASE a + t = p
    BY <2>1, <1>3, Zenon
  <2>2. CASE a + t = p + n
    BY <2>2, <1>3, Zenon
  <2> QED BY <1>2, <2>1, <2>2
<1>5. (x + t) % n = (a + t) % n
  <2>1. \A d \in Nat : (x + d) % n = ((x % n) + d) % n
    BY RingStep
  <2>2. t \in Nat
    BY <1>2
  <2> QED BY <2>1, <2>2, Zenon DEF a
<1> QED BY <1>2, <1>4, <1>5, Zenon

\* A list is a prefix of itself with more at the end.
LEMMA PrefixOf ==
    ASSUME NEW S, NEW s \in Seq(S), NEW t \in Seq(S)
    PROVE  IsPrefix(s, s \o t)
<1>1. Len(s) \in Nat /\ Len(t) \in Nat /\ \A i \in 1..Len(s) : s[i] \in S
  BY LenProperties, ElementOfSeq
<1>2. /\ s \o t \in Seq(S) /\ Len(s \o t) = Len(s) + Len(t)
      /\ \A i \in 1..Len(s) + Len(t) : (s \o t)[i] = IF i <= Len(s) THEN s[i] ELSE t[i - Len(s)]
  BY ConcatProperties
<1>3. \A i \in 1..Len(s) : (s \o t)[i] = s[i]
  <2> TAKE i \in 1..Len(s)
  <2>1. i \in 1..Len(s) + Len(t) /\ i <= Len(s)
    BY <1>1
  <2> QED BY <1>2, <2>1
<1> DEFINE a == SubSeq(s, 1, Len(s))
           b == SubSeq(s \o t, 1, Len(s))
<1>4. /\ a \in Seq(S) /\ Len(a) = IF 1 <= Len(s) THEN Len(s) - 1 + 1 ELSE 0
      /\ \A i \in 1..Len(s) - 1 + 1 : a[i] = s[1 + i - 1]
  BY <1>1, SubSeqProperties
<1>5. /\ b \in Seq(S) /\ Len(b) = IF 1 <= Len(s) THEN Len(s) - 1 + 1 ELSE 0
      /\ \A i \in 1..Len(s) - 1 + 1 : b[i] = (s \o t)[1 + i - 1]
  <2>1. \A i \in 1..Len(s) : (s \o t)[i] \in S
    BY <1>1, <1>3
  <2> QED BY <1>1, <2>1, SubSeqProperties
<1> HIDE DEF a, b
<1>6. \A i \in 1..Len(a) : a[i] = b[i]
  <2> TAKE i \in 1..Len(a)
  <2>1. i \in 1..Len(s) - 1 + 1 /\ 1 + i - 1 = i /\ i \in 1..Len(s)
    BY <1>1, <1>4
  <2> QED BY <1>3, <1>4, <1>5, <2>1
<1>7. a = b
  BY <1>4, <1>5, <1>6, SeqEqual
<1> QED BY <1>1, <1>2, <1>7 DEF IsPrefix, a, b

(***************************************************************************)
(* Selections                                                              *)
(***************************************************************************)
\* Every rank up to the number of positions belongs to one position.
LEMMA RankFacts ==
    ASSUME NEW I \in SUBSET Nat, IsFiniteSet(I)
    PROVE  /\ Cardinality(I) \in Nat
           /\ \A i \in I : Rank(I, i) \in 1..Cardinality(I)
           /\ \A i, j \in I : i < j => Rank(I, i) < Rank(I, j)
           /\ \A k \in 1..Cardinality(I) : \E i \in I : Rank(I, i) = k
<1> DEFINE n == Cardinality(I)
           Upto(i) == {j \in I : j <= i}
           rank == [i \in I |-> Rank(I, i)]
<1>1. n \in Nat
  BY FS_CardinalityType
<1>2. ASSUME NEW i \in I PROVE /\ IsFiniteSet(Upto(i)) /\ Rank(I, i) \in 1..n
                               /\ Rank(I, i) = Cardinality(Upto(i))
  <2>1. Upto(i) \in SUBSET I /\ i \in Upto(i)
    OBVIOUS
  <2>2. IsFiniteSet(Upto(i)) /\ Cardinality(Upto(i)) <= n
    BY <2>1, FS_Subset
  <2>3. Cardinality(Upto(i)) \in Nat
    BY <2>2, FS_CardinalityType
  <2>4. Cardinality(Upto(i)) # 0
    BY <2>1, <2>2, FS_EmptySet
  <2>5. Rank(I, i) = Cardinality(Upto(i))
    BY DEF Rank
  <2> QED BY <1>1, <2>2, <2>3, <2>4, <2>5
<1>3. ASSUME NEW i \in I, NEW j \in I, i < j PROVE Rank(I, i) < Rank(I, j)
  <2>1. Upto(i) \in SUBSET Upto(j) /\ j \in Upto(j) /\ j \notin Upto(i)
    <3>1. I \subseteq Int /\ i \in Int /\ j \in Int
      OBVIOUS
    <3>2. \A x \in Int : x <= i => x <= j
      BY <1>3, <3>1
    <3>3. j <= j /\ ~(j <= i)
      BY <1>3, <3>1
    <3> QED BY <3>1, <3>2, <3>3
  <2>2. Cardinality(Upto(i)) <= Cardinality(Upto(j)) /\ Cardinality(Upto(i)) # Cardinality(Upto(j))
    BY <1>2, <2>1, FS_Subset
  <2> HIDE DEF Upto
  <2> QED BY <1>1, <1>2, <2>2
<1>4. rank \in Injection(I, 1..n)
  <2>1. rank \in [I -> 1..n]
    BY <1>2
  <2>2. \A i, j \in I : rank[i] = rank[j] => i = j
    <3> SUFFICES ASSUME NEW i \in I, NEW j \in I, rank[i] = rank[j] PROVE i = j
      OBVIOUS
    <3>1. Rank(I, i) \in Nat /\ Rank(I, j) \in Nat
      <4>1. Rank(I, i) \in 1..n /\ Rank(I, j) \in 1..n
        BY <1>2
      <4> HIDE DEF n
      <4> QED BY <1>1, <4>1
    <3>4. Rank(I, i) = Rank(I, j)
      <4>1. rank[i] = Rank(I, i) /\ rank[j] = Rank(I, j)
        OBVIOUS
      <4> QED BY <4>1
    <3>2. ~(i < j) /\ ~(j < i)
      BY <1>3, <3>1, <3>4
    <3>3. i \in Int /\ j \in Int
      OBVIOUS
    <3> HIDE DEF rank, n
    <3> QED BY <3>2, <3>3
  <2> QED BY <2>1, <2>2 DEF Injection, IsInjective
<1>5. IsFiniteSet(1..n) /\ Cardinality(1..n) = n
  BY <1>1, FS_Interval
<1>6. rank \in Surjection(I, 1..n)
  BY <1>4, <1>5, FS_Injection
<1>7. \A k \in 1..n : \E i \in I : rank[i] = k
  BY <1>6 DEF Surjection
<1> QED BY <1>1, <1>2, <1>3, <1>7

\* A selection has the elements at the chosen positions, each once, in order.
LEMMA PickedFacts ==
    ASSUME NEW S, NEW s \in Seq(S), NEW I \in SUBSET DOMAIN s
    PROVE  /\ IsFiniteSet(I)
           /\ Picked(s, I) \in Seq(S) /\ Len(Picked(s, I)) = Cardinality(I)
           /\ DOMAIN Picked(s, I) = 1..Len(Picked(s, I))
           /\ \A i \in I : /\ Rank(I, i) \in DOMAIN Picked(s, I)
                           /\ Picked(s, I)[Rank(I, i)] = s[i]
           /\ \A k \in DOMAIN Picked(s, I) : \E i \in I : Rank(I, i) = k
           /\ \A i, j \in I : i <= j => Rank(I, i) <= Rank(I, j)
<1> DEFINE at(k) == CHOOSE i \in I : Rank(I, i) = k
<1>1. DOMAIN s = 1..Len(s) /\ Len(s) \in Nat /\ \A i \in DOMAIN s : s[i] \in S
  BY LenProperties, ElementOfSeq
<1>2. I \in SUBSET Nat /\ IsFiniteSet(I)
  <2>1. IsFiniteSet(1..Len(s)) /\ I \in SUBSET (1..Len(s)) /\ 1..Len(s) \subseteq Nat
    BY <1>1, FS_Interval
  <2>2. IsFiniteSet(I)
    BY <2>1, FS_Subset
  <2> QED BY <2>1, <2>2
<1>3. /\ Cardinality(I) \in Nat
      /\ \A i \in I : Rank(I, i) \in 1..Cardinality(I)
      /\ \A i, j \in I : i < j => Rank(I, i) < Rank(I, j)
      /\ \A k \in 1..Cardinality(I) : \E i \in I : Rank(I, i) = k
  BY <1>2, RankFacts
<1>4. \A k \in 1..Cardinality(I) : at(k) \in I /\ Rank(I, at(k)) = k
  BY <1>3
<1> HIDE DEF at
<1>5. Picked(s, I) = [k \in 1..Cardinality(I) |-> s[at(k)]]
  BY DEF Picked, at
<1>6. \A k \in 1..Cardinality(I) : s[at(k)] \in S
  BY <1>1, <1>4
<1>7. /\ Picked(s, I) \in Seq(S) /\ Len(Picked(s, I)) = Cardinality(I)
      /\ DOMAIN Picked(s, I) = 1..Cardinality(I)
  BY <1>3, <1>5, <1>6, SeqDef
<1>8. ASSUME NEW i \in I PROVE at(Rank(I, i)) = i
  <2>1. Rank(I, i) \in 1..Cardinality(I)
    BY <1>3
  <2>2. at(Rank(I, i)) \in I /\ Rank(I, at(Rank(I, i))) = Rank(I, i)
    BY <2>1, <1>4
  <2> DEFINE j == at(Rank(I, i))
  <2>3. j \in Nat /\ i \in Nat /\ Rank(I, i) \in Nat /\ ~(i < j) /\ ~(j < i)
    BY <1>2, <1>3, <2>1, <2>2
  <2> QED BY <2>3
<1>9. ASSUME NEW i \in I, NEW j \in I, i <= j PROVE Rank(I, i) <= Rank(I, j)
  <2>1. i \in Nat /\ j \in Nat /\ Rank(I, i) \in Nat /\ Rank(I, j) \in Nat
    BY <1>2, <1>3
  <2>2. i = j \/ i < j
    BY <1>9, <2>1
  <2> QED BY <1>3, <2>1, <2>2
<1>10. ASSUME NEW i \in I PROVE Picked(s, I)[Rank(I, i)] = s[i]
  BY <1>3, <1>5, <1>8
<1> QED BY <1>2, <1>3, <1>7, <1>9, <1>10

(***************************************************************************)
(* Searches                                                                *)
(***************************************************************************)
\* g searches back for a position of P, jumping by h.
Descends(g, n, P, h) == g = [i \in 1..n |-> IF i \in P THEN i ELSE g[h[i]]]

\* A search that stops at the positions of P and jumps to a smaller position
\* from every other one is well defined.
LEMMA DescentDefined ==
    ASSUME NEW n \in Nat, NEW P, NEW h, \A i \in 1..n : i \notin P => h[i] \in 1..i - 1
    PROVE  \E g : Descends(g, n, P, h)
<1> DEFINE Good(m) == \E g : Descends(g, m, P, h)
           Bad == {m \in 0..n : ~Good(m)}
<1>1. SUFFICES Bad = {}
  BY n \in 0..n
<1>2. SUFFICES ASSUME Bad # {} PROVE FALSE
  OBVIOUS
<1> DEFINE m == Min(Bad)
<1> HIDE DEF Good
<1>3. m \in 0..n /\ ~Good(m) /\ \A k \in Bad : m <= k
  <2>1. Bad \in SUBSET Nat
    OBVIOUS
  <2>2. m \in Bad /\ \A k \in Bad : m <= k
    <3> HIDE DEF Bad
    <3> QED BY <1>2, <2>1, MinFacts
  <2> QED BY <2>2
<1> HIDE DEF m
<1>4. m # 0
  <2>1. Good(0)
    <3> DEFINE g == [i \in 1..0 |-> i]
    <3>1. g = [i \in 1..0 |-> IF i \in P THEN i ELSE g[h[i]]]
      OBVIOUS
    <3> QED BY <3>1 DEF Good, Descends
  <2> QED BY <1>3, <2>1
<1>5. Good(m - 1)
  <2>1. m - 1 \in 0..n /\ ~(m <= m - 1)
    BY <1>3, <1>4
  <2> QED BY <1>3, <2>1
<1>6. PICK f : f = [i \in 1..m - 1 |-> IF i \in P THEN i ELSE f[h[i]]]
  BY <1>5 DEF Good, Descends
<1> DEFINE g == [i \in 1..m |-> IF i \in P THEN i ELSE f[h[i]]]
<1>7. \A i \in 1..m - 1 : g[i] = f[i]
  <2>1. \A i \in 1..m - 1 : i \in 1..m
    BY <1>3
  <2>2. \A i \in 1..m - 1 : f[i] = IF i \in P THEN i ELSE f[h[i]]
    BY <1>6
  <2> QED BY <2>1, <2>2
<1>8. \A i \in 1..m : i \notin P => g[h[i]] = f[h[i]]
  <2> SUFFICES ASSUME NEW i \in 1..m, i \notin P PROVE g[h[i]] = f[h[i]]
    OBVIOUS
  <2>1. i \in 1..n /\ 1..i - 1 \subseteq 1..m - 1
    BY <1>3
  <2>2. h[i] \in 1..m - 1
    BY <2>1
  <2> QED BY <1>7, <2>2
<1>9. g = [i \in 1..m |-> IF i \in P THEN i ELSE g[h[i]]]
  BY <1>8
<1>10. Good(m)
  <2> HIDE DEF g
  <2> QED BY <1>9 DEF Good, Descends
<1> QED BY <1>3, <1>10

\* It ends at a position of P, not above the one it started from.
LEMMA DescentEnds ==
    ASSUME NEW n \in Nat, NEW P, NEW h, \A i \in 1..n : i \notin P => h[i] \in 1..i - 1,
           NEW g, Descends(g, n, P, h)
    PROVE  \A i \in 1..n : g[i] \in P /\ g[i] \in 1..i
<1> DEFINE Bad == {i \in 1..n : ~(g[i] \in P /\ g[i] \in 1..i)}
           m == Min(Bad)
<1> SUFFICES ASSUME Bad # {} PROVE FALSE
  OBVIOUS
<1>1. m \in Bad /\ \A k \in Bad : m <= k
  <2>1. Bad \in SUBSET Nat
    OBVIOUS
  <2> HIDE DEF Bad
  <2> QED BY <2>1, MinFacts
<1> HIDE DEF m
<1>2. m \in 1..n /\ ~(g[m] \in P /\ g[m] \in 1..m)
  BY <1>1
<1>3. g[m] = IF m \in P THEN m ELSE g[h[m]]
  BY <1>2 DEF Descends
<1>4. m \notin P
  BY <1>2, <1>3
<1>5. h[m] \in 1..m - 1 /\ h[m] \in 1..n /\ ~(m <= h[m])
  BY <1>2, <1>4
<1>6. g[h[m]] \in P /\ g[h[m]] \in 1..h[m]
  BY <1>1, <1>5
<1>7. 1..h[m] \subseteq 1..m
  BY <1>2, <1>5
<1> QED BY <1>2, <1>3, <1>4, <1>6, <1>7

=============================================================================
