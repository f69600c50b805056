--------------------------- MODULE SequenceFacts ---------------------------
(***************************************************************************)
(* Facts about numbers and sequences that the proofs of several components *)
(* use.  Induction is stated with a set instead of a predicate, so that it *)
(* can be used by naming the set; it rests on the well-foundedness of the  *)
(* natural numbers.                                                        *)
(***************************************************************************)
EXTENDS Integers, Sequences, SequencesExt, TLAPS, SequenceTheorems,
        WellFoundedInduction

\* Every set of natural numbers that is not empty has a least element.
LEMMA LeastNatural ==
  ASSUME NEW S \in SUBSET Nat, S # {}
  PROVE  \E m \in S : \A k \in S : m <= k
<1> DEFINE R == OpToRel(<, Nat)
<1>1. IsWellFoundedOn(R, Nat)
  BY NatLessThanWellFounded
<1>2. S \subseteq Nat
  OBVIOUS
<1> HIDE DEF R
<1>3. \E x \in S : \A y \in S : ~ (<<y, x>> \in R)
  BY <1>1, <1>2, WFMin
<1>4. \A x, y \in Nat : y < x => <<y, x>> \in R
  BY Zenon DEF R, OpToRel
<1>5. \A x, y \in Nat : ~ (y < x) => x <= y
  OBVIOUS
<1> QED
  BY <1>2, <1>3, <1>4, <1>5

\* Induction: a set with 0 and with the successor of each of its numbers.
LEMMA SetInduction ==
  ASSUME NEW S, 0 \in S, \A n \in Nat : n \in S => n + 1 \in S
  PROVE  \A n \in Nat : n \in S
<1> DEFINE T == {n \in Nat : n \notin S}
<1>1. SUFFICES ASSUME T # {}
               PROVE  FALSE
  OBVIOUS
<1>2. PICK m \in T : \A k \in T : m <= k
  <2>1. T \in SUBSET Nat
    OBVIOUS
  <2> HIDE DEF T
  <2> QED
    BY <1>1, <2>1, LeastNatural
<1>3. m - 1 \in Nat /\ m - 1 \notin T
  BY <1>2
<1> QED
  BY <1>2, <1>3

\* Functions with the same values are the same.
LEMMA SameFunction ==
  ASSUME NEW S, NEW T, NEW f \in [S -> T], NEW g \in [S -> T], \A x \in S : f[x] = g[x]
  PROVE  f = g
  OBVIOUS

------------------------------------------------------------------------------
(* Counters modulo m. *)

\* A multiple of m other than 0 is at least as far from 0 as m.
LEMMA MultipleIsLarge ==
  ASSUME NEW m \in Nat \ {0}, NEW d \in Int
  PROVE  /\ m * d \in Int
         /\ d >= 1 => m * d >= m
         /\ d <= -1 => m * d <= -m
         /\ d = 0 => m * d = 0
  OBVIOUS

\* The remainder of a division is the only one.
LEMMA RemainderUnique ==
  ASSUME NEW m \in Nat \ {0}, NEW q \in Int, NEW p \in Int,
         NEW r \in 0 .. m - 1, NEW s \in 0 .. m - 1, m * q + r = m * p + s
  PROVE  r = s
<1>1. m * (p - q) = m * p - m * q
  OBVIOUS
<1>2. m * (p - q) = r - s /\ p - q \in Int
  <2>1. m * p \in Int /\ m * q \in Int
    OBVIOUS
  <2> QED
    BY <1>1, <2>1
<1> DEFINE d == p - q
<1>3. d \in Int /\ m * d = r - s
  BY <1>2
<1> HIDE DEF d
<1>4. d >= 1 => m * d >= m
  BY <1>3, MultipleIsLarge
<1>5. d <= -1 => m * d <= -m
  BY <1>3, MultipleIsLarge
<1>6. r - s < m /\ r - s > -m /\ r - s \in Int
  OBVIOUS
<1>7. d = 0
  BY <1>3, <1>4, <1>5, <1>6
<1>8. m * d = 0
  BY <1>7
<1> QED
  BY <1>3, <1>8

\* Division by m, with its remainder.
LEMMA Division ==
  ASSUME NEW m \in Nat \ {0}, NEW x \in Nat
  PROVE  /\ x % m \in 0 .. m - 1
         /\ x \div m \in Int
         /\ x = m * (x \div m) + (x % m)
  OBVIOUS

\* A counter modulo m counts.
LEMMA SuccessorOfRemainder ==
  ASSUME NEW m \in Nat \ {0}, NEW x \in Nat
  PROVE  ((x % m) + 1) % m = (x + 1) % m
<1> DEFINE r == x % m
           q == x \div m
           s == (x + 1) % m
           p == (x + 1) \div m
<1>1. r \in 0 .. m - 1 /\ q \in Int /\ x = m * q + r
  BY Division
<1>2. s \in 0 .. m - 1 /\ p \in Int /\ x + 1 = m * p + s
  BY Division
<1>3. CASE r + 1 < m
  <2>1. r + 1 \in 0 .. m - 1 /\ (r + 1) % m = r + 1
    BY <1>1, <1>3
  <2> HIDE DEF r, q, s, p
  <2>2. m * q + (r + 1) = m * p + s
    <3>1. m * q \in Int /\ m * p \in Int
      BY <1>1, <1>2
    <3> QED
      BY <1>1, <1>2, <3>1
  <2>3. r + 1 = s
    BY <1>1, <1>2, <2>1, <2>2, RemainderUnique
  <2> QED
    BY <2>1, <2>3 DEF r, s
<1>4. CASE r + 1 = m
  <2>1. m % m = 0
    <3>1. m % m \in 0 .. m - 1 /\ m \div m \in Int /\ m = m * (m \div m) + (m % m)
      BY Division
    <3>2. m * 1 + 0 = m * (m \div m) + (m % m) /\ 0 \in 0 .. m - 1 /\ 1 \in Int
      BY <3>1
    <3> QED
      BY <3>1, <3>2, RemainderUnique
  <2> HIDE DEF r, q, s, p
  <2>2. m * (q + 1) + 0 = m * p + s
    <3>1. m * q \in Int /\ m * p \in Int /\ m * (q + 1) = m * q + m
      BY <1>1, <1>2
    <3> QED
      BY <1>1, <1>2, <1>4, <3>1
  <2>3. 0 \in 0 .. m - 1 /\ q + 1 \in Int
    BY <1>1
  <2>4. 0 = s
    BY <1>2, <2>2, <2>3, RemainderUnique
  <2> QED
    BY <1>4, <2>1, <2>4 DEF r, s
<1>5. r + 1 < m \/ r + 1 = m
  BY <1>1
<1> QED
  BY <1>3, <1>4, <1>5

\* Numbers less than m apart have different remainders.
LEMMA RemaindersDiffer ==
  ASSUME NEW m \in Nat \ {0}, NEW x \in Nat, NEW y \in Nat, x < y, y - x < m
  PROVE  x % m # y % m
<1> DEFINE r == x % m
           q == x \div m
           s == y % m
           p == y \div m
<1>1. r \in 0 .. m - 1 /\ q \in Int /\ x = m * q + r
  BY Division
<1>2. s \in 0 .. m - 1 /\ p \in Int /\ y = m * p + s
  BY Division
<1> SUFFICES ASSUME r = s
             PROVE  FALSE
  OBVIOUS
<1> HIDE DEF r, q, s, p
<1> DEFINE d == p - q
<1>3. d \in Int /\ m * d = y - x
  <2>1. m * q \in Int /\ m * p \in Int /\ m * (p - q) = m * p - m * q
    BY <1>1, <1>2
  <2> QED
    BY <1>1, <1>2, <2>1
<1> HIDE DEF d
<1>4. /\ d >= 1 => m * d >= m
      /\ d <= -1 => m * d <= -m
      /\ d = 0 => m * d = 0
  BY <1>3, MultipleIsLarge
<1> QED
  BY <1>3, <1>4

------------------------------------------------------------------------------
(* Facts about queues. *)

\* A new entry at the end of a queue leaves its first one in place.
LEMMA HeadOfAppend ==
  ASSUME NEW S, NEW q \in Seq(S), NEW e \in S
  PROVE  /\ Append(q, e) \in Seq(S)
         /\ Len(Append(q, e)) = Len(q) + 1
         /\ Append(q, e) # <<>>
         /\ q # <<>> => Head(Append(q, e)) = Head(q)
<1>1. /\ Append(q, e) \in Seq(S)
      /\ Len(Append(q, e)) = Len(q) + 1
      /\ \A i \in 1 .. Len(q) : Append(q, e)[i] = q[i]
  BY AppendProperties
<1>2. Append(q, e) # <<>>
  <2>1. Len(q) \in Nat
    OBVIOUS
  <2> QED
    BY <1>1, <2>1
<1>3. ASSUME q # <<>>
      PROVE  Head(Append(q, e)) = Head(q)
  <2>1. Len(q) \in Nat \ {0} /\ Head(q) = q[1]
    BY <1>3
  <2> QED
    BY <1>1, <2>1
<1> QED
  BY <1>1, <1>2, <1>3

\* What is left of a queue without its first entry.
LEMMA TailOfQueue ==
  ASSUME NEW S, NEW q \in Seq(S), q # <<>>
  PROVE  /\ Head(q) \in S
         /\ Tail(q) \in Seq(S)
         /\ Len(Tail(q)) = Len(q) - 1
  OBVIOUS

\* Its entries are the entries of the queue, one place further.
LEMMA TailEntries ==
  ASSUME NEW S, NEW q \in Seq(S), q # <<>>
  PROVE  /\ Head(q) = q[1] /\ 1 \in 1 .. Len(q)
         /\ \A j \in 1 .. Len(Tail(q)) : j + 1 \in 1 .. Len(q) /\ Tail(q)[j] = q[j + 1]
  OBVIOUS

------------------------------------------------------------------------------
(* Recursive functions over 0 .. n. *)

\* f begins with base and goes on with step, up to n.
Recurs(f, base, step, n) == f[0] = base /\ \A i \in 1 .. n : f[i] = step[i][f[i - 1]]

\* There is a function that begins with base and goes on with step.
LEMMA Recursion ==
  ASSUME NEW T, NEW base \in T, NEW n \in Nat, NEW step \in [1 .. n -> [T -> T]]
  PROVE  \E f \in [0 .. n -> T] : Recurs(f, base, step, n)
<1> DEFINE S == {k \in Nat : k <= n => \E f \in [0 .. k -> T] : Recurs(f, base, step, k)}
<1>1. 0 \in S
  <2>1. [i \in 0 .. 0 |-> base] \in [0 .. 0 -> T]
    OBVIOUS
  <2>2. Recurs([i \in 0 .. 0 |-> base], base, step, 0)
    BY DEF Recurs
  <2> QED
    BY <2>1, <2>2
<1>2. ASSUME NEW k \in Nat, k \in S
      PROVE  k + 1 \in S
  <2>1. SUFFICES ASSUME k + 1 <= n
                 PROVE  \E f \in [0 .. k + 1 -> T] : Recurs(f, base, step, k + 1)
    OBVIOUS
  <2>2. PICK g \in [0 .. k -> T] : Recurs(g, base, step, k)
    BY <1>2, <2>1
  <2> DEFINE e == step[k + 1][g[k]]
             f == [i \in 0 .. k + 1 |-> IF i <= k THEN g[i] ELSE e]
  <2>3. e \in T
    <3>1. k + 1 \in 1 .. n /\ g[k] \in T
      BY <2>1
    <3>2. step[k + 1] \in [T -> T]
      BY <3>1
    <3> QED
      BY <3>1, <3>2
  <2>4. f \in [0 .. k + 1 -> T]
    <3> HIDE DEF e
    <3> QED
      BY <2>3
  <2>5. f[0] = base
    BY <2>2 DEF Recurs
  <2>6. ASSUME NEW i \in 1 .. k + 1
        PROVE  f[i] = step[i][f[i - 1]]
    <3>1. f[i - 1] = g[i - 1] /\ i - 1 \in 0 .. k
      OBVIOUS
    <3>2. CASE i = k + 1
      BY <3>1, <3>2
    <3>3. CASE i # k + 1
      <4>1. i \in 1 .. k /\ f[i] = g[i]
        BY <3>3
      <4>2. g[i] = step[i][g[i - 1]]
        BY <2>2, <4>1 DEF Recurs
      <4> QED
        BY <3>1, <4>1, <4>2
    <3> QED
      BY <3>2, <3>3
  <2> HIDE DEF f
  <2> QED
    BY <2>4, <2>5, <2>6 DEF Recurs
<1> HIDE DEF S
<1>3. n \in S
  BY <1>1, <1>2, SetInduction
<1> QED
  BY <1>3 DEF S

\* The greatest number of a set between 0 and n.
LEMMA GreatestNatural ==
  ASSUME NEW n \in Nat, NEW S \in SUBSET (0 .. n), S # {}
  PROVE  \E m \in S : \A k \in S : k <= m
<1> DEFINE T == {n - k : k \in S}
<1>1. T \in SUBSET Nat /\ T # {}
  <2>1. \A k \in S : k \in 0 .. n /\ n - k \in Nat
    OBVIOUS
  <2>2. \A t \in T : t \in Nat
    BY <2>1
  <2>3. T # {}
    OBVIOUS
  <2> QED
    BY <2>2, <2>3
<1>2. PICK t \in T : \A u \in T : t <= u
  <2> HIDE DEF T
  <2> QED
    BY <1>1, LeastNatural
<1>3. PICK m \in S : t = n - m
  OBVIOUS
<1>4. ASSUME NEW k \in S
      PROVE  k <= m
  <2>1. n - k \in T
    OBVIOUS
  <2>2. t <= n - k
    BY <1>2, <2>1
  <2> QED
    BY <1>3, <2>2
<1> QED
  BY <1>4

------------------------------------------------------------------------------
(* FlattenSeq of the community modules, which is a recursive function. *)

\* g goes on by adding the next sequence of s, up to the nth.
Steps(g, s, n) == \A i \in 1 .. n - 1 : g[i + 1] = g[i] \o s[i + 1]

\* g is the function of the partial results of flattening the first n of s.
Flattens(g, s, n) == (n # 0 => g[1] = s[1]) /\ Steps(g, s, n)

\* There is only one: the first result and the steps determine the others.
LEMMA SameSteps ==
  ASSUME NEW n \in Nat, NEW f, NEW g, NEW s,
         f[1] = g[1], Steps(f, s, n), Steps(g, s, n)
  PROVE  \A i \in 1 .. n : f[i] = g[i]
<1> DEFINE S == {k \in Nat : k \in 1 .. n => f[k] = g[k]}
<1>1. 0 \in S
  OBVIOUS
<1>2. ASSUME NEW k \in Nat, k \in S
      PROVE  k + 1 \in S
  <2>1. SUFFICES ASSUME k + 1 \in 1 .. n
                 PROVE  f[k + 1] = g[k + 1]
    OBVIOUS
  <2>2. CASE k = 0
    BY <2>1, <2>2
  <2>3. CASE k # 0
    <3>1. k \in 1 .. n /\ k \in 1 .. n - 1
      BY <2>1, <2>3
    <3>2. f[k] = g[k]
      BY <1>2, <3>1
    <3>3. f[k + 1] = f[k] \o s[k + 1] /\ g[k + 1] = g[k] \o s[k + 1]
      BY <3>1 DEF Steps
    <3> QED
      BY <3>2, <3>3
  <2> QED
    BY <2>2, <2>3
<1>3. \A k \in Nat : k \in S
  <2> HIDE DEF S
  <2> QED
    BY <1>1, <1>2, SetInduction
<1> QED
  BY <1>3

\* There is one, of sequences.
LEMMA FlattensExists ==
  ASSUME NEW P, NEW s \in Seq(Seq(P)), NEW n \in 0 .. Len(s)
  PROVE  \E g \in [1 .. n -> Seq(P)] : Flattens(g, s, n)
<1> DEFINE S == {k \in Nat : k <= Len(s) => \E g \in [1 .. k -> Seq(P)] : Flattens(g, s, k)}
<1>1. 0 \in S
  <2>1. [i \in 1 .. 0 |-> <<>>] \in [1 .. 0 -> Seq(P)]
    OBVIOUS
  <2>2. Flattens([i \in 1 .. 0 |-> <<>>], s, 0)
    BY DEF Flattens, Steps
  <2> QED
    BY <2>1, <2>2
<1>2. ASSUME NEW k \in Nat, k \in S
      PROVE  k + 1 \in S
  <2>1. SUFFICES ASSUME k + 1 <= Len(s)
                 PROVE  \E g \in [1 .. k + 1 -> Seq(P)] : Flattens(g, s, k + 1)
    OBVIOUS
  <2>2. Len(s) \in Nat /\ s[k + 1] \in Seq(P)
    BY <2>1
  <2>3. PICK g \in [1 .. k -> Seq(P)] : Flattens(g, s, k)
    BY <1>2, <2>1, <2>2
  <2> DEFINE e == IF k = 0 THEN s[1] ELSE g[k] \o s[k + 1]
             h == [i \in 1 .. k + 1 |-> IF i <= k THEN g[i] ELSE e]
  <2>4. e \in Seq(P)
    <3>1. CASE k = 0
      BY <3>1, <2>2
    <3>2. CASE k # 0
      BY <3>2, <2>2, ConcatProperties
    <3> QED
      BY <3>1, <3>2
  <2>5. h \in [1 .. k + 1 -> Seq(P)]
    <3> HIDE DEF e
    <3> QED
      BY <2>4
  <2>6. Flattens(h, s, k + 1)
    <3>1. h[1] = s[1]
      <4>1. CASE k = 0
        BY <4>1
      <4>2. CASE k # 0
        BY <2>3, <4>2 DEF Flattens, Steps
      <4> QED
        BY <4>1, <4>2
    <3>2. ASSUME NEW i \in 1 .. (k + 1) - 1
          PROVE  h[i + 1] = h[i] \o s[i + 1]
      <4>1. h[i] = g[i] /\ i \in 1 .. k
        OBVIOUS
      <4>2. CASE i = k
        <5>1. h[i + 1] = g[k] \o s[k + 1]
          BY <4>1, <4>2
        <5> QED
          BY <4>1, <4>2, <5>1
      <4>3. CASE i # k
        <5>1. i \in 1 .. k - 1 /\ h[i + 1] = g[i + 1]
          BY <4>1, <4>3
        <5>2. g[i + 1] = g[i] \o s[i + 1]
          BY <2>3, <5>1 DEF Flattens, Steps
        <5> QED
          BY <4>1, <5>1, <5>2
      <4> QED
        BY <4>2, <4>3
    <3> QED
      BY <3>1, <3>2 DEF Flattens, Steps
  <2> QED
    BY <2>5, <2>6
<1> HIDE DEF S
<1>3. \A k \in Nat : k \in S
  BY <1>1, <1>2, SetInduction
<1>4. n \in Nat /\ n <= Len(s)
  OBVIOUS
<1> QED
  BY <1>3, <1>4 DEF S

\* FlattenSeq is the last of the partial results.
LEMMA FlattenSeqIs ==
  ASSUME NEW P, NEW s \in Seq(Seq(P)), s # <<>>
  PROVE  \E g \in [1 .. Len(s) -> Seq(P)] :
            Flattens(g, s, Len(s)) /\ FlattenSeq(s) = g[Len(s)]
<1> DEFINE R(g) == g = [i \in 1 .. Len(s) |-> IF i = 1 THEN s[i] ELSE g[i - 1] \o s[i]]
           f == CHOOSE g : R(g)
<1>1. Len(s) \in Nat \ {0}
  OBVIOUS
<1>2. \E g : R(g)
  <2>1. PICK g \in [1 .. Len(s) -> Seq(P)] : Flattens(g, s, Len(s))
    BY SMTT(30), <1>1, FlattensExists
  <2>2. ASSUME NEW i \in 1 .. Len(s)
        PROVE  g[i] = IF i = 1 THEN s[i] ELSE g[i - 1] \o s[i]
    <3>1. CASE i = 1
      BY <1>1, <2>1, <3>1 DEF Flattens, Steps
    <3>2. CASE i # 1
      <4>1. i - 1 \in 1 .. Len(s) - 1 /\ (i - 1) + 1 = i
        BY <3>2
      <4>2. g[(i - 1) + 1] = g[i - 1] \o s[(i - 1) + 1]
        BY <2>1, <4>1 DEF Flattens, Steps
      <4> QED
        BY <3>2, <4>1, <4>2
    <3> QED
      BY <3>1, <3>2
  <2>3. R(g)
    BY <2>1, <2>2
  <2> QED
    BY <2>3
<1>3. R(f)
  BY <1>2
<1>4. FlattenSeq(s) = f[Len(s)]
  BY <1>1 DEF FlattenSeq
<1> HIDE DEF f
<1>5. Flattens(f, s, Len(s))
  <2>1. f[1] = s[1]
    BY <1>1, <1>3
  <2>2. ASSUME NEW i \in 1 .. Len(s) - 1
        PROVE  f[i + 1] = f[i] \o s[i + 1]
    <3>1. i + 1 \in 1 .. Len(s) /\ i + 1 # 1 /\ (i + 1) - 1 = i
      BY <1>1
    <3> QED
      BY <1>3, <3>1
  <2> QED
    BY <2>1, <2>2 DEF Flattens, Steps
<1>6. ASSUME NEW g, Flattens(g, s, Len(s))
      PROVE  \A i \in 1 .. Len(s) : g[i] = f[i]
  <2>1. g[1] = f[1]
    BY <1>1, <1>5, <1>6 DEF Flattens, Steps
  <2>2. Steps(g, s, Len(s)) /\ Steps(f, s, Len(s))
    BY <1>5, <1>6 DEF Flattens
  <2> QED
    <3>1. Len(s) \in Nat
      BY <1>1
    <3> QED
      BY <2>1, <2>2, <3>1, SameSteps
<1>7. PICK g \in [1 .. Len(s) -> Seq(P)] : Flattens(g, s, Len(s))
  BY SMTT(30), <1>1, FlattensExists
<1>8. f \in [1 .. Len(s) -> Seq(P)]
  <2>1. \A i \in 1 .. Len(s) : g[i] = f[i]
    BY <1>6, <1>7
  <2>2. \A i \in 1 .. Len(s) : f[i] \in Seq(P)
    BY <1>7, <2>1
  <2>3. f = [i \in 1 .. Len(s) |-> f[i]]
    BY <1>3
  <2> QED
    BY <2>2, <2>3
<1> QED
  BY <1>4, <1>5, <1>8

\* Flattening the empty sequence.
LEMMA FlattenEmpty == FlattenSeq(<<>>) = <<>>
  BY DEF FlattenSeq

\* Flattening gives a sequence.
LEMMA FlattenType ==
  ASSUME NEW P, NEW s \in Seq(Seq(P))
  PROVE  FlattenSeq(s) \in Seq(P)
<1>1. CASE s = <<>>
  <2>1. FlattenSeq(s) = <<>>
    BY <1>1, FlattenEmpty
  <2> QED
    BY <2>1
<1>2. CASE s # <<>>
  <2>1. Len(s) \in 1 .. Len(s)
    BY <1>2
  <2> QED
    BY SMTT(90), <1>2, <2>1, FlattenSeqIs
<1> QED
  BY <1>1, <1>2

\* A sequence appended is flattened at the end.
LEMMA FlattenAppend ==
  ASSUME NEW P, NEW s \in Seq(Seq(P)), NEW e \in Seq(P)
  PROVE  FlattenSeq(Append(s, e)) = FlattenSeq(s) \o e
<1> DEFINE t == Append(s, e)
           n == Len(s)
<1>1. /\ t \in Seq(Seq(P)) /\ t # <<>> /\ n \in Nat /\ Len(t) = n + 1
      /\ \A i \in 1 .. n : t[i] = s[i]
      /\ t[n + 1] = e
  BY AppendProperties
<1> HIDE DEF t
<1>2. PICK g \in [1 .. Len(t) -> Seq(P)] :
         Flattens(g, t, Len(t)) /\ FlattenSeq(t) = g[Len(t)]
  BY <1>1, FlattenSeqIs
<1>3. CASE s = <<>>
  <2>1. n = 0 /\ FlattenSeq(s) = <<>>
    BY <1>3, FlattenEmpty
  <2>2. FlattenSeq(t) = e
    BY <1>1, <1>2, <2>1 DEF Flattens, Steps
  <2>3. <<>> \o e = e
    BY ConcatEmptySeq
  <2> QED
    BY <2>1, <2>2, <2>3 DEF t
<1>4. CASE s # <<>>
  <2>1. PICK f \in [1 .. n -> Seq(P)] :
           Flattens(f, s, n) /\ FlattenSeq(s) = f[n]
    BY <1>4, FlattenSeqIs
  <2>2. n \in Nat \ {0}
    BY <1>4
  <2>3. g[1] = f[1]
    <3>1. g[1] = t[1] /\ f[1] = s[1]
      BY <1>1, <1>2, <2>1, <2>2 DEF Flattens, Steps
    <3> QED
      BY <1>1, <2>2, <3>1
  <2>4. ASSUME NEW i \in 1 .. n - 1
        PROVE  g[i + 1] = g[i] \o s[i + 1]
    <3>1. i \in 1 .. Len(t) - 1 /\ t[i + 1] = s[i + 1]
      BY <1>1
    <3> QED
      BY <1>2, <3>1 DEF Flattens, Steps
  <2>5. Steps(f, s, n) /\ Steps(g, s, n)
    BY <2>1, <2>4 DEF Flattens, Steps
  <2> HIDE DEF n
  <2>6. g[n] = f[n]
    <3>1. n \in Nat /\ n \in 1 .. n
      BY <2>2
    <3> DEFINE r == g
               c == f
    <3>2. Steps(r, s, n) /\ Steps(c, s, n) /\ r[1] = c[1]
      BY <2>3, <2>5
    <3> HIDE DEF r, c
    <3>3. \A i \in 1 .. n : r[i] = c[i]
      BY <3>1, <3>2, SameSteps
    <3> QED
      BY <3>1, <3>3 DEF r, c
  <2>7. g[n + 1] = g[n] \o e
    <3>1. n \in 1 .. Len(t) - 1
      BY <1>1, <2>2
    <3> QED
      BY <1>1, <1>2, <3>1 DEF Flattens, Steps
  <2> QED
    BY <1>1, <1>2, <2>1, <2>6, <2>7 DEF t
<1> QED
  BY <1>3, <1>4

\* The first of the sequences comes first.
LEMMA FlattenHead ==
  ASSUME NEW P, NEW s \in Seq(Seq(P)), s # <<>>
  PROVE  FlattenSeq(s) = Head(s) \o FlattenSeq(Tail(s))
<1> DEFINE t == Tail(s)
           n == Len(t)
<1>1. /\ t \in Seq(Seq(P)) /\ n \in Nat /\ Len(s) = n + 1
      /\ \A i \in 1 .. n : t[i] = s[i + 1]
      /\ Head(s) = s[1] /\ s[1] \in Seq(P)
  OBVIOUS
<1>2. PICK g \in [1 .. Len(s) -> Seq(P)] :
         Flattens(g, s, Len(s)) /\ FlattenSeq(s) = g[Len(s)]
  BY FlattenSeqIs
<1> HIDE DEF t
<1>3. CASE t = <<>>
  <2>1. n = 0 /\ FlattenSeq(t) = <<>>
    BY <1>3, FlattenEmpty
  <2>2. FlattenSeq(s) = s[1]
    BY <1>1, <1>2, <2>1 DEF Flattens, Steps
  <2>3. s[1] \o <<>> = s[1]
    BY <1>1, ConcatEmptySeq
  <2> QED
    BY <1>1, <2>1, <2>2, <2>3 DEF t
<1>4. CASE t # <<>>
  <2>1. PICK f \in [1 .. n -> Seq(P)] :
           Flattens(f, t, n) /\ FlattenSeq(t) = f[n]
    BY <1>1, <1>4, FlattenSeqIs
  <2>2. n \in Nat \ {0}
    BY <1>1, <1>4
  <2> DEFINE r == [i \in 1 .. n |-> g[i + 1]]
  <2>3. r[1] = s[1] \o t[1] /\ r[n] = g[Len(s)]
    <3>1. 1 \in 1 .. Len(s) - 1 /\ t[1] = s[1 + 1]
      BY <1>1, <2>2
    <3>2. g[1] = s[1]
      BY <1>1, <1>2 DEF Flattens, Steps
    <3>4. g[1 + 1] = g[1] \o s[1 + 1]
      BY <1>2, <3>1 DEF Flattens, Steps
    <3>3. r[1] = g[1 + 1] /\ r[n] = g[n + 1]
      BY <2>2
    <3> QED
      BY <1>1, <3>1, <3>2, <3>3, <3>4
  <2>4. ASSUME NEW k \in 1 .. n - 1
        PROVE  r[k + 1] = r[k] \o t[k + 1]
    <3>1. k + 1 \in 1 .. Len(s) - 1 /\ k \in 1 .. n /\ k + 1 \in 1 .. n
      BY <1>1, <2>2
    <3>2. g[(k + 1) + 1] = g[k + 1] \o s[(k + 1) + 1]
      BY <1>2, <3>1 DEF Flattens, Steps
    <3>3. t[k + 1] = s[(k + 1) + 1]
      BY <1>1, <3>1
    <3> QED
      BY <3>1, <3>2, <3>3
  <2>5. \A k \in 1 .. n : t[k] \in Seq(P)
    BY <1>1
  <2> DEFINE c == [i \in 1 .. n |-> s[1] \o f[i]]
  <2>6. c[1] = s[1] \o t[1] /\ c[n] = s[1] \o f[n]
    <3>1. f[1] = t[1]
      BY <2>1, <2>2 DEF Flattens, Steps
    <3>2. 1 \in 1 .. n /\ n \in 1 .. n
      BY <2>2
    <3> QED
      BY <3>1, <3>2
  <2>7. ASSUME NEW k \in 1 .. n - 1
        PROVE  c[k + 1] = c[k] \o t[k + 1]
    <3>1. k \in 1 .. n /\ k + 1 \in 1 .. n
      BY <2>2
    <3>2. f[k + 1] = f[k] \o t[k + 1]
      BY <2>1 DEF Flattens, Steps
    <3>3. f[k] \in Seq(P) /\ t[k + 1] \in Seq(P)
      BY <2>1, <2>5, <3>1
    <3>4. (s[1] \o f[k]) \o t[k + 1] = s[1] \o (f[k] \o t[k + 1])
      <4> DEFINE x == s[1]
                 y == f[k]
                 z == t[k + 1]
      <4>1. x \in Seq(P) /\ y \in Seq(P) /\ z \in Seq(P)
        BY <1>1, <3>3
      <4> HIDE DEF x, y, z
      <4>2. (x \o y) \o z = x \o (y \o z)
        BY SMTT(30), <4>1, ConcatAssociative
      <4> QED
        BY <4>2 DEF x, y, z
    <3> QED
      BY <3>1, <3>2, <3>4
  <2> HIDE DEF n, r, c
  <2>8. r[1] = c[1]
    BY <2>3, <2>6
  <2>9. r[n] = c[n]
    <3>1. Steps(r, t, n) /\ Steps(c, t, n)
      BY <2>4, <2>7 DEF Steps
    <3>2. \A i \in 1 .. n : r[i] = c[i]
      BY <2>2, <2>8, <3>1, SameSteps
    <3> QED
      BY <2>2, <3>2
  <2> QED
    BY <1>1, <1>2, <2>1, <2>3, <2>6, <2>9 DEF t
<1> QED
  BY <1>3, <1>4
=============================================================================
