-------------------------- MODULE JdLstore_proofs --------------------------
(***************************************************************************)
(* Proofs about JdLstore, for every number of blocks, entries and          *)
(* restarts: the log is what was appended last, and blocks go where they   *)
(* belong.  The second part is about the files they are in (JdLogFile).    *)
(***************************************************************************)
EXTENDS JdLstore, SequenceFacts, TLAPS

Numbers == 1 .. MaxEntries

------------------------------------------------------------------------------
(* The inductive invariant *)

(***************************************************************************)
(* The card: block n was written last.  Up to it the blocks get newer, and *)
(* none behind it is newer than block 0; hole is the block being written,  *)
(* or DataBlocks.                                                          *)
(***************************************************************************)
InOrder(d, n, hole) ==
  /\ \A i \in 0 .. n : i # hole => d[i].gen > 0
  /\ \A i, j \in 0 .. n : i < j /\ i # hole => block_lt(d[i], d[j])
  /\ \A i \in n + 1 .. DataBlocks - 1 : ~ block_lt(d[0], d[i])

DiskInv(d, n, hole) ==
  IF n = DataBlocks THEN \A i \in Blocks : d[i] = Invalid
  ELSE n \in Blocks /\ InOrder(d, n, hole)

Hole == IF pc = "writing" THEN block_ptr - 1 ELSE DataBlocks

\* Is p the block after n?
Follows(p, n) ==
  IF n = DataBlocks THEN p = 0
  ELSE p = n + 1 \/ (p = 0 /\ n = DataBlocks - 1)

\* What the two buffers and the pointers are at each step of a flush
FlushInv ==
  /\ pc = "idle" <=> needs_flushing # 2
  /\ Len(block.ents) = data_ptr
  /\ needs_flushing = 0 => block_alt.ents = <<>>
  /\ ~ mounted => /\ pc = "idle" /\ data_ptr = 0 /\ needs_flushing = 0 /\ block_ptr = 0
                  /\ ~ panic /\ block_alt.ts = 0
  /\ mounted =>
       /\ pc \in {"idle", "write"} => Follows(block_ptr, newest)
       /\ pc = "writing" => /\ block_ptr - 1 \in Blocks /\ Follows(block_ptr - 1, newest)
                            /\ disk[block_ptr - 1] = Invalid
       /\ pc = "clear" => newest = block_ptr - 1 /\ newest \in Blocks /\ disk[newest] = block_alt

\* Every block is newer than the one started before it.
TimeInv(last) ==
  mounted =>
    /\ block_generation > 0 /\ block_alt.ts <= now
    /\ data_ptr # 0 => block.gen = block_generation /\ block.ts <= now
    /\ needs_flushing # 0 => block_alt.gen = block_generation
    /\ data_ptr # 0 /\ needs_flushing # 0 => block_lt(block_alt, block)
    /\ newest # DataBlocks =>
         /\ data_ptr # 0 /\ needs_flushing = 0 => block_lt(last, block)
         /\ needs_flushing # 0 /\ pc # "clear" => block_lt(last, block_alt)
         /\ data_ptr = 0 /\ needs_flushing = 0 =>
              \/ last.gen < block_generation
              \/ /\ last.gen = block_generation /\ block_alt.gen = block_generation
                 /\ last.ts = block_alt.ts

\* The blocks of the card from p on, and the entries that wait to be written
Ring(d, p) == [i \in 1 .. DataBlocks |-> d[(p + i - 1) % DataBlocks].ents]
Pending == IF needs_flushing # 0 /\ pc # "clear" THEN block_alt.ents ELSE <<>>

\* The block that is written next
Place == IF mounted THEN block_ptr ELSE IF newest = DataBlocks THEN 0 ELSE newest + 1

\* Entries are numbered as they are appended.
Rising(s) == \A i, j \in 1 .. Len(s) : i < j => s[i] < s[j]

LogInv ==
  /\ accepted \in Seq(1 .. entries) /\ Rising(accepted)
  /\ IsSuffix(FlattenSeq(Ring(disk, Place)) \o Pending \o block.ents, accepted)

Types ==
  /\ TypeOK
  /\ now \in 0 .. MaxTime /\ entries \in 0 .. MaxEntries /\ newest \in 0 .. DataBlocks

IInv == Types /\ DiskInv(disk, newest, Hole) /\ FlushInv /\ TimeInv(disk[newest]) /\ LogInv

------------------------------------------------------------------------------
(* Sequences *)

\* What IsSuffix of the community modules says.
LEMMA SuffixIs ==
  ASSUME NEW S, NEW s \in Seq(S), NEW t \in Seq(S)
  PROVE  IsSuffix(s, t) <=> \E x \in Seq(S) : t = x \o s
<1> DEFINE a == Len(s)
           b == Len(t)
           r == Reverse(s)
           q == Reverse(t)
<1>1. a \in Nat /\ b \in Nat
  OBVIOUS
<1>2. /\ r \in Seq(S) /\ Len(r) = a /\ \A i \in 1 .. a : r[i] = s[a - i + 1]
      /\ q \in Seq(S) /\ Len(q) = b /\ \A i \in 1 .. b : q[i] = t[b - i + 1]
  BY DEF Reverse
<1> HIDE DEF r, q
<1>3. ASSUME a <= b
      PROVE  SubSeq(r, 1, a) = SubSeq(q, 1, a) <=> \A i \in 1 .. a : s[a - i + 1] = t[b - i + 1]
  <2>1. SubSeq(r, 1, a) = r
    BY <1>2, SubSeqFull
  <2>2. (\A i \in 1 .. a : q[i] \in S) /\ 1 \in Int /\ a \in Int
    BY <1>1, <1>2, <1>3
  <2>3. /\ SubSeq(q, 1, a) \in Seq(S) /\ Len(SubSeq(q, 1, a)) = (IF 1 <= a THEN a - 1 + 1 ELSE 0)
        /\ \A i \in 1 .. a - 1 + 1 : SubSeq(q, 1, a)[i] = q[1 + i - 1]
    BY <2>2, SubSeqProperties
  <2>4. Len(SubSeq(q, 1, a)) = a /\ \A i \in 1 .. a : SubSeq(q, 1, a)[i] = q[i]
    BY <1>1, <2>3
  <2> DEFINE u == SubSeq(q, 1, a)
  <2> HIDE DEF u
  <2>5. r = u <=> \A i \in 1 .. a : r[i] = u[i]
    BY <1>2, <2>3, <2>4, SeqEqual DEF u
  <2>6. \A i \in 1 .. a : r[i] = s[a - i + 1] /\ u[i] = t[b - i + 1]
    <3>1. \A i \in 1 .. a : i \in 1 .. b
      BY <1>1, <1>3
    <3> HIDE DEF a, b
    <3> QED
      BY <1>2, <2>4, <3>1 DEF u
  <2> HIDE DEF a, b
  <2>7. r = u <=> \A i \in 1 .. a : s[a - i + 1] = t[b - i + 1]
    BY <2>5, <2>6
  <2> QED
    BY <2>1, <2>7 DEF u
<1>4. IsSuffix(s, t) <=> a <= b /\ \A i \in 1 .. a : s[a - i + 1] = t[b - i + 1]
  BY <1>2, <1>3 DEF IsSuffix, IsPrefix, r, q
<1>5. ASSUME NEW x \in Seq(S), t = x \o s
      PROVE  IsSuffix(s, t)
  <2>1. b = Len(x) + a /\ Len(x) \in Nat
    BY <1>5
  <2>2. ASSUME NEW i \in 1 .. a
        PROVE  s[a - i + 1] = t[b - i + 1]
    BY <1>1, <1>5, <2>1, ConcatProperties
  <2> QED
    BY <1>1, <1>4, <2>1, <2>2
<1>6. ASSUME IsSuffix(s, t)
      PROVE  \E x \in Seq(S) : t = x \o s
  <2>1. a <= b /\ \A i \in 1 .. a : s[a - i + 1] = t[b - i + 1]
    BY <1>4, <1>6
  <2> DEFINE x == SubSeq(t, 1, b - a)
  <2>2. (\A i \in 1 .. b - a : t[i] \in S) /\ 1 \in Int /\ b - a \in Int
    BY <1>1, <2>1
  <2>3. /\ x \in Seq(S) /\ Len(x) = (IF 1 <= b - a THEN b - a - 1 + 1 ELSE 0)
        /\ \A i \in 1 .. b - a - 1 + 1 : x[i] = t[1 + i - 1]
    BY <2>2, SubSeqProperties
  <2>4. Len(x) = b - a /\ \A i \in 1 .. b - a : x[i] = t[i]
    BY <1>1, <2>1, <2>3
  <2> HIDE DEF x
  <2>5. /\ x \o s \in Seq(S) /\ Len(x \o s) = b
        /\ \A i \in 1 .. b : (x \o s)[i] = IF i <= b - a THEN x[i] ELSE s[i - (b - a)]
    BY <1>1, <2>1, <2>3, <2>4, ConcatProperties
  <2>6. ASSUME NEW i \in 1 .. b
        PROVE  (x \o s)[i] = t[i]
    <3>1. CASE i <= b - a
      BY <1>1, <2>1, <2>4, <2>5, <3>1
    <3>2. CASE i > b - a
      <4>1. b - i + 1 \in 1 .. a /\ a - (b - i + 1) + 1 = i - (b - a) /\ b - (b - i + 1) + 1 = i
        BY <1>1, <2>1, <3>2
      <4>2. s[i - (b - a)] = t[i]
        BY <2>1, <4>1
      <4> QED
        BY <1>1, <2>1, <2>5, <3>2, <4>2
    <3>3. i \in Int /\ b - a \in Int
      BY <1>1
    <3>4. i <= b - a \/ i > b - a
      BY <3>3
    <3> QED
      BY <3>1, <3>2, <3>4
  <2>7. x \o s = t
    BY <2>5, <2>6, SeqEqual
  <2> QED
    BY <2>3, <2>7
<1> QED
  BY <1>5, <1>6

\* The numbers that the blocks of the ring have.
LEMMA Around ==
  ASSUME NEW x \in 0 .. 2 * DataBlocks - 1
  PROVE  x % DataBlocks = IF x < DataBlocks THEN x ELSE x - DataBlocks
<1> DEFINE D == DataBlocks
           r == IF x < D THEN x ELSE x - D
           q == IF x < D THEN 0 ELSE 1
<1>1. D \in Nat \ {0} /\ x \in Nat
  BY ConstantsAssumption
<1>2. x % D \in 0 .. D - 1 /\ x \div D \in Int /\ x = D * (x \div D) + (x % D)
  BY <1>1, Division
<1>3. r \in 0 .. D - 1 /\ q \in Int /\ D * q + r = x
  BY <1>1
<1>4. x % D = r
  <2> DEFINE a == x \div D
             b == x % D
  <2> HIDE DEF a, b, r, q, D
  <2>1. D * a + b = D * q + r
    BY <1>2, <1>3 DEF a, b
  <2> QED
    BY <1>1, <1>2, <1>3, <2>1, RemainderUnique DEF a, b
<1> QED
  BY <1>4

\* The block at place i of the ring that starts at p.
Turned(p, i) == IF p + i - 1 < DataBlocks THEN p + i - 1 ELSE p + i - 1 - DataBlocks

\* The ring is a sequence of the blocks' entries.
LEMMA RingFacts ==
  ASSUME NEW d \in [Blocks -> Buffer], NEW p \in 0 .. DataBlocks
  PROVE  /\ Ring(d, p) \in Seq(Seq(Numbers)) /\ Len(Ring(d, p)) = DataBlocks
         /\ Ring(d, p) # <<>>
         /\ \A i \in 1 .. DataBlocks : /\ Turned(p, i) \in Blocks
                                       /\ Ring(d, p)[i] = d[Turned(p, i)].ents
<1>1. DataBlocks \in Nat \ {0}
  BY ConstantsAssumption
<1>2. ASSUME NEW i \in 1 .. DataBlocks
      PROVE  /\ Turned(p, i) \in Blocks
             /\ (p + i - 1) % DataBlocks = Turned(p, i)
             /\ d[Turned(p, i)].ents \in Seq(Numbers)
  <2>1. p + i - 1 \in 0 .. 2 * DataBlocks - 1
    BY <1>1
  <2>2. (p + i - 1) % DataBlocks = Turned(p, i)
    <3> DEFINE y == p + i - 1
    <3> HIDE DEF y
    <3>1. y % DataBlocks = IF y < DataBlocks THEN y ELSE y - DataBlocks
      BY <2>1, Around DEF y
    <3>2. Turned(p, i) = IF y < DataBlocks THEN y ELSE y - DataBlocks
      BY <1>1 DEF y, Turned
    <3>3. y % DataBlocks = Turned(p, i)
      BY <3>1, <3>2
    <3> QED
      BY <3>3 DEF y
  <2>3. Turned(p, i) \in Blocks
    BY <1>1 DEF Turned, Blocks
  <2> QED
    BY <2>2, <2>3 DEF Buffer, Numbers
<1> DEFINE e(i) == d[Turned(p, i)].ents
           R == [i \in 1 .. DataBlocks |-> e(i)]
<1>3. Ring(d, p) = R
  BY <1>2 DEF Ring
<1>4. \A i \in 1 .. DataBlocks : e(i) \in Seq(Numbers)
  BY <1>2
<1> HIDE DEF e
<1>5. /\ R \in Seq(Seq(Numbers)) /\ Len(R) = DataBlocks
      /\ \A i \in 1 .. DataBlocks : R[i] = e(i)
  BY <1>1, <1>4
<1> HIDE DEF R
<1>6. R # <<>>
  BY <1>1, <1>5
<1> QED
  BY <1>2, <1>3, <1>5, <1>6 DEF e

\* While the block at p is written the ring starts behind it, and it is empty.
LEMMA RingStarts ==
  ASSUME NEW d \in [Blocks -> Buffer], NEW p \in Blocks, NEW d2 \in [Blocks -> Buffer],
         d2 = [d EXCEPT ![p] = Invalid]
  PROVE  Ring(d2, p + 1) = Append(Tail(Ring(d, p)), <<>>)
<1> DEFINE r == Ring(d, p)
           r2 == Ring(d2, p + 1)
           t == Append(Tail(r), <<>>)
           D == DataBlocks
<1>1. D \in Nat \ {0} /\ p \in 0 .. D /\ p + 1 \in 0 .. D /\ p < D
  BY ConstantsAssumption DEF Blocks
<1>2. /\ r \in Seq(Seq(Numbers)) /\ Len(r) = D /\ r # <<>>
      /\ \A i \in 1 .. D : Turned(p, i) \in Blocks /\ r[i] = d[Turned(p, i)].ents
  BY <1>1, RingFacts
<1>3. /\ r2 \in Seq(Seq(Numbers)) /\ Len(r2) = D
      /\ \A i \in 1 .. D : Turned(p + 1, i) \in Blocks /\ r2[i] = d2[Turned(p + 1, i)].ents
  BY <1>1, RingFacts
<1> HIDE DEF r, r2
<1>4. /\ Tail(r) \in Seq(Seq(Numbers)) /\ Len(Tail(r)) = D - 1
      /\ \A i \in 1 .. D - 1 : Tail(r)[i] = r[i + 1]
  BY <1>2, HeadTailProperties
<1> DEFINE u == Tail(r)
<1> HIDE DEF u
<1>5. <<>> \in Seq(Numbers)
  OBVIOUS
<1>6. /\ t \in Seq(Seq(Numbers)) /\ Len(t) = D /\ t[D] = <<>>
      /\ \A i \in 1 .. D - 1 : t[i] = r[i + 1]
  BY <1>1, <1>4, <1>5, AppendProperties DEF u
<1> HIDE DEF t
<1>7. ASSUME NEW i \in 1 .. D
      PROVE  r2[i] = t[i]
  <2>1. CASE i = D
    <3>1. Turned(p + 1, i) = p
      BY <1>1, <2>1 DEF Turned
    <3>2. d2[p].ents = <<>>
      BY DEF Invalid
    <3> QED
      BY <1>3, <1>6, <2>1, <3>1, <3>2
  <2>2. CASE i # D
    <3>1. i \in 1 .. D - 1 /\ i + 1 \in 1 .. D
      BY <1>1, <2>2
    <3>2. Turned(p + 1, i) = Turned(p, i + 1) /\ Turned(p, i + 1) # p
      BY <1>1, <3>1 DEF Turned
    <3>3. d2[Turned(p, i + 1)] = d[Turned(p, i + 1)]
      BY <1>2, <3>1, <3>2
    <3> QED
      BY <1>2, <1>3, <1>6, <3>1, <3>2, <3>3
  <2> QED
    BY <2>1, <2>2
<1>8. r2 = t
  BY <1>3, <1>6, <1>7, SeqEqual
<1> QED
  BY <1>8 DEF r, r2, t

\* The block before p is the last of the ring that starts at p.
LEMMA RingEnds ==
  ASSUME NEW d \in [Blocks -> Buffer], NEW p \in 1 .. DataBlocks, NEW b \in Buffer,
         NEW d2 \in [Blocks -> Buffer], d2 = [d EXCEPT ![p - 1] = b]
  PROVE  \E f \in Seq(Seq(Numbers)) :
           Ring(d, p) = Append(f, d[p - 1].ents) /\ Ring(d2, p) = Append(f, b.ents)
<1> DEFINE r == Ring(d, p)
           r2 == Ring(d2, p)
           D == DataBlocks
           f == [i \in 1 .. D - 1 |-> r[i]]
           x == d[p - 1].ents
           y == b.ents
<1>1. D \in Nat \ {0} /\ p \in 0 .. D /\ p - 1 \in Blocks
  BY ConstantsAssumption DEF Blocks
<1>2. /\ r \in Seq(Seq(Numbers)) /\ Len(r) = D
      /\ \A i \in 1 .. D : Turned(p, i) \in Blocks /\ r[i] = d[Turned(p, i)].ents
  BY <1>1, RingFacts
<1>3. /\ r2 \in Seq(Seq(Numbers)) /\ Len(r2) = D
      /\ \A i \in 1 .. D : r2[i] = d2[Turned(p, i)].ents
  BY <1>1, RingFacts
<1> HIDE DEF r, r2
<1>4. /\ Turned(p, D) = p - 1
      /\ \A i \in 1 .. D - 1 : Turned(p, i) # p - 1
  BY <1>1 DEF Turned
<1>5. x \in Seq(Numbers) /\ y \in Seq(Numbers)
  BY <1>1 DEF Buffer, Numbers
<1>6. r[D] = x /\ r2[D] = y
  <2>1. d2[p - 1] = b
    BY <1>1
  <2> QED
    BY <1>1, <1>2, <1>3, <1>4, <2>1
<1>7. ASSUME NEW i \in 1 .. D - 1
      PROVE  r2[i] = r[i]
  <2>1. i \in 1 .. D
    BY <1>1
  <2>2. d2[Turned(p, i)] = d[Turned(p, i)]
    BY <1>1, <1>2, <1>4, <2>1
  <2> QED
    BY <1>2, <1>3, <2>1, <2>2
<1>8. f \in Seq(Seq(Numbers)) /\ Len(f) = D - 1 /\ \A i \in 1 .. D - 1 : f[i] = r[i]
  <2>1. D - 1 \in Nat /\ \A i \in 1 .. D - 1 : r[i] \in Seq(Numbers)
    BY <1>1, <1>2
  <2> HIDE DEF D
  <2> QED
    BY <2>1
<1> HIDE DEF f, x, y
<1>9. /\ Append(f, x) \in Seq(Seq(Numbers)) /\ Len(Append(f, x)) = D
      /\ \A i \in 1 .. D - 1 : Append(f, x)[i] = f[i]
      /\ Append(f, x)[D] = x
      /\ Append(f, y) \in Seq(Seq(Numbers)) /\ Len(Append(f, y)) = D
      /\ \A i \in 1 .. D - 1 : Append(f, y)[i] = f[i]
      /\ Append(f, y)[D] = y
  BY <1>1, <1>5, <1>8, AppendProperties
<1> DEFINE fx == Append(f, x)
           fy == Append(f, y)
<1> HIDE DEF fx, fy
<1>10. \A i \in 1 .. D : r[i] = fx[i] /\ r2[i] = fy[i]
  BY <1>1, <1>6, <1>7, <1>8, <1>9 DEF fx, fy
<1>11. r = fx /\ r2 = fy
  BY <1>2, <1>3, <1>9, <1>10, SeqEqual DEF fx, fy
<1> QED
  BY <1>8, <1>11 DEF r, r2, fx, fy, x, y

\* The ring that starts behind the last block starts with block 0.
LEMMA RingWraps ==
  ASSUME NEW d \in [Blocks -> Buffer]
  PROVE  Ring(d, DataBlocks) = Ring(d, 0)
<1> DEFINE r == Ring(d, DataBlocks)
           s == Ring(d, 0)
<1>1. DataBlocks \in Nat \ {0} /\ DataBlocks \in 0 .. DataBlocks /\ 0 \in 0 .. DataBlocks
  BY ConstantsAssumption
<1>2. /\ r \in Seq(Seq(Numbers)) /\ Len(r) = DataBlocks
      /\ \A i \in 1 .. DataBlocks : r[i] = d[Turned(DataBlocks, i)].ents
  BY <1>1, RingFacts
<1>3. /\ s \in Seq(Seq(Numbers)) /\ Len(s) = DataBlocks
      /\ \A i \in 1 .. DataBlocks : s[i] = d[Turned(0, i)].ents
  BY <1>1, RingFacts
<1> HIDE DEF r, s
<1>4. \A i \in 1 .. DataBlocks : Turned(DataBlocks, i) = Turned(0, i)
  BY <1>1 DEF Turned
<1>5. r = s
  BY <1>2, <1>3, <1>4, SeqEqual
<1> QED
  BY <1>5 DEF r, s

\* The elements of a concatenation.
LEMMA ContainsConcat ==
  ASSUME NEW S, NEW s \in Seq(S), NEW t \in Seq(S), NEW e
  PROVE  Contains(s \o t, e) <=> Contains(s, e) \/ Contains(t, e)
<1> DEFINE u == s \o t
<1>1. Len(s) \in Nat /\ Len(t) \in Nat
  OBVIOUS
<1>2. /\ Len(u) = Len(s) + Len(t)
      /\ \A i \in 1 .. Len(s) + Len(t) : u[i] = IF i <= Len(s) THEN s[i] ELSE t[i - Len(s)]
  BY ConcatProperties
<1> HIDE DEF u
<1>3. ASSUME NEW i \in 1 .. Len(u)
      PROVE  Contains(s, u[i]) \/ Contains(t, u[i])
  <2>1. CASE i <= Len(s)
    BY <1>1, <1>2, <2>1 DEF Contains
  <2>2. CASE ~ (i <= Len(s))
    <3>1. i - Len(s) \in 1 .. Len(t) /\ u[i] = t[i - Len(s)]
      BY <1>1, <1>2, <2>2
    <3> QED
      BY <3>1 DEF Contains
  <2> QED
    BY <2>1, <2>2
<1>4. ASSUME NEW i \in 1 .. Len(s)
      PROVE  Contains(u, s[i])
  <2>1. i \in 1 .. Len(u) /\ u[i] = s[i]
    BY <1>1, <1>2
  <2> QED
    BY <2>1 DEF Contains
<1>5. ASSUME NEW i \in 1 .. Len(t)
      PROVE  Contains(u, t[i])
  <2>1. i + Len(s) \in 1 .. Len(u) /\ ~ (i + Len(s) <= Len(s)) /\ i + Len(s) - Len(s) = i
    BY <1>1, <1>2
  <2>2. u[i + Len(s)] = t[i]
    BY <1>2, <2>1
  <2> QED
    BY <2>1, <2>2 DEF Contains
<1>6. Contains(u, e) <=> Contains(s, e) \/ Contains(t, e)
  <2>1. ASSUME Contains(u, e) PROVE Contains(s, e) \/ Contains(t, e)
    <3>1. PICK i \in 1 .. Len(u) : u[i] = e
      BY <2>1 DEF Contains
    <3> QED
      BY <1>3, <3>1
  <2>2. ASSUME Contains(s, e) PROVE Contains(u, e)
    <3>1. PICK i \in 1 .. Len(s) : s[i] = e
      BY <2>2 DEF Contains
    <3> QED
      BY <1>4, <3>1
  <2>3. ASSUME Contains(t, e) PROVE Contains(u, e)
    <3>1. PICK i \in 1 .. Len(t) : t[i] = e
      BY <2>3 DEF Contains
    <3> QED
      BY <1>5, <3>1
  <2> QED
    BY <2>1, <2>2, <2>3
<1> QED
  BY <1>6 DEF u

\* The elements of a flattened sequence are those of its parts.
LEMMA ContainsFlatten ==
  ASSUME NEW P, NEW e
  PROVE  \A s \in Seq(Seq(P)) :
           Contains(FlattenSeq(s), e) <=> \E i \in 1 .. Len(s) : Contains(s[i], e)
<1> DEFINE Q(s) == Contains(FlattenSeq(s), e) <=> \E i \in 1 .. Len(s) : Contains(s[i], e)
           T == {n \in Nat : \A s \in Seq(Seq(P)) : Len(s) = n => Q(s)}
<1>1. 0 \in T
  <2>1. ASSUME NEW s \in Seq(Seq(P)), Len(s) = 0
        PROVE  Q(s)
    <3>1. s = <<>>
      BY <2>1
    <3>2. FlattenSeq(s) = <<>>
      BY <3>1, FlattenEmpty
    <3> QED
      BY <2>1, <3>2 DEF Contains
  <2> QED
    BY <2>1
<1>2. ASSUME NEW n \in Nat, n \in T
      PROVE  n + 1 \in T
  <2>1. ASSUME NEW s \in Seq(Seq(P)), Len(s) = n + 1
        PROVE  Q(s)
    <3>1. s # <<>>
      BY <2>1
    <3>2. PICK f \in Seq(Seq(P)), x \in Seq(P) : s = Append(f, x)
      BY <3>1, SequenceEmptyOrAppend
    <3>3. /\ Len(f) = n /\ s[n + 1] = x
          /\ \A i \in 1 .. n : s[i] = f[i]
      BY <2>1, <3>2, AppendProperties
    <3>4. FlattenSeq(s) = FlattenSeq(f) \o x /\ FlattenSeq(f) \in Seq(P)
      BY <3>2, FlattenAppend, FlattenType
    <3>5. Contains(FlattenSeq(s), e) <=> Contains(FlattenSeq(f), e) \/ Contains(x, e)
      BY <3>4, ContainsConcat
    <3>6. Contains(FlattenSeq(f), e) <=> \E i \in 1 .. n : Contains(f[i], e)
      BY <1>2, <3>3
    <3>7. \A i \in 1 .. n + 1 : i \in 1 .. n \/ i = n + 1
      OBVIOUS
    <3>8. (\A i \in 1 .. n : i \in 1 .. n + 1) /\ n + 1 \in 1 .. n + 1
      OBVIOUS
    <3>9. (\E i \in 1 .. n + 1 : Contains(s[i], e)) <=>
            (\E i \in 1 .. n : Contains(f[i], e)) \/ Contains(x, e)
      BY <3>3, <3>7, <3>8, Zenon
    <3> QED
      BY <2>1, <3>5, <3>6, <3>9, Zenon
  <2> QED
    BY <2>1
<1>3. \A n \in Nat : n \in T
  <2> HIDE DEF T
  <2> QED
    BY <1>1, <1>2, SetInduction
<1>4. ASSUME NEW s \in Seq(Seq(P))
      PROVE  Q(s)
  <2>1. Len(s) \in Nat
    OBVIOUS
  <2>2. Len(s) \in T
    BY <1>3, <2>1
  <2> QED
    BY <2>2
<1> QED
  BY <1>4

\* The recursive definition of Saved, as two equations.
SavesBy(f, s) ==
  /\ f[0] = <<>>
  /\ \A k \in 1 .. Len(s) : f[k] = IF OnDisk(s[k]) THEN Append(f[k - 1], s[k]) ELSE f[k - 1]

\* Saved walks along the sequence.
LEMMA SavedIs ==
  ASSUME NEW s \in Seq(Nat)
  PROVE  \E f : SavesBy(f, s) /\ Saved(s) = f[Len(s)]
<1> DEFINE n == Len(s)
           R(g) == g = [k \in 0 .. n |->
                          IF k = 0 THEN <<>>
                          ELSE IF OnDisk(s[k]) THEN Append(g[k - 1], s[k]) ELSE g[k - 1]]
           f == CHOOSE g : R(g)
<1>1. n \in Nat /\ \A k \in 1 .. n : s[k] \in Nat
  OBVIOUS
<1>2. \E g : R(g)
  <2> DEFINE T == Seq(Nat)
             step == [k \in 1 .. n |-> [x \in T |-> IF OnDisk(s[k]) THEN Append(x, s[k]) ELSE x]]
  <2>1. step \in [1 .. n -> [T -> T]]
    <3>1. \A k \in 1 .. n : \A x \in T : (IF OnDisk(s[k]) THEN Append(x, s[k]) ELSE x) \in T
      BY <1>1
    <3> HIDE DEF T, n
    <3> QED
      BY <3>1, Zenon
  <2>2. \A k \in 1 .. n : \A x \in T : step[k][x] = IF OnDisk(s[k]) THEN Append(x, s[k]) ELSE x
    BY Zenon
  <2>3. <<>> \in T
    OBVIOUS
  <2> HIDE DEF step, T
  <2>4. PICK g \in [0 .. n -> T] : Recurs(g, <<>>, step, n)
    BY <1>1, <2>1, <2>3, Recursion
  <2>5. /\ g[0] = <<>>
        /\ \A k \in 1 .. n : g[k] = IF OnDisk(s[k]) THEN Append(g[k - 1], s[k]) ELSE g[k - 1]
    <3>1. \A k \in 1 .. n : k - 1 \in 0 .. n
      BY <1>1
    <3>2. g[0] = <<>> /\ \A k \in 1 .. n : g[k] = step[k][g[k - 1]]
      BY <2>4 DEF Recurs
    <3>3. \A k \in 1 .. n : g[k - 1] \in T
      BY <2>4, <3>1
    <3> QED
      BY <2>2, <3>2, <3>3
  <2>6. \A k \in 0 .. n : k = 0 \/ k \in 1 .. n
    BY <1>1
  <2>7. g = [k \in 0 .. n |-> g[k]]
    BY <2>4
  <2>8. R(g)
    <3> DEFINE h(k) == IF k = 0 THEN <<>>
                       ELSE IF OnDisk(s[k]) THEN Append(g[k - 1], s[k]) ELSE g[k - 1]
    <3>1. \A k \in 0 .. n : g[k] = h(k)
      BY <1>1, <2>5, <2>6
    <3> HIDE DEF h
    <3>2. g = [k \in 0 .. n |-> h(k)]
      BY <2>7, <3>1
    <3> QED
      BY <3>2 DEF h
  <2> QED
    BY <2>8
<1>3. R(f)
  BY <1>2, Zenon
<1>4. Saved(s) = f[n]
  BY DEF Saved
<1> HIDE DEF f
<1>5. SavesBy(f, s)
  <2>1. 0 \in 0 .. n /\ \A k \in 1 .. n : k \in 0 .. n /\ k # 0
    BY <1>1
  <2>2. f[0] = <<>>
    BY <1>3, <2>1
  <2>3. \A k \in 1 .. n : f[k] = IF OnDisk(s[k]) THEN Append(f[k - 1], s[k]) ELSE f[k - 1]
    BY <1>3, <2>1
  <2> QED
    BY <2>2, <2>3 DEF SavesBy
<1> QED
  BY <1>4, <1>5

\* The middle part of a sequence.
LEMMA MiddlePart ==
  ASSUME NEW S, NEW x \in Seq(S), NEW m \in Seq(S), NEW z \in Seq(S), NEW s, s = x \o m \o z
  PROVE  /\ s \in Seq(S) /\ Len(s) = Len(x) + Len(m) + Len(z)
         /\ \A i \in 1 .. Len(m) : s[Len(x) + i] = m[i]
<1> DEFINE a == Len(x)
           b == Len(x) + Len(m)
<1>1. a \in Nat /\ Len(m) \in Nat /\ b \in Nat /\ Len(z) \in Nat /\ b = a + Len(m)
  OBVIOUS
<1>2. /\ x \o m \in Seq(S) /\ Len(x \o m) = b
      /\ \A i \in 1 .. b : (x \o m)[i] = IF i <= a THEN x[i] ELSE m[i - a]
  BY ConcatProperties
<1> DEFINE y == x \o m
<1> HIDE DEF y
<1>3. /\ y \o z \in Seq(S) /\ Len(y \o z) = b + Len(z)
      /\ \A i \in 1 .. b + Len(z) : (y \o z)[i] = IF i <= b THEN y[i] ELSE z[i - b]
  BY <1>2, ConcatProperties DEF y
<1>4. s = y \o z
  BY DEF y
<1>5. ASSUME NEW i \in 1 .. Len(m)
      PROVE  s[a + i] = m[i]
  <2>1. a + i \in 1 .. b /\ a + i \in 1 .. b + Len(z) /\ a + i <= b /\ ~ (a + i <= a) /\ a + i - a = i
    BY <1>1
  <2>2. s[a + i] = y[a + i]
    BY <1>3, <1>4, <2>1
  <2> QED
    BY <1>2, <2>1, <2>2 DEF y
<1> QED
  BY <1>3, <1>4, <1>5

\* If the entries on the card are a part of the sequence, that part is what is saved.
LEMMA SavedPart ==
  ASSUME NEW x \in Seq(Nat), NEW m \in Seq(Nat), NEW z \in Seq(Nat), NEW s, s = x \o m \o z,
         \A k \in 1 .. Len(s) : OnDisk(s[k]) <=> k > Len(x) /\ k <= Len(x) + Len(m)
  PROVE  Saved(s) = m
<1> DEFINE a == Len(x)
           b == Len(x) + Len(m)
           n == Len(s)
<1>1. a \in Nat /\ Len(m) \in Nat /\ b \in Nat /\ Len(z) \in Nat /\ b = a + Len(m)
  OBVIOUS
<1>2. /\ s \in Seq(Nat) /\ n = b + Len(z)
      /\ \A i \in 1 .. Len(m) : s[a + i] = m[i]
  BY MiddlePart
<1>3. PICK f : SavesBy(f, s) /\ Saved(s) = f[n]
  BY <1>2, SavedIs
<1> DEFINE Good(k) == IF k <= a THEN f[k] = <<>>
                      ELSE IF k <= b THEN f[k] = SubSeq(m, 1, k - a) ELSE f[k] = m
           T == {k \in Nat : k <= n => Good(k)}
<1> HIDE DEF a, b, n
<1>4. 0 \in T
  BY <1>1, <1>3 DEF SavesBy
<1>5. SubSeq(m, 1, Len(m)) = m /\ SubSeq(m, 1, 0) = <<>>
  BY SubSeqFull, SubSeqEmpty
<1>6. ASSUME NEW k \in Nat, k \in T
      PROVE  k + 1 \in T
  <2>1. SUFFICES ASSUME k + 1 <= n
                 PROVE  Good(k + 1)
    OBVIOUS
  <2>2. n \in Nat
    BY <1>2 DEF n
  <2>3. k <= n /\ k + 1 \in 1 .. n /\ k + 1 - 1 = k
    BY <2>1, <2>2
  <2>4. Good(k)
    BY <1>6, <2>3
  <2>5. f[k + 1] = IF OnDisk(s[k + 1]) THEN Append(f[k], s[k + 1]) ELSE f[k]
    BY <1>3, <2>3 DEF SavesBy, n
  <2>6. OnDisk(s[k + 1]) <=> k + 1 > a /\ k + 1 <= b
    BY <2>3 DEF a, b, n
  <2>7. CASE k + 1 <= a
    <3>1. k <= a /\ f[k] = <<>>
      BY <1>1, <2>4, <2>7
    <3>2. ~ (k + 1 > a)
      BY <1>1, <2>7
    <3>3. f[k + 1] = <<>>
      BY <2>5, <2>6, <3>1, <3>2
    <3> QED
      BY <2>7, <3>3
  <2>8. CASE k + 1 > a /\ k + 1 <= b
    <3>1. k + 1 - a \in 1 .. Len(m) /\ a + (k + 1 - a) = k + 1 /\ Len(m) \in Int
      BY <1>1, <2>8 DEF b, a
    <3>2. s[k + 1] = m[k + 1 - a]
      BY <1>2, <3>1
    <3>3. f[k] = SubSeq(m, 1, k - a)
      <4>1. CASE k = a
        <5>1. k - a = 0 /\ k <= a
          BY <1>1, <4>1
        <5>2. f[k] = <<>>
          BY <2>4, <5>1
        <5> QED
          BY <1>5, <5>1, <5>2
      <4>2. CASE k # a
        BY <1>1, <2>4, <2>8, <4>2
      <4> QED
        BY <4>1, <4>2
    <3>4. f[k + 1] = Append(SubSeq(m, 1, k - a), m[k + 1 - a])
      BY <2>5, <2>6, <2>8, <3>2, <3>3
    <3> DEFINE j == k + 1 - a
    <3>5. j \in 1 .. Len(m) /\ k - a = j - 1 /\ 1 \in 1 .. Len(m) /\ j \in 1 .. Len(m)
      BY <1>1, <3>1
    <3> HIDE DEF j
    <3>6. SubSeq(m, 1, j) = SubSeq(m, 1, j - 1) \o <<m[j]>>
      BY <3>5, SubSeqRecursiveSecond
    <3>7. SubSeq(m, 1, j - 1) \in Seq(Nat) /\ m[j] \in Nat
      <4>1. (\A i \in 1 .. j - 1 : m[i] \in Nat) /\ 1 \in Int /\ j - 1 \in Int
        BY <3>5
      <4> QED
        BY <3>5, <4>1, SubSeqProperties, SMTT(40)
    <3>8. f[k + 1] = SubSeq(m, 1, j)
      <4>1. f[k + 1] = Append(SubSeq(m, 1, j - 1), m[j])
        BY <3>4, <3>5 DEF j
      <4> QED
        BY <3>6, <3>7, <4>1, AppendIsConcat
    <3> QED
      BY <1>1, <2>8, <3>8, SMTT(20) DEF j
  <2>9. CASE k + 1 > b
    <3>0. ~ (k + 1 <= a) /\ ~ (k + 1 <= b)
      BY <1>1, <2>9
    <3>1. f[k + 1] = f[k] /\ ~ (k + 1 <= a) /\ ~ (k + 1 <= b)
      BY <2>5, <2>6, <3>0
    <3>2. f[k] = m
      <4>1. CASE k > b
        BY <1>1, <2>4, <4>1 DEF a, b
      <4>2. CASE k = b /\ Len(m) = 0
        <5>1. m = <<>> /\ k <= a
          BY <1>1, <4>2 DEF a, b
        <5> QED
          BY <2>4, <5>1
      <4>3. CASE k = b /\ Len(m) # 0
        <5>1. ~ (k <= a) /\ k <= b /\ k - a = Len(m)
          BY <1>1, <4>3 DEF a, b
        <5>2. f[k] = SubSeq(m, 1, Len(m))
          BY <2>4, <5>1
        <5> QED
          BY <1>5, <5>2
      <4>4. k > b \/ k = b
        BY <1>1, <2>9
      <4> QED
        BY <4>1, <4>2, <4>3, <4>4
    <3> QED
      BY <3>1, <3>2
  <2>10. k + 1 <= a \/ (k + 1 > a /\ k + 1 <= b) \/ k + 1 > b
    BY <1>1
  <2> QED
    BY <2>7, <2>8, <2>9, <2>10
<1>7. \A k \in Nat : k \in T
  <2> HIDE DEF T
  <2> QED
    BY <1>4, <1>6, SetInduction
<1>8. Good(n)
  <2>1. n \in Nat
    BY <1>2 DEF n
  <2>2. n \in T
    BY <1>7, <2>1
  <2> QED
    BY <2>1, <2>2
<1>9. f[n] = m
  <2>1. CASE n <= a
    <3>1. Len(m) = 0
      BY <1>1, <1>2, <2>1 DEF a, b
    <3> QED
      BY <1>8, <2>1, <3>1
  <2>2. CASE ~ (n <= a) /\ n <= b
    <3>1. n - a = Len(m)
      <4>1. n = b + Len(z)
        BY <1>2
      <4>2. Len(z) = 0
        BY <1>1, <2>2, <4>1
      <4> QED
        BY <1>1, <4>1, <4>2
    <3> QED
      BY <1>5, <1>8, <2>2, <3>1
  <2>3. CASE ~ (n <= a) /\ ~ (n <= b)
    BY <1>8, <2>3
  <2> QED
    BY <2>1, <2>2, <2>3
<1> QED
  BY <1>3, <1>9


------------------------------------------------------------------------------
(* find_boundry *)

\* Are exactly the blocks up to n newer than block 0?
NewUpTo(n) == \A m \in 1 .. DataBlocks - 1 : block_lt(disk[0], disk[m]) <=> m <= n

\* What the binary search between l and r gives, if it looks for n
Found(n, l, r) == IF l >= r \/ n <= l THEN l ELSE IF n >= r THEN r ELSE n

\* One step of the search keeps what it gives.
LEMMA SearchStep ==
  ASSUME NEW n \in Blocks, NewUpTo(n), NEW l \in Blocks, NEW r \in Blocks, l < r,
         NEW m, m = (l + r) \div 2 + 1
  PROVE  /\ m \in Blocks /\ m - 1 \in Blocks
         /\ block_lt(disk[0], disk[m]) => Found(n, l, r) = Found(n, m, r)
         /\ ~ block_lt(disk[0], disk[m]) => Found(n, l, r) = Found(n, l, m - 1)
<1>1. DataBlocks \in Nat \ {0} /\ l \in Nat /\ r \in Nat /\ n \in Nat /\ n <= DataBlocks - 1
      /\ r <= DataBlocks - 1
  BY ConstantsAssumption DEF Blocks
<1>2. m \in Int /\ l < m /\ m <= r
  BY <1>1
<1>3. m \in Blocks /\ m - 1 \in Blocks /\ m \in 1 .. DataBlocks - 1
  BY <1>1, <1>2 DEF Blocks
<1>4. block_lt(disk[0], disk[m]) <=> m <= n
  BY <1>3 DEF NewUpTo
<1>5. m <= n => Found(n, l, r) = Found(n, m, r)
  BY <1>1, <1>2 DEF Found
<1>6. ~ (m <= n) => Found(n, l, r) = Found(n, l, m - 1)
  BY <1>1, <1>2 DEF Found
<1> QED
  BY <1>3, <1>4, <1>5, <1>6

\* A step of the search, as f goes on with it
Goes(f, l, r) ==
  LET m == (l + r) \div 2 + 1
  IN  IF l >= r THEN l
      ELSE IF block_lt(disk[0], disk[m]) THEN f[<<m, r>>] ELSE f[<<l, m - 1>>]

\* The equation of the search
Searches(g) == g = [lr \in Blocks \X Blocks |-> Goes(g, lr[1], lr[2])]

\* find_boundry finds the last block that is newer than block 0.
LEMMA BoundaryFound ==
  ASSUME NEW n \in Blocks, NewUpTo(n)
  PROVE  Boundary = n
<1> DEFINE f == CHOOSE g : Searches(g)
           h == [lr \in Blocks \X Blocks |-> Found(n, lr[1], lr[2])]
           D == DataBlocks
<1>1. D \in Nat \ {0} /\ 0 \in Blocks /\ D - 1 \in Blocks /\ n \in Nat /\ n <= D - 1
  BY ConstantsAssumption DEF Blocks
<1>2. ASSUME NEW g, NEW l \in Blocks, NEW r \in Blocks, l < r,
             \A m \in Blocks : /\ m > l => g[<<m, r>>] = Found(n, m, r)
                               /\ m < r => g[<<l, m>>] = Found(n, l, m)
      PROVE  Goes(g, l, r) = Found(n, l, r)
  <2> DEFINE m == (l + r) \div 2 + 1
  <2>1. l \in Nat /\ r \in Nat
    BY <1>1 DEF Blocks
  <2>2. ~ (l >= r) /\ m > l /\ m - 1 < r
    BY <1>2, <2>1
  <2>3. Goes(g, l, r) = IF block_lt(disk[0], disk[m]) THEN g[<<m, r>>] ELSE g[<<l, m - 1>>]
    BY <2>2 DEF Goes
  <2> HIDE DEF m
  <2>4. /\ m \in Blocks /\ m - 1 \in Blocks
        /\ block_lt(disk[0], disk[m]) => Found(n, l, r) = Found(n, m, r)
        /\ ~ block_lt(disk[0], disk[m]) => Found(n, l, r) = Found(n, l, m - 1)
    BY <1>2, SearchStep DEF m
  <2>5. g[<<m, r>>] = Found(n, m, r) /\ g[<<l, m - 1>>] = Found(n, l, m - 1)
    BY <1>2, <2>2, <2>4
  <2> QED
    BY <2>3, <2>4, <2>5
<1>3. ASSUME NEW g, NEW l \in Blocks, NEW r \in Blocks, ~ (l < r)
      PROVE  Goes(g, l, r) = l /\ Found(n, l, r) = l
  <2>1. l >= r
    BY <1>3 DEF Blocks
  <2> QED
    BY <2>1 DEF Goes, Found
<1>4. Searches(h)
  <2>1. \A l, r \in Blocks : h[<<l, r>>] = Found(n, l, r)
    OBVIOUS
  <2> HIDE DEF h
  <2>2. \A l, r \in Blocks : Found(n, l, r) = Goes(h, l, r)
    BY <1>2, <1>3, <2>1
  <2>3. [lr \in Blocks \X Blocks |-> Found(n, lr[1], lr[2])]
          = [lr \in Blocks \X Blocks |-> Goes(h, lr[1], lr[2])]
    BY <2>2
  <2> QED
    BY <2>3 DEF h, Searches
<1>5. Searches(f)
  <2> HIDE DEF h
  <2> QED
    BY <1>4, Zenon
<1>6. Boundary = f[<<0, D - 1>>]
  BY DEF Boundary, Searches, Goes
<1> HIDE DEF f, h
<1>7. \A l, r \in Blocks : f[<<l, r>>] = Goes(f, l, r)
  BY <1>5 DEF Searches
<1> DEFINE T == {k \in Nat : \A l, r \in Blocks : r - l <= k => f[<<l, r>>] = Found(n, l, r)}
<1>8. 0 \in T
  <2>1. \A l, r \in Blocks : r - l <= 0 => ~ (l < r)
    BY <1>1 DEF Blocks
  <2> QED
    BY <1>3, <1>7, <2>1
<1>9. ASSUME NEW k \in Nat, k \in T
      PROVE  k + 1 \in T
  <2>1. ASSUME NEW l \in Blocks, NEW r \in Blocks, r - l <= k + 1
        PROVE  f[<<l, r>>] = Found(n, l, r)
    <3>1. CASE ~ (l < r)
      BY <1>3, <1>7, <3>1
    <3>2. CASE l < r
      <4>1. \A m \in Blocks : (m > l => r - m <= k) /\ (m < r => m - l <= k)
        BY <1>1, <2>1, <3>2 DEF Blocks
      <4>2. \A m \in Blocks : /\ m > l => f[<<m, r>>] = Found(n, m, r)
                              /\ m < r => f[<<l, m>>] = Found(n, l, m)
        BY <1>9, <4>1
      <4> QED
        BY <1>2, <1>7, <3>2, <4>2
    <3> QED
      BY <3>1, <3>2
  <2>2. k + 1 \in Nat
    OBVIOUS
  <2> QED
    BY <2>1, <2>2
<1>10. \A k \in Nat : k \in T
  <2> HIDE DEF T
  <2> QED
    BY <1>8, <1>9, SetInduction
<1>11. f[<<0, D - 1>>] = Found(n, 0, D - 1)
  <2>1. D - 1 \in Nat /\ D - 1 - 0 <= D - 1
    BY <1>1
  <2>2. D - 1 \in T
    BY <1>10, <2>1
  <2> QED
    BY <1>1, <2>1, <2>2
<1>12. Found(n, 0, D - 1) = n
  BY <1>1 DEF Found
<1> QED
  BY <1>6, <1>11, <1>12

------------------------------------------------------------------------------
(* The log and what was accepted *)

\* All the model's numbers are integers.
LEMMA Numeric ==
  ASSUME Types
  PROVE  /\ DataBlocks \in Nat \ {0} /\ BlockCap \in Nat \ {0} /\ MaxDelta \in Nat
         /\ MaxTime \in Nat /\ MaxEntries \in Nat
         /\ now \in Nat /\ entries \in Nat /\ newest \in Nat /\ data_ptr \in Nat
         /\ block_ptr \in Nat /\ block_generation \in Nat
         /\ disk \in [Blocks -> Buffer] /\ block \in Buffer /\ block_alt \in Buffer
BY ConstantsAssumption DEF Types, TypeOK

\* The fields of a buffer.
LEMMA Fields ==
  ASSUME NEW b \in Buffer
  PROVE  /\ b.gen \in Nat /\ b.ts \in 0 .. MaxTime /\ b.ts \in Nat
         /\ b.ents \in Seq(Numbers) /\ Len(b.ents) \in Nat
         /\ b = [gen |-> b.gen, ts |-> b.ts, ents |-> b.ents]
<1>1. b.gen \in Nat /\ b.ts \in 0 .. MaxTime /\ b.ents \in Seq(Numbers)
      /\ b = [gen |-> b.gen, ts |-> b.ts, ents |-> b.ents]
  BY DEF Buffer, Numbers
<1>2. b.ts \in Nat
  BY <1>1, ConstantsAssumption
<1>3. Len(b.ents) \in Nat
  BY <1>1
<1> QED
  BY <1>1, <1>2, <1>3

\* An empty buffer is one.
LEMMA InvalidBuffer == Invalid \in Buffer
BY ConstantsAssumption DEF Invalid, Buffer

\* The entries on the card are a sequence.
LEMMA CardEntries ==
  ASSUME NEW d \in [Blocks -> Buffer], NEW p \in 0 .. DataBlocks
  PROVE  FlattenSeq(Ring(d, p)) \in Seq(Numbers)
<1>1. Ring(d, p) \in Seq(Seq(Numbers))
  BY RingFacts
<1> QED
  BY <1>1, FlattenType

\* The parts of the log are sequences of entries.
LEMMA LogTyped ==
  ASSUME Types
  PROVE  /\ Place \in 0 .. DataBlocks
         /\ FlattenSeq(Ring(disk, Place)) \in Seq(Numbers)
         /\ Pending \in Seq(Numbers) /\ block.ents \in Seq(Numbers)
<1>1. Place \in 0 .. DataBlocks
  BY ConstantsAssumption DEF Place, Types, TypeOK
<1>2. FlattenSeq(Ring(disk, Place)) \in Seq(Numbers)
  BY <1>1, Numeric, CardEntries
<1>3. block.ents \in Seq(Numbers) /\ block_alt.ents \in Seq(Numbers)
  BY Numeric, Fields
<1>4. Pending \in Seq(Numbers)
  BY <1>3 DEF Pending
<1> QED
  BY <1>1, <1>2, <1>3, <1>4

\* A sequence of entries up to e is one of entries up to n, if e <= n.
LEMMA Widened ==
  ASSUME NEW e \in Nat, NEW n \in Nat, e <= n, NEW s \in Seq(1 .. e)
  PROVE  s \in Seq(1 .. n)
<1>1. \A i \in 1 .. e : i \in 1 .. n
  OBVIOUS
<1>2. Len(s) \in Nat /\ s \in [1 .. Len(s) -> 1 .. e]
  OBVIOUS
<1>3. s \in [1 .. Len(s) -> 1 .. n]
  BY <1>1, <1>2
<1> QED
  BY <1>2, <1>3

\* What is before a part of a suffix may go.
LEMMA SuffixDrop ==
  ASSUME NEW S, NEW a \in Seq(S), NEW s \in Seq(S), NEW t \in Seq(S), IsSuffix(a \o s, t)
  PROVE  IsSuffix(s, t)
<1>1. a \o s \in Seq(S)
  BY ConcatProperties
<1>2. PICK x \in Seq(S) : t = x \o (a \o s)
  BY <1>1, SuffixIs, ZenonT(60)
<1>3. t = (x \o a) \o s /\ x \o a \in Seq(S)
  BY <1>2, ConcatAssociative, ConcatProperties, SMTT(40)
<1> QED
  BY <1>3, SuffixIs

\* Both grow by the same entry.
LEMMA SuffixGrow ==
  ASSUME NEW S, NEW s \in Seq(S), NEW t \in Seq(S), NEW e \in S, IsSuffix(s, t)
  PROVE  IsSuffix(Append(s, e), Append(t, e))
<1>1. PICK x \in Seq(S) : t = x \o s
  BY SuffixIs
<1>2. <<e>> \in Seq(S) /\ Append(s, e) \in Seq(S) /\ Append(t, e) \in Seq(S)
  OBVIOUS
<1>3. Append(t, e) = x \o Append(s, e)
  <2>1. Append(t, e) = (x \o s) \o <<e>>
    BY <1>1, AppendIsConcat
  <2>2. (x \o s) \o <<e>> = x \o (s \o <<e>>)
    BY <1>2, ConcatAssociative
  <2>3. s \o <<e>> = Append(s, e)
    BY AppendIsConcat
  <2> QED
    BY <2>1, <2>2, <2>3
<1> QED
  BY <1>2, <1>3, SuffixIs

\* What is appended to the last part is appended to the whole.
LEMMA AppendLast ==
  ASSUME NEW S, NEW f \in Seq(S), NEW p \in Seq(S), NEW b \in Seq(S), NEW e \in S
  PROVE  f \o p \o Append(b, e) = Append(f \o p \o b, e)
<1> DEFINE q == f \o p
<1>1. q \in Seq(S) /\ <<e>> \in Seq(S)
  BY ConcatProperties
<1> HIDE DEF q
<1>2. q \o b \in Seq(S)
  BY <1>1, ConcatProperties
<1>3. Append(b, e) = b \o <<e>> /\ Append(q \o b, e) = (q \o b) \o <<e>>
  BY <1>2, AppendIsConcat
<1>4. (q \o b) \o <<e>> = q \o (b \o <<e>>)
  BY <1>1, ConcatAssociative
<1> QED
  BY <1>3, <1>4 DEF q

\* Entries are accepted in the order of their numbers.
LEMMA AcceptGrows ==
  ASSUME NEW n \in Nat, NEW s \in Seq(1 .. n), Rising(s)
  PROVE  Append(s, n + 1) \in Seq(1 .. n + 1) /\ Rising(Append(s, n + 1))
<1> DEFINE t == Append(s, n + 1)
<1>1. n + 1 \in Nat /\ n <= n + 1 /\ n + 1 \in 1 .. n + 1
  OBVIOUS
<1>2. s \in Seq(1 .. n + 1)
  BY <1>1, Widened
<1>3. /\ t \in Seq(1 .. n + 1) /\ Len(t) = Len(s) + 1
      /\ \A i \in 1 .. Len(s) : t[i] = s[i]
      /\ t[Len(s) + 1] = n + 1
  BY <1>1, <1>2, AppendProperties
<1> HIDE DEF t
<1>4. ASSUME NEW i \in 1 .. Len(t), NEW j \in 1 .. Len(t), i < j
      PROVE  t[i] < t[j]
  <2>1. i \in 1 .. Len(s) /\ Len(s) \in Nat
    BY <1>3, <1>4
  <2>2. t[i] = s[i] /\ s[i] \in 1 .. n
    BY <1>3, <2>1
  <2>3. CASE j = Len(s) + 1
    BY <1>3, <2>2, <2>3
  <2>4. CASE j # Len(s) + 1
    <3>0. Len(t) = Len(s) + 1 /\ j \in 1 .. Len(t)
      BY <1>3
    <3>1. j \in 1 .. Len(s)
      BY <2>1, <2>4, <3>0
    <3> QED
      BY <1>3, <1>4, <2>1, <2>2, <3>1 DEF Rising
  <2> QED
    BY <2>3, <2>4
<1>5. Rising(t)
  BY <1>4 DEF Rising
<1> QED
  BY <1>3, <1>5 DEF t

\* The blocks are where they were after a restart.
LEMMA PlaceAgain ==
  ASSUME Types, NEW p, IF newest = DataBlocks THEN p = 0 ELSE p = newest + 1,
         NEW q, Follows(q, newest)
  PROVE  p \in 0 .. DataBlocks /\ Ring(disk, p) = Ring(disk, q)
<1>1. DataBlocks \in Nat \ {0} /\ newest \in 0 .. DataBlocks /\ disk \in [Blocks -> Buffer]
  BY Numeric DEF Types
<1>2. p \in 0 .. DataBlocks
  BY <1>1
<1>3. p = q \/ (p = DataBlocks /\ q = 0)
  BY <1>1 DEF Follows
<1>4. Ring(disk, DataBlocks) = Ring(disk, 0)
  BY <1>1, RingWraps
<1> QED
  BY <1>2, <1>3, <1>4

------------------------------------------------------------------------------
(* Every step keeps the invariant. *)

\* In the beginning the card is empty.
LEMMA InitInv == Init => IInv
<1> SUFFICES ASSUME Init
             PROVE  IInv
  OBVIOUS
<1>1. /\ disk = [i \in Blocks |-> Invalid] /\ mounted = FALSE
      /\ block = Invalid /\ block_alt = Invalid
      /\ data_ptr = 0 /\ needs_flushing = 0 /\ block_ptr = 0 /\ block_generation = 0
      /\ pc = "idle" /\ panic = FALSE /\ now = 0
      /\ accepted = <<>> /\ newest = DataBlocks /\ entries = 0
  BY DEF Init, Empty
<1>2. DataBlocks \in Nat \ {0} /\ BlockCap \in Nat /\ MaxTime \in Nat /\ MaxEntries \in Nat
  BY ConstantsAssumption
<1>3. disk \in [Blocks -> Buffer]
  BY <1>1, InvalidBuffer, Zenon
<1>4. Types
  <2>1. mounted \in BOOLEAN /\ panic \in BOOLEAN
    BY <1>1, Zenon
  <2>2. pc \in {"idle", "write", "writing", "clear"}
    BY <1>1
  <2>3. /\ data_ptr \in 0 .. BlockCap /\ needs_flushing \in 0 .. 2
        /\ block_ptr \in 0 .. DataBlocks /\ block_generation \in Nat
        /\ now \in 0 .. MaxTime /\ entries \in 0 .. MaxEntries /\ newest \in 0 .. DataBlocks
    BY <1>1, <1>2
  <2>4. block \in Buffer /\ block_alt \in Buffer
    BY <1>1, InvalidBuffer
  <2> QED
    BY <1>3, <2>1, <2>2, <2>3, <2>4 DEF Types, TypeOK
<1>5. \A i \in Blocks : disk[i] = Invalid
  BY <1>1
<1>6. DiskInv(disk, newest, Hole)
  BY <1>1, <1>5 DEF DiskInv
<1>7. FlushInv
  <2>1. block.ents = <<>> /\ block_alt.ents = <<>> /\ block_alt.ts = 0
    BY <1>1 DEF Invalid
  <2> QED
    BY <1>1, <2>1 DEF FlushInv
<1>8. TimeInv(disk[newest])
  BY <1>1 DEF TimeInv
<1>9. LogInv
  <2> DEFINE r == Ring(disk, Place)
             L == FlattenSeq(r) \o Pending \o block.ents
  <2>1. Place = 0 /\ Place \in 0 .. DataBlocks
    BY <1>1, <1>2 DEF Place
  <2>2. /\ r \in Seq(Seq(Numbers)) /\ Len(r) = DataBlocks
        /\ \A i \in 1 .. DataBlocks : Turned(Place, i) \in Blocks /\ r[i] = disk[Turned(Place, i)].ents
    BY <1>3, <2>1, RingFacts
  <2>3. \A i \in 1 .. DataBlocks : r[i] = <<>>
    BY <1>5, <2>2 DEF Invalid
  <2>4. FlattenSeq(r) \in Seq(Numbers) /\ FlattenSeq(r) = <<>>
    <3> HIDE DEF r
    <3>1. FlattenSeq(r) \in Seq(Numbers)
      BY <2>2, FlattenType
    <3>2. ASSUME NEW e
          PROVE  ~ Contains(FlattenSeq(r), e)
      <4>1. Contains(FlattenSeq(r), e) <=> \E i \in 1 .. Len(r) : Contains(r[i], e)
        BY <2>2, ContainsFlatten
      <4>2. ~ Contains(<<>>, e)
        BY DEF Contains
      <4> QED
        BY <2>2, <2>3, <4>1, <4>2
    <3> DEFINE f == FlattenSeq(r)
    <3> HIDE DEF f
    <3>3. f \in Seq(Numbers) /\ \A i \in 1 .. Len(f) : Contains(f, f[i])
      BY <3>1 DEF f, Contains
    <3>4. \A i \in 1 .. Len(f) : FALSE
      BY <3>2, <3>3 DEF f
    <3>5. f = <<>>
      BY <3>3, <3>4
    <3> QED
      BY <3>1, <3>5 DEF f
  <2>5. Pending = <<>> /\ block.ents = <<>>
    BY <1>1 DEF Pending, Invalid
  <2>6. L = <<>>
    <3> HIDE DEF r
    <3> QED
      BY <2>4, <2>5
  <2>7. IsSuffix(<<>>, <<>>)
    <3>1. <<>> \in Seq(Numbers) /\ <<>> = <<>> \o <<>>
      OBVIOUS
    <3> QED
      BY <3>1, SuffixIs
  <2>8. Rising(<<>>) /\ <<>> \in Seq(1 .. 0)
    BY DEF Rising
  <2> QED
    BY <1>1, <2>6, <2>7, <2>8 DEF LogInv
<1> QED
  BY <1>4, <1>6, <1>7, <1>8, <1>9 DEF IInv

\* A step that only lets time pass, or nothing at all, keeps the log.
LEMMA TickInv ==
  ASSUME IInv, Tick
  PROVE  IInv'
<1>1. /\ now' = now + 1 /\ now < MaxTime
      /\ UNCHANGED <<disk, mounted, block, block_alt, data_ptr, needs_flushing, block_ptr,
                     block_generation, pc, panic, accepted, newest, entries>>
  BY DEF Tick, ram
<1>2. MaxTime \in Nat /\ now \in Nat /\ block.ts \in Nat /\ block_alt.ts \in Nat
  BY Numeric, Fields DEF IInv
<1>3. Types'
  BY <1>1, <1>2 DEF IInv, Types, TypeOK
<1>4. DiskInv(disk', newest', Hole') /\ FlushInv' /\ LogInv'
  <2>1. Hole' = Hole /\ Place' = Place /\ Pending' = Pending
    BY <1>1 DEF Hole, Place, Pending
  <2>2. LogInv'
    BY <1>1, <2>1 DEF IInv, LogInv
  <2>3. FlushInv'
    BY <1>1 DEF IInv, FlushInv
  <2> QED
    BY <1>1, <2>1, <2>2, <2>3 DEF IInv
<1>5. TimeInv(disk[newest])'
  BY <1>1, <1>2 DEF IInv, TimeInv
<1> QED
  BY <1>3, <1>4, <1>5 DEF IInv

\* A stuttering step keeps everything.
LEMMA StutterInv ==
  ASSUME IInv, UNCHANGED vars
  PROVE  IInv'
<1>1. UNCHANGED <<disk, mounted, block, block_alt, data_ptr, needs_flushing, block_ptr,
                  block_generation, pc, panic, now, accepted, newest, entries>>
  BY DEF vars, ram
<1>2. Types'
  BY <1>1 DEF IInv, Types, TypeOK
<1>3. Hole' = Hole /\ Place' = Place /\ Pending' = Pending
  BY <1>1 DEF Hole, Place, Pending
<1>4. LogInv'
  BY <1>1, <1>3 DEF IInv, LogInv
<1>5. FlushInv'
  BY <1>1 DEF IInv, FlushInv
<1>6. DiskInv(disk', newest', Hole')
  BY <1>1, <1>3 DEF IInv
<1>7. TimeInv(disk[newest])'
  BY <1>1 DEF IInv, TimeInv
<1> QED
  BY <1>2, <1>4, <1>5, <1>6, <1>7 DEF IInv

\* mount_log finds the block written last, and goes on after it.
LEMMA MountFinds ==
  ASSUME IInv, Mount
  PROVE  /\ disk[0].gen = 0 <=> newest = DataBlocks
         /\ newest # DataBlocks => Boundary = newest /\ newest \in Blocks
<1>1. pc = "idle" /\ Hole = DataBlocks
  BY DEF IInv, FlushInv, Mount, Hole
<1>2. /\ DataBlocks \in Nat \ {0} /\ newest \in 0 .. DataBlocks /\ 0 \in Blocks
      /\ \A m \in 1 .. DataBlocks - 1 : m \in Blocks
  BY Numeric DEF IInv, Types, Blocks
<1>3. CASE newest = DataBlocks
  <2>1. disk[0] = Invalid
    BY <1>2, <1>3 DEF IInv, DiskInv
  <2> QED
    BY <1>3, <2>1 DEF Invalid
<1>4. CASE newest # DataBlocks
  <2>1. newest \in Blocks /\ newest \in Nat /\ InOrder(disk, newest, DataBlocks)
    BY <1>1, <1>2, <1>4 DEF IInv, DiskInv
  <2>2. 0 \in 0 .. newest /\ 0 # DataBlocks
    BY <1>2, <2>1
  <2>3. disk[0].gen > 0
    BY <2>1, <2>2 DEF InOrder
  <2>4. NewUpTo(newest)
    <3>1. ASSUME NEW m \in 1 .. DataBlocks - 1
          PROVE  block_lt(disk[0], disk[m]) <=> m <= newest
      <4>1. CASE m <= newest
        <5>1. m \in 0 .. newest /\ 0 < m
          BY <2>1, <4>1
        <5>2. block_lt(disk[0], disk[m])
          BY <2>1, <2>2, <5>1 DEF InOrder
        <5> QED
          BY <4>1, <5>2
      <4>2. CASE ~ (m <= newest)
        <5>1. m \in newest + 1 .. DataBlocks - 1
          BY <2>1, <4>2
        <5>2. ~ block_lt(disk[0], disk[m])
          BY <2>1, <5>1 DEF InOrder
        <5> QED
          BY <4>2, <5>2
      <4> QED
        BY <4>1, <4>2
    <3> QED
      BY <3>1 DEF NewUpTo
  <2>5. Boundary = newest
    BY <2>1, <2>4, BoundaryFound
  <2>6. disk[0].gen # 0
    <3>1. disk[0].gen \in Nat
      BY <1>2, Numeric, Fields DEF IInv
    <3> QED
      BY <2>3, <3>1
  <2> QED
    BY <1>4, <2>1, <2>5, <2>6
<1> QED
  BY <1>3, <1>4

\* After a mount the log is what it was on the card.
LEMMA MountInv ==
  ASSUME IInv, Mount
  PROVE  IInv'
<1>1. /\ UNCHANGED <<disk, block, block_alt, data_ptr, needs_flushing, pc, panic, now, accepted,
                     newest, entries>>
      /\ mounted = FALSE /\ mounted' = TRUE
  BY DEF Mount, IInv, Types, TypeOK
<1>2. /\ pc = "idle" /\ data_ptr = 0 /\ needs_flushing = 0 /\ block_ptr = 0 /\ ~ panic
      /\ block_alt.ts = 0 /\ block_alt.ents = <<>> /\ Len(block.ents) = data_ptr
  BY <1>1 DEF IInv, FlushInv
<1>3. DataBlocks \in Nat \ {0} /\ newest \in 0 .. DataBlocks /\ now \in Nat
  BY Numeric DEF IInv, Types
<1>4. ASSUME newest = DataBlocks
      PROVE  Types' /\ FlushInv' /\ TimeInv(disk[newest])' /\ Place' = Place
  <2>1. block_generation' = 1 /\ block_ptr' = 0
    BY <1>4, MountFinds DEF Mount
  <2>2. Types'
    BY <1>1, <1>3, <2>1 DEF IInv, Types, TypeOK
  <2>3. FlushInv'
    BY <1>1, <1>2, <1>4, <2>1 DEF FlushInv, Follows
  <2>4. TimeInv(disk[newest])'
    BY <1>1, <1>2, <1>3, <1>4, <2>1 DEF TimeInv
  <2>5. Place' = Place
    BY <1>1, <1>4, <2>1 DEF Place
  <2> QED
    BY <2>2, <2>3, <2>4, <2>5
<1>5. ASSUME newest # DataBlocks
      PROVE  Types' /\ FlushInv' /\ TimeInv(disk[newest])' /\ Place' = Place
  <2>1. disk[0].gen # 0 /\ Boundary = newest /\ newest \in Blocks
    BY <1>5, MountFinds
  <2>2. newest \in Nat /\ newest + 1 \in 0 .. DataBlocks /\ newest + 1 # 0
    BY <1>3, <1>5
  <2>3. block_generation' = disk[newest].gen + 1 /\ block_ptr' = newest + 1
    BY <1>2, <2>1, <2>2 DEF Mount
  <2>4. disk[newest].gen \in Nat
    BY <2>1, Numeric, Fields DEF IInv
  <2>5. Types'
    BY <1>1, <1>3, <2>2, <2>3, <2>4 DEF IInv, Types, TypeOK
  <2>6. FlushInv'
    BY <1>1, <1>2, <1>5, <2>3 DEF FlushInv, Follows
  <2>7. TimeInv(disk[newest])'
    BY <1>1, <1>2, <1>3, <2>3, <2>4 DEF TimeInv
  <2>8. Place' = Place
    BY <1>1, <1>5, <2>3 DEF Place
  <2> QED
    BY <2>5, <2>6, <2>7, <2>8
<1>6. Types' /\ FlushInv' /\ TimeInv(disk[newest])' /\ Place' = Place
  BY <1>4, <1>5
<1>7. DiskInv(disk', newest', Hole')
  <2>1. Hole' = DataBlocks /\ Hole = DataBlocks
    BY <1>1, <1>2 DEF Hole
  <2> QED
    BY <1>1, <2>1 DEF IInv
<1>8. LogInv'
  <2>1. Pending' = Pending
    BY <1>1 DEF Pending
  <2> QED
    BY <1>1, <1>6, <2>1 DEF IInv, LogInv
<1> QED
  BY <1>6, <1>7, <1>8 DEF IInv

\* The buffer that is to be written is still part of the log.
LEMMA FlushClaimInv ==
  ASSUME IInv, FlushClaim
  PROVE  IInv'
<1>1. /\ UNCHANGED <<disk, mounted, block_ptr, block_generation, panic, now, accepted, newest,
                     entries>>
      /\ mounted /\ pc = "idle" /\ needs_flushing' = 2 /\ pc' = "write"
  BY DEF FlushClaim
<1>2. DiskInv(disk', newest', Hole') /\ Place' = Place
  <2>1. Hole' = DataBlocks /\ Hole = DataBlocks
    BY <1>1 DEF Hole
  <2> QED
    BY <1>1, <2>1 DEF IInv, Place
<1>4. CASE needs_flushing = 1 /\ UNCHANGED <<block, block_alt, data_ptr>>
  <2>1. Types'
    BY <1>1, <1>4 DEF IInv, Types, TypeOK
  <2>2. FlushInv'
    BY <1>1, <1>4 DEF IInv, FlushInv
  <2>3. TimeInv(disk[newest])'
    BY <1>1, <1>4 DEF IInv, TimeInv
  <2>4. Pending' = Pending
    BY <1>1, <1>4 DEF Pending
  <2>5. LogInv'
    BY <1>1, <1>2, <1>4, <2>4 DEF IInv, LogInv
  <2> QED
    BY <1>2, <2>1, <2>2, <2>3, <2>5 DEF IInv
<1>5. CASE /\ needs_flushing = 0 /\ data_ptr # 0
           /\ block' = block_alt /\ block_alt' = block /\ data_ptr' = 0
  <2>1. Types'
    BY <1>1, <1>5, ConstantsAssumption DEF IInv, Types, TypeOK
  <2>2. block_alt.ents = <<>>
    BY <1>5 DEF IInv, FlushInv
  <2>3. FlushInv'
    BY <1>1, <1>5, <2>2 DEF IInv, FlushInv
  <2>4. TimeInv(disk[newest])'
    BY <1>1, <1>5 DEF IInv, TimeInv
  <2>5. Pending = <<>> /\ Pending' = block.ents /\ block'.ents = <<>>
    BY <1>1, <1>5, <2>2 DEF Pending
  <2> DEFINE F == FlattenSeq(Ring(disk, Place))
  <2>6. F \in Seq(Numbers) /\ block.ents \in Seq(Numbers)
    BY LogTyped DEF IInv
  <2>7. FlattenSeq(Ring(disk', Place')) = F
    BY <1>1, <1>2
  <2>8. F \o block.ents \o <<>> = F \o <<>> \o block.ents
    <3> HIDE DEF F
    <3>1. F \o <<>> = F
      BY <2>6, ConcatEmptySeq
    <3>2. F \o block.ents \in Seq(Numbers)
      BY <2>6, ConcatProperties
    <3>3. (F \o block.ents) \o <<>> = F \o block.ents
      BY <3>2, ConcatEmptySeq
    <3> QED
      BY <3>1, <3>3
  <2>9. LogInv'
    <3> HIDE DEF F
    <3>1. IsSuffix(F \o <<>> \o block.ents, accepted)
      BY <2>5 DEF IInv, LogInv, F
    <3>2. IsSuffix(F \o block.ents \o <<>>, accepted)
      BY <2>8, <3>1
    <3>3. IsSuffix(FlattenSeq(Ring(disk', Place')) \o Pending' \o block'.ents, accepted')
      BY <1>1, <2>5, <2>7, <3>2
    <3> QED
      BY <1>1, <3>3 DEF IInv, LogInv
  <2> QED
    BY <1>2, <2>1, <2>3, <2>4, <2>9 DEF IInv
<1> QED
  BY <1>4, <1>5 DEF FlushClaim

\* A block that is written stays part of the log; its buffer is empty again.
LEMMA FlushEndInv ==
  ASSUME IInv, FlushEnd
  PROVE  IInv'
<1>1. /\ UNCHANGED <<disk, mounted, block, data_ptr, block_generation, panic, now, accepted,
                     newest, entries>>
      /\ pc = "clear" /\ pc' = "idle" /\ needs_flushing' = 0
      /\ block_alt' = [block_alt EXCEPT !.ents = <<>>]
      /\ block_ptr' = IF block_ptr >= DataBlocks THEN 0 ELSE block_ptr
  BY DEF FlushEnd
<1>2. /\ DataBlocks \in Nat \ {0} /\ newest \in 0 .. DataBlocks /\ block_ptr \in 0 .. DataBlocks
      /\ disk \in [Blocks -> Buffer] /\ block_alt \in Buffer
  BY Numeric DEF IInv, Types, TypeOK
<1>3. /\ mounted /\ needs_flushing = 2 /\ newest = block_ptr - 1 /\ newest \in Blocks
      /\ disk[newest] = block_alt
  BY <1>1 DEF IInv, FlushInv, Types, TypeOK
<1>4. /\ block_alt'.gen = block_alt.gen /\ block_alt'.ts = block_alt.ts
      /\ block_alt'.ents = <<>> /\ block_alt' \in Buffer
  <2>1. block_alt = [gen |-> block_alt.gen, ts |-> block_alt.ts, ents |-> block_alt.ents]
        /\ block_alt.gen \in Nat /\ block_alt.ts \in 0 .. MaxTime
    BY <1>2, Fields
  <2>2. block_alt' = [gen |-> block_alt.gen, ts |-> block_alt.ts, ents |-> <<>>]
    BY <1>1, <2>1
  <2> QED
    BY <2>1, <2>2 DEF Buffer
<1>5. block_ptr' \in 0 .. DataBlocks /\ Follows(block_ptr', newest)
  BY <1>1, <1>2, <1>3 DEF Follows
<1>6. Types'
  BY <1>1, <1>4, <1>5 DEF IInv, Types, TypeOK
<1>7. FlushInv'
  <2>1. Len(block'.ents) = data_ptr'
    BY <1>1 DEF IInv, FlushInv
  <2> QED
    BY <1>1, <1>3, <1>4, <1>5, <2>1 DEF FlushInv
<1>8. DiskInv(disk', newest', Hole')
  <2>1. Hole' = DataBlocks /\ Hole = DataBlocks
    BY <1>1 DEF Hole
  <2> QED
    BY <1>1, <2>1 DEF IInv
<1>9. TimeInv(disk[newest])'
  BY <1>1, <1>3, <1>4 DEF IInv, TimeInv
<1>10. LogInv'
  <2>1. Ring(disk', Place') = Ring(disk, Place)
    <3>1. Place = block_ptr /\ Place' = block_ptr'
      BY <1>1, <1>3 DEF Place
    <3>2. block_ptr' = block_ptr \/ (block_ptr' = 0 /\ block_ptr = DataBlocks)
      BY <1>1, <1>2
    <3> QED
      BY <1>1, <1>2, <3>1, <3>2, RingWraps
  <2>2. Pending = <<>> /\ Pending' = <<>>
    BY <1>1 DEF Pending
  <2> QED
    BY <1>1, <2>1, <2>2 DEF IInv, LogInv
<1> QED
  BY <1>6, <1>7, <1>8, <1>9, <1>10 DEF IInv

\* A block that another one follows.
LEMMA Older ==
  ASSUME NEW a \in Buffer, NEW b \in Buffer, NEW c \in Buffer, block_lt(b, c)
  PROVE  /\ block_lt(a, b) => block_lt(a, c)
         /\ ~ block_lt(c, b)
         /\ block_lt(a, b) => ~ block_lt(c, a)
<1>1. /\ a.gen \in Nat /\ a.ts \in Nat /\ b.gen \in Nat /\ b.ts \in Nat
      /\ c.gen \in Nat /\ c.ts \in Nat
  BY Fields
<1> QED
  BY <1>1 DEF block_lt

\* A block that is not valid is not newer than any, and older than every valid one.
LEMMA InvalidOldest ==
  ASSUME NEW b \in Buffer
  PROVE  /\ ~ block_lt(b, Invalid)
         /\ b.gen > 0 => block_lt(Invalid, b)
<1>1. b.gen \in Nat /\ b.ts \in Nat
  BY Fields
<1> QED
  BY <1>1 DEF block_lt, Invalid

\* The write of a block begins: the oldest block is lost.
LEMMA WriteStartInv ==
  ASSUME IInv, WriteStart
  PROVE  IInv'
<1>1. /\ UNCHANGED <<mounted, block, block_alt, data_ptr, needs_flushing, block_generation, now,
                     accepted, newest, entries>>
      /\ pc = "write" /\ ~ panic
  BY DEF WriteStart
<1>2. /\ DataBlocks \in Nat \ {0} /\ newest \in 0 .. DataBlocks /\ block_ptr \in 0 .. DataBlocks
      /\ disk \in [Blocks -> Buffer] /\ block_alt \in Buffer /\ 0 \in Blocks
  BY Numeric DEF IInv, Types, TypeOK, Blocks
<1>3. mounted /\ Follows(block_ptr, newest) /\ needs_flushing # 0 /\ Hole = DataBlocks
  BY <1>1 DEF IInv, FlushInv, Hole
<1>4. CASE /\ block_ptr < DataBlocks /\ disk' = [disk EXCEPT ![block_ptr] = Invalid]
           /\ block_ptr' = block_ptr + 1 /\ pc' = "writing" /\ UNCHANGED panic
  <2>1. block_ptr \in Blocks /\ block_ptr' - 1 = block_ptr /\ block_ptr' \in 0 .. DataBlocks
    BY <1>2, <1>4 DEF Blocks
  <2>2. /\ disk' \in [Blocks -> Buffer] /\ disk'[block_ptr] = Invalid
        /\ \A i \in Blocks : i # block_ptr => disk'[i] = disk[i]
    BY <1>2, <1>4, <2>1, InvalidBuffer
  <2>3. Types'
    BY <1>1, <1>4, <2>1, <2>2 DEF IInv, Types, TypeOK
  <2>4. Hole' = block_ptr
    BY <1>4, <2>1 DEF Hole
  <2>5. DiskInv(disk', newest', Hole')
    <3>1. CASE newest = DataBlocks
      BY <1>1, <2>2, <3>1 DEF IInv, DiskInv
    <3>2. CASE newest # DataBlocks
      <4>1. newest \in Blocks /\ InOrder(disk, newest, DataBlocks)
        BY <1>3, <3>2 DEF IInv, DiskInv
      <4>2. newest \in Nat /\ newest < DataBlocks
        BY <1>2, <3>2
      <4>3. \A i \in 0 .. newest : i \in Blocks /\ i # DataBlocks /\ i \in Int
        BY <1>2, <4>2 DEF Blocks
      <4>4. \A i \in newest + 1 .. DataBlocks - 1 : i \in Blocks /\ i > newest
        BY <1>2, <4>2 DEF Blocks
      <4>5. \A i \in 0 .. newest : i # block_ptr => disk'[i].gen > 0
        BY <2>2, <4>1, <4>3 DEF InOrder
      <4>6. ASSUME NEW i \in 0 .. newest, NEW j \in 0 .. newest, i < j, i # block_ptr
            PROVE  block_lt(disk'[i], disk'[j])
        <5>1. j # block_ptr
          <6>1. block_ptr = newest + 1 \/ block_ptr = 0
            BY <3>2, <1>3 DEF Follows
          <6> QED
            BY <4>2, <4>6, <6>1
        <5>2. disk'[i] = disk[i] /\ disk'[j] = disk[j]
          BY <2>2, <4>3, <4>6, <5>1
        <5> QED
          BY <4>1, <4>3, <4>6, <5>2 DEF InOrder
      <4>7. ASSUME NEW i \in newest + 1 .. DataBlocks - 1
            PROVE  ~ block_lt(disk'[0], disk'[i])
        <5>1. block_ptr = newest + 1 /\ 0 # block_ptr
          <6>1. newest # DataBlocks - 1
            BY <1>2, <4>2
          <6> QED
            BY <1>3, <3>2, <4>2, <6>1 DEF Follows
        <5>2. disk'[0] = disk[0] /\ disk[0] \in Buffer /\ i \in Blocks
          BY <1>2, <2>2, <4>4, <5>1
        <5>3. CASE i = block_ptr
          BY <2>2, <5>2, <5>3, InvalidOldest
        <5>4. CASE i # block_ptr
          BY <2>2, <4>1, <5>2, <5>4 DEF InOrder
        <5> QED
          BY <5>3, <5>4
      <4>8. InOrder(disk', newest, block_ptr)
        BY <4>5, <4>6, <4>7 DEF InOrder
      <4> QED
        BY <1>1, <2>4, <3>2, <4>1, <4>8 DEF DiskInv
    <3> QED
      BY <3>1, <3>2
  <2>6. FlushInv'
    <3>1. /\ Len(block'.ents) = data_ptr' /\ needs_flushing' = 2
          /\ block_ptr' - 1 \in Blocks /\ Follows(block_ptr' - 1, newest')
          /\ disk'[block_ptr' - 1] = Invalid
      BY <1>1, <1>3, <2>1, <2>2 DEF IInv, FlushInv, Types, TypeOK
    <3> QED
      BY <1>1, <1>3, <1>4, <3>1 DEF FlushInv
  <2>7. TimeInv(disk[newest])'
    <3>1. ASSUME newest # DataBlocks
          PROVE  block_lt(disk'[newest], block_alt)
      <4>1. newest \in Blocks
        BY <3>1 DEF IInv, DiskInv
      <4>2. block_lt(disk[newest], block_alt) /\ block_alt.gen > 0
        BY <1>1, <1>3, <3>1 DEF IInv, TimeInv
      <4>3. CASE newest = block_ptr
        BY <1>2, <2>2, <4>2, <4>3, InvalidOldest
      <4>4. CASE newest # block_ptr
        BY <2>2, <4>1, <4>2, <4>4
      <4> QED
        BY <4>3, <4>4
    <3>2. needs_flushing' # 0 /\ mounted
      BY <1>1, <1>3
    <3> QED
      BY <1>1, <3>1, <3>2 DEF IInv, TimeInv
  <2>8. LogInv'
    <3> DEFINE r == Ring(disk, block_ptr)
               r2 == Ring(disk', block_ptr + 1)
               P == Pending
               B == block.ents
               h == Head(r)
               F == FlattenSeq(r)
               G == FlattenSeq(Tail(r))
    <3>1. Place = block_ptr /\ Place' = block_ptr + 1 /\ Pending' = P /\ block'.ents = B
      BY <1>1, <1>3, <1>4 DEF Place, Pending
    <3>2. P \in Seq(Numbers) /\ B \in Seq(Numbers) /\ F \in Seq(Numbers)
      BY <3>1, LogTyped DEF IInv
    <3>3. r \in Seq(Seq(Numbers)) /\ r # <<>>
      BY <1>2, RingFacts
    <3>4. r2 = Append(Tail(r), <<>>)
      BY <1>2, <1>4, <2>1, <2>2, RingStarts
    <3> HIDE DEF r, r2, P, B
    <3>5. /\ F = h \o G /\ h \in Seq(Numbers) /\ Tail(r) \in Seq(Seq(Numbers))
          /\ G \in Seq(Numbers)
      <4>1. h \in Seq(Numbers) /\ Tail(r) \in Seq(Seq(Numbers))
        BY <3>3
      <4> QED
        BY <3>3, <4>1, FlattenHead, FlattenType
    <3>6. FlattenSeq(r2) = G
      <4>1. <<>> \in Seq(Numbers)
        OBVIOUS
      <4>2. FlattenSeq(r2) = G \o <<>>
        BY <3>4, <3>5, <4>1, FlattenAppend
      <4> QED
        BY <3>5, <4>2, ConcatEmptySeq
    <3> HIDE DEF h, F, G
    <3>7. G \o P \in Seq(Numbers) /\ G \o P \o B \in Seq(Numbers)
      BY <3>2, <3>5, ConcatProperties
    <3>8. F \o P \o B = h \o (G \o P \o B)
      <4>1. F \o P = h \o (G \o P)
        BY <3>2, <3>5, ConcatAssociative, SMTT(40)
      <4>2. (h \o (G \o P)) \o B = h \o ((G \o P) \o B)
        <5> DEFINE q == G \o P
        <5>1. q \in Seq(Numbers)
          BY <3>7
        <5> HIDE DEF q
        <5>2. (h \o q) \o B = h \o (q \o B)
          <6>1. h \in Seq(Numbers) /\ B \in Seq(Numbers)
            BY <3>2, <3>5
          <6> QED
            BY <5>1, <6>1, ConcatAssociative
        <5> QED
          BY <5>2 DEF q
      <4> QED
        BY <4>1, <4>2
    <3>9. accepted \in Seq(Numbers)
      BY Numeric, Widened DEF IInv, LogInv, Types, Numbers
    <3>10. IsSuffix(F \o P \o B, accepted)
      BY <3>1 DEF IInv, LogInv, F, P, B, r
    <3>11. IsSuffix(G \o P \o B, accepted)
      BY <3>5, <3>7, <3>8, <3>9, <3>10, SuffixDrop
    <3>12. IsSuffix(FlattenSeq(Ring(disk', Place')) \o Pending' \o block'.ents, accepted')
      BY <1>1, <3>1, <3>6, <3>11 DEF r2
    <3> QED
      BY <1>1, <3>12 DEF IInv, LogInv
  <2> QED
    BY <2>3, <2>5, <2>6, <2>7, <2>8 DEF IInv
<1>5. CASE panic' = TRUE /\ UNCHANGED <<disk, block_ptr, pc>>
  <2>1. Types'
    BY <1>1, <1>5 DEF IInv, Types, TypeOK
  <2>2. Hole' = Hole /\ Place' = Place /\ Pending' = Pending
    BY <1>1, <1>5 DEF Hole, Place, Pending
  <2>3. FlushInv'
    BY <1>1, <1>3, <1>5 DEF IInv, FlushInv
  <2>4. TimeInv(disk[newest])'
    BY <1>1, <1>5 DEF IInv, TimeInv
  <2>5. LogInv'
    BY <1>1, <1>5, <2>2 DEF IInv, LogInv
  <2> QED
    BY <1>1, <1>5, <2>1, <2>2, <2>3, <2>4, <2>5 DEF IInv
<1> QED
  BY <1>4, <1>5 DEF WriteStart

\* The write of a block ends: it is the newest now.
LEMMA WriteEndInv ==
  ASSUME IInv, WriteEnd
  PROVE  IInv'
<1> DEFINE n == block_ptr - 1
<1>1. /\ UNCHANGED <<mounted, block, block_alt, data_ptr, needs_flushing, block_ptr,
                     block_generation, panic, now, accepted, entries>>
      /\ pc = "writing" /\ pc' = "clear" /\ newest' = n
      /\ disk' = [disk EXCEPT ![n] = block_alt]
  BY DEF WriteEnd, ram
<1>2. /\ DataBlocks \in Nat \ {0} /\ newest \in 0 .. DataBlocks /\ block_ptr \in 0 .. DataBlocks
      /\ disk \in [Blocks -> Buffer] /\ block_alt \in Buffer /\ 0 \in Blocks
  BY Numeric DEF IInv, Types, TypeOK, Blocks
<1>3. /\ mounted /\ needs_flushing = 2 /\ Hole = n
      /\ n \in Blocks /\ Follows(n, newest) /\ disk[n] = Invalid
  BY <1>1 DEF IInv, FlushInv, Hole, Types, TypeOK
<1>4. n \in Nat /\ n < DataBlocks /\ n + 1 = block_ptr
  BY <1>2, <1>3 DEF Blocks
<1>5. /\ disk' \in [Blocks -> Buffer] /\ disk'[n] = block_alt
      /\ \A i \in Blocks : i # n => disk'[i] = disk[i]
  BY <1>1, <1>2, <1>3
<1>6. block_alt.gen > 0 /\ (newest # DataBlocks => block_lt(disk[newest], block_alt))
  BY <1>1, <1>3 DEF IInv, TimeInv
<1> HIDE DEF n
<1>7. Types'
  <2>1. newest' \in 0 .. DataBlocks
    BY <1>1, <1>2, <1>4
  <2> QED
    BY <1>1, <1>5, <2>1 DEF IInv, Types, TypeOK
<1>8. DiskInv(disk', newest', Hole')
  <2>1. Hole' = DataBlocks /\ newest' = n /\ n # DataBlocks
    BY <1>1, <1>2, <1>4 DEF Hole
  <2>2. InOrder(disk', n, DataBlocks)
    <3>1. CASE newest = DataBlocks
      <4>1. n = 0 /\ \A i \in Blocks : disk[i] = Invalid
        BY <1>3, <3>1 DEF Follows, IInv, DiskInv
      <4>2. /\ \A i \in 0 .. n : i = n
            /\ \A i \in n + 1 .. DataBlocks - 1 : i \in Blocks /\ i # n
        BY <1>2, <4>1 DEF Blocks
      <4>3. \A i \in n + 1 .. DataBlocks - 1 : disk'[i] = Invalid
        BY <1>5, <4>1, <4>2
      <4>4. \A i \in n + 1 .. DataBlocks - 1 : ~ block_lt(disk'[0], disk'[i])
        BY <1>2, <1>5, <4>1, <4>3, InvalidOldest
      <4>5. \A i, j \in 0 .. n : ~ (i < j)
        BY <4>1
      <4> QED
        BY <1>5, <1>6, <4>2, <4>4, <4>5 DEF InOrder
    <3>2. CASE newest # DataBlocks /\ n = newest + 1
      <4>1. newest \in Blocks /\ newest \in Nat /\ InOrder(disk, newest, n)
        BY <1>2, <1>3, <3>2 DEF IInv, DiskInv
      <4>2. \A i \in 0 .. newest : i \in Blocks /\ i # n /\ disk'[i] = disk[i] /\ disk[i] \in Buffer
        <5>1. \A i \in 0 .. newest : i \in Blocks /\ i # n
          BY <1>2, <1>4, <3>2, <4>1 DEF Blocks
        <5> QED
          BY <1>2, <1>5, <5>1
      <4>3. \A i \in 0 .. n : i \in 0 .. newest \/ i = n
        BY <3>2, <4>1
      <4>4. \A i \in 0 .. n : disk'[i].gen > 0
        BY <1>5, <1>6, <4>1, <4>2, <4>3 DEF InOrder
      <4>5. ASSUME NEW i \in 0 .. newest
            PROVE  block_lt(disk'[i], block_alt)
        <5>1. CASE i = newest
          BY <1>6, <3>2, <4>2, <5>1
        <5>2. CASE i # newest
          <6>1. i < newest /\ newest \in 0 .. newest
            BY <4>1, <5>2
          <6>2. block_lt(disk[i], disk[newest])
            BY <4>1, <4>2, <6>1 DEF InOrder
          <6> QED
            BY <1>2, <1>6, <3>2, <4>2, <6>1, <6>2, Older
        <5> QED
          BY <5>1, <5>2
      <4>6. ASSUME NEW i \in 0 .. n, NEW j \in 0 .. n, i < j
            PROVE  block_lt(disk'[i], disk'[j])
        <5>1. i \in 0 .. newest
          BY <3>2, <4>1, <4>6
        <5>2. CASE j = n
          BY <1>5, <4>5, <5>1, <5>2
        <5>3. CASE j # n
          <6>1. j \in 0 .. newest
            BY <4>3, <5>3
          <6> QED
            BY <4>1, <4>2, <4>6, <5>1, <6>1 DEF InOrder
        <5> QED
          BY <5>2, <5>3
      <4>7. ASSUME NEW i \in n + 1 .. DataBlocks - 1
            PROVE  ~ block_lt(disk'[0], disk'[i])
        <5>1. /\ i \in Blocks /\ i # n /\ i \in newest + 1 .. DataBlocks - 1
              /\ 0 \in 0 .. newest
          BY <1>2, <1>4, <3>2, <4>1 DEF Blocks
        <5>2. disk'[0] = disk[0] /\ disk'[i] = disk[i]
          BY <1>5, <4>2, <5>1
        <5> QED
          BY <4>1, <5>1, <5>2 DEF InOrder
      <4> QED
        BY <4>4, <4>6, <4>7 DEF InOrder
    <3>3. CASE newest # DataBlocks /\ n = 0 /\ newest = DataBlocks - 1
      <4>1. newest \in Blocks /\ newest \in Nat /\ InOrder(disk, newest, n)
        BY <1>2, <1>3, <3>3 DEF IInv, DiskInv
      <4>2. /\ \A i \in 0 .. n : i = n
            /\ \A i, j \in 0 .. n : ~ (i < j)
        BY <3>3
      <4>3. ASSUME NEW i \in n + 1 .. DataBlocks - 1
            PROVE  ~ block_lt(disk'[0], disk'[i])
        <5>1. i \in Blocks /\ i # n /\ i \in 0 .. newest /\ newest \in 0 .. newest
          BY <1>2, <3>3, <4>1 DEF Blocks
        <5>2. disk'[0] = block_alt /\ disk'[i] = disk[i] /\ disk[i] \in Buffer /\ disk[newest] \in Buffer
          BY <1>2, <1>5, <3>3, <4>1, <5>1
        <5>3. CASE i = newest
          BY <1>2, <1>6, <3>3, <5>2, <5>3, Older
        <5>4. CASE i # newest
          <6>1. i < newest
            BY <4>1, <5>1, <5>4
          <6>2. block_lt(disk[i], disk[newest])
            BY <4>1, <5>1, <6>1 DEF InOrder
          <6> QED
            BY <1>2, <1>6, <3>3, <5>2, <6>2, Older
        <5> QED
          BY <5>3, <5>4
      <4> QED
        BY <1>5, <1>6, <4>2, <4>3 DEF InOrder
    <3> QED
      BY <1>3, <3>1, <3>2, <3>3 DEF Follows
  <2> QED
    BY <1>3, <2>1, <2>2 DEF DiskInv
<1>9. FlushInv'
  <2>1. Len(block'.ents) = data_ptr' /\ newest' = block_ptr' - 1
    BY <1>1 DEF IInv, FlushInv, n
  <2> QED
    BY <1>1, <1>3, <1>5, <2>1 DEF FlushInv
<1>10. TimeInv(disk[newest])'
  BY <1>1, <1>3 DEF IInv, TimeInv
<1>11. LogInv'
  <2> DEFINE B == block.ents
             A == block_alt.ents
  <2>1. /\ Place = block_ptr /\ Place' = block_ptr /\ Pending = A /\ Pending' = <<>>
        /\ block'.ents = B
    BY <1>1, <1>3 DEF Place, Pending
  <2>2. A \in Seq(Numbers) /\ B \in Seq(Numbers)
    BY <1>2, Numeric, Fields DEF IInv
  <2>3. block_ptr \in 1 .. DataBlocks /\ disk' = [disk EXCEPT ![block_ptr - 1] = block_alt]
    BY <1>1, <1>2, <1>4 DEF n
  <2>4. PICK f \in Seq(Seq(Numbers)) : /\ Ring(disk, block_ptr) = Append(f, disk[block_ptr - 1].ents)
                                       /\ Ring(disk', block_ptr) = Append(f, A)
    BY <1>2, <1>5, <2>3, RingEnds
  <2>5. disk[block_ptr - 1].ents = <<>>
    BY <1>3 DEF n, Invalid
  <2> HIDE DEF A, B
  <2> DEFINE F == FlattenSeq(f)
  <2>6. F \in Seq(Numbers) /\ <<>> \in Seq(Numbers)
    BY FlattenType
  <2>7. FlattenSeq(Ring(disk, block_ptr)) = F \o <<>> /\ FlattenSeq(Ring(disk', block_ptr)) = F \o A
    BY <2>2, <2>4, <2>5, <2>6, FlattenAppend
  <2> HIDE DEF F
  <2>8. F \o <<>> = F /\ (F \o A) \o <<>> = F \o A
    <3>1. F \o A \in Seq(Numbers)
      BY <2>2, <2>6, ConcatProperties
    <3> QED
      BY <2>6, <3>1, ConcatEmptySeq
  <2>9. FlattenSeq(Ring(disk', Place')) \o Pending' \o block'.ents
          = FlattenSeq(Ring(disk, Place)) \o Pending \o block.ents
    BY <2>1, <2>7, <2>8 DEF B
  <2> QED
    BY <1>1, <2>9 DEF IInv, LogInv
<1> QED
  BY <1>7, <1>8, <1>9, <1>10, <1>11 DEF IInv

\* An entry is put behind the others of its buffer.
LEMMA PutIs ==
  ASSUME NEW b \in Buffer, NEW e \in Numbers
  PROVE  /\ Put(b, Len(b.ents), e) \in Buffer
         /\ Put(b, Len(b.ents), e).gen = b.gen /\ Put(b, Len(b.ents), e).ts = b.ts
         /\ Put(b, Len(b.ents), e).ents = Append(b.ents, e)
         /\ Len(Append(b.ents, e)) = Len(b.ents) + 1
<1> DEFINE s == b.ents
           k == Len(s)
<1>1. /\ b.gen \in Nat /\ b.ts \in 0 .. MaxTime /\ s \in Seq(Numbers) /\ k \in Nat
      /\ b = [gen |-> b.gen, ts |-> b.ts, ents |-> s]
  BY Fields
<1>2. SubSeq(s, 1, k) = s
  BY <1>1, SubSeqFull
<1>3. SubSeq(s, k + 2, k) = <<>>
  BY <1>1, SubSeqEmpty
<1>4. Append(s, e) = s \o <<e>> /\ Append(s, e) \in Seq(Numbers) /\ Len(Append(s, e)) = k + 1
  BY <1>1, AppendIsConcat, AppendProperties
<1>5. Append(s, e) \o <<>> = Append(s, e)
  BY <1>4, ConcatEmptySeq
<1>6. SubSeq(s, 1, k) \o <<e>> \o SubSeq(s, k + 2, k) = Append(s, e)
  BY <1>2, <1>3, <1>4, <1>5
<1>7. Put(b, k, e) = [b EXCEPT !.ents = Append(s, e)]
  BY <1>6 DEF Put
<1> DEFINE t == Append(s, e)
<1> HIDE DEF t, s
<1>8. Put(b, k, e) = [gen |-> b.gen, ts |-> b.ts, ents |-> t]
  BY <1>1, <1>7 DEF t
<1>9. t \in Seq(Numbers) /\ Len(t) = k + 1
  BY <1>4 DEF t
<1>10. /\ Put(b, k, e) \in Buffer
       /\ Put(b, k, e).gen = b.gen /\ Put(b, k, e).ts = b.ts /\ Put(b, k, e).ents = t
  BY <1>1, <1>8, <1>9 DEF Buffer, Numbers
<1> QED
  BY <1>9, <1>10 DEF t, s

\* The header of a block that is started.
LEMMA StartedIs ==
  ASSUME Types, NEW b \in Buffer, NEW g \in Nat
  PROVE  /\ Started(b, g) \in Buffer /\ Started(b, g).gen = g /\ Started(b, g).ts = now
         /\ Started(b, g).ents = b.ents
<1>1. b = [gen |-> b.gen, ts |-> b.ts, ents |-> b.ents] /\ b.ents \in Seq(Numbers)
  BY Fields
<1>2. Started(b, g) = [gen |-> g, ts |-> now, ents |-> b.ents]
  <2>1. PICK x, y, z : b = [gen |-> x, ts |-> y, ents |-> z]
    BY <1>1
  <2>2. [b EXCEPT !.gen = g] = [gen |-> g, ts |-> y, ents |-> z]
    BY <2>1
  <2>3. Started(b, g) = [gen |-> g, ts |-> now, ents |-> z]
    <3>1. Started(b, g) = [[b EXCEPT !.gen = g] EXCEPT !.ts = now]
      BY Zenon DEF Started
    <3> QED
      BY <2>2, <3>1
  <2> QED
    BY <2>1, <2>3
<1>3. now \in 0 .. MaxTime
  BY DEF Types
<1> QED
  BY <1>1, <1>2, <1>3 DEF Buffer, Numbers

\* What appending does: the clock does not go back, and a new block is not full.
LEMMA AppendIs ==
  ASSUME IInv, AppendEntry
  PROVE  LET b == IF data_ptr = 0 THEN Started(block, block_generation) ELSE block
             e == entries + 1
         IN  /\ b \in Buffer /\ b.gen = block_generation /\ b.ts <= now /\ b.ents = block.ents
             /\ data_ptr = 0 => b.ts = now
             /\ data_ptr # 0 => b = block
             /\ \/ /\ data_ptr # BlockCap
                   /\ data_ptr = 0 => FreshTime(block_alt, block_generation)
                   /\ block' = Put(b, data_ptr, e) /\ data_ptr' = data_ptr + 1
                   /\ accepted' = Append(accepted, e)
                   /\ UNCHANGED <<block_alt, needs_flushing, block_generation>>
                \/ /\ data_ptr # 0 /\ needs_flushing = 0 /\ FreshTime(block, block_generation)
                   /\ block_alt' = block /\ needs_flushing' = 1
                   /\ block' = Put(Started(block_alt, block_generation), 0, e)
                   /\ data_ptr' = 1
                   /\ accepted' = Append(accepted, e)
                   /\ UNCHANGED block_generation
                \/ UNCHANGED <<block, block_alt, data_ptr, needs_flushing, block_generation, accepted>>
<1> DEFINE b == IF data_ptr = 0 THEN Started(block, block_generation) ELSE block
           back == now < b.ts
           full == back \/ BlockFull(b)
           gen == IF back THEN block_generation + 1 ELSE block_generation
           e == entries + 1
<1>1. /\ BlockCap \in Nat \ {0} /\ MaxDelta \in Nat /\ now \in Nat /\ block_generation \in Nat
      /\ data_ptr \in Nat /\ block \in Buffer /\ block_alt \in Buffer
  BY Numeric DEF IInv
<1>2. b \in Buffer /\ b.ents = block.ents /\ (data_ptr = 0 => b.gen = block_generation /\ b.ts = now)
  BY <1>1, StartedIs DEF IInv
<1>3. data_ptr # 0 => b.gen = block_generation /\ b.ts <= now
  BY DEF IInv, TimeInv, AppendEntry
<1>4. b.ts \in Nat
  BY <1>2, Fields
<1>5. b.gen = block_generation /\ b.ts <= now /\ (data_ptr = 0 => b.ts = now)
  BY <1>1, <1>2, <1>3
<1>6. (data_ptr # 0 => b = block) /\ (data_ptr # 0 \/ b = Started(block, block_generation))
  OBVIOUS
<1>7. \/ /\ ~ full
         /\ data_ptr = 0 => FreshTime(block_alt, block_generation)
         /\ block' = Put(b, data_ptr, e)
         /\ data_ptr' = data_ptr + 1
         /\ accepted' = Append(accepted, e)
         /\ UNCHANGED <<block_alt, needs_flushing, block_generation>>
      \/ /\ full /\ needs_flushing = 0
         /\ FreshTime(b, gen)
         /\ block_alt' = b /\ needs_flushing' = 1
         /\ block' = Put(Started(block_alt, gen), 0, e)
         /\ data_ptr' = 1
         /\ block_generation' = gen
         /\ accepted' = Append(accepted, e)
      \/ /\ full /\ needs_flushing # 0
         /\ block_generation' = gen
         /\ UNCHANGED <<block, block_alt, data_ptr, needs_flushing, accepted>>
  BY DEF AppendEntry, Append1
<1> HIDE DEF b
<1>8. ~ back
  BY <1>1, <1>4, <1>5
<1>9. gen = block_generation /\ (full <=> BlockFull(b))
  BY <1>8
<1>10. BlockFull(b) => data_ptr # 0
  <2>1. data_ptr = 0 => now - b.ts = 0
    BY <1>1, <1>5
  <2> QED
    BY <1>1, <2>1 DEF BlockFull
<1>11. ~ BlockFull(b) => data_ptr # BlockCap
  BY DEF BlockFull
<1> HIDE DEF full, gen, back
<1>12. \/ /\ data_ptr # BlockCap
          /\ data_ptr = 0 => FreshTime(block_alt, block_generation)
          /\ block' = Put(b, data_ptr, e) /\ data_ptr' = data_ptr + 1
          /\ accepted' = Append(accepted, e)
          /\ UNCHANGED <<block_alt, needs_flushing, block_generation>>
       \/ /\ data_ptr # 0 /\ needs_flushing = 0 /\ FreshTime(block, block_generation)
          /\ block_alt' = block /\ needs_flushing' = 1
          /\ block' = Put(Started(block_alt, block_generation), 0, e)
          /\ data_ptr' = 1
          /\ accepted' = Append(accepted, e)
          /\ UNCHANGED block_generation
       \/ UNCHANGED <<block, block_alt, data_ptr, needs_flushing, block_generation, accepted>>
  BY <1>6, <1>7, <1>9, <1>10, <1>11
<1> QED
  BY <1>2, <1>5, <1>6, <1>12 DEF b

\* An entry that is accepted comes last in the log.
LEMMA AppendInv ==
  ASSUME ~ SharedTimes, IInv, AppendEntry
  PROVE  IInv'
<1> DEFINE b == IF data_ptr = 0 THEN Started(block, block_generation) ELSE block
           e == entries + 1
           F == FlattenSeq(Ring(disk, Place))
<1>1. /\ UNCHANGED <<disk, mounted, block_ptr, pc, panic, now, newest>>
      /\ entries' = e /\ mounted /\ entries < MaxEntries
  BY DEF AppendEntry
<1>2. /\ BlockCap \in Nat \ {0} /\ now \in Nat /\ block_generation \in Nat /\ entries \in Nat
      /\ MaxEntries \in Nat /\ data_ptr \in Nat /\ data_ptr <= BlockCap
      /\ block \in Buffer /\ block_alt \in Buffer /\ newest \in Nat
      /\ needs_flushing \in {0, 1, 2}
  BY Numeric DEF IInv, Types, TypeOK
<1>3. e \in Numbers /\ e \in 0 .. MaxEntries /\ e \in Nat
  BY <1>1, <1>2 DEF Numbers
<1>4. /\ Len(block.ents) = data_ptr /\ (needs_flushing = 0 => block_alt.ents = <<>>)
      /\ (pc = "idle" <=> needs_flushing # 2)
  BY DEF IInv, FlushInv
<1>5. DiskInv(disk', newest', Hole') /\ Place' = Place
  <2>1. Hole' = Hole
    BY <1>1 DEF Hole
  <2> QED
    BY <1>1, <2>1 DEF IInv, Place
<1>6. /\ accepted \in Seq(1 .. entries) /\ Rising(accepted) /\ accepted \in Seq(Numbers)
      /\ IsSuffix(F \o Pending \o block.ents, accepted)
      /\ F \in Seq(Numbers) /\ Pending \in Seq(Numbers) /\ block.ents \in Seq(Numbers)
  <2>1. accepted \in Seq(Numbers)
    BY Numeric, Widened DEF IInv, LogInv, Types, Numbers
  <2> QED
    BY <2>1, LogTyped DEF IInv, LogInv
<1>7. /\ b \in Buffer /\ b.gen = block_generation /\ b.ts <= now /\ b.ents = block.ents
      /\ data_ptr = 0 => b.ts = now
      /\ data_ptr # 0 => b = block
  BY AppendIs
<1>8. CASE /\ data_ptr # BlockCap
           /\ data_ptr = 0 => FreshTime(block_alt, block_generation)
           /\ block' = Put(b, data_ptr, e) /\ data_ptr' = data_ptr + 1
           /\ accepted' = Append(accepted, e)
           /\ UNCHANGED <<block_alt, needs_flushing, block_generation>>
  <2> HIDE DEF b, F, e
  <2>1. /\ block' \in Buffer /\ block'.gen = block_generation /\ block'.ts = b.ts
        /\ block'.ents = Append(block.ents, e) /\ Len(block'.ents) = data_ptr + 1
    BY <1>3, <1>4, <1>7, <1>8, PutIs
  <2>2. Types'
    <3>1. data_ptr' \in 0 .. BlockCap
      BY <1>2, <1>8
    <3> QED
      BY <1>1, <1>3, <1>8, <2>1, <3>1 DEF IInv, Types, TypeOK
  <2>3. FlushInv'
    <3>1. mounted' /\ Len(block'.ents) = data_ptr'
      BY <1>1, <1>8, <2>1
    <3> QED
      BY <1>1, <1>8, <3>1 DEF IInv, FlushInv
  <2>4. TimeInv(disk[newest])'
    <3>1. /\ b.ts \in Nat /\ block_alt.gen \in Nat /\ block_alt.ts \in Nat
          /\ block.gen \in Nat /\ block.ts \in Nat
      BY <1>2, <1>7, Fields
    <3>2. needs_flushing # 0 => block_lt(block_alt, block')
      <4>1. CASE data_ptr = 0
        <5>1. needs_flushing # 0 => block_alt.gen = block_generation /\ block_alt.ts <= now
          BY <1>1 DEF IInv, TimeInv
        <5>2. block_alt.gen # block_generation \/ block_alt.ts # now
          BY <1>8, <4>1 DEF FreshTime
        <5> QED
          BY <1>2, <1>7, <2>1, <3>1, <4>1, <5>1, <5>2 DEF block_lt
      <4>2. CASE data_ptr # 0
        <5>1. block'.gen = block.gen /\ block'.ts = block.ts
          BY <1>7, <2>1, <4>2
        <5>2. needs_flushing # 0 => block_lt(block_alt, block)
          BY <1>1, <4>2 DEF IInv, TimeInv
        <5> QED
          BY <5>1, <5>2 DEF block_lt
      <4> QED
        BY <4>1, <4>2
    <3>3. newest # DataBlocks /\ needs_flushing = 0 => block_lt(disk[newest], block')
      <4>1. SUFFICES ASSUME newest # DataBlocks, needs_flushing = 0
                     PROVE  block_lt(disk[newest], block')
        OBVIOUS
      <4>2. disk[newest].gen \in Nat /\ disk[newest].ts \in Nat
        <5>1. newest \in Blocks
          BY <4>1 DEF IInv, DiskInv
        <5>2. disk[newest] \in Buffer
          BY <5>1, Numeric DEF IInv
        <5> QED
          BY <5>2, Fields
      <4>3. CASE data_ptr = 0
        <5>1. \/ disk[newest].gen < block_generation
              \/ /\ disk[newest].gen = block_generation /\ block_alt.gen = block_generation
                 /\ disk[newest].ts = block_alt.ts
          BY <1>1, <4>1, <4>3 DEF IInv, TimeInv
        <5>2. block_alt.gen # block_generation \/ block_alt.ts # now
          BY <1>8, <4>3 DEF FreshTime
        <5>3. block_alt.ts <= now
          BY <1>1 DEF IInv, TimeInv
        <5> QED
          BY <1>2, <1>7, <2>1, <3>1, <4>2, <4>3, <5>1, <5>2, <5>3 DEF block_lt
      <4>4. CASE data_ptr # 0
        <5>1. block'.gen = block.gen /\ block'.ts = block.ts
          BY <1>7, <2>1, <4>4
        <5>2. block_lt(disk[newest], block)
          BY <1>1, <4>1, <4>4 DEF IInv, TimeInv
        <5> QED
          BY <5>1, <5>2 DEF block_lt
      <4> QED
        BY <4>3, <4>4
    <3>4. data_ptr' # 0 /\ block'.ts <= now
      BY <1>2, <1>7, <1>8, <2>1
    <3> QED
      BY <1>1, <1>8, <2>1, <3>2, <3>3, <3>4 DEF IInv, TimeInv
  <2>5. F \o Pending \o Append(block.ents, e) = Append(F \o Pending \o block.ents, e)
    <3> DEFINE P == Pending
               B == block.ents
    <3>1. P \in Seq(Numbers) /\ B \in Seq(Numbers)
      BY <1>6
    <3> HIDE DEF P, B
    <3>2. F \o P \o Append(B, e) = Append(F \o P \o B, e)
      BY <1>3, <1>6, <3>1, AppendLast, SMTT(40)
    <3> QED
      BY <3>2 DEF P, B
  <2>6. Pending' = Pending
    BY <1>1, <1>8 DEF Pending
  <2>7. LogInv'
    <3> DEFINE L == F \o Pending \o block.ents
    <3>1. L \in Seq(Numbers)
      BY <1>6, ConcatProperties
    <3>2. IsSuffix(Append(L, e), Append(accepted, e))
      <4>1. IsSuffix(L, accepted)
        BY <1>6
      <4> HIDE DEF L
      <4> QED
        BY <1>3, <1>6, <3>1, <4>1, SuffixGrow
    <3>3. IsSuffix(FlattenSeq(Ring(disk', Place')) \o Pending' \o block'.ents, accepted')
      BY <1>1, <1>5, <1>8, <2>1, <2>5, <2>6, <3>2 DEF F
    <3>4. accepted' \in Seq(1 .. entries') /\ Rising(accepted')
      BY <1>1, <1>2, <1>6, <1>8, AcceptGrows DEF e
    <3> QED
      BY <3>3, <3>4 DEF LogInv
  <2> QED
    BY <1>5, <2>2, <2>3, <2>4, <2>7 DEF IInv
<1>9. CASE /\ data_ptr # 0 /\ needs_flushing = 0 /\ FreshTime(block, block_generation)
           /\ block_alt' = block /\ needs_flushing' = 1
           /\ block' = Put(Started(block_alt, block_generation), 0, e)
           /\ data_ptr' = 1
           /\ accepted' = Append(accepted, e)
           /\ UNCHANGED block_generation
  <2> DEFINE a == Started(block_alt, block_generation)
  <2>1. a \in Buffer /\ a.gen = block_generation /\ a.ts = now /\ a.ents = <<>> /\ Len(a.ents) = 0
    <3>1. Types
      BY DEF IInv
    <3>2. /\ a \in Buffer /\ a.gen = block_generation /\ a.ts = now
          /\ a.ents = block_alt.ents
      BY <1>2, <3>1, StartedIs
    <3>3. block_alt.ents = <<>>
      BY <1>4, <1>9
    <3> HIDE DEF a
    <3> QED
      BY <3>2, <3>3
  <2> HIDE DEF b, F, e, a
  <2>2. /\ block' \in Buffer /\ block'.gen = block_generation /\ block'.ts = now
        /\ block'.ents = Append(<<>>, e) /\ Len(block'.ents) = 1
    <3>1. block' = Put(a, Len(a.ents), e)
      BY <1>9, <2>1 DEF a
    <3>2. /\ Put(a, Len(a.ents), e) \in Buffer
          /\ Put(a, Len(a.ents), e).gen = a.gen /\ Put(a, Len(a.ents), e).ts = a.ts
          /\ Put(a, Len(a.ents), e).ents = Append(a.ents, e)
          /\ Len(Append(a.ents, e)) = Len(a.ents) + 1
      BY <1>3, <2>1, PutIs
    <3>3. Append(a.ents, e) = Append(<<>>, e) /\ Len(a.ents) + 1 = 1
      BY <2>1
    <3> HIDE DEF a
    <3> QED
      BY <2>1, <3>1, <3>2, <3>3, Zenon
  <2>3. Types'
    <3>1. data_ptr' \in 0 .. BlockCap /\ needs_flushing' \in 0 .. 2
      BY <1>2, <1>9
    <3> QED
      BY <1>1, <1>2, <1>3, <1>9, <2>2, <3>1 DEF IInv, Types, TypeOK
  <2>4. pc = "idle" /\ Pending = <<>> /\ Pending' = block.ents
    BY <1>1, <1>4, <1>9 DEF Pending
  <2>5. FlushInv'
    <3>1. mounted' /\ Len(block'.ents) = data_ptr'
      BY <1>1, <1>9, <2>2
    <3> QED
      BY <1>1, <1>9, <2>4, <3>1 DEF IInv, FlushInv
  <2>6. TimeInv(disk[newest])'
    <3>1. block.gen = block_generation /\ block.ts <= now /\ block.ts \in Nat
      BY <1>2, <1>7, <1>9, Fields
    <3>2. block_lt(block, block')
      <4>1. block.ts # now
        BY <1>9, <3>1 DEF FreshTime
      <4> QED
        BY <1>2, <2>2, <3>1, <4>1 DEF block_lt
    <3>3. newest # DataBlocks => block_lt(disk[newest], block)
      BY <1>1, <1>9 DEF IInv, TimeInv
    <3>4. block_generation > 0
      BY <1>1 DEF IInv, TimeInv
    <3>5. data_ptr' = 1 /\ block'.ts <= now /\ needs_flushing' = 1
      BY <1>2, <1>9, <2>2
    <3> QED
      BY <1>1, <1>9, <2>2, <2>4, <3>1, <3>2, <3>3, <3>4, <3>5 DEF TimeInv
  <2>7. F \o block.ents \o Append(<<>>, e) = Append(F \o <<>> \o block.ents, e)
    <3>1. <<>> \in Seq(Numbers) /\ F \o block.ents \in Seq(Numbers)
      BY <1>6, ConcatProperties
    <3>2. F \o <<>> = F /\ (F \o block.ents) \o <<>> = F \o block.ents
      BY <1>6, <3>1, ConcatEmptySeq
    <3>3. F \o block.ents \o Append(<<>>, e) = Append(F \o block.ents \o <<>>, e)
      BY <1>3, <1>6, <3>1, AppendLast
    <3> QED
      BY <3>2, <3>3
  <2>8. LogInv'
    <3> DEFINE L == F \o <<>> \o block.ents
    <3>1. L \in Seq(Numbers) /\ IsSuffix(L, accepted)
      BY <1>6, <2>4, ConcatProperties
    <3> HIDE DEF L
    <3>2. IsSuffix(Append(L, e), Append(accepted, e))
      BY <1>3, <1>6, <3>1, SuffixGrow
    <3>3. IsSuffix(FlattenSeq(Ring(disk', Place')) \o Pending' \o block'.ents, accepted')
      BY <1>1, <1>5, <1>9, <2>2, <2>4, <2>7, <3>2 DEF F, L
    <3>4. accepted' \in Seq(1 .. entries') /\ Rising(accepted')
      BY <1>1, <1>2, <1>6, <1>9, AcceptGrows DEF e
    <3> QED
      BY <3>3, <3>4 DEF LogInv
  <2> QED
    BY <1>5, <2>3, <2>5, <2>6, <2>8 DEF IInv
<1>10. CASE UNCHANGED <<block, block_alt, data_ptr, needs_flushing, block_generation, accepted>>
  <2>1. Types'
    BY <1>1, <1>3, <1>10 DEF IInv, Types, TypeOK
  <2>2. FlushInv'
    BY <1>1, <1>10 DEF IInv, FlushInv
  <2>3. TimeInv(disk[newest])'
    BY <1>1, <1>10 DEF IInv, TimeInv
  <2>4. Pending' = Pending
    BY <1>1, <1>10 DEF Pending
  <2>5. accepted \in Seq(1 .. e)
    <3>1. entries <= e
      BY <1>2
    <3> HIDE DEF e
    <3> QED
      BY <1>2, <1>3, <1>6, <3>1, Widened
  <2>6. LogInv'
    BY <1>1, <1>5, <1>6, <1>10, <2>4, <2>5 DEF LogInv
  <2> QED
    BY <1>5, <2>1, <2>2, <2>3, <2>6 DEF IInv
<1> QED
  BY <1>8, <1>9, <1>10, AppendIs

\* The entries on the card are those of the ring.
LEMMA OnDiskIs ==
  ASSUME Types, NEW p \in 0 .. DataBlocks, NEW e
  PROVE  OnDisk(e) <=> Contains(FlattenSeq(Ring(disk, p)), e)
<1> DEFINE r == Ring(disk, p)
<1>1. DataBlocks \in Nat \ {0} /\ disk \in [Blocks -> Buffer]
  BY Numeric
<1>2. /\ r \in Seq(Seq(Numbers)) /\ Len(r) = DataBlocks
      /\ \A i \in 1 .. DataBlocks : Turned(p, i) \in Blocks /\ r[i] = disk[Turned(p, i)].ents
  BY <1>1, RingFacts
<1> HIDE DEF r
<1>3. Contains(FlattenSeq(r), e) <=> \E i \in 1 .. DataBlocks : Contains(r[i], e)
  BY <1>2, ContainsFlatten
<1>4. ASSUME NEW j \in Blocks
      PROVE  \E i \in 1 .. DataBlocks : Turned(p, i) = j
  <2>1. CASE j >= p
    <3>1. j - p + 1 \in 1 .. DataBlocks /\ Turned(p, j - p + 1) = j
      BY <1>1, <2>1 DEF Turned, Blocks
    <3> QED
      BY <3>1
  <2>2. CASE ~ (j >= p)
    <3>1. j - p + 1 + DataBlocks \in 1 .. DataBlocks /\ Turned(p, j - p + 1 + DataBlocks) = j
      BY <1>1, <2>2 DEF Turned, Blocks
    <3> QED
      BY <3>1
  <2> QED
    BY <2>1, <2>2
<1>5. OnDisk(e) <=> \E i \in 1 .. DataBlocks : Contains(r[i], e)
  BY <1>2, <1>4 DEF OnDisk
<1> QED
  BY <1>3, <1>5 DEF r

\* Entries are numbers.
LEMMA EntriesAreNumbers ==
  ASSUME NEW n \in Nat, NEW s \in Seq(1 .. n)
  PROVE  s \in Seq(Nat)
<1>1. \A i \in 1 .. n : i \in Nat
  OBVIOUS
<1>2. Len(s) \in Nat /\ s \in [1 .. Len(s) -> 1 .. n]
  OBVIOUS
<1>3. s \in [1 .. Len(s) -> Nat]
  BY <1>1, <1>2
<1> QED
  BY <1>2, <1>3

\* A part of a sequence of rising numbers.
LEMMA RisingPart ==
  ASSUME NEW n \in Nat, NEW a \in Nat, NEW m \in Seq(Nat), NEW s \in Seq(1 .. n), Rising(s),
         Len(s) >= a + Len(m), \A i \in 1 .. Len(m) : s[a + i] = m[i]
  PROVE  /\ m \in Seq(1 .. n) /\ Rising(m)
         /\ \A k \in 1 .. Len(s) : Contains(m, s[k]) <=> k > a /\ k <= a + Len(m)
<1> DEFINE c == Len(m)
<1>1. c \in Nat /\ Len(s) \in Nat
  OBVIOUS
<1>2. Len(s) >= a + c /\ \A i \in 1 .. c : s[a + i] = m[i]
  OBVIOUS
<1> HIDE DEF c
<1>3. \A i \in 1 .. c : a + i \in 1 .. Len(s) /\ a + i \in Int
  BY <1>1, <1>2
<1>4. m \in Seq(1 .. n)
  <2>1. \A k \in 1 .. Len(s) : s[k] \in 1 .. n
    OBVIOUS
  <2>2. \A i \in 1 .. c : m[i] \in 1 .. n
    BY <1>2, <1>3, <2>1
  <2>3. m \in [1 .. c -> Nat]
    BY DEF c
  <2>4. m \in [1 .. c -> 1 .. n]
    BY <2>2, <2>3
  <2> QED
    BY <1>1, <2>4
<1>5. Rising(m)
  <2>1. ASSUME NEW i \in 1 .. c, NEW j \in 1 .. c, i < j
        PROVE  m[i] < m[j]
    <3>1. a + i < a + j
      BY <1>1, <2>1
    <3>2. s[a + i] < s[a + j]
      BY <1>3, <3>1 DEF Rising
    <3> QED
      BY <1>2, <3>2
  <2> QED
    BY <2>1 DEF Rising, c
<1>6. ASSUME NEW k \in 1 .. Len(s)
      PROVE  Contains(m, s[k]) <=> k > a /\ k <= a + c
  <2>1. ASSUME Contains(m, s[k])
        PROVE  k > a /\ k <= a + c
    <3>1. PICK j \in 1 .. c : m[j] = s[k]
      BY <2>1 DEF Contains, c
    <3>2. a + j \in 1 .. Len(s) /\ s[a + j] = s[k] /\ s[k] \in Int /\ a + j \in Int /\ k \in Int
      BY <1>2, <1>3, <3>1
    <3>3. a + j = k
      <4>1. CASE a + j < k
        <5>1. s[a + j] < s[k]
          BY <3>2, <4>1 DEF Rising
        <5> QED
          BY <3>2, <5>1
      <4>2. CASE k < a + j
        <5>1. s[k] < s[a + j]
          BY <3>2, <4>2 DEF Rising
        <5> QED
          BY <3>2, <5>1
      <4> QED
        BY <3>2, <4>1, <4>2
    <3> QED
      BY <1>1, <3>3
  <2>2. ASSUME k > a, k <= a + c
        PROVE  Contains(m, s[k])
    <3>1. k - a \in 1 .. c /\ a + (k - a) = k
      BY <1>1, <2>2
    <3>2. m[k - a] = s[k]
      BY <1>2, <3>1
    <3> QED
      BY <3>1, <3>2 DEF Contains, c
  <2> QED
    BY <2>1, <2>2
<1> QED
  BY <1>4, <1>5, <1>6 DEF c

\* After a restart what was accepted is what the card holds.
LEMMA RestartInv ==
  ASSUME ~ TornWrites, IInv, Restart
  PROVE  IInv'
<1>1. /\ mounted' = FALSE /\ block' = Invalid /\ block_alt' = Invalid
      /\ data_ptr' = 0 /\ needs_flushing' = 0 /\ block_ptr' = 0 /\ block_generation' = 0
      /\ pc' = "idle" /\ panic' = FALSE /\ now' = 0
      /\ accepted' = Saved(accepted) /\ UNCHANGED <<disk, newest, entries>>
      /\ pc # "writing"
  BY DEF Restart, Empty
<1>2. /\ DataBlocks \in Nat \ {0} /\ MaxTime \in Nat /\ BlockCap \in Nat /\ entries \in Nat
      /\ disk \in [Blocks -> Buffer] /\ newest \in 0 .. DataBlocks /\ MaxEntries \in Nat
  BY Numeric DEF IInv, Types
<1>3. Types'
  <2>1. mounted' \in BOOLEAN /\ panic' \in BOOLEAN
    BY <1>1, Zenon
  <2>2. /\ data_ptr' \in 0 .. BlockCap /\ needs_flushing' \in 0 .. 2
        /\ block_ptr' \in 0 .. DataBlocks /\ block_generation' \in Nat /\ now' \in 0 .. MaxTime
    BY <1>1, <1>2
  <2>3. block' \in Buffer /\ block_alt' \in Buffer
    BY <1>1, InvalidBuffer
  <2> QED
    BY <1>1, <2>1, <2>2, <2>3 DEF IInv, Types, TypeOK
<1>4. DiskInv(disk', newest', Hole')
  <2>1. Hole = DataBlocks /\ Hole' = DataBlocks
    BY <1>1 DEF Hole
  <2> QED
    BY <1>1, <2>1 DEF IInv
<1>5. block'.ents = <<>> /\ block_alt'.ents = <<>> /\ block_alt'.ts = 0
  BY <1>1 DEF Invalid
<1>6. FlushInv'
  BY <1>1, <1>5 DEF FlushInv
<1>7. TimeInv(disk[newest])'
  BY <1>1 DEF TimeInv
<1>8. LogInv'
  <2> DEFINE F == FlattenSeq(Ring(disk, Place))
             P == Pending
             B == block.ents
             z == P \o B
  <2>1. Types /\ accepted \in Seq(1 .. entries) /\ Rising(accepted)
    BY DEF IInv, LogInv
  <2>2. Place \in 0 .. DataBlocks /\ F \in Seq(Numbers) /\ P \in Seq(Numbers) /\ B \in Seq(Numbers)
    BY <2>1, LogTyped
  <2>3. IsSuffix(F \o P \o B, accepted)
    BY DEF IInv, LogInv
  <2>4. accepted \in Seq(Numbers)
    BY <1>2, <2>1, Widened DEF Types, Numbers
  <2>5. \A e : OnDisk(e) <=> Contains(F, e)
    BY <2>1, <2>2, OnDiskIs
  <2>6. Ring(disk', Place') = Ring(disk, Place)
    <3>1. Place' = IF newest = DataBlocks THEN 0 ELSE newest + 1
      BY <1>1 DEF Place
    <3>2. CASE ~ mounted
      BY <1>1, <3>1, <3>2 DEF Place
    <3>3. CASE mounted /\ pc = "clear"
      <4>1. newest = block_ptr - 1 /\ newest # DataBlocks
        BY <1>2, <3>3 DEF IInv, FlushInv, Blocks
      <4>2. block_ptr \in Nat
        BY <2>1, Numeric
      <4> QED
        BY <1>1, <3>1, <3>3, <4>1, <4>2 DEF Place
    <3>4. CASE mounted /\ pc # "clear"
      <4>1. Follows(block_ptr, newest)
        BY <1>1, <2>1, <3>4 DEF IInv, FlushInv, Types, TypeOK
      <4>2. Place = block_ptr
        BY <3>4 DEF Place
      <4>3. Ring(disk, Place') = Ring(disk, block_ptr)
        BY <2>1, <3>1, <4>1, PlaceAgain
      <4> QED
        BY <1>1, <4>2, <4>3
    <3> QED
      BY <3>2, <3>3, <3>4
  <2>7. FlattenSeq(Ring(disk', Place')) = F
    BY <2>6
  <2> HIDE DEF F, P, B
  <2>8. F \o P \in Seq(Numbers) /\ F \o P \o B \in Seq(Numbers) /\ z \in Seq(Numbers)
    BY <2>2, ConcatProperties
  <2>9. PICK x \in Seq(Numbers) : accepted = x \o (F \o P \o B)
    <3> DEFINE L == F \o P \o B
    <3>1. L \in Seq(Numbers) /\ IsSuffix(L, accepted)
      BY <2>3, <2>8
    <3> HIDE DEF L
    <3>2. \E x \in Seq(Numbers) : accepted = x \o L
      BY <2>4, <3>1, SuffixIs
    <3> QED
      BY <3>2 DEF L
  <2>10. accepted = x \o F \o z
    <3>1. F \o P \o B = F \o z
      BY <2>2, ConcatAssociative
    <3>2. x \o (F \o z) = (x \o F) \o z
      <4> HIDE DEF z
      <4> QED
        BY <2>2, <2>8, ConcatAssociative, SMTT(40)
    <3> QED
      BY <2>9, <3>1, <3>2
  <2> HIDE DEF z
  <2>11. x \in Seq(Nat) /\ F \in Seq(Nat) /\ z \in Seq(Nat)
    BY <1>2, <2>2, <2>8, EntriesAreNumbers DEF Numbers
  <2>12. /\ F \in Seq(1 .. entries) /\ Rising(F)
         /\ \A k \in 1 .. Len(accepted) :
              Contains(F, accepted[k]) <=> k > Len(x) /\ k <= Len(x) + Len(F)
    <3>1. Len(x) \in Nat /\ Len(F) \in Nat /\ Len(z) \in Nat
      BY <2>11
    <3>2. /\ Len(accepted) = Len(x) + Len(F) + Len(z)
          /\ \A i \in 1 .. Len(F) : accepted[Len(x) + i] = F[i]
      BY <2>10, <2>11, MiddlePart
    <3>3. Len(accepted) >= Len(x) + Len(F)
      BY <3>1, <3>2
    <3> QED
      BY <1>2, <2>1, <2>11, <3>1, <3>2, <3>3, RisingPart
  <2>13. \A k \in 1 .. Len(accepted) :
           OnDisk(accepted[k]) <=> k > Len(x) /\ k <= Len(x) + Len(F)
    BY <2>5, <2>12
  <2>14. Saved(accepted) = F
    BY <2>10, <2>11, <2>13, SavedPart
  <2>15. Pending' = <<>>
    BY <1>1 DEF Pending
  <2>16. F \o <<>> \o <<>> = F
    BY <2>2, ConcatEmptySeq
  <2>17. IsSuffix(F, F)
    <3>1. <<>> \in Seq(Numbers) /\ F = <<>> \o F
      BY <2>2, ConcatEmptySeq
    <3> QED
      BY <2>2, <3>1, SuffixIs
  <2>18. IsSuffix(FlattenSeq(Ring(disk', Place')) \o Pending' \o block'.ents, accepted')
    BY <1>1, <1>5, <2>7, <2>14, <2>15, <2>16, <2>17
  <2> QED
    BY <1>1, <2>12, <2>14, <2>18 DEF LogInv
<1> QED
  BY <1>3, <1>4, <1>6, <1>7, <1>8 DEF IInv

\* Every step keeps the invariant.
LEMMA StepInv ==
  ASSUME ~ TornWrites, ~ SharedTimes, IInv, [Next]_vars
  PROVE  IInv'
<1>1. CASE Mount
  BY <1>1, MountInv
<1>2. CASE AppendEntry
  BY <1>2, AppendInv
<1>3. CASE FlushClaim
  BY <1>3, FlushClaimInv
<1>4. CASE WriteStart
  BY <1>4, WriteStartInv
<1>5. CASE WriteEnd
  BY <1>5, WriteEndInv
<1>6. CASE FlushEnd
  BY <1>6, FlushEndInv
<1>7. CASE Tick
  BY <1>7, TickInv
<1>8. CASE Restart
  BY <1>8, RestartInv
<1>9. CASE UNCHANGED vars
  BY <1>9, StutterInv
<1> QED
  BY <1>1, <1>2, <1>3, <1>4, <1>5, <1>6, <1>7, <1>8, <1>9 DEF Next

\* The log a reader of the card and the buffers sees is the one of the invariant.
LEMMA InvGivesLog ==
  ASSUME IInv
  PROVE  LogIsSuffix
<1>1. TypeOK
  BY DEF IInv, Types
<1>2. ASSUME mounted
      PROVE  IsSuffix(Log, accepted)
  <2>1. Place = block_ptr /\ Len(block.ents) = data_ptr
    BY <1>2 DEF Place, IInv, FlushInv
  <2>2. block.ents \in Seq(Numbers)
    BY LogTyped DEF IInv
  <2>3. SubSeq(block.ents, 1, data_ptr) = block.ents
    BY <2>1, <2>2, SubSeqFull
  <2>4. Log = FlattenSeq(Ring(disk, Place)) \o Pending \o block.ents
    BY <2>1, <2>3 DEF Log, Ring, Pending
  <2> QED
    BY <2>4 DEF IInv, LogInv
<1> QED
  BY <1>1, <1>2 DEF LogIsSuffix

------------------------------------------------------------------------------
(* The theorems *)

(***************************************************************************)
(* jd_lstore_append, flush_to_disk and mount_log: with any number of       *)
(* blocks, entries and restarts, whatever appends interrupt a flush, the   *)
(* log on the card and in the buffers is what was appended last, in order, *)
(* nothing twice, without a gap; if no write is torn by a loss of power    *)
(* and no two blocks start in one millisecond.                             *)
(***************************************************************************)
THEOREM LogKept == ~ TornWrites /\ ~ SharedTimes => (Spec => []LogIsSuffix)
<1> SUFFICES ASSUME ~ TornWrites, ~ SharedTimes
             PROVE  Spec => []LogIsSuffix
  OBVIOUS
<1>1. Init => IInv
  BY InitInv
<1>2. IInv /\ [Next]_vars => IInv'
  BY StepInv
<1>3. IInv => LogIsSuffix
  BY InvGivesLog
<1> QED
  BY <1>1, <1>2, <1>3, PTL DEF Spec

(***************************************************************************)
(* find_boundry and write_block: a mount goes on after the block written   *)
(* last, wherever the ring was when the device stopped, and no append      *)
(* touches the buffer that is being written.                               *)
(***************************************************************************)
THEOREM BlocksStayInPlace == ~ TornWrites /\ ~ SharedTimes => (Spec => BlocksInPlace)
<1> SUFFICES ASSUME ~ TornWrites, ~ SharedTimes
             PROVE  Spec => BlocksInPlace
  OBVIOUS
<1>1. Init => IInv
  BY InitInv
<1>2. IInv /\ [Next]_vars => IInv'
  BY StepInv
<1>3. ASSUME IInv, [Next]_vars
      PROVE  [Mount /\ newest # DataBlocks
                => block_ptr' % DataBlocks = (newest + 1) % DataBlocks]_vars
  <2>1. ASSUME Mount, newest # DataBlocks
        PROVE  block_ptr' = newest + 1
    <3>1. disk[0].gen # 0 /\ Boundary = newest
      BY <1>3, <2>1, MountFinds
    <3>2. block_ptr = 0 /\ newest + 1 # 0
      <4>1. newest \in Nat
        BY <1>3, Numeric DEF IInv
      <4>2. block_ptr = 0
        BY <1>3, <2>1 DEF IInv, FlushInv, Mount
      <4> QED
        BY <4>1, <4>2
    <3> QED
      BY <2>1, <3>1, <3>2 DEF Mount
  <2> QED
    BY <2>1
<1>4. ASSUME IInv, [Next]_vars
      PROVE  [(pc \in {"write", "writing"}) /\ mounted' => block_alt' = block_alt]_vars
  <2>1. SUFFICES ASSUME pc \in {"write", "writing"}, mounted'
                 PROVE  block_alt' = block_alt
    OBVIOUS
  <2>2. needs_flushing = 2 /\ mounted
    BY <1>4, <2>1 DEF IInv, FlushInv, Types, TypeOK
  <2>3. CASE AppendEntry
    BY <2>2, <2>3 DEF AppendEntry, Append1
  <2>4. CASE FlushClaim
    BY <2>1, <2>4 DEF FlushClaim
  <2>5. CASE FlushEnd
    BY <2>1, <2>5 DEF FlushEnd
  <2>6. CASE Restart
    BY <2>1, <2>6 DEF Restart
  <2>7. CASE Mount \/ WriteStart \/ WriteEnd \/ Tick \/ UNCHANGED vars
    BY <2>7 DEF Mount, WriteStart, WriteEnd, Tick, ram, vars
  <2> QED
    BY <1>4, <2>3, <2>4, <2>5, <2>6, <2>7 DEF Next
<1> QED
  BY <1>1, <1>2, <1>3, <1>4, PTL DEF Spec, BlocksInPlace, MountFindsNewest, BufferStable

-----------------------------------------------------------------------------
(***************************************************************************)
(* The files of the log (JdLogFile), for cards and files of every size.    *)
(***************************************************************************)
CONSTANTS CLUSTERS, CSIZE, FILE_SIZE, Shift, MAXSPB, Cards, MaxCrashes, MaxWrites
VARIABLES files, alien, sectors, lf, magic, born, count

Lfs == INSTANCE JdLogFile WITH disk <- sectors

Chain == Seq(0 .. CLUSTERS - 1)
Header == [kind : {"header"}, version : Nat, spb : Nat, num : Nat, magic : Nat]
BlockMark == [kind : {"block"}, magic : Nat]
Sector == {Lfs!Blank, Lfs!Data} \cup Header \cup BlockMark

\* No two chains of clusters meet.
Disjoint(fs, al) ==
  /\ \A i, j \in Lfs!Logs : i # j => Lfs!Clusters(fs[i]) \cap Lfs!Clusters(fs[j]) = {}
  /\ \A i \in Lfs!Logs : Lfs!Clusters(fs[i]) \cap Lfs!Clusters(al) = {}

\* A block has a power of two of sectors and is not larger than the buffer; on a card no
\* two files share a cluster.
CardSizes ==
  /\ {CLUSTERS, CSIZE, FILE_SIZE} \subseteq Nat \ {0} /\ MAXSPB \in Nat
  /\ \A i \in Lfs!Logs : 2^Shift[i] \in Lfs!Powers /\ 2^Shift[i] <= MAXSPB
  /\ \A c \in Cards : /\ c.files \in [Lfs!Logs -> Chain] /\ c.alien \in Chain /\ Disjoint(c.files, c.alien)
                      /\ c.header \in {Lfs!Blank} \cup Header

\* The file is as jd_lstore_init wants it.
Ready(c) == Len(c) * CSIZE >= FILE_SIZE /\ Lfs!check_contiguous_file(c)

LfRam == [pc : {"open", "create", "clear", "mount", "mounted", "panic"}, size : Nat, off : Nat, hd : Sector]

\* What the RAM, the card and the history say of a file with chain c.
FileOk(c, l, b, d) ==
  /\ l.pc \in {"clear", "mount", "mounted"} => Ready(c) /\ l.size = Len(c) * CSIZE /\ l.off = c[1] * CSIZE
  /\ l.pc \in {"create", "clear"} => b = 0
  /\ l.pc = "create" => ~ Ready(c)
  /\ b # 0 => /\ Ready(c) /\ Lfs!validate_header(Len(c) * CSIZE, d[c[1] * CSIZE])
              /\ d[c[1] * CSIZE].magic = b
  /\ l.pc = "mounted" => /\ l.hd = d[c[1] * CSIZE] /\ Lfs!validate_header(l.size, l.hd)
                         /\ l.hd.magic = b

AlienKept(al, d) == \A s \in Lfs!SectorsOf(al) : d[s] = Lfs!Data

LfTypes ==
  /\ files \in [Lfs!Logs -> Chain] /\ alien \in Chain /\ sectors \in [Lfs!Sectors -> Sector]
  /\ lf \in [Lfs!Logs -> LfRam] /\ magic \in Nat /\ born \in [Lfs!Logs -> Nat]

LfInv ==
  /\ LfTypes /\ Disjoint(files, alien) /\ AlienKept(alien, sectors)
  /\ \A i \in Lfs!Logs : FileOk(files[i], lf[i], born[i], sectors)

LEMMA PowersArePositive == Lfs!Powers \subseteq Nat \ {0}
<1>1. 2^0 = 1 /\ 2^1 = 2 /\ 2^2 = 4 /\ 2^3 = 8 /\ 2^4 = 16
  OBVIOUS
<1>2. 0 .. 4 = {0, 1, 2, 3, 4}
  OBVIOUS
<1> QED
  BY <1>1, <1>2 DEF Lfs!Powers

\* The clusters of a file in one piece follow each other.
LEMMA InARow ==
  ASSUME NEW c \in Seq(Nat), Lfs!check_contiguous_file(c), NEW j \in 1 .. Len(c)
  PROVE  Len(c) >= 1 /\ c[1] \in Nat /\ c[j] = c[1] + (j - 1)
<1>1. Len(c) >= 1 /\ Len(c) \in Nat /\ c[1] \in Nat
  BY DEF Lfs!check_contiguous_file
<1> DEFINE S == {n \in Nat : n + 1 \in 1 .. Len(c) => c[n + 1] = c[1] + n}
<1>2. 0 \in S
  BY <1>1
<1>3. \A n \in Nat : n \in S => n + 1 \in S
  <2> SUFFICES ASSUME NEW n \in Nat, n \in S, (n + 1) + 1 \in 1 .. Len(c)
               PROVE  c[(n + 1) + 1] = c[1] + (n + 1)
    OBVIOUS
  <2>1. n + 1 \in 1 .. Len(c) - 1 /\ n + 1 \in 1 .. Len(c)
    BY <1>1
  <2>2. c[(n + 1) + 1] = c[n + 1] + 1
    BY <2>1 DEF Lfs!check_contiguous_file
  <2>3. c[n + 1] = c[1] + n
    BY <2>1
  <2> QED
    BY <1>1, <2>2, <2>3
<1>4. Nat \subseteq S
  <2> HIDE DEF S
  <2> QED
    BY <1>2, <1>3, SetInduction
<1>5. j - 1 \in S /\ (j - 1) + 1 = j
  BY <1>1, <1>4
<1> QED
  BY <1>1, <1>5

LEMMA Products ==
  ASSUME NEW a \in Nat, NEW b \in Nat, NEW k \in Nat
  PROVE  /\ a * k \in Nat /\ (a + b) * k = a * k + b * k
         /\ a < b => a * k + k <= b * k
         /\ a <= b => a * k <= b * k
<1>1. a * k \in Nat /\ (a + b) * k = a * k + b * k
  OBVIOUS
<1>2. a < b => a * k + k <= b * k
  OBVIOUS
<1>3. a <= b => a * k <= b * k
  OBVIOUS
<1> QED
  BY <1>1, <1>2, <1>3

\* The sectors behind the first of a file in one piece are its own.
LEMMA SectorsOfRow ==
  ASSUME NEW c \in Seq(Nat), Lfs!check_contiguous_file(c), CSIZE \in Nat \ {0},
         NEW s \in Nat, s < Len(c) * CSIZE
  PROVE  c[1] * CSIZE + s \in Lfs!SectorsOf(c)
<1> DEFINE q == s \div CSIZE
           r == s % CSIZE
<1>1. q \in Nat /\ r \in 0 .. CSIZE - 1 /\ s = q * CSIZE + r
  <2>1. r \in 0 .. CSIZE - 1 /\ q \in Int /\ s = CSIZE * q + r
    BY Division
  <2> HIDE DEF q, r
  <2>2. CSIZE * q = q * CSIZE
    BY <2>1
  <2>3. ~ q <= -1
    BY <2>1, MultipleIsLarge
  <2> QED
    BY <2>1, <2>2, <2>3
<1> HIDE DEF q, r
<1>2. Len(c) \in Nat /\ Len(c) >= 1 /\ c[1] \in Nat
  BY DEF Lfs!check_contiguous_file
<1>3. q < Len(c)
  <2>1. ~ q < Len(c) => Len(c) * CSIZE <= q * CSIZE
    BY <1>1, <1>2, Products
  <2>2. Len(c) * CSIZE \in Nat /\ q * CSIZE \in Nat
    BY <1>1, <1>2, Products
  <2> QED
    BY <1>1, <2>1, <2>2
<1>4. q + 1 \in 1 .. Len(c)
  BY <1>1, <1>2, <1>3
<1>5. c[q + 1] = c[1] + q
  BY <1>1, <1>4, InARow, <1>2
<1>6. c[q + 1] * CSIZE = c[1] * CSIZE + q * CSIZE /\ c[1] * CSIZE \in Nat /\ q * CSIZE \in Nat
  BY <1>1, <1>2, <1>5, Products
<1>7. c[1] * CSIZE + s \in (c[q + 1] * CSIZE) .. (c[q + 1] * CSIZE + CSIZE - 1)
  <2>1. \A x, y, z, w \in Nat :
          x = y + z /\ s = z + r /\ r \in 0 .. w - 1 => y + s \in x .. x + w - 1
    OBVIOUS
  <2>2. c[q + 1] * CSIZE \in Nat
    BY <1>6
  <2> QED
    BY ONLY <1>1, <1>6, <2>1, <2>2, CSIZE \in Nat \ {0}
<1> QED
  BY <1>4, <1>7 DEF Lfs!SectorsOf

LEMMA ChainOfNumbers ==
  ASSUME NEW c \in Chain, CLUSTERS \in Nat
  PROVE  c \in Seq(Nat) /\ \A j \in DOMAIN c : c[j] \in Nat /\ c[j] < CLUSTERS
  BY DEF Chain

\* A sector of a chain is on the card, and it is in the cluster it is in.
LEMMA SectorsOnCard ==
  ASSUME CardSizes, NEW c \in Chain, NEW s \in Lfs!SectorsOf(c)
  PROVE  /\ s \in Lfs!Sectors
         /\ \E k \in Lfs!Clusters(c) : k \in Nat /\ k * CSIZE <= s /\ s < k * CSIZE + CSIZE
<1>1. PICK j \in DOMAIN c : s \in (c[j] * CSIZE) .. (c[j] * CSIZE + CSIZE - 1)
  BY DEF Lfs!SectorsOf
<1>2. c[j] \in Nat /\ c[j] < CLUSTERS /\ CSIZE \in Nat /\ CLUSTERS \in Nat
  BY ChainOfNumbers DEF CardSizes
<1>3. c[j] * CSIZE \in Nat /\ CLUSTERS * CSIZE \in Nat /\ c[j] * CSIZE + CSIZE <= CLUSTERS * CSIZE
  BY ONLY <1>2, Products
<1>4. s \in Nat /\ s <= c[j] * CSIZE + CSIZE - 1 /\ c[j] * CSIZE <= s
  BY ONLY <1>1, <1>2, <1>3
<1>5. s \in Lfs!Sectors
  BY ONLY <1>2, <1>3, <1>4 DEF Lfs!Sectors
<1> QED
  BY <1>2, <1>3, <1>4, <1>5 DEF Lfs!Clusters

\* Chains without a common cluster have no common sector.
LEMMA SectorsApart ==
  ASSUME CardSizes, NEW c \in Chain, NEW e \in Chain, Lfs!Clusters(c) \cap Lfs!Clusters(e) = {}
  PROVE  Lfs!SectorsOf(c) \cap Lfs!SectorsOf(e) = {}
<1> SUFFICES ASSUME NEW s, s \in Lfs!SectorsOf(c), s \in Lfs!SectorsOf(e)
             PROVE  FALSE
  OBVIOUS
<1>1. PICK k \in Lfs!Clusters(c) : k \in Nat /\ k * CSIZE <= s /\ s < k * CSIZE + CSIZE
  BY SectorsOnCard
<1>2. PICK m \in Lfs!Clusters(e) : m \in Nat /\ m * CSIZE <= s /\ s < m * CSIZE + CSIZE
  BY SectorsOnCard
<1>3. CSIZE \in Nat /\ s \in Nat /\ k # m
  <2>1. s \in Lfs!Sectors
    BY SectorsOnCard
  <2>2. CSIZE \in Nat /\ CLUSTERS \in Nat /\ CLUSTERS * CSIZE \in Nat
    BY Products DEF CardSizes
  <2> QED
    BY <1>1, <1>2, <2>1, <2>2 DEF Lfs!Sectors
<1>4. k < m => k * CSIZE + CSIZE <= m * CSIZE
  BY ONLY <1>1, <1>2, <1>3, Products
<1>5. m < k => m * CSIZE + CSIZE <= k * CSIZE
  BY ONLY <1>1, <1>2, <1>3, Products
<1>6. k * CSIZE \in Nat /\ m * CSIZE \in Nat
  BY ONLY <1>1, <1>2, <1>3, Products
<1> QED
  BY ONLY <1>1, <1>2, <1>3, <1>4, <1>5, <1>6

LEMMA ReadyChain ==
  ASSUME CardSizes, NEW c \in Chain, Ready(c)
  PROVE  /\ Len(c) \in Nat \ {0} /\ c[1] \in Nat /\ Len(c) * CSIZE \in Nat \ {0} /\ c[1] * CSIZE \in Nat
         /\ c[1] * CSIZE \in Lfs!SectorsOf(c) /\ c[1] * CSIZE \in Lfs!Sectors
<1>1. c \in Seq(Nat) /\ CSIZE \in Nat \ {0} /\ FILE_SIZE \in Nat \ {0} /\ Lfs!check_contiguous_file(c)
  BY ChainOfNumbers DEF CardSizes, Ready
<1>2. Len(c) \in Nat \ {0} /\ c[1] \in Nat
  BY <1>1 DEF Lfs!check_contiguous_file
<1>3. Len(c) * CSIZE \in Nat /\ c[1] * CSIZE \in Nat
  BY ONLY <1>1, <1>2, Products
<1>4. Len(c) * CSIZE >= FILE_SIZE
  BY DEF Ready
<1>5. Len(c) * CSIZE > 0
  BY ONLY <1>1, <1>3, <1>4
<1>6. c[1] * CSIZE + 0 \in Lfs!SectorsOf(c)
  BY <1>1, <1>5, SectorsOfRow
<1>7. c[1] * CSIZE \in Lfs!SectorsOf(c)
  BY <1>3, <1>6
<1> QED
  BY <1>2, <1>3, <1>5, <1>7, SectorsOnCard

\* What is known of a file depends on its own sectors only.
LEMMA FileFrame ==
  ASSUME CardSizes, NEW c \in Chain, NEW l, NEW b, NEW d, NEW e, FileOk(c, l, b, d),
         \A s \in Lfs!SectorsOf(c) : e[s] = d[s]
  PROVE  FileOk(c, l, b, e)
<1>1. Ready(c) => e[c[1] * CSIZE] = d[c[1] * CSIZE]
  BY ReadyChain
<1> QED
  BY <1>1 DEF FileOk

\* The blocks of a file whose header is valid are behind the header and in the file.
LEMMA PlaceInFile ==
  ASSUME CardSizes, NEW c \in Chain, Ready(c), NEW h \in Sector, Lfs!validate_header(Len(c) * CSIZE, h),
         NEW x \in 0 .. (h.num - 2), NEW s \in ((1 + x) * h.spb) .. ((2 + x) * h.spb - 1)
  PROVE  c[1] * CSIZE + s \in Lfs!SectorsOf(c) /\ c[1] * CSIZE + s # c[1] * CSIZE
<1>1. h.spb \in Nat \ {0} /\ h.num \in Nat /\ h.spb * h.num <= Len(c) * CSIZE
  <2>1. h.kind = "header" /\ h.spb \in Lfs!Powers /\ h.spb * h.num <= Len(c) * CSIZE
    BY DEF Lfs!validate_header
  <2>2. h \in Header
    BY <2>1 DEF Sector, BlockMark, Lfs!Blank, Lfs!Data
  <2> QED
    BY <2>1, <2>2, PowersArePositive DEF Header
<1> DEFINE spb == h.spb
           num == h.num
<1>2. spb \in Nat \ {0} /\ num \in Nat /\ spb * num <= Len(c) * CSIZE /\ x \in 0 .. (num - 2)
       /\ s \in ((1 + x) * spb) .. ((2 + x) * spb - 1)
  BY <1>1
<1> HIDE DEF spb, num
<1>3. Len(c) * CSIZE \in Nat /\ c[1] * CSIZE \in Nat
  BY ReadyChain
<1>4. x \in Nat /\ 2 + x <= num
  BY ONLY <1>2
<1>5. (2 + x) * spb <= num * spb /\ (2 + x) * spb \in Nat /\ num * spb = spb * num /\ spb * num \in Nat
  <2>1. 2 + x \in Nat
    BY ONLY <1>4
  <2> QED
    BY ONLY <2>1, <1>2, <1>4, Products
<1>6. (1 + x) * spb = 1 * spb + x * spb /\ x * spb \in Nat
  BY ONLY <1>2, <1>4, Products
<1>7. s \in Nat /\ s >= 1 /\ s < Len(c) * CSIZE
  BY ONLY <1>2, <1>3, <1>5, <1>6
<1>8. c \in Seq(Nat) /\ CSIZE \in Nat \ {0} /\ Lfs!check_contiguous_file(c)
  BY ChainOfNumbers DEF CardSizes, Ready
<1>9. c[1] * CSIZE + s \in Lfs!SectorsOf(c)
  BY ONLY <1>7, <1>8, SectorsOfRow
<1> QED
  BY ONLY <1>3, <1>7, <1>9

LEMMA LfInitInv == CardSizes /\ Lfs!Init => LfInv
<1> SUFFICES ASSUME CardSizes, Lfs!Init
             PROVE  LfInv
  OBVIOUS
<1>1. PICK c \in Cards :
        /\ files = c.files /\ alien = c.alien
        /\ sectors = [s \in Lfs!Sectors |-> IF s \in Lfs!SectorsOf(c.alien) THEN Lfs!Data
                                            ELSE IF s = c.at THEN c.header ELSE Lfs!Blank]
  BY DEF Lfs!Init
<1>2. /\ c.files \in [Lfs!Logs -> Chain] /\ c.alien \in Chain /\ Disjoint(c.files, c.alien)
      /\ c.header \in {Lfs!Blank} \cup Header
  BY DEF CardSizes
<1>3. sectors \in [Lfs!Sectors -> Sector]
  BY <1>1, <1>2 DEF Sector
<1>4. lf = [i \in Lfs!Logs |-> Lfs!Closed] /\ magic = 1 /\ born = [i \in Lfs!Logs |-> 0]
  BY DEF Lfs!Init
<1>5. Lfs!Closed \in LfRam
  BY DEF Lfs!Closed, LfRam, Sector
<1>6. LfTypes
  BY <1>1, <1>2, <1>3, <1>4, <1>5 DEF LfTypes
<1>7. AlienKept(alien, sectors)
  <2> SUFFICES ASSUME NEW s \in Lfs!SectorsOf(alien)
               PROVE  sectors[s] = Lfs!Data
    BY DEF AlienKept
  <2>1. s \in Lfs!Sectors
    BY <1>1, <1>2, SectorsOnCard
  <2> QED
    BY <1>1, <2>1
<1>8. ASSUME NEW i \in Lfs!Logs
      PROVE  FileOk(files[i], lf[i], born[i], sectors)
  <2>1. lf[i].pc = "open" /\ born[i] = 0
    BY <1>4 DEF Lfs!Closed
  <2> QED
    BY <2>1 DEF FileOk
<1> QED
  BY <1>1, <1>2, <1>6, <1>7, <1>8 DEF LfInv

\* A write into the file of log i.
WritesInto(i, d, e) ==
  /\ e \in [Lfs!Sectors -> Sector]
  /\ \A s \in Lfs!Sectors \ Lfs!SectorsOf(files[i]) : e[s] = d[s]

LEMMA WriteKeepsOthers ==
  ASSUME CardSizes, LfInv, NEW i \in Lfs!Logs, WritesInto(i, sectors, sectors')
  PROVE  /\ AlienKept(alien, sectors')
         /\ \A j \in Lfs!Logs \ {i} : FileOk(files[j], lf[j], born[j], sectors')
<1>1. /\ files \in [Lfs!Logs -> Chain] /\ alien \in Chain
      /\ Disjoint(files, alien) /\ AlienKept(alien, sectors)
  BY DEF LfInv, LfTypes
<1>2. AlienKept(alien, sectors')
  <2> SUFFICES ASSUME NEW s \in Lfs!SectorsOf(alien)
               PROVE  sectors'[s] = Lfs!Data
    BY DEF AlienKept
  <2>1. s \in Lfs!Sectors
    BY <1>1, SectorsOnCard
  <2>2. s \notin Lfs!SectorsOf(files[i])
    <3>1. Lfs!Clusters(files[i]) \cap Lfs!Clusters(alien) = {}
      BY <1>1 DEF Disjoint
    <3> QED
      BY <1>1, <3>1, SectorsApart
  <2> QED
    BY <1>1, <2>1, <2>2 DEF AlienKept, WritesInto
<1>3. ASSUME NEW j \in Lfs!Logs \ {i}
      PROVE  FileOk(files[j], lf[j], born[j], sectors')
  <2>1. FileOk(files[j], lf[j], born[j], sectors) /\ files[j] \in Chain /\ files[i] \in Chain
    BY <1>1 DEF LfInv
  <2>2. Lfs!SectorsOf(files[i]) \cap Lfs!SectorsOf(files[j]) = {}
    <3>1. Lfs!Clusters(files[i]) \cap Lfs!Clusters(files[j]) = {}
      BY <1>1 DEF Disjoint
    <3> QED
      BY <2>1, <3>1, SectorsApart
  <2>3. \A s \in Lfs!SectorsOf(files[j]) : sectors'[s] = sectors[s]
    <3> SUFFICES ASSUME NEW s \in Lfs!SectorsOf(files[j])
                 PROVE  sectors'[s] = sectors[s]
      OBVIOUS
    <3>1. s \in Lfs!Sectors
      BY <2>1, SectorsOnCard
    <3> QED
      BY <2>2, <3>1 DEF WritesInto
  <2> QED
    BY <2>1, <2>3, FileFrame
<1> QED
  BY <1>2, <1>3

LEMMA OpenKeeps ==
  ASSUME CardSizes, LfInv, NEW i \in Lfs!Logs, Lfs!OpenFile(i)
  PROVE  LfInv'
<1>1. /\ LfTypes /\ Disjoint(files, alien) /\ AlienKept(alien, sectors)
      /\ \A j \in Lfs!Logs : FileOk(files[j], lf[j], born[j], sectors)
  BY DEF LfInv
<1>2. /\ UNCHANGED <<files, alien, sectors, magic, born>> /\ lf[i].pc = "open"
      /\ lf' = [lf EXCEPT ![i] = IF Ready(files[i]) THEN Lfs!Opened(i, files[i], "mount")
                                 ELSE [lf[i] EXCEPT !.pc = "create"]]
  BY DEF Lfs!OpenFile, Lfs!Turn, Ready
<1>3. files[i] \in Chain /\ lf[i] \in LfRam /\ born[i] \in Nat
  BY <1>1 DEF LfTypes
<1>4. lf'[i] \in LfRam /\ FileOk(files[i], lf'[i], born[i], sectors)
  <2>1. CASE Ready(files[i])
    <3>1. lf'[i] = Lfs!Opened(i, files[i], "mount")
      BY <1>1, <1>2, <2>1 DEF LfTypes
    <3>2. Len(files[i]) * CSIZE \in Nat /\ files[i][1] * CSIZE \in Nat
      BY <1>3, <2>1, ReadyChain
    <3>3. lf'[i] \in LfRam
      BY <3>1, <3>2 DEF Lfs!Opened, LfRam, Sector
    <3> QED
      BY <1>1, <2>1, <3>1, <3>3 DEF FileOk, Lfs!Opened
  <2>2. CASE ~ Ready(files[i])
    <3>1. lf'[i] = [lf[i] EXCEPT !.pc = "create"]
      BY <1>1, <1>2, <2>2 DEF LfTypes
    <3>2. lf'[i] \in LfRam /\ lf'[i].pc = "create"
      BY <1>3, <3>1 DEF LfRam
    <3>3. born[i] = 0
      BY <1>1, <2>2 DEF FileOk
    <3> QED
      BY <2>2, <3>2, <3>3 DEF FileOk
  <2> QED
    BY <2>1, <2>2
<1>5. lf' \in [Lfs!Logs -> LfRam] /\ \A j \in Lfs!Logs \ {i} : lf'[j] = lf[j]
  BY <1>1, <1>2, <1>4 DEF LfTypes
<1>6. LfTypes'
  BY <1>1, <1>2, <1>5 DEF LfTypes
<1>7. \A j \in Lfs!Logs : FileOk(files[j], lf'[j], born[j], sectors)
  BY <1>1, <1>4, <1>5
<1> QED
  BY <1>1, <1>2, <1>6, <1>7 DEF LfInv

\* Enough clusters.
LEMMA RoundedUp ==
  ASSUME NEW k \in Nat \ {0}, NEW z \in Nat \ {0}
  PROVE  (z + k - 1) \div k \in Nat \ {0} /\ ((z + k - 1) \div k) * k >= z
<1> DEFINE x == z + k - 1
           q == x \div k
           r == x % k
<1>1. x \in Nat
  OBVIOUS
<1>2. r \in 0 .. k - 1 /\ q \in Int /\ x = k * q + r
  <2> HIDE DEF x
  <2> QED
    BY <1>1, Division
<1> DEFINE m == k * q
<1>3. x = z + (k - 1)
  OBVIOUS
<1> HIDE DEF x, q, r
<1>4. m \in Int /\ m = q * k /\ (q <= -1 => m <= - k) /\ (q = 0 => m = 0)
  BY <1>2, MultipleIsLarge
<1>5. x = m + r
  BY <1>2
<1> HIDE DEF m
<1>6. m >= z /\ q \in Nat \ {0}
  BY <1>1, <1>2, <1>3, <1>4, <1>5
<1> QED
  BY <1>4, <1>6 DEF q, x

Need == (FILE_SIZE + CSIZE - 1) \div CSIZE

LEMMA NeedIsEnough ==
  CardSizes => Need \in Nat \ {0} /\ Need * CSIZE >= FILE_SIZE
  BY RoundedUp DEF Need, CardSizes

\* The clusters of a new file.
LEMMA NewChain ==
  ASSUME CardSizes, NEW n, n = Need,
         NEW f \in 0 .. (CLUSTERS - n), NEW c, c = [j \in 1 .. n |-> f + j - 1]
  PROVE  c \in Chain /\ Ready(c) /\ Lfs!Clusters(c) = f .. (f + n - 1)
<1>1. CLUSTERS \in Nat \ {0} /\ n \in Nat \ {0}
  BY NeedIsEnough DEF CardSizes
<1>3. n * CSIZE >= FILE_SIZE /\ n # 0
  BY NeedIsEnough
<1>4. c \in Seq(0 .. CLUSTERS - 1) /\ Len(c) = n
  BY <1>1
<1>5. Lfs!check_contiguous_file(c)
  <2>1. c # <<>>
    BY <1>3, <1>4
  <2>2. ASSUME NEW j \in 1 .. (Len(c) - 1)
        PROVE  c[j + 1] = c[j] + 1
    <3>1. j \in 1 .. n /\ j + 1 \in 1 .. n
      BY <1>1, <1>4
    <3> QED
      BY <3>1
  <2> QED
    BY <2>1, <2>2 DEF Lfs!check_contiguous_file
<1>6. Ready(c)
  BY <1>3, <1>4, <1>5 DEF Ready
<1>7. Lfs!Clusters(c) = f .. (f + n - 1)
  <2>1. DOMAIN c = 1 .. n
    OBVIOUS
  <2>2. ASSUME NEW k \in f .. (f + n - 1)
        PROVE  k \in Lfs!Clusters(c)
    <3>1. (k - f) + 1 \in 1 .. n /\ c[(k - f) + 1] = k
      BY <1>1
    <3> QED
      BY <2>1, <3>1 DEF Lfs!Clusters
  <2>3. ASSUME NEW j \in 1 .. n
        PROVE  c[j] \in f .. (f + n - 1)
    BY <1>1
  <2> QED
    BY <2>1, <2>2, <2>3 DEF Lfs!Clusters
<1> QED
  BY <1>4, <1>6, <1>7 DEF Chain

LEMMA CreateKeeps ==
  ASSUME CardSizes, LfInv, NEW i \in Lfs!Logs, Lfs!CreateFile(i)
  PROVE  LfInv'
<1> DEFINE taken == Lfs!Clusters(alien) \cup UNION {Lfs!Clusters(files[j]) : j \in Lfs!Logs \ {i}}
<1>1. /\ LfTypes /\ Disjoint(files, alien) /\ AlienKept(alien, sectors)
      /\ \A j \in Lfs!Logs : FileOk(files[j], lf[j], born[j], sectors)
  BY DEF LfInv
<1>2. UNCHANGED <<alien, sectors, magic, born>> /\ lf[i].pc = "create"
  BY DEF Lfs!CreateFile, Lfs!Turn
<1> DEFINE Made(c, p) ==
             /\ files' = [files EXCEPT ![i] = c]
             /\ Lfs!Clusters(c) \cap taken = {}
             /\ p = "clear" => Ready(c) /\ lf' = [lf EXCEPT ![i] = Lfs!Opened(i, c, "clear")]
             /\ p = "panic" => lf' = [lf EXCEPT ![i].pc = "panic"]
<1>4. PICK c \in Chain, p \in {"clear", "panic"} : Made(c, p)
  <2>1. CASE files' = [files EXCEPT ![i] = <<>>] /\ lf' = [lf EXCEPT ![i].pc = "panic"]
    <3>1. <<>> \in Chain /\ Lfs!Clusters(<<>>) = {}
      BY DEF Chain, Lfs!Clusters
    <3>2. Made(<<>>, "panic")
      BY <2>1, <3>1
    <3> HIDE DEF Made
    <3> QED
      BY <3>1, <3>2
  <2>2. ASSUME NEW f \in 0 .. (CLUSTERS - Need), f .. (f + Need - 1) \cap taken = {},
               files' = [files EXCEPT ![i] = [j \in 1 .. Need |-> f + j - 1]],
               lf' = [lf EXCEPT ![i] = Lfs!Opened(i, [j \in 1 .. Need |-> f + j - 1], "clear")]
        PROVE  \E c \in Chain : Made(c, "clear")
    <3> DEFINE c == [j \in 1 .. Need |-> f + j - 1]
    <3>1. c \in Chain /\ Ready(c) /\ Lfs!Clusters(c) = f .. (f + Need - 1)
      BY NewChain
    <3>2. files' = [files EXCEPT ![i] = c] /\ lf' = [lf EXCEPT ![i] = Lfs!Opened(i, c, "clear")]
      BY <2>2
    <3> HIDE DEF c, taken
    <3>3. Made(c, "clear")
      BY <2>2, <3>1, <3>2
    <3> HIDE DEF Made
    <3> QED
      BY <3>1, <3>3
  <2>3. \/ files' = [files EXCEPT ![i] = <<>>] /\ lf' = [lf EXCEPT ![i].pc = "panic"]
        \/ \E f \in 0 .. (CLUSTERS - Need) :
             /\ f .. (f + Need - 1) \cap taken = {}
             /\ files' = [files EXCEPT ![i] = [j \in 1 .. Need |-> f + j - 1]]
             /\ lf' = [lf EXCEPT ![i] = Lfs!Opened(i, [j \in 1 .. Need |-> f + j - 1], "clear")]
    BY Zenon DEF Lfs!CreateFile, Need
  <2> HIDE DEF Made, taken
  <2> QED
    BY <2>1, <2>2, <2>3
<1>5. files[i] \in Chain /\ lf[i] \in LfRam /\ born[i] = 0
  BY <1>1, <1>2 DEF LfTypes, FileOk
<1>6. files' \in [Lfs!Logs -> Chain] /\ files'[i] = c /\ \A j \in Lfs!Logs \ {i} : files'[j] = files[j]
  BY <1>1, <1>4 DEF LfTypes
<1>7. lf'[i] \in LfRam /\ FileOk(c, lf'[i], born[i], sectors)
  <2>1. CASE p = "clear"
    <3>1. lf'[i] = Lfs!Opened(i, c, "clear") /\ Ready(c)
      BY <1>1, <1>4, <2>1 DEF LfTypes
    <3>2. Len(c) * CSIZE \in Nat /\ c[1] * CSIZE \in Nat
      BY <3>1, ReadyChain
    <3>3. lf'[i] \in LfRam
      BY <3>1, <3>2 DEF Lfs!Opened, LfRam, Sector
    <3> QED
      BY <1>5, <3>1, <3>3 DEF FileOk, Lfs!Opened
  <2>2. CASE p = "panic"
    <3>1. lf'[i] = [lf[i] EXCEPT !.pc = "panic"]
      BY <1>1, <1>4, <2>2 DEF LfTypes
    <3>2. lf'[i] \in LfRam /\ lf'[i].pc = "panic"
      BY <1>5, <3>1 DEF LfRam
    <3> QED
      BY <1>5, <3>2 DEF FileOk
  <2> QED
    BY <1>4, <2>1, <2>2
<1>8. lf' \in [Lfs!Logs -> LfRam] /\ \A j \in Lfs!Logs \ {i} : lf'[j] = lf[j]
  <2>1. CASE p = "clear"
    BY <1>1, <1>4, <1>7, <2>1 DEF LfTypes
  <2>2. CASE p = "panic"
    BY <1>1, <1>4, <1>7, <2>2 DEF LfTypes
  <2> QED
    BY <1>4, <2>1, <2>2
<1>9. LfTypes'
  BY <1>1, <1>2, <1>6, <1>8 DEF LfTypes
<1>10. Disjoint(files', alien)
  <2>1. Lfs!Clusters(c) \cap Lfs!Clusters(alien) = {}
    BY <1>4
  <2>2. ASSUME NEW j \in Lfs!Logs \ {i}
        PROVE  Lfs!Clusters(c) \cap Lfs!Clusters(files[j]) = {}
    BY <1>4
  <2> HIDE DEF taken
  <2> QED
    BY <1>1, <1>6, <2>1, <2>2 DEF Disjoint
<1>11. \A j \in Lfs!Logs : FileOk(files'[j], lf'[j], born[j], sectors)
  BY <1>1, <1>6, <1>7, <1>8
<1> HIDE DEF taken
<1> QED
  BY <1>1, <1>2, <1>9, <1>10, <1>11 DEF LfInv

\* Writing the first sector of the file of log i.
LEMMA WriteFirst ==
  ASSUME CardSizes, LfInv, NEW i \in Lfs!Logs, lf[i].pc \in {"clear", "mount"}, NEW h \in Sector,
         sectors' = [sectors EXCEPT ![lf[i].off] = h]
  PROVE  /\ WritesInto(i, sectors, sectors') /\ sectors'[lf[i].off] = h
         /\ files[i] \in Chain /\ Ready(files[i]) /\ lf[i].off = files[i][1] * CSIZE
         /\ lf[i].size = Len(files[i]) * CSIZE /\ sectors[lf[i].off] \in Sector
<1>1. files \in [Lfs!Logs -> Chain] /\ sectors \in [Lfs!Sectors -> Sector]
  BY DEF LfInv, LfTypes
<1>2. Ready(files[i]) /\ lf[i].off = files[i][1] * CSIZE /\ lf[i].size = Len(files[i]) * CSIZE
  BY DEF LfInv, FileOk
<1>3. lf[i].off \in Lfs!SectorsOf(files[i]) /\ lf[i].off \in Lfs!Sectors
  BY <1>1, <1>2, ReadyChain
<1> QED
  BY <1>1, <1>2, <1>3 DEF WritesInto

LEMMA ClearKeeps ==
  ASSUME CardSizes, LfInv, NEW i \in Lfs!Logs, Lfs!ClearHeader(i)
  PROVE  LfInv'
<1>1. /\ LfTypes /\ Disjoint(files, alien)
      /\ \A j \in Lfs!Logs : FileOk(files[j], lf[j], born[j], sectors)
  BY DEF LfInv
<1>2. /\ UNCHANGED <<files, alien, magic, born>> /\ lf[i].pc = "clear"
      /\ sectors' = [sectors EXCEPT ![lf[i].off] = Lfs!Blank]
      /\ lf' = [lf EXCEPT ![i].pc = "mount"]
  BY DEF Lfs!ClearHeader, Lfs!Turn
<1>3. Lfs!Blank \in Sector
  BY DEF Sector
<1>4. WritesInto(i, sectors, sectors')
  BY <1>2, <1>3, WriteFirst
<1>5. /\ AlienKept(alien, sectors')
      /\ \A j \in Lfs!Logs \ {i} : FileOk(files[j], lf[j], born[j], sectors')
  BY <1>4, WriteKeepsOthers
<1>6. lf[i] \in LfRam /\ lf'[i] = [lf[i] EXCEPT !.pc = "mount"]
  BY <1>1, <1>2 DEF LfTypes
<1>7. lf'[i] \in LfRam /\ lf'[i].pc = "mount" /\ lf'[i].size = lf[i].size /\ lf'[i].off = lf[i].off
  BY <1>6 DEF LfRam
<1>8. lf' \in [Lfs!Logs -> LfRam] /\ \A j \in Lfs!Logs \ {i} : lf'[j] = lf[j]
  BY <1>1, <1>2, <1>7 DEF LfTypes
<1>9. FileOk(files[i], lf'[i], born[i], sectors')
  <2>1. FileOk(files[i], lf[i], born[i], sectors)
    BY <1>1
  <2> QED
    BY <1>2, <1>7, <2>1 DEF FileOk
<1>10. LfTypes'
  BY <1>1, <1>2, <1>4, <1>8 DEF LfTypes, WritesInto
<1> QED
  BY <1>1, <1>2, <1>5, <1>8, <1>9, <1>10 DEF LfInv

LEMMA ValidIsHeader ==
  ASSUME NEW z, NEW h \in Sector, Lfs!validate_header(z, h)
  PROVE  h \in Header /\ h.magic \in Nat
<1>1. h.kind = "header"
  BY DEF Lfs!validate_header
<1>2. h \in Header
  BY <1>1 DEF Sector, BlockMark, Lfs!Blank, Lfs!Data
<1> QED
  BY <1>2 DEF Header

\* The header that mount_log writes is valid.
LEMMA NewHeaderValid ==
  ASSUME CardSizes, LfInv, NEW i \in Lfs!Logs, lf[i].size \in Nat
  PROVE  Lfs!NewHeader(i) \in Sector /\ Lfs!validate_header(lf[i].size, Lfs!NewHeader(i))
<1> DEFINE b == 2^Shift[i]
           z == lf[i].size
           n == z \div b
<1>1. b \in Lfs!Powers /\ b <= MAXSPB /\ magic \in Nat
  BY DEF CardSizes, LfInv, LfTypes
<1>2. b \in Nat \ {0}
  BY <1>1, PowersArePositive
<1>3. Lfs!NewHeader(i) = [kind |-> "header", version |-> 5, spb |-> b, num |-> n, magic |-> magic + 1]
  BY DEF Lfs!NewHeader
<1> HIDE DEF b, z
<1>4. n \in Int /\ z % b \in 0 .. b - 1 /\ z = b * n + (z % b) /\ z \in Nat
  <2>1. z \in Nat
    BY DEF z
  <2> QED
    BY <1>2, <2>1, Division
<1> HIDE DEF n
<1>5. n \in Nat /\ b * n <= z
  <2>1. b * n \in Int /\ (n <= -1 => b * n <= - b)
    BY <1>2, <1>4, MultipleIsLarge
  <2> DEFINE m == b * n
             r == z % b
  <2>2. m \in Int /\ r \in 0 .. b - 1 /\ z = m + r /\ (n <= -1 => m <= - b)
    BY <1>4, <2>1
  <2> HIDE DEF m, r
  <2>3. n \in Nat /\ m <= z
    BY <1>2, <1>4, <2>2
  <2> QED
    BY <2>3 DEF m
<1> DEFINE h == [kind |-> "header", version |-> 5, spb |-> b, num |-> n, magic |-> magic + 1]
<1>6. h \in Header /\ h.kind = "header" /\ h.version = 5 /\ h.spb = b /\ h.num = n
  BY <1>1, <1>2, <1>5 DEF Header
<1> HIDE DEF h
<1>7. h \in Sector /\ Lfs!validate_header(z, h)
  BY <1>1, <1>5, <1>6 DEF Sector, Lfs!validate_header
<1> QED
  BY <1>3, <1>7 DEF h, z

LEMMA MountKeeps ==
  ASSUME CardSizes, LfInv, NEW i \in Lfs!Logs, Lfs!Mount(i)
  PROVE  LfInv'
<1> DEFINE old == sectors[lf[i].off]
           ok == Lfs!validate_header(lf[i].size, old)
           hd == IF ok THEN old ELSE Lfs!NewHeader(i)
<1>1. /\ LfTypes /\ Disjoint(files, alien)
      /\ \A j \in Lfs!Logs : FileOk(files[j], lf[j], born[j], sectors)
  BY DEF LfInv
<1>2. /\ UNCHANGED <<files, alien>> /\ lf[i].pc = "mount"
      /\ sectors' = [sectors EXCEPT ![lf[i].off] = hd]
      /\ magic' = (IF ok THEN magic ELSE magic + 1)
      /\ lf' = [lf EXCEPT ![i] = IF Lfs!validate_header(lf[i].size, hd)
                                 THEN [lf[i] EXCEPT !.pc = "mounted", !.hd = hd]
                                 ELSE [lf[i] EXCEPT !.pc = "panic"]]
      /\ born' = [born EXCEPT ![i] = IF born[i] = 0 THEN hd.magic ELSE born[i]]
  BY DEF Lfs!Mount
<1>3. lf[i] \in LfRam /\ files[i] \in Chain /\ FileOk(files[i], lf[i], born[i], sectors) /\ lf[i].size \in Nat
       /\ lf[i].off \in Lfs!Sectors /\ sectors \in [Lfs!Sectors -> Sector] /\ born[i] \in Nat
  <2>1. lf[i] \in LfRam /\ files[i] \in Chain /\ FileOk(files[i], lf[i], born[i], sectors)
         /\ sectors \in [Lfs!Sectors -> Sector] /\ born[i] \in Nat
    BY <1>1 DEF LfTypes
  <2>2. lf[i].size \in Nat
    BY <2>1 DEF LfRam
  <2>3. Ready(files[i]) /\ lf[i].off = files[i][1] * CSIZE
    BY <1>2, <2>1 DEF FileOk
  <2>4. lf[i].off \in Lfs!Sectors
    BY <2>1, <2>3, ReadyChain
  <2> QED
    BY <2>1, <2>2, <2>4
<1>4. hd \in Sector /\ Lfs!validate_header(lf[i].size, hd)
  BY <1>3, NewHeaderValid
<1>5. born[i] # 0 => ok /\ old.magic = born[i]
  BY <1>2, <1>3 DEF FileOk
<1>6. hd.magic \in Nat /\ (born[i] # 0 => hd.magic = born[i]) /\ magic' \in Nat
  <2>1. hd.magic \in Nat
    BY <1>4, ValidIsHeader
  <2>2. magic' \in Nat
    BY <1>1, <1>2 DEF LfTypes
  <2> QED
    BY <1>5, <2>1, <2>2
<1> HIDE DEF hd, ok, old
<1>7. /\ WritesInto(i, sectors, sectors') /\ sectors'[lf[i].off] = hd
      /\ Ready(files[i]) /\ lf[i].off = files[i][1] * CSIZE /\ lf[i].size = Len(files[i]) * CSIZE
  BY <1>2, <1>4, WriteFirst
<1>8. /\ AlienKept(alien, sectors')
      /\ \A j \in Lfs!Logs \ {i} : FileOk(files[j], lf[j], born[j], sectors')
  BY <1>7, WriteKeepsOthers
<1>9. lf'[i] = [lf[i] EXCEPT !.pc = "mounted", !.hd = hd]
  BY <1>1, <1>2, <1>4 DEF LfTypes
<1>10. /\ lf'[i] \in LfRam /\ lf'[i].pc = "mounted" /\ lf'[i].hd = hd
       /\ lf'[i].size = lf[i].size /\ lf'[i].off = lf[i].off
  BY <1>3, <1>4, <1>9 DEF LfRam
<1>11. lf' \in [Lfs!Logs -> LfRam] /\ \A j \in Lfs!Logs \ {i} : lf'[j] = lf[j]
  BY <1>1, <1>2, <1>9, <1>10 DEF LfTypes
<1>12. born' \in [Lfs!Logs -> Nat] /\ born'[i] = hd.magic /\ \A j \in Lfs!Logs \ {i} : born'[j] = born[j]
  BY <1>1, <1>2, <1>6 DEF LfTypes
<1>13. FileOk(files[i], lf'[i], born'[i], sectors')
  BY <1>4, <1>7, <1>10, <1>12 DEF FileOk
<1>14. LfTypes'
  BY <1>1, <1>2, <1>6, <1>7, <1>11, <1>12 DEF LfTypes, WritesInto
<1> QED
  BY <1>1, <1>2, <1>8, <1>11, <1>12, <1>13, <1>14 DEF LfInv

LEMMA WriteKeeps ==
  ASSUME CardSizes, LfInv, NEW i \in Lfs!Logs, Lfs!WriteBlock(i)
  PROVE  LfInv'
<1>1. /\ LfTypes /\ Disjoint(files, alien)
      /\ \A j \in Lfs!Logs : FileOk(files[j], lf[j], born[j], sectors)
  BY DEF LfInv
<1>2. UNCHANGED <<files, alien, lf, magic, born>> /\ lf[i].pc = "mounted"
  BY DEF Lfs!WriteBlock
<1> DEFINE m == [kind |-> "block", magic |-> lf[i].hd.magic]
<1>3. PICK x \in 0 .. (lf[i].hd.num - 2) :
        sectors' = [s \in Lfs!Sectors |-> IF s \in Lfs!Place(i, x) THEN m ELSE sectors[s]]
  BY DEF Lfs!WriteBlock
<1>4. /\ files[i] \in Chain /\ lf[i].hd \in Sector /\ Ready(files[i]) /\ lf[i].off = files[i][1] * CSIZE
      /\ Lfs!validate_header(Len(files[i]) * CSIZE, lf[i].hd)
      /\ sectors \in [Lfs!Sectors -> Sector] /\ FileOk(files[i], lf[i], born[i], sectors)
  <2>1. files[i] \in Chain /\ lf[i] \in LfRam /\ sectors \in [Lfs!Sectors -> Sector]
         /\ FileOk(files[i], lf[i], born[i], sectors)
    BY <1>1 DEF LfTypes
  <2>2. lf[i].hd \in Sector
    BY <2>1 DEF LfRam
  <2> QED
    BY <1>2, <2>1, <2>2 DEF FileOk
<1>5. m \in Sector
  <2>1. lf[i].hd.magic \in Nat
    BY <1>4, ValidIsHeader
  <2> QED
    BY <2>1 DEF Sector, BlockMark
<1>6. \A s \in Lfs!Place(i, x) : s \in Lfs!SectorsOf(files[i]) /\ s # files[i][1] * CSIZE
  BY <1>4, PlaceInFile DEF Lfs!Place
<1> HIDE DEF m
<1>7. WritesInto(i, sectors, sectors')
  BY <1>3, <1>4, <1>5, <1>6 DEF WritesInto
<1>8. /\ AlienKept(alien, sectors')
      /\ \A j \in Lfs!Logs \ {i} : FileOk(files[j], lf[j], born[j], sectors')
  BY <1>7, WriteKeepsOthers
<1>9. FileOk(files[i], lf[i], born[i], sectors')
  <2>1. sectors'[files[i][1] * CSIZE] = sectors[files[i][1] * CSIZE]
    <3>1. files[i][1] * CSIZE \in Lfs!Sectors
      BY <1>4, ReadyChain
    <3> QED
      BY <1>3, <1>6, <3>1
  <2> QED
    BY <1>4, <2>1 DEF FileOk
<1>10. LfTypes'
  BY <1>1, <1>2, <1>7 DEF LfTypes, WritesInto
<1> QED
  BY <1>1, <1>2, <1>8, <1>9, <1>10 DEF LfInv

LEMMA CrashKeeps ==
  ASSUME LfInv, Lfs!Crash
  PROVE  LfInv'
<1>1. /\ LfTypes /\ Disjoint(files, alien) /\ AlienKept(alien, sectors)
      /\ \A j \in Lfs!Logs : FileOk(files[j], lf[j], born[j], sectors)
  BY DEF LfInv
<1>2. UNCHANGED <<files, alien, sectors, magic, born>> /\ lf' = [i \in Lfs!Logs |-> Lfs!Closed]
  BY DEF Lfs!Crash
<1>3. Lfs!Closed \in LfRam /\ Lfs!Closed.pc = "open"
  BY DEF Lfs!Closed, LfRam, Sector
<1>4. LfTypes'
  BY <1>1, <1>2, <1>3 DEF LfTypes
<1>5. ASSUME NEW j \in Lfs!Logs
      PROVE  FileOk(files[j], lf'[j], born[j], sectors)
  <2>1. lf'[j].pc = "open" /\ FileOk(files[j], lf[j], born[j], sectors)
    BY <1>1, <1>2, <1>3
  <2> QED
    BY <2>1 DEF FileOk
<1> QED
  BY <1>1, <1>2, <1>4, <1>5 DEF LfInv

LEMMA LfNextInv ==
  ASSUME CardSizes, LfInv, [Lfs!Next]_(Lfs!vars)
  PROVE  LfInv'
<1>1. ASSUME NEW i \in Lfs!Logs,
             Lfs!OpenFile(i) \/ Lfs!CreateFile(i) \/ Lfs!ClearHeader(i) \/ Lfs!Mount(i) \/ Lfs!WriteBlock(i)
      PROVE  LfInv'
  BY <1>1, OpenKeeps, CreateKeeps, ClearKeeps, MountKeeps, WriteKeeps
<1>2. CASE Lfs!Crash
  BY <1>2, CrashKeeps
<1>3. CASE UNCHANGED Lfs!vars
  <2>1. UNCHANGED <<files, alien, sectors, lf, magic, born>>
    BY <1>3 DEF Lfs!vars
  <2> QED
    BY <2>1 DEF LfInv, LfTypes
<1> QED
  BY <1>1, <1>2, <1>3 DEF Lfs!Next

\* Log files (mount_log): whatever is on the card and whenever power fails, blocks are
\* written inside the clusters of their log, no sector of another file changes, and a
\* log that was mounted once is mounted again as the same.
THEOREM LogFilesStayApart ==
  CardSizes => (Lfs!Spec => [](Lfs!FilesApart /\ Lfs!LogsFound))
<1> SUFFICES ASSUME CardSizes
             PROVE  Lfs!Spec => [](Lfs!FilesApart /\ Lfs!LogsFound)
  OBVIOUS
<1>1. Lfs!Init => LfInv
  BY LfInitInv
<1>2. LfInv /\ [Lfs!Next]_(Lfs!vars) => LfInv'
  BY LfNextInv
<1>3. LfInv => Lfs!FilesApart /\ Lfs!LogsFound
  <2> SUFFICES ASSUME LfInv
               PROVE  Lfs!FilesApart /\ Lfs!LogsFound
    OBVIOUS
  <2>1. ASSUME NEW i \in Lfs!Logs, lf[i].pc = "mounted"
        PROVE  /\ files[i] \in Chain /\ lf[i].hd \in Sector /\ Ready(files[i])
               /\ lf[i].off = files[i][1] * CSIZE
               /\ Lfs!validate_header(Len(files[i]) * CSIZE, lf[i].hd) /\ lf[i].hd.magic = born[i]
    <3>1. files[i] \in Chain /\ lf[i] \in LfRam /\ FileOk(files[i], lf[i], born[i], sectors)
      BY DEF LfInv, LfTypes
    <3>2. lf[i].hd \in Sector
      BY <3>1 DEF LfRam
    <3> QED
      BY <2>1, <3>1, <3>2 DEF FileOk
  <2>2. ASSUME NEW i \in Lfs!Logs, lf[i].pc = "mounted", NEW x \in 0 .. (lf[i].hd.num - 2)
        PROVE  Lfs!Place(i, x) \subseteq Lfs!SectorsOf(files[i])
    BY <2>1, <2>2, PlaceInFile DEF Lfs!Place
  <2>3. \A s \in Lfs!SectorsOf(alien) : sectors[s] = Lfs!Data
    BY DEF LfInv, AlienKept
  <2> QED
    BY <2>1, <2>2, <2>3 DEF Lfs!FilesApart, Lfs!LogsFound
<1> QED
  BY <1>1, <1>2, <1>3, PTL DEF Lfs!Spec
=============================================================================
