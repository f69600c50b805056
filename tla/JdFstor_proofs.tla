-------------------------- MODULE JdFstor_proofs --------------------------
(***************************************************************************)
(* What jd_fstor.c promises, proved for every set of keys, values and      *)
(* sizes: as long as power does not fail between a value and its entry,    *)
(* the settings survive compactions and power failures, and the log, the   *)
(* small values and the large ones stay apart.  The second part is about   *)
(* the service that sets and gets them over the bus (JdSettings).          *)
(***************************************************************************)
EXTENDS JdFstor, SequenceFacts, TLAPS


(* The inductive invariant. *)

\* The entries of a log that count: the last one of every key.
Live(log) == {log[i] : i \in {i \in DOMAIN log : ~ has_later_copy(log, i)}}

\* An entry the store may hold.
Kept == {e \in Entry :
           /\ e.key \in Keys => e.val \in Values
           /\ e.key \in LargeKeys => e.n # 0 /\ e.off + e.n <= DataPages}

Half == [gen : 0 .. MaxGen, log : Seq(Kept), junk : BOOLEAN]

\* The half a mount chooses; while there is none, no header was ever written.
IsNewest(h) == half[h].gen > half[1 - h].gen

Fits(log, e) == free_space(log) >= SpaceOf(e)

\* The pages of two current large values are different ones.
Apart(L) == \A e, f \in L : is_large(e) /\ is_large(f) /\ e.key # f.key => PagesOf(e) \cap PagesOf(f) = {}

\* The pages of e are not pages of a current large value of another key.
OpApart(L, e) == \A f \in L : is_large(f) /\ f.key # e.key => PagesOf(e) \cap PagesOf(f) = {}

\* The pages of the current large values are marked, but maybe those of one key.
MarkedBut(L, k, m) == \A e \in L : is_large(e) /\ e.key # k => PagesOf(e) \subseteq m

Intact(L, done, c) == \A k \in done : \E e \in L : e.key = k /\ \A p \in PagesOf(e) : c[p] = k

Busy == pc \notin {"idle", "fmt_header"}

TypeInv ==
  /\ half \in [{0, 1} -> Half]
  /\ content \in [0 .. DataPages - 1 -> LargeKeys \cup {None}]
  /\ settings \in {0, 1, None} /\ used \in SUBSET (0 .. DataPages - 1)
  /\ pc \in {"idle", "fmt_header", "data", "entry", "gc_erase", "gc_copy", "gc_header",
             "erase_pages", "large_entry", "write_large"}
  /\ panic \in BOOLEAN /\ refused \in BOOLEAN
  /\ committed \in [Keys -> Values \cup {None}] /\ complete \in SUBSET LargeKeys
  /\ Busy => op \in Kept
  /\ ~ Busy => op = NoOp

FlashInv ==
  /\ settings # None => IsNewest(settings)
  /\ \A h \in {0, 1} : half[h].junk => pc = "entry" /\ settings = h
  /\ \A h \in {0, 1} : half[h].gen # 0 => Used(half[h].log) + EntrySize <= HalfSpace
  /\ half[0].gen = half[1].gen =>
        half[0] = Erased /\ half[1] = Erased /\ committed = [k \in Keys |-> None] /\ complete = {}

StepInv ==
  /\ pc = "fmt_header" => settings = None /\ half[0].gen = half[1].gen
  /\ Busy => settings # None
  /\ pc \in {"gc_copy", "gc_header"} => cur.gen < MaxGen /\ half[alt].gen = 0
  /\ pc = "gc_header" => half[alt].log = Compact(cur.log)
  /\ pc \in {"data", "entry", "erase_pages", "large_entry"} => Fits(cur.log, op)
  /\ pc \in {"data", "entry"} => ~ is_large(op)
  /\ pc \in {"erase_pages", "large_entry", "write_large"} => is_large(op)

ValueInv == \A h \in {0, 1} : IsNewest(h) => \A k \in Keys : Stored(half[h].log, k) = committed[k]

LargeInv ==
  /\ \A h \in {0, 1} : IsNewest(h) =>
        Apart(Live(half[h].log)) /\ Intact(Live(half[h].log), complete, content)
  /\ settings # None => MarkedBut(Live(cur.log), op.key, used)
  /\ Busy /\ is_large(op) => OpApart(Live(cur.log), op)
  /\ pc \in {"large_entry", "write_large"} => op.key \notin complete
  /\ pc = "write_large" => PagesOf(op) \subseteq used /\ op \in Live(cur.log)

Inv == TypeInv /\ FlashInv /\ StepInv /\ ValueInv /\ LargeInv

------------------------------------------------------------------------------
(* Constants and entries. *)

\* What is assumed of the constants, in the form the provers need.
LEMMA Constants ==
  /\ Keys \cap LargeKeys = {} /\ None \notin Values /\ None \notin LargeKeys
  /\ None # 0 /\ None # 1
  /\ Size \in [Values -> Nat \ {0}]
  /\ HalfSpace \in Nat /\ DataPages \in Nat /\ MaxGen \in Nat \ {0} /\ MaxCrashes \in Nat
  /\ HalfSpace >= 6 /\ EntrySize = 3
  /\ LargePages \subseteq Nat \ {0}
  /\ TornWrites \in BOOLEAN
  BY ConstantsAssumption DEF EntrySize

\* An entry the store may hold: its key, its space and its pages.
LEMMA KeptEntry ==
  ASSUME NEW e \in Kept
  PROVE  /\ e \in Entry
         /\ e.key \in Keys \cup LargeKeys
         /\ is_large(e) <=> e.key \notin Keys
         /\ is_large(e) <=> e.key \in LargeKeys
         /\ SpaceOf(e) \in Nat /\ SpaceOf(e) >= EntrySize
         /\ ~ is_large(e) => e.val \in Values
         /\ is_large(e) => PagesOf(e) \subseteq 0 .. DataPages - 1 /\ PagesOf(e) # {}
<1>1. e \in Entry /\ e.key \in Keys \cup LargeKeys /\ e.off \in Nat /\ e.n \in Nat
  BY DEF Kept, Entry
<1>2. /\ is_large(e) <=> e.key \notin Keys
      /\ is_large(e) <=> e.key \in LargeKeys
  BY <1>1, Constants DEF is_large
<1>3. ~ is_large(e) => e.val \in Values
  BY <1>2 DEF Kept
<1>4. SpaceOf(e) \in Nat /\ SpaceOf(e) >= EntrySize
  <2>1. CASE is_large(e)
    BY <2>1, Constants DEF SpaceOf
  <2>2. CASE ~ is_large(e)
    <3>1. Size[e.val] \in Nat
      BY <1>3, <2>2, Constants
    <3> QED
      BY <2>2, <3>1, Constants DEF SpaceOf
  <2> QED
    BY <2>1, <2>2
<1>5. ASSUME is_large(e)
      PROVE  PagesOf(e) \subseteq 0 .. DataPages - 1 /\ PagesOf(e) # {}
  <2>1. e.n # 0 /\ e.off + e.n <= DataPages
    BY <1>2, <1>5 DEF Kept
  <2>2. e.off \in PagesOf(e)
    BY <1>1, <2>1 DEF PagesOf
  <2>3. PagesOf(e) \subseteq 0 .. DataPages - 1
    BY <1>1, <2>1, Constants DEF PagesOf
  <2> QED
    BY <2>2, <2>3
<1> QED
  BY <1>1, <1>2, <1>3, <1>4, <1>5

\* A log of such entries is one of entries.
LEMMA KeptLog ==
  ASSUME NEW log \in Seq(Kept)
  PROVE  /\ log \in Seq(Entry)
         /\ Len(log) \in Nat /\ DOMAIN log = 1 .. Len(log)
         /\ \A i \in 1 .. Len(log) : log[i] \in Kept
<1>1. Kept \subseteq Entry
  BY DEF Kept
<1> QED
  BY <1>1

------------------------------------------------------------------------------
(* find_entry and the entries that count. *)

\* find_entry finds the last entry with the key.
LEMMA FindEntry ==
  ASSUME NEW log \in Seq(Kept), NEW k
  PROVE  /\ find_entry(log, k) \in 0 .. Len(log)
         /\ find_entry(log, k) = 0 => \A i \in 1 .. Len(log) : log[i].key # k
         /\ find_entry(log, k) # 0 =>
               /\ log[find_entry(log, k)].key = k
               /\ \A j \in find_entry(log, k) + 1 .. Len(log) : log[j].key # k
<1> DEFINE I == {i \in 1 .. Len(log) : log[i].key = k}
<1>1. find_entry(log, k) = IF I # {} THEN Max(I) ELSE 0
  BY DEF find_entry, SelectLastInSeq
<1>2. CASE I = {}
  BY <1>1, <1>2
<1>3. CASE I # {}
  <2>1. Len(log) \in Nat /\ I \in SUBSET (0 .. Len(log))
    BY KeptLog
  <2>2. \E m \in I : \A j \in I : j <= m
    <3> HIDE DEF I
    <3> QED
      BY <1>3, <2>1, GreatestNatural
  <2>3. Max(I) \in I /\ \A j \in I : Max(I) >= j
    <3>1. \E m \in I : \A j \in I : m >= j
      <4>1. \A m, j \in I : j <= m => m >= j
        OBVIOUS
      <4> HIDE DEF I
      <4> QED
        BY <2>2, <4>1
    <3> HIDE DEF I
    <3> QED
      BY <3>1 DEF Max
  <2> DEFINE m == find_entry(log, k)
  <2>4. m \in I /\ \A j \in I : m >= j
    BY <1>1, <1>3, <2>3
  <2> HIDE DEF m
  <2>5. m \in 1 .. Len(log) /\ log[m].key = k
    BY <2>4
  <2>6. ASSUME NEW j \in m + 1 .. Len(log), log[j].key = k
        PROVE  FALSE
    <3>1. j \in I
      BY <2>1, <2>5, <2>6
    <3>2. m >= j
      BY <2>4, <3>1
    <3> QED
      BY <2>5, <3>2
  <2> QED
    BY <2>1, <2>5, <2>6 DEF m
<1> QED
  BY <1>2, <1>3

\* The entries that count are entries of the log, and one for each key.
LEMMA LiveEntries ==
  ASSUME NEW log \in Seq(Kept)
  PROVE  /\ Live(log) \subseteq Kept
         /\ \A e, f \in Live(log) : e.key = f.key => e = f
<1>1. Len(log) \in Nat /\ DOMAIN log = 1 .. Len(log) /\ \A i \in 1 .. Len(log) : log[i] \in Kept
  BY KeptLog
<1>2. Live(log) \subseteq Kept
  BY <1>1 DEF Live
<1>3. ASSUME NEW e \in Live(log), NEW f \in Live(log), e.key = f.key
      PROVE  e = f
  <2>1. PICK i \in 1 .. Len(log) : e = log[i] /\ ~ has_later_copy(log, i)
    BY <1>1 DEF Live
  <2>2. PICK j \in 1 .. Len(log) : f = log[j] /\ ~ has_later_copy(log, j)
    BY <1>1 DEF Live
  <2>3. ~ (i < j) /\ ~ (j < i)
    BY <1>1, <1>3, <2>1, <2>2 DEF has_later_copy
  <2>4. i = j
    BY <2>3
  <2> QED
    BY <2>1, <2>2, <2>4
<1> QED
  BY <1>2, <1>3

\* find_entry finds the entry of the key that counts.
LEMMA FindLive ==
  ASSUME NEW log \in Seq(Kept), NEW k
  PROVE  /\ find_entry(log, k) = 0 => \A e \in Live(log) : e.key # k
         /\ find_entry(log, k) # 0 =>
               log[find_entry(log, k)] \in Live(log) /\ log[find_entry(log, k)].key = k
<1> DEFINE m == find_entry(log, k)
<1>1. /\ m \in 0 .. Len(log)
      /\ m = 0 => \A i \in 1 .. Len(log) : log[i].key # k
      /\ m # 0 => log[m].key = k /\ \A j \in m + 1 .. Len(log) : log[j].key # k
  BY FindEntry
<1> HIDE DEF m
<1>2. Len(log) \in Nat /\ DOMAIN log = 1 .. Len(log)
  BY KeptLog
<1>3. ASSUME m = 0, NEW e \in Live(log)
      PROVE  e.key # k
  BY <1>1, <1>2, <1>3 DEF Live
<1>4. ASSUME m # 0
      PROVE  log[m] \in Live(log) /\ log[m].key = k
  <2>1. m \in 1 .. Len(log)
    BY <1>1, <1>2, <1>4
  <2>2. ~ has_later_copy(log, m)
    BY <1>1, <1>4 DEF has_later_copy
  <2> QED
    BY <1>1, <1>2, <1>4, <2>1, <2>2 DEF Live
<1> QED
  BY <1>3, <1>4 DEF m

\* What is stored under a key is in the entry that counts.
LEMMA StoredLive ==
  ASSUME NEW log \in Seq(Kept), NEW k
  PROVE  /\ \A e \in Live(log) : e.key = k => Stored(log, k) = e.val /\ LargeAt(log, k) = PagesOf(e)
         /\ (\A e \in Live(log) : e.key # k) => Stored(log, k) = None /\ LargeAt(log, k) = {}
<1> DEFINE m == find_entry(log, k)
<1>1. /\ m = 0 => \A e \in Live(log) : e.key # k
      /\ m # 0 => log[m] \in Live(log) /\ log[m].key = k
  BY FindLive
<1>2. \A e, f \in Live(log) : e.key = f.key => e = f
  BY LiveEntries
<1>3. /\ Stored(log, k) = IF m = 0 THEN None ELSE log[m].val
      /\ LargeAt(log, k) = IF m = 0 THEN {} ELSE PagesOf(log[m])
  BY DEF Stored, LargeAt
<1> HIDE DEF m
<1> QED
  BY <1>1, <1>2, <1>3

\* The pages recompute_cache marks.
LEMMA PagesLive ==
  ASSUME NEW log \in Seq(Kept)
  PROVE  /\ \A e \in Live(log) : is_large(e) => PagesOf(e) \subseteq LargePagesIn(log)
         /\ \A p \in LargePagesIn(log) : \E e \in Live(log) : is_large(e) /\ p \in PagesOf(e)
         /\ LargePagesIn(log) \subseteq 0 .. DataPages - 1
<1>1. \A e \in Live(log) : is_large(e) => PagesOf(e) \subseteq LargePagesIn(log)
  BY DEF Live, LargePagesIn
<1>2. \A p \in LargePagesIn(log) : \E e \in Live(log) : is_large(e) /\ p \in PagesOf(e)
  BY DEF Live, LargePagesIn
<1>3. \A e \in Live(log) : is_large(e) => PagesOf(e) \subseteq 0 .. DataPages - 1
  BY LiveEntries, KeptEntry
<1> QED
  BY <1>1, <1>2, <1>3

\* In an empty log no entry counts.
LEMMA LiveEmpty == Live(<<>>) = {}
  BY DEF Live

\* A new entry takes the place of the one with its key.
LEMMA LiveAppend ==
  ASSUME NEW log \in Seq(Kept), NEW e \in Kept
  PROVE  /\ Append(log, e) \in Seq(Kept)
         /\ Live(Append(log, e)) = {e} \cup {f \in Live(log) : f.key # e.key}
<1> DEFINE t == Append(log, e)
           n == Len(log)
<1>1. /\ t \in Seq(Kept) /\ n \in Nat /\ Len(t) = n + 1 /\ DOMAIN t = 1 .. n + 1
      /\ DOMAIN log = 1 .. n
      /\ \A i \in 1 .. n : t[i] = log[i]
      /\ t[n + 1] = e
  BY AppendProperties, KeptLog
<1> HIDE DEF t, n
<1>2. ~ has_later_copy(t, n + 1)
  BY <1>1 DEF has_later_copy
<1>3. ASSUME NEW i \in 1 .. n
      PROVE  has_later_copy(t, i) <=> has_later_copy(log, i) \/ log[i].key = e.key
  <2>1. Len(log) = n
    BY DEF n
  <2>2. ASSUME has_later_copy(t, i)
        PROVE  has_later_copy(log, i) \/ log[i].key = e.key
    <3>1. PICK j \in i + 1 .. n + 1 : t[j].key = t[i].key
      BY <1>1, <2>2 DEF has_later_copy
    <3>2. j = n + 1 \/ j \in i + 1 .. n
      BY <1>1, <3>1
    <3>3. j \in i + 1 .. n => j \in 1 .. n
      BY <1>1
    <3> QED
      BY <1>1, <2>1, <3>1, <3>2, <3>3 DEF has_later_copy
  <2>3. ASSUME has_later_copy(log, i)
        PROVE  has_later_copy(t, i)
    <3>1. PICK j \in i + 1 .. n : log[j].key = log[i].key
      BY <2>1, <2>3 DEF has_later_copy
    <3>2. j \in i + 1 .. n + 1 /\ j \in 1 .. n
      BY <1>1, <3>1
    <3> QED
      BY <1>1, <3>1, <3>2 DEF has_later_copy
  <2>4. ASSUME log[i].key = e.key
        PROVE  has_later_copy(t, i)
    <3>1. n + 1 \in i + 1 .. n + 1
      BY <1>1
    <3> QED
      BY <1>1, <2>4, <3>1 DEF has_later_copy
  <2> QED
    BY <2>2, <2>3, <2>4
<1>4. \A i \in 1 .. n + 1 : i = n + 1 \/ i \in 1 .. n
  BY <1>1
<1>5. n + 1 \in 1 .. n + 1 /\ \A i \in 1 .. n : i \in 1 .. n + 1
  BY <1>1
<1>6. ASSUME NEW f \in Live(t)
      PROVE  f \in {e} \cup {x \in Live(log) : x.key # e.key}
  <2>1. PICK i \in 1 .. n + 1 : f = t[i] /\ ~ has_later_copy(t, i)
    BY <1>1 DEF Live
  <2> QED
    BY <1>1, <1>3, <1>4, <2>1 DEF Live
<1>7. e \in Live(t)
  BY <1>1, <1>2, <1>5 DEF Live
<1>8. ASSUME NEW f \in Live(log), f.key # e.key
      PROVE  f \in Live(t)
  <2>1. PICK i \in 1 .. n : f = log[i] /\ ~ has_later_copy(log, i)
    BY <1>1 DEF Live
  <2>2. ~ has_later_copy(t, i)
    BY <1>3, <1>8, <2>1
  <2> QED
    BY <1>1, <1>5, <2>1, <2>2 DEF Live
<1>9. Live(t) = {e} \cup {f \in Live(log) : f.key # e.key}
  BY <1>6, <1>7, <1>8
<1> QED
  BY <1>1, <1>9 DEF t

------------------------------------------------------------------------------
(* The space of a log. *)

\* f[n] is the space of the first n entries of the log.
Sums(f, log, n) == f[0] = 0 /\ \A i \in 1 .. n : f[i] = f[i - 1] + SpaceOf(log[i])

\* Used is the sum over all of them.
LEMMA UsedIs ==
  ASSUME NEW log \in Seq(Kept)
  PROVE  \E f : Sums(f, log, Len(log)) /\ Used(log) = f[Len(log)]
<1> DEFINE n == Len(log)
           R(g) == g = [i \in 0 .. n |-> IF i = 0 THEN 0 ELSE g[i - 1] + SpaceOf(log[i])]
           f == CHOOSE g : R(g)
<1>1. n \in Nat /\ \A i \in 1 .. n : SpaceOf(log[i]) \in Nat
  BY KeptLog, KeptEntry
<1>2. \E g : R(g)
  <2> DEFINE step == [i \in 1 .. n |-> [x \in Nat |-> x + SpaceOf(log[i])]]
  <2>1. step \in [1 .. n -> [Nat -> Nat]]
    BY <1>1
  <2>2. \A i \in 1 .. n : \A x \in Nat : step[i][x] = x + SpaceOf(log[i])
    OBVIOUS
  <2> HIDE DEF step, n
  <2>3. PICK g \in [0 .. n -> Nat] : Recurs(g, 0, step, n)
    BY <1>1, <2>1, Recursion
  <2>4. ASSUME NEW i \in 0 .. n
        PROVE  g[i] = IF i = 0 THEN 0 ELSE g[i - 1] + SpaceOf(log[i])
    <3>1. CASE i = 0
      BY <2>3, <3>1 DEF Recurs
    <3>2. CASE i # 0
      <4>1. i \in 1 .. n /\ i - 1 \in 0 .. n
        BY <1>1, <3>2
      <4>2. g[i] = step[i][g[i - 1]] /\ g[i - 1] \in Nat
        BY <2>3, <4>1 DEF Recurs
      <4> QED
        BY <2>2, <3>2, <4>1, <4>2
    <3> QED
      BY <3>1, <3>2
  <2>5. R(g)
    BY <2>3, <2>4
  <2> QED
    BY <2>5
<1>3. R(f)
  BY <1>2
<1>4. Used(log) = f[n]
  BY DEF Used
<1> HIDE DEF f, n
<1>5. f[0] = 0
  <2>1. 0 \in 0 .. n
    BY <1>1
  <2> QED
    BY <1>3, <2>1
<1>6. ASSUME NEW i \in 1 .. n
      PROVE  f[i] = f[i - 1] + SpaceOf(log[i])
  <2>1. i \in 0 .. n /\ i # 0
    BY <1>1
  <2> QED
    BY <1>3, <2>1
<1>7. Sums(f, log, n)
  BY <1>5, <1>6 DEF Sums
<1> QED
  BY <1>4, <1>7 DEF n

\* The sums over the first entries depend on those only, and are numbers.
LEMMA SameSums ==
  ASSUME NEW n \in Nat, NEW f, NEW g, NEW log, NEW t, Sums(f, log, n), Sums(g, t, n),
         \A i \in 1 .. n : log[i] = t[i] /\ SpaceOf(log[i]) \in Nat
  PROVE  f[n] = g[n] /\ f[n] \in Nat
<1> DEFINE S == {k \in Nat : k <= n => f[k] = g[k] /\ f[k] \in Nat}
<1>1. 0 \in S
  BY DEF Sums
<1>2. ASSUME NEW k \in Nat, k \in S
      PROVE  k + 1 \in S
  <2>1. SUFFICES ASSUME k + 1 <= n
                 PROVE  f[k + 1] = g[k + 1] /\ f[k + 1] \in Nat
    OBVIOUS
  <2>2. k + 1 \in 1 .. n /\ (k + 1) - 1 = k /\ k <= n
    BY <2>1
  <2>3. f[k] = g[k] /\ f[k] \in Nat
    BY <1>2, <2>2
  <2>4. f[k + 1] = f[k] + SpaceOf(log[k + 1]) /\ g[k + 1] = g[k] + SpaceOf(t[k + 1])
    BY <2>2 DEF Sums
  <2>5. log[k + 1] = t[k + 1] /\ SpaceOf(log[k + 1]) \in Nat
    BY <2>2
  <2> QED
    BY <2>3, <2>4, <2>5
<1> HIDE DEF S
<1>3. n \in S
  BY <1>1, <1>2, SetInduction
<1> QED
  BY <1>3 DEF S

\* The space of a log is a number; an empty one takes none.
LEMMA UsedType ==
  ASSUME NEW log \in Seq(Kept)
  PROVE  Used(log) \in Nat
<1>1. PICK f : Sums(f, log, Len(log)) /\ Used(log) = f[Len(log)]
  BY UsedIs
<1>2. Len(log) \in Nat /\ \A i \in 1 .. Len(log) : log[i] = log[i] /\ SpaceOf(log[i]) \in Nat
  BY KeptLog, KeptEntry
<1>3. f[Len(log)] \in Nat
  BY <1>1, <1>2, SameSums
<1> QED
  BY <1>1, <1>3

\* An empty log takes no space.
LEMMA UsedEmpty == Used(<<>>) = 0
<1>1. <<>> \in Seq(Kept) /\ Len(<<>>) = 0
  OBVIOUS
<1>2. PICK f : Sums(f, <<>>, Len(<<>>)) /\ Used(<<>>) = f[Len(<<>>)]
  BY <1>1, UsedIs
<1> QED
  BY <1>1, <1>2 DEF Sums

\* A new entry takes its own space.
LEMMA UsedAppend ==
  ASSUME NEW log \in Seq(Kept), NEW e \in Kept
  PROVE  Used(Append(log, e)) = Used(log) + SpaceOf(e)
<1> DEFINE t == Append(log, e)
           n == Len(log)
<1>1. /\ t \in Seq(Kept) /\ n \in Nat /\ Len(t) = n + 1
      /\ \A i \in 1 .. n : t[i] = log[i]
      /\ t[n + 1] = e
  BY AppendProperties, KeptLog
<1>2. PICK f : Sums(f, log, n) /\ Used(log) = f[n]
  BY UsedIs
<1> HIDE DEF t
<1>3. PICK g : Sums(g, t, Len(t)) /\ Used(t) = g[Len(t)]
  BY <1>1, UsedIs
<1>4. \A i \in 1 .. n : log[i] = t[i] /\ SpaceOf(log[i]) \in Nat
  BY <1>1, KeptLog, KeptEntry
<1> HIDE DEF n
<1>5. Sums(g, t, n) /\ g[n + 1] = g[n] + SpaceOf(e)
  <2>1. \A i \in 1 .. n : i \in 1 .. n + 1
    BY <1>1
  <2>2. n + 1 \in 1 .. n + 1 /\ (n + 1) - 1 = n
    BY <1>1
  <2> QED
    BY <1>1, <1>3, <2>1, <2>2 DEF Sums
<1>6. f[n] = g[n]
  BY <1>1, <1>2, <1>4, <1>5, SameSums
<1> QED
  BY <1>1, <1>2, <1>3, <1>5, <1>6 DEF t

\* An entry that fits leaves one entry free to end the log.
LEMMA FitsIs ==
  ASSUME NEW log \in Seq(Kept), NEW e \in Kept
  PROVE  /\ free_space(log) \in Nat
         /\ Fits(log, e) => Used(Append(log, e)) + EntrySize <= HalfSpace
<1> DEFINE x == HalfSpace - Used(log) - EntrySize
           S == {0, x}
<1>1. Used(log) \in Nat /\ x \in Int /\ SpaceOf(e) \in Nat /\ SpaceOf(e) >= EntrySize
  BY UsedType, Constants, KeptEntry
<1>2. free_space(log) = Max(S)
  BY DEF free_space
<1> HIDE DEF x
<1>3. Max(S) \in S /\ \A y \in S : Max(S) >= y
  <2>1. \E m \in S : \A y \in S : m >= y
    <3>1. CASE x <= 0
      BY <1>1, <3>1
    <3>2. CASE x >= 0
      BY <1>1, <3>2
    <3> QED
      BY <1>1, <3>1, <3>2
  <2> HIDE DEF S
  <2> QED
    BY <2>1 DEF Max
<1>4. free_space(log) >= 0 /\ free_space(log) \in {0, x}
  BY <1>2, <1>3
<1>5. ASSUME Fits(log, e)
      PROVE  Used(Append(log, e)) + EntrySize <= HalfSpace
  <2>1. free_space(log) >= SpaceOf(e)
    BY <1>5 DEF Fits
  <2>2. x >= SpaceOf(e)
    BY <1>1, <1>4, <2>1, Constants
  <2>3. Used(Append(log, e)) = Used(log) + SpaceOf(e)
    BY UsedAppend
  <2> QED
    BY <1>1, <2>2, <2>3, Constants DEF x
<1> QED
  BY <1>1, <1>4, <1>5

------------------------------------------------------------------------------
(* jd_fstor_gc *)

\* f[n] is what the loop of jd_fstor_gc has copied of the first n entries.
Copies(f, log, n) ==
  /\ f[0] = <<>>
  /\ \A i \in 1 .. n : f[i] = IF has_later_copy(log, i) THEN f[i - 1] ELSE Append(f[i - 1], log[i])

\* Compact is what it has copied in the end.
LEMMA CompactIs ==
  ASSUME NEW log \in Seq(Kept)
  PROVE  \E f : Copies(f, log, Len(log)) /\ Compact(log) = f[Len(log)]
<1> DEFINE n == Len(log)
           R(g) == g = [i \in 0 .. n |->
                          IF i = 0 THEN <<>>
                          ELSE IF has_later_copy(log, i) THEN g[i - 1]
                          ELSE Append(g[i - 1], log[i])]
           f == CHOOSE g : R(g)
<1>1. n \in Nat /\ \A i \in 1 .. n : log[i] \in Kept
  BY KeptLog
<1>2. \E g : R(g)
  <2> DEFINE T == Seq(Kept)
             step == [i \in 1 .. n |->
                        [x \in T |-> IF has_later_copy(log, i) THEN x ELSE Append(x, log[i])]]
  <2>1. <<>> \in T /\ \A x \in T, i \in 1 .. n : Append(x, log[i]) \in T
    BY <1>1
  <2> HIDE DEF T, n
  <2>2. step \in [1 .. n -> [T -> T]]
    BY <2>1
  <2>3. \A i \in 1 .. n : \A x \in T :
           step[i][x] = IF has_later_copy(log, i) THEN x ELSE Append(x, log[i])
    OBVIOUS
  <2> HIDE DEF step
  <2>4. PICK g \in [0 .. n -> T] : Recurs(g, <<>>, step, n)
    BY <1>1, <2>1, <2>2, Recursion
  <2>5. ASSUME NEW i \in 0 .. n
        PROVE  g[i] = IF i = 0 THEN <<>>
                      ELSE IF has_later_copy(log, i) THEN g[i - 1]
                      ELSE Append(g[i - 1], log[i])
    <3>1. CASE i = 0
      BY <2>4, <3>1 DEF Recurs
    <3>2. CASE i # 0
      <4>1. i \in 1 .. n /\ i - 1 \in 0 .. n
        BY <1>1, <3>2
      <4>2. g[i] = step[i][g[i - 1]] /\ g[i - 1] \in T
        BY <2>4, <4>1 DEF Recurs
      <4> QED
        BY <2>3, <3>2, <4>1, <4>2
    <3> QED
      BY <3>1, <3>2
  <2>6. R(g)
    BY <2>4, <2>5
  <2> QED
    BY <2>6
<1>3. R(f)
  BY <1>2
<1>4. Compact(log) = f[n]
  BY DEF Compact
<1> HIDE DEF f, n
<1>5. f[0] = <<>>
  <2>1. 0 \in 0 .. n
    BY <1>1
  <2> QED
    BY <1>3, <2>1
<1>6. ASSUME NEW i \in 1 .. n
      PROVE  f[i] = IF has_later_copy(log, i) THEN f[i - 1] ELSE Append(f[i - 1], log[i])
  <2>1. i \in 0 .. n /\ i # 0
    BY <1>1
  <2> QED
    BY <1>3, <2>1
<1>7. Copies(f, log, n)
  BY <1>5, <1>6 DEF Copies
<1> QED
  BY <1>4, <1>7 DEF n

\* c is a copy of the entries that count among the first n of the log.
CopyOf(c, log, n) ==
  /\ c \in Seq(Kept)
  /\ Live(c) = {log[i] : i \in {j \in 1 .. n : ~ has_later_copy(log, j)}}

\* The loop of jd_fstor_gc keeps the entries that count and takes no more space.
LEMMA CompactKeeps ==
  ASSUME NEW log \in Seq(Kept)
  PROVE  /\ Compact(log) \in Seq(Kept)
         /\ Live(Compact(log)) = Live(log)
         /\ Used(Compact(log)) <= Used(log)
<1> DEFINE n == Len(log)
<1>1. n \in Nat /\ DOMAIN log = 1 .. n /\ \A i \in 1 .. n : log[i] \in Kept /\ SpaceOf(log[i]) \in Nat
  BY KeptLog, KeptEntry
<1>2. PICK f : Copies(f, log, n) /\ Compact(log) = f[n]
  BY CompactIs
<1>3. PICK s : Sums(s, log, n) /\ Used(log) = s[n]
  BY UsedIs
<1> DEFINE L(k) == {log[i] : i \in {j \in 1 .. k : ~ has_later_copy(log, j)}}
           S == {k \in Nat : k <= n => /\ CopyOf(f[k], log, k)
                                       /\ s[k] \in Nat /\ Used(f[k]) <= s[k]}
<1> HIDE DEF n
<1>4. 0 \in S
  <2>1. f[0] = <<>> /\ s[0] = 0
    BY <1>2, <1>3 DEF Copies, Sums
  <2>2. <<>> \in Seq(Kept) /\ Live(<<>>) = {} /\ Used(<<>>) = 0
    BY LiveEmpty, UsedEmpty
  <2>3. L(0) = {}
    OBVIOUS
  <2>4. CopyOf(f[0], log, 0)
    BY <2>1, <2>2, <2>3 DEF CopyOf
  <2>5. s[0] \in Nat /\ Used(f[0]) <= s[0]
    BY <2>1, <2>2
  <2> QED
    BY <2>4, <2>5
<1>5. ASSUME NEW k \in Nat, k \in S
      PROVE  k + 1 \in S
  <2>1. SUFFICES ASSUME k + 1 <= n
                 PROVE  /\ CopyOf(f[k + 1], log, k + 1)
                        /\ s[k + 1] \in Nat /\ Used(f[k + 1]) <= s[k + 1]
    OBVIOUS
  <2> DEFINE c == f[k]
             d == f[k + 1]
             e == log[k + 1]
  <2>2. k + 1 \in 1 .. n /\ (k + 1) - 1 = k /\ k <= n /\ e \in Kept /\ SpaceOf(e) \in Nat
    BY <1>1, <2>1
  <2>3. c \in Seq(Kept) /\ Live(c) = L(k) /\ s[k] \in Nat /\ Used(c) <= s[k]
    BY <1>5, <2>2 DEF CopyOf
  <2>4. s[k + 1] = s[k] + SpaceOf(e)
    BY <1>3, <2>2 DEF Sums
  <2>5. d = IF has_later_copy(log, k + 1) THEN c ELSE Append(c, e)
    BY <1>2, <2>2 DEF Copies
  <2>6. \A i \in 1 .. k + 1 : i = k + 1 \/ i \in 1 .. k
    OBVIOUS
  <2>7. k + 1 \in 1 .. k + 1 /\ \A i \in 1 .. k : i \in 1 .. k + 1
    OBVIOUS
  <2>8. Used(c) \in Nat
    BY <2>3, UsedType
  <2>9. CASE has_later_copy(log, k + 1)
    <3>1. L(k + 1) = L(k)
      BY <2>6, <2>7, <2>9
    <3>2. Used(d) <= s[k + 1]
      BY <2>2, <2>3, <2>4, <2>5, <2>8, <2>9
    <3> QED
      BY <2>2, <2>3, <2>4, <2>5, <2>9, <3>1, <3>2 DEF CopyOf
  <2>10. CASE ~ has_later_copy(log, k + 1)
    <3>1. L(k + 1) = L(k) \cup {e}
      BY <2>6, <2>7, <2>10
    <3>2. ASSUME NEW x \in L(k)
          PROVE  x.key # e.key
      <4>1. PICK i \in 1 .. k : x = log[i] /\ ~ has_later_copy(log, i)
        OBVIOUS
      <4>2. k + 1 \in i + 1 .. Len(log)
        BY <2>1 DEF n
      <4> QED
        BY <4>1, <4>2 DEF has_later_copy
    <3> HIDE DEF e, c, d, L
    <3>3. /\ Append(c, e) \in Seq(Kept)
          /\ Live(Append(c, e)) = {e} \cup {x \in Live(c) : x.key # e.key}
          /\ Used(Append(c, e)) = Used(c) + SpaceOf(e)
      BY <2>2, <2>3, LiveAppend, UsedAppend
    <3>4. Live(d) = L(k + 1)
      BY <2>3, <2>5, <2>10, <3>1, <3>2, <3>3
    <3>5. Used(d) <= s[k + 1] /\ s[k + 1] \in Nat /\ d \in Seq(Kept)
      BY <2>2, <2>3, <2>4, <2>5, <2>8, <2>10, <3>3
    <3> QED
      BY <3>4, <3>5 DEF CopyOf, L, d
  <2> QED
    BY <2>9, <2>10
<1>6. n \in S
  <2> HIDE DEF S
  <2> QED
    BY <1>1, <1>4, <1>5, SetInduction
<1>7. CopyOf(f[n], log, n) /\ Used(f[n]) <= s[n]
  BY <1>6
<1>8. Live(log) = L(n)
  BY <1>1 DEF Live
<1> QED
  BY <1>2, <1>3, <1>7, <1>8 DEF CopyOf

------------------------------------------------------------------------------
(* The two halves. *)

\* The empty operation and the erased half.
LEMMA Blank ==
  /\ NoOp.key = None
  /\ Erased \in Half /\ Erased.gen = 0 /\ Erased.log = <<>> /\ Erased.junk = FALSE
<1>1. <<>> \in Seq(Kept) /\ 0 \in 0 .. MaxGen
  BY Constants
<1> QED
  BY <1>1 DEF NoOp, SmallEntry, Erased, Half

\* The halves and their generations.
LEMMA Halves ==
  ASSUME TypeInv
  PROVE  \A h \in {0, 1} : /\ half[h] \in Half /\ half[h].gen \in Nat /\ half[h].gen <= MaxGen
                           /\ half[h].log \in Seq(Kept) /\ half[h].junk \in BOOLEAN
  BY Constants DEF TypeInv, Half

\* The mounted half s, and the other one.
Mounted(s) ==
  /\ s \in {0, 1} /\ 1 - s \in {0, 1} /\ s # 1 - s /\ 1 - (1 - s) = s
  /\ \A h \in {0, 1} : h = s \/ h = 1 - s
  /\ half[s] \in Half /\ half[s].gen \in Nat /\ half[s].log \in Seq(Kept)
  /\ half[1 - s] \in Half /\ half[1 - s].gen \in Nat /\ half[1 - s].log \in Seq(Kept)
  /\ half[s].gen > half[1 - s].gen /\ half[s].gen # 0
  /\ half[s].gen <= MaxGen
  /\ IsNewest(s) /\ ~ IsNewest(1 - s)

\* The half in settings is one.
LEMMA MountedHalf ==
  ASSUME TypeInv, FlashInv, settings # None
  PROVE  Mounted(settings)
<1>1. settings \in {0, 1} /\ IsNewest(settings)
  BY DEF TypeInv, FlashInv
<1>2. 1 - settings \in {0, 1} /\ settings # 1 - settings /\ 1 - (1 - settings) = settings
      /\ \A h \in {0, 1} : h = settings \/ h = 1 - settings
  BY <1>1
<1>3. /\ half[settings] \in Half /\ half[settings].gen \in Nat
      /\ half[settings].log \in Seq(Kept) /\ half[settings].gen <= MaxGen
      /\ half[1 - settings] \in Half /\ half[1 - settings].gen \in Nat
      /\ half[1 - settings].log \in Seq(Kept)
  BY <1>1, <1>2, Halves
<1>4. half[settings].gen > half[1 - settings].gen
  BY <1>1 DEF IsNewest
<1>5. half[settings].gen # 0 /\ ~ (half[1 - settings].gen > half[settings].gen)
  BY <1>3, <1>4
<1> QED
  BY <1>1, <1>2, <1>3, <1>4, <1>5 DEF Mounted, IsNewest

\* jd_fstor_init takes the half with the higher generation, if there is one.
LEMMA NewestIs ==
  ASSUME TypeInv, FlashInv, ValidHalves # {}
  PROVE  Newest \in {0, 1} /\ IsNewest(Newest)
<1>1. half[0].gen \in Nat /\ half[1].gen \in Nat
  BY Halves
<1>2. half[0].gen # half[1].gen
  BY Blank DEF FlashInv, ValidHalves
<1>3. CASE ValidHalves = {0, 1}
  BY <1>1, <1>2, <1>3 DEF Newest, IsNewest
<1>4. CASE ValidHalves # {0, 1}
  <2>1. Newest \in ValidHalves
    BY <1>4 DEF Newest
  <2>2. Newest \in {0, 1} /\ half[Newest].gen # 0
    BY <2>1 DEF ValidHalves
  <2>3. half[1 - Newest].gen = 0
    BY <1>4, <2>1, <2>2 DEF ValidHalves
  <2> HIDE DEF Newest
  <2>4. half[Newest].gen \in Nat
    BY <2>2, Halves
  <2> QED
    BY <2>2, <2>3, <2>4 DEF IsNewest
<1> QED
  BY <1>3, <1>4

\* A mount fails only when no header was ever written.
LEMMA NothingMountable ==
  ASSUME TypeInv, FlashInv, pc = "idle", ~ Mountable
  PROVE  half[0].gen = half[1].gen
<1>1. CASE ValidHalves = {}
  BY <1>1 DEF ValidHalves
<1>2. CASE ValidHalves # {}
  <2>1. Newest \in {0, 1}
    BY <1>2, NewestIs
  <2>2. half[Newest].junk
    BY <1>2 DEF Mountable
  <2> QED
    BY <2>1, <2>2 DEF FlashInv
<1> QED
  BY <1>1, <1>2

\* Between operations all pages of the current large values are marked.
LEMMA AllMarked ==
  ASSUME TypeInv, FlashInv, LargeInv, pc = "idle", settings # None
  PROVE  \A e \in Live(cur.log) : is_large(e) => PagesOf(e) \subseteq used
<1>1. op.key = None
  BY Blank DEF TypeInv, Busy
<1>2. MarkedBut(Live(cur.log), None, used)
  BY <1>1 DEF LargeInv
<1> QED
  BY <1>2, Constants DEF MarkedBut, is_large

------------------------------------------------------------------------------
(* The steps of jd_fstor_init. *)

\* The invariant holds at the start.
LEMMA InitInv ==
  ASSUME Init
  PROVE  Inv
<1>1. half[0] = Erased /\ half[1] = Erased /\ \A h \in {0, 1} : half[h] = Erased
  BY DEF Init
<1>2. TypeInv
  <2>1. half \in [{0, 1} -> Half]
    BY Blank DEF Init
  <2>2. content \in [0 .. DataPages - 1 -> LargeKeys \cup {None}]
    BY DEF Init
  <2>3. committed \in [Keys -> Values \cup {None}]
    BY DEF Init
  <2> QED
    BY <2>1, <2>2, <2>3 DEF Init, TypeInv, Busy
<1>3. \A h \in {0, 1} : ~ IsNewest(h)
  BY <1>1, Blank DEF IsNewest
<1>4. FlashInv
  BY <1>1, Blank DEF Init, FlashInv
<1>5. StepInv
  BY DEF Init, StepInv, Busy
<1>6. ValueInv
  BY <1>3 DEF ValueInv
<1>7. LargeInv
  BY <1>3 DEF Init, LargeInv, Busy
<1> QED
  BY <1>2, <1>4, <1>5, <1>6, <1>7 DEF Inv

\* Mounting.
LEMMA MountStep ==
  ASSUME Inv, Mount
  PROVE  Inv'
<1> DEFINE s == Newest
<1>1. TypeInv /\ FlashInv /\ StepInv /\ ValueInv /\ LargeInv
  BY DEF Inv
<1>2. s \in {0, 1} /\ IsNewest(s) /\ s # None
  BY <1>1, NewestIs, Constants DEF Mount, Mountable
<1>3. /\ pc = "idle" /\ settings' = s /\ used' = LargePagesIn(half[s].log)
      /\ UNCHANGED <<half, content, pc, op, panic, committed, complete, refused, crashes>>
  BY DEF Mount, flash
<1> HIDE DEF s
<1>4. half[s].log \in Seq(Kept)
  BY <1>1, <1>2, Halves
<1>5. TypeInv'
  <2>1. used' \in SUBSET (0 .. DataPages - 1)
    BY <1>3, <1>4, PagesLive
  <2> QED
    BY <1>1, <1>2, <1>3, <2>1 DEF TypeInv, Busy
<1>6. FlashInv'
  BY <1>1, <1>2, <1>3 DEF FlashInv, IsNewest
<1>7. StepInv'
  BY <1>3 DEF StepInv, Busy
<1>8. ValueInv'
  BY <1>1, <1>3 DEF ValueInv, IsNewest
<1>9. LargeInv'
  <2>1. MarkedBut(Live(half[s].log), op.key, used')
    BY <1>3, <1>4, PagesLive DEF MarkedBut
  <2>2. \A h \in {0, 1} : IsNewest(h)' =>
           (Apart(Live(half[h].log)) /\ Intact(Live(half[h].log), complete, content))'
    BY <1>1, <1>3 DEF LargeInv, IsNewest
  <2> QED
    BY <1>3, <2>1, <2>2 DEF LargeInv, Busy, cur
<1> QED
  BY <1>5, <1>6, <1>7, <1>8, <1>9 DEF Inv

\* Erasing for a new format: nothing is lost, as there was nothing.
LEMMA FormatEraseStep ==
  ASSUME Inv, FormatErase
  PROVE  Inv'
<1>1. TypeInv /\ FlashInv /\ StepInv /\ ValueInv /\ LargeInv
  BY DEF Inv
<1>2. /\ pc = "idle" /\ settings = None /\ pc' = "fmt_header"
      /\ UNCHANGED <<content, settings, used, op, panic, committed, complete, refused, crashes>>
  BY DEF FormatErase
<1>3. half[0].gen = half[1].gen
  BY <1>1, NothingMountable DEF FormatErase
<1>4. half' = half
  <2>1. half[0] = Erased
    BY <1>1, <1>3 DEF FlashInv
  <2> QED
    BY <1>1, <2>1 DEF FormatErase, TypeInv
<1>5. TypeInv'
  BY <1>1, <1>2, <1>4 DEF TypeInv, Busy
<1>6. FlashInv'
  BY <1>1, <1>2, <1>4 DEF FlashInv, IsNewest
<1>7. StepInv'
  BY <1>2, <1>3, <1>4 DEF StepInv, Busy
<1>8. ValueInv'
  BY <1>1, <1>2, <1>4 DEF ValueInv, IsNewest
<1>9. LargeInv'
  BY <1>1, <1>2, <1>4 DEF LargeInv, Busy, IsNewest, cur
<1> QED
  BY <1>5, <1>6, <1>7, <1>8, <1>9 DEF Inv

\* The header of an empty half 0.
LEMMA FormatHeaderStep ==
  ASSUME Inv, FormatHeader
  PROVE  Inv'
<1>1. TypeInv /\ FlashInv /\ StepInv /\ ValueInv /\ LargeInv
  BY DEF Inv
<1>2. /\ pc = "fmt_header" /\ pc' = "idle" /\ settings' = 0 /\ used' = {}
      /\ half' = [half EXCEPT ![0].gen = 1]
      /\ UNCHANGED <<content, op, panic, committed, complete, refused, crashes>>
  BY DEF FormatHeader
<1>3. /\ half[0] = Erased /\ half[1] = Erased /\ complete = {}
      /\ committed = [k \in Keys |-> None]
  BY <1>1, <1>2 DEF StepInv, FlashInv
<1>4. /\ half' \in [{0, 1} -> Half]
      /\ half'[0].gen = 1 /\ half'[0].log = <<>> /\ half'[0].junk = FALSE
      /\ half'[1] = Erased
  <2>1. half'[0] = [gen |-> 1, log |-> <<>>, junk |-> FALSE] /\ half'[1] = Erased
    <3>1. half'[0] = [half[0] EXCEPT !.gen = 1] /\ half'[1] = half[1]
      BY <1>1, <1>2 DEF TypeInv
    <3>2. half'[0] = [Erased EXCEPT !.gen = 1]
      BY <1>3, <3>1
    <3> QED
      BY <1>3, <3>1, <3>2 DEF Erased
  <2>2. [gen |-> 1, log |-> <<>>, junk |-> FALSE] \in Half
    <3>1. <<>> \in Seq(Kept) /\ 1 \in 0 .. MaxGen
      BY Constants
    <3> QED
      BY <3>1 DEF Half
  <2> QED
    BY <1>1, <1>2, <2>1, <2>2, Blank DEF TypeInv
<1>5. TypeInv'
  BY <1>1, <1>2, <1>4 DEF TypeInv, Busy
<1>6. IsNewest(0)' /\ ~ IsNewest(1)'
  BY <1>4, Blank DEF IsNewest
<1>7. FlashInv'
  BY <1>2, <1>4, <1>6, Blank, UsedEmpty, Constants DEF FlashInv
<1>8. StepInv'
  BY <1>2 DEF StepInv, Busy
<1>9. Live(half'[0].log) = {} /\ \A k \in Keys : Stored(half'[0].log, k) = None
  <2>1. <<>> \in Seq(Kept)
    OBVIOUS
  <2> QED
    BY <1>4, <2>1, LiveEmpty, StoredLive
<1>10. ValueInv'
  BY <1>2, <1>3, <1>6, <1>9 DEF ValueInv
<1>11. LargeInv'
  BY <1>2, <1>3, <1>6, <1>9 DEF LargeInv, Busy, cur, Apart, Intact, MarkedBut
<1> QED
  BY <1>5, <1>7, <1>8, <1>10, <1>11 DEF Inv

------------------------------------------------------------------------------
(* The steps of jd_settings_set_bin. *)

\* A value to be stored: nothing is written yet.
LEMMA SetBinStep ==
  ASSUME Inv, NEW k \in Keys, NEW v \in Values, SetBin(k, v)
  PROVE  Inv'
<1> DEFINE e == SmallEntry(k, v)
<1>1. TypeInv /\ FlashInv /\ StepInv /\ ValueInv /\ LargeInv
  BY DEF Inv
<1>2. /\ pc = "idle" /\ settings # None /\ op' = e
      /\ pc' = IF free_space(cur.log) < SpaceOf(e) THEN "gc_erase" ELSE "data"
      /\ refused' = FALSE
      /\ UNCHANGED <<half, content, settings, used, panic, committed, complete, crashes>>
  BY DEF SetBin, Ready, flash
<1>3. e \in Kept /\ e.key = k /\ ~ is_large(e)
  BY Constants DEF SmallEntry, Kept, Entry, is_large
<1>4. Mounted(settings)
  BY <1>1, <1>2, MountedHalf
<1> HIDE DEF e
<1>5. TypeInv'
  BY <1>1, <1>2, <1>3 DEF TypeInv, Busy
<1>6. FlashInv'
  BY <1>1, <1>2 DEF FlashInv, IsNewest
<1>7. StepInv'
  <2>1. pc' = "data" => Fits(cur.log, e)
    <3>1. cur.log \in Seq(Kept)
      BY <1>4 DEF Mounted, cur
    <3>2. free_space(cur.log) \in Nat /\ SpaceOf(e) \in Nat
      BY <1>3, <3>1, FitsIs, KeptEntry
    <3> QED
      BY <1>2, <3>2 DEF Fits
  <2> QED
    BY <1>2, <1>3, <2>1 DEF StepInv, Busy, cur
<1>8. ValueInv'
  BY <1>1, <1>2 DEF ValueInv, IsNewest
<1>9. LargeInv'
  <2>1. \A f \in Live(cur.log) : is_large(f) => PagesOf(f) \subseteq used
    BY <1>1, <1>2, AllMarked
  <2>2. MarkedBut(Live(cur.log), e.key, used)
    BY <2>1 DEF MarkedBut
  <2>3. cur' = cur
    BY <1>2 DEF cur
  <2> QED
    BY <1>1, <1>2, <1>3, <2>2, <2>3 DEF LargeInv, Busy, IsNewest
<1> QED
  BY <1>5, <1>6, <1>7, <1>8, <1>9 DEF Inv

\* The value is programmed; the log is as it was.
LEMMA ProgramDataStep ==
  ASSUME Inv, ProgramData
  PROVE  Inv'
<1> DEFINE s == settings
<1>1. TypeInv /\ FlashInv /\ StepInv /\ ValueInv /\ LargeInv
  BY DEF Inv
<1>2. /\ pc = "data" /\ pc' = "entry"
      /\ half' = [half EXCEPT ![s].junk = TRUE]
      /\ UNCHANGED <<content, settings, used, op, panic, committed, complete, refused, crashes>>
  BY DEF ProgramData
<1>3. Mounted(s)
  BY <1>1, <1>2, MountedHalf DEF StepInv, Busy
<1>4. /\ half' \in [{0, 1} -> Half]
      /\ \A h \in {0, 1} : /\ half'[h].gen = half[h].gen /\ half'[h].log = half[h].log
                           /\ h # s => half'[h].junk = half[h].junk
  <2>1. half \in [{0, 1} -> Half] /\ s \in {0, 1} /\ half[s] \in Half
    BY <1>1, <1>3 DEF TypeInv, Mounted
  <2>2. [half[s] EXCEPT !.junk = TRUE] \in Half
    BY <2>1 DEF Half
  <2>3. /\ [half[s] EXCEPT !.junk = TRUE].gen = half[s].gen
        /\ [half[s] EXCEPT !.junk = TRUE].log = half[s].log
    BY <2>1 DEF Half
  <2>4. /\ half'[s] = [half[s] EXCEPT !.junk = TRUE]
        /\ \A h \in {0, 1} : h # s => half'[h] = half[h]
    BY <1>2, <2>1
  <2>5. half' \in [{0, 1} -> Half]
    BY <1>2, <2>1, <2>2
  <2> QED
    BY <2>3, <2>4, <2>5
<1> HIDE DEF s
<1>5. s = settings /\ s \in {0, 1} /\ s # None
  BY <1>3, Constants DEF s, Mounted
<1>6. \A h \in {0, 1} : IsNewest(h)' <=> IsNewest(h)
  BY <1>4 DEF IsNewest
<1>7. TypeInv'
  BY <1>1, <1>2, <1>4 DEF TypeInv, Busy
<1>8. FlashInv'
  <2>1. half[0].gen # half[1].gen
    BY <1>3, <1>5 DEF Mounted
  <2> QED
    BY <1>1, <1>2, <1>4, <1>5, <1>6, <2>1 DEF FlashInv
<1>9. StepInv'
  BY <1>1, <1>2, <1>4, <1>5 DEF StepInv, Busy, cur
<1>10. ValueInv'
  BY <1>1, <1>2, <1>4, <1>6 DEF ValueInv
<1>11. LargeInv'
  BY <1>1, <1>2, <1>4, <1>5, <1>6 DEF LargeInv, Busy, cur
<1> QED
  BY <1>7, <1>8, <1>9, <1>10, <1>11 DEF Inv

\* The new half of an operation that adds an entry to the mounted one.
Extended(s, e) ==
  /\ half' \in [{0, 1} -> Half]
  /\ \A h \in {0, 1} : /\ half'[h].gen = half[h].gen
                       /\ half'[h].junk = FALSE
                       /\ h # s => half'[h].log = half[h].log
  /\ half'[s].log = Append(half[s].log, e)
  /\ Used(half'[s].log) + EntrySize <= HalfSpace
  /\ Live(half'[s].log) = {e} \cup {f \in Live(half[s].log) : f.key # e.key}

\* What it keeps of the flash.
LEMMA ExtendedFlash ==
  ASSUME Inv, NEW s, Mounted(s), NEW e, Extended(s, e), settings' = settings, s = settings
  PROVE  FlashInv' /\ \A h \in {0, 1} : IsNewest(h)' <=> IsNewest(h)
<1>1. \A h \in {0, 1} : IsNewest(h)' <=> IsNewest(h)
  BY DEF Extended, IsNewest
<1>2. half'[0].gen # half'[1].gen
  BY DEF Extended, Mounted
<1>3. IsNewest(settings)'
  <2>1. half'[s].gen > half'[1 - s].gen
    BY <1>1 DEF Mounted, IsNewest
  <2> QED
    BY <2>1 DEF IsNewest
<1>4. ASSUME NEW h \in {0, 1}, half'[h].gen # 0
      PROVE  Used(half'[h].log) + EntrySize <= HalfSpace
  BY <1>4 DEF Extended, Inv, FlashInv
<1> QED
  BY <1>1, <1>2, <1>3, <1>4 DEF FlashInv, Extended

\* The entry is programmed: the value is the stored one.
LEMMA ProgramEntryStep ==
  ASSUME Inv, ProgramEntry
  PROVE  Inv'
<1> DEFINE s == settings
<1>1. TypeInv /\ FlashInv /\ StepInv /\ ValueInv /\ LargeInv
  BY DEF Inv
<1>2. /\ pc = "entry" /\ pc' = "idle" /\ op' = NoOp
      /\ half' = [half EXCEPT ![s].junk = FALSE, ![s].log = Append(@, op)]
      /\ committed' = [committed EXCEPT ![op.key] = op.val]
      /\ UNCHANGED <<content, settings, used, panic, complete, refused, crashes>>
  BY DEF ProgramEntry
<1>3. Mounted(s)
  BY <1>1, <1>2, MountedHalf DEF StepInv, Busy
<1>4. op \in Kept /\ ~ is_large(op) /\ op.key \in Keys /\ op.val \in Values
      /\ Fits(half[s].log, op)
  <2>1. op \in Kept /\ ~ is_large(op) /\ Fits(half[s].log, op)
    BY <1>1, <1>2 DEF TypeInv, StepInv, Busy, cur
  <2> QED
    BY <2>1, KeptEntry
<1>5. Extended(s, op)
  <2> DEFINE t == Append(half[s].log, op)
  <2>1. half \in [{0, 1} -> Half] /\ s \in {0, 1} /\ half[s] \in Half /\ half[s].log \in Seq(Kept)
    BY <1>1, <1>3 DEF TypeInv, Mounted
  <2>2. /\ t \in Seq(Kept) /\ Used(t) + EntrySize <= HalfSpace
        /\ Live(t) = {op} \cup {f \in Live(half[s].log) : f.key # op.key}
    BY <1>4, <2>1, LiveAppend, FitsIs
  <2>3. /\ half'[s] = [half[s] EXCEPT !.junk = FALSE, !.log = t]
        /\ \A h \in {0, 1} : h # s => half'[h] = half[h]
    BY <1>2, <2>1
  <2> HIDE DEF t
  <2>4. /\ [half[s] EXCEPT !.junk = FALSE, !.log = t] \in Half
        /\ [half[s] EXCEPT !.junk = FALSE, !.log = t].gen = half[s].gen
        /\ [half[s] EXCEPT !.junk = FALSE, !.log = t].log = t
        /\ [half[s] EXCEPT !.junk = FALSE, !.log = t].junk = FALSE
    BY <2>1, <2>2 DEF Half
  <2>5. half' \in [{0, 1} -> Half]
    <3>1. \A h \in {0, 1} : half'[h] \in Half
      BY <2>1, <2>3, <2>4
    <3>2. half' = [h \in {0, 1} |-> half'[h]]
      BY <1>2, <2>1
    <3> QED
      BY <3>1, <3>2
  <2>6. \A h \in {0, 1} : h # s => half[h].junk = FALSE
    BY <1>1, Halves DEF FlashInv
  <2> HIDE DEF s
  <2>7. /\ half'[s].log = t /\ half'[s].gen = half[s].gen /\ half'[s].junk = FALSE
    BY <2>3, <2>4
  <2>8. \A h \in {0, 1} : /\ half'[h].gen = half[h].gen
                          /\ half'[h].junk = FALSE
                          /\ h # s => half'[h].log = half[h].log
    BY <2>3, <2>6, <2>7
  <2> QED
    BY <2>2, <2>5, <2>7, <2>8 DEF Extended, t
<1> HIDE DEF s
<1>6. s = settings /\ s \in {0, 1} /\ s # None
  BY <1>3, Constants DEF s, Mounted
<1>7. FlashInv' /\ \A h \in {0, 1} : IsNewest(h)' <=> IsNewest(h)
  BY <1>2, <1>3, <1>5, <1>6, ExtendedFlash
<1>8. TypeInv'
  <2>1. committed' \in [Keys -> Values \cup {None}]
    BY <1>1, <1>2, <1>4 DEF TypeInv
  <2> QED
    BY <1>1, <1>2, <1>5, <2>1 DEF TypeInv, Busy, Extended
<1>9. StepInv'
  BY <1>2 DEF StepInv, Busy
<1> DEFINE L == Live(half[s].log)
           M == Live(half'[s].log)
<1>10. /\ M = {op} \cup {f \in L : f.key # op.key}
       /\ half'[s].log \in Seq(Kept) /\ half[s].log \in Seq(Kept)
  BY <1>3, <1>5, <1>6 DEF Extended, Mounted, Half
<1>11. ASSUME NEW h \in {0, 1}, IsNewest(h)'
       PROVE  h = s
  BY <1>3, <1>7, <1>11 DEF Mounted
<1>12. ValueInv'
  <2>1. SUFFICES ASSUME NEW k \in Keys
                 PROVE  Stored(half'[s].log, k) = committed'[k]
    BY <1>11 DEF ValueInv
  <2>2. Stored(half[s].log, k) = committed[k]
    BY <1>1, <1>3, <1>6 DEF ValueInv, Mounted
  <2>3. CASE k = op.key
    <3>1. op \in M
      BY <1>10
    <3>2. Stored(half'[s].log, k) = op.val
      BY <1>10, <2>3, <3>1, StoredLive
    <3> QED
      BY <1>1, <1>2, <1>4, <2>3, <3>2 DEF TypeInv
  <2>4. CASE k # op.key
    <3>1. committed'[k] = committed[k]
      BY <1>1, <1>2, <2>4 DEF TypeInv
    <3>2. CASE \E e \in L : e.key = k
      <4>1. PICK e \in L : e.key = k
        BY <3>2
      <4>2. e \in M
        BY <1>10, <2>4, <4>1
      <4>3. Stored(half[s].log, k) = e.val /\ Stored(half'[s].log, k) = e.val
        BY <1>10, <4>1, <4>2, StoredLive
      <4> QED
        BY <2>2, <3>1, <4>3
    <3>3. CASE \A e \in L : e.key # k
      <4>1. \A e \in M : e.key # k
        BY <1>10, <2>4, <3>3
      <4>2. Stored(half[s].log, k) = None /\ Stored(half'[s].log, k) = None
        BY <1>10, <3>3, <4>1, StoredLive
      <4> QED
        BY <2>2, <3>1, <4>2
    <3> QED
      BY <3>2, <3>3
  <2> QED
    BY <2>3, <2>4
<1>13. LargeInv'
  <2>1. /\ Apart(L) /\ Intact(L, complete, content) /\ MarkedBut(L, op.key, used)
    BY <1>1, <1>3, <1>6 DEF LargeInv, Mounted, cur
  <2>2. \A e \in M : is_large(e) => e \in L /\ e.key # op.key
    BY <1>4, <1>10
  <2>3. \A e \in L : is_large(e) => e \in M
    BY <1>4, <1>10 DEF is_large
  <2> HIDE DEF L, M
  <2>4. Apart(M)
    BY <2>1, <2>2 DEF Apart
  <2>5. Intact(M, complete, content)
    <3>1. \A k \in complete : k \in LargeKeys
      BY <1>1 DEF TypeInv
    <3> QED
      BY <2>1, <2>3, <3>1 DEF Intact, is_large
  <2>6. MarkedBut(M, None, used)
    BY <2>1, <2>2 DEF MarkedBut
  <2> QED
    BY <1>2, <1>6, <1>11, <2>4, <2>5, <2>6, Blank DEF LargeInv, Busy, cur, M
<1> QED
  BY <1>7, <1>8, <1>9, <1>12, <1>13 DEF Inv

------------------------------------------------------------------------------
(* The steps of jd_fstor_gc. *)

\* The other half is erased; the mounted one counts.
LEMMA GcEraseStep ==
  ASSUME Inv, GcErase
  PROVE  Inv'
<1>0. PICK s, a : s = settings /\ a = 1 - settings
  OBVIOUS
<1>1. TypeInv /\ FlashInv /\ StepInv /\ ValueInv /\ LargeInv
  BY DEF Inv
<1>2. /\ pc = "gc_erase" /\ pc' = "gc_copy" /\ half[s].gen < MaxGen
      /\ half' = [half EXCEPT ![a] = Erased]
      /\ UNCHANGED <<content, settings, used, op, panic, committed, complete, refused, crashes>>
  BY <1>0 DEF GcErase, cur, alt
<1>3. Mounted(s)
  BY <1>0, <1>1, <1>2, MountedHalf DEF StepInv, Busy
<1>4. /\ half' \in [{0, 1} -> Half] /\ half'[s] = half[s] /\ half'[a] = Erased
      /\ \A h \in {0, 1} : h = s \/ h = a
      /\ s \in {0, 1} /\ a \in {0, 1} /\ s # a /\ half[s].gen > 0 /\ s # None /\ 1 - a = s
  <2>1. half \in [{0, 1} -> Half] /\ s \in {0, 1} /\ a \in {0, 1} /\ s # a /\ 1 - a = s
        /\ half[s].gen \in Nat /\ half[s].gen # 0 /\ (\A h \in {0, 1} : h = s \/ h = a)
    BY <1>0, <1>1, <1>3 DEF TypeInv, Mounted
  <2> QED
    BY <1>2, <2>1, Blank, Constants
<1>5. TypeInv'
  BY <1>1, <1>2, <1>4 DEF TypeInv, Busy
<1>6. settings = s /\ a = 1 - s
  BY <1>0
<1>7. IsNewest(s)' /\ ~ IsNewest(a)'
  <2>1. half'[a].gen = 0 /\ half'[s].gen > 0 /\ half'[s].gen \in Nat
    BY <1>3, <1>4, Blank DEF Mounted
  <2> QED
    BY <1>4, <1>6, <2>1 DEF IsNewest
<1>8. FlashInv'
  <2>1. \A h \in {0, 1} : half'[h].junk => FALSE
    BY <1>1, <1>2, <1>4, Blank DEF FlashInv
  <2>2. \A h \in {0, 1} : half'[h].gen # 0 => Used(half'[h].log) + EntrySize <= HalfSpace
    BY <1>1, <1>4, Blank DEF FlashInv
  <2>3. half'[0].gen # half'[1].gen
    <3>1. half'[a].gen = 0 /\ half'[s].gen > 0
      BY <1>4, Blank
    <3>2. half'[a].gen # half'[s].gen
      BY <3>1
    <3> QED
      BY <1>4, <3>2
  <2>4. IsNewest(settings)'
    BY <1>2, <1>6, <1>7 DEF IsNewest
  <2> QED
    BY <2>1, <2>2, <2>3, <2>4 DEF FlashInv
<1>9. StepInv'
  BY <1>2, <1>4, <1>6, Blank, Constants DEF StepInv, Busy, cur, alt
<1>10. ValueInv'
  BY <1>1, <1>2, <1>3, <1>4, <1>7 DEF ValueInv, Mounted
<1>11. LargeInv'
  <2>1. /\ Apart(Live(half[s].log)) /\ Intact(Live(half[s].log), complete, content)
        /\ MarkedBut(Live(half[s].log), op.key, used)
        /\ is_large(op) => OpApart(Live(half[s].log), op)
    BY <1>1, <1>2, <1>3, <1>4, <1>6 DEF LargeInv, Mounted, cur, Busy
  <2> QED
    BY <1>2, <1>4, <1>6, <1>7, <2>1 DEF LargeInv, Busy, cur
<1> QED
  BY <1>5, <1>8, <1>9, <1>10, <1>11 DEF Inv

\* The entries that count are copied, but the copy has no header yet.
LEMMA GcCopyStep ==
  ASSUME Inv, GcCopy
  PROVE  Inv'
<1>0. PICK s, a : s = settings /\ a = 1 - settings
  OBVIOUS
<1> DEFINE t == Compact(half[s].log)
<1>1. TypeInv /\ FlashInv /\ StepInv /\ ValueInv /\ LargeInv
  BY DEF Inv
<1>2. /\ pc = "gc_copy" /\ pc' = "gc_header"
      /\ half' = [half EXCEPT ![a].log = t]
      /\ UNCHANGED <<content, settings, used, op, panic, committed, complete, refused, crashes>>
  BY <1>0 DEF GcCopy, cur, alt
<1>3. Mounted(s)
  BY <1>0, <1>1, <1>2, MountedHalf DEF StepInv, Busy
<1>4. t \in Seq(Kept)
  BY <1>3, CompactKeeps DEF Mounted
<1>5. settings = s /\ a = 1 - s /\ half[a].gen = 0 /\ half[s].gen < MaxGen /\ t = Compact(half[s].log)
  BY <1>0, <1>1, <1>2 DEF StepInv, cur, alt
<1> HIDE DEF t
<1>6. /\ half' \in [{0, 1} -> Half] /\ half'[s] = half[s]
      /\ half'[a].gen = 0 /\ half'[a].log = t /\ half'[a].junk = half[a].junk
      /\ \A h \in {0, 1} : h = s \/ h = a
      /\ s \in {0, 1} /\ a \in {0, 1} /\ s # a /\ half[s].gen > 0 /\ s # None /\ 1 - a = s
  <2>1. half \in [{0, 1} -> Half] /\ s \in {0, 1} /\ a \in {0, 1} /\ s # a /\ 1 - a = s
        /\ half[s].gen \in Nat /\ half[s].gen # 0 /\ (\A h \in {0, 1} : h = s \/ h = a)
        /\ half[a] \in Half
    BY <1>1, <1>3, <1>5 DEF TypeInv, Mounted
  <2>2. /\ [half[a] EXCEPT !.log = t] \in Half
        /\ [half[a] EXCEPT !.log = t].gen = half[a].gen
        /\ [half[a] EXCEPT !.log = t].log = t
        /\ [half[a] EXCEPT !.log = t].junk = half[a].junk
    BY <1>4, <2>1 DEF Half
  <2>3. half' \in [{0, 1} -> Half] /\ half'[s] = half[s] /\ half'[a] = [half[a] EXCEPT !.log = t]
    BY <1>2, <2>1, <2>2
  <2> QED
    BY <1>5, <2>1, <2>2, <2>3, Constants
<1>7. TypeInv'
  BY <1>1, <1>2, <1>6 DEF TypeInv, Busy
<1>8. IsNewest(s)' /\ ~ IsNewest(a)'
  <2>1. half'[a].gen = 0 /\ half'[s].gen > 0 /\ half'[s].gen \in Nat
    BY <1>3, <1>6 DEF Mounted
  <2> QED
    BY <1>5, <1>6, <2>1 DEF IsNewest
<1>9. FlashInv'
  <2>1. \A h \in {0, 1} : half'[h].junk => FALSE
    BY <1>1, <1>2, <1>6 DEF FlashInv
  <2>2. \A h \in {0, 1} : half'[h].gen # 0 => Used(half'[h].log) + EntrySize <= HalfSpace
    BY <1>1, <1>6 DEF FlashInv
  <2>3. half'[0].gen # half'[1].gen
    <3>1. half'[a].gen # half'[s].gen
      BY <1>6
    <3> QED
      BY <1>6, <3>1
  <2>4. IsNewest(settings)'
    BY <1>2, <1>5, <1>8 DEF IsNewest
  <2> QED
    BY <2>1, <2>2, <2>3, <2>4 DEF FlashInv
<1>10. StepInv'
  BY <1>2, <1>5, <1>6 DEF StepInv, Busy, cur, alt
<1>11. ValueInv'
  BY <1>1, <1>2, <1>3, <1>6, <1>8 DEF ValueInv, Mounted
<1>12. LargeInv'
  <2>1. /\ Apart(Live(half[s].log)) /\ Intact(Live(half[s].log), complete, content)
        /\ MarkedBut(Live(half[s].log), op.key, used)
        /\ is_large(op) => OpApart(Live(half[s].log), op)
    BY <1>1, <1>2, <1>3, <1>5, <1>6 DEF LargeInv, Mounted, cur, Busy
  <2> QED
    BY <1>2, <1>5, <1>6, <1>8, <2>1 DEF LargeInv, Busy, cur
<1> QED
  BY <1>7, <1>9, <1>10, <1>11, <1>12 DEF Inv

\* The header makes the copy the mounted half, in which the same entries count.
LEMMA GcHeaderStep ==
  ASSUME Inv, GcHeader
  PROVE  Inv'
<1>0. PICK s, a : s = settings /\ a = 1 - settings
  OBVIOUS
<1> DEFINE g == half[s].gen + 1
<1>1. TypeInv /\ FlashInv /\ StepInv /\ ValueInv /\ LargeInv
  BY DEF Inv
<1>2. /\ pc = "gc_header"
      /\ half' = [half EXCEPT ![a].gen = g]
      /\ settings' = a
      /\ used' = LargePagesIn(half[a].log)
      /\ refused' = (free_space(half[a].log) < SpaceOf(op))
      /\ pc' = IF refused' THEN "idle" ELSE IF is_large(op) THEN "erase_pages" ELSE "data"
      /\ op' = IF refused' THEN NoOp ELSE op
      /\ UNCHANGED <<content, panic, committed, complete, crashes>>
  BY <1>0 DEF GcHeader, cur, alt
<1>3. Mounted(s) /\ op \in Kept
  BY <1>0, <1>1, <1>2, MountedHalf DEF StepInv, TypeInv, Busy
<1>4. settings = s /\ a = 1 - s /\ half[a].gen = 0 /\ half[s].gen < MaxGen /\ g = half[s].gen + 1
      /\ half[a].log = Compact(half[s].log)
  BY <1>0, <1>1, <1>2 DEF StepInv, cur, alt
<1> HIDE DEF g
<1>5. /\ half[s].log \in Seq(Kept) /\ half[a].log \in Seq(Kept)
      /\ Live(half[a].log) = Live(half[s].log)
      /\ Used(half[a].log) <= Used(half[s].log)
  BY <1>3, <1>4, CompactKeeps DEF Mounted
<1>6. /\ half' \in [{0, 1} -> Half] /\ half'[s] = half[s]
      /\ half'[a].gen = g /\ half'[a].log = half[a].log /\ half'[a].junk = half[a].junk
      /\ \A h \in {0, 1} : h = s \/ h = a
      /\ s \in {0, 1} /\ a \in {0, 1} /\ s # a /\ a # None /\ s # None /\ 1 - a = s
      /\ g > half[s].gen /\ g \in Nat /\ half[s].gen \in Nat
  <2>1. half \in [{0, 1} -> Half] /\ s \in {0, 1} /\ a \in {0, 1} /\ s # a /\ 1 - a = s
        /\ half[s].gen \in Nat /\ half[s].gen # 0 /\ (\A h \in {0, 1} : h = s \/ h = a)
        /\ half[a] \in Half
    BY <1>1, <1>3, <1>4 DEF TypeInv, Mounted
  <2>2. g > half[s].gen /\ g \in 0 .. MaxGen /\ g \in Nat
    BY <1>4, <2>1, Constants
  <2>3. /\ [half[a] EXCEPT !.gen = g] \in Half
        /\ [half[a] EXCEPT !.gen = g].gen = g
        /\ [half[a] EXCEPT !.gen = g].log = half[a].log
        /\ [half[a] EXCEPT !.gen = g].junk = half[a].junk
    BY <2>1, <2>2 DEF Half
  <2>4. half' \in [{0, 1} -> Half] /\ half'[s] = half[s] /\ half'[a] = [half[a] EXCEPT !.gen = g]
    BY <1>2, <2>1, <2>3
  <2> QED
    BY <2>1, <2>2, <2>3, <2>4, Constants
<1>7. TypeInv'
  <2>1. used' \in SUBSET (0 .. DataPages - 1)
    BY <1>2, <1>5, PagesLive
  <2>2. refused' \in BOOLEAN
    BY <1>2
  <2>3. Busy' => op' \in Kept
    BY <1>2, <1>3 DEF Busy
  <2>4. ~ Busy' => op' = NoOp
    BY <1>2 DEF Busy
  <2> QED
    BY <1>1, <1>2, <1>6, <2>1, <2>2, <2>3, <2>4 DEF TypeInv
<1>8. IsNewest(a)' /\ ~ IsNewest(s)'
  <2>1. half'[a].gen > half'[s].gen /\ ~ (half'[s].gen > half'[a].gen)
    BY <1>6
  <2> QED
    BY <1>4, <1>6, <2>1 DEF IsNewest
<1>9. FlashInv'
  <2>1. \A h \in {0, 1} : half'[h].junk => FALSE
    BY <1>1, <1>2, <1>6 DEF FlashInv
  <2>2. \A h \in {0, 1} : half'[h].gen # 0 => Used(half'[h].log) + EntrySize <= HalfSpace
    <3>1. Used(half[s].log) + EntrySize <= HalfSpace
      BY <1>1, <1>3, <1>6 DEF FlashInv, Mounted
    <3>2. Used(half[s].log) \in Nat /\ Used(half[a].log) \in Nat
      BY <1>5, UsedType
    <3>3. Used(half[a].log) + EntrySize <= HalfSpace
      BY <1>5, <3>1, <3>2, Constants
    <3> QED
      BY <1>6, <3>1, <3>3
  <2>3. half'[0].gen # half'[1].gen
    <3>1. half'[a].gen # half'[s].gen
      BY <1>6
    <3> QED
      BY <1>6, <3>1
  <2>4. IsNewest(settings)'
    BY <1>2, <1>8 DEF IsNewest
  <2> QED
    BY <2>1, <2>2, <2>3, <2>4 DEF FlashInv
<1>10. cur'.log = half[a].log
  BY <1>2, <1>6 DEF cur
<1>11. StepInv'
  <2>1. ~ refused' => Fits(half[a].log, op)
    <3>1. free_space(half[a].log) \in Nat /\ SpaceOf(op) \in Nat
      BY <1>3, <1>5, FitsIs, KeptEntry
    <3>2. ~ refused' => ~ (free_space(half[a].log) < SpaceOf(op))
      BY <1>2, Zenon
    <3>3. ~ (free_space(half[a].log) < SpaceOf(op)) => free_space(half[a].log) >= SpaceOf(op)
      BY <3>1
    <3> QED
      BY <3>2, <3>3 DEF Fits
  <2> QED
    BY <1>2, <1>6, <1>10, <2>1 DEF StepInv, Busy
<1>12. ValueInv'
  <2>1. SUFFICES ASSUME NEW k \in Keys
                 PROVE  Stored(half[a].log, k) = committed[k]
    BY <1>2, <1>6, <1>8 DEF ValueInv
  <2>2. Stored(half[s].log, k) = committed[k]
    BY <1>1, <1>3, <1>6 DEF ValueInv, Mounted
  <2>3. CASE \E e \in Live(half[s].log) : e.key = k
    BY <1>5, <2>2, <2>3, StoredLive
  <2>4. CASE \A e \in Live(half[s].log) : e.key # k
    BY <1>5, <2>2, <2>4, StoredLive
  <2> QED
    BY <2>3, <2>4
<1>13. LargeInv'
  <2>1. /\ Apart(Live(half[a].log)) /\ Intact(Live(half[a].log), complete, content)
        /\ is_large(op) => OpApart(Live(half[a].log), op)
    BY <1>1, <1>2, <1>3, <1>4, <1>5, <1>6 DEF LargeInv, Mounted, cur, Busy
  <2>2. MarkedBut(Live(half[a].log), op'.key, used')
    BY <1>2, <1>5, PagesLive DEF MarkedBut
  <2> QED
    BY <1>2, <1>6, <1>8, <1>10, <2>1, <2>2 DEF LargeInv, Busy
<1> QED
  BY <1>7, <1>9, <1>11, <1>12, <1>13 DEF Inv

------------------------------------------------------------------------------
(* The steps of jd_settings_prep_large and jd_settings_write_large. *)

\* The pages of the other current large values stay marked when those of one key are unmarked.
LEMMA UnmarkedIs ==
  ASSUME TypeInv, FlashInv, LargeInv, pc = "idle", settings # None, NEW k \in LargeKeys
  PROVE  /\ Unmarked(k) \in SUBSET (0 .. DataPages - 1)
         /\ MarkedBut(Live(cur.log), k, Unmarked(k))
<1> DEFINE log == cur.log
           L == Live(cur.log)
           i == find_entry(log, k)
<1>1. Mounted(settings)
  BY MountedHalf
<1>2. log \in Seq(Kept)
  BY <1>1 DEF Mounted, cur
<1>3. \A e \in L : is_large(e) => PagesOf(e) \subseteq used
  BY AllMarked
<1>4. Apart(L)
  BY <1>1 DEF LargeInv, cur, Mounted
<1>5. Unmarked(k) = IF i = 0 THEN used ELSE used \ PagesOf(log[i])
  BY DEF Unmarked, mark_large
<1>6. i # 0 => log[i] \in L /\ log[i].key = k
  BY <1>2, FindLive
<1>7. used \in SUBSET (0 .. DataPages - 1)
  BY DEF TypeInv
<1> HIDE DEF log, L, i
<1>8. Unmarked(k) \in SUBSET (0 .. DataPages - 1)
  BY <1>5, <1>7
<1>9. ASSUME NEW e \in L, is_large(e), e.key # k
      PROVE  PagesOf(e) \subseteq Unmarked(k)
  <2>1. CASE i = 0
    BY <1>3, <1>5, <1>9, <2>1
  <2>2. CASE i # 0
    <3>1. is_large(log[i])
      BY <1>6, <2>2 DEF is_large
    <3>2. PagesOf(e) \cap PagesOf(log[i]) = {}
      BY <1>4, <1>6, <1>9, <2>2, <3>1 DEF Apart
    <3> QED
      BY <1>3, <1>5, <1>9, <2>2, <3>2
  <2> QED
    BY <2>1, <2>2
<1> QED
  BY <1>8, <1>9 DEF MarkedBut, L

\* To unmark the pages of a key and to mark them again changes nothing.
LEMMA MarkedAgain ==
  ASSUME TypeInv, FlashInv, LargeInv, pc = "idle", settings # None, NEW k \in LargeKeys, NoRun(k)
  PROVE  used' = used
<1> DEFINE log == cur.log
           i == find_entry(log, k)
<1>1. used' = IF i = 0 THEN used ELSE (used \ PagesOf(log[i])) \cup PagesOf(log[i])
  BY DEF NoRun, Unmarked, mark_large
<1>2. log \in Seq(Kept)
  BY MountedHalf DEF Mounted, cur
<1>3. i # 0 => log[i] \in Live(log) /\ log[i].key = k
  BY <1>2, FindLive
<1>4. i # 0 => PagesOf(log[i]) \subseteq used
  BY <1>3, AllMarked DEF is_large
<1> HIDE DEF log, i
<1> QED
  BY <1>1, <1>4

\* find_free_data gives pages that are not marked.
LEMMA FreeRun ==
  ASSUME NEW marks \in SUBSET (0 .. DataPages - 1), NEW n \in LargePages,
         find_free_data(marks, n) # {}
  PROVE  /\ Min(find_free_data(marks, n)) \in 0 .. DataPages - n - 1
         /\ (Min(find_free_data(marks, n)) .. Min(find_free_data(marks, n)) + n - 1) \cap marks = {}
<1> DEFINE S == find_free_data(marks, n)
<1>1. S \in SUBSET Nat /\ n \in Nat
  BY Constants DEF find_free_data
<1> HIDE DEF S
<1>2. \E m \in S : \A j \in S : m <= j
  BY <1>1, LeastNatural DEF S
<1>3. Min(S) \in S
  BY <1>2 DEF Min
<1> QED
  BY <1>3 DEF S, find_free_data

\* A request for space: the pages of the old value are unmarked, nothing is written yet.
LEMMA PrepLargeStep ==
  ASSUME Inv, NEW k \in LargeKeys, NEW n \in LargePages, PrepLarge(k, n)
  PROVE  Inv'
<1> DEFINE runs == find_free_data(Unmarked(k), n)
<1>1. TypeInv /\ FlashInv /\ StepInv /\ ValueInv /\ LargeInv
  BY DEF Inv
<1>2. /\ pc = "idle" /\ settings # None
      /\ UNCHANGED <<half, content, settings, committed, complete, crashes>>
  BY DEF PrepLarge, Ready, flash
<1>3. cur' = cur /\ FlashInv' /\ ValueInv'
  <2>1. cur' = cur
    BY <1>2 DEF cur
  <2>2. FlashInv'
    BY <1>1, <1>2 DEF FlashInv, IsNewest
  <2>3. ValueInv'
    BY <1>1, <1>2 DEF ValueInv, IsNewest
  <2> QED
    BY <2>1, <2>2, <2>3
<1>4. CASE UNCHANGED <<used, pc, op>> /\ panic' \in BOOLEAN /\ refused' \in BOOLEAN
  <2>1. TypeInv'
    BY <1>1, <1>2, <1>4 DEF TypeInv, Busy
  <2>2. StepInv'
    BY <1>1, <1>2, <1>4 DEF StepInv, Busy
  <2>3. LargeInv'
    BY <1>1, <1>2, <1>3, <1>4 DEF LargeInv, Busy, IsNewest
  <2> QED
    BY <1>3, <2>1, <2>2, <2>3 DEF Inv
<1>5. CASE /\ runs # {} /\ used' = Unmarked(k)
           /\ op' = LargeEntry(k, Min(runs), n)
           /\ pc' = IF free_space(cur.log) < EntrySize THEN "gc_erase" ELSE "erase_pages"
           /\ refused' = FALSE
           /\ UNCHANGED panic
  <2> DEFINE e == LargeEntry(k, Min(runs), n)
  <2>1. /\ Unmarked(k) \in SUBSET (0 .. DataPages - 1)
        /\ MarkedBut(Live(cur.log), k, Unmarked(k))
    BY <1>1, <1>2, UnmarkedIs
  <2>2. /\ Min(runs) \in 0 .. DataPages - n - 1
        /\ (Min(runs) .. Min(runs) + n - 1) \cap Unmarked(k) = {}
    BY <1>5, <2>1, FreeRun
  <2> HIDE DEF runs
  <2>3. /\ e \in Kept /\ e.key = k /\ is_large(e) /\ PagesOf(e) = Min(runs) .. Min(runs) + n - 1
        /\ SpaceOf(e) = EntrySize
    <3>1. /\ Min(runs) \in Nat /\ n \in Nat /\ n # 0 /\ Min(runs) + n <= DataPages
      BY <2>2, Constants
    <3>2. e.key = k /\ e.val = None /\ e.off = Min(runs) /\ e.n = n /\ e \in Entry
      BY <3>1 DEF LargeEntry, Entry
    <3>3. is_large(e) /\ k \notin Keys
      BY <3>2, Constants DEF is_large
    <3> HIDE DEF e
    <3> QED
      BY <3>1, <3>2, <3>3, Constants DEF Kept, PagesOf, SpaceOf
  <2>4. op' = e
    BY <1>5
  <2> HIDE DEF e
  <2>5. TypeInv'
    BY <1>1, <1>2, <1>5, <2>1, <2>3, <2>4 DEF TypeInv, Busy
  <2>6. StepInv'
    <3>1. pc' = "erase_pages" => Fits(cur.log, e)
      <4>1. cur.log \in Seq(Kept)
        BY <1>1, <1>2, MountedHalf DEF Mounted, cur
      <4>2. free_space(cur.log) \in Nat
        BY <2>3, <4>1, FitsIs
      <4> QED
        BY <1>5, <2>3, <4>2, Constants DEF Fits
    <3> QED
      BY <1>2, <1>3, <1>5, <2>3, <2>4, <3>1 DEF StepInv, Busy
  <2>7. OpApart(Live(cur.log), e)
    BY <2>1, <2>2, <2>3 DEF OpApart, MarkedBut
  <2>8. LargeInv'
    BY <1>1, <1>2, <1>3, <1>5, <2>1, <2>3, <2>4, <2>7 DEF LargeInv, Busy, IsNewest
  <2> QED
    BY <1>3, <2>5, <2>6, <2>8 DEF Inv
<1>6. /\ panic \in BOOLEAN /\ refused \in BOOLEAN
  BY <1>1 DEF TypeInv
<1>7. NoRun(k) => used' = used
  BY <1>1, <1>2, MarkedAgain
<1> QED
  BY <1>4, <1>5, <1>6, <1>7 DEF PrepLarge

\* The pages are erased: they are pages of no other value.
LEMMA ErasePagesStep ==
  ASSUME Inv, ErasePages
  PROVE  Inv'
<1> DEFINE L == Live(cur.log)
<1>1. TypeInv /\ FlashInv /\ StepInv /\ ValueInv /\ LargeInv
  BY DEF Inv
<1>2. /\ pc = "erase_pages" /\ pc' = "large_entry"
      /\ content' = [p \in DOMAIN content |-> IF p \in PagesOf(op) THEN None ELSE content[p]]
      /\ complete' = complete \ {op.key}
      /\ UNCHANGED <<half, settings, used, op, panic, committed, refused, crashes>>
  BY DEF ErasePages
<1>3. op \in Kept /\ is_large(op) /\ settings # None
  BY <1>1, <1>2 DEF TypeInv, StepInv, Busy
<1>4. Mounted(settings)
  BY <1>1, <1>3, MountedHalf
<1>5. cur' = cur
  BY <1>2 DEF cur
<1>6. TypeInv'
  <2>1. content' \in [0 .. DataPages - 1 -> LargeKeys \cup {None}]
    BY <1>1, <1>2 DEF TypeInv
  <2> QED
    BY <1>1, <1>2, <2>1 DEF TypeInv, Busy
<1>7. FlashInv'
  BY <1>1, <1>2 DEF FlashInv, IsNewest
<1>8. StepInv'
  BY <1>1, <1>2, <1>5 DEF StepInv, Busy
<1>9. ValueInv'
  BY <1>1, <1>2 DEF ValueInv, IsNewest
<1>10. Apart(L) /\ Intact(L, complete, content) /\ OpApart(L, op) /\ MarkedBut(L, op.key, used)
  BY <1>1, <1>2, <1>3, <1>4 DEF LargeInv, Mounted, cur, Busy
<1>11. L \subseteq Kept
  BY <1>4, LiveEntries DEF Mounted, cur
<1>12. Intact(L, complete', content')
  <2>1. SUFFICES ASSUME NEW k \in complete, k # op.key
                 PROVE  \E e \in L : e.key = k /\ \A p \in PagesOf(e) : content'[p] = k
    BY <1>2 DEF Intact
  <2>2. PICK e \in L : e.key = k /\ \A p \in PagesOf(e) : content[p] = k
    BY <1>10 DEF Intact
  <2>3. is_large(e)
    BY <1>1, <2>2 DEF TypeInv, is_large
  <2>4. PagesOf(op) \cap PagesOf(e) = {}
    BY <1>10, <2>1, <2>2, <2>3 DEF OpApart
  <2>5. PagesOf(e) \subseteq DOMAIN content
    BY <1>1, <1>11, <2>3, KeptEntry DEF TypeInv
  <2> QED
    BY <1>2, <2>2, <2>4, <2>5
<1>13. LargeInv'
  <2>1. \A h \in {0, 1} : IsNewest(h)' => h = settings
    BY <1>2, <1>4 DEF Mounted, IsNewest
  <2> QED
    BY <1>2, <1>3, <1>5, <1>10, <1>12, <2>1 DEF LargeInv, Busy, cur
<1> QED
  BY <1>6, <1>7, <1>8, <1>9, <1>13 DEF Inv

\* The entry is programmed and its pages are marked.
LEMMA ProgramLargeEntryStep ==
  ASSUME Inv, ProgramLargeEntry
  PROVE  Inv'
<1>0. PICK s : s = settings
  OBVIOUS
<1>1. TypeInv /\ FlashInv /\ StepInv /\ ValueInv /\ LargeInv
  BY DEF Inv
<1>2. /\ pc = "large_entry" /\ pc' = "write_large"
      /\ half' = [half EXCEPT ![s].log = Append(@, op)]
      /\ used' = used \cup PagesOf(op)
      /\ UNCHANGED <<content, settings, op, panic, committed, complete, refused, crashes>>
  BY <1>0 DEF ProgramLargeEntry, mark_large
<1>3. Mounted(s) /\ s # None
  BY <1>0, <1>1, <1>2, MountedHalf DEF StepInv, Busy
<1>4. op \in Kept /\ is_large(op) /\ Fits(half[s].log, op) /\ op.key \notin Keys
      /\ PagesOf(op) \subseteq 0 .. DataPages - 1 /\ op.key \notin complete
  <2>1. op \in Kept /\ is_large(op) /\ Fits(half[s].log, op) /\ op.key \notin complete
    BY <1>0, <1>1, <1>2 DEF TypeInv, StepInv, LargeInv, Busy, cur
  <2> QED
    BY <2>1, KeptEntry
<1>5. Extended(s, op)
  <2> DEFINE t == Append(half[s].log, op)
  <2>1. half \in [{0, 1} -> Half] /\ s \in {0, 1} /\ half[s] \in Half /\ half[s].log \in Seq(Kept)
    BY <1>1, <1>3 DEF TypeInv, Mounted
  <2>2. /\ t \in Seq(Kept) /\ Used(t) + EntrySize <= HalfSpace
        /\ Live(t) = {op} \cup {f \in Live(half[s].log) : f.key # op.key}
    BY <1>4, <2>1, LiveAppend, FitsIs
  <2>3. /\ half'[s] = [half[s] EXCEPT !.log = t]
        /\ \A h \in {0, 1} : h # s => half'[h] = half[h]
    BY <1>2, <2>1
  <2> HIDE DEF t
  <2>4. /\ [half[s] EXCEPT !.log = t] \in Half
        /\ [half[s] EXCEPT !.log = t].gen = half[s].gen
        /\ [half[s] EXCEPT !.log = t].log = t
        /\ [half[s] EXCEPT !.log = t].junk = half[s].junk
    BY <2>1, <2>2 DEF Half
  <2>5. half' \in [{0, 1} -> Half]
    <3>1. \A h \in {0, 1} : half'[h] \in Half
      BY <2>1, <2>3, <2>4
    <3>2. half' = [h \in {0, 1} |-> half'[h]]
      BY <1>2, <2>1
    <3> QED
      BY <3>1, <3>2
  <2>6. \A h \in {0, 1} : half[h].junk = FALSE
    BY <1>1, <1>2, Halves DEF FlashInv
  <2>7. /\ half'[s].log = t /\ half'[s].gen = half[s].gen /\ half'[s].junk = FALSE
    BY <2>1, <2>3, <2>4, <2>6
  <2>8. \A h \in {0, 1} : /\ half'[h].gen = half[h].gen
                          /\ half'[h].junk = FALSE
                          /\ h # s => half'[h].log = half[h].log
    BY <2>3, <2>6, <2>7
  <2> QED
    BY <2>2, <2>5, <2>7, <2>8 DEF Extended, t
<1>6. s \in {0, 1}
  BY <1>3 DEF Mounted
<1>7. FlashInv' /\ \A h \in {0, 1} : IsNewest(h)' <=> IsNewest(h)
  BY <1>0, <1>2, <1>3, <1>5, ExtendedFlash
<1>8. TypeInv'
  <2>1. used' \in SUBSET (0 .. DataPages - 1)
    BY <1>1, <1>2, <1>4 DEF TypeInv
  <2> QED
    BY <1>1, <1>2, <1>5, <2>1 DEF TypeInv, Busy, Extended
<1>9. StepInv'
  BY <1>0, <1>2, <1>3, <1>4 DEF StepInv, Busy
<1> DEFINE L == Live(half[s].log)
           M == Live(half'[s].log)
<1>10. /\ M = {op} \cup {f \in L : f.key # op.key}
       /\ half'[s].log \in Seq(Kept) /\ half[s].log \in Seq(Kept)
  BY <1>3, <1>5, <1>6 DEF Extended, Mounted, Half
<1>11. ASSUME NEW h \in {0, 1}, IsNewest(h)'
       PROVE  h = s
  BY <1>3, <1>7, <1>11 DEF Mounted
<1>12. ValueInv'
  <2>1. SUFFICES ASSUME NEW k \in Keys
                 PROVE  Stored(half'[s].log, k) = committed[k]
    BY <1>2, <1>11 DEF ValueInv
  <2>2. Stored(half[s].log, k) = committed[k] /\ k # op.key
    BY <1>1, <1>3, <1>4, <1>6 DEF ValueInv, Mounted
  <2>3. CASE \E e \in L : e.key = k
    <3>1. PICK e \in L : e.key = k
      BY <2>3
    <3>2. e \in M
      BY <1>10, <2>2, <3>1
    <3>3. Stored(half[s].log, k) = e.val /\ Stored(half'[s].log, k) = e.val
      BY <1>10, <3>1, <3>2, StoredLive
    <3> QED
      BY <2>2, <3>3
  <2>4. CASE \A e \in L : e.key # k
    <3>1. \A e \in M : e.key # k
      BY <1>10, <2>2, <2>4
    <3>2. Stored(half[s].log, k) = None /\ Stored(half'[s].log, k) = None
      BY <1>10, <2>4, <3>1, StoredLive
    <3> QED
      BY <2>2, <3>2
  <2> QED
    BY <2>3, <2>4
<1>13. LargeInv'
  <2>1. /\ Apart(L) /\ Intact(L, complete, content) /\ MarkedBut(L, op.key, used) /\ OpApart(L, op)
    BY <1>0, <1>1, <1>2, <1>3, <1>4, <1>6 DEF LargeInv, Mounted, cur, Busy
  <2>2. \A e \in M : e = op \/ (e \in L /\ e.key # op.key)
    BY <1>10
  <2>3. op \in M /\ \A e \in L : e.key # op.key => e \in M
    BY <1>10
  <2> HIDE DEF L, M
  <2>4. Apart(M)
    <3>1. SUFFICES ASSUME NEW e \in M, NEW f \in M, is_large(e), is_large(f), e.key # f.key
                   PROVE  PagesOf(e) \cap PagesOf(f) = {}
      BY DEF Apart
    <3>2. CASE e = op
      BY <2>1, <2>2, <3>1, <3>2 DEF OpApart
    <3>3. CASE f = op
      BY <2>1, <2>2, <3>1, <3>3 DEF OpApart
    <3>4. CASE e # op /\ f # op
      BY <2>1, <2>2, <3>1, <3>4 DEF Apart
    <3> QED
      BY <3>2, <3>3, <3>4
  <2>5. Intact(M, complete, content)
    BY <1>4, <2>1, <2>3 DEF Intact
  <2>6. MarkedBut(M, op.key, used')
    BY <1>2, <2>1, <2>2 DEF MarkedBut
  <2>7. OpApart(M, op)
    BY <2>1, <2>2 DEF OpApart
  <2>8. Live(cur.log)' = M /\ \A h \in {0, 1} : IsNewest(h)' => Live(half'[h].log) = M
    BY <1>0, <1>2, <1>11 DEF cur, M
  <2> QED
    BY <1>2, <1>4, <2>3, <2>4, <2>5, <2>6, <2>7, <2>8 DEF LargeInv, Busy
<1> QED
  BY <1>7, <1>8, <1>9, <1>12, <1>13 DEF Inv

\* The caller writes the pages, and no others.
LEMMA WriteLargeStep ==
  ASSUME Inv, WriteLarge
  PROVE  Inv'
<1> DEFINE L == Live(cur.log)
<1>1. TypeInv /\ FlashInv /\ StepInv /\ ValueInv /\ LargeInv
  BY DEF Inv
<1>2. /\ pc = "write_large" /\ pc' = "idle" /\ op' = NoOp
      /\ content' = [p \in DOMAIN content |-> IF p \in PagesOf(op) THEN op.key ELSE content[p]]
      /\ complete' = complete \cup {op.key}
      /\ UNCHANGED <<half, settings, used, panic, committed, refused, crashes>>
  BY DEF WriteLarge
<1>3. op \in Kept /\ is_large(op) /\ settings # None /\ op.key \in LargeKeys
  BY <1>1, <1>2 DEF TypeInv, StepInv, Busy, is_large
<1>4. Mounted(settings)
  BY <1>1, <1>3, MountedHalf
<1>5. cur' = cur
  BY <1>2 DEF cur
<1>6. TypeInv'
  <2>1. content' \in [0 .. DataPages - 1 -> LargeKeys \cup {None}]
    BY <1>1, <1>2, <1>3 DEF TypeInv
  <2> QED
    BY <1>1, <1>2, <1>3, <2>1 DEF TypeInv, Busy
<1>7. FlashInv'
  <2>1. half[0].gen # half[1].gen
    BY <1>4 DEF Mounted
  <2> QED
    BY <1>1, <1>2, <2>1 DEF FlashInv, IsNewest
<1>8. StepInv'
  BY <1>2 DEF StepInv, Busy
<1>9. ValueInv'
  BY <1>1, <1>2 DEF ValueInv, IsNewest
<1>10. /\ Apart(L) /\ Intact(L, complete, content) /\ OpApart(L, op) /\ MarkedBut(L, op.key, used)
       /\ PagesOf(op) \subseteq used /\ op \in L
  BY <1>1, <1>2, <1>3, <1>4 DEF LargeInv, Mounted, cur, Busy
<1>11. L \subseteq Kept /\ \A e, f \in L : e.key = f.key => e = f
  BY <1>4, LiveEntries DEF Mounted, cur
<1>12. Intact(L, complete', content')
  <2>1. SUFFICES ASSUME NEW k \in complete'
                 PROVE  \E e \in L : e.key = k /\ \A p \in PagesOf(e) : content'[p] = k
    BY DEF Intact
  <2>2. CASE k = op.key
    <3>1. PagesOf(op) \subseteq DOMAIN content
      BY <1>1, <1>3, KeptEntry DEF TypeInv
    <3> QED
      BY <1>2, <1>10, <2>2, <3>1
  <2>3. CASE k # op.key
    <3>1. k \in complete
      BY <1>2, <2>3
    <3>2. PICK e \in L : e.key = k /\ \A p \in PagesOf(e) : content[p] = k
      BY <1>10, <3>1 DEF Intact
    <3>3. is_large(e)
      BY <1>1, <3>1, <3>2 DEF TypeInv, is_large
    <3>4. PagesOf(op) \cap PagesOf(e) = {}
      BY <1>10, <2>3, <3>2, <3>3 DEF OpApart
    <3>5. PagesOf(e) \subseteq DOMAIN content
      BY <1>1, <1>11, <3>3, KeptEntry DEF TypeInv
    <3> QED
      BY <1>2, <3>2, <3>4, <3>5
  <2> QED
    BY <2>2, <2>3
<1>13. MarkedBut(L, None, used)
  BY <1>10, <1>11 DEF MarkedBut
<1>14. LargeInv'
  <2>1. \A h \in {0, 1} : IsNewest(h)' => h = settings
    BY <1>2, <1>4 DEF Mounted, IsNewest
  <2> QED
    BY <1>2, <1>3, <1>5, <1>10, <1>12, <1>13, <2>1, Blank DEF LargeInv, Busy, cur
<1> QED
  BY <1>6, <1>7, <1>8, <1>9, <1>14 DEF Inv

------------------------------------------------------------------------------
(* Power failures, and the theorems. *)

\* Power fails, but not between a value and its entry.
LEMMA CrashStep ==
  ASSUME Inv, ~ TornWrites, Crash
  PROVE  Inv'
<1>1. TypeInv /\ FlashInv /\ StepInv /\ ValueInv /\ LargeInv
  BY DEF Inv
<1>2. /\ pc # "entry" /\ pc' = "idle" /\ op' = NoOp /\ settings' = None /\ used' = {}
      /\ panic' = FALSE /\ refused' = FALSE
      /\ UNCHANGED <<half, content, committed, complete>>
  BY DEF Crash, flash
<1>3. TypeInv'
  BY <1>1, <1>2 DEF TypeInv, Busy
<1>4. FlashInv'
  BY <1>1, <1>2 DEF FlashInv, IsNewest
<1>5. StepInv'
  BY <1>2 DEF StepInv, Busy
<1>6. ValueInv'
  BY <1>1, <1>2 DEF ValueInv, IsNewest
<1>7. LargeInv'
  BY <1>1, <1>2 DEF LargeInv, Busy, IsNewest
<1> QED
  BY <1>3, <1>4, <1>5, <1>6, <1>7 DEF Inv

\* Every step keeps the invariant.
LEMMA NextInv ==
  ASSUME Inv, ~ TornWrites, [Next]_vars
  PROVE  Inv'
<1>1. CASE Next
  BY <1>1, MountStep, FormatEraseStep, FormatHeaderStep, SetBinStep, ProgramDataStep,
     ProgramEntryStep, GcEraseStep, GcCopyStep, GcHeaderStep, PrepLargeStep, ErasePagesStep,
     ProgramLargeEntryStep, WriteLargeStep, CrashStep DEF Next
<1>2. CASE UNCHANGED vars
  <2>1. TypeInv' /\ FlashInv' /\ StepInv' /\ ValueInv' /\ LargeInv'
    BY <1>2 DEF Inv, TypeInv, FlashInv, StepInv, ValueInv, LargeInv, vars, Busy, IsNewest, cur, alt
  <2> QED
    BY <2>1 DEF Inv
<1> QED
  BY <1>1, <1>2

(***************************************************************************)
(* The inductive invariant of jd_fstor.c, as long as power does not fail   *)
(* between programming a value and programming its entry.                  *)
(***************************************************************************)
THEOREM Inductive ==
  ASSUME ~ TornWrites
  PROVE  Spec => []Inv
<1>1. Init => Inv
  BY InitInv
<1>2. Inv /\ [Next]_vars => Inv'
  BY NextInv
<1> QED
  BY <1>1, <1>2, PTL DEF Spec

(***************************************************************************)
(* Once mounted, jd_settings_get_bin returns what jd_settings_set_bin      *)
(* stored last, for any number of compactions and power failures at any    *)
(* other point.                                                            *)
(***************************************************************************)
THEOREM SettingsAreKept ==
  ASSUME ~ TornWrites
  PROVE  Spec => []SettingsSurvive
<1>1. Inv => SettingsSurvive
  <2>1. ASSUME Inv, settings # None
        PROVE  \A k \in Keys : Stored(cur.log, k) = committed[k]
    <3>1. Mounted(settings)
      BY <2>1, MountedHalf DEF Inv
    <3> QED
      BY <2>1, <3>1 DEF Inv, ValueInv, Mounted, cur
  <2> QED
    BY <2>1 DEF SettingsSurvive
<1> QED
  BY <1>1, Inductive, PTL

(***************************************************************************)
(* The log keeps an entry free to end it, current large values never share *)
(* a page, keep their data and are marked in used_data_pages between       *)
(* operations of jd_fstor.c.                                               *)
(***************************************************************************)
THEOREM AreasStayApart ==
  ASSUME ~ TornWrites
  PROVE  Spec => []AreasApart
<1>1. Inv => AreasApart
  <2> SUFFICES ASSUME Inv
               PROVE  AreasApart
    OBVIOUS
  <2>1. TypeInv /\ FlashInv /\ StepInv /\ ValueInv /\ LargeInv
    BY DEF Inv
  <2>2. TypeOK
    <3>1. \A h \in {0, 1} : /\ half[h].gen \in 0 .. MaxGen /\ half[h].junk \in BOOLEAN
                            /\ half[h].log \in Seq(Entry)
      BY <2>1, Halves, KeptLog DEF TypeInv, Half
    <3> QED
      BY <2>1, <3>1 DEF TypeInv, TypeOK
  <2>3. LogEnds
    BY <2>1 DEF FlashInv, LogEnds
  <2>4. LargeIntact
    <3>1. SUFFICES ASSUME settings # None, NEW k \in complete
                   PROVE  /\ LargeAt(cur.log, k) # {}
                          /\ \A p \in LargeAt(cur.log, k) : content[p] = k
      BY DEF LargeIntact
    <3>2. Mounted(settings)
      BY <2>1, <3>1, MountedHalf
    <3>3. cur.log \in Seq(Kept)
      BY <3>2 DEF Mounted, cur
    <3>4. Intact(Live(cur.log), complete, content)
      BY <2>1, <3>2 DEF LargeInv, Mounted, cur
    <3>5. PICK e \in Live(cur.log) : e.key = k /\ \A p \in PagesOf(e) : content[p] = k
      BY <3>1, <3>4 DEF Intact
    <3>6. LargeAt(cur.log, k) = PagesOf(e)
      BY <3>3, <3>5, StoredLive
    <3>7. PagesOf(e) # {}
      <4>1. is_large(e)
        BY <2>1, <3>1, <3>5 DEF TypeInv, is_large
      <4>2. e \in Kept
        BY <3>3, <3>5, LiveEntries
      <4> QED
        BY <4>1, <4>2, KeptEntry
    <3> QED
      BY <3>5, <3>6, <3>7
  <2>5. LivePagesMarked
    <3>1. SUFFICES ASSUME Ready
                   PROVE  LargePagesIn(cur.log) \subseteq used
      BY DEF LivePagesMarked
    <3>2. pc = "idle" /\ settings # None
      BY <3>1 DEF Ready
    <3>3. Mounted(settings)
      BY <2>1, <3>2, MountedHalf
    <3>4. cur.log \in Seq(Kept)
      BY <3>3 DEF Mounted, cur
    <3>5. \A e \in Live(cur.log) : is_large(e) => PagesOf(e) \subseteq used
      BY <2>1, <3>2, AllMarked
    <3> QED
      BY <3>4, <3>5, PagesLive
  <2> QED
    BY <2>2, <2>3, <2>4, <2>5 DEF AreasApart
<1> QED
  BY <1>1, Inductive, PTL

-----------------------------------------------------------------------------
(***************************************************************************)
(* The settings service over such a store (JdSettings), for payloads and   *)
(* keys of every length.                                                   *)
(***************************************************************************)
CONSTANTS MAX_KEY_SIZE, Payloads, MaxRequests
VARIABLES store, report, requests

Stg == INSTANCE JdSettings

StgSizes == MAX_KEY_SIZE \in Nat /\ Payloads \subseteq Seq(Nat)

Bytes == Seq(Nat)

\* The end of the string at the start of data.
Ends(data, e) ==
  /\ e \in 1 .. Len(data) + 1
  /\ \A j \in 1 .. e - 1 : data[j] # 0
  /\ e <= Len(data) => data[e] = 0

LEMMA StringEnds ==
  ASSUME NEW data \in Bytes
  PROVE  \E e : /\ Ends(data, e) /\ e \in Nat \ {0}
                /\ Stg!Meant(data) = [key |-> SubSeq(data, 1, e - 1), value |-> SubSeq(data, e + 1, Len(data))]
<1> DEFINE zeros == {i \in DOMAIN data : data[i] = 0}
           end == IF zeros = {} THEN Len(data) + 1 ELSE CHOOSE i \in zeros : \A j \in zeros : i <= j
<1>1. Len(data) \in Nat /\ DOMAIN data = 1 .. Len(data)
  BY DEF Bytes
<1>2. Stg!Meant(data) = [key |-> SubSeq(data, 1, end - 1), value |-> SubSeq(data, end + 1, Len(data))]
  BY DEF Stg!Meant
<1>3. Ends(data, end) /\ end \in Nat \ {0}
  <2>1. CASE zeros = {}
    BY <1>1, <2>1 DEF Ends
  <2>2. CASE zeros # {}
    <3>1. zeros \in SUBSET Nat
      BY <1>1
    <3>2. \E m \in zeros : \A k \in zeros : m <= k
      <4> HIDE DEF zeros
      <4> QED
        BY <2>2, <3>1, LeastNatural
    <3>3. end \in zeros /\ \A k \in zeros : end <= k
      <4> HIDE DEF zeros
      <4> QED
        BY <2>2, <3>2
    <3> HIDE DEF end
    <3> QED
      BY <1>1, <3>3 DEF Ends
  <2> QED
    BY <2>1, <2>2
<1> HIDE DEF end
<1> QED
  BY <1>2, <1>3

\* strlen finds it.
LEMMA StrLenEnds ==
  ASSUME NEW bytes \in Bytes, NEW e \in Nat \ {0}, Ends(bytes, e)
  PROVE  Stg!StrLen(bytes) = e - 1
<1> DEFINE I == {i \in 1 .. Len(bytes) : bytes[i] = 0}
           m == CHOOSE x \in I : \A y \in I : x =< y
           zero == IF I # {} THEN m ELSE 0
<1>1. Stg!StrLen(bytes) = IF zero = 0 THEN Len(bytes) ELSE zero - 1
  BY Zenon DEF Stg!StrLen, Stg!SelectInSeq, Stg!Min
<1>2. Len(bytes) \in Nat
  BY DEF Bytes
<1>3. CASE I = {}
  BY <1>1, <1>2, <1>3 DEF Ends
<1>4. CASE I # {}
  <2>1. e \in I /\ \A k \in I : e <= k
    BY <1>2, <1>4 DEF Ends
  <2>2. I \subseteq Nat
    BY <1>2
  <2> HIDE DEF I
  <2>3. m \in I /\ \A y \in I : m =< y
    BY <2>1
  <2> HIDE DEF m
  <2>4. m = e
    BY <2>1, <2>2, <2>3
  <2> QED
    BY <1>1, <1>4, <2>4
<1> QED
  BY <1>3, <1>4

\* What the service takes for the key is what the client means by it, unless both are too
\* long.
LEMMA KeyMeant ==
  ASSUME StgSizes, NEW data \in Bytes
  PROVE  /\ Stg!Meant(data).key \in Bytes /\ Stg!Key(data) \in Bytes
         /\ Len(Stg!Key(data)) <= MAX_KEY_SIZE <=> Len(Stg!Meant(data).key) <= MAX_KEY_SIZE
         /\ Len(Stg!Key(data)) <= MAX_KEY_SIZE =>
              /\ Stg!Key(data) = Stg!Meant(data).key
              /\ SubSeq(data, Len(Stg!Key(data)) + 2, Len(data)) = Stg!Meant(data).value
<1>1. PICK e : /\ Ends(data, e) /\ e \in Nat \ {0}
               /\ Stg!Meant(data) = [key |-> SubSeq(data, 1, e - 1), value |-> SubSeq(data, e + 1, Len(data))]
  BY StringEnds
<1>2. Len(data) \in Nat /\ MAX_KEY_SIZE \in Nat /\ e <= Len(data) + 1 /\ data \in Seq(Nat)
  BY <1>1 DEF Bytes, StgSizes, Ends
<1> DEFINE n == IF Len(data) >= MAX_KEY_SIZE + 1 THEN MAX_KEY_SIZE + 1 ELSE Len(data)
           c == SubSeq(data, 1, n)
           k == IF e - 1 <= n THEN e - 1 ELSE n
<1>3. n \in 0 .. Len(data) /\ n <= MAX_KEY_SIZE + 1 /\ n \in Nat /\ k \in 0 .. Len(data) /\ k \in Nat
  BY <1>1, <1>2
<1>4. n < Len(data) => n = MAX_KEY_SIZE + 1
  BY <1>2
<1>5. c \in Bytes /\ Len(c) = n /\ \A i \in 1 .. n : c[i] = data[i]
  <2> HIDE DEF n
  <2> QED
    BY <1>2, <1>3, SubSeqProperties DEF Bytes
<1>6. Stg!Copied(data) = c
  BY DEF Stg!Copied
<1> HIDE DEF c, n
<1>7. Ends(c, k + 1) /\ k + 1 \in Nat \ {0}
  <2>1. Len(data) \in Nat /\ e \in 1 .. Len(data) + 1 /\ (\A j \in 1 .. e - 1 : data[j] # 0)
        /\ (e <= Len(data) => data[e] = 0)
    BY <1>1, <1>2 DEF Ends
  <2>2. k = (IF e - 1 <= n THEN e - 1 ELSE n) /\ n \in 0 .. Len(data)
    BY <1>3
  <2> HIDE DEF k
  <2>3. k + 1 \in 1 .. n + 1 /\ k + 1 \in Nat \ {0} /\ k <= n /\ k <= e - 1
        /\ (k + 1 <= n => e = k + 1 /\ e <= Len(data)) /\ 1 .. (k + 1) - 1 = 1 .. k
    BY ONLY <2>1, <2>2
  <2>4. \A j \in 1 .. k : c[j] # 0
    <3>1. \A j \in 1 .. k : j \in 1 .. n /\ j \in 1 .. e - 1
      BY ONLY <2>1, <2>2, <2>3
    <3> QED
      BY ONLY <1>5, <2>1, <3>1
  <2>5. k + 1 <= n => c[k + 1] = 0
    BY ONLY <1>5, <2>1, <2>3
  <2> QED
    BY ONLY <1>5, <2>3, <2>4, <2>5 DEF Ends
<1>8. Stg!StrLen(c) = k
  BY <1>3, <1>5, <1>7, StrLenEnds
<1>9. Stg!Key(data) = SubSeq(data, 1, k)
  BY <1>6, <1>8 DEF Stg!Key
<1>10. SubSeq(data, 1, k) \in Bytes /\ Len(SubSeq(data, 1, k)) = k
  <2> HIDE DEF k
  <2> QED
    BY <1>2, <1>3, SubSeqProperties DEF Bytes
<1>11. SubSeq(data, 1, e - 1) \in Bytes /\ Len(SubSeq(data, 1, e - 1)) = e - 1
  <2>1. e - 1 \in 0 .. Len(data)
    BY <1>1, <1>2
  <2> QED
    BY <1>1, <1>2, <2>1, SubSeqProperties DEF Bytes
<1>12. k <= MAX_KEY_SIZE <=> e - 1 <= MAX_KEY_SIZE
  BY <1>1, <1>2, <1>3, <1>4
<1>13. k <= MAX_KEY_SIZE => k = e - 1
  BY <1>1, <1>2, <1>3, <1>4
<1>14. Stg!Meant(data).key = SubSeq(data, 1, e - 1) /\ Stg!Meant(data).value = SubSeq(data, e + 1, Len(data))
  BY <1>1
<1> HIDE DEF k
<1>15. k <= MAX_KEY_SIZE => k + 2 = e + 1
  BY <1>1, <1>3, <1>13
<1> QED
  BY <1>9, <1>10, <1>11, <1>12, <1>13, <1>14, <1>15

Request == [cmd : {"get", "delete", "set"}, data : Bytes, taken : BOOLEAN]

\* The changes of the key among the first n - 1 requests of rs, and what the last of them
\* has left.
Changes(rs, key, n) ==
  {i \in 1 .. n - 1 : rs[i].cmd # "get" /\ rs[i].taken /\ Stg!Meant(rs[i].data).key = key}
Leaves(r) == IF r.cmd = "delete" THEN <<>> ELSE Stg!Meant(r.data).value
Value(rs, key, n) ==
  IF Changes(rs, key, n) = {} THEN <<>>
  ELSE Leaves(rs[CHOOSE i \in Changes(rs, key, n) : \A j \in Changes(rs, key, n) : i >= j])

LEMMA LastValueIs ==
  ASSUME NEW key, NEW n
  PROVE  Stg!LastValue(key, n) = Value(requests, key, n)
  BY Zenon DEF Stg!LastValue, Value, Changes, Leaves

\* A request that does not change the key.
LEMMA OtherRequest ==
  ASSUME NEW rs \in Seq(Request), NEW r \in Request, NEW key, NEW n \in 1 .. Len(rs) + 2,
         n <= Len(rs) + 1 \/ r.cmd = "get" \/ ~ r.taken \/ Stg!Meant(r.data).key # key
  PROVE  Value(Append(rs, r), key, n) = Value(rs, key, IF n <= Len(rs) + 1 THEN n ELSE n - 1)
<1> DEFINE q == Append(rs, r)
           m == IF n <= Len(rs) + 1 THEN n ELSE n - 1
<1>1. Len(rs) \in Nat /\ n \in Nat /\ m \in Nat /\ m <= Len(rs) + 1 /\ m <= n
  OBVIOUS
<1>2. \A i \in 1 .. Len(rs) : q[i] = rs[i]
  OBVIOUS
<1>3. q[Len(rs) + 1] = r
  OBVIOUS
<1>4. \A i \in 1 .. n - 1 : i \in 1 .. m - 1 \/ (i = Len(rs) + 1 /\ n > Len(rs) + 1)
  BY <1>1
<1>5. 1 .. m - 1 \subseteq 1 .. n - 1 /\ 1 .. m - 1 \subseteq 1 .. Len(rs)
  BY <1>1
<1>6. n > Len(rs) + 1 => ~ n <= Len(rs) + 1
  BY <1>1
<1> HIDE DEF q, m
<1>7. Changes(q, key, n) = Changes(rs, key, m)
  <2>1. ASSUME NEW i \in Changes(q, key, n)
        PROVE  i \in Changes(rs, key, m)
    <3>1. i \in 1 .. n - 1 /\ q[i].cmd # "get" /\ q[i].taken /\ Stg!Meant(q[i].data).key = key
      BY DEF Changes
    <3>2. i \in 1 .. m - 1
      BY <1>3, <1>4, <1>6, <3>1
    <3> QED
      BY <1>2, <1>5, <3>1, <3>2 DEF Changes
  <2>2. ASSUME NEW i \in Changes(rs, key, m)
        PROVE  i \in Changes(q, key, n)
    BY <1>2, <1>5 DEF Changes
  <2> QED
    BY <2>1, <2>2
<1>8. CASE Changes(rs, key, m) = {}
  BY <1>7, <1>8 DEF Value, q, m
<1>9. CASE Changes(rs, key, m) # {}
  <2> DEFINE S == Changes(rs, key, m)
             x == CHOOSE i \in S : \A j \in S : i >= j
  <2>1. S \subseteq 1 .. m - 1
    BY DEF Changes
  <2>2. x \in S
    <3>1. S \in SUBSET (0 .. Len(rs)) /\ S # {}
      BY <1>1, <1>9, <2>1
    <3> HIDE DEF S
    <3>2. \E i \in S : \A j \in S : j <= i
      BY <1>1, <3>1, GreatestNatural
    <3>3. \E i \in S : \A j \in S : i >= j
      BY <3>1, <3>2
    <3> QED
      BY <3>3
  <2>3. q[x] = rs[x]
    BY <1>2, <1>5, <2>1, <2>2
  <2>4. Value(q, key, n) = Leaves(q[x]) /\ Value(rs, key, m) = Leaves(rs[x])
    BY <1>7, <1>9 DEF Value
  <2> QED
    BY <2>3, <2>4 DEF q, m
<1> QED
  BY <1>8, <1>9

\* A request that changes it.
LEMMA ThisRequest ==
  ASSUME NEW rs \in Seq(Request), NEW r \in Request, r.cmd # "get", r.taken
  PROVE  Value(Append(rs, r), Stg!Meant(r.data).key, Len(rs) + 2) = Leaves(r)
<1> DEFINE q == Append(rs, r)
           key == Stg!Meant(r.data).key
           S == Changes(q, key, Len(rs) + 2)
           x == CHOOSE i \in S : \A j \in S : i >= j
<1>1. Len(rs) \in Nat /\ q[Len(rs) + 1] = r
  OBVIOUS
<1>2. Len(rs) + 1 \in S
  BY <1>1 DEF Changes
<1>3. S \subseteq 1 .. Len(rs) + 1
  BY <1>1 DEF Changes
<1>4. Value(q, key, Len(rs) + 2) = Leaves(q[x])
  BY <1>2 DEF Value
<1> HIDE DEF S
<1>5. \A j \in S : Len(rs) + 1 >= j
  BY <1>1, <1>3
<1>6. x \in S /\ \A j \in S : x >= j
  BY <1>2, <1>5
<1>7. x = Len(rs) + 1
  <2> HIDE DEF x
  <2> QED
    BY <1>1, <1>2, <1>3, <1>6
<1> QED
  BY <1>1, <1>4, <1>7

\* The store st holds what the requests rs have left.
Holds(st, rs) ==
  /\ \A e \in st : Len(e.key) <= MAX_KEY_SIZE /\ e.value = Value(rs, e.key, Len(rs) + 1)
  /\ \A key : (\A e \in st : e.key # key) => Value(rs, key, Len(rs) + 1) = <<>>

Answered(rep, rs) ==
  Len(rs) > 0 /\ rs[Len(rs)].cmd = "get" =>
    LET key == Stg!Meant(rs[Len(rs)].data).key
    IN  rep = IF Len(key) > MAX_KEY_SIZE THEN Stg!NoReport ELSE key \o <<0>> \o Value(rs, key, Len(rs))

StgInv == requests \in Seq(Request) /\ Holds(store, requests) /\ Answered(report, requests)

LEMMA HoldsSame ==
  ASSUME NEW rs \in Seq(Request), NEW r \in Request, r.cmd = "get" \/ ~ r.taken, NEW st, Holds(st, rs)
  PROVE  Holds(st, Append(rs, r))
<1>1. Len(rs) \in Nat /\ Len(Append(rs, r)) + 1 = Len(rs) + 2 /\ ~ Len(rs) + 2 <= Len(rs) + 1
       /\ (Len(rs) + 2) - 1 = Len(rs) + 1 /\ Len(rs) + 2 \in 1 .. Len(rs) + 2
  OBVIOUS
<1>2. ASSUME NEW key
      PROVE  Value(Append(rs, r), key, Len(rs) + 2) = Value(rs, key, Len(rs) + 1)
  BY <1>1, OtherRequest
<1> QED
  BY <1>1, <1>2 DEF Holds

LEMMA HoldsChanged ==
  ASSUME NEW rs \in Seq(Request), NEW r \in Request, r.cmd # "get", r.taken, NEW st, Holds(st, rs),
         NEW key, key = Stg!Meant(r.data).key, Len(key) <= MAX_KEY_SIZE
  PROVE  Holds({e \in st : e.key # key} \cup {[key |-> key, value |-> Leaves(r)]}, Append(rs, r))
<1> DEFINE new == [key |-> key, value |-> Leaves(r)]
           now == {e \in st : e.key # key} \cup {new}
           q == Append(rs, r)
<1>1. Len(rs) \in Nat /\ Len(q) + 1 = Len(rs) + 2 /\ ~ Len(rs) + 2 <= Len(rs) + 1
       /\ (Len(rs) + 2) - 1 = Len(rs) + 1 /\ Len(rs) + 2 \in 1 .. Len(rs) + 2
  OBVIOUS
<1>2. ASSUME NEW k, k # key
      PROVE  Value(q, k, Len(rs) + 2) = Value(rs, k, Len(rs) + 1)
  BY <1>1, <1>2, OtherRequest
<1>3. Value(q, key, Len(rs) + 2) = Leaves(r)
  BY ThisRequest
<1>4. new.key = key /\ new.value = Leaves(r) /\ new \in now
  OBVIOUS
<1> HIDE DEF q, new
<1>5. ASSUME NEW e \in now
      PROVE  Len(e.key) <= MAX_KEY_SIZE /\ e.value = Value(q, e.key, Len(rs) + 2)
  <2>1. CASE e \in st /\ e.key # key
    BY <1>2, <2>1 DEF Holds
  <2>2. CASE e = new
    BY <1>3, <1>4, <2>2
  <2> QED
    BY <2>1, <2>2
<1>6. ASSUME NEW k, \A e \in now : e.key # k
      PROVE  Value(q, k, Len(rs) + 2) = <<>>
  <2>1. k # key
    BY <1>4, <1>6
  <2>2. \A e \in st : e.key # k
    BY <1>6, <2>1
  <2> QED
    BY <1>2, <2>1, <2>2 DEF Holds
<1> HIDE DEF now
<1>7. Holds(now, q)
  BY <1>1, <1>5, <1>6 DEF Holds
<1> QED
  BY <1>7 DEF now, new, q

\* What the store gives.
LEMMA GetGives ==
  ASSUME Holds(store, requests), NEW key
  PROVE  Stg!jd_settings_get_bin(key) = Value(requests, key, Len(requests) + 1)
<1>1. CASE \E e \in store : e.key = key
  <2> DEFINE x == CHOOSE e \in store : e.key = key
  <2>1. x \in store /\ x.key = key
    BY <1>1
  <2>2. Stg!jd_settings_get_bin(key) = x.value
    BY <1>1 DEF Stg!jd_settings_get_bin
  <2> HIDE DEF x
  <2> QED
    BY <2>1, <2>2 DEF Holds
<1>2. CASE ~ \E e \in store : e.key = key
  BY <1>2 DEF Stg!jd_settings_get_bin, Holds
<1> QED
  BY <1>1, <1>2

LEMMA NotedRequest ==
  ASSUME NEW rs \in Seq(Request), NEW r \in Request
  PROVE  /\ Append(rs, r) \in Seq(Request) /\ Len(Append(rs, r)) = Len(rs) + 1
         /\ Append(rs, r)[Len(rs) + 1] = r /\ Len(rs) \in Nat
  OBVIOUS

LEMMA SettingsStep ==
  ASSUME StgSizes, StgInv, NEW data \in Payloads, NEW space \in BOOLEAN, NEW cmd \in {"get", "delete", "set"},
         \/ Stg!SettingsGet(data) \/ Stg!SettingsDelete(data, space) \/ Stg!SettingsSet(data, space)
         \/ Stg!SettingsIgnored(cmd, data)
  PROVE  StgInv'
<1> DEFINE key == Stg!Meant(data).key
           Req(c, t) == [cmd |-> c, data |-> data, taken |-> t]
<1>1. data \in Bytes /\ MAX_KEY_SIZE \in Nat
  BY DEF StgSizes, Bytes
<1>2. requests \in Seq(Request) /\ Holds(store, requests) /\ Answered(report, requests) /\ Len(requests) \in Nat
  BY DEF StgInv
<1>3. /\ key \in Bytes /\ Len(Stg!Key(data)) \in Nat /\ Len(key) \in Nat
      /\ Len(Stg!Key(data)) <= MAX_KEY_SIZE <=> Len(key) <= MAX_KEY_SIZE
      /\ Len(Stg!Key(data)) <= MAX_KEY_SIZE =>
           Stg!Key(data) = key /\ SubSeq(data, Len(Stg!Key(data)) + 2, Len(data)) = Stg!Meant(data).value
  BY <1>1, KeyMeant DEF Bytes
<1>4. ASSUME NEW c \in {"get", "delete", "set"}, NEW t \in BOOLEAN
      PROVE  /\ Req(c, t) \in Request /\ Req(c, t).cmd = c /\ Req(c, t).taken = t /\ Req(c, t).data = data
             /\ Leaves(Req(c, t)) = (IF c = "delete" THEN <<>> ELSE Stg!Meant(data).value)
  BY <1>1 DEF Request, Leaves
<1>5. ASSUME NEW c, NEW t, Stg!Note(c, data, t)
      PROVE  requests' = Append(requests, Req(c, t))
  BY <1>5 DEF Stg!Note
<1> HIDE DEF Req, key
<1>6. CASE Stg!SettingsGet(data)
  <2>1. /\ Len(Stg!Key(data)) <= MAX_KEY_SIZE /\ store' = store
        /\ report' = Stg!Key(data) \o <<0>> \o Stg!jd_settings_get_bin(Stg!Key(data))
        /\ requests' = Append(requests, Req("get", TRUE))
    BY <1>5, <1>6 DEF Stg!SettingsGet, Stg!Handled
  <2>2. report' = key \o <<0>> \o Value(requests, key, Len(requests) + 1) /\ Len(key) <= MAX_KEY_SIZE
    BY <1>2, <1>3, <2>1, GetGives
  <2>3. /\ requests' \in Seq(Request) /\ Len(requests') = Len(requests) + 1
        /\ requests'[Len(requests) + 1] = Req("get", TRUE)
    BY <1>2, <1>4, <2>1, NotedRequest
  <2>4. Value(requests', key, Len(requests) + 1) = Value(requests, key, Len(requests) + 1)
    <3>1. Len(requests) + 1 \in 1 .. Len(requests) + 2 /\ Len(requests) + 1 <= Len(requests) + 1
      BY <1>2
    <3> QED
      BY <1>2, <1>4, <2>1, <3>1, OtherRequest
  <2>5. Answered(report', requests')
    <3>1. Stg!Meant(requests'[Len(requests')].data).key = key
      BY <1>4, <2>3 DEF key
    <3>2. ~ Len(key) > MAX_KEY_SIZE
      BY <1>1, <1>3, <2>2
    <3> QED
      BY <2>2, <2>3, <2>4, <3>1, <3>2 DEF Answered
  <2>6. Holds(store', requests')
    BY <1>2, <1>4, <2>1, HoldsSame
  <2> QED
    BY <2>3, <2>5, <2>6 DEF StgInv
<1>7. ASSUME NEW c \in {"delete", "set"}, NEW v, v = (IF c = "delete" THEN <<>> ELSE Stg!Meant(data).value),
             Len(Stg!Key(data)) <= MAX_KEY_SIZE, Stg!jd_settings_set_bin(Stg!Key(data), v, space),
             requests' = Append(requests, Req(c, space))
      PROVE  StgInv'
  <2>1. /\ requests' \in Seq(Request) /\ Len(requests') = Len(requests) + 1
        /\ requests'[Len(requests) + 1] = Req(c, space)
    BY <1>2, <1>4, <1>7, NotedRequest
  <2>2. Answered(report', requests')
    BY <1>4, <2>1 DEF Answered
  <2>3. store' = IF space THEN {e \in store : e.key # key} \cup {[key |-> key, value |-> v]} ELSE store
    BY <1>3, <1>7 DEF Stg!jd_settings_set_bin
  <2>4. Holds(store', requests')
    <3>1. CASE ~ space
      <4>1. store' = store
        BY <2>3, <3>1
      <4>2. Req(c, space) \in Request /\ ~ Req(c, space).taken
        BY <1>4, <3>1
      <4> QED
        BY <1>2, <1>7, <4>1, <4>2, HoldsSame
    <3>2. CASE space
      <4>1. Req(c, space) \in Request /\ Req(c, space).taken /\ Req(c, space).cmd # "get"
             /\ key = Stg!Meant(Req(c, space).data).key /\ Leaves(Req(c, space)) = v
        BY <1>4, <1>7, <3>2 DEF key
      <4>2. store' = {e \in store : e.key # key} \cup {[key |-> key, value |-> Leaves(Req(c, space))]}
        BY <2>3, <3>2, <4>1
      <4>3. Len(key) <= MAX_KEY_SIZE
        BY <1>3, <1>7
      <4> QED
        BY <1>2, <1>7, <4>1, <4>2, <4>3, HoldsChanged
    <3> QED
      BY <3>1, <3>2
  <2> QED
    BY <2>1, <2>2, <2>4 DEF StgInv
<1>8. CASE Stg!SettingsDelete(data, space)
  <2>1. Stg!jd_settings_set_bin(Stg!Key(data), <<>>, space) /\ Len(Stg!Key(data)) <= MAX_KEY_SIZE
         /\ requests' = Append(requests, Req("delete", space))
    BY <1>5, <1>8 DEF Stg!SettingsDelete, Stg!Handled
  <2> QED
    BY <1>7, <2>1
<1>9. CASE Stg!SettingsSet(data, space)
  <2>1. Stg!jd_settings_set_bin(Stg!Key(data), SubSeq(data, Len(Stg!Key(data)) + 2, Len(data)), space)
         /\ Len(Stg!Key(data)) <= MAX_KEY_SIZE /\ requests' = Append(requests, Req("set", space))
    BY <1>5, <1>9 DEF Stg!SettingsSet, Stg!Handled
  <2>2. Stg!jd_settings_set_bin(Stg!Key(data), Stg!Meant(data).value, space)
    BY <1>3, <2>1
  <2> QED
    BY <1>7, <2>1, <2>2
<1>10. CASE Stg!SettingsIgnored(cmd, data)
  <2>1. /\ Len(Stg!Key(data)) > MAX_KEY_SIZE /\ store' = store /\ report' = Stg!NoReport
        /\ requests' = Append(requests, Req(cmd, FALSE))
    BY <1>5, <1>10 DEF Stg!SettingsIgnored
  <2>2. /\ requests' \in Seq(Request) /\ Len(requests') = Len(requests) + 1
        /\ requests'[Len(requests) + 1] = Req(cmd, FALSE)
    BY <1>2, <1>4, <2>1, NotedRequest
  <2>3. Len(key) > MAX_KEY_SIZE
    BY <1>1, <1>3, <2>1
  <2>4. Stg!Meant(requests'[Len(requests')].data).key = key
    <3>1. Req(cmd, FALSE).data = data
      BY <1>4
    <3> QED
      BY <2>2, <3>1 DEF key
  <2>5. Answered(report', requests')
    BY <2>1, <2>3, <2>4 DEF Answered
  <2>6. Holds(store', requests')
    BY <1>2, <1>4, <2>1, HoldsSame
  <2> QED
    BY <2>2, <2>5, <2>6 DEF StgInv
<1> QED
  BY <1>6, <1>8, <1>9, <1>10

\* The settings service (settings.c): for keys of any length and payloads with or without
\* a zero, a get is answered with the key and the value last set for exactly that key, and
\* a key that is too long is neither answered nor cut.
THEOREM SettingsAnswer == StgSizes => (Stg!Spec => []Stg!GetsWhatWasSet)
<1> SUFFICES ASSUME StgSizes
             PROVE  Stg!Spec => []Stg!GetsWhatWasSet
  OBVIOUS
<1>1. Stg!Init => StgInv
  <2> SUFFICES ASSUME store = {}, requests = <<>>
               PROVE  StgInv
    BY DEF Stg!Init
  <2>1. requests \in Seq(Request) /\ Len(requests) = 0
    OBVIOUS
  <2>2. \A key : Value(requests, key, 1) = <<>>
    BY DEF Value, Changes
  <2> QED
    BY <2>1, <2>2 DEF StgInv, Holds, Answered
<1>2. StgInv /\ [Stg!Next]_(Stg!vars) => StgInv'
  <2> SUFFICES ASSUME StgInv, [Stg!Next]_(Stg!vars)
               PROVE  StgInv'
    OBVIOUS
  <2>1. CASE Stg!Next
    BY <2>1, SettingsStep DEF Stg!Next
  <2>2. CASE UNCHANGED Stg!vars
    BY <2>2 DEF Stg!vars, StgInv
  <2> QED
    BY <2>1, <2>2
<1>3. StgInv => Stg!GetsWhatWasSet
  BY LastValueIs DEF StgInv, Holds, Answered, Stg!GetsWhatWasSet
<1> QED
  BY <1>1, <1>2, <1>3, PTL DEF Stg!Spec
=============================================================================
