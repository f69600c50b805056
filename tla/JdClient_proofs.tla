-------------------------- MODULE JdClient_proofs --------------------------
(***************************************************************************)
(* Proofs about JdClient, for any number of devices and roles: no pointer  *)
(* of the client dangles, the flags of the services agree with the roles,  *)
(* and a restart of a device goes unnoticed only if the client had heard   *)
(* few announcements of it.  Then about the client's other parts, each in  *)
(* a section of its own: clients used by several threads (JdThreads), the  *)
(* register queries (JdRegister) and the events (JdEvents).                *)
(***************************************************************************)
EXTENDS JdClient, SequenceFacts, FiniteSetTheorems, TLAPS

Device ==
  [id : Ids, gen : 0 .. 1, flags : 0 .. STEADY, left : Int, services : AllTables,
   assigned : SUBSET Nat, life : Nat, own : 0 .. STEADY, later : BOOLEAN]

Target == [dev : Int, gen : Nat, idx : Nat]

TypeInv ==
  /\ life \in [Ids -> Nat] /\ table \in [Ids -> AllTables]
  /\ reset_counter \in [Ids -> 0 .. STEADY] /\ due \subseteq Ids
  /\ gens \in [Ids -> 0 .. 1]
  /\ roles \subseteq RoleNames /\ changed \in BOOLEAN

\* The list is in the order of the identifiers, so it names no device twice.
Sorted(devs) == \A i, j \in DOMAIN devs : i < j => devs[i].id < devs[j].id

ListInv(devs) == devs \in Seq(Device) /\ Sorted(devs)

------------------------------------------------------------------------------
(* Roles and the services they are bound to *)

Serves(d, s) == \E i \in DOMAIN d.services : s = Service(d, i)

Points(devs, srv, rs) ==
  \A r \in RoleNames : srv[r] # NULL => r \in rs /\ \E k \in DOMAIN devs : Serves(devs[k], srv[r])

Flagged(devs, srv, rs) ==
  \A k \in DOMAIN devs : \A i \in devs[k].assigned :
    i \in DOMAIN devs[k].services /\ \E r \in rs : srv[r] = Service(devs[k], i)

Exact(devs, srv) ==
  /\ \A r \in RoleNames : \A k \in DOMAIN devs : \A i \in DOMAIN devs[k].services :
       srv[r] = Service(devs[k], i) => i \in devs[k].assigned
  /\ \A r, q \in RoleNames : srv[r] = srv[q] /\ srv[r] # NULL => r = q

Bindings(devs, srv, rs, dbl) ==
  /\ srv \in [RoleNames -> Target]
  /\ Points(devs, srv, rs)
  /\ Flagged(devs, srv, rs)
  /\ dbl \/ Exact(devs, srv)

------------------------------------------------------------------------------
(* Restarts *)

\* What a device would count if it announced itself once more in this period
Count(d, counter, awaited) == counter[d] + (IF d \in awaited THEN 1 ELSE 0)

(***************************************************************************)
(* Either few announcements of the device's own life were heard, or the    *)
(* record has met no other life: then the device has restarted, if it has, *)
(* since it was last heard, and its counter counts the periods since.      *)
(***************************************************************************)
Remembers(x, lf, count) ==
  /\ x.life <= lf /\ x.left <= EXPIRES
  /\ \/ x.own <= EXPIRES + MaxId
     \/ /\ x.flags = x.own /\ ~ x.later
        /\ x.life # lf => x.id # 0 /\ count + x.left <= EXPIRES + 1

RestartInv ==
  \A k \in DOMAIN jd_devices :
    LET id == jd_devices[k].id
    IN  Remembers(jd_devices[k], life[id], Count(id, reset_counter, due))

\* How many collections have passed over a device; negative before it expires
Late(x, g) == (IF g THEN 0 ELSE 1) - x.left

Precedes(devs, j, k) ==
  /\ devs[j].id < devs[k].id
  /\ \A i \in DOMAIN devs : ~ (devs[j].id < devs[i].id /\ devs[i].id < devs[k].id)

(***************************************************************************)
(* A collection passes over a device when it frees the one before it in    *)
(* the list.  So below a device that was passed over there is a gap of at  *)
(* least as many identifiers, unless a device has just been heard there.   *)
(***************************************************************************)
PassedOver(devs, g) ==
  \A k \in DOMAIN devs : Late(devs[k], g) > 0 =>
    /\ Late(devs[k], g) < MaxId
    /\ \E j \in DOMAIN devs : /\ Precedes(devs, j, k)
                              /\ \/ Late(devs[k], g) < devs[k].id - devs[j].id
                                 \/ Late(devs[j], g) < 0

IInv ==
  /\ TypeInv
  /\ ListInv(jd_devices)
  /\ Bindings(jd_devices, service, roles, doubled)
  /\ RestartInv
  /\ PassedOver(jd_devices, gcDue)
  /\ ListedRoleExists

------------------------------------------------------------------------------
(* The list of devices *)

\* A list of as many devices.
LEMMA MappedSequence ==
  ASSUME NEW S, NEW s \in Seq(S), NEW t, t = [k \in DOMAIN s |-> t[k]], \A k \in DOMAIN s : t[k] \in S
  PROVE  t \in Seq(S)
  OBVIOUS

\* The fields of a device of the list.
LEMMA DeviceFields ==
  ASSUME NEW devs, ListInv(devs), NEW k \in DOMAIN devs
  PROVE  /\ k \in Nat /\ devs[k] \in Device
         /\ devs[k].id \in Ids /\ devs[k].id \in Nat /\ devs[k].id <= MaxId
         /\ devs[k].left \in Int /\ devs[k].gen \in 0 .. 1
         /\ DOMAIN devs[k].services \subseteq Nat
<1>1. k \in Nat /\ devs[k] \in Device
  BY DEF ListInv
<1>2. /\ devs[k].id \in Ids /\ devs[k].left \in Int /\ devs[k].gen \in 0 .. 1
      /\ devs[k].services \in AllTables
  BY <1>1 DEF Device
<1> QED
  BY <1>1, <1>2, ConstantsAssumption DEF Ids

\* No two devices of the list have the same identifier.
LEMMA OneOfAName ==
  ASSUME NEW devs, ListInv(devs), NEW j \in DOMAIN devs, NEW k \in DOMAIN devs,
         devs[j].id = devs[k].id
  PROVE  j = k
  BY DeviceFields DEF ListInv, Sorted

\* t lists the devices of devs that are not at a position in gone.
Thinned(t, devs, gone) ==
  /\ \A j \in DOMAIN t : \E k \in DOMAIN devs \ gone : t[j] = devs[k]
  /\ \A k \in DOMAIN devs \ gone : \E j \in DOMAIN t : t[j] = devs[k]

\* The recursive definition of Unlinked, as two equations.
UnlinksBy(f, devs, gone) ==
  /\ f[0] = <<>>
  /\ \A k \in 1 .. Len(devs) :
       f[k] = IF k \in gone THEN f[k - 1] ELSE Append(f[k - 1], devs[k])

\* Unlinked walks along the list.
LEMMA UnlinkedIs ==
  ASSUME NEW devs \in Seq(Device), NEW gone
  PROVE  \E f : UnlinksBy(f, devs, gone) /\ Unlinked(devs, gone) = f[Len(devs)]
<1> DEFINE n == Len(devs)
           R(g) == g = [k \in 0 .. n |->
                          IF k = 0 THEN <<>>
                          ELSE IF k \in gone THEN g[k - 1] ELSE Append(g[k - 1], devs[k])]
           f == CHOOSE g : R(g)
<1>1. n \in Nat /\ \A k \in 1 .. n : devs[k] \in Device
  OBVIOUS
<1>2. \E g : R(g)
  <2> DEFINE T == Seq(Device)
             step == [k \in 1 .. n |->
                        [x \in T |-> IF k \in gone THEN x ELSE Append(x, devs[k])]]
  <2>1. <<>> \in T /\ \A x \in T, k \in 1 .. n : Append(x, devs[k]) \in T
    BY <1>1
  <2> HIDE DEF T, n
  <2>2. step \in [1 .. n -> [T -> T]]
    BY <2>1
  <2>3. \A k \in 1 .. n : \A x \in T :
           step[k][x] = IF k \in gone THEN x ELSE Append(x, devs[k])
    OBVIOUS
  <2> HIDE DEF step
  <2>4. PICK g \in [0 .. n -> T] : Recurs(g, <<>>, step, n)
    BY <1>1, <2>1, <2>2, Recursion
  <2>5. ASSUME NEW k \in 0 .. n
        PROVE  g[k] = IF k = 0 THEN <<>>
                      ELSE IF k \in gone THEN g[k - 1] ELSE Append(g[k - 1], devs[k])
    <3>1. CASE k = 0
      BY <2>4, <3>1 DEF Recurs
    <3>2. CASE k # 0
      <4>1. k \in 1 .. n /\ k - 1 \in 0 .. n
        BY <1>1, <3>2
      <4>2. g[k] = step[k][g[k - 1]] /\ g[k - 1] \in T
        BY <2>4, <4>1 DEF Recurs
      <4> QED
        BY <2>3, <3>2, <4>1, <4>2
    <3> QED
      BY <3>1, <3>2
  <2>6. R(g)
    BY <2>4, <2>5
  <2> QED
    BY <2>6
<1>3. R(f)
  BY <1>2
<1>4. Unlinked(devs, gone) = f[n]
  BY DEF Unlinked
<1> HIDE DEF f
<1>5. f[0] = <<>>
  BY <1>1, <1>3
<1>6. ASSUME NEW k \in 1 .. n
      PROVE  f[k] = IF k \in gone THEN f[k - 1] ELSE Append(f[k - 1], devs[k])
  <2>1. k \in 0 .. n /\ k # 0
    BY <1>1
  <2> QED
    BY <1>3, <2>1
<1> QED
  BY <1>4, <1>5, <1>6 DEF UnlinksBy

\* One more device at the end of a list that is in order.
LEMMA AppendSorted ==
  ASSUME NEW t, ListInv(t), NEW d \in Device, \A j \in DOMAIN t : t[j].id < d.id
  PROVE  ListInv(Append(t, d))
<1> DEFINE a == Append(t, d)
<1>1. /\ a \in Seq(Device) /\ Len(a) = Len(t) + 1 /\ Len(t) \in Nat
      /\ a[Len(t) + 1] = d
      /\ \A j \in 1 .. Len(t) : a[j] = t[j]
  BY AppendProperties DEF ListInv
<1>2. DOMAIN a = 1 .. Len(t) + 1 /\ DOMAIN t = 1 .. Len(t)
  BY <1>1 DEF ListInv
<1> HIDE DEF a
<1>3. ASSUME NEW i \in DOMAIN a, NEW j \in DOMAIN a, i < j
      PROVE  a[i].id < a[j].id
  <2>1. i \in 1 .. Len(t) /\ a[i] = t[i]
    BY <1>1, <1>2, <1>3
  <2>2. CASE j = Len(t) + 1
    BY <1>1, <1>2, <2>1, <2>2
  <2>3. CASE j # Len(t) + 1
    <3>1. j \in 1 .. Len(t) /\ a[j] = t[j]
      BY <1>1, <1>2, <2>3
    <3> QED
      BY <1>2, <1>3, <2>1, <3>1 DEF ListInv, Sorted
  <2> QED
    BY <2>2, <2>3
<1>4. ListInv(a)
  BY <1>1, <1>3 DEF ListInv, Sorted
<1> QED
  BY <1>4 DEF a

\* Unlinking leaves the other devices, in their order.
LEMMA UnlinkedFacts ==
  ASSUME NEW devs, ListInv(devs), NEW gone
  PROVE  ListInv(Unlinked(devs, gone)) /\ Thinned(Unlinked(devs, gone), devs, gone)
<1> DEFINE n == Len(devs)
<1>1. n \in Nat /\ DOMAIN devs = 1 .. n /\ devs \in Seq(Device)
  BY DEF ListInv
<1>2. PICK f : UnlinksBy(f, devs, gone) /\ Unlinked(devs, gone) = f[n]
  BY <1>1, UnlinkedIs
<1> DEFINE Good(k) ==
             /\ ListInv(f[k])
             /\ \A j \in DOMAIN f[k] : \E i \in 1 .. k : i \notin gone /\ f[k][j] = devs[i]
             /\ \A i \in 1 .. k : i \notin gone => \E j \in DOMAIN f[k] : f[k][j] = devs[i]
           S == {k \in Nat : k <= n => Good(k)}
<1>3. 0 \in S
  <2>1. f[0] = <<>>
    BY <1>2 DEF UnlinksBy
  <2>2. ListInv(f[0])
    BY <2>1 DEF ListInv, Sorted
  <2>3. DOMAIN f[0] = {}
    BY <2>1
  <2> QED
    BY <2>2, <2>3
<1>4. ASSUME NEW k \in Nat, k \in S
      PROVE  k + 1 \in S
  <2>1. SUFFICES ASSUME k + 1 <= n
                 PROVE  Good(k + 1)
    OBVIOUS
  <2>2. Good(k) /\ k + 1 \in 1 .. n /\ devs[k + 1] \in Device
    BY <1>1, <1>4, <2>1
  <2>3. f[k + 1] = IF k + 1 \in gone THEN f[k] ELSE Append(f[k], devs[k + 1])
    BY <1>2, <2>2 DEF UnlinksBy
  <2>4. CASE k + 1 \in gone
    <3>1. f[k + 1] = f[k]
      BY <2>3, <2>4
    <3>2. \A i \in 1 .. k + 1 : i \notin gone => i \in 1 .. k
      BY <2>4
    <3>3. \A i \in 1 .. k : i \in 1 .. k + 1
      OBVIOUS
    <3> QED
      BY <2>2, <3>1, <3>2, <3>3
  <2>5. CASE k + 1 \notin gone
    <3> DEFINE a == Append(f[k], devs[k + 1])
    <3>1. f[k + 1] = a
      BY <2>3, <2>5
    <3>2. f[k] \in Seq(Device)
      BY <2>2 DEF ListInv
    <3>3. /\ DOMAIN a = 1 .. Len(f[k]) + 1 /\ DOMAIN f[k] = 1 .. Len(f[k])
          /\ Len(f[k]) \in Nat
          /\ a[Len(f[k]) + 1] = devs[k + 1]
          /\ \A j \in 1 .. Len(f[k]) : a[j] = f[k][j]
      <4>1. a \in Seq(Device) /\ Len(a) = Len(f[k]) + 1 /\ Len(f[k]) \in Nat
        BY <2>2, <3>2, AppendProperties
      <4> QED
        BY <2>2, <3>2, <4>1, AppendProperties
    <3>4. ASSUME NEW j \in DOMAIN f[k]
          PROVE  f[k][j].id < devs[k + 1].id
      <4>1. PICK i \in 1 .. k : f[k][j] = devs[i]
        BY <2>2
      <4>2. i \in 1 .. n /\ i < k + 1
        BY <1>1, <2>1
      <4> QED
        BY <1>1, <2>2, <4>1, <4>2 DEF ListInv, Sorted
    <3>5. ListInv(a)
      BY <2>2, <3>4, AppendSorted
    <3> HIDE DEF a
    <3>6. ASSUME NEW j \in DOMAIN a
          PROVE  \E i \in 1 .. k + 1 : i \notin gone /\ a[j] = devs[i]
      <4>1. CASE j = Len(f[k]) + 1
        BY <2>5, <3>3, <4>1
      <4>2. CASE j # Len(f[k]) + 1
        <5>1. j \in DOMAIN f[k] /\ a[j] = f[k][j]
          BY <3>3, <4>2
        <5>2. PICK i \in 1 .. k : i \notin gone /\ f[k][j] = devs[i]
          BY <2>2, <5>1
        <5>3. i \in 1 .. k + 1
          OBVIOUS
        <5> QED
          BY <5>1, <5>2, <5>3
      <4> QED
        BY <4>1, <4>2
    <3>7. ASSUME NEW i \in 1 .. k + 1, i \notin gone
          PROVE  \E j \in DOMAIN a : a[j] = devs[i]
      <4>1. CASE i = k + 1
        <5>1. Len(f[k]) + 1 \in DOMAIN a
          BY <3>3
        <5> QED
          BY <3>3, <4>1, <5>1
      <4>2. CASE i # k + 1
        <5>1. i \in 1 .. k
          BY <4>2
        <5>2. PICK j \in DOMAIN f[k] : f[k][j] = devs[i]
          BY <2>2, <3>7, <5>1
        <5>3. j \in DOMAIN a /\ a[j] = f[k][j]
          BY <3>3
        <5> QED
          BY <5>2, <5>3
      <4> QED
        BY <4>1, <4>2
    <3> QED
      BY <3>1, <3>5, <3>6, <3>7
  <2> QED
    BY <2>4, <2>5
<1> HIDE DEF S
<1>5. n \in S
  BY <1>1, <1>3, <1>4, SetInduction
<1>6. Good(n)
  BY <1>1, <1>5 DEF S
<1>7. Thinned(f[n], devs, gone)
  <2>1. ASSUME NEW j \in DOMAIN f[n]
        PROVE  \E k \in DOMAIN devs \ gone : f[n][j] = devs[k]
    <3>1. PICK i \in 1 .. n : i \notin gone /\ f[n][j] = devs[i]
      BY <1>6
    <3> QED
      BY <1>1, <3>1
  <2>2. ASSUME NEW k \in DOMAIN devs \ gone
        PROVE  \E j \in DOMAIN f[n] : f[n][j] = devs[k]
    <3>1. k \in 1 .. n /\ k \notin gone
      BY <1>1
    <3> QED
      BY <1>6, <3>1
  <2> QED
    BY <2>1, <2>2 DEF Thinned
<1> QED
  BY <1>2, <1>6, <1>7

\* i is d inserted into devs.
Inserted(i, devs, d) ==
  /\ \A j \in DOMAIN i : i[j] = d \/ \E k \in DOMAIN devs : i[j] = devs[k]
  /\ \A k \in DOMAIN devs : \E j \in DOMAIN i : i[j] = devs[k]
  /\ \E j \in DOMAIN i : i[j] = d

\* t is s with e inserted before position a.
InsertedBefore(t, s, a, e) ==
  /\ DOMAIN t = 1 .. Len(s) + 1
  /\ \A j \in 1 .. Len(s) + 1 : t[j] = IF j < a THEN s[j] ELSE IF j = a THEN e ELSE s[j - 1]

\* What InsertAt of the community modules returns.
LEMMA InsertAtFacts ==
  ASSUME NEW S, NEW s \in Seq(S), NEW a \in 1 .. Len(s), NEW e \in S
  PROVE  InsertAt(s, a, e) \in Seq(S) /\ InsertedBefore(InsertAt(s, a, e), s, a, e)
<1> DEFINE x == SubSeq(s, 1, a - 1)
           z == SubSeq(s, a, Len(s))
<1>1. a - 1 \in Int /\ Len(s) \in Int /\ a \in Int /\ Len(s) \in Nat
  OBVIOUS
<1>2. (\A i \in 1 .. a - 1 : s[i] \in S) /\ (\A i \in a .. Len(s) : s[i] \in S)
  OBVIOUS
<1>3. x \in Seq(S) /\ Len(x) = a - 1 /\ \A i \in 1 .. a - 1 : x[i] = s[i]
  <2>1. \A i \in 1 .. (a - 1) - 1 + 1 : x[i] = s[1 + i - 1]
    BY <1>1, <1>2, SubSeqProperties
  <2>2. Len(x) = IF 1 <= a - 1 THEN (a - 1) - 1 + 1 ELSE 0
    BY <1>1, <1>2, SubSeqProperties
  <2>3. x \in Seq(S)
    BY <1>1, <1>2, SubSeqProperties
  <2> HIDE DEF x
  <2> QED
    BY <1>1, <2>1, <2>2, <2>3
<1>4. z \in Seq(S) /\ Len(z) = Len(s) - a + 1 /\ \A i \in 1 .. Len(s) - a + 1 : z[i] = s[a + i - 1]
  BY <1>1, <1>2, SubSeqProperties
<1>5. <<e>> \in Seq(S) /\ Len(<<e>>) = 1 /\ <<e>>[1] = e
  OBVIOUS
<1> DEFINE y == x \o <<e>>
           w == y \o z
<1>6. InsertAt(s, a, e) = w
  BY DEF InsertAt
<1> HIDE DEF x, z
<1>7. y \in Seq(S) /\ Len(y) = a /\ \A i \in 1 .. a : y[i] = IF i <= a - 1 THEN x[i] ELSE e
  <2>1. y \in Seq(S) /\ Len(y) = Len(x) + Len(<<e>>)
    BY <1>3, <1>5, ConcatProperties
  <2>2. \A i \in 1 .. Len(x) + Len(<<e>>) :
           y[i] = IF i <= Len(x) THEN x[i] ELSE <<e>>[i - Len(x)]
    BY <1>3, <1>5, ConcatProperties
  <2> HIDE DEF y
  <2> QED
    BY <1>1, <1>3, <1>5, <2>1, <2>2
<1> HIDE DEF y
<1>8. /\ w \in Seq(S) /\ Len(w) = Len(s) + 1
      /\ \A i \in 1 .. Len(s) + 1 : w[i] = IF i <= a THEN y[i] ELSE z[i - a]
  <2>1. w \in Seq(S) /\ Len(w) = Len(y) + Len(z)
    BY <1>4, <1>7, ConcatProperties
  <2>2. \A i \in 1 .. Len(y) + Len(z) : w[i] = IF i <= Len(y) THEN y[i] ELSE z[i - Len(y)]
    BY <1>4, <1>7, ConcatProperties
  <2> HIDE DEF w
  <2> QED
    BY <1>1, <1>4, <1>7, <2>1, <2>2
<1> HIDE DEF w
<1>9. ASSUME NEW j \in 1 .. Len(s) + 1
      PROVE  w[j] = IF j < a THEN s[j] ELSE IF j = a THEN e ELSE s[j - 1]
  <2>1. CASE j < a
    BY <1>1, <1>3, <1>7, <1>8, <2>1
  <2>2. CASE j = a
    BY <1>1, <1>7, <1>8, <2>2
  <2>3. CASE j > a
    <3>1. j - a \in 1 .. Len(s) - a + 1 /\ a + (j - a) - 1 = j - 1
      BY <1>1, <2>3
    <3>2. w[j] = z[j - a]
      BY <1>1, <1>8, <2>3
    <3>3. z[j - a] = s[a + (j - a) - 1]
      BY <1>4, <3>1
    <3> QED
      BY <2>3, <3>1, <3>2, <3>3
  <2> QED
    BY <1>1, <2>1, <2>2, <2>3
<1>10. DOMAIN w = 1 .. Len(s) + 1
  BY <1>8
<1> QED
  BY <1>6, <1>8, <1>9, <1>10 DEF InsertedBefore

\* A device that is not in the list is inserted where the order wants it.
LEMMA InsertFacts ==
  ASSUME NEW devs, ListInv(devs), NEW d \in Device, ~ Known(devs, d.id)
  PROVE  ListInv(Insert(devs, d)) /\ Inserted(Insert(devs, d), devs, d)
<1> DEFINE at == {i \in DOMAIN devs : fits_at(devs[i], d.id)}
           n == Len(devs)
<1>1. devs \in Seq(Device) /\ DOMAIN devs = 1 .. n /\ n \in Nat
  BY DEF ListInv
<1>2. d.id \in Nat /\ \A i \in DOMAIN devs : devs[i].id \in Nat /\ devs[i].id # d.id
  BY DeviceFields, ConstantsAssumption DEF Known, Device, Ids
<1>3. \A i \in DOMAIN devs : i \in at <=> d.id < devs[i].id
  BY <1>2 DEF fits_at
<1>4. CASE at = {}
  <2> DEFINE t == Append(devs, d)
  <2>1. Insert(devs, d) = t
    BY <1>4 DEF Insert
  <2>2. \A i \in DOMAIN devs : devs[i].id < d.id
    BY <1>2, <1>3, <1>4
  <2>3. ListInv(t)
    BY <2>2, AppendSorted
  <2>4. /\ DOMAIN t = 1 .. n + 1 /\ t[n + 1] = d
        /\ \A j \in 1 .. n : t[j] = devs[j]
    <3>1. t \in Seq(Device) /\ Len(t) = n + 1
      BY <1>1, AppendProperties
    <3> QED
      BY <1>1, <3>1, AppendProperties
  <2> HIDE DEF t, n
  <2>5. ASSUME NEW j \in DOMAIN t
        PROVE  t[j] = d \/ \E k \in DOMAIN devs : t[j] = devs[k]
    <3>1. j = n + 1 \/ j \in 1 .. n
      BY <1>1, <2>4
    <3> QED
      BY <1>1, <2>4, <3>1
  <2>6. \A k \in DOMAIN devs : k \in DOMAIN t /\ t[k] = devs[k]
    BY <1>1, <2>4
  <2>7. n + 1 \in DOMAIN t
    BY <1>1, <2>4
  <2>8. Inserted(t, devs, d)
    BY <2>4, <2>5, <2>6, <2>7 DEF Inserted
  <2> QED
    BY <2>1, <2>3, <2>8
<1>5. CASE at # {}
  <2> DEFINE a == CHOOSE i \in at : \A j \in at : i <= j
             t == InsertAt(devs, a, d)
  <2>1. Insert(devs, d) = t
    BY <1>5 DEF Insert
  <2>2. \E i \in at : \A j \in at : i <= j
    <3>1. at \in SUBSET Nat
      BY <1>1
    <3> HIDE DEF at
    <3> QED
      BY <1>5, <3>1, LeastNatural
  <2>3. a \in at /\ \A j \in at : a <= j
    <3> HIDE DEF at
    <3> QED
      BY <2>2
  <2> HIDE DEF a
  <2>4. a \in 1 .. n /\ a \in DOMAIN devs
    BY <1>1, <2>3
  <2>5. /\ t \in Seq(Device) /\ DOMAIN t = 1 .. n + 1
        /\ \A j \in 1 .. n + 1 : t[j] = IF j < a THEN devs[j] ELSE IF j = a THEN d ELSE devs[j - 1]
    <3>1. devs \in Seq(Device) /\ a \in 1 .. Len(devs) /\ d \in Device
      BY <1>1, <2>4
    <3> HIDE DEF t
    <3>2. t \in Seq(Device) /\ InsertedBefore(t, devs, a, d)
      BY <3>1, InsertAtFacts DEF t
    <3> QED
      BY <3>2 DEF InsertedBefore
  <2> HIDE DEF t, n, at
  <2>6. \A i \in 1 .. n : i < a => devs[i].id < d.id
    BY <1>1, <1>2, <1>3, <2>3, <2>4
  <2>7. \A i \in 1 .. n : i >= a => d.id < devs[i].id
    <3>1. d.id < devs[a].id
      BY <1>3, <2>3, <2>4
    <3>2. \A i \in 1 .. n : i > a => devs[a].id < devs[i].id
      BY <1>1, <2>4 DEF ListInv, Sorted
    <3>3. \A i \in 1 .. n : i >= a => i = a \/ i > a
      BY <1>1, <2>4
    <3> QED
      BY <1>1, <1>2, <2>4, <3>1, <3>2, <3>3
  <2>8. ASSUME NEW i \in DOMAIN t, NEW j \in DOMAIN t, i < j
        PROVE  t[i].id < t[j].id
    <3>1. i \in 1 .. n + 1 /\ j \in 1 .. n + 1
      BY <2>5
    <3>2. CASE j < a
      <4>1. i < a /\ i \in 1 .. n /\ j \in 1 .. n /\ t[i] = devs[i] /\ t[j] = devs[j]
        BY <1>1, <2>4, <2>5, <2>8, <3>1, <3>2
      <4> QED
        BY <1>1, <2>8, <4>1 DEF ListInv, Sorted
    <3>3. CASE j = a
      <4>1. i < a /\ i \in 1 .. n /\ t[i] = devs[i] /\ t[j] = d
        BY <1>1, <2>4, <2>5, <2>8, <3>1, <3>3
      <4> QED
        BY <2>6, <4>1
    <3>4. CASE j > a
      <4>1. j - 1 \in 1 .. n /\ j - 1 >= a /\ t[j] = devs[j - 1]
        BY <1>1, <2>4, <2>5, <3>1, <3>4
      <4>2. CASE i < a
        <5>1. i \in 1 .. n /\ t[i] = devs[i] /\ i < j - 1
          BY <1>1, <2>4, <2>5, <3>1, <4>1, <4>2
        <5> QED
          BY <1>1, <4>1, <5>1 DEF ListInv, Sorted
      <4>3. CASE i = a
        <5>1. t[i] = d
          BY <2>5, <3>1, <4>3, <2>4
        <5> QED
          BY <2>7, <4>1, <5>1
      <4>4. CASE i > a
        <5>1. i - 1 \in 1 .. n /\ t[i] = devs[i - 1] /\ i - 1 < j - 1
          BY <1>1, <2>4, <2>5, <2>8, <3>1, <4>4
        <5> QED
          BY <1>1, <4>1, <5>1 DEF ListInv, Sorted
      <4> QED
        BY <2>4, <3>1, <4>2, <4>3, <4>4
    <3> QED
      BY <2>4, <3>1, <3>2, <3>3, <3>4
  <2>9. ASSUME NEW j \in DOMAIN t
        PROVE  t[j] = d \/ \E k \in DOMAIN devs : t[j] = devs[k]
    <3>1. t[j] = d \/ (j \in 1 .. n /\ t[j] = devs[j]) \/ (j - 1 \in 1 .. n /\ t[j] = devs[j - 1])
      BY <1>1, <2>4, <2>5
    <3> QED
      BY <1>1, <3>1
  <2>10. ASSUME NEW k \in DOMAIN devs
         PROVE  \E j \in DOMAIN t : t[j] = devs[k]
    <3>1. CASE k < a
      <4>1. k \in DOMAIN t /\ t[k] = devs[k]
        BY <1>1, <2>4, <2>5, <3>1
      <4> QED
        BY <4>1
    <3>2. CASE ~ (k < a)
      <4>1. k + 1 \in DOMAIN t /\ t[k + 1] = devs[k]
        BY <1>1, <2>4, <2>5, <3>2
      <4> QED
        BY <4>1
    <3> QED
      BY <3>1, <3>2
  <2>11. a \in DOMAIN t /\ t[a] = d
    BY <1>1, <2>4, <2>5
  <2>12. ListInv(t) /\ Inserted(t, devs, d)
    BY <2>5, <2>8, <2>9, <2>10, <2>11 DEF ListInv, Sorted, Inserted
  <2> QED
    BY <2>1, <2>12
<1> QED
  BY <1>4, <1>5

\* What a collection frees: only devices that have expired, and every one of them
\* that does not follow one it has freed.
Collected(freed, devs) ==
  /\ \A k \in freed : k \in DOMAIN devs /\ devs[k].left <= 0
  /\ \A k \in DOMAIN devs \ freed :
       devs[k].left <= 0 => k - 1 \in freed /\ \E j \in DOMAIN devs \ freed : j < k

\* jd_device_gc frees those.
LEMMA GcFacts ==
  ASSUME NEW devs, ListInv(devs)
  PROVE  Collected(jd_device_gc(devs), devs)
<1> DEFINE n == Len(devs)
           expired(k) == devs[k].left <= 0
           head(k) == \A j \in 1 .. k : expired(j)
           R(g) == g = [k \in 0 .. n |->
                          IF k = 0 THEN FALSE ELSE expired(k) /\ (head(k) \/ ~ g[k - 1])]
           f == CHOOSE g : R(g)
<1>1. n \in Nat /\ DOMAIN devs = 1 .. n
  BY DEF ListInv
<1>2. \E g : R(g)
  <2> DEFINE step == [k \in 1 .. n |-> [x \in BOOLEAN |-> expired(k) /\ (head(k) \/ ~ x)]]
  <2>1. step \in [1 .. n -> [BOOLEAN -> BOOLEAN]]
    <3> HIDE DEF expired, head
    <3> QED
      BY Zenon
  <2>2. \A k \in 1 .. n : \A x \in BOOLEAN :
           step[k][x] = (expired(k) /\ (head(k) \/ ~ x))
    <3> HIDE DEF expired, head
    <3> QED
      BY Zenon
  <2> HIDE DEF step, n, expired, head
  <2>3. PICK g \in [0 .. n -> BOOLEAN] : Recurs(g, FALSE, step, n)
    BY <1>1, <2>1, Recursion
  <2>4. ASSUME NEW k \in 0 .. n
        PROVE  g[k] = IF k = 0 THEN FALSE ELSE expired(k) /\ (head(k) \/ ~ g[k - 1])
    <3>1. CASE k = 0
      BY <2>3, <3>1 DEF Recurs
    <3>2. CASE k # 0
      <4>1. k \in 1 .. n /\ k - 1 \in 0 .. n
        BY <1>1, <3>2
      <4>2. g[k] = step[k][g[k - 1]] /\ g[k - 1] \in BOOLEAN
        BY <2>3, <4>1 DEF Recurs
      <4>3. g[k] = (expired(k) /\ (head(k) \/ ~ g[k - 1]))
        BY <2>2, <4>1, <4>2, Zenon
      <4> QED
        BY <3>2, <4>3
    <3> QED
      BY <3>1, <3>2
  <2>5. R(g)
    BY <2>3, <2>4
  <2> QED
    BY <2>5
<1>3. R(f)
  BY <1>2
<1> DEFINE freed == {k \in DOMAIN devs : f[k]}
<1>4. jd_device_gc(devs) = freed
  BY DEF jd_device_gc
<1> HIDE DEF f
<1>5. f[0] = FALSE
  BY <1>1, <1>3
<1>6. ASSUME NEW k \in 1 .. n
      PROVE  f[k] = (expired(k) /\ (head(k) \/ ~ f[k - 1]))
  <2>1. k \in 0 .. n /\ k # 0
    BY <1>1
  <2> HIDE DEF expired, head
  <2> QED
    BY <1>3, <2>1
<1>7. ASSUME NEW k \in freed
      PROVE  k \in DOMAIN devs /\ devs[k].left <= 0
  BY <1>1, <1>6
<1>8. ASSUME NEW k \in DOMAIN devs \ freed, devs[k].left <= 0
      PROVE  k - 1 \in freed /\ \E j \in DOMAIN devs \ freed : j < k
  <2>1. ~ head(k) /\ f[k - 1]
    BY <1>1, <1>6, <1>8
  <2>2. k # 1
    BY <1>5, <2>1
  <2>3. k - 1 \in freed
    BY <1>1, <2>1, <2>2
  <2>4. PICK j \in 1 .. k : ~ expired(j)
    BY <2>1
  <2>5. j \in DOMAIN devs /\ j < k
    BY <1>1, <1>8, <2>4
  <2>6. j \notin freed
    BY <1>7, <2>4
  <2> QED
    BY <2>3, <2>5, <2>6
<1> QED
  BY <1>4, <1>7, <1>8 DEF Collected

------------------------------------------------------------------------------
(* Roles *)

\* devs2 differs from devs in the flags of the services only.
Same(devs2, devs) ==
  /\ devs2 \in Seq(Device) /\ DOMAIN devs2 = DOMAIN devs
  /\ \A k \in DOMAIN devs :
       /\ devs2[k].id = devs[k].id /\ devs2[k].gen = devs[k].gen
       /\ devs2[k].services = devs[k].services
       /\ devs2[k].flags = devs[k].flags /\ devs2[k].left = devs[k].left
       /\ devs2[k].life = devs[k].life /\ devs2[k].own = devs[k].own
       /\ devs2[k].later = devs[k].later

\* Such a list is in the same order.
LEMMA SameSorted ==
  ASSUME NEW devs, ListInv(devs), NEW devs2, Same(devs2, devs)
  PROVE  ListInv(devs2)
  BY DEF Same, ListInv, Sorted

\* Nothing changes flags of other devices.
LEMMA SameTrans ==
  ASSUME NEW a, NEW b, NEW c, Same(a, b), Same(b, c)
  PROVE  Same(a, c)
  BY DEF Same

\* A list is the same as itself.
LEMMA SameRefl ==
  ASSUME NEW devs, ListInv(devs)
  PROVE  Same(devs, devs)
  BY DEF Same, ListInv

\* The services of a device are no NULL, and their names tell them apart.
LEMMA ServiceFacts ==
  ASSUME NEW devs, ListInv(devs), NEW k \in DOMAIN devs
  PROVE  \A i \in Nat : /\ Service(devs[k], i) # NULL /\ Service(devs[k], i) \in Target
                        /\ \A j \in DOMAIN devs, l \in Nat :
                             Service(devs[j], l) = Service(devs[k], i) => j = k /\ l = i
<1>1. devs[k].id \in Nat /\ devs[k].gen \in Nat
  BY DeviceFields
<1>2. ASSUME NEW i \in Nat
      PROVE  /\ Service(devs[k], i).dev = devs[k].id
             /\ Service(devs[k], i).idx = i
             /\ Service(devs[k], i) \in Target
  BY <1>1 DEF Service, Target
<1>3. ASSUME NEW i \in Nat, NEW j \in DOMAIN devs, NEW l \in Nat,
             Service(devs[j], l) = Service(devs[k], i)
      PROVE  j = k /\ l = i
  <2>1. devs[j].id = devs[k].id /\ l = i
    BY <1>3 DEF Service
  <2> QED
    BY <2>1, OneOfAName
<1>4. NULL.dev = -1
  BY DEF NULL
<1> QED
  BY <1>1, <1>2, <1>3, <1>4

\* Is i the service that s names on device d?
Names(s, d, i) == s.dev = d.id /\ s.idx = i

\* A role that is bound and whose service is named by number has that service.
LEMMA NamedIs ==
  ASSUME NEW devs, ListInv(devs), NEW k \in DOMAIN devs, NEW i,
         NEW j \in DOMAIN devs, NEW s, Serves(devs[j], s), Names(s, devs[k], i)
  PROVE  s = Service(devs[k], i) /\ i \in DOMAIN devs[k].services
<1>1. PICK l \in DOMAIN devs[j].services : s = Service(devs[j], l)
  BY DEF Serves
<1>2. devs[j].id = devs[k].id /\ l = i
  BY <1>1 DEF Names, Service
<1>3. j = k
  BY <1>2, OneOfAName
<1> QED
  BY <1>1, <1>2, <1>3

\* Flagging a service changes only the flags, of one service.
LEMMA MarkFacts ==
  ASSUME NEW devs, ListInv(devs), NEW s, s.idx \in Nat, NEW on \in BOOLEAN
  PROVE  /\ Same(Mark(devs, s, on), devs)
         /\ \A k \in DOMAIN devs : \A i :
              i \in Mark(devs, s, on)[k].assigned <=>
                IF Names(s, devs[k], i) THEN on ELSE i \in devs[k].assigned
<1> DEFINE m == Mark(devs, s, on)
           new(d) == IF on THEN d.assigned \cup {s.idx} ELSE d.assigned \ {s.idx}
<1>1. /\ DOMAIN m = DOMAIN devs
      /\ \A k \in DOMAIN devs :
           m[k] = IF devs[k].id # s.dev THEN devs[k] ELSE [devs[k] EXCEPT !.assigned = new(devs[k])]
  BY DEF Mark
<1>2. devs \in Seq(Device) /\ Len(devs) \in Nat /\ DOMAIN devs = 1 .. Len(devs)
  BY DEF ListInv
<1> HIDE DEF m, new
<1>3. ASSUME NEW k \in DOMAIN devs
      PROVE  /\ m[k] \in Device
             /\ m[k].id = devs[k].id /\ m[k].gen = devs[k].gen
             /\ m[k].services = devs[k].services
             /\ m[k].flags = devs[k].flags /\ m[k].left = devs[k].left
             /\ m[k].life = devs[k].life /\ m[k].own = devs[k].own
             /\ m[k].later = devs[k].later
             /\ m[k].assigned = IF devs[k].id # s.dev THEN devs[k].assigned ELSE new(devs[k])
  <2>1. devs[k] \in Device
    BY DeviceFields
  <2>2. new(devs[k]) \in SUBSET Nat
    BY <2>1 DEF new, Device
  <2> QED
    BY <1>1, <2>1, <2>2 DEF Device
<1>4. m \in Seq(Device)
  <2>1. m = [k \in 1 .. Len(devs) |-> m[k]]
    BY <1>1, <1>2 DEF m, Mark
  <2> QED
    BY <1>2, <1>3, <2>1
<1>5. ASSUME NEW k \in DOMAIN devs, NEW i
      PROVE  i \in m[k].assigned <=> IF Names(s, devs[k], i) THEN on ELSE i \in devs[k].assigned
  <2>1. m[k].assigned = IF devs[k].id # s.dev THEN devs[k].assigned ELSE new(devs[k])
    BY <1>3
  <2>2. i \in new(devs[k]) <=> IF s.idx = i THEN on ELSE i \in devs[k].assigned
    BY ONLY on \in BOOLEAN DEF new
  <2>3. CASE devs[k].id # s.dev
    BY ONLY <2>1, <2>3 DEF Names
  <2>4. CASE devs[k].id = s.dev
    <3>1. m[k].assigned = new(devs[k]) /\ (Names(s, devs[k], i) <=> s.idx = i)
      BY ONLY <2>1, <2>4 DEF Names
    <3>2. CASE s.idx = i
      BY ONLY <2>2, <3>1, <3>2
    <3>3. CASE s.idx # i
      BY ONLY <2>2, <3>1, <3>3
    <3> QED
      BY ONLY <3>2, <3>3
  <2> QED
    BY ONLY <2>3, <2>4
<1>6. Same(m, devs)
  BY <1>1, <1>3, <1>4 DEF Same
<1> QED
  BY <1>5, <1>6 DEF m

\* rolemgr_set: the role's former service is no longer flagged, its new one is.
LEMMA SetFacts ==
  ASSUME NEW st, ListInv(st.devs), st.srv \in [RoleNames -> Target], NEW r \in RoleNames,
         NEW s \in Target, st.srv[r] # s
  PROVE  LET t == rolemgr_set(st, r, s) IN
         /\ Same(t.devs, st.devs)
         /\ t.srv = [st.srv EXCEPT ![r] = s]
         /\ \A k \in DOMAIN st.devs : \A i :
              i \in t.devs[k].assigned <=>
                \/ Names(s, st.devs[k], i)
                \/ i \in st.devs[k].assigned /\ ~ Names(st.srv[r], st.devs[k], i)
<1> DEFINE a == Mark(st.devs, st.srv[r], FALSE)
           b == Mark(a, s, TRUE)
           t == rolemgr_set(st, r, s)
<1>1. st.srv[r].idx \in Nat /\ s.idx \in Nat
  BY DEF Target
<1>2. /\ Same(a, st.devs)
      /\ \A k \in DOMAIN st.devs : \A i :
           i \in a[k].assigned <=> IF Names(st.srv[r], st.devs[k], i) THEN FALSE
                                   ELSE i \in st.devs[k].assigned
  BY <1>1, MarkFacts
<1>3. ListInv(a)
  BY <1>2, SameSorted
<1> HIDE DEF a
<1>4. /\ Same(b, a)
      /\ \A k \in DOMAIN a : \A i :
           i \in b[k].assigned <=> IF Names(s, a[k], i) THEN TRUE ELSE i \in a[k].assigned
  BY <1>1, <1>3, MarkFacts
<1>5. t.devs = b /\ t.srv = [st.srv EXCEPT ![r] = s]
  BY DEF rolemgr_set, a
<1> HIDE DEF b, t
<1>6. Same(b, st.devs)
  BY <1>2, <1>4, SameTrans
<1>7. ASSUME NEW k \in DOMAIN st.devs, NEW i
      PROVE  i \in b[k].assigned <=>
                \/ Names(s, st.devs[k], i)
                \/ i \in st.devs[k].assigned /\ ~ Names(st.srv[r], st.devs[k], i)
  <2>1. k \in DOMAIN a /\ a[k].id = st.devs[k].id
    BY <1>2 DEF Same
  <2>2. Names(s, a[k], i) <=> Names(s, st.devs[k], i)
    BY <2>1 DEF Names
  <2> QED
    BY <1>2, <1>4, <2>1, <2>2
<1> QED
  BY <1>5, <1>6, <1>7 DEF t

\* What rolemgr_set may bind a role to.
MayBind(devs, srv, dbl, r, s) ==
  \/ s = NULL
  \/ /\ \E k \in DOMAIN devs : Serves(devs[k], s)
     /\ dbl \/ \A q \in RoleNames : q # r => srv[q] # s

\* rolemgr_set keeps the roles and the flags in order.
LEMMA SetKeeps ==
  ASSUME NEW st, NEW rs \in SUBSET RoleNames, NEW dbl,
         ListInv(st.devs), Bindings(st.devs, st.srv, rs, dbl),
         NEW r \in rs, NEW s, MayBind(st.devs, st.srv, dbl, r, s)
  PROVE  LET t == rolemgr_set(st, r, s) IN
         Same(t.devs, st.devs) /\ Bindings(t.devs, t.srv, rs, dbl)
<1>1. CASE st.srv[r] = s
  BY <1>1, SameRefl DEF rolemgr_set
<1>2. CASE st.srv[r] # s
  <2> DEFINE t == rolemgr_set(st, r, s)
             old == st.srv[r]
             D == st.devs
  <2>1. r \in RoleNames /\ st.srv \in [RoleNames -> Target]
    BY DEF Bindings
  <2>2. s # NULL => \E k \in DOMAIN D : Serves(D[k], s)
    BY DEF MayBind
  <2>3. s \in Target
    <3>1. NULL \in Target
      BY DEF NULL, Target
    <3> QED
      BY <2>2, <3>1, ServiceFacts, DeviceFields DEF Serves
  <2>4. /\ Same(t.devs, D)
        /\ t.srv = [st.srv EXCEPT ![r] = s]
        /\ \A k \in DOMAIN D : \A i :
             i \in t.devs[k].assigned <=>
               Names(s, D[k], i) \/ (i \in D[k].assigned /\ ~ Names(old, D[k], i))
    BY <1>2, <2>1, <2>3, SetFacts
  <2> HIDE DEF t, D
  <2>5. /\ t.srv \in [RoleNames -> Target]
        /\ t.srv[r] = s /\ \A q \in RoleNames : q # r => t.srv[q] = st.srv[q]
    BY <2>1, <2>3, <2>4
  <2>6. /\ DOMAIN t.devs = DOMAIN D
        /\ \A k \in DOMAIN D : /\ t.devs[k].services = D[k].services
                               /\ \A i : Service(t.devs[k], i) = Service(D[k], i)
                               /\ \A x : Serves(t.devs[k], x) <=> Serves(D[k], x)
    <3>1. \A k \in DOMAIN D : \A i : Service(t.devs[k], i) = Service(D[k], i)
      BY <2>4 DEF Same, Service
    <3> QED
      BY <2>4, <3>1 DEF Same, Serves
  <2>7. ListInv(D) /\ Points(D, st.srv, rs) /\ Flagged(D, st.srv, rs) /\ (dbl \/ Exact(D, st.srv))
    BY DEF Bindings, D
  <2>8. \A k \in DOMAIN D : ~ \E i : Names(NULL, D[k], i)
    BY <2>7, DeviceFields DEF Names, NULL
  <2>9. \A x \in {s, old} : \A k \in DOMAIN D : \A i :
          Names(x, D[k], i) => x = Service(D[k], i) /\ i \in DOMAIN D[k].services /\ x # NULL
    <3>1. ASSUME NEW x \in {s, old}, NEW k \in DOMAIN D, NEW i, Names(x, D[k], i)
          PROVE  x = Service(D[k], i) /\ i \in DOMAIN D[k].services /\ x # NULL
      <4>1. x # NULL
        BY <2>8, <3>1
      <4>2. \E j \in DOMAIN D : Serves(D[j], x)
        BY <2>1, <2>2, <2>7, <4>1 DEF Points
      <4> QED
        BY <2>7, <3>1, <4>1, <4>2, NamedIs
    <3> QED
      BY <3>1
  <2>10. Points(t.devs, t.srv, rs)
    <3>1. ASSUME NEW q \in RoleNames, t.srv[q] # NULL
          PROVE  q \in rs /\ \E k \in DOMAIN t.devs : Serves(t.devs[k], t.srv[q])
      <4>1. q \in rs /\ \E k \in DOMAIN D : Serves(D[k], t.srv[q])
        BY <2>2, <2>5, <2>7, <3>1 DEF Points
      <4> QED
        BY <2>6, <4>1
    <3> QED
      BY <3>1 DEF Points
  <2>11. Flagged(t.devs, t.srv, rs)
    <3>1. ASSUME NEW k \in DOMAIN D, NEW i, i \in t.devs[k].assigned
          PROVE  i \in DOMAIN D[k].services /\ \E q \in rs : t.srv[q] = Service(D[k], i)
      <4>1. CASE Names(s, D[k], i)
        BY <2>5, <2>9, <4>1
      <4>2. CASE i \in D[k].assigned /\ ~ Names(old, D[k], i)
        <5>1. i \in DOMAIN D[k].services
          BY <2>7, <4>2 DEF Flagged
        <5>2. PICK q \in rs : st.srv[q] = Service(D[k], i)
          BY <2>7, <4>2 DEF Flagged
        <5>3. q # r
          BY <4>2, <5>2 DEF Names, Service
        <5> QED
          BY <2>5, <5>1, <5>2, <5>3
      <4> QED
        BY <2>4, <3>1, <4>1, <4>2
    <3> QED
      BY <2>6, <3>1 DEF Flagged
  <2>12. ASSUME Exact(D, st.srv), ~ dbl
         PROVE  Exact(t.devs, t.srv)
    <3>1. ASSUME NEW q \in RoleNames, NEW k \in DOMAIN D, NEW i \in DOMAIN D[k].services,
                 t.srv[q] = Service(D[k], i)
          PROVE  i \in t.devs[k].assigned
      <4>1. CASE q = r
        <5>1. Names(s, D[k], i)
          BY <2>5, <3>1, <4>1 DEF Names, Service
        <5> QED
          BY <2>4, <5>1
      <4>2. CASE q # r
        <5>1. st.srv[q] = Service(D[k], i) /\ i \in D[k].assigned
          BY <2>5, <2>12, <3>1, <4>2 DEF Exact
        <5>2. ~ Names(old, D[k], i)
          <6>1. SUFFICES ASSUME Names(old, D[k], i)
                         PROVE  FALSE
            OBVIOUS
          <6>2. old = st.srv[q] /\ old # NULL
            BY <2>9, <5>1, <6>1
          <6> QED
            BY <2>1, <2>12, <4>2, <6>2 DEF Exact
        <5> QED
          BY <2>4, <5>1, <5>2
      <4> QED
        BY <4>1, <4>2
    <3>2. ASSUME NEW q \in RoleNames, NEW p \in RoleNames, t.srv[q] = t.srv[p], t.srv[q] # NULL
          PROVE  q = p
      <4>1. s = NULL \/ \A x \in RoleNames : x # r => st.srv[x] # s
        BY <2>12 DEF MayBind
      <4>2. CASE q = r \/ p = r
        BY <2>5, <3>2, <4>1, <4>2
      <4>3. CASE q # r /\ p # r
        BY <2>5, <2>12, <3>2, <4>3 DEF Exact
      <4> QED
        BY <4>2, <4>3
    <3> QED
      BY <2>6, <3>1, <3>2 DEF Exact
  <2>13. Bindings(t.devs, t.srv, rs, dbl)
    BY <2>5, <2>7, <2>10, <2>11, <2>12 DEF Bindings
  <2> QED
    BY <2>4, <2>13 DEF t, D
<1> QED
  BY <1>1, <1>2

\* Clearing roles: their services are no longer flagged.
LEMMA SetAllFacts ==
  ASSUME NEW st, ListInv(st.devs), st.srv \in [RoleNames -> Target], NEW X \in SUBSET RoleNames
  PROVE  LET t == SetAll(st, X) IN
         /\ Same(t.devs, st.devs)
         /\ t.srv \in [RoleNames -> Target]
         /\ \A q \in RoleNames : t.srv[q] = IF q \in X THEN NULL ELSE st.srv[q]
         /\ \A k \in DOMAIN st.devs : \A i :
              i \in t.devs[k].assigned <=>
                i \in st.devs[k].assigned /\ \A r \in X : ~ Names(st.srv[r], st.devs[k], i)
<1> DEFINE D == st.devs
           new(k) == {i \in D[k].assigned : \A r \in X : st.srv[r].dev # D[k].id \/ st.srv[r].idx # i}
           m == [k \in DOMAIN D |-> [D[k] EXCEPT !.assigned = new(k)]]
           t == SetAll(st, X)
<1>1. t.devs = m /\ t.srv = [q \in RoleNames |-> IF q \in X THEN NULL ELSE st.srv[q]]
  BY DEF SetAll
<1>2. NULL \in Target
  BY DEF NULL, Target
<1>3. D \in Seq(Device) /\ Len(D) \in Nat /\ DOMAIN D = 1 .. Len(D)
  BY DEF ListInv
<1>4. ASSUME NEW k \in DOMAIN D, NEW i
      PROVE  i \in new(k) <=> i \in D[k].assigned /\ \A r \in X : ~ Names(st.srv[r], D[k], i)
  BY DEF Names
<1>5. ASSUME NEW k \in DOMAIN D
      PROVE  D[k] \in Device /\ new(k) \in SUBSET Nat
  <2>1. D[k] \in Device
    BY DeviceFields
  <2> QED
    BY <2>1 DEF Device
<1> HIDE DEF new
<1>6. /\ DOMAIN m = DOMAIN D
      /\ \A k \in DOMAIN D : m[k] = [D[k] EXCEPT !.assigned = new(k)]
  OBVIOUS
<1>7. m \in Seq(Device)
  <2>1. \A k \in DOMAIN D : m[k] \in Device
    BY <1>5, <1>6 DEF Device
  <2>2. m = [k \in 1 .. Len(D) |-> m[k]]
    BY <1>3
  <2> HIDE DEF m, D
  <2> QED
    BY <1>3, <2>1, <2>2
<1> HIDE DEF m, t
<1>8. ASSUME NEW k \in DOMAIN D
      PROVE  /\ m[k].id = D[k].id /\ m[k].gen = D[k].gen
             /\ m[k].services = D[k].services
             /\ m[k].flags = D[k].flags /\ m[k].left = D[k].left
             /\ m[k].life = D[k].life /\ m[k].own = D[k].own
             /\ m[k].later = D[k].later /\ m[k].assigned = new(k)
  BY <1>5, <1>6 DEF Device
<1>9. Same(m, D)
  BY <1>6, <1>7, <1>8 DEF Same
<1>10. t.srv \in [RoleNames -> Target]
  BY <1>1, <1>2
<1> HIDE DEF D
<1>11. \A k \in DOMAIN D : \A i :
         i \in t.devs[k].assigned <=>
           i \in D[k].assigned /\ \A r \in X : ~ Names(st.srv[r], D[k], i)
  BY <1>1, <1>4, <1>8
<1>12. \A q \in RoleNames : t.srv[q] = IF q \in X THEN NULL ELSE st.srv[q]
  BY <1>1
<1> QED
  BY <1>1, <1>9, <1>10, <1>11, <1>12 DEF t, D

\* Clearing roles, and freeing some of them, keeps the others and the flags in order.
LEMMA ClearKeeps ==
  ASSUME NEW st, NEW rs \in SUBSET RoleNames, NEW dbl,
         ListInv(st.devs), Bindings(st.devs, st.srv, rs, dbl),
         NEW X \in SUBSET RoleNames, NEW left \in SUBSET RoleNames, rs \ X \subseteq left
  PROVE  LET t == SetAll(st, X) IN
         Same(t.devs, st.devs) /\ Bindings(t.devs, t.srv, left, dbl)
<1> DEFINE t == SetAll(st, X)
           D == st.devs
<1>1. /\ Same(t.devs, D)
      /\ t.srv \in [RoleNames -> Target]
      /\ \A q \in RoleNames : t.srv[q] = IF q \in X THEN NULL ELSE st.srv[q]
      /\ \A k \in DOMAIN D : \A i :
           i \in t.devs[k].assigned <=>
             i \in D[k].assigned /\ \A r \in X : ~ Names(st.srv[r], D[k], i)
  BY SetAllFacts DEF Bindings
<1> HIDE DEF t, D
<1>2. /\ DOMAIN t.devs = DOMAIN D
      /\ \A k \in DOMAIN D : /\ t.devs[k].services = D[k].services
                             /\ \A i : Service(t.devs[k], i) = Service(D[k], i)
                             /\ \A x : Serves(t.devs[k], x) <=> Serves(D[k], x)
  <2>1. \A k \in DOMAIN D : \A i : Service(t.devs[k], i) = Service(D[k], i)
    BY <1>1 DEF Same, Service
  <2> QED
    BY <1>1, <2>1 DEF Same, Serves
<1>3. ListInv(D) /\ Points(D, st.srv, rs) /\ Flagged(D, st.srv, rs) /\ (dbl \/ Exact(D, st.srv))
  BY DEF Bindings, D
<1>4. Points(t.devs, t.srv, left)
  <2>1. ASSUME NEW q \in RoleNames, t.srv[q] # NULL
        PROVE  q \in left /\ \E k \in DOMAIN t.devs : Serves(t.devs[k], t.srv[q])
    <3>1. q \notin X /\ t.srv[q] = st.srv[q]
      BY <1>1, <2>1
    <3> QED
      BY <1>2, <1>3, <2>1, <3>1 DEF Points
  <2> QED
    BY <2>1 DEF Points
<1>5. Flagged(t.devs, t.srv, left)
  <2>1. ASSUME NEW k \in DOMAIN D, NEW i, i \in t.devs[k].assigned
        PROVE  i \in DOMAIN D[k].services /\ \E q \in left : t.srv[q] = Service(D[k], i)
    <3>1. i \in D[k].assigned /\ \A r \in X : ~ Names(st.srv[r], D[k], i)
      BY <1>1, <2>1
    <3>2. i \in DOMAIN D[k].services
      BY <1>3, <3>1 DEF Flagged
    <3>3. PICK q \in rs : st.srv[q] = Service(D[k], i)
      BY <1>3, <3>1 DEF Flagged
    <3>4. q \notin X
      BY <3>1, <3>3 DEF Names, Service
    <3> QED
      BY <1>1, <3>2, <3>3, <3>4
  <2> QED
    BY <1>2, <2>1 DEF Flagged
<1>6. ASSUME Exact(D, st.srv)
      PROVE  Exact(t.devs, t.srv)
  <2>1. ASSUME NEW q \in RoleNames, NEW k \in DOMAIN D, NEW i \in DOMAIN D[k].services,
               t.srv[q] = Service(D[k], i)
        PROVE  i \in t.devs[k].assigned
    <3>1. Service(D[k], i) # NULL
      BY <1>3, ServiceFacts, DeviceFields
    <3>2. q \notin X /\ st.srv[q] = Service(D[k], i)
      BY <1>1, <2>1, <3>1
    <3>3. i \in D[k].assigned
      BY <1>6, <3>2 DEF Exact
    <3>4. ASSUME NEW r \in X, Names(st.srv[r], D[k], i)
          PROVE  FALSE
      <4>1. st.srv[r] # NULL
        BY <1>3, <3>4, DeviceFields DEF Names, NULL
      <4>2. st.srv[r] = Service(D[k], i)
        BY <1>3, <3>4, <4>1, NamedIs DEF Points
      <4> QED
        BY <1>6, <3>2, <4>1, <4>2 DEF Exact
    <3> QED
      BY <1>1, <3>3, <3>4
  <2>2. ASSUME NEW q \in RoleNames, NEW p \in RoleNames, t.srv[q] = t.srv[p], t.srv[q] # NULL
        PROVE  q = p
    BY <1>1, <1>6, <2>2 DEF Exact
  <2> QED
    BY <1>2, <2>1, <2>2 DEF Exact
<1>7. Bindings(t.devs, t.srv, left, dbl)
  BY <1>1, <1>3, <1>4, <1>5, <1>6 DEF Bindings
<1> QED
  BY <1>1, <1>7 DEF t, D

\* Freeing devices: the roles that were bound to them are cleared.
LEMMA DestroyedKeeps ==
  ASSUME NEW devs, ListInv(devs), NEW dbl, roles \subseteq RoleNames,
         NEW st, Bindings(devs, st.srv, roles, dbl),
         NEW G \in SUBSET DOMAIN devs, ListInv(st.devs), Thinned(st.devs, devs, G),
         NEW gone, gone = {devs[k] : k \in G}
  PROVE  LET t == rolemgr_device_destroyed(st, gone) IN
         Same(t.devs, st.devs) /\ Bindings(t.devs, t.srv, roles, dbl)
<1> DEFINE X == {r \in roles : \E d \in gone : st.srv[r].dev = d.id /\ st.srv[r].gen = d.gen}
           t == SetAll(st, X)
           D == st.devs
<1>1. rolemgr_device_destroyed(st, gone) = t
  BY DEF rolemgr_device_destroyed
<1>2. X \in SUBSET RoleNames /\ st.srv \in [RoleNames -> Target]
  BY DEF Bindings
<1>3. \A r \in roles : r \in X <=> \E g \in G : st.srv[r].dev = devs[g].id /\ st.srv[r].gen = devs[g].gen
  OBVIOUS
<1> HIDE DEF X
<1>4. /\ Same(t.devs, D)
      /\ t.srv \in [RoleNames -> Target]
      /\ \A q \in RoleNames : t.srv[q] = IF q \in X THEN NULL ELSE st.srv[q]
      /\ \A k \in DOMAIN D : \A i :
           i \in t.devs[k].assigned <=>
             i \in D[k].assigned /\ \A r \in X : ~ Names(st.srv[r], D[k], i)
  BY <1>2, SetAllFacts
<1> HIDE DEF t, D
<1>5. /\ DOMAIN t.devs = DOMAIN D
      /\ \A k \in DOMAIN D : /\ t.devs[k].services = D[k].services
                             /\ \A i : Service(t.devs[k], i) = Service(D[k], i)
                             /\ \A x : Serves(t.devs[k], x) <=> Serves(D[k], x)
  <2>1. \A k \in DOMAIN D : \A i : Service(t.devs[k], i) = Service(D[k], i)
    BY <1>4 DEF Same, Service
  <2> QED
    BY <1>4, <2>1 DEF Same, Serves
<1>6. /\ Points(devs, st.srv, roles) /\ Flagged(devs, st.srv, roles)
      /\ dbl \/ Exact(devs, st.srv)
  BY DEF Bindings
<1>7. ListInv(D) /\ Thinned(D, devs, G)
  BY DEF D
<1>8. ASSUME NEW j \in DOMAIN D
      PROVE  \E k \in DOMAIN devs : D[j] = devs[k] /\ \A g \in G : devs[g].id # D[j].id
  <2>1. PICK k \in DOMAIN devs \ G : D[j] = devs[k]
    BY <1>7 DEF Thinned
  <2>2. \A g \in G : devs[g].id # devs[k].id
    BY <2>1, OneOfAName
  <2> QED
    BY <2>1, <2>2
<1>9. X \subseteq roles
  BY DEF X
<1>10. ASSUME NEW r \in X, NEW j \in DOMAIN D, NEW i
       PROVE  ~ Names(st.srv[r], D[j], i) /\ st.srv[r] # Service(D[j], i)
  BY <1>3, <1>8, <1>9 DEF Names, Service
<1>11. Points(t.devs, t.srv, roles)
  <2>1. ASSUME NEW q \in RoleNames, t.srv[q] # NULL
        PROVE  q \in roles /\ \E k \in DOMAIN t.devs : Serves(t.devs[k], t.srv[q])
    <3>1. q \notin X /\ t.srv[q] = st.srv[q]
      BY <1>4, <2>1
    <3>2. q \in roles
      BY <1>6, <2>1, <3>1 DEF Points
    <3>3. PICK k \in DOMAIN devs : Serves(devs[k], st.srv[q])
      BY <1>6, <2>1, <3>1 DEF Points
    <3>4. k \notin G
      <4>1. st.srv[q].dev = devs[k].id /\ st.srv[q].gen = devs[k].gen
        BY <3>3 DEF Serves, Service
      <4> QED
        BY <1>3, <3>1, <3>2, <4>1
    <3>5. PICK j \in DOMAIN D : D[j] = devs[k]
      BY <1>7, <3>4 DEF Thinned
    <3> QED
      BY <1>5, <3>1, <3>2, <3>3, <3>5
  <2> QED
    BY <2>1 DEF Points
<1>12. Flagged(t.devs, t.srv, roles)
  <2>1. ASSUME NEW j \in DOMAIN D, NEW i, i \in t.devs[j].assigned
        PROVE  i \in DOMAIN D[j].services /\ \E q \in roles : t.srv[q] = Service(D[j], i)
    <3>1. PICK k \in DOMAIN devs : D[j] = devs[k]
      BY <1>8
    <3>2. i \in devs[k].assigned
      BY <1>4, <2>1, <3>1
    <3>3. i \in DOMAIN devs[k].services
      BY <1>6, <3>2 DEF Flagged
    <3>4. PICK q \in roles : st.srv[q] = Service(devs[k], i)
      BY <1>6, <3>2 DEF Flagged
    <3>5. q \notin X
      BY <1>10, <3>1, <3>4
    <3> QED
      BY <1>4, <3>1, <3>3, <3>4, <3>5
  <2> QED
    BY <1>5, <2>1 DEF Flagged
<1>13. ASSUME Exact(devs, st.srv)
       PROVE  Exact(t.devs, t.srv)
  <2>1. ASSUME NEW q \in RoleNames, NEW j \in DOMAIN D, NEW i \in DOMAIN D[j].services,
               t.srv[q] = Service(D[j], i)
        PROVE  i \in t.devs[j].assigned
    <3>1. Service(D[j], i) # NULL
      BY <1>7, ServiceFacts, DeviceFields
    <3>2. st.srv[q] = Service(D[j], i)
      BY <1>4, <2>1, <3>1
    <3>3. PICK k \in DOMAIN devs : D[j] = devs[k]
      BY <1>8
    <3>4. i \in D[j].assigned
      BY <1>13, <3>2, <3>3 DEF Exact
    <3> QED
      BY <1>4, <1>10, <3>4
  <2>2. ASSUME NEW q \in RoleNames, NEW p \in RoleNames, t.srv[q] = t.srv[p], t.srv[q] # NULL
        PROVE  q = p
    BY <1>4, <1>13, <2>2 DEF Exact
  <2> QED
    BY <1>5, <2>1, <2>2 DEF Exact
<1>14. Bindings(t.devs, t.srv, roles, dbl)
  BY <1>4, <1>6, <1>11, <1>12, <1>13 DEF Bindings
<1> QED
  BY <1>1, <1>4, <1>14 DEF D

\* The hinted service, if it is free, may be bound.
LEMMA HintKeeps ==
  ASSUME NEW st, roles \subseteq RoleNames, ListInv(st.devs),
         Bindings(st.devs, st.srv, roles, doubled), NEW r \in roles
  PROVE  LET t == rolemgr_use_hint(st, r) IN
         Same(t.devs, st.devs) /\ Bindings(t.devs, t.srv, roles, doubled)
<1> DEFINE t == rolemgr_use_hint(st, r)
           h == RoleHint[r]
           id == CASE h.dev = "app" -> AppDevice [] h.dev = "int" -> 0 [] h.dev = "none" -> -1
           d == Lookup(st.devs, id)
           nth == {i \in OfClass(d, r, 0) : Cardinality({j \in OfClass(d, r, 0) : j < i}) = h.srvo}
           i == CHOOSE i \in nth \ d.assigned : TRUE
<1>1. CASE t = st
  BY <1>1, SameRefl
<1>2. CASE t # st
  <2>1. Known(st.devs, id) /\ ~ (nth \subseteq d.assigned) /\ t = rolemgr_set(st, r, Service(d, i))
    BY <1>2 DEF rolemgr_use_hint
  <2>2. nth \subseteq OfClass(d, r, 0)
    OBVIOUS
  <2> HIDE DEF nth, id
  <2>3. PICK k \in DOMAIN st.devs : d = st.devs[k]
    BY <2>1 DEF Known, Lookup
  <2> HIDE DEF d
  <2>4. i \in nth /\ i \notin d.assigned
    BY <2>1
  <2> HIDE DEF i
  <2>5. i \in DOMAIN d.services
    BY <2>2, <2>4 DEF OfClass
  <2>6. MayBind(st.devs, st.srv, doubled, r, Service(d, i))
    BY <2>3, <2>4, <2>5 DEF MayBind, Serves, Bindings, Exact
  <2> HIDE DEF t
  <2> QED
    BY <2>1, <2>6, SetKeeps DEF t
<1> QED
  BY <1>1, <1>2

\* The first free service of its class may be bound.
LEMMA FreeKeeps ==
  ASSUME NEW st, roles \subseteq RoleNames, ListInv(st.devs),
         Bindings(st.devs, st.srv, roles, doubled), NEW r \in roles
  PROVE  LET t == FirstFree(st, r) IN
         Same(t.devs, st.devs) /\ Bindings(t.devs, t.srv, roles, doubled)
<1> DEFINE t == FirstFree(st, r)
           free(d) == OfClass(d, r, 1) \ d.assigned
           has == {k \in DOMAIN st.devs : free(st.devs[k]) # {}}
           k == CHOOSE k \in has : \A j \in has : k <= j
           d == st.devs[k]
           i == CHOOSE i \in free(d) : \A j \in free(d) : i <= j
<1>1. CASE t = st
  BY <1>1, SameRefl
<1>2. CASE t # st
  <2>1. has # {} /\ t = rolemgr_set(st, r, Service(d, i))
    BY <1>2 DEF FirstFree
  <2>2. has \in SUBSET Nat
    BY DeviceFields
  <2>3. k \in has
    <3> HIDE DEF has
    <3> QED
      BY <2>1, <2>2, LeastNatural
  <2>4. k \in DOMAIN st.devs /\ free(d) # {}
    BY <2>3
  <2> HIDE DEF k, has
  <2>5. \A x \in free(d) : x \in DOMAIN d.services /\ x \notin d.assigned
    BY DEF OfClass
  <2>6. free(d) \in SUBSET Nat
    BY <2>4, <2>5, DeviceFields
  <2> HIDE DEF free
  <2>7. i \in free(d)
    BY <2>4, <2>6, LeastNatural
  <2> HIDE DEF i, t
  <2>8. MayBind(st.devs, st.srv, doubled, r, Service(d, i))
    BY <2>4, <2>5, <2>7 DEF MayBind, Serves, Bindings, Exact
  <2> QED
    BY <2>1, <2>8, SetKeeps DEF t
<1> QED
  BY <1>1, <1>2

\* The states that the two loops of rolemgr_autobind go through.
Bound(devs) ==
  {st \in [devs : Seq(Device), srv : [RoleNames -> Target], chg : BOOLEAN] :
     Same(st.devs, devs) /\ Bindings(st.devs, st.srv, roles, doubled)}

\* rolemgr_set makes a state of such a state.
LEMMA SetState ==
  ASSUME NEW st, st.chg \in BOOLEAN, NEW r, NEW s, st = [devs |-> st.devs, srv |-> st.srv, chg |-> st.chg]
  PROVE  LET t == rolemgr_set(st, r, s)
         IN  t.chg \in BOOLEAN /\ t = [devs |-> t.devs, srv |-> t.srv, chg |-> t.chg]
  BY DEF rolemgr_set

\* Both loops stay among those states.
LEMMA LoopSteps ==
  ASSUME NEW devs, ListInv(devs), roles \subseteq RoleNames, NEW st \in Bound(devs), NEW r \in roles
  PROVE  rolemgr_use_hint(st, r) \in Bound(devs) /\ FirstFree(st, r) \in Bound(devs)
<1>1. /\ Same(st.devs, devs) /\ Bindings(st.devs, st.srv, roles, doubled)
      /\ st.chg \in BOOLEAN /\ st = [devs |-> st.devs, srv |-> st.srv, chg |-> st.chg]
  BY DEF Bound
<1>2. ListInv(st.devs)
  BY <1>1, SameSorted
<1>3. ASSUME NEW t, t = st \/ \E s : t = rolemgr_set(st, r, s),
             Same(t.devs, st.devs), Bindings(t.devs, t.srv, roles, doubled)
      PROVE  t \in Bound(devs)
  <2>1. t.chg \in BOOLEAN /\ t = [devs |-> t.devs, srv |-> t.srv, chg |-> t.chg]
    BY <1>1, <1>3, SetState
  <2>2. Same(t.devs, devs)
    BY <1>1, <1>3, SameTrans
  <2>3. t.devs \in Seq(Device) /\ t.srv \in [RoleNames -> Target]
    BY <1>3 DEF Same, Bindings
  <2>4. t \in [devs : Seq(Device), srv : [RoleNames -> Target], chg : BOOLEAN]
    BY <2>1, <2>3
  <2> QED
    BY <1>3, <2>2, <2>4 DEF Bound
<1>4. LET t == rolemgr_use_hint(st, r) IN t = st \/ \E s : t = rolemgr_set(st, r, s)
  BY DEF rolemgr_use_hint
<1>5. LET t == FirstFree(st, r) IN t = st \/ \E s : t = rolemgr_set(st, r, s)
  BY DEF FirstFree
<1> QED
  BY <1>1, <1>2, <1>3, <1>4, <1>5, HintKeeps, FreeKeeps

\* The loop over the hints.
LEMMA HintsLoop ==
  ASSUME NEW devs, ListInv(devs), roles \subseteq RoleNames, NEW st \in Bound(devs)
  PROVE  UseHints(st) \in Bound(devs)
<1> DEFINE n == MaxRole
           R(g) == g = [r \in 0 .. n |->
                          IF r = 0 THEN st
                          ELSE IF r \in roles THEN rolemgr_use_hint(g[r - 1], r) ELSE g[r - 1]]
           f == CHOOSE g : R(g)
           T == Bound(devs)
           step == [r \in 1 .. n |-> [x \in T |-> IF r \in roles THEN rolemgr_use_hint(x, r) ELSE x]]
<1>1. n \in Nat
  BY ConstantsAssumption
<1>2. \A x \in T, r \in 1 .. n : r \in roles => rolemgr_use_hint(x, r) \in T
  BY LoopSteps
<1>3. st \in T
  OBVIOUS
<1>4. UseHints(st) = f[n]
  BY DEF UseHints
<1> HIDE DEF T, n
<1>5. step \in [1 .. n -> [T -> T]]
  BY <1>2
<1>6. \A r \in 1 .. n : \A x \in T : step[r][x] = IF r \in roles THEN rolemgr_use_hint(x, r) ELSE x
  OBVIOUS
<1> HIDE DEF step
<1>7. PICK g \in [0 .. n -> T] : Recurs(g, st, step, n)
  BY <1>1, <1>3, <1>5, Recursion
<1>8. ASSUME NEW r \in 0 .. n
      PROVE  g[r] = IF r = 0 THEN st
                    ELSE IF r \in roles THEN rolemgr_use_hint(g[r - 1], r) ELSE g[r - 1]
  <2>1. CASE r = 0
    BY <1>7, <2>1 DEF Recurs
  <2>2. CASE r # 0
    <3>1. r \in 1 .. n /\ r - 1 \in 0 .. n
      BY <1>1, <2>2
    <3>2. g[r] = step[r][g[r - 1]] /\ g[r - 1] \in T
      BY <1>7, <3>1 DEF Recurs
    <3> QED
      BY <1>6, <2>2, <3>1, <3>2
  <2> QED
    BY <2>1, <2>2
<1>9. R(g)
  BY <1>7, <1>8
<1>10. R(f)
  BY <1>9
<1> HIDE DEF f
<1> DEFINE S == {k \in Nat : k <= n => f[k] \in T}
<1>11. f[0] = st
  BY <1>1, <1>10
<1>12. 0 \in S
  BY <1>3, <1>11
<1>13. ASSUME NEW k \in Nat, k \in S
       PROVE  k + 1 \in S
  <2>1. SUFFICES ASSUME k + 1 <= n
                 PROVE  f[k + 1] \in T
    OBVIOUS
  <2>2. k + 1 \in 1 .. n /\ k + 1 \in 0 .. n /\ k + 1 # 0 /\ (k + 1) - 1 = k /\ f[k] \in T
    BY <1>1, <1>13, <2>1
  <2>3. f[k + 1] = IF k + 1 \in roles THEN rolemgr_use_hint(f[k], k + 1) ELSE f[k]
    BY <1>10, <2>2
  <2> QED
    BY <1>2, <2>2, <2>3
<1> HIDE DEF S
<1>14. n \in S
  BY <1>1, <1>12, <1>13, SetInduction
<1>15. f[n] \in T
  BY <1>1, <1>14 DEF S
<1> QED
  BY <1>4, <1>15 DEF T, n

\* The loop over the free services.
LEMMA FreeLoop ==
  ASSUME NEW devs, ListInv(devs), roles \subseteq RoleNames, NEW st \in Bound(devs)
  PROVE  BindFree(st) \in Bound(devs)
<1> DEFINE n == MaxRole
           R(g) == g = [r \in 0 .. n |->
                          IF r = 0 THEN st
                          ELSE IF r \in roles THEN FirstFree(g[r - 1], r) ELSE g[r - 1]]
           f == CHOOSE g : R(g)
           T == Bound(devs)
           step == [r \in 1 .. n |-> [x \in T |-> IF r \in roles THEN FirstFree(x, r) ELSE x]]
<1>1. n \in Nat
  BY ConstantsAssumption
<1>2. \A x \in T, r \in 1 .. n : r \in roles => FirstFree(x, r) \in T
  BY LoopSteps
<1>3. st \in T
  OBVIOUS
<1>4. BindFree(st) = f[n]
  BY DEF BindFree
<1> HIDE DEF T, n
<1>5. step \in [1 .. n -> [T -> T]]
  BY <1>2
<1>6. \A r \in 1 .. n : \A x \in T : step[r][x] = IF r \in roles THEN FirstFree(x, r) ELSE x
  OBVIOUS
<1> HIDE DEF step
<1>7. PICK g \in [0 .. n -> T] : Recurs(g, st, step, n)
  BY <1>1, <1>3, <1>5, Recursion
<1>8. ASSUME NEW r \in 0 .. n
      PROVE  g[r] = IF r = 0 THEN st
                    ELSE IF r \in roles THEN FirstFree(g[r - 1], r) ELSE g[r - 1]
  <2>1. CASE r = 0
    BY <1>7, <2>1 DEF Recurs
  <2>2. CASE r # 0
    <3>1. r \in 1 .. n /\ r - 1 \in 0 .. n
      BY <1>1, <2>2
    <3>2. g[r] = step[r][g[r - 1]] /\ g[r - 1] \in T
      BY <1>7, <3>1 DEF Recurs
    <3> QED
      BY <1>6, <2>2, <3>1, <3>2
  <2> QED
    BY <2>1, <2>2
<1>9. R(g)
  BY <1>7, <1>8
<1>10. R(f)
  BY <1>9
<1> HIDE DEF f
<1> DEFINE S == {k \in Nat : k <= n => f[k] \in T}
<1>11. f[0] = st
  BY <1>1, <1>10
<1>12. 0 \in S
  BY <1>3, <1>11
<1>13. ASSUME NEW k \in Nat, k \in S
       PROVE  k + 1 \in S
  <2>1. SUFFICES ASSUME k + 1 <= n
                 PROVE  f[k + 1] \in T
    OBVIOUS
  <2>2. k + 1 \in 1 .. n /\ k + 1 \in 0 .. n /\ k + 1 # 0 /\ (k + 1) - 1 = k /\ f[k] \in T
    BY <1>1, <1>13, <2>1
  <2>3. f[k + 1] = IF k + 1 \in roles THEN FirstFree(f[k], k + 1) ELSE f[k]
    BY <1>10, <2>2
  <2> QED
    BY <1>2, <2>2, <2>3
<1> HIDE DEF S
<1>14. n \in S
  BY <1>1, <1>12, <1>13, SetInduction
<1>15. f[n] \in T
  BY <1>1, <1>14 DEF S
<1> QED
  BY <1>4, <1>15 DEF T, n

\* rolemgr_autobind keeps the roles and the flags in order.
LEMMA AutobindKeeps ==
  ASSUME IInv, Autobind
  PROVE  /\ Same(jd_devices', jd_devices)
         /\ Bindings(jd_devices', service', roles, doubled)
         /\ changed' \in BOOLEAN
<1>1. /\ roles \subseteq RoleNames /\ changed \in BOOLEAN
      /\ ListInv(jd_devices) /\ Bindings(jd_devices, service, roles, doubled)
  BY DEF IInv, TypeInv
<1> DEFINE t == rolemgr_autobind(State)
<1>2. State \in Bound(jd_devices)
  <2>1. /\ Same(jd_devices, jd_devices)
        /\ jd_devices \in Seq(Device) /\ service \in [RoleNames -> Target]
    BY <1>1, SameRefl DEF ListInv, Bindings
  <2> QED
    BY <1>1, <2>1 DEF Bound, State
<1>3. UseHints(State) \in Bound(jd_devices)
  BY <1>1, <1>2, HintsLoop
<1>4. BindFree(UseHints(State)) \in Bound(jd_devices)
  BY <1>1, <1>3, FreeLoop
<1>5. t \in Bound(jd_devices)
  BY <1>2, <1>4 DEF rolemgr_autobind
<1>6. jd_devices' = t.devs /\ service' = t.srv /\ changed' = t.chg
  BY DEF Autobind, Becomes
<1> HIDE DEF t
<1> QED
  BY <1>5, <1>6 DEF Bound

------------------------------------------------------------------------------
(* Restarts and collections *)

\* Of the devices of a list, some may have been heard, and the others are as late.
LEMMA LateSame ==
  ASSUME NEW devs, NEW devs2, NEW g, NEW g2, PassedOver(devs, g), DOMAIN devs2 = DOMAIN devs,
         \A k \in DOMAIN devs : /\ devs2[k].id = devs[k].id
                                /\ \/ Late(devs2[k], g2) = Late(devs[k], g)
                                   \/ Late(devs2[k], g2) < 0 /\ ~ (Late(devs2[k], g2) > 0)
  PROVE  PassedOver(devs2, g2)
<1>1. ASSUME NEW k \in DOMAIN devs, Late(devs2[k], g2) > 0
      PROVE  /\ Late(devs2[k], g2) < MaxId
             /\ \E j \in DOMAIN devs : /\ Precedes(devs2, j, k)
                                       /\ \/ Late(devs2[k], g2) < devs2[k].id - devs2[j].id
                                          \/ Late(devs2[j], g2) < 0
  <2>1. Late(devs2[k], g2) = Late(devs[k], g)
    BY <1>1
  <2>2. Late(devs[k], g) < MaxId
    BY <1>1, <2>1 DEF PassedOver
  <2>3. PICK j \in DOMAIN devs : /\ Precedes(devs, j, k)
                                 /\ \/ Late(devs[k], g) < devs[k].id - devs[j].id
                                    \/ Late(devs[j], g) < 0
    BY <1>1, <2>1 DEF PassedOver
  <2>4. Precedes(devs2, j, k)
    BY <2>3 DEF Precedes
  <2>5. Late(devs2[j], g2) = Late(devs[j], g) \/ Late(devs2[j], g2) < 0
    OBVIOUS
  <2> QED
    BY <2>1, <2>2, <2>3, <2>4, <2>5
<1> QED
  BY <1>1 DEF PassedOver

\* A flag of a service has nothing to do with any of this.
LEMMA RoleStep ==
  ASSUME IInv, UNCHANGED <<bus, gcDue, gens>>, Same(jd_devices', jd_devices)
  PROVE  ListInv(jd_devices') /\ RestartInv' /\ PassedOver(jd_devices', gcDue')
<1>1. ListInv(jd_devices) /\ RestartInv /\ PassedOver(jd_devices, gcDue)
  BY DEF IInv
<1>2. ListInv(jd_devices')
  BY <1>1, SameSorted
<1>3. DOMAIN jd_devices' = DOMAIN jd_devices
  BY DEF Same
<1>4. PassedOver(jd_devices', gcDue')
  <2>1. \A k \in DOMAIN jd_devices : /\ jd_devices'[k].id = jd_devices[k].id
                                     /\ Late(jd_devices'[k], gcDue') = Late(jd_devices[k], gcDue)
    BY DEF Same, Late
  <2> QED
    BY <1>1, <1>3, <2>1, LateSame
<1>5. ASSUME NEW k \in DOMAIN jd_devices
      PROVE  LET id == jd_devices'[k].id
             IN  Remembers(jd_devices'[k], life'[id], Count(id, reset_counter', due'))
  <2> DEFINE id == jd_devices[k].id
  <2>1. Remembers(jd_devices[k], life[id], Count(id, reset_counter, due))
    BY <1>1 DEF RestartInv
  <2>2. jd_devices'[k].id = id
    BY DEF Same
  <2>3. life' = life /\ reset_counter' = reset_counter /\ due' = due
    BY DEF bus
  <2> QED
    BY <2>1, <2>2, <2>3 DEF Same, Remembers
<1>6. RestartInv'
  BY <1>3, <1>5 DEF RestartInv
<1> QED
  BY <1>2, <1>4, <1>6

\* Devices that keep their names, services and flags keep their roles.
LEMMA BindingsSame ==
  ASSUME NEW devs, NEW devs2, NEW srv, NEW rs, NEW dbl, Bindings(devs, srv, rs, dbl),
         DOMAIN devs2 = DOMAIN devs,
         \A k \in DOMAIN devs : /\ devs2[k].id = devs[k].id /\ devs2[k].gen = devs[k].gen
                                /\ devs2[k].services = devs[k].services
                                /\ devs2[k].assigned = devs[k].assigned
  PROVE  Bindings(devs2, srv, rs, dbl)
<1>1. \A k \in DOMAIN devs : \A i : Service(devs2[k], i) = Service(devs[k], i)
  BY DEF Service
<1>2. \A k \in DOMAIN devs : \A s : Serves(devs2[k], s) <=> Serves(devs[k], s)
  BY <1>1 DEF Serves
<1>3. Points(devs2, srv, rs)
  BY <1>2 DEF Bindings, Points
<1>4. Flagged(devs2, srv, rs)
  BY <1>1 DEF Bindings, Flagged
<1>5. dbl \/ Exact(devs2, srv)
  BY <1>1 DEF Bindings, Exact
<1> QED
  BY <1>3, <1>4, <1>5 DEF Bindings

\* A device that has just been heard has no role yet.
LEMMA AllocKeeps ==
  ASSUME NEW devs, ListInv(devs), NEW srv, NEW rs, NEW dbl, Bindings(devs, srv, rs, dbl),
         NEW d \in Device, d.assigned = {}, ~ Known(devs, d.id)
  PROVE  Bindings(Insert(devs, d), srv, rs, dbl)
<1> DEFINE t == Insert(devs, d)
<1>1. ListInv(t) /\ Inserted(t, devs, d)
  BY InsertFacts
<1> HIDE DEF t
<1>2. Points(t, srv, rs)
  <2>1. ASSUME NEW r \in RoleNames, srv[r] # NULL
        PROVE  r \in rs /\ \E j \in DOMAIN t : Serves(t[j], srv[r])
    <3>1. r \in rs /\ \E k \in DOMAIN devs : Serves(devs[k], srv[r])
      BY <2>1 DEF Bindings, Points
    <3> QED
      BY <1>1, <3>1 DEF Inserted
  <2> QED
    BY <2>1 DEF Points
<1>3. Flagged(t, srv, rs)
  <2>1. ASSUME NEW j \in DOMAIN t, NEW i \in t[j].assigned
        PROVE  i \in DOMAIN t[j].services /\ \E r \in rs : srv[r] = Service(t[j], i)
    <3>1. PICK k \in DOMAIN devs : t[j] = devs[k]
      BY <1>1, <2>1 DEF Inserted
    <3> QED
      BY <2>1, <3>1 DEF Bindings, Flagged
  <2> QED
    BY <2>1 DEF Flagged
<1>4. ASSUME Exact(devs, srv)
      PROVE  Exact(t, srv)
  <2>1. ASSUME NEW r \in RoleNames, NEW j \in DOMAIN t, NEW i \in DOMAIN t[j].services,
               srv[r] = Service(t[j], i)
        PROVE  i \in t[j].assigned
    <3>1. srv[r] # NULL
      BY <1>1, <2>1, ServiceFacts, DeviceFields
    <3>2. PICK k \in DOMAIN devs : Serves(devs[k], srv[r])
      BY <3>1 DEF Bindings, Points
    <3>3. devs[k].id = t[j].id
      BY <2>1, <3>2 DEF Serves, Service
    <3>4. t[j] # d
      BY <3>3 DEF Known
    <3>5. PICK l \in DOMAIN devs : t[j] = devs[l]
      BY <1>1, <3>4 DEF Inserted
    <3> QED
      BY <1>4, <2>1, <3>5 DEF Exact
  <2>2. \A r, q \in RoleNames : srv[r] = srv[q] /\ srv[r] # NULL => r = q
    BY <1>4 DEF Exact
  <2> QED
    BY <2>1, <2>2 DEF Exact
<1>5. Bindings(t, srv, rs, dbl)
  BY <1>2, <1>3, <1>4 DEF Bindings
<1> QED
  BY <1>5 DEF t

\* Where a device has just been heard, the one after it has been passed over for long enough.
LEMMA HeardThere ==
  ASSUME NEW devs, ListInv(devs), NEW g, PassedOver(devs, g), NEW d \in Device, Late(d, g) < 0,
         NEW t, \E q \in DOMAIN t : t[q] = d,
         \A j \in DOMAIN t : \/ t[j] = d
                             \/ \E k \in DOMAIN devs : t[j].id = devs[k].id /\ t[j].left = devs[k].left,
         \A k \in DOMAIN devs : \/ devs[k].id = d.id
                                \/ \E j \in DOMAIN t : t[j].id = devs[k].id /\ t[j].left = devs[k].left
  PROVE  PassedOver(t, g)
<1>1. d.id \in Nat /\ Late(d, g) \in Int /\ ~ (Late(d, g) > 0)
  BY ConstantsAssumption DEF Device, Ids, Late
<1>2. PICK q \in DOMAIN t : t[q] = d
  OBVIOUS
<1>3. ASSUME NEW j \in DOMAIN t, Late(t[j], g) > 0
      PROVE  /\ Late(t[j], g) < MaxId
             /\ \E i \in DOMAIN t : /\ Precedes(t, i, j)
                                    /\ Late(t[j], g) < t[j].id - t[i].id \/ Late(t[i], g) < 0
  <2>1. PICK k \in DOMAIN devs : t[j].id = devs[k].id /\ t[j].left = devs[k].left
    BY <1>1, <1>3
  <2>2. Late(t[j], g) = Late(devs[k], g)
    BY <2>1 DEF Late
  <2>3. Late(devs[k], g) < MaxId
    BY <1>3, <2>2 DEF PassedOver
  <2>4. PICK p \in DOMAIN devs : /\ Precedes(devs, p, k)
                                 /\ Late(devs[k], g) < devs[k].id - devs[p].id \/ Late(devs[p], g) < 0
    BY <1>3, <2>2 DEF PassedOver
  <2>5. devs[p].id \in Nat /\ devs[k].id \in Nat /\ \A i \in DOMAIN devs : devs[i].id \in Nat
    BY DeviceFields
  <2>6. CASE devs[p].id <= d.id /\ d.id < devs[k].id
    <3>1. ASSUME NEW i \in DOMAIN t, d.id < t[i].id, t[i].id < t[j].id
          PROVE  FALSE
      <4>1. PICK l \in DOMAIN devs : t[i].id = devs[l].id
        BY <1>1, <3>1
      <4>2. devs[p].id < devs[l].id /\ devs[l].id < devs[k].id
        BY <1>1, <2>1, <2>5, <2>6, <3>1, <4>1
      <4> QED
        BY <2>4, <4>2 DEF Precedes
    <3>2. Precedes(t, q, j)
      BY <1>2, <2>1, <2>6, <3>1 DEF Precedes
    <3> QED
      BY <1>2, <2>2, <2>3, <3>2
  <2>7. CASE ~ (devs[p].id <= d.id /\ d.id < devs[k].id)
    <3>1. devs[p].id # d.id
      BY <1>1, <2>4, <2>5, <2>7 DEF Precedes
    <3>2. PICK i \in DOMAIN t : t[i].id = devs[p].id /\ t[i].left = devs[p].left
      BY <3>1
    <3>3. ASSUME NEW l \in DOMAIN t, t[i].id < t[l].id, t[l].id < t[j].id
          PROVE  FALSE
      <4>1. CASE t[l] = d
        BY <1>1, <2>1, <2>5, <2>7, <3>2, <3>3, <4>1
      <4>2. CASE t[l] # d
        BY <2>1, <2>4, <3>2, <3>3, <4>2 DEF Precedes
      <4> QED
        BY <4>1, <4>2
    <3>4. Precedes(t, i, j)
      BY <2>1, <2>4, <3>2, <3>3 DEF Precedes
    <3>5. Late(t[i], g) = Late(devs[p], g)
      BY <3>2 DEF Late
    <3> QED
      BY <2>1, <2>2, <2>3, <2>4, <3>2, <3>4, <3>5
  <2> QED
    BY <2>6, <2>7
<1> QED
  BY <1>3 DEF PassedOver

\* A collection passes over a device only if it frees the one before it.
LEMMA CollectionPasses ==
  ASSUME NEW devs, ListInv(devs), PassedOver(devs, TRUE), NEW freed, Collected(freed, devs),
         NEW t, Thinned(t, devs, freed)
  PROVE  PassedOver(t, FALSE)
<1>1. \A k \in DOMAIN devs : k \in Nat /\ devs[k].id \in Nat /\ devs[k].id <= MaxId /\ devs[k].left \in Int
  BY DeviceFields
<1>2. DOMAIN devs = 1 .. Len(devs) /\ Len(devs) \in Nat
  BY DEF ListInv
<1>3. ASSUME NEW j \in DOMAIN t, Late(t[j], FALSE) > 0
      PROVE  /\ Late(t[j], FALSE) < MaxId
             /\ \E i \in DOMAIN t : Precedes(t, i, j) /\ Late(t[j], FALSE) < t[j].id - t[i].id
  <2>1. PICK k \in DOMAIN devs \ freed : t[j] = devs[k]
    BY DEF Thinned
  <2>2. devs[k].left <= 0
    BY <1>1, <1>3, <2>1 DEF Late
  <2>3. k - 1 \in freed /\ \E i \in DOMAIN devs \ freed : i < k
    BY <2>1, <2>2 DEF Collected
  <2>4. k - 1 \in DOMAIN devs /\ devs[k - 1].left <= 0
    BY <2>3 DEF Collected
  <2> DEFINE E == {i \in DOMAIN devs \ freed : i < k}
  <2>5. \E m \in E : \A i \in E : i <= m
    <3>1. E \in SUBSET (0 .. Len(devs)) /\ E # {}
      BY <1>2, <2>3
    <3> HIDE DEF E
    <3> QED
      BY <1>2, <3>1, GreatestNatural
  <2>6. PICK m \in DOMAIN devs \ freed : m < k /\ \A i \in DOMAIN devs \ freed : i < k => i <= m
    BY <2>5
  <2>7. m < k - 1
    BY <1>1, <2>1, <2>3, <2>4, <2>6
  <2>8. devs[m].id < devs[k - 1].id /\ devs[k - 1].id < devs[k].id
    <3>1. k - 1 < k
      BY <1>1, <2>1
    <3> QED
      BY <2>1, <2>4, <2>6, <2>7, <3>1 DEF ListInv, Sorted
  <2>9. PICK i \in DOMAIN t : t[i] = devs[m]
    BY <2>6 DEF Thinned
  <2>10. Precedes(t, i, j)
    <3>1. ASSUME NEW l \in DOMAIN t, t[i].id < t[l].id, t[l].id < t[j].id
          PROVE  FALSE
      <4>1. PICK x \in DOMAIN devs \ freed : t[l] = devs[x]
        BY DEF Thinned
      <4>2. devs[m].id < devs[x].id /\ devs[x].id < devs[k].id
        BY <2>1, <2>9, <3>1, <4>1
      <4>3. x < k /\ m < x
        <5>1. ~ (k < x) /\ ~ (x < m) /\ x # k /\ x # m
          BY <1>1, <2>1, <2>6, <4>1, <4>2 DEF ListInv, Sorted
        <5> QED
          BY <1>1, <2>1, <2>6, <4>1, <5>1
      <4> QED
        BY <1>1, <2>6, <4>1, <4>3
    <3> QED
      BY <1>1, <2>1, <2>6, <2>8, <2>9, <2>4, <3>1 DEF Precedes
  <2>11. 1 - devs[k].left < devs[k].id - devs[m].id
    <3>1. CASE devs[k].left = 0
      BY <1>1, <2>1, <2>4, <2>6, <2>8, <3>1
    <3>2. CASE devs[k].left # 0
      <4>1. Late(devs[k], TRUE) > 0 /\ Late(devs[k], TRUE) = - devs[k].left
        BY <1>1, <2>1, <2>2, <3>2 DEF Late
      <4>2. PICK p \in DOMAIN devs : /\ Precedes(devs, p, k)
                                     /\ \/ Late(devs[k], TRUE) < devs[k].id - devs[p].id
                                        \/ Late(devs[p], TRUE) < 0
        BY <2>1, <4>1 DEF PassedOver
      <4>3. p = k - 1
        <5>1. ~ (devs[p].id < devs[k - 1].id) /\ devs[p].id < devs[k].id
          BY <2>4, <2>8, <4>2 DEF Precedes
        <5>2. ~ (p < k - 1) /\ ~ (k < p) /\ p # k
          BY <1>1, <2>1, <2>4, <4>2, <5>1 DEF ListInv, Sorted
        <5> QED
          BY <1>1, <2>1, <4>2, <5>2
      <4>4. ~ (Late(devs[p], TRUE) < 0)
        BY <1>1, <2>4, <4>3 DEF Late
      <4>5. - devs[k].left < devs[k].id - devs[k - 1].id
        BY <4>1, <4>2, <4>3, <4>4
      <4>6. /\ devs[k].left \in Int /\ devs[k].id \in Int
            /\ devs[k - 1].id \in Int /\ devs[m].id \in Int
        BY <1>1, <2>1, <2>4, <2>6
      <4> QED
        BY <2>8, <4>5, <4>6
    <3> QED
      BY <3>1, <3>2
  <2>12. Late(t[j], FALSE) = 1 - devs[k].left
    BY <2>1 DEF Late
  <2>13. Late(t[j], FALSE) < MaxId
    <3>1. /\ devs[k].left \in Int /\ devs[k].id \in Nat /\ devs[k].id <= MaxId
          /\ devs[m].id \in Nat /\ MaxId \in Nat
      BY <1>1, <2>1, <2>6, ConstantsAssumption
    <3>2. devs[k].id - devs[m].id <= MaxId
      BY <3>1
    <3>3. \A a, b, c \in Int : a < b /\ b <= c => a < c
      OBVIOUS
    <3>4. 1 - devs[k].left < MaxId
      BY <2>11, <3>1, <3>2, <3>3
    <3> QED
      BY <2>12, <3>4
  <2> QED
    BY <2>1, <2>9, <2>10, <2>11, <2>12, <2>13
<1> QED
  BY <1>3 DEF PassedOver

------------------------------------------------------------------------------
(* The inductive invariant *)

\* The client starts with an empty list and no roles.
LEMMA InitInv ==
  ASSUME Init
  PROVE  IInv
<1> USE DEF Init
<1>1. TypeInv
  <2>1. 0 \in 0 .. STEADY /\ FirstTables \in [Ids -> AllTables]
    BY ConstantsAssumption
  <2>2. /\ life \in [Ids -> Nat] /\ reset_counter \in [Ids -> 0 .. STEADY]
        /\ gens \in [Ids -> 0 .. 1] /\ due \subseteq Ids /\ roles \subseteq RoleNames
    BY <2>1
  <2>3. table \in [Ids -> AllTables] /\ changed \in BOOLEAN
    BY <2>1
  <2> QED
    BY <2>2, <2>3 DEF TypeInv
<1>2. ListInv(jd_devices) /\ DOMAIN jd_devices = {}
  BY DEF ListInv, Sorted
<1>3. Bindings(jd_devices, service, roles, doubled)
  <2>1. service \in [RoleNames -> Target] /\ \A r \in RoleNames : service[r] = NULL
    BY DEF NULL, Target
  <2> QED
    BY <1>2, <2>1 DEF Bindings, Points, Flagged, Exact
<1>4. RestartInv /\ PassedOver(jd_devices, gcDue)
  BY <1>2 DEF RestartInv, PassedOver
<1>5. ListedRoleExists
  BY DEF ListedRoleExists
<1> QED
  BY <1>1, <1>2, <1>3, <1>4, <1>5 DEF IInv

\* An announcement is counted, whether it is heard or not.
LEMMA AnnouncedFacts ==
  ASSUME IInv, NEW d \in Ids, Announcing(d)
  PROVE  /\ life' = life /\ table' = table
         /\ reset_counter' \in [Ids -> 0 .. STEADY] /\ due' \subseteq Ids
         /\ \A x \in Ids : /\ Count(x, reset_counter, due) \in Int
                           /\ Count(x, reset_counter', due') \in Int
                           /\ Count(x, reset_counter', due') <= Count(x, reset_counter, due)
         /\ reset_counter'[d] \in 0 .. STEADY
         /\ reset_counter'[d] <= Count(d, reset_counter, due)
<1>1. /\ reset_counter \in [Ids -> 0 .. STEADY] /\ due \subseteq Ids /\ STEADY \in Nat
      /\ d \in due /\ due' = due \ {d}
      /\ reset_counter' = [reset_counter EXCEPT ![d] = IF @ < STEADY THEN @ + 1 ELSE @]
      /\ life' = life /\ table' = table
  BY ConstantsAssumption DEF IInv, TypeInv, Announcing
<1>2. reset_counter' \in [Ids -> 0 .. STEADY]
  BY <1>1
<1>3. reset_counter'[d] <= reset_counter[d] + 1
  BY <1>1
<1>4. \A x \in Ids : x # d => reset_counter'[x] = reset_counter[x] /\ (x \in due' <=> x \in due)
  BY <1>1
<1>5. \A x \in Ids : reset_counter[x] \in Int /\ reset_counter'[x] \in Int
  BY <1>1, <1>2
<1>6. ASSUME NEW x \in Ids
      PROVE  /\ Count(x, reset_counter, due) \in Int
             /\ Count(x, reset_counter', due') \in Int
             /\ Count(x, reset_counter', due') <= Count(x, reset_counter, due)
  BY <1>1, <1>3, <1>4, <1>5 DEF Count
<1>7. reset_counter'[d] <= Count(d, reset_counter, due)
  BY <1>1, <1>3, <1>5 DEF Count
<1> QED
  BY <1>1, <1>2, <1>6, <1>7

\* A record is as right about a device that has counted less.
LEMMA RemembersLess ==
  ASSUME NEW x \in Device, NEW lf, NEW c \in Int, NEW c2 \in Int, c2 <= c, Remembers(x, lf, c)
  PROVE  Remembers(x, lf, c2)
<1>1. x.left \in Int /\ EXPIRES \in Int
  BY ConstantsAssumption DEF Device
<1> QED
  BY <1>1 DEF Remembers

\* A device that announces itself unheard.
LEMMA LostStep ==
  ASSUME IInv, NEW d \in Ids, AnnounceLost(d)
  PROVE  IInv'
<1>1. Announcing(d) /\ UNCHANGED <<routing, rolemgr>>
  BY DEF AnnounceLost
<1>2. UNCHANGED <<jd_devices, gcDue, gens, roles, service, changed, list_ptr, list_pipe, doubled>>
  BY <1>1 DEF routing, rolemgr
<1>3. TypeInv'
  BY <1>1, <1>2, AnnouncedFacts DEF IInv, TypeInv
<1>4. RestartInv'
  <2>1. ASSUME NEW k \in DOMAIN jd_devices
        PROVE  LET id == jd_devices[k].id
               IN  Remembers(jd_devices[k], life'[id], Count(id, reset_counter', due'))
    <3> DEFINE id == jd_devices[k].id
    <3>1. jd_devices[k] \in Device /\ id \in Ids
      BY DeviceFields DEF IInv
    <3>2. Remembers(jd_devices[k], life[id], Count(id, reset_counter, due))
      BY DEF IInv, RestartInv
    <3> HIDE DEF id
    <3>3. Remembers(jd_devices[k], life[id], Count(id, reset_counter', due'))
      BY <1>1, <3>1, <3>2, AnnouncedFacts, RemembersLess
    <3> QED
      BY <1>1, <3>3, AnnouncedFacts DEF id
  <2> QED
    BY <1>2, <2>1 DEF RestartInv
<1> QED
  BY <1>2, <1>3, <1>4 DEF IInv, ListedRoleExists

\* A device restarts.
LEMMA RestartStep ==
  ASSUME IInv, NEW d \in Ids, Restart(d)
  PROVE  IInv'
<1>1. /\ d # 0 /\ life' = [life EXCEPT ![d] = @ + 1]
      /\ reset_counter' = [reset_counter EXCEPT ![d] = 0] /\ due' = due \cup {d}
      /\ UNCHANGED <<gcDue, gens, roles, service, changed, list_ptr, list_pipe, doubled>>
      /\ DOMAIN jd_devices' = DOMAIN jd_devices
      /\ \A k \in DOMAIN jd_devices :
           jd_devices'[k] = IF jd_devices[k].id = d THEN [jd_devices[k] EXCEPT !.later = FALSE]
                            ELSE jd_devices[k]
  BY DEF Restart, rolemgr
<1>2. PICK t \in Tables : table' = [table EXCEPT ![d] = t]
  BY DEF Restart
<1>3. TypeInv'
  BY <1>1, <1>2, ConstantsAssumption DEF IInv, TypeInv, AllTables
<1>4. ASSUME NEW k \in DOMAIN jd_devices
      PROVE  /\ jd_devices[k] \in Device /\ jd_devices'[k] \in Device
             /\ jd_devices'[k].id = jd_devices[k].id /\ jd_devices'[k].gen = jd_devices[k].gen
             /\ jd_devices'[k].services = jd_devices[k].services
             /\ jd_devices'[k].assigned = jd_devices[k].assigned
             /\ jd_devices'[k].left = jd_devices[k].left /\ jd_devices'[k].life = jd_devices[k].life
             /\ jd_devices'[k].flags = jd_devices[k].flags /\ jd_devices'[k].own = jd_devices[k].own
             /\ jd_devices'[k].later = IF jd_devices[k].id = d THEN FALSE ELSE jd_devices[k].later
  <2>1. jd_devices[k] \in Device
    BY DeviceFields DEF IInv
  <2> QED
    BY <1>1, <2>1 DEF Device
<1>5. ListInv(jd_devices')
  <2>1. jd_devices' = [k \in DOMAIN jd_devices |-> jd_devices'[k]]
    BY <1>1 DEF Restart
  <2>2. jd_devices' \in Seq(Device)
    BY <1>4, <2>1, MappedSequence DEF IInv, ListInv
  <2> QED
    BY <1>1, <1>4, <2>2 DEF IInv, ListInv, Sorted
<1>6. Bindings(jd_devices', service', roles', doubled')
  <2>1. Bindings(jd_devices, service, roles, doubled)
    BY DEF IInv
  <2>2. \A k \in DOMAIN jd_devices :
          /\ jd_devices'[k].id = jd_devices[k].id /\ jd_devices'[k].gen = jd_devices[k].gen
          /\ jd_devices'[k].services = jd_devices[k].services
          /\ jd_devices'[k].assigned = jd_devices[k].assigned
    BY <1>4
  <2>3. Bindings(jd_devices', service, roles, doubled)
    BY <1>1, <2>1, <2>2, BindingsSame
  <2> QED
    BY <1>1, <2>3
<1>7. PassedOver(jd_devices', gcDue')
  <2>1. \A k \in DOMAIN jd_devices : /\ jd_devices'[k].id = jd_devices[k].id
                                     /\ Late(jd_devices'[k], gcDue') = Late(jd_devices[k], gcDue)
    BY <1>1, <1>4 DEF Late
  <2> QED
    BY <1>1, <2>1, LateSame DEF IInv
<1>8. ASSUME NEW k \in DOMAIN jd_devices
      PROVE  LET id == jd_devices'[k].id
             IN  Remembers(jd_devices'[k], life'[id], Count(id, reset_counter', due'))
  <2> DEFINE x == jd_devices[k]
             y == jd_devices'[k]
  <2>1. Remembers(x, life[x.id], Count(x.id, reset_counter, due))
    BY DEF IInv, RestartInv
  <2>2. /\ x.id \in Ids /\ life \in [Ids -> Nat] /\ reset_counter \in [Ids -> 0 .. STEADY]
        /\ x.left \in Int /\ x.life \in Nat /\ EXPIRES \in Int /\ STEADY \in Nat
    <3>1. x.id \in Ids /\ x.left \in Int /\ x.life \in Nat
      BY <1>4 DEF Device
    <3> QED
      BY <3>1, ConstantsAssumption DEF IInv, TypeInv
  <2>3. CASE x.id = d
    <3>1. life'[d] = life[d] + 1 /\ Count(d, reset_counter', due') = 1
      BY <1>1, <2>2, <2>3 DEF Count
    <3>2. x.life <= life[d] /\ x.left <= EXPIRES /\ life[d] \in Nat
      BY <2>1, <2>2, <2>3 DEF Remembers
    <3>3. x.life <= life[d] + 1 /\ x.life # life[d] + 1 /\ 1 + x.left <= EXPIRES + 1
      BY <2>2, <3>2
    <3>4. y.id = d /\ y.life = x.life /\ y.left = x.left /\ y.flags = x.flags /\ y.own = x.own /\ y.later = FALSE
      BY <1>4, <2>3
    <3> QED
      BY <1>1, <2>1, <3>1, <3>2, <3>3, <3>4 DEF Remembers
  <2>4. CASE x.id # d
    <3>1. life'[x.id] = life[x.id] /\ Count(x.id, reset_counter', due') = Count(x.id, reset_counter, due)
      BY <1>1, <2>2, <2>4 DEF Count
    <3>2. y = x
      BY <1>1, <2>4
    <3> QED
      BY <2>1, <3>1, <3>2
  <2> QED
    BY <2>3, <2>4
<1>9. RestartInv'
  BY <1>1, <1>8 DEF RestartInv
<1> QED
  BY <1>1, <1>3, <1>5, <1>6, <1>7, <1>9 DEF IInv, ListedRoleExists

\* A period ends.
LEMMA TickStep ==
  ASSUME IInv, Tick
  PROVE  IInv'
<1>1. /\ due = {} /\ ~ gcDue /\ due' = Ids /\ gcDue' = TRUE
      /\ UNCHANGED <<life, table, reset_counter, gens, roles, service, changed, list_ptr, list_pipe, doubled>>
      /\ DOMAIN jd_devices' = DOMAIN jd_devices
      /\ \A k \in DOMAIN jd_devices :
           jd_devices'[k] = [jd_devices[k] EXCEPT !.left = @ - 1]
  BY DEF Tick, rolemgr
<1>2. TypeInv'
  BY <1>1 DEF IInv, TypeInv
<1>3. ASSUME NEW k \in DOMAIN jd_devices
      PROVE  /\ jd_devices[k] \in Device /\ jd_devices'[k] \in Device
             /\ jd_devices'[k].id = jd_devices[k].id /\ jd_devices'[k].gen = jd_devices[k].gen
             /\ jd_devices'[k].services = jd_devices[k].services
             /\ jd_devices'[k].assigned = jd_devices[k].assigned
             /\ jd_devices'[k].left = jd_devices[k].left - 1 /\ jd_devices'[k].life = jd_devices[k].life
             /\ jd_devices'[k].flags = jd_devices[k].flags /\ jd_devices'[k].own = jd_devices[k].own
             /\ jd_devices'[k].later = jd_devices[k].later
  <2>1. jd_devices[k] \in Device
    BY DeviceFields DEF IInv
  <2> QED
    BY <1>1, <2>1 DEF Device
<1>4. ListInv(jd_devices')
  <2>1. jd_devices' = [k \in DOMAIN jd_devices |-> jd_devices'[k]]
    BY <1>1 DEF Tick
  <2>2. jd_devices' \in Seq(Device)
    BY <1>3, <2>1, MappedSequence DEF IInv, ListInv
  <2> QED
    BY <1>1, <1>3, <2>2 DEF IInv, ListInv, Sorted
<1>5. Bindings(jd_devices', service', roles', doubled')
  <2>1. Bindings(jd_devices, service, roles, doubled)
    BY DEF IInv
  <2>2. Bindings(jd_devices', service, roles, doubled)
    BY <1>1, <1>3, <2>1, BindingsSame
  <2> QED
    BY <1>1, <2>2
<1>6. PassedOver(jd_devices', gcDue')
  <2>1. \A k \in DOMAIN jd_devices : /\ jd_devices'[k].id = jd_devices[k].id
                                     /\ Late(jd_devices'[k], gcDue') = Late(jd_devices[k], gcDue)
    BY <1>1, <1>3 DEF Late, Device
  <2> QED
    BY <1>1, <2>1, LateSame DEF IInv
<1>7. ASSUME NEW k \in DOMAIN jd_devices
      PROVE  LET id == jd_devices'[k].id
             IN  Remembers(jd_devices'[k], life'[id], Count(id, reset_counter', due'))
  <2> DEFINE x == jd_devices[k]
             y == jd_devices'[k]
  <2>1. Remembers(x, life[x.id], Count(x.id, reset_counter, due))
    BY DEF IInv, RestartInv
  <2>2. x.id \in Ids /\ reset_counter[x.id] \in Int /\ x.left \in Int /\ EXPIRES \in Int
    BY <1>3, ConstantsAssumption DEF IInv, TypeInv, Device
  <2>3. /\ Count(x.id, reset_counter, due) = reset_counter[x.id]
        /\ Count(x.id, reset_counter', due') = reset_counter[x.id] + 1
    BY <1>1, <2>2 DEF Count
  <2>4. /\ x.left <= EXPIRES => x.left - 1 <= EXPIRES
        /\ reset_counter[x.id] + x.left <= EXPIRES + 1
             => (reset_counter[x.id] + 1) + (x.left - 1) <= EXPIRES + 1
    BY <2>2
  <2> QED
    BY <1>1, <1>3, <2>1, <2>3, <2>4 DEF Remembers
<1>8. RestartInv'
  BY <1>1, <1>7 DEF RestartInv
<1> QED
  BY <1>1, <1>2, <1>4, <1>5, <1>6, <1>8 DEF IInv, ListedRoleExists

\* A device is heard and its record is brought up to date.
LEMMA HeardStep ==
  ASSUME IInv, NEW d \in Ids, HandleAnnounce(d), Known(jd_devices, d),
         ~ Restarted(Lookup(jd_devices, d).flags, reset_counter'[d])
  PROVE  IInv'
<1> DEFINE flags == reset_counter'[d]
           same(x) == [x EXCEPT !.flags = flags, !.left = EXPIRES,
                                !.own = IF x.life = life[d] THEN flags ELSE @,
                                !.later = x.life # life[d]]
<1>1. /\ Announcing(d)
      /\ UNCHANGED <<gens, gcDue, roles, service, changed, list_ptr, list_pipe, doubled>>
      /\ jd_devices' = [k \in DOMAIN jd_devices |->
                          IF jd_devices[k].id = d THEN same(jd_devices[k]) ELSE jd_devices[k]]
  BY DEF HandleAnnounce, Becomes, State
<1>2. TypeInv'
  BY <1>1, AnnouncedFacts DEF IInv, TypeInv
<1>3. flags \in 0 .. STEADY /\ EXPIRES \in 2 .. STEADY
  BY <1>1, AnnouncedFacts, ConstantsAssumption
<1>4. /\ DOMAIN jd_devices' = DOMAIN jd_devices
      /\ jd_devices' = [k \in DOMAIN jd_devices |-> jd_devices'[k]]
      /\ \A k \in DOMAIN jd_devices :
           jd_devices'[k] = IF jd_devices[k].id = d THEN same(jd_devices[k]) ELSE jd_devices[k]
  BY <1>1
<1>5. ASSUME NEW x \in Device
      PROVE  /\ same(x) \in Device
             /\ same(x).id = x.id /\ same(x).gen = x.gen /\ same(x).services = x.services
             /\ same(x).assigned = x.assigned /\ same(x).life = x.life
             /\ same(x).left = EXPIRES /\ same(x).flags = flags
             /\ same(x).own = (IF x.life = life[d] THEN flags ELSE x.own)
             /\ same(x).later = (x.life # life[d])
  <2>1. (IF x.life = life[d] THEN flags ELSE x.own) \in 0 .. STEADY
    BY <1>3 DEF Device
  <2>2. EXPIRES \in Int /\ (x.life # life[d]) \in BOOLEAN
    BY <1>3
  <2> HIDE DEF flags
  <2> QED
    BY <1>3, <2>1, <2>2 DEF Device
<1> HIDE DEF same, flags
<1>6. \A k \in DOMAIN jd_devices : jd_devices[k] \in Device /\ jd_devices[k].id \in Ids /\ jd_devices[k].left \in Int
  BY DeviceFields DEF IInv
<1>7. \A k \in DOMAIN jd_devices :
        /\ jd_devices'[k] \in Device
        /\ jd_devices'[k].id = jd_devices[k].id /\ jd_devices'[k].gen = jd_devices[k].gen
        /\ jd_devices'[k].services = jd_devices[k].services
        /\ jd_devices'[k].assigned = jd_devices[k].assigned
  BY <1>4, <1>5, <1>6
<1>8. ListInv(jd_devices')
  <2>1. jd_devices' \in Seq(Device)
    BY <1>4, <1>7, MappedSequence DEF IInv, ListInv
  <2> QED
    BY <1>4, <1>7, <2>1 DEF IInv, ListInv, Sorted
<1>9. Bindings(jd_devices', service', roles', doubled')
  <2>1. Bindings(jd_devices, service, roles, doubled)
    BY DEF IInv
  <2>2. Bindings(jd_devices', service, roles, doubled)
    BY <1>4, <1>7, <2>1, BindingsSame
  <2> QED
    BY <1>1, <2>2
<1>10. PassedOver(jd_devices', gcDue')
  <2>1. ASSUME NEW k \in DOMAIN jd_devices
        PROVE  \/ Late(jd_devices'[k], gcDue') = Late(jd_devices[k], gcDue)
               \/ Late(jd_devices'[k], gcDue') < 0 /\ ~ (Late(jd_devices'[k], gcDue') > 0)
    <3>1. CASE jd_devices[k].id = d
      <4>1. jd_devices'[k].left = EXPIRES
        BY <1>4, <1>5, <1>6, <3>1
      <4> QED
        BY <1>3, <4>1 DEF Late
    <3>2. CASE jd_devices[k].id # d
      BY <1>1, <1>4, <3>2 DEF Late
    <3> QED
      BY <3>1, <3>2
  <2> QED
    BY <1>4, <1>7, <2>1, LateSame DEF IInv
<1>11. ASSUME NEW k \in DOMAIN jd_devices
       PROVE  LET id == jd_devices'[k].id
              IN  Remembers(jd_devices'[k], life'[id], Count(id, reset_counter', due'))
  <2> DEFINE x == jd_devices[k]
             y == jd_devices'[k]
             c == Count(x.id, reset_counter, due)
             c2 == Count(x.id, reset_counter', due')
  <2>1. Remembers(x, life[x.id], c)
    BY DEF IInv, RestartInv
  <2>2. /\ life' = life /\ c \in Int /\ c2 \in Int /\ c2 <= c
        /\ x.id = d => flags <= c
    BY <1>1, <1>6, AnnouncedFacts DEF flags
  <2>3. y.id = x.id
    BY <1>7
  <2> HIDE DEF c, c2
  <2>4. CASE x.id = d
    <3>1. /\ y.life = x.life /\ y.left = EXPIRES /\ y.flags = flags
          /\ y.own = (IF x.life = life[d] THEN flags ELSE x.own) /\ y.later = (x.life # life[d])
      BY <1>4, <1>5, <1>6, <2>4
    <3>2. y.life <= life[d] /\ y.left <= EXPIRES
      BY <1>3, <2>1, <2>4, <3>1 DEF Remembers
    <3>3. CASE x.life = life[d]
      BY <2>2, <2>3, <2>4, <3>1, <3>2, <3>3 DEF Remembers
    <3>4. CASE x.life # life[d]
      <4>1. x.own <= EXPIRES + MaxId
        <5>1. SUFFICES ASSUME x.flags = x.own, x.id # 0, c + x.left <= EXPIRES + 1
                       PROVE  x.own <= EXPIRES + MaxId
          BY <2>1, <2>4, <3>4 DEF Remembers
        <5>2. Lookup(jd_devices, d) = x
          <6>1. \E i \in DOMAIN jd_devices : jd_devices[i].id = d
            BY <2>4
          <6>2. PICK i \in DOMAIN jd_devices : jd_devices[i].id = d /\ Lookup(jd_devices, d) = jd_devices[i]
            BY <6>1 DEF Lookup
          <6> QED
            BY <2>4, <6>2, OneOfAName DEF IInv
        <5>3. x.own \in Int /\ x.left \in Int /\ flags \in Int /\ EXPIRES \in Int /\ MaxId \in Nat
          BY <1>3, <1>6, ConstantsAssumption DEF Device
        <5>4. x.own <= flags
          BY <5>1, <5>2, <5>3 DEF Restarted, flags
        <5>5. x.own <= EXPIRES + 1 - x.left
          BY <2>2, <2>4, <5>1, <5>3, <5>4
        <5>6. MaxId >= 1
          BY <1>6, <5>1, <5>3 DEF Ids
        <5>7. 1 - x.left <= MaxId
          <6>1. Late(x, gcDue) > 0 => Late(x, gcDue) < MaxId
            BY DEF IInv, PassedOver
          <6> QED
            BY <5>3, <5>6, <6>1 DEF Late
        <5> QED
          BY <5>3, <5>5, <5>7
      <4> QED
        BY <2>2, <2>3, <2>4, <3>1, <3>2, <3>4, <4>1 DEF Remembers
    <3> QED
      BY <3>3, <3>4
  <2>5. CASE x.id # d
    <3>1. y = x
      BY <1>4, <2>5
    <3>2. Remembers(x, life[x.id], c2)
      BY <1>6, <2>1, <2>2, RemembersLess
    <3> QED
      BY <2>2, <3>1, <3>2 DEF c2
  <2> QED
    BY <2>4, <2>5
<1>12. RestartInv'
  BY <1>4, <1>11 DEF RestartInv
<1> QED
  BY <1>1, <1>2, <1>8, <1>9, <1>10, <1>12 DEF IInv, ListedRoleExists

\* Two records that say the same of when their device was heard.
SameClock(x, y) ==
  /\ x.id = y.id /\ x.left = y.left /\ x.flags = y.flags
  /\ x.life = y.life /\ x.own = y.own /\ x.later = y.later

\* A device is heard for the first time, or anew: its record is allocated.
LEMMA AllocStep ==
  ASSUME IInv, NEW d \in Ids, Announcing(d), gens' = [gens EXCEPT ![d] = 1 - @],
         UNCHANGED <<gcDue, roles, list_ptr, list_pipe, doubled>>,
         NEW st, ListInv(st.devs), Bindings(st.devs, st.srv, roles, doubled), st.chg \in BOOLEAN,
         jd_devices' = jd_device_alloc(st.devs, d, reset_counter'[d], gens'[d]),
         service' = st.srv, changed' = st.chg,
         \A j \in DOMAIN st.devs : \E k \in DOMAIN jd_devices :
           jd_devices[k].id # d /\ SameClock(st.devs[j], jd_devices[k]),
         \A k \in DOMAIN jd_devices : jd_devices[k].id # d =>
           \E j \in DOMAIN st.devs : SameClock(st.devs[j], jd_devices[k])
  PROVE  IInv'
<1> DEFINE flags == reset_counter'[d]
           n == [id |-> d, gen |-> gens'[d], flags |-> flags, left |-> EXPIRES,
                 services |-> table[d], assigned |-> {},
                 life |-> life[d], own |-> flags, later |-> FALSE]
           D == st.devs
<1>1. jd_devices' = Insert(D, n)
  BY DEF jd_device_alloc
<1>2. /\ gens' \in [Ids -> 0 .. 1] /\ life \in [Ids -> Nat] /\ table \in [Ids -> AllTables]
      /\ flags \in 0 .. STEADY /\ EXPIRES \in 2 .. STEADY /\ STEADY \in Nat
  BY AnnouncedFacts, ConstantsAssumption DEF IInv, TypeInv
<1> HIDE DEF flags
<1>3. n \in Device
  BY <1>2 DEF Device
<1>4. /\ n.id = d /\ n.assigned = {} /\ n.left = EXPIRES /\ n.flags = flags /\ n.own = flags
      /\ n.life = life[d] /\ n.later = FALSE
  OBVIOUS
<1> HIDE DEF n, D
<1>5. ~ Known(D, n.id)
  BY <1>4 DEF Known, SameClock, D
<1>6. ListInv(jd_devices') /\ Inserted(jd_devices', D, n)
  BY <1>1, <1>3, <1>5, InsertFacts DEF D
<1>7. Bindings(jd_devices', service', roles', doubled')
  BY <1>1, <1>3, <1>4, <1>5, AllocKeeps DEF D
<1>8. TypeInv'
  BY <1>2, AnnouncedFacts DEF IInv, TypeInv
<1>9. PassedOver(jd_devices', gcDue')
  <2>1. Late(n, gcDue) < 0
    BY <1>2, <1>4 DEF Late
  <2>2. \E q \in DOMAIN jd_devices' : jd_devices'[q] = n
    BY <1>6 DEF Inserted
  <2>3. ASSUME NEW j \in DOMAIN jd_devices'
        PROVE  \/ jd_devices'[j] = n
               \/ \E k \in DOMAIN jd_devices : /\ jd_devices'[j].id = jd_devices[k].id
                                               /\ jd_devices'[j].left = jd_devices[k].left
    BY <1>6 DEF Inserted, SameClock, D
  <2>4. ASSUME NEW k \in DOMAIN jd_devices
        PROVE  \/ jd_devices[k].id = n.id
               \/ \E j \in DOMAIN jd_devices' : /\ jd_devices'[j].id = jd_devices[k].id
                                                /\ jd_devices'[j].left = jd_devices[k].left
    BY <1>4, <1>6 DEF Inserted, SameClock, D
  <2>5. ListInv(jd_devices) /\ PassedOver(jd_devices, gcDue)
    BY DEF IInv
  <2> QED
    BY <1>3, <2>1, <2>2, <2>3, <2>4, <2>5, HeardThere
<1>10. ASSUME NEW j \in DOMAIN jd_devices'
       PROVE  LET id == jd_devices'[j].id
              IN  Remembers(jd_devices'[j], life'[id], Count(id, reset_counter', due'))
  <2>1. CASE jd_devices'[j] = n
    <3>1. life' = life /\ life[d] \in Nat /\ EXPIRES \in Int
      BY <1>2, AnnouncedFacts
    <3> QED
      BY <1>4, <2>1, <3>1 DEF Remembers
  <2>2. CASE jd_devices'[j] # n
    <3>1. PICK i \in DOMAIN D : jd_devices'[j] = D[i]
      BY <1>6, <2>2 DEF Inserted
    <3>2. PICK k \in DOMAIN jd_devices : SameClock(D[i], jd_devices[k])
      BY DEF D
    <3> DEFINE x == jd_devices[k]
    <3>3. Remembers(x, life[x.id], Count(x.id, reset_counter, due))
      BY DEF IInv, RestartInv
    <3>4. x \in Device /\ x.id \in Ids
      BY DeviceFields DEF IInv
    <3> HIDE DEF x
    <3>5. Remembers(x, life[x.id], Count(x.id, reset_counter', due')) /\ life' = life
      BY <3>3, <3>4, AnnouncedFacts, RemembersLess
    <3> QED
      BY <3>1, <3>2, <3>5 DEF x, SameClock, Remembers
  <2> QED
    BY <2>1, <2>2
<1>11. RestartInv'
  BY <1>10 DEF RestartInv
<1> QED
  BY <1>6, <1>7, <1>8, <1>9, <1>11 DEF IInv, ListedRoleExists

\* After a device was freed, what is left of the list tells the time it told before.
LEMMA ThinnedClock ==
  ASSUME NEW devs, NEW keep, NEW G, NEW t, Thinned(keep, devs, G), Same(t, keep)
  PROVE  /\ \A j \in DOMAIN t : \E k \in DOMAIN devs \ G : SameClock(t[j], devs[k])
         /\ \A k \in DOMAIN devs \ G : \E j \in DOMAIN t : SameClock(t[j], devs[k])
<1>1. /\ DOMAIN t = DOMAIN keep
      /\ \A j \in DOMAIN keep : SameClock(t[j], keep[j])
  BY DEF Same, SameClock
<1>2. ASSUME NEW j \in DOMAIN t
      PROVE  \E k \in DOMAIN devs \ G : SameClock(t[j], devs[k])
  <2>1. PICK k \in DOMAIN devs \ G : keep[j] = devs[k]
    BY <1>1 DEF Thinned
  <2> QED
    BY <1>1, <2>1
<1>3. ASSUME NEW k \in DOMAIN devs \ G
      PROVE  \E j \in DOMAIN t : SameClock(t[j], devs[k])
  <2>1. PICK j \in DOMAIN keep : keep[j] = devs[k]
    BY DEF Thinned
  <2> QED
    BY <1>1, <2>1
<1> QED
  BY <1>2, <1>3

\* Freeing devices and clearing their roles.
LEMMA FreeDevices ==
  ASSUME IInv, NEW G \in SUBSET DOMAIN jd_devices, NEW gone, gone = {jd_devices[k] : k \in G}
  PROVE  LET t == rolemgr_device_destroyed([State EXCEPT !.devs = Unlinked(jd_devices, G)], gone) IN
         /\ Same(t.devs, Unlinked(jd_devices, G)) /\ ListInv(t.devs)
         /\ Bindings(t.devs, t.srv, roles, doubled)
         /\ t.chg \in BOOLEAN
<1> DEFINE keep == Unlinked(jd_devices, G)
           st == [State EXCEPT !.devs = keep]
           t == rolemgr_device_destroyed(st, gone)
<1>1. /\ ListInv(jd_devices) /\ roles \subseteq RoleNames
      /\ Bindings(jd_devices, service, roles, doubled)
  BY DEF IInv, TypeInv
<1>2. ListInv(keep) /\ Thinned(keep, jd_devices, G)
  BY <1>1, UnlinkedFacts
<1> HIDE DEF keep
<1>3. st.devs = keep /\ st.srv = service /\ st.chg = changed
  BY DEF State
<1> HIDE DEF st
<1>4. Same(t.devs, keep) /\ Bindings(t.devs, t.srv, roles, doubled)
  BY <1>1, <1>2, <1>3, DestroyedKeeps
<1>5. ListInv(t.devs)
  BY <1>2, <1>4, SameSorted
<1>6. t.chg \in BOOLEAN
  <2>1. PICK X : t = SetAll(st, X)
    BY DEF rolemgr_device_destroyed
  <2>2. t.chg = (st.chg \/ \E r \in X : st.srv[r] # NULL)
    BY <2>1 DEF SetAll
  <2> HIDE DEF t
  <2> QED
    BY <2>2, Zenon
<1> QED
  BY <1>4, <1>5, <1>6 DEF t, st, keep

\* A device is heard.
LEMMA HandleStep ==
  ASSUME IInv, NEW d \in Ids, HandleAnnounce(d)
  PROVE  IInv'
<1> DEFINE old == Lookup(jd_devices, d)
           at == {i \in DOMAIN jd_devices : jd_devices[i].id = d}
           gone == rolemgr_device_destroyed([State EXCEPT !.devs = Unlinked(jd_devices, at)], {old})
           flags == reset_counter'[d]
<1>1. ListInv(jd_devices) /\ Bindings(jd_devices, service, roles, doubled) /\ changed \in BOOLEAN
  BY DEF IInv, TypeInv
<1>2. CASE Known(jd_devices, d) /\ ~ Restarted(old.flags, flags)
  BY <1>2, HeardStep
<1>3. CASE ~ Known(jd_devices, d)
  <2>1. /\ Announcing(d) /\ gens' = [gens EXCEPT ![d] = 1 - @]
        /\ UNCHANGED <<gcDue, roles, list_ptr, list_pipe, doubled>>
        /\ Becomes([State EXCEPT !.devs = jd_device_alloc(@, d, reset_counter'[d], gens'[d])])
    BY <1>3 DEF HandleAnnounce
  <2>2. State.devs = jd_devices /\ State.srv = service /\ State.chg = changed
    BY DEF State
  <2>3. /\ jd_devices' = jd_device_alloc(State.devs, d, reset_counter'[d], gens'[d])
        /\ service' = State.srv /\ changed' = State.chg
    BY <2>1 DEF Becomes, State
  <2>4. \A k \in DOMAIN jd_devices : jd_devices[k].id # d /\ SameClock(jd_devices[k], jd_devices[k])
    BY <1>3 DEF Known, SameClock
  <2> QED
    BY <1>1, <2>1, <2>2, <2>3, <2>4, AllocStep
<1>4. CASE Known(jd_devices, d) /\ Restarted(old.flags, flags)
  <2>1. /\ Announcing(d) /\ gens' = [gens EXCEPT ![d] = 1 - @]
        /\ UNCHANGED <<gcDue, roles, list_ptr, list_pipe, doubled>>
        /\ Becomes([gone EXCEPT !.devs = jd_device_alloc(@, d, reset_counter'[d], gens'[d])])
    BY <1>4 DEF HandleAnnounce
  <2>2. at \in SUBSET DOMAIN jd_devices /\ {old} = {jd_devices[k] : k \in at}
    <3>1. PICK i \in DOMAIN jd_devices : jd_devices[i].id = d /\ old = jd_devices[i]
      BY <1>4 DEF Known, Lookup
    <3>2. at = {i}
      BY <1>1, <3>1, OneOfAName
    <3> QED
      BY <3>1, <3>2
  <2>3. /\ Same(gone.devs, Unlinked(jd_devices, at)) /\ ListInv(gone.devs)
        /\ Bindings(gone.devs, gone.srv, roles, doubled) /\ gone.chg \in BOOLEAN
    <3> HIDE DEF at, old
    <3> QED
      BY <2>2, FreeDevices
  <2>4. Thinned(Unlinked(jd_devices, at), jd_devices, at)
    BY <1>1, UnlinkedFacts
  <2>5. /\ jd_devices' = jd_device_alloc(gone.devs, d, reset_counter'[d], gens'[d])
        /\ service' = gone.srv /\ changed' = gone.chg
    BY <2>1 DEF Becomes, rolemgr_device_destroyed, SetAll
  <2>6. /\ \A j \in DOMAIN gone.devs : \E k \in DOMAIN jd_devices \ at : SameClock(gone.devs[j], jd_devices[k])
        /\ \A k \in DOMAIN jd_devices \ at : \E j \in DOMAIN gone.devs : SameClock(gone.devs[j], jd_devices[k])
    <3> HIDE DEF at, gone
    <3> QED
      BY <2>3, <2>4, ThinnedClock
  <2>7. \A k \in DOMAIN jd_devices : k \in at <=> jd_devices[k].id = d
    OBVIOUS
  <2> HIDE DEF gone, at, old
  <2> QED
    BY <2>1, <2>3, <2>5, <2>6, <2>7, AllocStep
<1> QED
  BY <1>2, <1>3, <1>4

\* Devices that were not heard for long are freed.
LEMMA ProcessStep ==
  ASSUME IInv, jd_client_process
  PROVE  IInv'
<1> DEFINE G == jd_device_gc(jd_devices)
           keep == Unlinked(jd_devices, G)
           t == rolemgr_device_destroyed([State EXCEPT !.devs = Unlinked(jd_devices, G)],
                                         {jd_devices[k] : k \in G})
<1>1. /\ gcDue /\ gcDue' = FALSE /\ UNCHANGED <<bus, gens, roles, list_ptr, list_pipe, doubled>>
      /\ jd_devices' = t.devs /\ service' = t.srv /\ changed' = t.chg
  BY DEF jd_client_process, Becomes
<1>2. ListInv(jd_devices) /\ PassedOver(jd_devices, gcDue)
  BY DEF IInv
<1>3. Collected(G, jd_devices)
  BY <1>2, GcFacts
<1>4. G \in SUBSET DOMAIN jd_devices
  BY <1>3 DEF Collected
<1>5. ListInv(keep) /\ Thinned(keep, jd_devices, G)
  BY <1>2, UnlinkedFacts
<1> HIDE DEF G
<1>6. Same(t.devs, keep) /\ ListInv(t.devs) /\ Bindings(t.devs, t.srv, roles, doubled) /\ t.chg \in BOOLEAN
  BY <1>4, FreeDevices
<1> HIDE DEF t, keep
<1>7. PassedOver(jd_devices', gcDue')
  <2>1. PassedOver(jd_devices, TRUE)
    <3>1. \A k \in DOMAIN jd_devices : Late(jd_devices[k], TRUE) = Late(jd_devices[k], gcDue)
      BY <1>1 DEF Late
    <3> QED
      BY <1>2, <3>1, LateSame
  <2>2. PassedOver(keep, FALSE)
    BY <1>2, <1>3, <1>5, <2>1, CollectionPasses
  <2>3. DOMAIN t.devs = DOMAIN keep /\ \A k \in DOMAIN keep : /\ t.devs[k].id = keep[k].id
                                                              /\ Late(t.devs[k], FALSE) = Late(keep[k], FALSE)
    BY <1>6 DEF Same, Late
  <2>4. PassedOver(t.devs, FALSE)
    BY <2>2, <2>3, LateSame
  <2> QED
    BY <1>1, <2>4
<1>8. TypeInv'
  BY <1>1, <1>6 DEF IInv, TypeInv, bus
<1>9. ASSUME NEW j \in DOMAIN t.devs
      PROVE  LET id == t.devs[j].id
             IN  Remembers(t.devs[j], life[id], Count(id, reset_counter, due))
  <2>1. PICK k \in DOMAIN jd_devices : SameClock(t.devs[j], jd_devices[k])
    BY <1>5, <1>6, ThinnedClock
  <2> DEFINE x == jd_devices[k]
  <2>2. Remembers(x, life[x.id], Count(x.id, reset_counter, due))
    BY DEF IInv, RestartInv
  <2> HIDE DEF x
  <2> QED
    BY <2>1, <2>2 DEF x, SameClock, Remembers
<1>10. RestartInv'
  <2>1. life' = life /\ reset_counter' = reset_counter /\ due' = due
    BY <1>1 DEF bus
  <2> QED
    BY <1>1, <1>9, <2>1 DEF RestartInv
<1>11. ListedRoleExists'
  BY <1>1 DEF IInv, ListedRoleExists
<1> QED
  BY <1>1, <1>6, <1>7, <1>8, <1>10, <1>11 DEF IInv

------------------------------------------------------------------------------
(* The steps of the role manager *)

\* A step that changes only roles, their bindings and the flags of services.
LEMMA RolesStep ==
  ASSUME IInv, UNCHANGED <<bus, gcDue, gens>>, Same(jd_devices', jd_devices),
         Bindings(jd_devices', service', roles', doubled'), changed' \in BOOLEAN,
         roles' \subseteq RoleNames, ListedRoleExists'
  PROVE  IInv'
<1>1. ListInv(jd_devices') /\ RestartInv' /\ PassedOver(jd_devices', gcDue')
  BY RoleStep
<1>2. TypeInv'
  BY DEF IInv, TypeInv, bus
<1> QED
  BY <1>1, <1>2 DEF IInv

\* What a step of the role manager starts from.
LEMMA RolesBefore ==
  ASSUME IInv
  PROVE  /\ roles \subseteq RoleNames /\ changed \in BOOLEAN /\ ListedRoleExists
         /\ ListInv(jd_devices) /\ Same(jd_devices, jd_devices)
         /\ Bindings(jd_devices, service, roles, doubled)
         /\ State.devs = jd_devices /\ State.srv = service /\ State.chg = changed
         /\ State = [devs |-> State.devs, srv |-> State.srv, chg |-> State.chg]
<1>1. ListInv(jd_devices)
  BY DEF IInv
<1>2. Same(jd_devices, jd_devices)
  BY <1>1, SameRefl
<1> QED
  BY <1>1, <1>2 DEF IInv, TypeInv, State

\* The role listed next exists.
LEMMA NextVisible ==
  ASSUME roles \subseteq RoleNames, NEW r
  PROVE  next_visible(r) # 0 => next_visible(r) \in roles
<1> DEFINE rest == {q \in roles \ Hidden : q > r}
<1>1. CASE rest = {}
  BY <1>1 DEF next_visible
<1>2. CASE rest # {}
  <2>1. rest \in SUBSET Nat
    <3>1. \A q \in RoleNames : q \in Nat
      BY ConstantsAssumption DEF RoleNames
    <3> QED
      BY <3>1
  <2>2. \E q \in rest : \A p \in rest : q <= p
    <3> HIDE DEF rest
    <3> QED
      BY <1>2, <2>1, LeastNatural
  <2> QED
    BY <1>2, <2>2 DEF next_visible
<1> QED
  BY <1>1, <1>2

\* Listing roles, and the steps that change a flag of the role manager.
LEMMA ListStep ==
  ASSUME IInv, ListOne \/ ListRoles \/ SendChange \/ WriteAutoBind
  PROVE  IInv'
<1>1. UNCHANGED <<bus, gcDue, gens, jd_devices, roles, service, doubled>>
  BY DEF ListOne, ListRoles, SendChange, WriteAutoBind, routing
<1>2. changed' \in BOOLEAN
  BY RolesBefore DEF ListOne, ListRoles, SendChange, WriteAutoBind
<1>3. ListedRoleExists'
  <2>1. CASE ListOne
    BY <1>1, <2>1, RolesBefore, NextVisible DEF ListOne, ListedRoleExists
  <2>2. CASE ListRoles
    BY <1>1, <2>2, RolesBefore, NextVisible DEF ListRoles, ListedRoleExists
  <2>3. CASE SendChange \/ WriteAutoBind
    BY <1>1, <2>3, RolesBefore DEF SendChange, WriteAutoBind, ListedRoleExists
  <2> QED
    BY <2>1, <2>2, <2>3
<1> QED
  BY <1>1, <1>2, <1>3, RolesBefore, RolesStep

\* rolemgr_autobind.
LEMMA AutobindStep ==
  ASSUME IInv, Autobind
  PROVE  IInv'
<1>1. UNCHANGED <<bus, gcDue, gens, roles, list_ptr, list_pipe, doubled>>
  BY DEF Autobind
<1>2. ListedRoleExists'
  BY <1>1, RolesBefore DEF ListedRoleExists
<1> QED
  BY <1>1, <1>2, AutobindKeeps, RolesBefore, RolesStep

\* A role is bound by a command, to a service that may have another role.
LEMMA SetRoleStep ==
  ASSUME IInv, NEW r \in RoleNames, NEW d \in Ids, rolemgr_set_role(r, d)
  PROVE  IInv'
<1> DEFINE x == Lookup(jd_devices, d)
<1>1. /\ r \in roles /\ Known(jd_devices, d)
      /\ UNCHANGED <<bus, gcDue, gens, roles, list_ptr, list_pipe>>
  BY DEF rolemgr_set_role
<1>2. PICK idx \in DOMAIN x.services :
        /\ Becomes(rolemgr_set(State, r, Service(x, idx)))
        /\ doubled' = (doubled \/ \E q \in roles \ {r} : service[q] = Service(x, idx))
  BY DEF rolemgr_set_role
<1>3. PICK k \in DOMAIN jd_devices : x = jd_devices[k]
  BY <1>1 DEF Known, Lookup
<1> DEFINE s == Service(x, idx)
           t == rolemgr_set(State, r, s)
<1>4. Serves(jd_devices[k], s) /\ s # NULL
  BY <1>3, RolesBefore, ServiceFacts, DeviceFields DEF Serves
<1> HIDE DEF s, x
<1>5. MayBind(jd_devices, service, doubled', r, s)
  <2>1. ASSUME NEW q \in RoleNames, q # r, service[q] = s
        PROVE  doubled'
    <3>1. q \in roles
      BY <1>4, <2>1, RolesBefore DEF Bindings, Points
    <3> QED
      BY <1>2, <2>1, <3>1 DEF s
  <2> QED
    BY <1>4, <2>1 DEF MayBind
<1>6. Bindings(jd_devices, service, roles, doubled')
  <2>1. doubled => doubled'
    BY <1>2
  <2> QED
    BY <2>1, RolesBefore DEF Bindings
<1>7. jd_devices' = t.devs /\ service' = t.srv /\ changed' = t.chg
  BY <1>2 DEF Becomes, s
<1>8. Same(t.devs, jd_devices) /\ Bindings(t.devs, t.srv, roles, doubled')
  BY <1>1, <1>5, <1>6, RolesBefore, SetKeeps
<1>9. t.chg \in BOOLEAN
  BY RolesBefore, SetState
<1> HIDE DEF t
<1>10. ListedRoleExists'
  BY <1>1, RolesBefore DEF ListedRoleExists
<1> QED
  BY <1>1, <1>7, <1>8, <1>9, <1>10, RolesBefore, RolesStep

\* A role is cleared by a command, or freed.
LEMMA ClearStep ==
  ASSUME IInv, NEW r \in RoleNames, ClearRole(r) \/ jd_role_free(r)
  PROVE  IInv'
<1> DEFINE t == rolemgr_set(State, r, NULL)
<1>1. /\ r \in roles /\ UNCHANGED <<bus, gcDue, gens, doubled>>
      /\ jd_devices' = t.devs /\ service' = t.srv /\ changed' = t.chg
  BY DEF ClearRole, jd_role_free, Becomes
<1>2. Same(t.devs, jd_devices) /\ Bindings(t.devs, t.srv, roles, doubled)
  <2>1. MayBind(jd_devices, service, doubled, r, NULL)
    BY DEF MayBind
  <2> QED
    BY <1>1, <2>1, RolesBefore, SetKeeps
<1>3. t.chg \in BOOLEAN
  BY RolesBefore, SetState
<1>4. t.srv[r] = NULL
  <2>1. service \in [RoleNames -> Target] /\ State.srv = service
    BY RolesBefore DEF Bindings
  <2> QED
    BY <2>1 DEF rolemgr_set
<1> HIDE DEF t
<1>5. CASE ClearRole(r)
  <2>1. UNCHANGED <<roles, list_ptr, list_pipe>>
    BY <1>5 DEF ClearRole
  <2>2. ListedRoleExists'
    BY <2>1, RolesBefore DEF ListedRoleExists
  <2> QED
    BY <1>1, <1>2, <1>3, <2>1, <2>2, RolesBefore, RolesStep
<1>6. CASE jd_role_free(r)
  <2>1. roles' = roles \ {r} /\ list_ptr' = 0
    BY <1>6 DEF jd_role_free, stop_list
  <2>2. ListedRoleExists'
    BY <2>1 DEF ListedRoleExists
  <2>3. Bindings(t.devs, t.srv, roles \ {r}, doubled)
    <3>1. Points(t.devs, t.srv, roles \ {r})
      BY <1>2, <1>4 DEF Bindings, Points
    <3>2. Flagged(t.devs, t.srv, roles \ {r})
      <4>1. ListInv(t.devs)
        BY <1>2, RolesBefore, SameSorted
      <4>2. ASSUME NEW k \in DOMAIN t.devs, NEW i \in t.devs[k].assigned
            PROVE  /\ i \in DOMAIN t.devs[k].services
                   /\ \E q \in roles \ {r} : t.srv[q] = Service(t.devs[k], i)
        <5>1. i \in DOMAIN t.devs[k].services /\ \E q \in roles : t.srv[q] = Service(t.devs[k], i)
          BY <1>2 DEF Bindings, Flagged
        <5>2. Service(t.devs[k], i) # NULL
          BY <4>1, <5>1, ServiceFacts, DeviceFields
        <5> QED
          BY <1>4, <5>1, <5>2
      <4> QED
        BY <4>2 DEF Flagged
    <3> QED
      BY <1>2, <3>1, <3>2 DEF Bindings
  <2> QED
    BY <1>1, <1>2, <1>3, <2>1, <2>2, <2>3, RolesBefore, RolesStep
<1> QED
  BY <1>5, <1>6

\* All roles are cleared, or freed.
LEMMA ClearAllStep ==
  ASSUME IInv, ClearAllRoles \/ jd_role_free_all
  PROVE  IInv'
<1> DEFINE t == SetAll(State, roles)
<1>1. /\ UNCHANGED <<bus, gcDue, gens, doubled>>
      /\ jd_devices' = t.devs /\ service' = t.srv
      /\ roles' \subseteq roles
  BY DEF ClearAllRoles, jd_role_free_all, Becomes, SetAll
<1>2. changed' \in BOOLEAN
  <2>1. CASE ClearAllRoles
    <3>1. changed' = (State.chg \/ \E r \in roles : State.srv[r] # NULL)
      BY <2>1 DEF ClearAllRoles, Becomes, SetAll
    <3> QED
      BY <3>1, Zenon
  <2>2. CASE jd_role_free_all
    BY <2>2 DEF jd_role_free_all, Becomes, SetAll
  <2> QED
    BY <2>1, <2>2
<1>3. ListedRoleExists'
  BY RolesBefore DEF ClearAllRoles, jd_role_free_all, stop_list, ListedRoleExists
<1>4. Same(t.devs, jd_devices) /\ Bindings(t.devs, t.srv, roles', doubled)
  BY <1>1, RolesBefore, ClearKeeps
<1> HIDE DEF t
<1> QED
  BY <1>1, <1>2, <1>3, <1>4, RolesBefore, RolesStep

\* A role is created, bound to nothing.
LEMMA RoleAllocStep ==
  ASSUME IInv, NEW r \in RoleNames, jd_role_alloc(r)
  PROVE  IInv'
<1>1. /\ UNCHANGED <<bus, gcDue, gens, jd_devices, service, doubled>>
      /\ roles' = roles \cup {r} /\ changed' = TRUE /\ list_ptr' = 0
  BY DEF jd_role_alloc, stop_list, routing
<1>2. Bindings(jd_devices, service, roles \cup {r}, doubled)
  BY RolesBefore DEF Bindings, Points, Flagged
<1>3. ListedRoleExists'
  BY <1>1 DEF ListedRoleExists
<1> QED
  BY <1>1, <1>2, <1>3, RolesBefore, RolesStep

------------------------------------------------------------------------------
(* The theorems *)

\* Every step of the client and of the devices preserves the inductive invariant.
LEMMA StepInv ==
  IInv /\ [Next]_vars => IInv'
<1> SUFFICES ASSUME IInv, [Next]_vars
             PROVE  IInv'
  OBVIOUS
<1>1. CASE \E d \in Ids : Restart(d) \/ AnnounceLost(d) \/ HandleAnnounce(d)
  BY <1>1, RestartStep, LostStep, HandleStep
<1>2. CASE jd_client_process
  BY <1>2, ProcessStep
<1>3. CASE Tick
  BY <1>3, TickStep
<1>4. CASE ListOne \/ ListRoles \/ SendChange \/ WriteAutoBind
  BY <1>4, ListStep
<1>5. CASE Autobind
  BY <1>5, AutobindStep
<1>6. CASE ClearAllRoles \/ jd_role_free_all
  BY <1>6, ClearAllStep
<1>7. CASE \E r \in RoleNames, d \in Ids : rolemgr_set_role(r, d)
  BY <1>7, SetRoleStep
<1>8. CASE \E r \in RoleNames : ClearRole(r) \/ jd_role_free(r)
  BY <1>8, ClearStep
<1>9. CASE \E r \in RoleNames : jd_role_alloc(r)
  BY <1>9, RoleAllocStep
<1>10. CASE UNCHANGED vars
  <2>1. /\ UNCHANGED <<bus, gcDue, gens, jd_devices, service, roles, changed, doubled>>
        /\ UNCHANGED <<list_ptr, list_pipe>>
    BY <1>10 DEF vars, bus, routing, rolemgr
  <2>2. ListedRoleExists'
    BY <2>1, RolesBefore DEF ListedRoleExists
  <2> QED
    BY <2>1, <2>2, RolesBefore, RolesStep
<1> QED
  BY <1>1, <1>2, <1>3, <1>4, <1>5, <1>6, <1>7, <1>8, <1>9, <1>10 DEF Next

\* The inductive invariant always holds.
THEOREM Inductive ==
  Spec => []IInv
<1>1. Init => IInv
  BY InitInv
<1> QED
  BY <1>1, StepInv, PTL DEF Spec

(***************************************************************************)
(* No pointer of the client dangles, for any devices and roles: a role's   *)
(* service is one of a device in the list, also while devices expire,      *)
(* restart and are replaced, and the role to be listed next exists         *)
(* (jd_device_free, rolemgr_device_destroyed, stop_list).                  *)
(***************************************************************************)
THEOREM NothingDangles ==
  Spec => []NoDangling
<1>1. IInv => NoDangling
  <2> SUFFICES ASSUME IInv
               PROVE  NoDangling
    OBVIOUS
  <2>1. ASSUME NEW r \in RoleNames, service[r] # NULL
        PROVE  /\ r \in roles
               /\ \E i \in DOMAIN jd_devices : /\ jd_devices[i].id = service[r].dev
                                               /\ jd_devices[i].gen = service[r].gen
                                               /\ service[r].idx \in DOMAIN jd_devices[i].services
    <3>1. r \in roles /\ \E k \in DOMAIN jd_devices : Serves(jd_devices[k], service[r])
      BY <2>1 DEF IInv, Bindings, Points
    <3> QED
      BY <3>1 DEF Serves, Service
  <2> QED
    BY <2>1 DEF NoDangling, RolesPointToDevices, IInv
<1> QED
  BY <1>1, Inductive, PTL

(***************************************************************************)
(* The flags of the services agree with the roles: a service flagged as    *)
(* assigned has a role and, unless a command has given it a second one, a  *)
(* service that has a role is flagged and has no other (rolemgr_set).      *)
(***************************************************************************)
THEOREM FlagsAgree ==
  Spec => []FlagsMatchRoles
<1>1. IInv => FlagsMatchRoles
  <2> SUFFICES ASSUME IInv, NEW k \in DOMAIN jd_devices, NEW i \in DOMAIN jd_devices[k].services
               PROVE  LET holders == {r \in roles : service[r] = Service(jd_devices[k], i)} IN
                      /\ i \in jd_devices[k].assigned => holders # {}
                      /\ ~ doubled => /\ holders # {} => i \in jd_devices[k].assigned
                                      /\ Cardinality(holders) <= 1
    BY DEF FlagsMatchRoles
  <2> DEFINE holders == {r \in roles : service[r] = Service(jd_devices[k], i)}
  <2>1. /\ roles \subseteq RoleNames /\ Flagged(jd_devices, service, roles)
        /\ doubled \/ Exact(jd_devices, service)
    BY RolesBefore DEF Bindings
  <2>2. i \in jd_devices[k].assigned => holders # {}
    BY <2>1 DEF Flagged
  <2>3. ASSUME ~ doubled, holders # {}
        PROVE  i \in jd_devices[k].assigned
    BY <2>1, <2>3 DEF Exact
  <2>4. ASSUME ~ doubled
        PROVE  Cardinality(holders) <= 1
    <3>1. CASE holders = {}
      BY <3>1, FS_EmptySet
    <3>2. CASE holders # {}
      <4>1. PICK r : r \in holders
        BY <3>2
      <4>2. Service(jd_devices[k], i) # NULL
        BY RolesBefore, ServiceFacts, DeviceFields
      <4>3. holders = {r}
        BY <2>1, <2>4, <4>1, <4>2 DEF Exact
      <4> HIDE DEF holders
      <4>4. Cardinality(holders) = 1
        BY <4>3, FS_Singleton
      <4> QED
        BY <4>4
    <3> QED
      BY <3>1, <3>2
  <2> QED
    BY <2>2, <2>3, <2>4
<1> QED
  BY <1>1, Inductive, PTL

(***************************************************************************)
(* A restart goes unnoticed only if few announcements of the device's      *)
(* former life had been heard: no more than fit into the expiry period and *)
(* the collections that may pass over the device afterwards, as many as    *)
(* there are other devices (jd_client_handle_packet, jd_device_gc).        *)
(***************************************************************************)
THEOREM RestartsAreNoticed ==
  Spec => []RestartNoticed
<1>1. IInv => RestartNoticed
  BY DEF IInv, RestartInv, Remembers, RestartNoticed
<1> QED
  BY <1>1, Inductive, PTL

------------------------------------------------------------------------------
(* Clients on threads (JdThreads) *)

CONSTANTS Apps, Roles, Devs, NoDev, Nobody, MaxWakes
VARIABLES pc, arg, list, bound, held, alive, owner, going, pending, wakes, locked, thr_ptr,
          thr_pipe, panic, raced

Thr == INSTANCE JdThreads WITH
  roles <- bound, service <- held, list_ptr <- thr_ptr, list_pipe <- thr_pipe

\* The names are different.
ThrNames ==
  /\ Roles # {} /\ NoDev \notin Devs /\ Thr!Worker \notin Apps /\ Thr!List \notin Roles
  /\ Nobody \notin Thr!Threads

MaybeDev == Devs \cup {NoDev}

\* Where an application thread and where the worker may be.
AppPlaces == {"idle", "create", "link", "insert", "use", "leave"}
WorkerPlaces == {"loop", "wait", "woken", "run", "find", "found", "change", "space", "sent"}
Places == AppPlaces \cup WorkerPlaces

ThrType ==
  /\ pc \in [Thr!Threads -> Places] /\ arg \in [Thr!Threads -> Roles]
  /\ list \subseteq Roles /\ DOMAIN bound \subseteq Roles /\ bound \in [DOMAIN bound -> MaybeDev]
  /\ held \in [Roles -> MaybeDev] /\ alive \subseteq Devs
  /\ owner \in [Roles \cup {Thr!List} -> Thr!Threads \cup {Nobody}]
  /\ going \in MaybeDev /\ (going # NoDev => going \in alive)
  /\ \A t \in Apps : pc[t] \in AppPlaces
  /\ pc[Thr!Worker] \in WorkerPlaces

\* Who holds a mutex is where its use is, and the other way round.
ThrLocks ==
  /\ \A t \in Apps : pc[t] \in Thr!Creating <=> owner[Thr!List] = t
  /\ \A t \in Apps : pc[t] \in {"use", "leave"} => owner[arg[t]] = t
  /\ \A t \in Apps : \A r \in Roles : owner[r] = t => pc[t] \in {"use", "leave"} /\ arg[t] = r
  /\ pc[Thr!Worker] = "found" <=> owner[Thr!List] = Thr!Worker
  /\ pc[Thr!Worker] = "change" => owner[arg[Thr!Worker]] = Thr!Worker

\* Every role is a client's, on the list or about to be.
ThrList ==
  /\ list \subseteq DOMAIN bound
  /\ \A r \in DOMAIN bound : r \in list \/ \E t \in Apps : pc[t] = "insert" /\ arg[t] = r
  /\ \A t \in Apps : pc[t] \in {"create", "link"} => arg[t] \notin DOMAIN bound
  /\ \A t \in Apps : pc[t] = "insert" => arg[t] \in DOMAIN bound \ list
  /\ \A t \in Apps : pc[t] \in {"use", "leave"} => arg[t] \in list
  /\ pc[Thr!Worker] = "find" => arg[Thr!Worker] \in DOMAIN bound
  /\ pc[Thr!Worker] \in {"found", "change"} => arg[Thr!Worker] \in list
  /\ \A r \in Roles : r \notin DOMAIN bound => held[r] = NoDev

\* The worker is on its way to tell the client of this role.
Telling(r) == pc[Thr!Worker] \in {"find", "found", "change"} /\ arg[Thr!Worker] = r

\* A client has the service its role is bound to, or is about to be told.
ThrBound ==
  /\ \A r \in DOMAIN bound : held[r] = bound[r] \/ Telling(r)
  /\ \A r \in DOMAIN bound : bound[r] # NoDev => bound[r] \in alive
  /\ \A r \in Roles : held[r] # NoDev => held[r] \in alive
  /\ \A t \in Apps : pc[t] = "use" => held[arg[t]] # NoDev
  /\ pc[Thr!Worker] = "wait" => ~ pending

\* Between two turns of its main loop the worker is not in the role manager; what it
\* found before it sends a role only another thread can have changed.
ThrRaced ==
  /\ locked \in BOOLEAN /\ thr_ptr \in BOOLEAN /\ thr_pipe \in BOOLEAN
  /\ panic \in BOOLEAN /\ raced \in BOOLEAN
  /\ locked => pc[Thr!Worker] \in {"run", "find", "found", "change"}
  /\ going # NoDev => locked
  /\ pc[Thr!Worker] = "space" => thr_pipe \/ raced
  /\ panic => raced

ThrInv == ThrType /\ ThrLocks /\ ThrList /\ ThrBound /\ ThrRaced

\* Every step keeps the invariant: an application thread moves its own pc and only
\* a mutex it takes or holds; the worker changes a client's service under its mutex,
\* and frees a device only when no role is bound to it and nobody is to be told.
LEMMA ThrStep == ThrNames /\ ThrInv /\ [Thr!Next]_(Thr!vars) => ThrInv'
<1> SUFFICES ASSUME ThrNames, ThrInv, [Thr!Next]_(Thr!vars)
             PROVE  ThrInv'
  OBVIOUS
<1> USE DEF ThrNames, ThrInv, ThrType, ThrLocks, ThrList, ThrBound, ThrRaced, Telling, MaybeDev,
            Places, AppPlaces, WorkerPlaces, Thr!Threads, Thr!Worker, Thr!List, Thr!Creating,
            Thr!rolemgr, Thr!ends
<1>1. ASSUME NEW t \in Apps, NEW r \in Roles, Thr!jdc_create(t, r)
       PROVE  ThrInv'
  BY <1>1 DEF Thr!jdc_create, Thr!Lock, Thr!Goto
<1>2. ASSUME NEW t \in Apps, Thr!stop_list(t)
       PROVE  ThrInv'
  <2>1. ThrType' /\ ThrLocks'
    BY <1>2 DEF Thr!stop_list, Thr!Goto
  <2>2. ThrList' /\ ThrBound'
    BY <1>2 DEF Thr!stop_list, Thr!Goto
  <2>3. ThrRaced'
    <3>1. raced' \in BOOLEAN /\ (pc[Thr!Worker] \notin {"loop", "wait", "woken"} => raced') /\ (raced => raced')
      BY <1>2 DEF Thr!stop_list
    <3>2. CASE locked
      BY <1>2, <3>1, <3>2 DEF Thr!stop_list
    <3>3. CASE ~ locked
      <4>1. pc'[Thr!Worker] = pc[Thr!Worker] /\ thr_ptr' = FALSE /\ thr_pipe' \in BOOLEAN
            /\ panic' = panic /\ locked' = locked /\ going' = going
        BY <1>2, <3>3 DEF Thr!stop_list, Thr!Goto
      <4> QED
        BY <3>1, <4>1
    <3> QED
      BY ONLY <3>2, <3>3
  <2> QED
    BY ONLY <2>1, <2>2, <2>3 DEF ThrInv
<1>3. ASSUME NEW t \in Apps, Thr!AllocRole(t)
       PROVE  ThrInv'
  BY <1>3 DEF Thr!AllocRole, Thr!Goto
<1>4. ASSUME NEW t \in Apps, Thr!Insert(t)
       PROVE  ThrInv'
  BY <1>4 DEF Thr!Insert, Thr!Unlock, Thr!Goto
<1>5. ASSUME NEW t \in Apps, NEW r \in Roles, Thr!UseStart(t, r)
       PROVE  ThrInv'
  BY <1>5 DEF Thr!UseStart, Thr!Lock, Thr!Goto
<1>6. ASSUME NEW t \in Apps, Thr!Use(t)
       PROVE  ThrInv'
  BY <1>6 DEF Thr!Use, Thr!Goto
<1>7. ASSUME NEW t \in Apps, Thr!Leave(t)
       PROVE  ThrInv'
  BY <1>7 DEF Thr!Leave, Thr!Unlock, Thr!Goto
<1>8. ASSUME NEW t \in Apps, Thr!jd_thr_wake_main(t)
       PROVE  ThrInv'
  BY <1>8 DEF Thr!jd_thr_wake_main
<1>9. CASE Thr!process_worker
  BY <1>9 DEF Thr!process_worker, Thr!Goto
<1>10. CASE Thr!WaitEnds
  BY <1>10 DEF Thr!WaitEnds, Thr!Goto
<1>11. CASE Thr!LoopEnds
  BY <1>11 DEF Thr!LoopEnds, Thr!Main, Thr!Goto
<1>12. ASSUME NEW d \in Devs, Thr!Appear(d)
       PROVE  ThrInv'
  BY <1>12 DEF Thr!Appear, Thr!Main
<1>13. ASSUME NEW d \in Devs, Thr!Destroy(d)
       PROVE  ThrInv'
  BY <1>13 DEF Thr!Destroy, Thr!Main
<1>14. ASSUME NEW d \in Devs, NEW r \in Roles, Thr!Bind(r, d)
       PROVE  ThrInv'
  BY <1>14 DEF Thr!Bind, Thr!rolemgr_set, Thr!Goto
<1>15. ASSUME NEW r \in Roles, Thr!rolemgr_device_destroyed(r)
       PROVE  ThrInv'
  BY <1>15 DEF Thr!rolemgr_device_destroyed, Thr!rolemgr_set, Thr!Goto
<1>16. ASSUME NEW r \in Roles, NEW d \in Devs \cup {NoDev}, Thr!rolemgr_set_role(r, d)
       PROVE  ThrInv'
  BY <1>16 DEF Thr!rolemgr_set_role, Thr!Main, Thr!rolemgr_set, Thr!Goto
<1>17. CASE Thr!rolemgr_autobind
  BY <1>17 DEF Thr!rolemgr_autobind, Thr!Main
<1>18. CASE Thr!AutobindEnds
  <2>1. ThrType' /\ ThrLocks'
    BY <1>18 DEF Thr!AutobindEnds
  <2>2. ThrList' /\ ThrBound'
    BY <1>18 DEF Thr!AutobindEnds
  <2>3. ThrRaced'
    BY <1>18 DEF Thr!AutobindEnds
  <2> QED
    BY ONLY <2>1, <2>2, <2>3 DEF ThrInv
<1>19. CASE Thr!Free
  <2>1. ThrType' /\ ThrLocks'
    BY <1>19 DEF Thr!Free
  <2>2. ThrList' /\ ThrBound'
    BY <1>19 DEF Thr!Free
  <2>3. ThrRaced'
    BY <1>19 DEF Thr!Free
  <2> QED
    BY ONLY <2>1, <2>2, <2>3 DEF ThrInv
<1>20. CASE Thr!ListRoles
  BY <1>20 DEF Thr!ListRoles, Thr!Main
<1>21. CASE Thr!ListCheck
  <2>1. CASE thr_pipe /\ Thr!Goto(Thr!Worker, "space") /\ UNCHANGED <<thr_ptr, thr_pipe>>
    BY <1>21, <2>1 DEF Thr!ListCheck, Thr!Main, Thr!Goto
  <2>2. CASE thr_ptr' = FALSE /\ thr_pipe' = FALSE /\ UNCHANGED pc
    <3>1. UNCHANGED <<pc, arg, list, bound, held, alive, owner, going, pending, locked, panic, raced>>
      BY <1>21, <2>2 DEF Thr!ListCheck
    <3>2. ThrType' /\ ThrLocks' /\ ThrList' /\ ThrBound'
      BY <3>1
    <3>3. ThrRaced'
      <4>1. pc[Thr!Worker] = "run"
        BY <1>21 DEF Thr!ListCheck, Thr!Main
      <4>2. (panic => raced) /\ (going # NoDev => locked)
            /\ (locked => pc[Thr!Worker] \in {"run", "find", "found", "change"})
            /\ locked \in BOOLEAN /\ panic \in BOOLEAN /\ raced \in BOOLEAN
        OBVIOUS
      <4> QED
        BY ONLY <2>2, <3>1, <4>1, <4>2, Zenon DEF ThrRaced
    <3> QED
      BY ONLY <3>2, <3>3 DEF ThrInv
  <2> QED
    BY ONLY <1>21, <2>1, <2>2 DEF Thr!ListCheck
<1>22. CASE Thr!ListWrite
  <2>1. ThrType' /\ ThrLocks'
    BY <1>22 DEF Thr!ListWrite, Thr!Goto
  <2>2. ThrList' /\ ThrBound'
    BY <1>22 DEF Thr!ListWrite, Thr!Goto
  <2>3. ThrRaced'
    BY <1>22 DEF Thr!ListWrite, Thr!Goto
  <2> QED
    BY ONLY <2>1, <2>2, <2>3 DEF ThrInv
<1>23. ASSUME NEW more \in BOOLEAN, Thr!ListNext(more)
       PROVE  ThrInv'
  BY <1>23 DEF Thr!ListNext, Thr!Goto
<1>24. CASE Thr!find_and_lock
  BY <1>24 DEF Thr!find_and_lock, Thr!Lock, Thr!Goto
<1>25. CASE Thr!LockClient
  BY <1>25 DEF Thr!LockClient, Thr!Goto
<1>26. CASE Thr!NoClient
  BY <1>26 DEF Thr!NoClient, Thr!Unlock, Thr!Goto
<1>27. CASE Thr!jdc_event_handler
  BY <1>27 DEF Thr!jdc_event_handler, Thr!Unlock, Thr!Goto
<1>28. CASE UNCHANGED Thr!vars
  BY <1>28 DEF Thr!vars
<1> HIDE DEF ThrInv
<1> QED
  BY <1>1, <1>2, <1>3, <1>4, <1>5, <1>6, <1>7, <1>8, <1>9, <1>10, <1>11, <1>12, <1>13, <1>14, <1>15, <1>16, <1>17, <1>18, <1>19, <1>20, <1>21, <1>22, <1>23, <1>24, <1>25, <1>26, <1>27, <1>28 DEF Thr!Next

\* It holds at the start, when no client is known.
LEMMA ThrInitially == ThrNames /\ Thr!Init => ThrInv
<1> SUFFICES ASSUME ThrNames, Thr!Init
             PROVE  ThrInv
  OBVIOUS
<1>1. (CHOOSE r \in Roles : TRUE) \in Roles
  BY DEF ThrNames
<1> QED
  BY <1>1 DEF ThrNames, Thr!Init, ThrInv, ThrType, ThrLocks, ThrList, ThrBound, ThrRaced, Telling,
              MaybeDev, Places, AppPlaces, WorkerPlaces, Thr!Threads, Thr!Worker, Thr!List,
              Thr!Creating

(***************************************************************************)
(* For any number of application threads, roles and devices: no thread     *)
(* uses a service of a device that was freed, a client has the service of  *)
(* its role whenever the worker is not about to tell it, nobody waits in a *)
(* circle and no wake-up is missed (hclient.c, thr_pthread.c); and the     *)
(* assertions of the role manager hold as long as clients are created      *)
(* between two turns of the main loop (stop_list and rolemgr_process of    *)
(* rolemgr.c).                                                             *)
(***************************************************************************)
THEOREM ThreadsAreSound ==
  ThrNames => (Thr!Spec => []Thr!ThreadsSound)
<1> SUFFICES ASSUME ThrNames
             PROVE  Thr!Spec => []Thr!ThreadsSound
  OBVIOUS
<1>1. Thr!Init => ThrInv
  BY ThrInitially
<1>2. ThrInv /\ [Thr!Next]_(Thr!vars) => ThrInv'
  BY ThrStep
<1>3. ThrInv => Thr!ThreadsSound
  <2> SUFFICES ASSUME ThrInv
               PROVE  Thr!ServicesAlive /\ Thr!NoCircle /\ Thr!AssertionsHold
    BY DEF Thr!ThreadsSound
  <2>1. Thr!ServicesAlive
    BY DEF ThrNames, ThrInv, ThrType, ThrLocks, ThrList, ThrBound, Telling, MaybeDev, Thr!Threads,
           Thr!Worker, Thr!ServicesAlive
  <2>2. Thr!NoCircle
    BY DEF ThrNames, ThrInv, ThrType, ThrLocks, ThrList, ThrBound, Thr!Threads, Thr!Worker,
           Thr!List, Thr!Creating, Thr!Wants, Thr!NoCircle
  <2>3. Thr!AssertionsHold
    BY DEF ThrInv, ThrRaced, Thr!AssertionsHold
  <2> QED
    BY <2>1, <2>2, <2>3
<1> QED
  BY <1>1, <1>2, <1>3, PTL DEF Thr!Spec

------------------------------------------------------------------------------
(* The register queries (JdRegister) *)

CONSTANTS Regs, Missing, Values, MAX_INLINE, Buffers, MaxChanges
VARIABLES queries, heap, lost_buffers, remote, requests, answers, told, refused, changes

Rgs == INSTANCE JdRegister

\* Values have a size and data.
RgsData == {v.data : v \in Values} \cup {"none"}
RgsValues ==
  MAX_INLINE \in Nat /\ Values # {} /\ Values \subseteq [size : Nat, data : RgsData]

Query ==
  [service_index : {1, 1 + Rgs!NI}, resp_size : Nat, data : RgsData,
   buffer : Buffers \cup {Rgs!NoBuffer}, asked : BOOLEAN]

RgsType ==
  /\ DOMAIN queries \subseteq Regs /\ queries \in [DOMAIN queries -> Query]
  /\ heap \subseteq Buffers /\ remote \in [Regs -> Values] /\ requests \subseteq Regs
  /\ answers \subseteq [reg : Regs, value : Values, ni : BOOLEAN]
  /\ told \in [Regs -> [size : Nat, data : RgsData]]

\* What the application knows is what the query holds.
RgsTold ==
  \A r \in Regs :
    /\ r \in DOMAIN queries => told[r].size = queries[r].resp_size /\ told[r].data = queries[r].data
    /\ r \notin DOMAIN queries => told[r] = Rgs!None

\* Who has which buffer.
RgsHeap ==
  /\ lost_buffers \subseteq heap
  /\ \A r \in Regs : Rgs!Long(r) => queries[r].buffer \in heap \ lost_buffers
  /\ \A b \in heap \ lost_buffers : \E r \in Regs : Rgs!Long(r) /\ queries[r].buffer = b
  /\ \A r, s \in Regs : Rgs!Long(r) /\ Rgs!Long(s) /\ r # s => queries[r].buffer # queries[s].buffer

RgsRefused ==
  /\ refused \subseteq DOMAIN queries
  /\ \A r \in DOMAIN queries : queries[r].service_index = 1 + Rgs!NI <=> r \in refused

RgsInv == RgsType /\ RgsTold /\ RgsHeap /\ RgsRefused

\* A query after an answer that is in buffer b.
Answered(q, v, b) ==
  [service_index |-> q.service_index, resp_size |-> v.size, data |-> v.data, buffer |-> b,
   asked |-> q.asked]

LEMMA AnsweredIs ==
  ASSUME NEW q \in Query, NEW v \in [size : Nat, data : RgsData], NEW b \in Buffers \cup {Rgs!NoBuffer}
  PROVE  /\ Answered(q, v, b) \in Query
         /\ [q EXCEPT !.buffer = b, !.resp_size = v.size, !.data = v.data] = Answered(q, v, b)
<1>1. Answered(q, v, b) \in Query
  BY DEF Answered, Query
<1>2. [q EXCEPT !.buffer = b, !.resp_size = v.size, !.data = v.data]
        = [[[q EXCEPT !.buffer = b] EXCEPT !.resp_size = v.size] EXCEPT !.data = v.data]
  BY Zenon
<1>3. [[[q EXCEPT !.buffer = b] EXCEPT !.resp_size = v.size] EXCEPT !.data = v.data] = Answered(q, v, b)
  <2> DEFINE x == [q EXCEPT !.buffer = b]
             y == [x EXCEPT !.resp_size = v.size]
             z == [y EXCEPT !.data = v.data]
  <2>1. /\ x \in Query /\ x.service_index = q.service_index /\ x.buffer = b /\ x.asked = q.asked
    BY DEF Query
  <2> HIDE DEF x
  <2>2. /\ y \in Query /\ y.service_index = q.service_index /\ y.buffer = b /\ y.asked = q.asked
        /\ y.resp_size = v.size
    BY <2>1 DEF Query
  <2> HIDE DEF y
  <2>3. /\ z \in Query /\ z.service_index = q.service_index /\ z.buffer = b /\ z.asked = q.asked
        /\ z.resp_size = v.size /\ z.data = v.data
    BY <2>2 DEF Query
  <2> HIDE DEF z
  <2>4. z = Answered(q, v, b)
    BY <2>3 DEF Query, Answered
  <2> QED
    BY <2>4 DEF x, y, z
<1> QED
  BY <1>1, <1>2, <1>3

\* A query is made, or found, and marked as asked.
LEMMA RgsQuery ==
  ASSUME RgsValues, RgsInv, NEW r \in Regs, NEW old \in BOOLEAN, Rgs!jd_service_query(r, old)
  PROVE  RgsInv'
<1> DEFINE q == IF r \in DOMAIN queries THEN queries[r]
                ELSE [service_index |-> 1, resp_size |-> 0, data |-> "none",
                      buffer |-> Rgs!NoBuffer, asked |-> FALSE]
           send == ~ Rgs!jd_register_not_implemented(q) /\ (~ q.asked \/ old)
           asked == q.asked \/ send
           n == [q EXCEPT !.asked = asked]
<1>1. q \in Query
  BY DEF RgsInv, RgsType, Query, RgsData
<1>2. asked \in BOOLEAN
  BY Zenon
<1>3. queries' = Rgs!Extended(queries, r, n)
  BY Zenon DEF Rgs!jd_service_query
<1>4. /\ n \in Query /\ n.service_index = q.service_index /\ n.resp_size = q.resp_size
      /\ n.data = q.data /\ n.buffer = q.buffer
  <2> HIDE DEF asked, q
  <2> QED
    BY <1>1, <1>2 DEF Query
<1> HIDE DEF n
<1>5. RgsType'
  BY <1>3, <1>4 DEF Rgs!jd_service_query, Rgs!Extended, RgsInv, RgsType
<1>6. RgsTold' /\ RgsHeap' /\ RgsRefused'
  BY <1>3, <1>4 DEF Rgs!jd_service_query, Rgs!Extended, RgsValues, RgsInv, RgsType, RgsTold, RgsHeap,
                    RgsRefused, Rgs!Long, Rgs!None, Rgs!NI
<1> QED
  BY <1>5, <1>6 DEF RgsInv

\* A register turns out not to be implemented.
LEMMA RgsNotImplemented ==
  ASSUME RgsValues, RgsInv, NEW a \in answers, Rgs!NotImplemented(a)
  PROVE  RgsInv'
<1>1. answers' \subseteq answers
  BY DEF Rgs!NotImplemented
<1>2. CASE UNCHANGED <<queries, refused>>
  BY <1>1, <1>2 DEF Rgs!NotImplemented, RgsInv, RgsType, RgsTold, RgsHeap, RgsRefused, Rgs!Long
<1>3. CASE ~ UNCHANGED <<queries, refused>>
  <2> DEFINE r == a.reg
             q == queries[r]
             n == [q EXCEPT !.service_index = @ + Rgs!NI]
  <2>1. r \in DOMAIN queries /\ q \in Query /\ ~ Rgs!jd_register_not_implemented(q)
    BY <1>3 DEF Rgs!NotImplemented, RgsInv, RgsType
  <2>2. /\ queries' = [queries EXCEPT ![r] = n]
        /\ refused' = refused \cup {r} /\ UNCHANGED <<heap, lost_buffers, remote, requests, told>>
    BY <1>3, Zenon DEF Rgs!NotImplemented
  <2>3. q.service_index = 1
    BY <2>1 DEF Query, Rgs!jd_register_not_implemented, Rgs!NI
  <2>4. /\ n \in Query /\ n.service_index = 1 + Rgs!NI /\ n.resp_size = q.resp_size
        /\ n.data = q.data /\ n.buffer = q.buffer
    <3> HIDE DEF q
    <3> QED
      BY <2>1, <2>3 DEF Query
  <2> HIDE DEF r, n
  <2>5. RgsType'
    BY <1>1, <2>1, <2>2, <2>4 DEF RgsInv, RgsType
  <2>6. RgsTold' /\ RgsHeap' /\ RgsRefused'
    BY <2>1, <2>2, <2>4 DEF RgsInv, RgsType, RgsTold, RgsHeap, RgsRefused, Rgs!Long
  <2> QED
    BY <2>5, <2>6 DEF RgsInv
<1> QED
  BY <1>2, <1>3

\* An answer to a get.  A long value of a new size gives back the query's buffer, which
\* no other query has, and takes one that is free; a value that becomes short leaves its
\* buffer among the lost.
LEMMA RgsAnswered ==
  ASSUME RgsValues, RgsInv, NEW a \in answers, Rgs!handle_register(a)
  PROVE  RgsInv'
<1> DEFINE r == a.reg
           v == a.value
           q == queries[r]
           was_long == q.resp_size > MAX_INLINE
           long == v.size > MAX_INLINE
           kept == IF was_long THEN heap \ {q.buffer} ELSE heap
           fresh == Rgs!jd_alloc(kept)
<1>1. /\ answers' \subseteq answers /\ UNCHANGED <<remote, requests, refused>>
      /\ r \in Regs /\ v \in Values /\ v \in [size : Nat, data : RgsData]
  BY DEF Rgs!handle_register, RgsInv, RgsType, RgsValues
<1>2. CASE r \notin DOMAIN queries
  BY <1>1, <1>2 DEF Rgs!handle_register, RgsInv, RgsType, RgsTold, RgsHeap, RgsRefused, Rgs!Long
<1>3. ASSUME r \in DOMAIN queries, NEW b \in Buffers \cup {Rgs!NoBuffer},
             queries' = [queries EXCEPT ![r] = Answered(q, v, b)],
             heap' \subseteq Buffers,
             RgsHeap'
      PROVE  RgsInv'
  <2>1. q \in Query
    BY <1>3 DEF RgsInv, RgsType
  <2>2. Answered(q, v, b) \in Query
    BY <1>1, <1>3, <2>1, AnsweredIs
  <2>3. told' = IF q.resp_size # v.size \/ q.data # v.data THEN [told EXCEPT ![r] = v] ELSE told
    BY <1>3 DEF Rgs!handle_register
  <2> HIDE DEF q, r, v
  <2>4. RgsType'
    BY <1>1, <1>3, <2>2, <2>3 DEF RgsInv, RgsType
  <2>5. RgsTold'
    BY <1>1, <1>3, <2>1, <2>3 DEF RgsInv, RgsType, RgsTold, Answered, Query, q
  <2>6. RgsRefused'
    BY <1>1, <1>3 DEF RgsInv, RgsType, RgsRefused, Answered, q
  <2> QED
    BY <1>3, <2>4, <2>5, <2>6 DEF RgsInv
<1>4. CASE r \in DOMAIN queries /\ long /\ q.resp_size # v.size
  <2>1. /\ Rgs!CanAlloc(kept) /\ heap' = kept \cup {fresh} /\ lost_buffers' = lost_buffers
        /\ queries' = [queries EXCEPT ![r] =
                         [q EXCEPT !.buffer = fresh, !.resp_size = v.size, !.data = v.data]]
    BY <1>4, Zenon DEF Rgs!handle_register
  <2>2. fresh \in Buffers /\ fresh \notin kept
    BY <2>1 DEF Rgs!CanAlloc, Rgs!jd_alloc
  <2>3. q \in Query
    BY <1>4 DEF RgsInv, RgsType
  <2>4. queries' = [queries EXCEPT ![r] = Answered(q, v, fresh)]
    <3> HIDE DEF q, v, r, fresh
    <3>1. fresh \in Buffers \cup {Rgs!NoBuffer}
      BY <2>2
    <3>2. [q EXCEPT !.buffer = fresh, !.resp_size = v.size, !.data = v.data] = Answered(q, v, fresh)
      BY <1>1, <2>3, <3>1, AnsweredIs
    <3> QED
      BY <2>1, <3>2
  <2>5. heap' \subseteq Buffers
    BY <2>1, <2>2 DEF RgsInv, RgsType
  <2>6. RgsHeap'
    <3> HIDE DEF r, v, fresh
    <3> QED
      BY <1>1, <1>4, <2>1, <2>2, <2>3, <2>4 DEF RgsInv, RgsType, RgsValues, RgsHeap, Rgs!Long, Answered, Query
  <2> QED
    BY <1>3, <1>4, <2>2, <2>4, <2>5, <2>6
<1>5. CASE r \in DOMAIN queries /\ ~ (long /\ q.resp_size # v.size)
  <2> DEFINE b == IF long THEN q.buffer ELSE Rgs!NoBuffer
  <2>1. /\ heap' = heap
        /\ lost_buffers' = lost_buffers \cup (IF was_long /\ ~ long THEN {q.buffer} ELSE {})
        /\ queries' = [queries EXCEPT ![r] =
                         [q EXCEPT !.buffer = b, !.resp_size = v.size, !.data = v.data]]
    BY <1>5, Zenon DEF Rgs!handle_register
  <2>2. q \in Query /\ b \in Buffers \cup {Rgs!NoBuffer}
    BY <1>5 DEF RgsInv, RgsType, Query
  <2>4. queries' = [queries EXCEPT ![r] = Answered(q, v, b)]
    <3> HIDE DEF q, v, r, b
    <3>1. [q EXCEPT !.buffer = b, !.resp_size = v.size, !.data = v.data] = Answered(q, v, b)
      BY <1>1, <2>2, AnsweredIs
    <3> QED
      BY <2>1, <3>1
  <2>5. heap' \subseteq Buffers
    BY <2>1 DEF RgsInv, RgsType
  <2>6. RgsHeap'
    <3> HIDE DEF r, v
    <3> QED
      BY <1>1, <1>5, <2>1, <2>2, <2>4 DEF RgsInv, RgsType, RgsValues, RgsHeap, Rgs!Long, Answered, Query
  <2> QED
    BY <1>3, <1>5, <2>2, <2>4, <2>5, <2>6
<1> QED
  BY <1>2, <1>4, <1>5

\* Every step keeps the invariant.
LEMMA RgsStep == RgsValues /\ RgsInv /\ [Rgs!Next]_(Rgs!vars) => RgsInv'
<1> SUFFICES ASSUME RgsValues, RgsInv, [Rgs!Next]_(Rgs!vars)
             PROVE  RgsInv'
  OBVIOUS
<1> USE DEF RgsInv, RgsType, RgsTold, RgsHeap, RgsRefused, Rgs!Long
<1>2. ASSUME NEW r \in Regs, Rgs!Answer(r)
      PROVE  RgsInv'
  <2> DEFINE ni == r \in Missing
  <2>1. ni \in BOOLEAN
    OBVIOUS
  <2>2. answers' = answers \cup {[reg |-> r, value |-> remote[r], ni |-> ni]}
    BY <1>2, Zenon DEF Rgs!Answer
  <2> HIDE DEF ni
  <2> QED
    BY <1>2, <2>1, <2>2 DEF Rgs!Answer
<1>3. ASSUME NEW r \in Regs, Rgs!Change(r)
      PROVE  RgsInv'
  BY <1>3 DEF Rgs!Change
<1>6. CASE Rgs!Lost
  BY <1>6 DEF Rgs!Lost
<1>7. CASE Rgs!jd_device_clear_queries
  <2>1. /\ queries' = [r \in {} |-> Rgs!None] /\ told' = [r \in Regs |-> Rgs!None] /\ refused' = {}
        /\ UNCHANGED <<lost_buffers, remote, requests, answers>>
        /\ heap' = heap \ {queries[r].buffer : r \in {x \in DOMAIN queries : queries[x].resp_size > MAX_INLINE}}
    BY <1>7 DEF Rgs!jd_device_clear_queries
  <2>2. heap' = lost_buffers
    BY <2>1
  <2> QED
    BY <2>1, <2>2 DEF Rgs!None, RgsData
<1>8. CASE UNCHANGED Rgs!vars
  BY <1>8 DEF Rgs!vars
<1> HIDE DEF RgsInv
<1> QED
  BY <1>2, <1>3, <1>6, <1>7, <1>8, RgsQuery, RgsNotImplemented, RgsAnswered DEF Rgs!Next

\* It holds at the start, when there is no query.
LEMMA RgsInitially == RgsValues /\ Rgs!Init => RgsInv
<1> SUFFICES ASSUME RgsValues, Rgs!Init
             PROVE  RgsInv
  OBVIOUS
<1>1. (CHOOSE v \in Values : TRUE) \in Values
  BY DEF RgsValues
<1>2. DOMAIN queries = {} /\ queries \in [{} -> Query] /\ refused = {} /\ heap = {} /\ lost_buffers = {}
  BY DEF Rgs!Init
<1>3. told \in [Regs -> [size : Nat, data : RgsData]] /\ \A r \in Regs : told[r] = Rgs!None
  BY DEF Rgs!Init, Rgs!None, RgsData
<1> QED
  BY <1>1, <1>2, <1>3 DEF Rgs!Init, RgsInv, RgsType, RgsTold, RgsHeap, RgsRefused, Rgs!Long

(***************************************************************************)
(* The cache of registers is in step with what the application was told,   *)
(* and with the heap, for any registers, values and losses (client/        *)
(* routing.c: jd_service_query, handle_register, jd_device_clear_queries). *)
(***************************************************************************)
THEOREM RegistersInSync ==
  RgsValues => (Rgs!Spec => []Rgs!CacheInSync)
<1> SUFFICES ASSUME RgsValues
             PROVE  Rgs!Spec => []Rgs!CacheInSync
  OBVIOUS
<1>1. Rgs!Init => RgsInv
  BY RgsInitially
<1>2. RgsInv /\ [Rgs!Next]_(Rgs!vars) => RgsInv'
  BY RgsStep
<1>3. RgsInv => Rgs!CacheInSync
  <2> SUFFICES ASSUME RgsInv
               PROVE  Rgs!CacheInSync
    OBVIOUS
  <2>1. \A r \in Regs :
          IF r \in DOMAIN queries
          THEN told[r] = [size |-> queries[r].resp_size, data |-> queries[r].data]
          ELSE told[r] = Rgs!None
    BY DEF RgsInv, RgsType, RgsTold
  <2>2. {queries[r].buffer : r \in {x \in Regs : Rgs!Long(x)}} = heap \ lost_buffers
    BY DEF RgsInv, RgsHeap
  <2>3. /\ lost_buffers \subseteq heap
        /\ \A r, s \in Regs :
             Rgs!Long(r) /\ Rgs!Long(s) /\ r # s => queries[r].buffer # queries[s].buffer
    BY DEF RgsInv, RgsHeap
  <2>4. \A r \in DOMAIN queries : Rgs!jd_register_not_implemented(queries[r]) <=> r \in refused
    BY DEF RgsInv, RgsType, RgsRefused, Query, Rgs!jd_register_not_implemented, Rgs!NI
  <2> QED
    BY <2>1, <2>2, <2>3, <2>4 DEF Rgs!CacheInSync
<1> QED
  BY <1>1, <1>2, <1>3, PTL DEF Rgs!Spec

------------------------------------------------------------------------------
(* Events (JdEvents) *)

CONSTANTS Bases, QueueCap, FIRST_DELAY, SECOND_DELAY, MaxEvents, MaxTime, MaxExpiries
VARIABLES base, now, sent, queue, device, _event_counter, delivered, lastArrived, burst, expiries

Evs == INSTANCE JdEvents

EvsNumbers ==
  /\ Bases \subseteq Nat /\ FIRST_DELAY \in Nat /\ SECOND_DELAY \in Nat
  /\ MaxEvents \in Nat /\ MaxTime \in Nat /\ QueueCap \in 1 .. Evs!BEHIND - 1

Entry == [ev : 1 .. MaxEvents, ts : Nat, stage : 0 .. 1]

\* When the second copy of an event was, or is, to be sent.
Second(x) == IF x.stage = 1 THEN x.ts - SECOND_DELAY ELSE x.ts

\* The queue holds the events last sent; the earlier ones are further on and were due before.
EvsQueue(q) ==
  /\ q \in Seq(Entry) /\ Len(q) <= QueueCap /\ Len(q) <= sent
  /\ \A i \in 1 .. Len(q) : q[i].ev = sent - Len(q) + i /\ Second(q[i]) <= now + FIRST_DELAY
  /\ \A i, j \in 1 .. Len(q) : i < j => q[j].stage <= q[i].stage /\ Second(q[i]) <= Second(q[j])

Increasing(d) == \A i, j \in 1 .. Len(d) : i < j => d[i] < d[j]

\* The client keeps the counter of the event it handled last.
EvsClient(cl, top) ==
  /\ cl.d \in Seq(1 .. top) /\ Increasing(cl.d) /\ cl.a \subseteq Nat
  /\ cl.c = IF cl.d = <<>> THEN 255 ELSE Evs!counter(cl.d[Len(cl.d)])

\* The last copy of event m was lost, or not even sent: the next that may come is that of front.
Gone(cl, front, m) == m < front /\ m \notin cl.a

\* The client has passed over this event.
Skipped(cl, x) ==
  /\ cl.d # <<>> /\ cl.d[1] < x /\ (x < cl.d[Len(cl.d)] \/ x \in cl.a)
  /\ \A i \in 1 .. Len(cl.d) : cl.d[i] # x

\* An event is passed over only because it, or one before it, is gone.
EvsSkips(cl, front) ==
  /\ cl.a \subseteq 1 .. front - 1
  /\ \A x \in Nat : Skipped(cl, x) => \E m \in cl.d[1] + 1 .. x : Gone(cl, front, m)

Oldest == sent - Len(queue) + 1

EvsState ==
  /\ base \in Bases /\ now \in 0 .. MaxTime /\ sent \in 0 .. MaxEvents /\ device \in BOOLEAN
  /\ burst \in BOOLEAN

EvsInv ==
  /\ EvsState /\ EvsQueue(queue) /\ EvsClient(Evs!Client, sent)
  /\ ~ burst => Len(queue) <= Evs!AHEAD
  /\ ~ burst => EvsSkips(Evs!Client, Oldest)

\* A sequence over a set is one over any larger set.
LEMMA SeqWider ==
  ASSUME NEW S, NEW T, S \subseteq T, NEW s \in Seq(S)
  PROVE  s \in Seq(T)
  OBVIOUS

\* What the client does with event e: it ignores it, but never the next one, or it handles
\* it, but then it is the first, the next or so far ahead that the gap is taken for a restart.
Handled(cl, e, last, h) ==
  /\ h.a = IF last THEN cl.a \cup {e} ELSE cl.a
  /\ \/ cl.d # <<>> /\ e # cl.d[Len(cl.d)] + 1 /\ h.c = cl.c /\ h.d = cl.d
     \/ /\ cl.d = <<>> \/ e = cl.d[Len(cl.d)] + 1 \/ e >= cl.d[Len(cl.d)] + 1 + Evs!AHEAD
        /\ h.c = Evs!counter(e) /\ h.d = Append(cl.d, e)

LEMMA HandleIs ==
  ASSUME EvsNumbers, base \in Nat, NEW top \in Nat, NEW cl, EvsClient(cl, top),
         NEW e \in 1 .. top, top - QueueCap < e, NEW last
  PROVE  Handled(cl, e, last, Evs!Handle(cl, e, last))
<1> DEFINE L == cl.d[Len(cl.d)]
           pec == Evs!counter(e)
           ec == (IF cl.c = 255 THEN pec - 1 ELSE cl.c) + 1
           arrived == IF last THEN cl.a \cup {e} ELSE cl.a
           h == Evs!Handle(cl, e, last)
<1>1. h = IF Evs!Ignored(pec, ec) THEN [c |-> cl.c, d |-> cl.d, a |-> arrived]
          ELSE [c |-> pec, d |-> Append(cl.d, e), a |-> arrived]
  BY DEF Evs!Handle
<1>2. pec \in 0 .. 127
  BY DEF Evs!counter, Evs!COUNTER_MASK
<1>3. CASE cl.d = <<>>
  <2>1. ec = pec
    <3>1. cl.c = 255
      BY <1>3 DEF EvsClient
    <3> HIDE DEF pec
    <3> QED
      BY <1>2, <3>1
  <2> HIDE DEF pec, ec
  <2>2. ~ Evs!Ignored(pec, ec)
    BY <1>2, <2>1 DEF Evs!Ignored, Evs!COUNTER_MASK
  <2> HIDE DEF h, arrived
  <2>3. h = [c |-> pec, d |-> Append(cl.d, e), a |-> arrived]
    BY <1>1, <2>2
  <2>4. h.c = pec /\ h.d = Append(cl.d, e) /\ h.a = arrived
    BY <2>3
  <2> QED
    BY <1>3, <2>4 DEF h, arrived, pec, Handled
<1>4. CASE cl.d # <<>>
  <2>1. L \in 1 .. top
    BY <1>4 DEF EvsClient
  <2>2. ec = ((base + L) % 128) + 1
    BY <1>4, <2>1 DEF EvsClient, Evs!counter, Evs!COUNTER_MASK
  <2> HIDE DEF L, ec
  <2>3. (pec - ec) % 128 = (e - L - 1) % 128
    <3>1. base + e \in Int /\ base + L \in Int
      BY <2>1
    <3>2. pec = (base + e) % 128
      BY DEF Evs!counter, Evs!COUNTER_MASK
    <3> HIDE DEF pec
    <3> QED
      BY <2>1, <2>2, <3>1, <3>2
  <2>4. (ec - pec) % 128 = (L + 1 - e) % 128
    <3>1. base + e \in Int /\ base + L \in Int
      BY <2>1
    <3>2. pec = (base + e) % 128
      BY DEF Evs!counter, Evs!COUNTER_MASK
    <3> HIDE DEF pec
    <3> QED
      BY <2>1, <2>2, <3>1, <3>2
  <2>5. Evs!Ignored(pec, ec) <=> (e - L - 1) % 128 > 0 /\ ((L + 1 - e) % 128 < 60 \/ (e - L - 1) % 128 < 5)
    BY <2>3, <2>4 DEF Evs!Ignored, Evs!COUNTER_MASK, Evs!BEHIND, Evs!AHEAD
  <2> HIDE DEF pec
  <2>6. e <= L => Evs!Ignored(pec, ec)
    <3> SUFFICES ASSUME e <= L
                 PROVE  Evs!Ignored(pec, ec)
      OBVIOUS
    <3>1. L + 1 - e \in 1 .. 59
      BY <2>1 DEF EvsNumbers, Evs!BEHIND
    <3>2. (L + 1 - e) % 128 < 60 /\ (e - L - 1) % 128 > 0
      BY <2>1, <3>1
    <3> QED
      BY <2>5, <3>2
  <2>7. e = L + 1 => ~ Evs!Ignored(pec, ec)
    BY <2>1, <2>5
  <2>8. e > L + 1 /\ e < L + 6 => Evs!Ignored(pec, ec)
    BY <2>1, <2>5
  <2> HIDE DEF h, arrived
  <2>9. CASE Evs!Ignored(pec, ec)
    <3>1. h = [c |-> cl.c, d |-> cl.d, a |-> arrived]
      BY <1>1, <2>9
    <3>2. h.c = cl.c /\ h.d = cl.d /\ h.a = arrived
      BY <3>1
    <3> QED
      BY <1>4, <2>7, <2>9, <3>2 DEF h, arrived, L, Handled
  <2>10. CASE ~ Evs!Ignored(pec, ec)
    <3>1. h = [c |-> pec, d |-> Append(cl.d, e), a |-> arrived]
      BY <1>1, <2>10
    <3>2. h.c = pec /\ h.d = Append(cl.d, e) /\ h.a = arrived
      BY <3>1
    <3>3. e = L + 1 \/ e >= L + 1 + Evs!AHEAD
      BY <2>1, <2>6, <2>8, <2>10 DEF Evs!AHEAD
    <3> QED
      BY <3>2, <3>3 DEF h, arrived, L, pec, Handled
  <2> QED
    BY <2>9, <2>10
<1> QED
  BY <1>3, <1>4

\* The client's events stay in order.
LEMMA HandleKeepsOrder ==
  ASSUME EvsNumbers, base \in Nat, NEW top \in Nat, NEW cl, EvsClient(cl, top),
         NEW e \in 1 .. top, top - QueueCap < e, NEW last
  PROVE  EvsClient(Evs!Handle(cl, e, last), top)
<1> DEFINE L == cl.d[Len(cl.d)]
           h == Evs!Handle(cl, e, last)
<1>0. Handled(cl, e, last, h)
  BY HandleIs
<1> HIDE DEF h
<1>1. \/ cl.d # <<>> /\ e # L + 1 /\ h.c = cl.c /\ h.d = cl.d
      \/ /\ cl.d = <<>> \/ e = L + 1 \/ e >= L + 1 + Evs!AHEAD
         /\ h.c = Evs!counter(e) /\ h.d = Append(cl.d, e)
  BY <1>0 DEF Handled
<1>a. h.a \subseteq Nat
  BY <1>0 DEF Handled, EvsClient
<1>2. CASE h.c = cl.c /\ h.d = cl.d
  BY <1>a, <1>2 DEF EvsClient, h
<1>3. CASE /\ cl.d = <<>> \/ e = L + 1 \/ e >= L + 1 + Evs!AHEAD
           /\ h.c = Evs!counter(e) /\ h.d = Append(cl.d, e)
  <2>1. cl.d \in Seq(1 .. top) /\ Increasing(cl.d)
    BY DEF EvsClient
  <2>2. h.d \in Seq(1 .. top) /\ h.d # <<>> /\ Len(h.d) = Len(cl.d) + 1 /\ h.d[Len(h.d)] = e
    BY <1>3, <2>1
  <2>3. \A i \in 1 .. Len(cl.d) : h.d[i] = cl.d[i] /\ cl.d[i] \in 1 .. top
    BY <1>3, <2>1
  <2>4. \A i \in 1 .. Len(cl.d) : cl.d[i] < e
    <3> SUFFICES ASSUME NEW i \in 1 .. Len(cl.d)
                 PROVE  cl.d[i] < e
      OBVIOUS
    <3>1. cl.d # <<>> /\ Len(cl.d) \in 1 .. Len(cl.d)
      BY <2>1
    <3>2. L \in 1 .. top /\ L < e
      BY <1>3, <2>1, <3>1 DEF Evs!AHEAD
    <3>3. i = Len(cl.d) \/ i < Len(cl.d)
      BY <2>1
    <3> QED
      BY <2>1, <2>3, <3>1, <3>2, <3>3 DEF Increasing
  <2>5. Increasing(h.d)
    <3> SUFFICES ASSUME NEW i \in 1 .. Len(h.d), NEW j \in 1 .. Len(h.d), i < j
                 PROVE  h.d[i] < h.d[j]
      BY DEF Increasing
    <3>1. i \in 1 .. Len(cl.d) /\ (j = Len(h.d) \/ j \in 1 .. Len(cl.d))
      BY <2>1, <2>2, SMTT(30)
    <3> QED
      BY <2>1, <2>2, <2>3, <2>4, <3>1 DEF Increasing
  <2> QED
    BY <1>a, <1>3, <2>2, <2>5 DEF EvsClient, h
<1> QED
  BY <1>1, <1>2, <1>3

\* What is gone stays gone.
LEMMA SkipsLater ==
  ASSUME NEW cl, NEW f \in Nat, NEW g \in Nat, f <= g, EvsSkips(cl, f)
  PROVE  EvsSkips(cl, g)
<1>1. cl.a \subseteq 1 .. g - 1
  BY DEF EvsSkips
<1>2. ASSUME NEW x \in Nat, Skipped(cl, x)
      PROVE  \E m \in cl.d[1] + 1 .. x : Gone(cl, g, m)
  <2>1. PICK m \in cl.d[1] + 1 .. x : Gone(cl, f, m)
    BY <1>2 DEF EvsSkips
  <2>2. m < g
    BY <2>1 DEF Gone
  <2> QED
    BY <2>1, <2>2 DEF Gone
<1> QED
  BY <1>1, <1>2 DEF EvsSkips

\* Nor is an event passed over that may still come: front is the event whose last copy may
\* come next, and this packet is that copy or an earlier copy of a later event.
LEMMA HandleKeepsSkips ==
  ASSUME EvsNumbers, base \in Nat, NEW top \in Nat, NEW cl,
         EvsClient(cl, top), NEW front \in 1 .. top + 1, top - QueueCap < front,
         top - front < Evs!AHEAD,
         EvsSkips(cl, front), NEW e \in front .. top, NEW last \in BOOLEAN, last => e = front
  PROVE  EvsSkips(Evs!Handle(cl, e, last), IF last THEN front + 1 ELSE front)
<1> DEFINE L == cl.d[Len(cl.d)]
           h == Evs!Handle(cl, e, last)
           next == IF last THEN front + 1 ELSE front
<1>1. Handled(cl, e, last, h)
  <2>1. e \in 1 .. top /\ top - QueueCap < e
    BY DEF EvsNumbers
  <2> QED
    BY <2>1, HandleIs
<1> HIDE DEF h
<1>2. next \in Nat /\ front <= next
  OBVIOUS
<1>3. h.a \subseteq 1 .. next - 1
  BY <1>1 DEF Handled, EvsSkips
<1>4. \A m : Gone(cl, front, m) /\ m \in Nat => Gone(h, next, m)
  BY <1>1, <1>2 DEF Handled, Gone
<1>5. h.d # <<>> /\ cl.d \in Seq(1 .. top) /\ Increasing(cl.d)
  BY <1>1 DEF Handled, EvsClient
<1>6. ASSUME cl.d # <<>>
      PROVE  /\ L \in 1 .. top /\ cl.d[1] \in 1 .. top /\ cl.d[1] <= L
             /\ \A i \in 1 .. Len(cl.d) : cl.d[i] \in 1 .. top /\ cl.d[i] <= L
  <2>1. Len(cl.d) \in 1 .. Len(cl.d) /\ 1 \in 1 .. Len(cl.d)
    BY <1>5, <1>6
  <2>2. \A i \in 1 .. Len(cl.d) : cl.d[i] \in 1 .. top
    BY <1>5
  <2>3. \A i \in 1 .. Len(cl.d) : cl.d[i] <= L
    <3> SUFFICES ASSUME NEW i \in 1 .. Len(cl.d)
                 PROVE  cl.d[i] <= L
      OBVIOUS
    <3>1. CASE i < Len(cl.d)
      <4>1. cl.d[i] < cl.d[Len(cl.d)]
        BY <1>5, <2>1, <3>1 DEF Increasing
      <4>2. cl.d[i] \in Int /\ L \in Int
        BY <2>1, <2>2
      <4> QED
        BY <4>1, <4>2
    <3>2. CASE i = Len(cl.d)
      BY <2>1, <2>2, <3>2
    <3> QED
      BY <2>1, <3>1, <3>2
  <2> QED
    BY <2>1, <2>2, <2>3
\* The event after the last one handled: if its last copy may not come any more, something
\* is gone.
<1>7. ASSUME cl.d # <<>>, L + 1 < front
      PROVE  \E m \in cl.d[1] + 1 .. L + 1 : Gone(cl, front, m)
  <2> HIDE DEF L
  <2>1. L + 1 \in Nat /\ L + 1 \in cl.d[1] + 1 .. L + 1
    BY <1>6, <1>7
  <2>2. CASE L + 1 \notin cl.a
    BY <1>7, <2>1, <2>2 DEF Gone
  <2>3. CASE L + 1 \in cl.a
    <3>1. Skipped(cl, L + 1)
      BY <1>6, <1>7, <2>3 DEF Skipped
    <3> QED
      BY <2>1, <3>1 DEF EvsSkips
  <2> QED
    BY <2>2, <2>3
<1>8. ASSUME NEW x \in Nat, Skipped(h, x)
      PROVE  \E m \in h.d[1] + 1 .. x : Gone(h, next, m)
  <2>1. CASE cl.d = <<>>
    <3>1. h.d = <<e>>
      BY <1>1, <2>1 DEF Handled
    <3>2. h.d[1] = e /\ h.d[Len(h.d)] = e
      BY <3>1
    <3>3. e < x /\ x \in h.a
      BY <1>8, <3>2 DEF Skipped
    <3> QED
      BY <1>3, <3>3
  <2>2. CASE cl.d # <<>>
    <3>1. h.d[1] = cl.d[1] /\ \A i \in 1 .. Len(cl.d) : i \in 1 .. Len(h.d) /\ h.d[i] = cl.d[i]
      <4>1. h.d = cl.d \/ h.d = Append(cl.d, e)
        BY <1>1 DEF Handled
      <4>2. 1 \in 1 .. Len(cl.d)
        BY <1>5, <2>2
      <4>3. CASE h.d = Append(cl.d, e)
        <5>1. Len(h.d) = Len(cl.d) + 1 /\ \A i \in 1 .. Len(cl.d) : h.d[i] = cl.d[i]
          BY <1>5, <4>3
        <5>2. Len(cl.d) \in Nat
          BY <1>5
        <5> QED
          BY <4>2, <5>1, <5>2
      <4> QED
        BY <4>1, <4>3
    <3>2. \A i \in 1 .. Len(cl.d) : cl.d[i] # x
      BY <1>8, <3>1 DEF Skipped
    <3>3. cl.d[1] < x
      BY <1>8, <3>1 DEF Skipped
    <3>4. CASE Skipped(cl, x)
      <4>1. PICK m \in cl.d[1] + 1 .. x : Gone(cl, front, m)
        BY <3>4 DEF EvsSkips
      <4>2. m \in Nat
        BY <1>6, <2>2, <4>1
      <4> QED
        BY <1>4, <3>1, <4>1, <4>2
    <3>5. CASE ~ Skipped(cl, x)
      <4>1. ~ (x < L) /\ x \notin cl.a
        BY <2>2, <3>2, <3>3, <3>5 DEF Skipped
      <4>2. x # L /\ x > L
        BY <1>5, <1>6, <2>2, <3>2, <4>1
      <4>3. L + 1 < front /\ L + 1 <= x
        <5>1. CASE cl.d # <<>> /\ e # L + 1 /\ h.c = cl.c /\ h.d = cl.d
          <6>1. x \in h.a
            BY <1>8, <4>1, <5>1 DEF Skipped
          <6>2. last /\ x = e /\ e = front
            BY <1>1, <4>1, <6>1 DEF Handled
          <6> QED
            BY <1>6, <2>2, <4>2, <5>1, <6>2
        <5>2. CASE /\ e = L + 1 \/ e >= L + 1 + Evs!AHEAD
                   /\ h.c = Evs!counter(e) /\ h.d = Append(cl.d, e)
          <6>1. Len(h.d) = Len(cl.d) + 1 /\ h.d[Len(h.d)] = e
            BY <1>5, <5>2
          <6>2. x # e
            <7>1. Len(h.d) \in 1 .. Len(h.d)
              BY <1>5, <6>1
            <7> QED
              BY <1>8, <6>1, <7>1 DEF Skipped
          <6>3. x \notin h.a
            BY <1>1, <4>1, <6>2 DEF Handled
          <6>4. x < e
            BY <1>8, <6>1, <6>3 DEF Skipped
          <6> QED
            BY <1>6, <2>2, <4>2, <5>2, <6>4 DEF Evs!AHEAD, EvsNumbers
        <5> QED
          BY <1>1, <2>2, <5>1, <5>2 DEF Handled
      <4>4. PICK m \in cl.d[1] + 1 .. L + 1 : Gone(cl, front, m)
        BY <1>7, <2>2, <4>3
      <4>5. m \in Nat /\ m \in cl.d[1] + 1 .. x
        <5> HIDE DEF L
        <5> QED
          BY <1>6, <2>2, <4>3, <4>4
      <4> QED
        BY <1>4, <3>1, <4>4, <4>5
    <3> QED
      BY <3>4, <3>5
  <2> QED
    BY <2>1, <2>2
<1> HIDE DEF next
<1>9. EvsSkips(h, next)
  BY <1>3, <1>8 DEF EvsSkips
<1> QED
  BY <1>9 DEF h, next

------------------------------------------------------------------------------
(* A pass over the queue of events. *)

Clients == [c : Int, d : Seq(Nat), a : SUBSET Nat]
Noted == [ev : 1 .. MaxEvents, ts : Nat, stage : 0 .. 2]
Passes == [q : Seq(Noted), cl : Clients, stop : BOOLEAN]

LEMMA ReceiveType ==
  ASSUME base \in Nat, NEW cl \in Clients, NEW e \in Nat, NEW last, NEW got
  PROVE  Evs!Receive(cl, e, last, got) \in Clients
<1>1. Evs!counter(e) \in Int
  BY DEF Evs!counter, Evs!COUNTER_MASK
<1>2. Append(cl.d, e) \in Seq(Nat) /\ cl.d \in Seq(Nat) /\ cl.c \in Int
  BY DEF Clients
<1>3. (IF last THEN cl.a \cup {e} ELSE cl.a) \in SUBSET Nat
  BY DEF Clients
<1> DEFINE arrived == IF last THEN cl.a \cup {e} ELSE cl.a
<1>4. /\ [c |-> cl.c, d |-> cl.d, a |-> arrived] \in Clients
      /\ [c |-> Evs!counter(e), d |-> Append(cl.d, e), a |-> arrived] \in Clients
  <2> HIDE DEF arrived
  <2> QED
    BY <1>1, <1>2, <1>3 DEF Clients, arrived
<1>5. Evs!Handle(cl, e, last) \in Clients
  BY <1>4, Zenon DEF Evs!Handle
<1> QED
  BY <1>5, Zenon DEF Evs!Receive

\* What becomes of one event of the queue.
Kept(acc, e, v) ==
  v.q = Append(acc.q, e) /\ v.cl = acc.cl

Advanced(acc, e, got, v) ==
  /\ v.q = Append(acc.q, [ev |-> e.ev, ts |-> e.ts + SECOND_DELAY, stage |-> 1])
  /\ v.cl = Evs!Receive(acc.cl, e.ev, FALSE, got) /\ ~ v.stop

Finished(acc, e, got, v) ==
  /\ v.q = IF acc.q = <<>> THEN acc.q ELSE Append(acc.q, [e EXCEPT !.stage = 2])
  /\ v.cl = Evs!Receive(acc.cl, e.ev, TRUE, got) /\ ~ v.stop

Visited(acc, e, got, v) ==
  \/ Kept(acc, e, v) /\ (acc.stop \/ v.stop \/ now < e.ts) /\ (acc.stop => v.stop)
  \/ ~ acc.stop /\ now >= e.ts /\ e.stage = 0 /\ Advanced(acc, e, got, v)
  \/ ~ acc.stop /\ now >= e.ts /\ e.stage = 1 /\ Finished(acc, e, got, v)

LEMMA VisitIs ==
  ASSUME EvsNumbers, base \in Nat, now \in Nat, NEW acc \in Passes, NEW e \in Entry,
         NEW refuse \in BOOLEAN, NEW got
  PROVE  /\ Evs!Visit(acc, e, refuse, got) \in Passes
         /\ Visited(acc, e, got, Evs!Visit(acc, e, refuse, got))
<1> DEFINE v == Evs!Visit(acc, e, refuse, got)
<1>1. /\ acc.q \in Seq(Noted) /\ acc.cl \in Clients /\ acc.stop \in BOOLEAN
      /\ e \in Noted /\ e.ev \in Nat /\ e.ts \in Nat /\ e.stage \in {0, 1}
  BY DEF Passes, Entry, Noted
<1>2. Append(acc.q, e) \in Seq(Noted)
  BY <1>1
<1>3. CASE acc.stop \/ now < e.ts
  <2>1. v = [acc EXCEPT !.q = Append(acc.q, e)]
    BY <1>1, <1>3 DEF Evs!Visit
  <2> HIDE DEF v
  <2>2. v \in Passes /\ v.q = Append(acc.q, e) /\ v.cl = acc.cl /\ v.stop = acc.stop
    BY <1>1, <1>2, <2>1 DEF Passes
  <2> QED
    BY <1>3, <2>2 DEF Visited, Kept, v
<1>4. CASE ~ acc.stop /\ now >= e.ts /\ refuse
  <2>1. v = [q |-> Append(acc.q, e), cl |-> acc.cl, stop |-> TRUE]
    BY <1>1, <1>4 DEF Evs!Visit
  <2> HIDE DEF v
  <2>2. v \in Passes /\ v.q = Append(acc.q, e) /\ v.cl = acc.cl /\ v.stop
    BY <1>1, <1>2, <2>1 DEF Passes
  <2> QED
    BY <1>4, <2>2 DEF Visited, Kept, v
<1>5. CASE ~ acc.stop /\ now >= e.ts /\ ~ refuse /\ e.stage = 0
  <2> DEFINE x == [ev |-> e.ev, ts |-> e.ts + SECOND_DELAY, stage |-> 1]
             heard == Evs!Receive(acc.cl, e.ev, FALSE, got)
  <2>1. v = [q |-> Append(acc.q, x), cl |-> Evs!Receive(acc.cl, e.ev, e.stage = 1, got), stop |-> FALSE]
    BY <1>1, <1>5 DEF Evs!Visit
  <2>2. (e.stage = 1) = FALSE
    BY <1>5
  <2>3. v = [q |-> Append(acc.q, x), cl |-> heard, stop |-> FALSE]
    BY <2>1, <2>2, Zenon
  <2>4. x \in Noted /\ heard \in Clients
    <3>1. x \in Noted
      BY <1>1 DEF Noted, Entry, EvsNumbers
    <3>2. heard \in Clients
      BY <1>1, ReceiveType
    <3> QED
      BY <3>1, <3>2
  <2> HIDE DEF v, x, heard
  <2>5. v \in Passes /\ v.q = Append(acc.q, x) /\ v.cl = heard /\ ~ v.stop
    BY <1>1, <2>3, <2>4 DEF Passes
  <2> QED
    BY <1>5, <2>5 DEF Visited, Advanced, v, x, heard
<1>6. CASE ~ acc.stop /\ now >= e.ts /\ ~ refuse /\ e.stage = 1
  <2> DEFINE x == [e EXCEPT !.stage = 2]
             q == IF acc.q = <<>> THEN acc.q ELSE Append(acc.q, x)
             heard == Evs!Receive(acc.cl, e.ev, TRUE, got)
  <2>1. v = [q |-> q, cl |-> Evs!Receive(acc.cl, e.ev, e.stage = 1, got), stop |-> FALSE]
    BY <1>1, <1>6 DEF Evs!Visit
  <2>2. (e.stage = 1) = TRUE
    BY <1>6
  <2>3. v = [q |-> q, cl |-> heard, stop |-> FALSE]
    BY <2>1, <2>2, Zenon
  <2>4. x \in Noted /\ heard \in Clients
    <3>1. x \in Noted
      BY <1>1 DEF Noted, Entry
    <3>2. heard \in Clients
      BY <1>1, ReceiveType
    <3> QED
      BY <3>1, <3>2
  <2> HIDE DEF v, x, heard
  <2>5. q \in Seq(Noted)
    BY <1>1, <2>4
  <2> HIDE DEF q
  <2>6. v \in Passes /\ v.q = q /\ v.cl = heard /\ ~ v.stop
    BY <1>1, <2>3, <2>4, <2>5 DEF Passes
  <2> QED
    BY <1>6, <2>6 DEF Visited, Finished, v, x, heard, q
<1> QED
  BY <1>1, <1>3, <1>4, <1>5, <1>6 DEF EvsNumbers

\* The recursive definition of a pass, as equations.
PassesBy(f, got, n) ==
  /\ f[0] = [q |-> <<>>, cl |-> Evs!Client, stop |-> FALSE]
  /\ \A i \in 1 .. n : f[i - 1] \in Passes /\ f[i] \in Passes /\ Visited(f[i - 1], queue[i], got, f[i])

\* A pass goes along the queue.
LEMMA PassIs ==
  ASSUME EvsNumbers, base \in Nat, now \in Nat, queue \in Seq(Entry), Evs!Client \in Clients,
         NEW stop, NEW got
  PROVE  \E f : PassesBy(f, got, Len(queue)) /\ Evs!Pass(stop, got) = f[Len(queue)]
<1> DEFINE n == Len(queue)
           z == [q |-> <<>>, cl |-> Evs!Client, stop |-> FALSE]
           V(x, k) == Evs!Visit(x, queue[k], k = stop, got)
           R(g) == g = [k \in 0 .. n |-> IF k = 0 THEN z ELSE V(g[k - 1], k)]
           f == CHOOSE g : R(g)
<1>1. n \in Nat /\ \A k \in 1 .. n : queue[k] \in Entry
  OBVIOUS
<1>2. \A k \in 1 .. n : \A x \in Passes : V(x, k) \in Passes /\ Visited(x, queue[k], got, V(x, k))
  <2> SUFFICES ASSUME NEW k \in 1 .. n, NEW x \in Passes
               PROVE  V(x, k) \in Passes /\ Visited(x, queue[k], got, V(x, k))
    OBVIOUS
  <2> DEFINE refuse == k = stop
  <2>1. refuse \in BOOLEAN
    OBVIOUS
  <2> HIDE DEF refuse
  <2>2. /\ Evs!Visit(x, queue[k], refuse, got) \in Passes
        /\ Visited(x, queue[k], got, Evs!Visit(x, queue[k], refuse, got))
    BY <1>1, <2>1, VisitIs
  <2> QED
    BY <2>2 DEF refuse
<1> HIDE DEF V
<1>3. z \in Passes
  BY DEF Passes
<1> HIDE DEF z
<1>4. \E g \in [0 .. n -> Passes] : R(g)
  <2> DEFINE step == [k \in 1 .. n |-> [x \in Passes |-> V(x, k)]]
  <2>1. step \in [1 .. n -> [Passes -> Passes]]
    BY <1>2, Zenon
  <2>2. \A k \in 1 .. n : \A x \in Passes : step[k][x] = V(x, k)
    BY Zenon
  <2> HIDE DEF step
  <2>4. PICK g \in [0 .. n -> Passes] : Recurs(g, z, step, n)
    BY <1>1, <1>3, <2>1, Recursion
  <2>5. g[0] = z /\ \A k \in 1 .. n : g[k] = V(g[k - 1], k)
    <3>1. \A k \in 1 .. n : k - 1 \in 0 .. n
      BY <1>1
    <3>2. g[0] = z /\ \A k \in 1 .. n : g[k] = step[k][g[k - 1]]
      BY <2>4 DEF Recurs
    <3>3. \A k \in 1 .. n : g[k - 1] \in Passes
      BY <2>4, <3>1
    <3> QED
      BY <2>2, <3>2, <3>3
  <2>6. \A k \in 0 .. n : k = 0 \/ k \in 1 .. n
    BY <1>1
  <2>7. g = [k \in 0 .. n |-> g[k]]
    BY <2>4
  <2>8. R(g)
    <3> DEFINE h(k) == IF k = 0 THEN z ELSE V(g[k - 1], k)
    <3>1. \A k \in 0 .. n : g[k] = h(k)
      BY <1>1, <2>5, <2>6
    <3> HIDE DEF h
    <3>2. g = [k \in 0 .. n |-> h(k)]
      BY <2>7, <3>1
    <3> QED
      BY <3>2 DEF h
  <2> QED
    BY <2>8
<1>5. R(f)
  BY <1>4, Zenon
<1>6. Evs!Pass(stop, got) = f[n]
  BY DEF Evs!Pass, V, z
<1> HIDE DEF f
<1>7. PassesBy(f, got, n)
  <2>1. 0 \in 0 .. n /\ \A k \in 1 .. n : k \in 0 .. n /\ k # 0 /\ k - 1 \in 0 .. n
    BY <1>1
  <2>2. f[0] = z
    BY <1>5, <2>1
  <2>3. \A k \in 1 .. n : f[k] = V(f[k - 1], k)
    BY <1>5, <2>1
  <2>4. \A k \in Nat : k \in {j \in Nat : j <= n => f[j] \in Passes}
    <3> DEFINE S == {j \in Nat : j <= n => f[j] \in Passes}
    <3>1. 0 \in S
      BY <1>3, <2>2
    <3>2. ASSUME NEW j \in Nat, j \in S
          PROVE  j + 1 \in S
      <4> SUFFICES ASSUME j + 1 <= n
                   PROVE  f[j + 1] \in Passes
        BY <3>2
      <4>1. j + 1 \in 1 .. n /\ (j + 1) - 1 = j /\ f[j] \in Passes
        BY <1>1, <3>2
      <4>2. f[j + 1] = V(f[j], j + 1)
        BY <2>3, <4>1
      <4> QED
        BY <1>2, <4>1, <4>2
    <3> HIDE DEF S
    <3>3. \A j \in Nat : j \in S
      BY <3>1, <3>2, SetInduction
    <3> QED
      BY <3>3 DEF S
  <2>5. \A k \in 1 .. n : f[k - 1] \in Passes /\ f[k] \in Passes
    <3>1. \A k \in 1 .. n : k \in Nat /\ k - 1 \in Nat /\ k - 1 <= n /\ k <= n
      BY <1>1
    <3> QED
      BY <2>4, <3>1
  <2> QED
    BY <1>2, <2>2, <2>3, <2>5 DEF PassesBy, z
<1> QED
  BY <1>6, <1>7

LEMMA ReceiveKeepsOrder ==
  ASSUME EvsNumbers, base \in Nat, NEW top \in Nat, NEW cl, EvsClient(cl, top),
         NEW e \in 1 .. top, top - QueueCap < e, NEW last, NEW got
  PROVE  EvsClient(Evs!Receive(cl, e, last, got), top)
<1>1. EvsClient(Evs!Handle(cl, e, last), top)
  BY HandleKeepsOrder
<1> QED
  BY <1>1, Zenon DEF Evs!Receive

LEMMA ReceiveKeepsSkips ==
  ASSUME EvsNumbers, base \in Nat, NEW top \in Nat, NEW cl,
         EvsClient(cl, top), NEW front \in 1 .. top + 1, top - QueueCap < front,
         top - front < Evs!AHEAD,
         EvsSkips(cl, front), NEW e \in front .. top, NEW last \in BOOLEAN, last => e = front,
         NEW got
  PROVE  EvsSkips(Evs!Receive(cl, e, last, got), IF last THEN front + 1 ELSE front)
<1> DEFINE next == IF last THEN front + 1 ELSE front
<1>1. EvsSkips(Evs!Handle(cl, e, last), next)
  BY HandleKeepsSkips
<1>2. front \in Nat /\ next \in Nat /\ front <= next
  OBVIOUS
<1> HIDE DEF next
<1>3. EvsSkips(cl, next)
  BY <1>2, SkipsLater
<1>4. EvsSkips(Evs!Receive(cl, e, last, got), next)
  BY <1>1, <1>3, Zenon DEF Evs!Receive
<1> QED
  BY <1>4 DEF next

(***************************************************************************)
(* After i events of the queue, of which the first d are finished.  Until  *)
(* an event is refused nothing is left that is due, so the events behind   *)
(* one that is not due are not due for their last copy either: no holes.   *)
(***************************************************************************)
PassQueue(acc, i, d) ==
  /\ d \in 0 .. i /\ acc.q \in Seq(Entry) /\ Len(acc.q) = i - d
  /\ \A j \in 1 .. i - d :
       /\ acc.q[j].ev = queue[d + j].ev /\ Second(acc.q[j]) = Second(queue[d + j])
       /\ queue[d + j].stage <= acc.q[j].stage
  /\ \A j, k \in 1 .. i - d : j < k => acc.q[k].stage <= acc.q[j].stage
  /\ ~ acc.stop =>
       \A j \in 1 .. i - d : /\ acc.q[j].stage = 0 => now < acc.q[j].ts
                             /\ queue[d + j].stage = 1 => now < queue[d + j].ts

PassClient(acc, d) ==
  /\ EvsClient(acc.cl, sent)
  /\ ~ burst => EvsSkips(acc.cl, Oldest + d)

\* One more event.
LEMMA VisitKeeps ==
  ASSUME EvsNumbers, EvsState, EvsQueue(queue), ~ burst => Len(queue) <= Evs!AHEAD, NEW got,
         NEW i \in 0 .. Len(queue) - 1, NEW acc \in Passes, NEW v \in Passes,
         NEW d, PassQueue(acc, i, d), PassClient(acc, d),
         Visited(acc, queue[i + 1], got, v)
  PROVE  \E b : PassQueue(v, i + 1, b) /\ PassClient(v, b)
<1> DEFINE n == Len(queue)
           e == queue[i + 1]
           m == i - d
<1>1. /\ n \in Nat /\ i + 1 \in 1 .. n /\ e \in Entry /\ d \in Nat /\ m \in Nat /\ d + m = i
      /\ now \in Nat /\ sent \in Nat /\ base \in Nat /\ SECOND_DELAY \in Nat
  <2>1. queue \in Seq(Entry)
    BY DEF EvsQueue
  <2>2. n \in Nat
    BY ONLY <2>1
  <2>3. d \in 0 .. i /\ i \in 0 .. n - 1
    BY DEF PassQueue
  <2>4. now \in Nat /\ sent \in Nat /\ base \in Nat /\ SECOND_DELAY \in Nat
    BY DEF EvsState, EvsNumbers
  <2> HIDE DEF n
  <2>5. i + 1 \in 1 .. n /\ d \in Nat /\ m \in Nat /\ d + m = i
    BY ONLY <2>2, <2>3
  <2>6. e \in Entry
    BY ONLY <2>1, <2>5 DEF n
  <2> QED
    BY ONLY <2>2, <2>4, <2>5, <2>6
<1>2. /\ e.ev = Oldest + i /\ e.ev \in 1 .. sent /\ sent - QueueCap < e.ev /\ e.ts \in Nat /\ e.stage \in {0, 1}
      /\ Oldest \in 1 .. sent + 1 /\ Oldest + d \in 1 .. sent + 1 /\ sent - QueueCap < Oldest + d
      /\ e.ev \in Oldest + d .. sent
  <2>1. e.ev = sent - n + (i + 1) /\ n <= QueueCap /\ n <= sent /\ QueueCap \in Nat
    BY <1>1 DEF EvsQueue, EvsNumbers, Evs!BEHIND
  <2>2. e.ts \in Nat /\ e.stage \in {0, 1}
    BY <1>1 DEF Entry
  <2>3. Oldest = sent - n + 1
    BY DEF Oldest
  <2> HIDE DEF e, n
  <2> QED
    BY <1>1, <2>1, <2>2, <2>3
<1>a. ASSUME ~ burst
      PROVE  sent - (Oldest + d) < Evs!AHEAD
  <2>1. n <= Evs!AHEAD /\ Oldest = sent - n + 1
    BY <1>a DEF Oldest
  <2> HIDE DEF n
  <2> QED
    BY <1>1, <2>1 DEF Evs!AHEAD
<1>3. \A j \in 1 .. m : /\ d + j \in 1 .. n /\ d + j < i + 1 /\ queue[d + j] \in Entry
                        /\ e.stage <= queue[d + j].stage /\ Second(queue[d + j]) <= Second(e)
  <2> SUFFICES ASSUME NEW j \in 1 .. m
               PROVE  /\ d + j \in 1 .. n /\ d + j < i + 1 /\ queue[d + j] \in Entry
                      /\ e.stage <= queue[d + j].stage /\ Second(queue[d + j]) <= Second(e)
    OBVIOUS
  <2> DEFINE k == d + j
  <2>1. k \in 1 .. n /\ k < i + 1
    BY <1>1
  <2> HIDE DEF k
  <2>2. queue[k] \in Entry /\ e.stage <= queue[k].stage /\ Second(queue[k]) <= Second(e)
    BY <1>1, <2>1 DEF EvsQueue
  <2> QED
    BY <2>1, <2>2 DEF k
<1>4. acc.q \in Seq(Entry) /\ Len(acc.q) = m /\ \A j \in 1 .. m : acc.q[j] \in Entry
  BY <1>1 DEF PassQueue
\* The event stays, as x.
<1>5. ASSUME NEW x \in Entry, v.q = Append(acc.q, x), x.ev = e.ev, Second(x) = Second(e),
             e.stage <= x.stage, \A j \in 1 .. m : x.stage <= acc.q[j].stage,
             acc.stop => v.stop,
             ~ v.stop => (x.stage = 0 => now < x.ts) /\ (e.stage = 1 => now < e.ts)
      PROVE  PassQueue(v, i + 1, d)
  <2>1. /\ v.q \in Seq(Entry) /\ Len(v.q) = m + 1 /\ v.q[m + 1] = x
        /\ \A j \in 1 .. m : v.q[j] = acc.q[j]
    BY <1>1, <1>4, <1>5, SMTT(30)
  <2>2. i + 1 - d = m + 1 /\ d + (m + 1) = i + 1 /\ \A j \in 1 .. m + 1 : j \in 1 .. m \/ j = m + 1
    BY <1>1
  <2>3. d \in 0 .. i + 1
    BY <1>1 DEF PassQueue
  <2> HIDE DEF e, m
  <2>4. \A j \in 1 .. m + 1 :
          /\ v.q[j].ev = queue[d + j].ev /\ Second(v.q[j]) = Second(queue[d + j])
          /\ queue[d + j].stage <= v.q[j].stage
    BY <1>5, <2>1, <2>2 DEF PassQueue, m, e
  <2>5. \A j, k \in 1 .. m + 1 : j < k => v.q[k].stage <= v.q[j].stage
    <3> SUFFICES ASSUME NEW j \in 1 .. m + 1, NEW k \in 1 .. m + 1, j < k
                 PROVE  v.q[k].stage <= v.q[j].stage
      OBVIOUS
    <3>1. j \in 1 .. m
      BY <1>1
    <3>2. CASE k = m + 1
      BY <1>5, <2>1, <3>1, <3>2
    <3>3. CASE k \in 1 .. m
      BY <2>1, <3>1, <3>3 DEF PassQueue, m
    <3> QED
      BY <2>2, <3>2, <3>3
  <2>6. ASSUME ~ v.stop, NEW j \in 1 .. m + 1
        PROVE  /\ v.q[j].stage = 0 => now < v.q[j].ts
               /\ queue[d + j].stage = 1 => now < queue[d + j].ts
    <3>1. CASE j = m + 1
      BY <1>5, <2>1, <2>2, <2>6, <3>1 DEF e
    <3>2. CASE j \in 1 .. m
      BY <1>5, <2>1, <2>6, <3>2 DEF PassQueue, m
    <3> QED
      BY <2>2, <3>1, <3>2
  <2>7. Len(v.q) = i + 1 - d /\ 1 .. i + 1 - d = 1 .. m + 1
    BY <2>1, <2>2
  <2>8. /\ \A j \in 1 .. i + 1 - d :
             /\ v.q[j].ev = queue[d + j].ev /\ Second(v.q[j]) = Second(queue[d + j])
             /\ queue[d + j].stage <= v.q[j].stage
        /\ \A j, k \in 1 .. i + 1 - d : j < k => v.q[k].stage <= v.q[j].stage
    BY <2>4, <2>5, <2>7
  <2>9. ~ v.stop =>
          \A j \in 1 .. i + 1 - d : /\ v.q[j].stage = 0 => now < v.q[j].ts
                                    /\ queue[d + j].stage = 1 => now < queue[d + j].ts
    BY <2>6, <2>7
  <2> QED
    BY <2>1, <2>3, <2>7, <2>8, <2>9 DEF PassQueue
<1>6. CASE Kept(acc, e, v) /\ (acc.stop \/ v.stop \/ now < e.ts) /\ (acc.stop => v.stop)
  <2>1. \A j \in 1 .. m : e.stage <= acc.q[j].stage
    <3> SUFFICES ASSUME NEW j \in 1 .. m
                 PROVE  e.stage <= acc.q[j].stage
      OBVIOUS
    <3>1. queue[d + j].stage <= acc.q[j].stage
      BY DEF PassQueue
    <3>2. queue[d + j].stage \in Int /\ acc.q[j].stage \in Int /\ e.stage <= queue[d + j].stage
      BY <1>3, <1>4, SMTT(30) DEF Entry
    <3> HIDE DEF e
    <3> QED
      BY <1>2, <3>1, <3>2
  <2>2. e.stage <= e.stage
    BY <1>2
  <2>3. PassQueue(v, i + 1, d)
    <3> HIDE DEF e, m
    <3> QED
      BY <1>1, <1>5, <1>6, <2>1, <2>2 DEF Kept
  <2>4. PassClient(v, d)
    BY <1>6 DEF PassClient, Kept
  <2> QED
    BY <2>3, <2>4
<1>7. CASE ~ acc.stop /\ now >= e.ts /\ e.stage = 0 /\ Advanced(acc, e, got, v)
  <2> DEFINE x == [ev |-> e.ev, ts |-> e.ts + SECOND_DELAY, stage |-> 1]
  <2>1. /\ x \in Entry /\ x.ev = e.ev /\ x.stage = 1 /\ v.q = Append(acc.q, x) /\ ~ v.stop
        /\ v.cl = Evs!Receive(acc.cl, e.ev, FALSE, got)
    <3>1. x \in Entry
      BY <1>1 DEF Entry
    <3> QED
      BY <1>7, <3>1 DEF Advanced
  <2>2. Second(x) = Second(e)
    <3>0. x.stage = 1 /\ x.ts = e.ts + SECOND_DELAY
      OBVIOUS
    <3> HIDE DEF e, x
    <3>1. Second(x) = x.ts - SECOND_DELAY /\ Second(e) = e.ts
      <4>1. e.stage = 0
        BY <1>7
      <4> QED
        BY <3>0, <4>1 DEF Second
    <3> QED
      BY <1>1, <1>2, <3>0, <3>1
  <2>3. \A j \in 1 .. m : acc.q[j].stage = 1
    <3> SUFFICES ASSUME NEW j \in 1 .. m, acc.q[j].stage # 1
                 PROVE  FALSE
      OBVIOUS
    <3>1. acc.q[j].stage = 0 /\ acc.q[j].ts \in Nat /\ now < acc.q[j].ts
      <4>1. acc.q[j] \in Entry
        BY <1>4
      <4>2. acc.q[j].stage = 0 /\ acc.q[j].ts \in Nat
        BY <4>1 DEF Entry
      <4> QED
        BY <1>7, <4>2 DEF PassQueue
    <3>2. Second(acc.q[j]) = acc.q[j].ts /\ Second(e) = e.ts
      BY <1>7, <3>1 DEF Second
    <3>3. Second(acc.q[j]) = Second(queue[d + j])
      BY DEF PassQueue
    <3> QED
      <4>1. Second(queue[d + j]) <= Second(e)
        BY <1>3
      <4> HIDE DEF e
      <4> QED
        BY <1>1, <1>2, <1>7, <3>1, <3>2, <3>3, <4>1
  <2> HIDE DEF x
  <2>4. PassQueue(v, i + 1, d)
    <3>1. e.stage <= x.stage /\ (\A j \in 1 .. m : x.stage <= acc.q[j].stage) /\ x.stage # 0 /\ e.stage # 1
      BY <1>7, <2>1, <2>3
    <3> HIDE DEF e, m
    <3> QED
      BY <1>5, <1>7, <2>1, <2>2, <3>1
  <2>5. PassClient(v, d)
    <3>1. EvsClient(v.cl, sent)
      <4> HIDE DEF e
      <4> QED
        BY <1>1, <1>2, <2>1, ReceiveKeepsOrder DEF PassClient
    <3>2. ASSUME ~ burst
          PROVE  EvsSkips(v.cl, Oldest + d)
      <4> DEFINE front == Oldest + d
      <4>1. EvsSkips(acc.cl, front) /\ EvsClient(acc.cl, sent)
        BY <3>2 DEF PassClient
      <4>2. front \in 1 .. sent + 1 /\ sent - QueueCap < front /\ e.ev \in front .. sent
        BY <1>2
      <4>a. sent - front < Evs!AHEAD
        BY <1>a, <3>2
      <4> HIDE DEF e, front
      <4>3. EvsSkips(Evs!Receive(acc.cl, e.ev, FALSE, got), IF FALSE THEN front + 1 ELSE front)
        BY <1>1, <4>1, <4>2, <4>a, ReceiveKeepsSkips
      <4> QED
        BY <2>1, <4>3 DEF front
    <3> QED
      BY <3>1, <3>2 DEF PassClient
  <2> QED
    BY <2>4, <2>5
<1>8. CASE ~ acc.stop /\ now >= e.ts /\ e.stage = 1 /\ Finished(acc, e, got, v)
  <2>1. m = 0
    <3> SUFFICES ASSUME m # 0
                 PROVE  FALSE
      OBVIOUS
    <3>1. 1 \in 1 .. m
      BY <1>1
    <3> DEFINE y == queue[d + 1]
    <3>2. y \in Entry /\ e.stage <= y.stage /\ Second(y) <= Second(e)
      BY <1>3, <3>1
    <3>3. y.stage = 1 /\ y.ts \in Nat
      BY <1>8, <3>2 DEF Entry
    <3>4. now < y.ts
      BY <1>8, <3>1, <3>3 DEF PassQueue
    <3>5. Second(y) = y.ts - SECOND_DELAY /\ Second(e) = e.ts - SECOND_DELAY
      BY <1>8, <3>3 DEF Second
    <3> HIDE DEF y
    <3> QED
      BY <1>1, <1>2, <1>8, <3>2, <3>3, <3>4, <3>5, SMTT(30)
  <2>2. acc.q = <<>> /\ d = i
    <3>1. Len(acc.q) = 0
      BY <1>4, <2>1
    <3>2. acc.q = <<>>
      BY <1>4, <3>1, EmptySeq
    <3> QED
      BY <1>1, <2>1, <3>2
  <2>3. v.q = <<>> /\ v.cl = Evs!Receive(acc.cl, e.ev, TRUE, got)
    BY <1>8, <2>2 DEF Finished
  <2>4. PassQueue(v, i + 1, i + 1)
    <3>1. i + 1 \in 0 .. i + 1 /\ i + 1 - (i + 1) = 0 /\ v.q \in Seq(Entry) /\ Len(v.q) = 0
      BY <1>1, <2>3
    <3> QED
      BY <3>1 DEF PassQueue
  <2>5. PassClient(v, i + 1)
    <3>1. EvsClient(v.cl, sent)
      <4> HIDE DEF e
      <4> QED
        BY <1>1, <1>2, <2>3, ReceiveKeepsOrder DEF PassClient
    <3>2. ASSUME ~ burst
          PROVE  EvsSkips(v.cl, Oldest + (i + 1))
      <4> DEFINE front == Oldest + d
      <4>1. EvsSkips(acc.cl, front) /\ EvsClient(acc.cl, sent)
        BY <3>2 DEF PassClient
      <4>2. /\ front \in 1 .. sent + 1 /\ sent - QueueCap < front /\ e.ev \in front .. sent
            /\ e.ev = front /\ Oldest + (i + 1) = front + 1
        BY <1>1, <1>2, <2>2
      <4>a. sent - front < Evs!AHEAD
        BY <1>a, <3>2
      <4> HIDE DEF e, front
      <4>3. EvsSkips(Evs!Receive(acc.cl, e.ev, TRUE, got), IF TRUE THEN front + 1 ELSE front)
        BY <1>1, <4>1, <4>2, <4>a, ReceiveKeepsSkips
      <4> QED
        BY <2>3, <4>2, <4>3
    <3> QED
      BY <3>1, <3>2 DEF PassClient
  <2> QED
    BY <2>4, <2>5
<1> QED
  BY <1>6, <1>7, <1>8 DEF Visited

\* A pass leaves the queue and the client in order.
LEMMA PassKeeps ==
  ASSUME EvsNumbers, EvsInv, NEW stop, NEW got
  PROVE  \E d \in 0 .. Len(queue) :
           LET r == Evs!Pass(stop, got) IN PassQueue(r, Len(queue), d) /\ PassClient(r, d)
<1> DEFINE n == Len(queue)
<1>1. n \in Nat /\ base \in Nat /\ now \in Nat /\ queue \in Seq(Entry)
  BY DEF EvsInv, EvsState, EvsQueue, EvsNumbers
<1>2. Evs!Client \in Clients
  <2>1. Evs!Client = [c |-> _event_counter, d |-> delivered, a |-> lastArrived]
    BY DEF Evs!Client
  <2>2. EvsClient(Evs!Client, sent) /\ sent \in Nat
    BY DEF EvsInv, EvsState, EvsNumbers
  <2>3. /\ Evs!Client.c = _event_counter /\ Evs!Client.d = delivered
        /\ Evs!Client.a = lastArrived
    BY <2>1
  <2>4. delivered \in Seq(1 .. sent) /\ lastArrived \subseteq Nat
    BY <2>2, <2>3 DEF EvsClient
  <2>5. _event_counter \in Int
    <3>1. CASE delivered = <<>>
      BY <2>2, <2>3, <3>1 DEF EvsClient
    <3>2. CASE delivered # <<>>
      <4>1. delivered[Len(delivered)] \in Nat
        BY <2>2, <2>4, <3>2
      <4> QED
        BY <1>1, <2>2, <2>3, <3>2, <4>1 DEF EvsClient, Evs!counter, Evs!COUNTER_MASK
    <3> QED
      BY <3>1, <3>2
  <2>6. delivered \in Seq(Nat)
    BY <2>2, <2>4
  <2> QED
    BY <2>1, <2>4, <2>5, <2>6 DEF Clients
<1>3. PICK f : PassesBy(f, got, n) /\ Evs!Pass(stop, got) = f[n]
  BY <1>1, <1>2, PassIs
<1> DEFINE S == {i \in Nat : i <= n => \E d : PassQueue(f[i], i, d) /\ PassClient(f[i], d)}
<1>4. 0 \in S
  <2>1. f[0] = [q |-> <<>>, cl |-> Evs!Client, stop |-> FALSE]
    BY <1>3 DEF PassesBy
  <2>2. f[0].q = <<>> /\ f[0].cl = Evs!Client
    BY <2>1
  <2>3. PassQueue(f[0], 0, 0)
    BY <2>2 DEF PassQueue
  <2>4. Oldest \in Nat /\ Oldest + 0 = Oldest
    BY DEF Oldest, EvsInv, EvsState, EvsQueue, EvsNumbers
  <2>5. PassClient(f[0], 0)
    BY <2>2, <2>4 DEF PassClient, EvsInv
  <2> QED
    BY <2>3, <2>5
<1>5. ASSUME NEW i \in Nat, i \in S
      PROVE  i + 1 \in S
  <2> SUFFICES ASSUME i + 1 <= n
               PROVE  \E d : PassQueue(f[i + 1], i + 1, d) /\ PassClient(f[i + 1], d)
    BY <1>5
  <2>1. i \in 0 .. n - 1 /\ i + 1 \in 1 .. n /\ (i + 1) - 1 = i /\ i <= n
    BY <1>1
  <2>2. PICK d : PassQueue(f[i], i, d) /\ PassClient(f[i], d)
    BY <1>5, <2>1
  <2>3. f[i] \in Passes /\ f[i + 1] \in Passes /\ Visited(f[i], queue[i + 1], got, f[i + 1])
    BY <1>3, <2>1 DEF PassesBy
  <2> DEFINE acc == f[i]
             v == f[i + 1]
  <2>4. acc \in Passes /\ v \in Passes /\ Visited(acc, queue[i + 1], got, v) /\ PassQueue(acc, i, d) /\ PassClient(acc, d)
    BY <2>2, <2>3
  <2> HIDE DEF acc, v
  <2>5. \E b : PassQueue(v, i + 1, b) /\ PassClient(v, b)
    BY <2>1, <2>4, VisitKeeps DEF EvsInv
  <2> QED
    BY <2>5 DEF v
<1> HIDE DEF S
<1>6. n \in S
  BY <1>1, <1>4, <1>5, SetInduction
<1>7. PICK d : PassQueue(f[n], n, d) /\ PassClient(f[n], d)
  BY <1>1, <1>6 DEF S
<1>8. d \in 0 .. n
  BY <1>7 DEF PassQueue
<1> QED
  BY <1>3, <1>7, <1>8

\* A pass of the main loop over the queue.
LEMMA EvsProcess ==
  ASSUME EvsNumbers, EvsInv, Evs!ProcessQueue
  PROVE  EvsInv'
<1>1. PICK stop \in 1 .. Len(queue) + 1, got \in SUBSET {queue[i].ev : i \in DOMAIN queue} :
        queue' = Evs!Pass(stop, got).q /\ Evs!ClientIs(Evs!Pass(stop, got).cl)
  BY DEF Evs!ProcessQueue
<1> DEFINE r == Evs!Pass(stop, got)
           n == Len(queue)
<1>2. UNCHANGED <<base, now, sent, device, burst>>
  BY DEF Evs!ProcessQueue
<1>3. PICK d \in 0 .. n : PassQueue(r, n, d) /\ PassClient(r, d)
  BY PassKeeps
<1>4. queue' = r.q /\ Evs!ClientIs(r.cl)
  BY <1>1
<1> HIDE DEF r
<1>5. /\ n \in Nat /\ sent \in Nat /\ queue \in Seq(Entry) /\ n <= QueueCap /\ n <= sent
      /\ QueueCap \in Nat /\ FIRST_DELAY \in Nat /\ now \in Nat
  <2>1. sent \in Nat /\ now \in Nat
    BY DEF EvsInv, EvsState
  <2>2. n \in Nat /\ queue \in Seq(Entry) /\ n <= QueueCap /\ n <= sent
    BY DEF EvsInv, EvsQueue
  <2>3. QueueCap \in Nat /\ FIRST_DELAY \in Nat
    BY DEF EvsNumbers, Evs!BEHIND
  <2> QED
    BY <2>1, <2>2, <2>3
<1>6. /\ queue' \in Seq(Entry) /\ Len(queue') = n - d
      /\ \A j \in 1 .. n - d :
           /\ queue'[j].ev = queue[d + j].ev /\ Second(queue'[j]) = Second(queue[d + j])
      /\ \A j, k \in 1 .. n - d : j < k => queue'[k].stage <= queue'[j].stage
  BY <1>3, <1>4 DEF PassQueue
<1>7. \A j \in 1 .. n - d : /\ d + j \in 1 .. n /\ queue[d + j].ev = sent - n + (d + j)
                            /\ Second(queue[d + j]) <= now + FIRST_DELAY
  <2>1. \A k \in 1 .. n : queue[k].ev = sent - n + k /\ Second(queue[k]) <= now + FIRST_DELAY
    BY DEF EvsInv, EvsQueue
  <2>2. \A j \in 1 .. n - d : d + j \in 1 .. n
    BY <1>5
  <2> QED
    BY <2>1, <2>2
<1>8. \A j, k \in 1 .. n - d : j < k => Second(queue[d + j]) <= Second(queue[d + k])
  <2>1. \A j, k \in 1 .. n : j < k => Second(queue[j]) <= Second(queue[k])
    BY DEF EvsInv, EvsQueue
  <2>2. \A j, k \in 1 .. n - d : j < k => d + j < d + k
    BY <1>5
  <2> QED
    BY <1>7, <2>1, <2>2
<1>9. EvsQueue(queue)'
  <2>1. Len(queue') <= QueueCap /\ Len(queue') <= sent /\ Len(queue') = n - d
    BY <1>5, <1>6
  <2>2. \A j \in 1 .. n - d : queue'[j].ev = sent - (n - d) + j /\ Second(queue'[j]) <= now + FIRST_DELAY
    <3> SUFFICES ASSUME NEW j \in 1 .. n - d
                 PROVE  queue'[j].ev = sent - (n - d) + j /\ Second(queue'[j]) <= now + FIRST_DELAY
      OBVIOUS
    <3>1. queue'[j].ev = sent - n + (d + j) /\ Second(queue'[j]) <= now + FIRST_DELAY
      BY <1>6, <1>7
    <3> HIDE DEF n
    <3> QED
      BY <1>5, <3>1
  <2>3. \A j, k \in 1 .. n - d : j < k => queue'[k].stage <= queue'[j].stage /\ Second(queue'[j]) <= Second(queue'[k])
    BY <1>6, <1>8
  <2> HIDE DEF n
  <2>4. /\ \A j \in 1 .. Len(queue') : queue'[j].ev = sent - Len(queue') + j /\ Second(queue'[j]) <= now + FIRST_DELAY
        /\ \A j, k \in 1 .. Len(queue') :
             j < k => queue'[k].stage <= queue'[j].stage /\ Second(queue'[j]) <= Second(queue'[k])
    BY <2>1, <2>2, <2>3
  <2> QED
    BY <1>2, <1>6, <2>1, <2>4 DEF EvsQueue, Second
<1>10. /\ Evs!Client'.c = r.cl.c /\ Evs!Client'.d = r.cl.d /\ Evs!Client'.a = r.cl.a
  BY <1>4 DEF Evs!Client, Evs!ClientIs
<1>11. EvsClient(Evs!Client, sent)'
  BY <1>2, <1>3, <1>10 DEF PassClient, EvsClient, Evs!counter
<1>12. ASSUME ~ burst
       PROVE  Len(queue') <= Evs!AHEAD /\ EvsSkips(Evs!Client, Oldest)'
  <2>0. Len(queue') <= Evs!AHEAD
    <3>1. n <= Evs!AHEAD
      BY <1>12 DEF EvsInv
    <3> HIDE DEF n
    <3> QED
      BY <1>5, <1>6, <3>1 DEF Evs!AHEAD
  <2>1. EvsSkips(r.cl, Oldest + d)
    BY <1>3, <1>12 DEF PassClient
  <2>2. Oldest' = Oldest + d
    BY <1>2, <1>5, <1>6 DEF Oldest
  <2> QED
    BY <1>10, <2>0, <2>1, <2>2 DEF EvsSkips, Skipped, Gone
<1> QED
  BY <1>2, <1>9, <1>11, <1>12 DEF EvsInv, EvsState

\* An event is sent: the queue may lose its oldest one, the new one is the last.
LEMMA EvsSend ==
  ASSUME EvsNumbers, EvsInv, Evs!SendEvent
  PROVE  EvsInv'
<1> DEFINE n == Len(queue)
           x == [ev |-> sent + 1, ts |-> now + FIRST_DELAY, stage |-> 0]
           cut == IF n = QueueCap THEN 1 ELSE 0
           kept == IF n = QueueCap THEN Tail(queue) ELSE queue
           m == n - cut
<1>1. /\ n \in Nat /\ sent \in Nat /\ sent + 1 <= MaxEvents /\ now \in Nat /\ base \in Nat
      /\ queue \in Seq(Entry) /\ n <= QueueCap /\ n <= sent
      /\ QueueCap \in Nat \ {0} /\ FIRST_DELAY \in Nat /\ MaxEvents \in Nat
  BY DEF EvsInv, EvsState, EvsQueue, EvsNumbers, Evs!BEHIND, Evs!SendEvent
<1>2. UNCHANGED <<base, now, device>> /\ sent' = sent + 1 /\ queue' = Append(kept, x)
  BY DEF Evs!SendEvent
<1>3. /\ kept \in Seq(Entry) /\ Len(kept) = m /\ m \in Nat /\ m < QueueCap /\ m <= sent
      /\ \A j \in 1 .. m : cut + j \in 1 .. n /\ kept[j] = queue[cut + j]
  <2>1. CASE n = QueueCap
    <3>1. queue # <<>> /\ cut = 1
      BY <1>1, <2>1
    <3>2. Tail(queue) \in Seq(Entry) /\ Len(Tail(queue)) = n - 1 /\ \A j \in 1 .. n - 1 : Tail(queue)[j] = queue[j + 1]
      BY <1>1, <3>1
    <3> QED
      BY <1>1, <2>1, <3>1, <3>2
  <2>2. CASE n # QueueCap
    BY <1>1, <2>2
  <2> QED
    BY <2>1, <2>2
<1>4. cut \in {0, 1} /\ n = m + cut
  BY <1>1
<1>5. x \in Entry /\ x.ev = sent + 1 /\ x.stage = 0 /\ Second(x) = now + FIRST_DELAY
  <2>1. x \in Entry
    BY <1>1, SMTT(30) DEF Entry
  <2>2. x.ev = sent + 1 /\ x.stage = 0 /\ x.ts = now + FIRST_DELAY
    OBVIOUS
  <2> QED
    BY <2>1, <2>2 DEF Second
<1>6. \A k \in 1 .. n :
        queue[k] \in Entry /\ queue[k].ev = sent - n + k /\ Second(queue[k]) <= now + FIRST_DELAY
  BY <1>1 DEF EvsInv, EvsQueue
<1>7. \A j, k \in 1 .. n : j < k => queue[k].stage <= queue[j].stage /\ Second(queue[j]) <= Second(queue[k])
  BY DEF EvsInv, EvsQueue
<1> HIDE DEF x, kept, cut, m
<1>8. /\ queue' \in Seq(Entry) /\ Len(queue') = m + 1 /\ queue'[m + 1] = x
      /\ \A j \in 1 .. m : queue'[j] = queue[cut + j]
  BY <1>2, <1>3, <1>5
<1>9. EvsQueue(queue)'
  <2>1. \A j \in 1 .. m + 1 : j \in 1 .. m \/ j = m + 1
    BY <1>3
  <2>2. \A j \in 1 .. m + 1 : queue'[j].ev = (sent + 1) - (m + 1) + j /\ Second(queue'[j]) <= now + FIRST_DELAY
    <3> SUFFICES ASSUME NEW j \in 1 .. m + 1
                 PROVE  queue'[j].ev = (sent + 1) - (m + 1) + j /\ Second(queue'[j]) <= now + FIRST_DELAY
      OBVIOUS
    <3>1. CASE j = m + 1
      BY <1>1, <1>3, <1>5, <1>8, <3>1
    <3>2. CASE j \in 1 .. m
      <4>1. cut + j \in 1 .. n /\ queue'[j] = queue[cut + j]
        BY <1>3, <1>8, <3>2
      <4>2. queue'[j].ev = sent - n + (cut + j) /\ Second(queue'[j]) <= now + FIRST_DELAY
        BY <1>6, <4>1
      <4> HIDE DEF n
      <4> QED
        BY <1>1, <1>3, <1>4, <3>2, <4>2
    <3> QED
      BY <2>1, <3>1, <3>2
  <2>3. \A j, k \in 1 .. m + 1 :
          j < k => queue'[k].stage <= queue'[j].stage /\ Second(queue'[j]) <= Second(queue'[k])
    <3> SUFFICES ASSUME NEW j \in 1 .. m + 1, NEW k \in 1 .. m + 1, j < k
                 PROVE  queue'[k].stage <= queue'[j].stage /\ Second(queue'[j]) <= Second(queue'[k])
      OBVIOUS
    <3>1. j \in 1 .. m
      BY <1>3
    <3>2. cut + j \in 1 .. n /\ queue'[j] = queue[cut + j]
      BY <1>3, <1>8, <3>1
    <3>3. CASE k = m + 1
      <4>1. queue'[j].stage \in 0 .. 1 /\ Second(queue'[j]) <= now + FIRST_DELAY
        BY <1>6, <3>2 DEF Entry
      <4> QED
        BY <1>5, <1>8, <3>3, <4>1
    <3>4. CASE k \in 1 .. m
      <4>1. cut + k \in 1 .. n /\ queue'[k] = queue[cut + k] /\ cut + j < cut + k
        BY <1>3, <1>4, <1>8, <3>4
      <4> QED
        BY <1>7, <3>2, <4>1
    <3> QED
      BY <2>1, <3>3, <3>4
  <2>4. Len(queue') <= QueueCap /\ Len(queue') <= sent + 1
    BY <1>1, <1>3, <1>8
  <2> HIDE DEF n
  <2>5. /\ \A j \in 1 .. Len(queue') : queue'[j].ev = (sent + 1) - Len(queue') + j /\ Second(queue'[j]) <= now + FIRST_DELAY
        /\ \A j, k \in 1 .. Len(queue') :
             j < k => queue'[k].stage <= queue'[j].stage /\ Second(queue'[j]) <= Second(queue'[k])
    BY <1>8, <2>2, <2>3
  <2> QED
    BY <1>2, <1>8, <2>4, <2>5 DEF EvsQueue, Second
<1> DEFINE top == sent + 1
           front == Oldest + cut
<1>10. top \in Nat /\ top \in 1 .. top /\ top - QueueCap < top
  BY <1>1
<1>11. EvsClient(Evs!Client, top)
  <2>1. EvsClient(Evs!Client, sent)
    BY DEF EvsInv
  <2>2. 1 .. sent \subseteq 1 .. top
    BY <1>1
  <2>3. Evs!Client.d \in Seq(1 .. top)
    <3> DEFINE d == Evs!Client.d
               S == 1 .. sent
               T == 1 .. top
    <3>1. d \in Seq(S) /\ S \subseteq T
      BY <2>1, <2>2 DEF EvsClient
    <3> HIDE DEF d, S, T
    <3>2. d \in Seq(T)
      BY <3>1, SeqWider
    <3> QED
      BY <3>2 DEF d, T
  <2> QED
    BY <2>1, <2>3 DEF EvsClient
<1>12. PICK got \in SUBSET {sent + 1} : Evs!ClientIs(Evs!Receive(Evs!Client, sent + 1, FALSE, got))
  BY DEF Evs!SendEvent
<1> DEFINE r == Evs!Receive(Evs!Client, top, FALSE, got)
<1>13. /\ Evs!Client'.c = r.c /\ Evs!Client'.d = r.d /\ Evs!Client'.a = r.a
  BY <1>12 DEF Evs!Client, Evs!ClientIs
<1>14. EvsClient(r, top)
  <2> HIDE DEF top
  <2> QED
    BY <1>1, <1>10, <1>11, ReceiveKeepsOrder
<1>15. EvsClient(Evs!Client, sent)'
  <2> HIDE DEF r
  <2> QED
    BY <1>2, <1>13, <1>14 DEF EvsClient, Evs!counter
<1>a. burst' = (burst \/ Len(queue') > Evs!AHEAD)
  BY DEF Evs!SendEvent
<1>b. Len(queue') \in Nat
  BY <1>3, <1>8
<1>16. ASSUME ~ burst'
       PROVE  Len(queue') <= Evs!AHEAD /\ EvsSkips(Evs!Client, Oldest)'
  <2>a. ~ burst /\ Len(queue') <= Evs!AHEAD
    <3>1. ~ burst /\ ~ (Len(queue') > Evs!AHEAD)
      BY ONLY <1>16, <1>a, Zenon
    <3>2. Len(queue') <= Evs!AHEAD
      BY ONLY <1>b, <3>1 DEF Evs!AHEAD
    <3> QED
      BY ONLY <3>1, <3>2
  <2>1. Oldest \in Nat /\ front \in Nat /\ Oldest <= front /\ front \in 1 .. top + 1
        /\ top - QueueCap < front /\ top \in front .. top /\ top - front = Len(queue') - 1
    <3>1. Oldest = sent - n + 1
      BY DEF Oldest
    <3> HIDE DEF n
    <3> QED
      BY <1>1, <1>3, <1>4, <1>8, <3>1
  <2>b. top - front < Evs!AHEAD
    BY <1>b, <2>1, <2>a DEF Evs!AHEAD
  <2>2. Oldest' = front
    <3>1. Oldest = sent - n + 1
      BY DEF Oldest
    <3>2. Oldest' = sent' - Len(queue') + 1
      BY DEF Oldest
    <3>3. /\ sent' = sent + 1 /\ Len(queue') = m + 1
      BY <1>2, <1>8
    <3>4. cut \in {0, 1}
      BY <1>4
    <3> HIDE DEF n, cut
    <3> QED
      BY ONLY <1>1, <1>3, <1>4, <3>1, <3>2, <3>3, <3>4
  <2> HIDE DEF top, front
  <2>3. EvsSkips(Evs!Client, front)
    <3>1. EvsSkips(Evs!Client, Oldest)
      BY <2>a DEF EvsInv
    <3> DEFINE F == Oldest
    <3>2. F \in Nat /\ F <= front /\ EvsSkips(Evs!Client, F)
      BY <2>1, <3>1
    <3> HIDE DEF F
    <3> QED
      BY <2>1, <3>2, SkipsLater
  <2>4. EvsSkips(r, IF FALSE THEN front + 1 ELSE front)
    BY <1>1, <1>10, <1>11, <2>1, <2>b, <2>3, ReceiveKeepsSkips
  <2> HIDE DEF r
  <2>5. EvsSkips(r, front)
    BY <2>4
  <2> QED
    BY <1>13, <2>2, <2>5, <2>a DEF EvsSkips, Skipped, Gone
<1>17. EvsState'
  BY <1>1, <1>2, <1>a DEF EvsInv, EvsState
<1> QED
  BY <1>9, <1>15, <1>16, <1>17 DEF EvsInv

\* Every step keeps the invariant; time, and the client's forgetting and finding the
\* device, leave the queue alone.
LEMMA EvsStep == EvsNumbers /\ EvsInv /\ [Evs!Next]_(Evs!vars) => EvsInv'
<1> SUFFICES ASSUME EvsNumbers, EvsInv, [Evs!Next]_(Evs!vars)
             PROVE  EvsInv'
  OBVIOUS
<1>1. CASE Evs!SendEvent
  BY <1>1, EvsSend
<1>2. CASE Evs!ProcessQueue
  BY <1>2, EvsProcess
<1>3. now \in Nat /\ sent \in Nat /\ FIRST_DELAY \in Nat /\ MaxTime \in Nat
  BY DEF EvsInv, EvsState, EvsNumbers
<1>4. ASSUME UNCHANGED <<base, sent, queue>>, now' \in 0 .. MaxTime, now <= now', device' \in BOOLEAN,
             EvsClient(Evs!Client, sent)', burst' \in BOOLEAN,
             ~ burst' => Len(queue) <= Evs!AHEAD, ~ burst' => EvsSkips(Evs!Client, Oldest)'
      PROVE  EvsInv'
  <2>1. \A i \in 1 .. Len(queue) : Second(queue[i]) \in Int /\ Second(queue[i]) <= now + FIRST_DELAY
    <3> SUFFICES ASSUME NEW i \in 1 .. Len(queue)
                 PROVE  Second(queue[i]) \in Int /\ Second(queue[i]) <= now + FIRST_DELAY
      OBVIOUS
    <3>1. queue[i] \in Entry /\ Second(queue[i]) <= now + FIRST_DELAY
      BY DEF EvsInv, EvsQueue
    <3>2. queue[i].ts \in Nat /\ SECOND_DELAY \in Nat
      BY <3>1 DEF Entry, EvsNumbers
    <3> QED
      BY <3>1, <3>2 DEF Second
  <2>2. \A i \in 1 .. Len(queue) : Second(queue[i]) <= now' + FIRST_DELAY
    BY <1>3, <1>4, <2>1
  <2>3. EvsQueue(queue)'
    BY <1>4, <2>2 DEF EvsInv, EvsQueue, Second
  <2> QED
    BY <1>4, <2>3 DEF EvsInv, EvsState
<1>5. ASSUME UNCHANGED <<base, sent, queue, _event_counter, delivered, lastArrived, burst>>
      PROVE  /\ EvsClient(Evs!Client, sent)' /\ burst' \in BOOLEAN
             /\ ~ burst' => Len(queue) <= Evs!AHEAD
             /\ ~ burst' => EvsSkips(Evs!Client, Oldest)'
  BY <1>5 DEF EvsInv, EvsState, EvsClient, Evs!counter, Evs!Client, EvsSkips, Skipped, Gone, Oldest
<1>6. CASE Evs!Tick
  BY <1>3, <1>4, <1>5, <1>6 DEF Evs!Tick, EvsInv, EvsState
<1>7. CASE Evs!Expire
  <2>1. /\ UNCHANGED <<base, sent, queue, _event_counter, delivered, lastArrived, burst, now>>
        /\ device' = FALSE
    BY <1>7 DEF Evs!Expire
  <2>2. now' \in 0 .. MaxTime /\ now <= now'
    BY <1>3, <2>1 DEF EvsInv, EvsState
  <2>3. device' \in BOOLEAN
    BY <2>1
  <2> QED
    BY <1>4, <1>5, <2>1, <2>2, <2>3
<1>8. CASE Evs!Announce
  <2>1. UNCHANGED <<base, sent, queue, now>> /\ device' = TRUE /\ burst' = (Len(queue) > Evs!AHEAD)
    BY <1>8 DEF Evs!Announce
  <2>a. burst' \in BOOLEAN /\ (~ burst' => Len(queue) <= Evs!AHEAD)
    <3>1. Len(queue) \in Nat
      BY DEF EvsInv, EvsQueue
    <3> DEFINE more == Len(queue) > Evs!AHEAD
    <3>2. more \in BOOLEAN /\ (~ more => Len(queue) <= Evs!AHEAD)
      BY ONLY <3>1 DEF Evs!AHEAD
    <3>3. burst' = more
      BY <2>1
    <3> HIDE DEF more
    <3> QED
      BY ONLY <3>2, <3>3, Zenon
  <2>2. Evs!Client'.c = 255 /\ Evs!Client'.d = <<>> /\ Evs!Client'.a = {}
    BY <1>8 DEF Evs!Announce, Evs!Client
  <2>3. EvsClient(Evs!Client, sent)'
    BY <2>2 DEF EvsClient, Increasing
  <2>4. EvsSkips(Evs!Client, Oldest)'
    BY <2>2 DEF EvsSkips, Skipped
  <2> QED
    BY <1>3, <1>4, <2>1, <2>3, <2>4, <2>a DEF EvsInv, EvsState
<1>9. CASE UNCHANGED Evs!vars
  BY <1>3, <1>4, <1>5, <1>9 DEF Evs!vars, EvsInv, EvsState
<1> QED
  BY <1>1, <1>2, <1>6, <1>7, <1>8, <1>9 DEF Evs!Next

\* It holds at the start, when nothing was sent.
LEMMA EvsInitially == EvsNumbers /\ Evs!Init => EvsInv
<1> SUFFICES ASSUME EvsNumbers, Evs!Init
             PROVE  EvsInv
  OBVIOUS
<1>1. EvsState
  <2>1. burst \in BOOLEAN /\ device \in BOOLEAN
    BY Zenon DEF Evs!Init
  <2>2. base \in Bases /\ now \in 0 .. MaxTime /\ sent \in 0 .. MaxEvents
    BY DEF Evs!Init, EvsNumbers
  <2> QED
    BY ONLY <2>1, <2>2 DEF EvsState
<1>2. EvsQueue(queue)
  BY DEF Evs!Init, EvsQueue, EvsNumbers
<1>3. Evs!Client.c = 255 /\ Evs!Client.d = <<>> /\ Evs!Client.a = {}
  BY DEF Evs!Init, Evs!Client
<1>4. EvsClient(Evs!Client, sent) /\ EvsSkips(Evs!Client, Oldest)
  BY <1>3 DEF EvsClient, Increasing, EvsSkips, Skipped
<1>5. Len(queue) <= Evs!AHEAD
  BY DEF Evs!Init, Evs!AHEAD
<1> QED
  BY <1>1, <1>2, <1>4, <1>5 DEF EvsInv

\* What the invariant says of types, order and holes.
LEMMA EvsOrder ==
  ASSUME EvsNumbers, EvsInv
  PROVE  Evs!TypeOK /\ Evs!OnceInOrder /\ Evs!NoHoles
<1>1. /\ Evs!Client.c = _event_counter /\ Evs!Client.d = delivered
      /\ Evs!Client.a = lastArrived
  BY DEF Evs!Client
<1>2. sent \in 0 .. MaxEvents /\ MaxEvents \in Nat /\ base \in Nat
  BY DEF EvsInv, EvsState, EvsNumbers
<1>3. /\ delivered \in Seq(1 .. sent) /\ Increasing(delivered)
      /\ _event_counter = IF delivered = <<>> THEN 255 ELSE Evs!counter(delivered[Len(delivered)])
  BY <1>1 DEF EvsInv, EvsClient
<1>4. delivered \in Seq(1 .. MaxEvents)
  <2> DEFINE S == 1 .. sent
             T == 1 .. MaxEvents
  <2>1. delivered \in Seq(S) /\ S \subseteq T
    BY <1>2, <1>3
  <2> HIDE DEF S, T
  <2>2. delivered \in Seq(T)
    BY <2>1, SeqWider
  <2> QED
    BY <2>2 DEF T
<1>5. _event_counter \in 0 .. 127 \cup {255}
  <2>1. CASE delivered # <<>>
    <3> DEFINE e == delivered[Len(delivered)]
    <3>1. Len(delivered) \in 1 .. Len(delivered)
      BY <1>3, <2>1
    <3>2. _event_counter = Evs!counter(e)
      BY <1>3, <2>1
    <3>3. e \in 1 .. sent
      <4> DEFINE S == 1 .. sent
                 d == delivered
                 n == Len(delivered)
      <4>1. d \in Seq(S) /\ n \in 1 .. Len(d)
        BY <1>3, <3>1
      <4> HIDE DEF S, d, n
      <4>2. d[n] \in S
        BY <4>1
      <4> QED
        BY <4>2 DEF S, d, n
    <3> HIDE DEF e
    <3> QED
      BY <1>2, <3>2, <3>3 DEF Evs!counter, Evs!COUNTER_MASK
  <2>2. CASE delivered = <<>>
    BY <1>3, <2>2
  <2> QED
    BY <2>1, <2>2
<1>6. queue \in Seq(Entry) /\ Len(queue) <= QueueCap
  BY DEF EvsInv, EvsQueue
<1>7. queue \in Seq([ev : 1 .. MaxEvents, ts : Nat, stage : 0 .. 2])
  <2> DEFINE T == [ev : 1 .. MaxEvents, ts : Nat, stage : 0 .. 2]
  <2>1. Entry \subseteq T
    BY DEF Entry
  <2> HIDE DEF T
  <2>2. queue \in Seq(T)
    BY <1>6, <2>1, SeqWider
  <2> QED
    BY <2>2 DEF T
<1>8. Evs!TypeOK
  BY <1>4, <1>5, <1>6, <1>7 DEF Evs!TypeOK, Evs!COUNTER_MASK, EvsInv, EvsState
<1>9. Evs!OnceInOrder
  BY <1>3, <1>4 DEF Evs!OnceInOrder, Increasing
<1>10. Evs!NoHoles
  <2>1. \A i \in 1 .. Len(queue) : queue[i] \in Entry
    BY <1>6
  <2>2. \A x \in Entry : x.stage \in 0 .. 1
    BY DEF Entry
  <2> QED
    BY <2>1, <2>2 DEF Evs!NoHoles
<1> QED
  BY <1>8, <1>9, <1>10

(***************************************************************************)
(* With a queue of fewer than BEHIND events: an event is handled at most   *)
(* once, events are handled in the order they were sent, and the queue     *)
(* never has a hole, whatever is lost and whenever jd_send refuses         *)
(* (event_queue.c, jd_client_handle_packet).                               *)
(***************************************************************************)
THEOREM EventsOnceInOrder ==
  EvsNumbers => (Evs!Spec => [](Evs!TypeOK /\ Evs!OnceInOrder /\ Evs!NoHoles))
<1> SUFFICES ASSUME EvsNumbers
             PROVE  Evs!Spec => [](Evs!TypeOK /\ Evs!OnceInOrder /\ Evs!NoHoles)
  OBVIOUS
<1>1. Evs!Init => EvsInv
  BY EvsInitially
<1>2. EvsInv /\ [Evs!Next]_(Evs!vars) => EvsInv'
  BY EvsStep
<1>3. EvsInv => Evs!TypeOK /\ Evs!OnceInOrder /\ Evs!NoHoles
  BY EvsOrder
<1> QED
  BY <1>1, <1>2, <1>3, PTL DEF Evs!Spec

(***************************************************************************)
(* And if the last copies of the events since the first one handled        *)
(* arrive, all of them are handled, whatever was lost before, as long as   *)
(* no more than AHEAD events waited in the queue at once.  Nothing is      *)
(* assumed of the room in the queue but that it is less than BEHIND; the   *)
(* code's has room for 16 (event_queue.c, jd_client_handle_packet).        *)
(***************************************************************************)
THEOREM EventsAreDelivered ==
  EvsNumbers => (Evs!Spec => []Evs!EventsDelivered)
<1> SUFFICES ASSUME EvsNumbers
             PROVE  Evs!Spec => []Evs!EventsDelivered
  OBVIOUS
<1>1. Evs!Init => EvsInv
  BY EvsInitially
<1>2. EvsInv /\ [Evs!Next]_(Evs!vars) => EvsInv'
  BY EvsStep
<1>3. EvsInv => Evs!EventsDelivered
  <2> SUFFICES ASSUME EvsInv
               PROVE  Evs!LastCopiesSuffice
    BY EvsOrder DEF Evs!EventsDelivered
  <2> SUFFICES ASSUME ~ burst, delivered # <<>>, NEW e \in delivered[1] .. MaxEvents,
                      delivered[1] + 1 .. e \subseteq lastArrived,
                      \A i \in 1 .. Len(delivered) : delivered[i] # e
               PROVE  FALSE
    BY DEF Evs!LastCopiesSuffice, Evs!Contains
  <2>1. /\ Evs!Client.d = delivered /\ Evs!Client.a = lastArrived
    BY DEF Evs!Client
  <2>2. sent \in Nat /\ delivered \in Seq(1 .. sent) /\ MaxEvents \in Nat
    BY <2>1 DEF EvsInv, EvsClient, EvsState, EvsNumbers
  <2>3. 1 \in 1 .. Len(delivered) /\ delivered[1] \in Nat /\ e # delivered[1]
    BY <2>2
  <2>4. e \in Nat /\ delivered[1] < e /\ e \in lastArrived
    BY <2>2, <2>3
  <2>5. Skipped(Evs!Client, e)
    BY <2>1, <2>4 DEF Skipped
  <2>6. PICK m \in delivered[1] + 1 .. e : m \notin lastArrived
    BY <2>1, <2>4, <2>5 DEF EvsInv, EvsSkips, Gone
  <2> QED
    BY <2>6
<1> QED
  BY <1>1, <1>2, <1>3, PTL DEF Evs!Spec

=============================================================================
