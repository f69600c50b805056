--------------------------- MODULE JdPipe_proofs ---------------------------
(***************************************************************************)
(* Proofs about pipes, for every size of a frame below the number of       *)
(* counters, every number of retries and every bus.                        *)
(*                                                                         *)
(* A counter tells packets apart modulo CounterMod only, so neither        *)
(* property is inductive: that the receiver takes the right packet, and    *)
(* the sender the right acknowledgement, depends on which frames can still *)
(* be on their way.  Session says it: of the current port there are copies *)
(* of two frames only, the one before the last acknowledgement and the one *)
(* the sender holds, in this order along the whole way from the sender to  *)
(* the receiver and, as acknowledgements, back.                            *)
(***************************************************************************)
EXTENDS JdPipe, SequenceFacts

\* The packets of the stream w from position a + 1 to b, as Push numbers them.
Stretch(w, a, b) ==
  [j \in 1 .. b - a |-> [c |-> (a + j - 1) % CounterMod, k |-> w[a + j], i |-> a + j]]

\* The frame, if any, with these packets for the port p, and its acknowledgement.
FrameOf(p, w, a, b) == [port |-> p, pkts |-> Stretch(w, a, b)]
Frames(p, w, a, b) == {f \in {FrameOf(p, w, a, b)} : a < b}
Acks(p, w, a, b) == {crc(f) : f \in Frames(p, w, a, b)}

\* The stream of the current port, and how much of it is handled.
stream == written[oport]
W == Len(stream)
D == Len(delivered[oport])

\* What the messages m of a channel q with the port p can be.
None(q, B) == \A j \in 1 .. Len(q) : q[j] \notin B
All(q, p, B) == \A j \in 1 .. Len(q) : q[j].port = p => q[j] \in B
Others(A, B, p) == \A m \in A : m.port = p /\ m \notin B
Below(q, p) == \A j \in 1 .. Len(q) : q[j].port <= p

\* They are old ones, of A, before new ones, of B.
Ordered(q, p, A, B) ==
  /\ All(q, p, A \cup B)
  /\ \A j, k \in 1 .. Len(q) : j < k /\ q[j] \in B /\ q[k].port = p => q[k] \in B

\* The last frame that was acknowledged is (o, s], the one the sender holds (s, W].
Window(o, s) ==
  /\ o \in Nat /\ s \in Nat /\ o <= s /\ s <= W
  /\ s - o <= FrameCap /\ W - s <= FrameCap
  /\ ostatus # "FREE" => oframe = Stretch(stream, s, W) /\ ocounter = W % CounterMod

\* No new frame or acknowledgement exists before the frame is sent, and once the
\* new one is acknowledged no old frame is left.
FramesInv(o, s) ==
  /\ Ordered(toReceiver, oport, Frames(oport, stream, o, s), Frames(oport, stream, s, W))
  /\ curr_retry = 0 /\ ostatus # "FREE" => None(toReceiver, Frames(oport, stream, s, W))
AcksInv(o, s) ==
  /\ Ordered(toSender, oport, Acks(oport, stream, o, s), Acks(oport, stream, s, W))
  /\ curr_retry = 0 /\ ostatus # "FREE" => None(toSender, Acks(oport, stream, s, W))
  /\ None(toSender, Acks(oport, stream, s, W)) \/ All(toReceiver, oport, Frames(oport, stream, s, W))

\* Where the receiver will be once it has gone through the frame it handles:
\* what is left of it is the packets it expects next, or packets it has had.
Reaches(e) ==
  IF handling.port = oport /\ handling.pkts # <<>>
  THEN \E a, b \in 0 .. W :
         /\ a < b /\ handling.pkts = Stretch(stream, a, b)
         /\ \/ a = D /\ b = e
            \/ D = e /\ b <= D /\ D - a < CounterMod
  ELSE D = e

\* The receiver has had the old frame, and the new one if it acknowledged it.
ReceiverInv(o, s, e) ==
  oport \notin abandoned =>
    /\ e \in {s, W}
    /\ Reaches(e)
    /\ curr_retry = 0 /\ ostatus # "FREE" => e = s
    /\ None(toReceiver, Frames(oport, stream, o, s)) \/ e = s
    /\ None(toSender, Acks(oport, stream, s, W)) \/ e = W
    /\ iport # oport => D = W /\ W # 0 /\ stream[W] = "close"

Session(o, s, e) == Window(o, s) /\ FramesInv(o, s) /\ AcksInv(o, s) /\ ReceiverInv(o, s, e)
SessionInv == oport # 0 => \E o, s, e \in Nat : Session(o, s, e)

\* Nothing follows the closing packet.
CloseIsLast ==
  \A p \in Ports : \A i \in 1 .. Len(written[p]) :
    written[p][i] = "close" =>
      /\ i = Len(written[p])
      /\ p = oport => ostatus \notin {"OPEN", "CLOSED_UNSENT"}

\* The sender's states, and what is being sent in each.
StatusInv ==
  /\ ostatus = "FREE" => curr_retry = 0 /\ oframe = <<>>
  /\ ostatus # "FREE" => oport # 0
  /\ ostatus \in {"CLOSED_UNSENT", "CLOSED_WAITING"} => curr_retry # 0
  /\ curr_retry # 0 => oframe # <<>>
  /\ CloseIsLast
  /\ ostatus = "CLOSED_WAITING" => W # 0 /\ stream[W] = "close"

\* A port is used once: those after the sender's are untouched, those before it
\* are the receiver's no more.
PortInv ==
  /\ iport = 0 \/ oport <= iport
  /\ iport <= ports /\ oport <= ports /\ abandoned \subseteq 1 .. ports
  /\ iport \notin abandoned
  /\ iport # 0 => icounter = Len(delivered[iport]) % CounterMod
  /\ \A p \in Ports : p > oport => written[p] = <<>> /\ delivered[p] = <<>>
  /\ handling.port <= oport
  /\ Below(toReceiver, oport) /\ Below(toSender, oport)

\* Types that TypeOK leaves open.
HistoryType ==
  /\ written \in [Ports -> Seq(Kinds)]
  /\ delivered \in [Ports -> Seq(Nat \X Kinds)]
  /\ toSender \in Seq({crc(f) : f \in Frame})

IInv == /\ HistoryType
        /\ ExactlyOnceInOrder
        /\ StatusInv
        /\ PortInv
        /\ SessionInv

------------------------------------------------------------------------------
(* Stretches of a stream. *)

\* What the constants are.
LEMMA Sizes ==
  /\ CounterMod \in Nat \ {0} /\ FrameCap \in Nat \ {0} /\ FrameCap < CounterMod
  /\ MAX_RETRIES \in Nat \ {0} /\ MaxPorts \in Nat \ {0}
  /\ MaxPackets \in Nat \ {0} /\ MaxTransit \in Nat \ {0}
  BY ConstantsAssumption

\* t holds the packets of w from position a + 1 to b.
Packets(t, w, a, b) ==
  /\ t \in Seq(Packet)
  /\ Len(t) = b - a
  /\ \A j \in 1 .. b - a : t[j] = [c |-> (a + j - 1) % CounterMod, k |-> w[a + j], i |-> a + j]

\* A stretch is a sequence of packets, one for each position.
LEMMA StretchType ==
  ASSUME NEW w \in Seq(Kinds), NEW a \in Nat, NEW b \in Nat, a <= b, b <= Len(w)
  PROVE  Packets(Stretch(w, a, b), w, a, b)
<1> DEFINE pk(j) == [c |-> (a + j - 1) % CounterMod, k |-> w[a + j], i |-> a + j]
<1>1. Stretch(w, a, b) = [j \in 1 .. b - a |-> pk(j)]
  BY DEF Stretch
<1>2. ASSUME NEW j \in 1 .. b - a
      PROVE  pk(j) \in Packet
  <2>1. a + j - 1 \in Nat /\ a + j \in Nat /\ a + j \in 1 .. Len(w)
    OBVIOUS
  <2>2. (a + j - 1) % CounterMod \in 0 .. CounterMod - 1
    BY <2>1, Sizes, Division
  <2>3. w[a + j] \in Kinds
    BY <2>1
  <2> QED
    BY <2>1, <2>2, <2>3 DEF Packet
<1> HIDE DEF pk
<1>3. b - a \in Nat
  OBVIOUS
<1>4. [j \in 1 .. b - a |-> pk(j)] \in [1 .. b - a -> Packet]
  BY <1>2
<1>5. [j \in 1 .. b - a |-> pk(j)] \in Seq(Packet)
  BY <1>3, <1>4, SeqDef
<1>6. Len([j \in 1 .. b - a |-> pk(j)]) = b - a
  BY <1>3
<1> QED
  BY <1>1, <1>5, <1>6 DEF pk, Packets

\* An empty stretch.
LEMMA StretchEmpty ==
  ASSUME NEW w \in Seq(Kinds), NEW a \in Nat, a <= Len(w)
  PROVE  Stretch(w, a, a) = <<>>
<1>1. Stretch(w, a, a) \in Seq(Packet) /\ Len(Stretch(w, a, a)) = 0
  BY StretchType DEF Packets
<1> QED
  BY <1>1

\* The first packet of a stretch, and the rest.
LEMMA StretchHead ==
  ASSUME NEW w \in Seq(Kinds), NEW a \in Nat, NEW b \in Nat, a < b, b <= Len(w)
  PROVE  /\ Stretch(w, a, b) # <<>>
         /\ Head(Stretch(w, a, b)) = [c |-> a % CounterMod, k |-> w[a + 1], i |-> a + 1]
         /\ Tail(Stretch(w, a, b)) = Stretch(w, a + 1, b)
<1> DEFINE t == Stretch(w, a, b)
           u == Stretch(w, a + 1, b)
<1>a. Packets(t, w, a, b)
  BY StretchType
<1>b. Packets(u, w, a + 1, b)
  <2>1. a + 1 \in Nat /\ a + 1 <= b
    OBVIOUS
  <2> QED
    BY <2>1, StretchType
<1> HIDE DEF t, u
<1>1. /\ t \in Seq(Packet) /\ Len(t) = b - a
      /\ \A j \in 1 .. b - a :
           t[j] = [c |-> (a + j - 1) % CounterMod, k |-> w[a + j], i |-> a + j]
  BY <1>a DEF Packets
<1>2. /\ u \in Seq(Packet) /\ Len(u) = b - (a + 1)
      /\ \A j \in 1 .. b - (a + 1) :
           u[j] = [c |-> (a + 1 + j - 1) % CounterMod, k |-> w[a + 1 + j], i |-> a + 1 + j]
  BY <1>b DEF Packets
<1>3. t # <<>>
  BY <1>1
<1>4. Head(t) = t[1] /\ 1 \in 1 .. b - a /\ a + 1 - 1 = a
  BY <1>1
<1>5. Head(t) = [c |-> a % CounterMod, k |-> w[a + 1], i |-> a + 1]
  BY <1>1, <1>4
<1>6. Tail(t) = u
  <2>1. Tail(t) \in Seq(Packet) /\ Len(Tail(t)) = b - (a + 1)
    BY <1>1, <1>3, TailOfQueue
  <2>2. ASSUME NEW j \in 1 .. b - (a + 1)
        PROVE  Tail(t)[j] = u[j]
    <3>1. Tail(t)[j] = t[j + 1] /\ j + 1 \in 1 .. b - a
      BY <1>1, <1>3
    <3>2. a + (j + 1) = a + 1 + j /\ a + (j + 1) - 1 = a + 1 + j - 1
      OBVIOUS
    <3>3. t[j + 1] = [c |-> (a + (j + 1) - 1) % CounterMod, k |-> w[a + (j + 1)], i |-> a + (j + 1)]
      BY <1>1, <3>1
    <3> QED
      BY <1>2, <3>1, <3>2, <3>3
  <2> QED
    BY <1>2, <2>1, <2>2, SeqEqual
<1> QED
  BY <1>3, <1>5, <1>6 DEF t, u

\* A packet added to the stream leaves the stretches before it alone ...
LEMMA StretchStable ==
  ASSUME NEW w \in Seq(Kinds), NEW k \in Kinds, NEW a \in Nat, NEW b \in Nat, a <= b, b <= Len(w)
  PROVE  Stretch(Append(w, k), a, b) = Stretch(w, a, b)
<1>1. \A i \in 1 .. Len(w) : Append(w, k)[i] = w[i]
  BY AppendProperties
<1>2. \A j \in 1 .. b - a : Append(w, k)[a + j] = w[a + j]
  <2> SUFFICES ASSUME NEW j \in 1 .. b - a
               PROVE  Append(w, k)[a + j] = w[a + j]
    OBVIOUS
  <2>1. a + j \in 1 .. Len(w)
    OBVIOUS
  <2> QED
    BY <1>1, <2>1
<1> QED
  BY <1>2 DEF Stretch

\* ... and makes the one at the end longer.
LEMMA StretchGrows ==
  ASSUME NEW w \in Seq(Kinds), NEW k \in Kinds, NEW a \in Nat, a <= Len(w)
  PROVE  Stretch(Append(w, k), a, Len(w) + 1) =
           Append(Stretch(w, a, Len(w)), [c |-> Len(w) % CounterMod, k |-> k, i |-> Len(w) + 1])
<1> DEFINE n == Len(w)
           v == Append(w, k)
           e == [c |-> n % CounterMod, k |-> k, i |-> n + 1]
           t == Stretch(w, a, n)
           u == Stretch(v, a, n + 1)
<1>1. /\ n \in Nat /\ v \in Seq(Kinds) /\ Len(v) = n + 1 /\ v[n + 1] = k
      /\ \A i \in 1 .. n : v[i] = w[i]
  BY AppendProperties
<1>5. a <= n
  OBVIOUS
<1>a. n + 1 \in Nat /\ a <= n + 1 /\ n + 1 <= Len(v)
  BY <1>1
<1> HIDE DEF n, v
<1>b. Packets(t, w, a, n)
  <2>1. n <= Len(w)
    BY DEF n
  <2> QED
    BY <1>1, <1>5, <2>1, StretchType
<1>c. Packets(u, v, a, n + 1)
  BY <1>1, <1>a, StretchType
<1>4. e \in Packet
  <2>1. n % CounterMod \in 0 .. CounterMod - 1
    BY <1>1, Sizes, Division
  <2> QED
    BY <1>1, <2>1 DEF Packet
<1> HIDE DEF t, u, e
<1>2. /\ t \in Seq(Packet) /\ Len(t) = n - a
      /\ \A j \in 1 .. n - a :
           t[j] = [c |-> (a + j - 1) % CounterMod, k |-> w[a + j], i |-> a + j]
  BY <1>b DEF Packets
<1>3. /\ u \in Seq(Packet) /\ Len(u) = n + 1 - a
      /\ \A j \in 1 .. n + 1 - a :
           u[j] = [c |-> (a + j - 1) % CounterMod, k |-> v[a + j], i |-> a + j]
  BY <1>1, <1>c DEF Packets
<1>6. /\ Append(t, e) \in Seq(Packet) /\ Len(Append(t, e)) = n - a + 1
      /\ \A j \in 1 .. n - a : Append(t, e)[j] = t[j]
      /\ Append(t, e)[n - a + 1] = e
  BY <1>2, <1>4, AppendProperties
<1>7. ASSUME NEW j \in 1 .. n + 1 - a
      PROVE  u[j] = Append(t, e)[j]
  <2>1. CASE j <= n - a
    <3>1. j \in 1 .. n - a /\ a + j \in 1 .. n
      BY <1>1, <1>5, <2>1
    <3> QED
      BY <1>1, <1>2, <1>3, <1>6, <3>1
  <2>2. CASE ~ (j <= n - a)
    <3>a. n \in Nat
      BY <1>1
    <3>1. j = n - a + 1 /\ a + j = n + 1 /\ a + j - 1 = n
      BY <2>2, <3>a
    <3>2. u[j] = [c |-> n % CounterMod, k |-> v[n + 1], i |-> n + 1]
      BY <1>3, <3>1
    <3>3. Append(t, e)[j] = e
      BY <1>6, <3>1
    <3> QED
      BY <1>1, <3>2, <3>3 DEF e
  <2> QED
    BY <2>1, <2>2
<1>8. Len(u) = Len(Append(t, e))
  BY <1>1, <1>3, <1>5, <1>6
<1>9. u = Append(t, e)
  BY <1>1, <1>3, <1>5, <1>6, <1>7, <1>8, SeqEqual
<1> QED
  BY <1>9 DEF u, v, t, e, n

\* Two stretches that start less than CounterMod apart have different CRCs.
LEMMA CrcsDiffer ==
  ASSUME NEW w \in Seq(Kinds), NEW v \in Seq(Kinds), NEW p,
         NEW a \in Nat, NEW b \in Nat, NEW m \in Nat, NEW n \in Nat,
         a < b, b <= Len(w), m < n, n <= Len(v), a < m, m - a < CounterMod
  PROVE  /\ crc([port |-> p, pkts |-> Stretch(w, a, b)]) # crc([port |-> p, pkts |-> Stretch(v, m, n)])
         /\ [port |-> p, pkts |-> Stretch(w, a, b)] # [port |-> p, pkts |-> Stretch(v, m, n)]
<1> DEFINE t == Stretch(w, a, b)
           u == Stretch(v, m, n)
           ct == [j \in DOMAIN t |-> <<t[j].c, t[j].k>>]
           cu == [j \in DOMAIN u |-> <<u[j].c, u[j].k>>]
<1>1. t \in Seq(Packet) /\ Len(t) = b - a /\ t[1] = [c |-> a % CounterMod, k |-> w[a + 1], i |-> a + 1]
  <2>1. Packets(t, w, a, b)
    BY StretchType
  <2>2. 1 \in 1 .. b - a /\ a + 1 - 1 = a
    OBVIOUS
  <2> HIDE DEF t
  <2> QED
    BY <2>1, <2>2 DEF Packets
<1>2. u \in Seq(Packet) /\ Len(u) = n - m /\ u[1] = [c |-> m % CounterMod, k |-> v[m + 1], i |-> m + 1]
  <2>1. Packets(u, v, m, n)
    BY StretchType
  <2>2. 1 \in 1 .. n - m /\ m + 1 - 1 = m
    OBVIOUS
  <2> HIDE DEF u
  <2> QED
    BY <2>1, <2>2 DEF Packets
<1>3. a % CounterMod # m % CounterMod
  BY Sizes, RemaindersDiffer
<1> HIDE DEF t, u
<1>4. 1 \in DOMAIN t /\ 1 \in DOMAIN u
  BY <1>1, <1>2
<1>5. ct[1] = <<a % CounterMod, w[a + 1]>> /\ cu[1] = <<m % CounterMod, v[m + 1]>>
  BY <1>1, <1>2, <1>4
<1>6. ct # cu
  BY <1>3, <1>5
<1>7. t # u
  BY <1>1, <1>2, <1>3
<1> QED
  BY <1>6, <1>7 DEF crc, t, u

------------------------------------------------------------------------------
(* Channels. *)

\* The channel without its first message.
LEMMA ChannelTail ==
  ASSUME NEW S, NEW q \in Seq(S), q # <<>>, NEW p, NEW A, NEW B
  PROVE  /\ None(q, B) => None(Tail(q), B)
         /\ All(q, p, B) => All(Tail(q), p, B)
         /\ Ordered(q, p, A, B) => Ordered(Tail(q), p, A, B)
         /\ Ordered(q, p, A, B) /\ Head(q) \in B => All(Tail(q), p, B)
         /\ None(q, B) => Head(q) \notin B
         /\ All(q, p, B) /\ Head(q).port = p => Head(q) \in B
<1>1. /\ Head(q) = q[1] /\ 1 \in 1 .. Len(q)
      /\ \A j \in 1 .. Len(Tail(q)) : j + 1 \in 1 .. Len(q) /\ Tail(q)[j] = q[j + 1]
  BY TailEntries
<1>2. None(q, B) => None(Tail(q), B)
  BY <1>1 DEF None
<1>3. \A C : All(q, p, C) => All(Tail(q), p, C)
  BY <1>1 DEF All
<1>4. ASSUME Ordered(q, p, A, B)
      PROVE  Ordered(Tail(q), p, A, B)
  <2>1. All(Tail(q), p, A \cup B)
    BY <1>3, <1>4 DEF Ordered
  <2>2. ASSUME NEW j \in 1 .. Len(Tail(q)), NEW k \in 1 .. Len(Tail(q)), j < k,
               Tail(q)[j] \in B, Tail(q)[k].port = p
        PROVE  Tail(q)[k] \in B
    <3>1. /\ j + 1 \in 1 .. Len(q) /\ k + 1 \in 1 .. Len(q) /\ j + 1 < k + 1
          /\ Tail(q)[j] = q[j + 1] /\ Tail(q)[k] = q[k + 1]
      BY <1>1, <2>2
    <3> QED
      BY <1>4, <2>2, <3>1 DEF Ordered
  <2> QED
    BY <2>1, <2>2 DEF Ordered
<1>5. ASSUME Ordered(q, p, A, B), Head(q) \in B
      PROVE  All(Tail(q), p, B)
  <2>1. ASSUME NEW j \in 1 .. Len(Tail(q)), Tail(q)[j].port = p
        PROVE  Tail(q)[j] \in B
    <3>1. j + 1 \in 1 .. Len(q) /\ Tail(q)[j] = q[j + 1] /\ 1 < j + 1
      BY <1>1
    <3> QED
      BY <1>1, <1>5, <2>1, <3>1 DEF Ordered
  <2> QED
    BY <2>1 DEF All
<1>6. None(q, B) => Head(q) \notin B
  BY <1>1 DEF None
<1>7. All(q, p, B) /\ Head(q).port = p => Head(q) \in B
  BY <1>1 DEF All
<1> QED
  BY <1>2, <1>3, <1>4, <1>5, <1>6, <1>7

\* The channel with one message more.
LEMMA ChannelAppend ==
  ASSUME NEW S, NEW q \in Seq(S), NEW m \in S, NEW p, NEW A, NEW B
  PROVE  /\ None(q, B) /\ m \notin B => None(Append(q, m), B)
         /\ All(q, p, B) /\ (m.port = p => m \in B) => All(Append(q, m), p, B)
         /\ Ordered(q, p, A, B) /\ (m.port = p => m \in B) => Ordered(Append(q, m), p, A, B)
         /\ Ordered(q, p, A, B) /\ None(q, B) /\ m \in A /\ m \notin B =>
              Ordered(Append(q, m), p, A, B)
<1> DEFINE r == Append(q, m)
           n == Len(q)
<1>1. /\ n \in Nat /\ Len(r) = n + 1 /\ r[n + 1] = m
      /\ \A j \in 1 .. n : r[j] = q[j]
  BY AppendProperties
<1>2. None(q, B) <=> \A j \in 1 .. n : q[j] \notin B
  BY DEF None
<1>3. \A C : All(q, p, C) <=> \A j \in 1 .. n : q[j].port = p => q[j] \in C
  BY DEF All
<1>4. Ordered(q, p, A, B) <=>
        /\ All(q, p, A \cup B)
        /\ \A j, k \in 1 .. n : j < k /\ q[j] \in B /\ q[k].port = p => q[k] \in B
  BY DEF Ordered
<1> HIDE DEF n, r
<1>5. ASSUME NEW j \in 1 .. Len(r)
      PROVE  (j \in 1 .. n /\ r[j] = q[j]) \/ (j = n + 1 /\ r[j] = m)
  <2>1. n \in Nat /\ j \in 1 .. n + 1
    BY <1>1
  <2>2. j \in 1 .. n \/ j = n + 1
    BY <2>1
  <2> QED
    BY <1>1, <2>2
<1>6. None(q, B) /\ m \notin B => None(r, B)
  BY <1>2, <1>5 DEF None
<1>7. \A C : All(q, p, C) /\ (m.port = p => m \in C) => All(r, p, C)
  BY <1>3, <1>5 DEF All
<1>8. ASSUME Ordered(q, p, A, B), m.port = p => m \in A \cup B,
             \A j \in 1 .. n : q[j] \in B /\ m.port = p => m \in B
      PROVE  Ordered(r, p, A, B)
  <2>1. All(r, p, A \cup B)
    BY <1>4, <1>7, <1>8
  <2>2. ASSUME NEW j \in 1 .. Len(r), NEW k \in 1 .. Len(r), j < k, r[j] \in B, r[k].port = p
        PROVE  r[k] \in B
    <3>1. j \in 1 .. n /\ r[j] = q[j]
      BY <1>1, <2>2
    <3>2. CASE k \in 1 .. n /\ r[k] = q[k]
      BY <1>4, <1>8, <2>2, <3>1, <3>2
    <3>3. CASE k = n + 1 /\ r[k] = m
      BY <1>8, <2>2, <3>1, <3>3
    <3> QED
      BY <1>5, <3>2, <3>3
  <2> QED
    BY <2>1, <2>2 DEF Ordered
<1>9. Ordered(q, p, A, B) /\ (m.port = p => m \in B) => Ordered(r, p, A, B)
  BY <1>8
<1>10. Ordered(q, p, A, B) /\ None(q, B) /\ m \in A /\ m \notin B => Ordered(r, p, A, B)
  BY <1>2, <1>8
<1> QED
  BY <1>6, <1>7, <1>9, <1>10 DEF r

\* A channel with old messages only, when the new ones are others.
LEMMA OnlyOld ==
  ASSUME NEW q, NEW p, NEW A, NEW B, All(q, p, A),
         Others(B, A, p)
  PROVE  Ordered(q, p, A, B) /\ None(q, B)
  BY DEF All, None, Ordered, Others

\* Messages that are old or new, and not new, are old.
LEMMA NotNew ==
  ASSUME NEW q, NEW p, NEW A, NEW B, Ordered(q, p, A, B), None(q, B)
  PROVE  All(q, p, A)
  BY DEF All, None, Ordered

\* Where all messages are new, none is an old one.
LEMMA AllNew ==
  ASSUME NEW q, NEW p, NEW A, NEW B, All(q, p, B), Others(A, B, p)
  PROVE  None(q, A)
  BY DEF All, None, Others

\* No message of a later port is on its way.
LEMMA NoneAbove ==
  ASSUME NEW q, NEW p \in Nat, NEW r \in Nat, r < p, Below(q, r),
         \A j \in 1 .. Len(q) : q[j].port \in Nat, NEW A, NEW B, \A m \in B : m.port = p
  PROVE  All(q, p, A) /\ None(q, B) /\ Ordered(q, p, A, B)
<1>1. \A j \in 1 .. Len(q) : q[j].port # p
  BY DEF Below
<1> QED
  BY <1>1 DEF All, None, Ordered

\* The ports of a channel's messages stay below p when the first one goes ...
LEMMA BelowTail ==
  ASSUME NEW S, NEW q \in Seq(S), q # <<>>, NEW p \in Nat, Below(q, p)
  PROVE  Below(Tail(q), p) /\ Head(q).port <= p
  BY TailEntries DEF Below

\* ... one more message of a port up to p ...
LEMMA BelowAppend ==
  ASSUME NEW S, NEW q \in Seq(S), NEW m \in S, NEW p \in Nat, Below(q, p), m.port <= p
  PROVE  Below(Append(q, m), p)
  BY AppendProperties DEF Below

\* ... and p becomes larger.
LEMMA BelowGrows ==
  ASSUME NEW q, NEW p \in Nat, NEW r \in Nat, p <= r, Below(q, p),
         \A j \in 1 .. Len(q) : q[j].port \in Nat
  PROVE  Below(q, r)
  BY DEF Below

\* What Sent does to a channel.
LEMMA SentType ==
  ASSUME NEW S, NEW q \in Seq(S), NEW m \in S, Len(q) <= MaxTransit, NEW r, r \in Sent(q, m)
  PROVE  /\ r = q \/ r = Append(q, m)
         /\ r \in Seq(S) /\ Len(r) <= MaxTransit
<1>1. r = q \/ (r = Append(q, m) /\ Len(q) < MaxTransit)
  BY DEF Sent
<1>2. Append(q, m) \in Seq(S) /\ Len(Append(q, m)) = Len(q) + 1
  BY AppendProperties
<1> QED
  BY <1>1, <1>2, Sizes

------------------------------------------------------------------------------
(* Types. *)

\* The acknowledgements there can be.
AckSet == {crc(f) : f \in Frame}

\* All types in one place.
Types ==
  /\ ostatus \in Statuses /\ oport \in Ports \cup {0} /\ ocounter \in 0 .. CounterMod - 1
  /\ curr_retry \in 0 .. MAX_RETRIES + 2
  /\ oframe \in Seq(Packet) /\ Len(oframe) <= FrameCap
  /\ iport \in Ports \cup {0} /\ icounter \in 0 .. CounterMod - 1 /\ handling \in Frame
  /\ toReceiver \in Seq(Frame) /\ Len(toReceiver) <= MaxTransit
  /\ toSender \in Seq(AckSet) /\ Len(toSender) <= MaxTransit
  /\ ports \in 0 .. MaxPorts
  /\ written \in [Ports -> Seq(Kinds)] /\ delivered \in [Ports -> Seq(Nat \X Kinds)]
  /\ abandoned \subseteq Ports

\* They are what TypeOK and HistoryType say.
LEMMA TypesAre == Types <=> TypeOK /\ HistoryType
<1>1. Types => TypeOK /\ HistoryType
  BY DEF Types, TypeOK, HistoryType, AckSet
<1>2. TypeOK /\ HistoryType => Types
  BY DEF Types, TypeOK, HistoryType, AckSet
<1> QED
  BY <1>1, <1>2

\* The types, and what follows from them for the current port.
LEMMA Basic ==
  ASSUME IInv
  PROVE  /\ Types
         /\ oport \in Nat /\ iport \in Nat /\ ports \in Nat /\ handling.port \in Nat
         /\ oport # 0 => /\ oport \in Ports /\ stream \in Seq(Kinds) /\ W \in Nat
                         /\ D \in Nat /\ D <= W
<1>1. Types
  BY TypesAre DEF IInv, ExactlyOnceInOrder
<1>2. Ports \cup {0} \subseteq Nat
  BY Sizes DEF Ports
<1>3. oport \in Nat /\ iport \in Nat /\ ports \in Nat
  BY <1>1, <1>2, Sizes DEF Types
<1>4. handling.port \in Nat
  <2>1. handling.port \in Ports \cup {0}
    BY <1>1 DEF Types, Frame
  <2> QED
    BY <1>2, <2>1
<1>5. ASSUME oport # 0
      PROVE  /\ oport \in Ports /\ stream \in Seq(Kinds) /\ W \in Nat
             /\ D \in Nat /\ D <= W
  <2>1. oport \in Ports
    BY <1>1, <1>5 DEF Types
  <2>2. stream \in Seq(Kinds) /\ delivered[oport] \in Seq(Nat \X Kinds)
    BY <1>1, <2>1 DEF Types, stream
  <2>3. D <= W
    BY <2>1 DEF IInv, ExactlyOnceInOrder, D, W, stream
  <2> QED
    BY <2>1, <2>2, <2>3 DEF W, D
<1> QED
  BY <1>1, <1>3, <1>4, <1>5

\* The ports of messages are numbers.
LEMMA MessagePorts ==
  ASSUME Types
  PROVE  /\ \A j \in 1 .. Len(toReceiver) : toReceiver[j].port \in Nat
         /\ \A j \in 1 .. Len(toSender) : toSender[j].port \in Nat
<1>1. \A f \in Frame : f.port \in Nat
  BY Sizes DEF Frame, Ports
<1>2. \A a \in AckSet : a.port \in Nat
  BY <1>1 DEF AckSet, crc
<1> QED
  BY <1>1, <1>2 DEF Types

\* Push keeps the types.
LEMMA PushType ==
  ASSUME Types, oport # 0, NEW frame \in Seq(Packet), Len(frame) < FrameCap, NEW k \in Kinds,
         Push(frame, k)
  PROVE  /\ oframe' \in Seq(Packet) /\ Len(oframe') <= FrameCap /\ oframe' # <<>>
         /\ ocounter' \in 0 .. CounterMod - 1
         /\ written' \in [Ports -> Seq(Kinds)]
         /\ written'[oport] = Append(written[oport], k)
         /\ \A p \in Ports : p # oport => written'[p] = written[p]
<1> DEFINE e == [c |-> ocounter, k |-> k, i |-> Len(written[oport]) + 1]
<1>1. oport \in Ports /\ written[oport] \in Seq(Kinds) /\ ocounter \in 0 .. CounterMod - 1
  BY DEF Types
<1>2. Len(written[oport]) \in Nat
  BY <1>1
<1>3. e \in Packet
  BY <1>1, <1>2 DEF Packet
<1>4. oframe' = Append(frame, e)
  BY DEF Push
<1> HIDE DEF e
<1>5. /\ Append(frame, e) \in Seq(Packet) /\ Len(Append(frame, e)) = Len(frame) + 1
      /\ Append(frame, e) # <<>>
  BY <1>3, HeadOfAppend
<1>6. oframe' \in Seq(Packet) /\ Len(oframe') <= FrameCap /\ oframe' # <<>>
  BY <1>4, <1>5, Sizes
<1>7. ocounter' \in 0 .. CounterMod - 1
  <2>1. ocounter + 1 \in Nat /\ CounterMod \in Nat \ {0}
    BY <1>1, Sizes
  <2>2. ocounter' = (ocounter + 1) % CounterMod
    BY DEF Push, NextCounter
  <2> QED
    BY <2>1, <2>2, Division
<1>8. Append(written[oport], k) \in Seq(Kinds)
  BY <1>1
<1>9. /\ written' \in [Ports -> Seq(Kinds)]
      /\ written'[oport] = Append(written[oport], k)
      /\ \A p \in Ports : p # oport => written'[p] = written[p]
  BY <1>1, <1>8 DEF Push, Types
<1> QED
  BY <1>6, <1>7, <1>9

\* jd_opipe_send_close_pkt keeps the types.
LEMMA SendClosePktType ==
  ASSUME Types, oport # 0, NEW retry \in 0 .. MAX_RETRIES + 2,
         NEW frame \in Seq(Packet), Len(frame) <= FrameCap, SendClosePkt(retry, frame)
  PROVE  /\ ostatus' \in Statuses /\ curr_retry' \in 0 .. MAX_RETRIES + 2
         /\ oframe' \in Seq(Packet) /\ Len(oframe') <= FrameCap
         /\ ocounter' \in 0 .. CounterMod - 1
         /\ written' \in [Ports -> Seq(Kinds)]
<1>1. 1 \in 0 .. MAX_RETRIES + 2 /\ "close" \in Kinds
  BY Sizes DEF Kinds
<1>2. CASE UNCHANGED <<ocounter, written>> /\ oframe' = frame
  BY <1>1, <1>2 DEF SendClosePkt, Types, Statuses
<1>3. CASE Len(frame) < FrameCap /\ Push(frame, "close") /\ ostatus' = "CLOSED_WAITING" /\ curr_retry' = 1
  BY <1>1, <1>3, PushType DEF Statuses
<1> QED
  BY <1>2, <1>3 DEF SendClosePkt

\* Every step keeps the types.
LEMMA TypeStep == IInv /\ [Next]_vars => Types'
<1> SUFFICES ASSUME IInv, [Next]_vars
             PROVE  Types'
  OBVIOUS
<1>0. Types /\ oport \in Nat /\ iport \in Nat
  BY Basic
<1> DEFINE PortType == oport \in Ports \cup {0} /\ iport \in Ports \cup {0} /\ ports \in 0 .. MaxPorts
                       /\ abandoned \subseteq Ports
           OutType == /\ ostatus \in Statuses /\ ocounter \in 0 .. CounterMod - 1
                      /\ curr_retry \in 0 .. MAX_RETRIES + 2
                      /\ oframe \in Seq(Packet) /\ Len(oframe) <= FrameCap
                      /\ written \in [Ports -> Seq(Kinds)]
           InType == icounter \in 0 .. CounterMod - 1 /\ handling \in Frame
                     /\ delivered \in [Ports -> Seq(Nat \X Kinds)]
           BusType == /\ toReceiver \in Seq(Frame) /\ Len(toReceiver) <= MaxTransit
                      /\ toSender \in Seq(AckSet) /\ Len(toSender) <= MaxTransit
<1>a. PortType /\ OutType /\ InType /\ BusType
  BY <1>0 DEF Types
<1> HIDE DEF PortType, OutType, InType, BusType
<1>b. ostatus # "FREE" => oport # 0
  BY DEF IInv, StatusInv
<1>c. \A f \in Frame : crc(f) \in AckSet
  BY DEF AckSet
<1>d. UNCHANGED <<oport, iport, ports, abandoned>> => PortType'
  BY <1>a DEF PortType
<1>e. UNCHANGED <<ovars, written>> => OutType'
  BY <1>a DEF OutType, ovars
<1>f. UNCHANGED <<icounter, handling, delivered>> => InType'
  BY <1>a DEF InType
<1>g. UNCHANGED <<toReceiver, toSender>> => BusType'
  BY <1>a DEF BusType
<1>h. curr_retry # 0 => oport # 0 /\ ostatus # "FREE"
  BY DEF IInv, StatusInv
<1>z. PortType' /\ OutType' /\ InType' /\ BusType'
  <2>1. CASE Open
    <3>1. PortType'
      BY <1>a, <2>1 DEF Open, PortType, ivars
    <3>2. OutType'
      BY <1>a, <2>1, Sizes DEF Open, OutType, Statuses
    <3> QED
      BY <1>f, <1>g, <2>1, <3>1, <3>2 DEF Open, ivars
  <2>2. CASE Write
    <3>1. "data" \in Kinds /\ oport # 0
      BY <1>b, <2>2 DEF Kinds, Write
    <3>2. OutType'
      BY <1>0, <1>a, <2>2, <3>1, PushType DEF Write, OutType
    <3> QED
      BY <1>d, <1>f, <1>g, <2>2, <3>2 DEF Write, ivars
  <2>3. CASE Flush
    <3>1. OutType'
      BY <1>a, <2>3, Sizes DEF Flush, OutType
    <3> QED
      BY <1>d, <1>f, <1>g, <2>3, <3>1 DEF Flush, ivars
  <2>4. CASE Close
    <3>1. OutType'
      <4>1. CASE ostatus = "DROPPED"
        BY <1>a, <2>4, <4>1, Sizes DEF Close, OutType, Statuses
      <4>2. CASE ostatus \in {"OPEN", "CLOSED_UNSENT"} /\ SendClosePkt(curr_retry, oframe)
        <5>1. oport # 0 /\ curr_retry \in 0 .. MAX_RETRIES + 2 /\ oframe \in Seq(Packet)
              /\ Len(oframe) <= FrameCap
          BY <1>a, <1>b, <4>2 DEF OutType
        <5> QED
          BY <1>0, <4>2, <5>1, SendClosePktType DEF OutType
      <4> QED
        BY <2>4, <4>1, <4>2 DEF Close
    <3> QED
      BY <1>d, <1>f, <1>g, <2>4, <3>1 DEF Close, ivars
  <2>5. CASE Process
    <3>1. OutType'
      BY <1>a, <2>5, Sizes DEF Process, OutType, Statuses
    <3>2. BusType'
      <4> DEFINE f == [port |-> oport, pkts |-> oframe]
      <4>1. f \in Frame
        BY <1>a DEF Frame, PortType, OutType
      <4>2. toReceiver' = toReceiver \/ toReceiver' \in Sent(toReceiver, f)
        BY <2>5 DEF Process
      <4> HIDE DEF f
      <4>3. toReceiver' \in Seq(Frame) /\ Len(toReceiver') <= MaxTransit
        <5>1. toReceiver \in Seq(Frame) /\ Len(toReceiver) <= MaxTransit
          BY <1>a DEF BusType
        <5> QED
          BY <4>1, <4>2, <5>1, SentType
      <4> QED
        BY <1>a, <2>5, <4>3 DEF BusType, Process
    <3> QED
      BY <1>d, <1>f, <2>5, <3>1, <3>2 DEF Process, ivars
  <2>6. CASE HandleAck
    <3>1. OutType'
      <4>1. CASE UNCHANGED <<ovars, written>>
        BY <1>e, <4>1
      <4>2. CASE curr_retry' = 0 /\ oframe' = <<>> /\ UNCHANGED <<ostatus, ocounter, written>>
        BY <1>a, <4>2, Sizes DEF OutType
      <4>3. CASE ostatus' = "FREE" /\ ocounter' = 0 /\ curr_retry' = 0 /\ oframe' = <<>> /\ UNCHANGED written
        BY <1>a, <4>3, Sizes DEF OutType, Statuses
      <4>4. CASE ostatus = "CLOSED_UNSENT" /\ SendClosePkt(0, <<>>)
        <5>1. oport # 0 /\ 0 \in 0 .. MAX_RETRIES + 2 /\ <<>> \in Seq(Packet) /\ Len(<<>>) <= FrameCap
          BY <1>b, <4>4, Sizes
        <5> QED
          BY <1>0, <4>4, <5>1, SendClosePktType DEF OutType
      <4> QED
        BY <2>6, <4>1, <4>2, <4>3, <4>4 DEF HandleAck
    <3>2. BusType'
      <4>1. toSender \in Seq(AckSet) /\ Len(toSender) <= MaxTransit /\ toSender # <<>>
        BY <1>a, <2>6 DEF BusType, HandleAck
      <4>2. Tail(toSender) \in Seq(AckSet) /\ Len(Tail(toSender)) = Len(toSender) - 1
        BY <4>1, TailOfQueue
      <4>3. Len(toSender) \in Nat /\ toSender' = Tail(toSender) /\ UNCHANGED toReceiver
        BY <2>6, <4>1 DEF HandleAck
      <4>4. Len(toSender') <= MaxTransit
        BY <4>1, <4>2, <4>3, Sizes
      <4> QED
        BY <1>a, <4>2, <4>3, <4>4 DEF BusType
    <3>3. UNCHANGED oport
      BY <2>6 DEF HandleAck, ovars
    <3> QED
      BY <1>d, <1>f, <2>6, <3>1, <3>2, <3>3 DEF HandleAck, ivars
  <2>7. CASE IOpen
    <3>1. PortType'
      <4>1. abandoned' \subseteq Ports
        BY <1>a, <2>7 DEF IOpen, Freed, PortType
      <4>2. ports' \in 0 .. MaxPorts /\ iport' \in Ports
        BY <1>a, <2>7, Sizes DEF IOpen, PortType, Ports
      <4> QED
        BY <1>a, <2>7, <4>1, <4>2 DEF IOpen, PortType, ovars
    <3>2. InType'
      BY <1>a, <2>7, Sizes DEF IOpen, InType
    <3> QED
      BY <1>e, <1>g, <2>7, <3>1, <3>2 DEF IOpen
  <2>8. CASE IClose
    <3>1. PortType'
      BY <1>a, <2>8 DEF IClose, Freed, PortType, ovars
    <3>2. InType'
      BY <1>a, <2>8, Sizes DEF IClose, InType
    <3> QED
      BY <1>e, <1>g, <2>8, <3>1, <3>2 DEF IClose
  <2>9. CASE ReceiveFrame
    <3>1. Head(toReceiver) \in Frame /\ Tail(toReceiver) \in Seq(Frame)
          /\ Len(Tail(toReceiver)) = Len(toReceiver) - 1
      BY <1>a, <2>9, TailOfQueue DEF BusType, ReceiveFrame
    <3>2. crc(Head(toReceiver)) \in AckSet
      BY <1>c, <3>1
    <3>3. toSender' \in Seq(AckSet) /\ Len(toSender') <= MaxTransit
      BY <1>a, <2>9, <3>2, SentType DEF BusType, ReceiveFrame
    <3>4. BusType'
      <4>1. toReceiver' = Tail(toReceiver)
        BY <2>9 DEF ReceiveFrame
      <4>2. Len(toReceiver) \in Nat /\ Len(toReceiver) <= MaxTransit
        BY <1>a DEF BusType
      <4> QED
        BY <3>1, <3>3, <4>1, <4>2, Sizes DEF BusType
    <3>5. InType'
      BY <1>a, <2>9, <3>1 DEF InType, ReceiveFrame
    <3> QED
      BY <1>d, <1>e, <2>9, <3>4, <3>5 DEF ReceiveFrame, ovars
  <2>10. CASE ReceivePacket
    <3> DEFINE pkt == Head(handling.pkts)
    <3>1. handling.pkts \in Seq(Packet) /\ handling.pkts # <<>> /\ handling.port \in Ports \cup {0}
      BY <1>a, <2>10 DEF InType, Frame, ReceivePacket
    <3>2. pkt \in Packet /\ Tail(handling.pkts) \in Seq(Packet)
      BY <3>1, TailOfQueue
    <3>3. handling' \in Frame
      <4>1. handling' = [handling EXCEPT !.pkts = Tail(handling.pkts)] /\ handling \in Frame
        BY <1>a, <2>10 DEF ReceivePacket, InType
      <4> QED
        BY <3>2, <4>1 DEF Frame
    <3>4. \/ UNCHANGED <<iport, icounter, delivered>>
          \/ /\ iport # 0
             /\ delivered' = [delivered EXCEPT ![iport] = Append(@, <<pkt.i, pkt.k>>)]
             /\ \/ iport' = 0 /\ icounter' = 0
                \/ iport' = iport /\ icounter' = NextCounter(icounter)
      BY <2>10 DEF ReceivePacket, Expected
    <3> HIDE DEF pkt
    <3>5. <<pkt.i, pkt.k>> \in Nat \X Kinds
      BY <3>2 DEF Packet
    <3>6. delivered' \in [Ports -> Seq(Nat \X Kinds)]
      <4>1. CASE UNCHANGED delivered
        BY <1>a, <4>1 DEF InType
      <4>2. CASE iport # 0 /\ delivered' = [delivered EXCEPT ![iport] = Append(@, <<pkt.i, pkt.k>>)]
        <5>1. iport \in Ports /\ delivered \in [Ports -> Seq(Nat \X Kinds)]
          BY <1>a, <4>2 DEF InType, PortType
        <5>2. delivered[iport] \in Seq(Nat \X Kinds)
          BY <5>1
        <5>3. Append(delivered[iport], <<pkt.i, pkt.k>>) \in Seq(Nat \X Kinds)
          BY <3>5, <5>2, AppendProperties
        <5> QED
          BY <4>2, <5>1, <5>3
      <4> QED
        BY <3>4, <4>1, <4>2
    <3>7. icounter' \in 0 .. CounterMod - 1
      <4>1. icounter \in 0 .. CounterMod - 1
        BY <1>a DEF InType
      <4>2. NextCounter(icounter) \in 0 .. CounterMod - 1
        <5>1. icounter + 1 \in Nat /\ CounterMod \in Nat \ {0}
          BY <4>1, Sizes
        <5> QED
          BY <5>1, Division DEF NextCounter
      <4> QED
        BY <3>4, <4>1, <4>2, Sizes
    <3>8. PortType'
      BY <1>a, <2>10, <3>4 DEF ReceivePacket, PortType, ovars
    <3>9. InType'
      BY <3>3, <3>6, <3>7 DEF InType
    <3> QED
      BY <1>e, <1>g, <2>10, <3>8, <3>9 DEF ReceivePacket
  <2>11. CASE UNCHANGED vars
    BY <1>d, <1>e, <1>f, <1>g, <2>11 DEF vars, ivars, ovars
  <2> QED
    BY <2>1, <2>2, <2>3, <2>4, <2>5, <2>6, <2>7, <2>8, <2>9, <2>10, <2>11 DEF Next
<1> QED
  BY <1>z DEF PortType, OutType, InType, BusType, Types

------------------------------------------------------------------------------
(* The session: the two frames there can be copies of. *)

\* Two frames in a row, and their acknowledgements, are not the same.
LEMMA Apart ==
  ASSUME NEW w \in Seq(Kinds), NEW v \in Seq(Kinds), NEW p,
         NEW o \in Nat, NEW s \in Nat, NEW n \in Nat,
         o <= s, s <= Len(w), s <= n, n <= Len(v), s - o <= FrameCap
  PROVE  /\ Others(Frames(p, w, o, s), Frames(p, v, s, n), p)
         /\ Others(Frames(p, v, s, n), Frames(p, w, o, s), p)
         /\ Others(Acks(p, w, o, s), Acks(p, v, s, n), p)
         /\ Others(Acks(p, v, s, n), Acks(p, w, o, s), p)
<1> DEFINE x == FrameOf(p, w, o, s)
           y == FrameOf(p, v, s, n)
<1>1. x.port = p /\ y.port = p /\ crc(x).port = p /\ crc(y).port = p
  BY DEF FrameOf, crc
<1>2. ASSUME o < s, s < n
      PROVE  crc(x) # crc(y) /\ x # y
  <2>1. s - o < CounterMod
    BY Sizes
  <2> QED
    BY <1>2, <2>1, CrcsDiffer DEF FrameOf
<1>3. /\ \A f : f \in Frames(p, w, o, s) <=> f = x /\ o < s
      /\ \A f : f \in Frames(p, v, s, n) <=> f = y /\ s < n
  BY DEF Frames
<1>4. /\ \A a : a \in Acks(p, w, o, s) <=> a = crc(x) /\ o < s
      /\ \A a : a \in Acks(p, v, s, n) <=> a = crc(y) /\ s < n
  BY <1>3 DEF Acks
<1> HIDE DEF x, y
<1> QED
  BY <1>1, <1>2, <1>3, <1>4 DEF Others

\* An empty stretch is no frame.
LEMMA NoFrames ==
  ASSUME NEW w, NEW p, NEW a \in Nat
  PROVE  Frames(p, w, a, a) = {} /\ Acks(p, w, a, a) = {}
  BY DEF Frames, Acks

\* A packet more leaves the old frame as it is.
LEMMA FramesStable ==
  ASSUME NEW w \in Seq(Kinds), NEW k \in Kinds, NEW p, NEW a \in Nat, NEW b \in Nat,
         a <= b, b <= Len(w)
  PROVE  /\ Frames(p, Append(w, k), a, b) = Frames(p, w, a, b)
         /\ Acks(p, Append(w, k), a, b) = Acks(p, w, a, b)
<1>1. Stretch(Append(w, k), a, b) = Stretch(w, a, b)
  BY StretchStable
<1>2. FrameOf(p, Append(w, k), a, b) = FrameOf(p, w, a, b)
  BY <1>1 DEF FrameOf
<1>3. Frames(p, Append(w, k), a, b) = Frames(p, w, a, b)
  BY <1>2 DEF Frames
<1> QED
  BY <1>3 DEF Acks

\* jd_opipe_open starts a session: nothing of the new port is on its way.
LEMMA OpenSession ==
  ASSUME IInv, Open
  PROVE  Session(0, 0, 0)'
<1>1. Types /\ oport \in Nat /\ iport \in Nat /\ handling.port \in Nat
  BY Basic
<1>2. oport' = iport /\ iport > oport /\ iport \in Ports
  BY <1>1 DEF Open, Types
<1>3. written[iport] = <<>> /\ delivered[iport] = <<>>
  BY <1>2 DEF IInv, PortInv
<1>4. stream' = <<>> /\ W' = 0 /\ D' = 0
  BY <1>2, <1>3 DEF Open, stream, W, D
<1>5. <<>> \in Seq(Kinds)
  OBVIOUS
<1>6. Frames(oport', stream', 0, 0) = {} /\ Acks(oport', stream', 0, 0) = {}
  BY NoFrames
<1>7. Window(0, 0)'
  <2>1. Stretch(stream', 0, 0) = <<>>
    <3>1. Len(<<>>) = 0 /\ 0 \in Nat /\ 0 <= 0
      OBVIOUS
    <3> QED
      BY <1>4, <1>5, <3>1, StretchEmpty
  <2>2. 0 % CounterMod = 0
    BY Sizes
  <2>3. oframe' = <<>> /\ ocounter' = 0
    BY DEF Open
  <2> QED
    BY <1>4, <2>1, <2>2, <2>3, Sizes DEF Window
<1>8. /\ All(toReceiver, iport, {}) /\ None(toReceiver, {}) /\ Ordered(toReceiver, iport, {}, {})
      /\ All(toSender, iport, {}) /\ None(toSender, {}) /\ Ordered(toSender, iport, {}, {})
  <2>1. Below(toReceiver, oport) /\ Below(toSender, oport)
    BY DEF IInv, PortInv
  <2>2. \A m \in {} : m.port = iport
    OBVIOUS
  <2>3. oport < iport
    BY <1>1, <1>2
  <2> QED
    BY <1>1, <2>1, <2>2, <2>3, MessagePorts, NoneAbove
<1>9. UNCHANGED <<ivars, toReceiver, toSender>>
  BY DEF Open
<1>10. FramesInv(0, 0)'
  BY <1>2, <1>4, <1>6, <1>8, <1>9 DEF FramesInv
<1>11. AcksInv(0, 0)'
  BY <1>2, <1>4, <1>6, <1>8, <1>9 DEF AcksInv
<1>12. ReceiverInv(0, 0, 0)'
  <2>1. handling' = handling /\ iport' = iport
    BY <1>9 DEF ivars
  <2>2. handling.port # iport
    <3>1. handling.port <= oport
      BY DEF IInv, PortInv
    <3> QED
      BY <1>1, <1>2, <3>1
  <2>3. Reaches(0)'
    BY <1>2, <1>4, <2>1, <2>2 DEF Reaches
  <2> QED
    BY <1>2, <1>4, <1>6, <1>8, <1>9, <2>1, <2>3 DEF ReceiverInv
<1> QED
  BY <1>7, <1>10, <1>11, <1>12 DEF Session

\* Steps of the sender that add no packet: what it holds it still holds, the
\* frame may be sent once more, and the first acknowledgement may be gone.
LEMMA QuietSession ==
  ASSUME IInv, NEW o \in Nat, NEW s \in Nat, NEW e \in Nat, Session(o, s, e), oport # 0,
         UNCHANGED <<oport, written, delivered, ivars, abandoned>>,
         \/ toReceiver' = toReceiver
         \/ toReceiver' = Append(toReceiver, FrameOf(oport, stream, s, W)) /\ s < W,
         \/ toSender' = toSender
         \/ toSender # <<>> /\ toSender' = Tail(toSender),
         ostatus' # "FREE" => ostatus # "FREE" /\ oframe' = oframe /\ ocounter' = ocounter,
         curr_retry' = 0 /\ ostatus' # "FREE" =>
           curr_retry = 0 /\ ostatus # "FREE" /\ toReceiver' = toReceiver
  PROVE  Session(o, s, e)'
<1> DEFINE A == Frames(oport, stream, o, s)
           B == Frames(oport, stream, s, W)
           F == Acks(oport, stream, o, s)
           G == Acks(oport, stream, s, W)
           f == FrameOf(oport, stream, s, W)
<1>1. Types /\ oport \in Ports /\ stream \in Seq(Kinds) /\ W \in Nat
  BY Basic
<1>2. stream' = stream /\ W' = W /\ D' = D /\ oport' = oport
  BY DEF stream, W, D
<1>3. /\ A' = A /\ B' = B /\ F' = F /\ G' = G
  BY <1>2
<1>4. o <= s /\ s <= W /\ s - o <= FrameCap
  BY DEF Session, Window
<1>5. Others(A, B, oport)
  <2>1. s <= Len(stream) /\ W <= Len(stream)
    BY <1>1, <1>4 DEF W
  <2> QED
    BY <1>1, <1>4, <2>1, Apart
<1>6. s < W => f \in B /\ f \in Frame
  <2>1. ASSUME s < W
        PROVE  f \in B /\ f \in Frame
    <3>1. Stretch(stream, s, W) \in Seq(Packet)
      <4>1. W <= Len(stream)
        BY <1>1 DEF W
      <4>2. Packets(Stretch(stream, s, W), stream, s, W)
        BY <1>1, <1>4, <4>1, StretchType
      <4> QED
        BY ONLY <4>2 DEF Packets
    <3> QED
      BY <1>1, <2>1, <3>1 DEF Frames, FrameOf, Frame
  <2> QED
    BY <2>1
<1>7. toReceiver \in Seq(Frame) /\ toSender \in Seq(AckSet)
  BY <1>1 DEF Types
<1> HIDE DEF A, B, F, G, f
<1>8. /\ Ordered(toReceiver, oport, A, B)
      /\ curr_retry = 0 /\ ostatus # "FREE" => None(toReceiver, B)
      /\ Ordered(toSender, oport, F, G)
      /\ curr_retry = 0 /\ ostatus # "FREE" => None(toSender, G)
      /\ None(toSender, G) \/ All(toReceiver, oport, B)
  BY DEF Session, FramesInv, AcksInv, A, B, F, G
<1>9. /\ Ordered(toReceiver', oport, A, B)
      /\ All(toReceiver, oport, B) => All(toReceiver', oport, B)
      /\ None(toReceiver, A) => None(toReceiver', A)
  <2>1. CASE toReceiver' = toReceiver
    BY <1>8, <2>1
  <2>2. CASE toReceiver' = Append(toReceiver, f) /\ s < W
    <3>1. f \in B /\ f \in Frame /\ f \notin A
      BY <1>5, <1>6, <2>2 DEF Others
    <3> QED
      BY <1>7, <1>8, <2>2, <3>1, ChannelAppend
  <2> QED
    BY <2>1, <2>2 DEF f
<1>10. /\ Ordered(toSender', oport, F, G)
       /\ None(toSender, G) => None(toSender', G)
  <2>1. CASE toSender' = toSender
    BY <1>8, <2>1
  <2>2. CASE toSender # <<>> /\ toSender' = Tail(toSender)
    BY <1>7, <1>8, <2>2, ChannelTail
  <2> QED
    BY <2>1, <2>2
<1>11. Window(o, s)'
  BY <1>2 DEF Session, Window
<1>12. FramesInv(o, s)'
  <2>1. curr_retry' = 0 /\ ostatus' # "FREE" => None(toReceiver', B)
    BY <1>8
  <2> QED
    BY <1>2, <1>3, <1>9, <2>1 DEF FramesInv, A, B
<1>13. AcksInv(o, s)'
  <2>1. curr_retry' = 0 /\ ostatus' # "FREE" => None(toSender', G)
    BY <1>8, <1>10
  <2>2. None(toSender', G) \/ All(toReceiver', oport, B)
    BY <1>8, <1>9, <1>10
  <2> QED
    BY <1>2, <1>3, <1>10, <2>1, <2>2 DEF AcksInv, B, F, G
<1>14. ReceiverInv(o, s, e)'
  <2> SUFFICES ASSUME oport \notin abandoned
               PROVE  ReceiverInv(o, s, e)'
    BY DEF ReceiverInv
  <2>1. /\ e \in {s, W} /\ Reaches(e)
        /\ curr_retry = 0 /\ ostatus # "FREE" => e = s
        /\ None(toReceiver, A) \/ e = s
        /\ None(toSender, G) \/ e = W
        /\ iport # oport => D = W /\ W # 0 /\ stream[W] = "close"
    BY DEF Session, ReceiverInv, A, G
  <2>2. Reaches(e)'
    BY <1>2, <2>1 DEF Reaches, ivars
  <2>3. (None(toReceiver', A) \/ e = s) /\ (None(toSender', G) \/ e = W)
    BY <1>9, <1>10, <2>1
  <2>4. curr_retry' = 0 /\ ostatus' # "FREE" => e = s
    BY <2>1
  <2>5. iport' = iport
    BY DEF ivars
  <2> QED
    BY <1>2, <1>3, <2>1, <2>2, <2>3, <2>4, <2>5 DEF ReceiverInv, A, G
<1> QED
  BY <1>11, <1>12, <1>13, <1>14 DEF Session

\* A packet is added while there are old frames and acknowledgements only: the
\* frame that holds it is the new one.
LEMMA PushSession ==
  ASSUME IInv, NEW o \in Nat, NEW s \in Nat, NEW frame, NEW k \in Kinds, oport # 0,
         o <= s, s <= W, s - o <= FrameCap, W - s < FrameCap,
         frame = Stretch(stream, s, W), ocounter = W % CounterMod, Push(frame, k),
         All(toReceiver', oport, Frames(oport, stream, o, s)),
         All(toSender', oport, Acks(oport, stream, o, s)),
         oport \notin abandoned => Reaches(s) /\ iport = oport,
         UNCHANGED <<oport, ivars, delivered, abandoned>>
  PROVE  Session(o, s, s)'
<1> DEFINE v == Append(stream, k)
           A == Frames(oport, v, o, s)
           B == Frames(oport, v, s, W + 1)
           F == Acks(oport, v, o, s)
           G == Acks(oport, v, s, W + 1)
<1>1. Types /\ oport \in Ports /\ stream \in Seq(Kinds) /\ W \in Nat /\ W = Len(stream)
  BY Basic DEF W
<1>2. Stretch(stream, s, W) \in Seq(Packet) /\ Len(Stretch(stream, s, W)) = W - s
  <2>1. W <= Len(stream)
    BY <1>1
  <2> QED
    BY <1>1, <2>1, StretchType DEF Packets
<1>3. written'[oport] = Append(written[oport], k)
  <2>1. frame \in Seq(Packet) /\ Len(frame) < FrameCap
    BY <1>2
  <2> QED
    BY <1>1, <2>1, PushType
<1>4. v \in Seq(Kinds) /\ Len(v) = W + 1 /\ (\A i \in 1 .. W : v[i] = stream[i])
  BY <1>1, AppendProperties
<1>5. stream' = v /\ W' = W + 1 /\ D' = D /\ oport' = oport
  <2>1. stream' = v
    BY <1>3 DEF stream
  <2> QED
    BY <1>4, <2>1 DEF W, D
<1>6. A = Frames(oport, stream, o, s) /\ F = Acks(oport, stream, o, s)
  <2>1. s <= Len(stream)
    BY <1>1
  <2> QED
    BY <1>1, <2>1, FramesStable
<1>7. Others(B, A, oport) /\ Others(G, F, oport)
  <2> HIDE DEF v
  <2>1. s <= Len(v) /\ W + 1 <= Len(v) /\ s <= W + 1 /\ W + 1 \in Nat
    BY <1>1, <1>4
  <2> QED
    BY <1>4, <2>1, Apart
<1>8. oframe' = Stretch(v, s, W + 1)
  <2>1. oframe' = Append(Stretch(stream, s, W), [c |-> W % CounterMod, k |-> k, i |-> W + 1])
    BY <1>1 DEF Push, stream
  <2>2. Stretch(Append(stream, k), s, Len(stream) + 1) =
          Append(Stretch(stream, s, Len(stream)),
                 [c |-> Len(stream) % CounterMod, k |-> k, i |-> Len(stream) + 1])
    <3>1. s <= Len(stream)
      BY <1>1
    <3> QED
      BY <1>1, <3>1, StretchGrows
  <2> QED
    BY <1>1, <2>1, <2>2
<1>9. ocounter' = (W + 1) % CounterMod
  <2>1. ocounter' = ((W % CounterMod) + 1) % CounterMod
    BY DEF Push, NextCounter
  <2> QED
    BY <1>1, <2>1, Sizes, SuccessorOfRemainder
<1>a. s <= W + 1 /\ W + 1 - s <= FrameCap
  BY <1>1, Sizes
<1> HIDE DEF v, A, B, F, G
<1>10. /\ Ordered(toReceiver', oport, A, B) /\ None(toReceiver', B)
       /\ Ordered(toSender', oport, F, G) /\ None(toSender', G)
  <2>1. All(toReceiver', oport, A) /\ All(toSender', oport, F)
    BY <1>6
  <2> QED
    BY <1>7, <2>1, OnlyOld
<1>11. Window(o, s)'
  <2>1. oframe' = Stretch(stream', s, W') /\ ocounter' = W' % CounterMod
    BY <1>5, <1>8, <1>9
  <2>2. s <= W' /\ W' - s <= FrameCap
    BY <1>1, <1>5, <1>a
  <2> QED
    BY <2>1, <2>2 DEF Window
<1>12. FramesInv(o, s)'
  BY <1>5, <1>10 DEF FramesInv, A, B
<1>13. AcksInv(o, s)'
  BY <1>5, <1>10 DEF AcksInv, F, G
<1>14. ReceiverInv(o, s, s)'
  <2> SUFFICES ASSUME oport \notin abandoned
               PROVE  ReceiverInv(o, s, s)'
    BY DEF ReceiverInv
  <2>1. handling' = handling /\ iport' = iport /\ iport' = oport' /\ Reaches(s)
    BY <1>5 DEF ivars
  <2>2. Reaches(s)'
    <3>1. CASE handling.port = oport /\ handling.pkts # <<>>
      <4>1. PICK a \in 0 .. W, b \in 0 .. W :
              /\ a < b /\ handling.pkts = Stretch(stream, a, b)
              /\ \/ a = D /\ b = s
                 \/ D = s /\ b <= D /\ D - a < CounterMod
        BY <2>1, <3>1 DEF Reaches
      <4>2. a \in Nat /\ b \in Nat /\ a <= b /\ b <= Len(stream)
        BY <1>1, <4>1
      <4>3. handling.pkts = Stretch(v, a, b)
        BY <1>1, <4>1, <4>2, StretchStable DEF v
      <4>4. a \in 0 .. W + 1 /\ b \in 0 .. W + 1
        BY <1>1
      <4> QED
        BY <1>5, <2>1, <3>1, <4>1, <4>3, <4>4 DEF Reaches
    <3>2. CASE ~ (handling.port = oport /\ handling.pkts # <<>>)
      BY <1>5, <2>1, <3>2 DEF Reaches
    <3> QED
      BY <3>1, <3>2
  <2> QED
    BY <1>5, <1>10, <2>1, <2>2 DEF ReceiverInv, A, G
<1> QED
  BY <1>11, <1>12, <1>13, <1>14 DEF Session

\* What a session means while the sender holds no frame it has sent.
LEMMA IdleSession ==
  ASSUME IInv, NEW o \in Nat, NEW s \in Nat, NEW e \in Nat, Session(o, s, e), oport # 0,
         curr_retry = 0, ostatus \in {"OPEN", "CLOSED_UNSENT"}
  PROVE  /\ o <= s /\ s <= W /\ s - o <= FrameCap /\ W - s = Len(oframe)
         /\ oframe = Stretch(stream, s, W) /\ ocounter = W % CounterMod
         /\ All(toReceiver, oport, Frames(oport, stream, o, s))
         /\ All(toSender, oport, Acks(oport, stream, o, s))
         /\ oport \notin abandoned => Reaches(s) /\ iport = oport
<1>1. oport \in Ports /\ stream \in Seq(Kinds) /\ W \in Nat /\ W = Len(stream)
  BY Basic DEF W
<1>2. ostatus # "FREE"
  OBVIOUS
<1>3. /\ o <= s /\ s <= W /\ s - o <= FrameCap
      /\ oframe = Stretch(stream, s, W) /\ ocounter = W % CounterMod
  BY <1>2 DEF Session, Window
<1>4. W - s = Len(oframe)
  <2>1. W <= Len(stream)
    BY <1>1
  <2> QED
    BY <1>1, <1>3, <2>1, StretchType DEF Packets
<1>5. /\ All(toReceiver, oport, Frames(oport, stream, o, s))
      /\ All(toSender, oport, Acks(oport, stream, o, s))
  BY <1>2, NotNew DEF Session, FramesInv, AcksInv
<1>6. ASSUME oport \notin abandoned
      PROVE  Reaches(s) /\ iport = oport
  <2>1. /\ e = s /\ Reaches(e)
        /\ iport # oport => W # 0 /\ stream[W] = "close"
    BY <1>2, <1>6 DEF Session, ReceiverInv
  <2>2. W # 0 => stream[W] # "close"
    <3>1. W # 0 => W \in 1 .. Len(written[oport])
      BY <1>1 DEF stream
    <3> QED
      BY <1>1, <3>1 DEF IInv, StatusInv, CloseIsLast, stream
  <2> QED
    BY <2>1, <2>2
<1> QED
  BY <1>3, <1>4, <1>5, <1>6

\* The acknowledgement of the frame the sender holds has come: the receiver has
\* reached its end, and only its copies and their acknowledgements are left.
LEMMA AckedSession ==
  ASSUME IInv, NEW o \in Nat, NEW s \in Nat, NEW e \in Nat, Session(o, s, e), oport # 0,
         toSender # <<>>, AckMatches(Head(toSender))
  PROVE  /\ s < W /\ W - s <= FrameCap /\ ocounter = W % CounterMod
         /\ All(toReceiver, oport, Frames(oport, stream, s, W))
         /\ All(Tail(toSender), oport, Acks(oport, stream, s, W))
         /\ oport \notin abandoned => e = W /\ Reaches(W)
<1> DEFINE F == Acks(oport, stream, o, s)
           G == Acks(oport, stream, s, W)
           B == Frames(oport, stream, s, W)
<1>1. Types /\ stream \in Seq(Kinds) /\ W \in Nat /\ W = Len(stream)
  BY Basic DEF W
<1>2. curr_retry # 0 /\ Head(toSender) = crc([port |-> oport, pkts |-> oframe])
  BY DEF AckMatches
<1>3. ostatus # "FREE" /\ oframe # <<>>
  BY <1>2 DEF IInv, StatusInv
<1>4. /\ s <= W /\ W - s <= FrameCap /\ oframe = Stretch(stream, s, W)
      /\ ocounter = W % CounterMod
  BY <1>3 DEF Session, Window
<1>5. s # W
  BY <1>1, <1>3, <1>4, StretchEmpty
<1>6. s < W
  BY <1>1, <1>4, <1>5
<1>7. Head(toSender) \in G
  BY <1>2, <1>4, <1>6 DEF Acks, Frames, FrameOf
<1>8. toSender \in Seq(AckSet)
  BY <1>1 DEF Types
<1> HIDE DEF F, G, B
<1>9. Ordered(toSender, oport, F, G) /\ (None(toSender, G) \/ All(toReceiver, oport, B))
  BY DEF Session, AcksInv, F, G, B
<1>10. ~ None(toSender, G) /\ All(Tail(toSender), oport, G)
  BY <1>7, <1>8, <1>9, ChannelTail
<1>11. oport \notin abandoned => e = W /\ Reaches(W)
  BY <1>10 DEF Session, ReceiverInv, G
<1> QED
  BY <1>4, <1>6, <1>9, <1>10, <1>11 DEF G, B

\* The sender goes on without a frame: the acknowledged one is the old one.
LEMMA NextSession ==
  ASSUME IInv, NEW o \in Nat, NEW s \in Nat, NEW e \in Nat, Session(o, s, e), oport # 0,
         toSender # <<>>, AckMatches(Head(toSender)), toSender' = Tail(toSender),
         curr_retry' = 0, oframe' = <<>>, ostatus' # "FREE" => ocounter' = ocounter,
         UNCHANGED <<oport, written, delivered, ivars, abandoned, toReceiver>>
  PROVE  Session(s, W, W)'
<1>1. Types /\ stream \in Seq(Kinds) /\ W \in Nat /\ W = Len(stream)
  BY Basic DEF W
<1>2. stream' = stream /\ W' = W /\ D' = D /\ oport' = oport /\ iport' = iport /\ handling' = handling
  BY DEF stream, W, D, ivars
<1>3. /\ s < W /\ W - s <= FrameCap /\ ocounter = W % CounterMod
      /\ All(toReceiver, oport, Frames(oport, stream, s, W))
      /\ All(toSender', oport, Acks(oport, stream, s, W))
      /\ oport \notin abandoned => e = W /\ Reaches(W)
  BY AckedSession
<1>4. Frames(oport, stream, W, W) = {} /\ Acks(oport, stream, W, W) = {}
  BY <1>1, NoFrames
<1>5. /\ Ordered(toReceiver, oport, Frames(oport, stream, s, W), {}) /\ None(toReceiver, {})
      /\ Ordered(toSender', oport, Acks(oport, stream, s, W), {}) /\ None(toSender', {})
  BY <1>3, OnlyOld DEF Others
<1>6. Window(s, W)'
  <2>1. Stretch(stream, W, W) = <<>>
    <3>1. W <= Len(stream)
      BY <1>1
    <3> QED
      BY <1>1, <3>1, StretchEmpty
  <2>2. s <= W /\ W - W <= FrameCap
    BY <1>1, <1>3, Sizes
  <2> QED
    BY <1>1, <1>2, <1>3, <2>1, <2>2 DEF Window
<1>7. FramesInv(s, W)'
  BY <1>2, <1>4, <1>5 DEF FramesInv
<1>8. AcksInv(s, W)'
  BY <1>2, <1>4, <1>5 DEF AcksInv
<1>9. ReceiverInv(s, W, W)'
  <2> SUFFICES ASSUME oport \notin abandoned
               PROVE  ReceiverInv(s, W, W)'
    BY DEF ReceiverInv
  <2>1. Reaches(W) /\ (iport # oport => D = W /\ W # 0 /\ stream[W] = "close")
    BY <1>3 DEF Session, ReceiverInv
  <2>2. Reaches(W)'
    BY <1>2, <2>1 DEF Reaches
  <2> QED
    BY <1>2, <1>4, <1>5, <2>1, <2>2 DEF ReceiverInv
<1> QED
  BY <1>6, <1>7, <1>8, <1>9 DEF Session

\* jd_ipipe_open and jd_ipipe_close: the receiver gives up the port it had.
LEMMA LocalSession ==
  ASSUME IInv, NEW o \in Nat, NEW s \in Nat, NEW e \in Nat, Session(o, s, e), oport # 0,
         IOpen \/ IClose
  PROVE  Session(o, s, e)'
<1>1. oport \in Nat /\ ports \in Nat /\ oport <= ports
  BY Basic DEF IInv, PortInv
<1>2. /\ UNCHANGED <<ovars, handling, toReceiver, toSender, written, delivered>>
      /\ abandoned' = Freed
      /\ iport' # oport
  BY <1>1 DEF IOpen, IClose
<1>3. UNCHANGED <<oport, ostatus, ocounter, curr_retry, oframe>>
  BY <1>2 DEF ovars
<1>4. stream' = stream /\ W' = W /\ D' = D
  BY <1>2, <1>3 DEF stream, W, D
<1>5. Window(o, s)' /\ FramesInv(o, s)' /\ AcksInv(o, s)'
  BY <1>2, <1>3, <1>4 DEF Session, Window, FramesInv, AcksInv
<1>6. ReceiverInv(o, s, e)'
  <2> SUFFICES ASSUME oport \notin abandoned'
               PROVE  ReceiverInv(o, s, e)'
    BY <1>3 DEF ReceiverInv
  <2>1. oport \notin abandoned /\ iport # oport
    BY <1>2 DEF Freed
  <2>2. /\ e \in {s, W} /\ Reaches(e)
        /\ curr_retry = 0 /\ ostatus # "FREE" => e = s
        /\ None(toReceiver, Frames(oport, stream, o, s)) \/ e = s
        /\ None(toSender, Acks(oport, stream, s, W)) \/ e = W
        /\ D = W /\ W # 0 /\ stream[W] = "close"
    BY <2>1 DEF Session, ReceiverInv
  <2>3. Reaches(e)'
    BY <1>2, <1>3, <1>4, <2>2 DEF Reaches
  <2> QED
    BY <1>2, <1>3, <1>4, <2>2, <2>3 DEF ReceiverInv
<1> QED
  BY <1>5, <1>6 DEF Session

\* The receiver takes a frame: of another port, the old one again, or the new one.
LEMMA FrameSession ==
  ASSUME IInv, NEW o \in Nat, NEW s \in Nat, NEW e \in Nat, Session(o, s, e), oport # 0,
         ReceiveFrame
  PROVE  Session(o, s, e)' \/ Session(o, s, W)'
<1> DEFINE f == Head(toReceiver)
           A == Frames(oport, stream, o, s)
           B == Frames(oport, stream, s, W)
           F == Acks(oport, stream, o, s)
           G == Acks(oport, stream, s, W)
<1>1. /\ Types /\ oport \in Ports /\ stream \in Seq(Kinds) /\ W \in Nat /\ W = Len(stream)
      /\ D \in Nat
  BY Basic DEF W
<1>2. /\ UNCHANGED <<oport, ostatus, ocounter, curr_retry, oframe, iport, written, delivered, abandoned>>
      /\ toReceiver # <<>> /\ handling.pkts = <<>>
      /\ toReceiver' = Tail(toReceiver) /\ handling' = f
      /\ toSender' \in Sent(toSender, crc(f))
  BY DEF ReceiveFrame, ovars
<1>3. stream' = stream /\ W' = W /\ D' = D
  BY <1>2 DEF stream, W, D
<1>4. /\ o <= s /\ s <= W /\ s - o <= FrameCap /\ W - s <= FrameCap
  BY DEF Session, Window
<1>5. Others(A, B, oport) /\ Others(B, A, oport) /\ Others(F, G, oport) /\ Others(G, F, oport)
  <2>1. s <= Len(stream) /\ W <= Len(stream)
    BY <1>1, <1>4
  <2> QED
    BY <1>1, <1>4, <2>1, Apart
<1>6. /\ f \in A => crc(f) \in F
      /\ f \in B => crc(f) \in G
  BY DEF Acks
<1>7. /\ f \in A => o < s /\ f.port = oport /\ f.pkts = Stretch(stream, o, s)
      /\ f \in B => s < W /\ f.port = oport /\ f.pkts = Stretch(stream, s, W)
  BY DEF Frames, FrameOf
<1>8. toReceiver \in Seq(Frame) /\ toSender \in Seq(AckSet) /\ Len(toSender) <= MaxTransit
  BY <1>1 DEF Types
<1>9. f \in Frame /\ crc(f) \in AckSet /\ crc(f).port = f.port
  <2>1. f \in Frame
    BY <1>2, <1>8, TailOfQueue
  <2> QED
    BY <2>1 DEF AckSet, crc
<1>10. toSender' = toSender \/ toSender' = Append(toSender, crc(f))
  BY <1>2, <1>8, <1>9, SentType
<1> HIDE DEF A, B, F, G, f
<1>11. /\ Ordered(toReceiver, oport, A, B)
       /\ curr_retry = 0 /\ ostatus # "FREE" => None(toReceiver, B)
       /\ Ordered(toSender, oport, F, G)
       /\ curr_retry = 0 /\ ostatus # "FREE" => None(toSender, G)
       /\ None(toSender, G) \/ All(toReceiver, oport, B)
  BY DEF Session, FramesInv, AcksInv, A, B, F, G
<1>12. Ordered(toReceiver', oport, A, B) /\ (None(toReceiver, B) => None(toReceiver', B))
       /\ (None(toReceiver, A) => None(toReceiver', A))
       /\ (All(toReceiver, oport, B) => All(toReceiver', oport, B))
  BY <1>2, <1>8, <1>11, ChannelTail
<1>13. Window(o, s)'
  BY <1>2, <1>3 DEF Session, Window
<1>14. FramesInv(o, s)'
  BY <1>2, <1>3, <1>11, <1>12 DEF FramesInv, A, B
<1>15. ASSUME oport \notin abandoned
       PROVE  /\ e \in {s, W} /\ D = e
              /\ curr_retry = 0 /\ ostatus # "FREE" => e = s
              /\ None(toReceiver, A) \/ e = s
              /\ None(toSender, G) \/ e = W
              /\ iport # oport => D = W /\ W # 0 /\ stream[W] = "close"
  <2>1. Reaches(e)
    BY <1>15 DEF Session, ReceiverInv
  <2>2. D = e
    BY <1>2, <2>1 DEF Reaches
  <2> QED
    BY <1>15, <2>2 DEF Session, ReceiverInv, A, G
<1>16. CASE f.port # oport
  <2>1. /\ Ordered(toSender', oport, F, G)
        /\ None(toSender, G) => None(toSender', G)
    <3>1. CASE toSender' = toSender
      BY <1>11, <3>1
    <3>2. CASE toSender' = Append(toSender, crc(f))
      <4>1. crc(f).port # oport /\ crc(f) \notin G
        BY <1>5, <1>9, <1>16 DEF Others
      <4> QED
        BY <1>8, <1>9, <1>11, <3>2, <4>1, ChannelAppend
    <3> QED
      BY <1>10, <3>1, <3>2
  <2>2. AcksInv(o, s)'
    BY <1>2, <1>3, <1>11, <1>12, <2>1 DEF AcksInv, B, F, G
  <2>3. ReceiverInv(o, s, e)'
    <3> SUFFICES ASSUME oport \notin abandoned
                 PROVE  ReceiverInv(o, s, e)'
      BY <1>2 DEF ReceiverInv
    <3>1. Reaches(e)'
      BY <1>2, <1>3, <1>15, <1>16 DEF Reaches
    <3> QED
      BY <1>2, <1>3, <1>12, <1>15, <2>1, <3>1 DEF ReceiverInv, A, G
  <2> QED
    BY <1>13, <1>14, <2>2, <2>3 DEF Session
<1>17. CASE f \in A
  <2>1. /\ ~ None(toReceiver, A) /\ f \notin B /\ crc(f) \in F /\ crc(f) \notin G
        /\ o < s /\ f.port = oport /\ f.pkts = Stretch(stream, o, s)
    BY <1>2, <1>5, <1>6, <1>7, <1>8, <1>17, ChannelTail DEF f, Others
  <2>2. None(toSender, G)
    BY <1>2, <1>8, <1>11, <2>1, ChannelTail DEF f
  <2>3. Ordered(toSender', oport, F, G) /\ None(toSender', G)
    <3>1. CASE toSender' = toSender
      BY <1>11, <2>2, <3>1
    <3>2. CASE toSender' = Append(toSender, crc(f))
      BY <1>8, <1>9, <1>11, <2>1, <2>2, <3>2, ChannelAppend
    <3> QED
      BY <1>10, <3>1, <3>2
  <2>4. AcksInv(o, s)'
    BY <1>2, <1>3, <2>3 DEF AcksInv, F, G
  <2>5. ReceiverInv(o, s, e)'
    <3> SUFFICES ASSUME oport \notin abandoned
                 PROVE  ReceiverInv(o, s, e)'
      BY <1>2 DEF ReceiverInv
    <3>1. e = s /\ D = s
      BY <1>15, <2>1
    <3>2. /\ o \in 0 .. W /\ s \in 0 .. W /\ o < s /\ handling'.pkts = Stretch(stream, o, s)
          /\ D = e /\ s <= D /\ D - o < CounterMod
      BY <1>1, <1>2, <1>4, <2>1, <3>1, Sizes
    <3>3. Reaches(e)'
      BY <1>2, <1>3, <3>1, <3>2 DEF Reaches
    <3> QED
      BY <1>2, <1>3, <1>15, <2>3, <3>1, <3>3 DEF ReceiverInv, G
  <2> QED
    BY <1>13, <1>14, <2>4, <2>5 DEF Session
<1>18. CASE f \in B
  <2>1. /\ ~ None(toReceiver, B) /\ crc(f) \in G
        /\ s < W /\ f.port = oport /\ f.pkts = Stretch(stream, s, W)
    BY <1>2, <1>5, <1>6, <1>7, <1>8, <1>18, ChannelTail DEF f
  <2>2. All(toReceiver', oport, B)
    BY <1>2, <1>8, <1>11, <1>18, ChannelTail DEF f
  <2>3. None(toReceiver', A)
    BY <1>5, <2>2, AllNew
  <2>4. Ordered(toSender', oport, F, G)
    <3>1. CASE toSender' = toSender
      BY <1>11, <3>1
    <3>2. CASE toSender' = Append(toSender, crc(f))
      BY <1>8, <1>9, <1>11, <2>1, <3>2, ChannelAppend
    <3> QED
      BY <1>10, <3>1, <3>2
  <2>5. ~ (curr_retry' = 0 /\ ostatus' # "FREE")
    BY <1>2, <1>11, <2>1
  <2>6. AcksInv(o, s)'
    BY <1>2, <1>3, <2>2, <2>4, <2>5 DEF AcksInv, B, F, G
  <2>7. ReceiverInv(o, s, W)'
    <3> SUFFICES ASSUME oport \notin abandoned
                 PROVE  ReceiverInv(o, s, W)'
      BY <1>2 DEF ReceiverInv
    <3>1. D \in {s, W}
      BY <1>15
    <3>2. s \in 0 .. W /\ W \in 0 .. W /\ s < W /\ handling'.pkts = Stretch(stream, s, W)
      BY <1>1, <1>2, <1>4, <2>1
    <3>3. D # s => D = W /\ W <= D /\ D - s < CounterMod
      BY <1>1, <1>4, <3>1, Sizes
    <3>4. Reaches(W)'
      <4>1. \/ s = D' /\ W' = W'
            \/ D' = W' /\ W' <= D' /\ D' - s < CounterMod
        BY <1>3, <3>3
      <4>2. s \in 0 .. W' /\ W' \in 0 .. W' /\ s < W' /\ handling'.pkts = Stretch(stream', s, W')
        BY <1>3, <3>2
      <4>3. handling'.port = oport' /\ handling'.pkts # <<>>
        <5>1. W <= Len(stream)
          BY <1>1
        <5> QED
          BY <1>1, <1>2, <2>1, <3>2, <5>1, StretchHead
      <4> QED
        BY <4>1, <4>2, <4>3 DEF Reaches
    <3> QED
      BY <1>2, <1>3, <1>15, <2>3, <2>5, <3>4 DEF ReceiverInv, A
  <2> QED
    BY <1>13, <1>14, <2>6, <2>7 DEF Session
<1>19. f.port = oport => f \in A \cup B
  BY <1>2, <1>8, <1>11, ChannelTail DEF Ordered, f
<1> QED
  BY <1>16, <1>17, <1>18, <1>19

\* The packet jd_ipipe_handle_packet expects is the next one of the stream.
LEMMA ExpectedPacket ==
  ASSUME IInv, NEW o \in Nat, NEW s \in Nat, NEW e \in Nat, Session(o, s, e), oport # 0,
         handling.pkts # <<>>, Expected(Head(handling.pkts))
  PROVE  /\ iport = oport /\ handling.port = oport /\ oport \notin abandoned
         /\ D < e /\ e <= W /\ handling.pkts = Stretch(stream, D, e)
         /\ Head(handling.pkts) = [c |-> D % CounterMod, k |-> stream[D + 1], i |-> D + 1]
<1>1. /\ oport \in Nat /\ iport \in Nat /\ handling.port \in Nat
      /\ stream \in Seq(Kinds) /\ W \in Nat /\ W = Len(stream) /\ D \in Nat
  BY Basic DEF W
<1>2. iport # 0 /\ iport = handling.port /\ icounter = Head(handling.pkts).c
  BY DEF Expected
<1>3. /\ iport = 0 \/ oport <= iport
      /\ handling.port <= oport
      /\ iport \notin abandoned
      /\ iport # 0 => icounter = Len(delivered[iport]) % CounterMod
  BY DEF IInv, PortInv
<1>4. iport = oport /\ handling.port = oport /\ oport \notin abandoned
  BY <1>1, <1>2, <1>3
<1>5. icounter = D % CounterMod
  BY <1>2, <1>3, <1>4 DEF D
<1>6. Reaches(e)
  BY <1>4 DEF Session, ReceiverInv
<1>7. PICK a \in 0 .. W, b \in 0 .. W :
        /\ a < b /\ handling.pkts = Stretch(stream, a, b)
        /\ \/ a = D /\ b = e
           \/ D = e /\ b <= D /\ D - a < CounterMod
  BY <1>4, <1>6 DEF Reaches
<1>8. Head(handling.pkts) = [c |-> a % CounterMod, k |-> stream[a + 1], i |-> a + 1]
  <2>1. a \in Nat /\ b \in Nat /\ b <= Len(stream)
    BY <1>1
  <2> QED
    BY <1>1, <1>7, <2>1, StretchHead
<1>9. a % CounterMod = D % CounterMod
  BY <1>2, <1>5, <1>8
<1>10. ASSUME D = e, b <= D, D - a < CounterMod
       PROVE  FALSE
  <2>1. a \in Nat /\ a < D
    BY <1>1, <1>7, <1>10
  <2> QED
    BY <1>1, <1>9, <1>10, <2>1, Sizes, RemaindersDiffer
<1>11. a = D /\ b = e
  BY <1>7, <1>10
<1> QED
  BY <1>1, <1>4, <1>7, <1>8, <1>11

\* The receiver goes through a packet.
LEMMA PacketSession ==
  ASSUME IInv, NEW o \in Nat, NEW s \in Nat, NEW e \in Nat, Session(o, s, e), oport # 0,
         ReceivePacket
  PROVE  Session(o, s, e)'
<1> DEFINE pkt == Head(handling.pkts)
<1>1. /\ Types /\ oport \in Ports /\ stream \in Seq(Kinds) /\ W \in Nat /\ W = Len(stream)
      /\ D \in Nat
  BY Basic DEF W
<1>2. /\ UNCHANGED <<oport, ostatus, ocounter, curr_retry, oframe, toReceiver, toSender, written, abandoned>>
      /\ handling.pkts # <<>>
  BY DEF ReceivePacket, ovars
<1>3. handling'.port = handling.port /\ handling'.pkts = Tail(handling.pkts)
  <2>1. handling \in Frame
    BY <1>1 DEF Types
  <2> QED
    BY <2>1 DEF ReceivePacket, Frame
<1>4. stream' = stream /\ W' = W
  BY <1>2 DEF stream, W
<1>5. Window(o, s)' /\ FramesInv(o, s)' /\ AcksInv(o, s)'
  BY <1>2, <1>4 DEF Session, Window, FramesInv, AcksInv
<1>6. \/ ~ Expected(pkt) /\ UNCHANGED <<iport, icounter, delivered>>
      \/ /\ Expected(pkt)
         /\ delivered' = [delivered EXCEPT ![iport] = Append(@, <<pkt.i, pkt.k>>)]
         /\ IF pkt.k = "close" THEN iport' = 0 ELSE iport' = iport
  BY DEF ReceivePacket
<1>7. ReceiverInv(o, s, e)'
  <2> SUFFICES ASSUME oport \notin abandoned
               PROVE  ReceiverInv(o, s, e)'
    BY <1>2 DEF ReceiverInv
  <2>1. /\ e \in {s, W} /\ Reaches(e)
        /\ curr_retry = 0 /\ ostatus # "FREE" => e = s
        /\ None(toReceiver, Frames(oport, stream, o, s)) \/ e = s
        /\ None(toSender, Acks(oport, stream, s, W)) \/ e = W
        /\ iport # oport => D = W /\ W # 0 /\ stream[W] = "close"
    BY DEF Session, ReceiverInv
  <2>2. CASE ~ Expected(pkt) /\ UNCHANGED <<iport, icounter, delivered>>
    <3>1. D' = D
      BY <1>2, <2>2 DEF D
    <3>2. Reaches(e)'
      <4>1. CASE handling.port = oport
        <5>1. PICK a \in 0 .. W, b \in 0 .. W :
                /\ a < b /\ handling.pkts = Stretch(stream, a, b)
                /\ \/ a = D /\ b = e
                   \/ D = e /\ b <= D /\ D - a < CounterMod
          BY <1>2, <2>1, <4>1 DEF Reaches
        <5>2. /\ pkt = [c |-> a % CounterMod, k |-> stream[a + 1], i |-> a + 1]
              /\ Tail(handling.pkts) = Stretch(stream, a + 1, b)
          <6>1. a \in Nat /\ b \in Nat /\ b <= Len(stream)
            BY <1>1
          <6> QED
            BY <1>1, <5>1, <6>1, StretchHead
        <5>3. a # D
          <6>1. SUFFICES ASSUME a = D
                         PROVE  FALSE
            OBVIOUS
          <6>2. iport = oport
            BY <1>1, <2>1, <5>1, <6>1
          <6>3. icounter = D % CounterMod
            BY <1>1, <6>2 DEF IInv, PortInv, D
          <6>4. pkt.c = D % CounterMod
            BY <5>2, <6>1
          <6> QED
            BY <2>2, <4>1, <6>2, <6>3, <6>4 DEF Expected
        <5>4. D = e /\ b <= D /\ D - (a + 1) < CounterMod
          BY <1>1, <5>1, <5>3, Sizes
        <5>5. CASE a + 1 < b
          <6>1. a + 1 \in 0 .. W
            BY <1>1, <5>5
          <6> QED
            BY <1>3, <1>4, <3>1, <5>2, <5>4, <5>5, <6>1 DEF Reaches
        <5>6. CASE ~ (a + 1 < b)
          <6>1. a + 1 = b /\ b \in Nat /\ b <= Len(stream)
            BY <1>1, <5>1, <5>6
          <6>2. Tail(handling.pkts) = <<>>
            BY <1>1, <5>2, <6>1, StretchEmpty
          <6> QED
            BY <1>3, <3>1, <5>4, <6>2 DEF Reaches
        <5> QED
          BY <5>5, <5>6
      <4>2. CASE handling.port # oport
        BY <1>2, <1>3, <2>1, <3>1, <4>2 DEF Reaches
      <4> QED
        BY <4>1, <4>2
    <3> QED
      BY <1>2, <1>4, <2>1, <2>2, <3>1, <3>2 DEF ReceiverInv
  <2>3. CASE /\ Expected(pkt)
             /\ delivered' = [delivered EXCEPT ![iport] = Append(@, <<pkt.i, pkt.k>>)]
             /\ IF pkt.k = "close" THEN iport' = 0 ELSE iport' = iport
    <3>1. /\ iport = oport /\ handling.port = oport /\ D < e /\ e <= W
          /\ handling.pkts = Stretch(stream, D, e)
          /\ pkt = [c |-> D % CounterMod, k |-> stream[D + 1], i |-> D + 1]
      BY <1>2, <2>3, ExpectedPacket
    <3>2. D' = D + 1
      <4>1. delivered \in [Ports -> Seq(Nat \X Kinds)]
        BY <1>1 DEF Types
      <4>2. <<pkt.i, pkt.k>> \in Nat \X Kinds
        <5>1. D + 1 \in Nat /\ D + 1 \in 1 .. Len(stream)
          BY <1>1, <3>1
        <5>2. stream[D + 1] \in Kinds
          BY <1>1, <5>1
        <5> QED
          BY <3>1, <5>1, <5>2
      <4>3. delivered'[oport] = Append(delivered[oport], <<pkt.i, pkt.k>>)
        BY <1>1, <2>3, <3>1, <4>1
      <4>4. delivered[oport] \in Seq(Nat \X Kinds)
        BY <1>1, <4>1
      <4> HIDE DEF pkt
      <4>5. Len(Append(delivered[oport], <<pkt.i, pkt.k>>)) = Len(delivered[oport]) + 1
        BY <4>2, <4>4, AppendProperties
      <4> QED
        BY <1>2, <4>3, <4>5 DEF D
    <3>3. Tail(handling.pkts) = Stretch(stream, D + 1, e)
      <4>1. e <= Len(stream)
        BY <1>1, <3>1
      <4> QED
        BY <1>1, <3>1, <4>1, StretchHead
    <3>4. Reaches(e)'
      <4>1. CASE D + 1 < e
        <5>1. D + 1 \in 0 .. W /\ e \in 0 .. W
          BY <1>1, <3>1, <4>1
        <5>2. Tail(handling.pkts) # <<>>
          <6> DEFINE n == D + 1
          <6>1. e <= Len(stream) /\ n \in Nat /\ n < e
            BY <1>1, <3>1, <4>1
          <6> HIDE DEF n
          <6>2. Stretch(stream, n, e) # <<>>
            BY <1>1, <6>1, StretchHead
          <6> QED
            BY <3>3, <6>2 DEF n
        <5> QED
          BY <1>2, <1>3, <1>4, <3>1, <3>2, <3>3, <4>1, <5>1, <5>2 DEF Reaches
      <4>2. CASE D + 1 = e
        <5>1. Tail(handling.pkts) = <<>>
          <6>1. e <= Len(stream)
            BY <1>1, <3>1
          <6> QED
            BY <1>1, <3>3, <4>2, <6>1, StretchEmpty
        <5> QED
          BY <1>2, <1>3, <3>2, <4>2, <5>1 DEF Reaches
      <4> QED
        BY <1>1, <3>1, <4>1, <4>2
    <3>5. iport' # oport => D' = W /\ W # 0 /\ stream[W] = "close"
      <4> SUFFICES ASSUME pkt.k = "close"
                   PROVE  D' = W /\ W # 0 /\ stream[W] = "close"
        BY <2>3, <3>1
      <4>1. stream[D + 1] = "close" /\ D + 1 \in 1 .. Len(stream)
        BY <1>1, <3>1
      <4>2. D + 1 = Len(stream)
        BY <1>1, <4>1 DEF IInv, StatusInv, CloseIsLast, stream
      <4> QED
        BY <1>1, <3>2, <4>1, <4>2
    <3> QED
      BY <1>2, <1>4, <2>1, <3>4, <3>5 DEF ReceiverInv
  <2> QED
    BY <1>6, <2>2, <2>3
<1> QED
  BY <1>5, <1>7 DEF Session

------------------------------------------------------------------------------
(* The inductive invariant. *)

\* A packet is written only where no closing packet is, and the closing one last.
LEMMA PushStatus ==
  ASSUME IInv, ostatus \in {"OPEN", "CLOSED_UNSENT"}, NEW frame \in Seq(Packet),
         Len(frame) < FrameCap, NEW k \in Kinds, Push(frame, k), UNCHANGED oport,
         k = "close" => ostatus' = "CLOSED_WAITING"
  PROVE  /\ CloseIsLast'
         /\ oport # 0 /\ oframe' # <<>>
         /\ k = "close" => W' # 0 /\ stream'[W'] = "close"
<1>1. oport # 0
  BY DEF IInv, StatusInv
<1>2. Types /\ oport \in Ports /\ stream \in Seq(Kinds) /\ W \in Nat /\ W = Len(stream)
  BY <1>1, Basic DEF W
<1>3. /\ oframe' # <<>>
      /\ written'[oport] = Append(stream, k)
      /\ \A p \in Ports : p # oport => written'[p] = written[p]
  BY <1>1, <1>2, PushType DEF stream
<1>4. /\ Len(written'[oport]) = W + 1 /\ written'[oport][W + 1] = k
      /\ \A i \in 1 .. W : written'[oport][i] = stream[i]
  BY <1>2, <1>3, AppendProperties
<1>5. \A i \in 1 .. W : stream[i] # "close"
  BY <1>2 DEF IInv, StatusInv, CloseIsLast, stream
<1>6. CloseIsLast'
  <2> SUFFICES ASSUME NEW p \in Ports, NEW i \in 1 .. Len(written'[p]), written'[p][i] = "close"
               PROVE  /\ i = Len(written'[p])
                      /\ p = oport => ostatus' \notin {"OPEN", "CLOSED_UNSENT"}
    BY DEF CloseIsLast
  <2>1. CASE p = oport
    <3>1. i \in 1 .. W + 1 /\ i \notin 1 .. W
      BY <1>4, <1>5, <2>1
    <3>2. i = W + 1
      BY <1>2, <3>1
    <3> QED
      BY <1>4, <2>1, <3>2
  <2>2. CASE p # oport
    BY <1>3, <2>2 DEF IInv, StatusInv, CloseIsLast
  <2> QED
    BY <2>1, <2>2
<1>7. k = "close" => W' # 0 /\ stream'[W'] = "close"
  <2>1. stream' = written'[oport] /\ W' = W + 1
    BY <1>4 DEF stream, W
  <2> QED
    BY <1>2, <1>4, <2>1
<1> QED
  BY <1>1, <1>3, <1>6, <1>7

\* jd_opipe_send_close_pkt and the sender's states.
LEMMA SendCloseStatus ==
  ASSUME IInv, ostatus \in {"OPEN", "CLOSED_UNSENT"}, NEW retry \in Nat,
         NEW frame \in Seq(Packet), retry # 0 => frame # <<>>,
         SendClosePkt(retry, frame), UNCHANGED oport
  PROVE  StatusInv'
<1>1. oport # 0
  BY DEF IInv, StatusInv
<1>2. CASE ostatus' = "CLOSED_UNSENT" /\ curr_retry' # 0 /\ oframe' = frame /\ frame # <<>>
           /\ UNCHANGED written
  <2>1. CloseIsLast'
    BY <1>2 DEF IInv, StatusInv, CloseIsLast
  <2> QED
    BY <1>1, <1>2, <2>1 DEF StatusInv
<1>3. CASE retry = 0 /\ Len(frame) < FrameCap /\ Push(frame, "close")
           /\ ostatus' = "CLOSED_WAITING" /\ curr_retry' = 1
  <2>1. CloseIsLast' /\ oframe' # <<>> /\ W' # 0 /\ stream'[W'] = "close"
    BY <1>3, PushStatus DEF Kinds
  <2> QED
    BY <1>1, <1>3, <2>1 DEF StatusInv
<1> QED
  BY <1>2, <1>3 DEF SendClosePkt

\* Every step keeps the sender's states as they should be.
LEMMA StatusStep == IInv /\ [Next]_vars => StatusInv'
<1> SUFFICES ASSUME IInv, [Next]_vars
             PROVE  StatusInv'
  OBVIOUS
<1>1. StatusInv /\ CloseIsLast
  BY DEF IInv, StatusInv
<1>2. Types
  BY Basic
<1>3. UNCHANGED <<oport, written>> => stream' = stream /\ W' = W
  BY DEF stream, W
<1>4. UNCHANGED <<oport, written>> /\ (ostatus' \in {ostatus, "DROPPED", "FREE"}) => CloseIsLast'
  BY <1>1 DEF CloseIsLast
<1>5. UNCHANGED <<ovars, written>> => StatusInv'
  BY <1>1, <1>3, <1>4 DEF StatusInv, ovars
<1>6. oframe \in Seq(Packet) /\ curr_retry \in Nat
  BY <1>2, Sizes DEF Types
<1>7. CASE Open
  <2>1. written[iport] = <<>> /\ iport # 0 /\ iport \in Ports
    <3>1. oport \in Nat /\ iport \in Nat /\ iport \in Ports \cup {0}
      BY <1>2, Basic DEF Types
    <3>2. iport > oport
      BY <1>7 DEF Open
    <3>3. iport # 0 /\ iport \in Ports
      BY <3>1, <3>2
    <3> QED
      BY <3>2, <3>3 DEF IInv, PortInv
  <2>2. CloseIsLast'
    BY <1>1, <1>7, <2>1 DEF Open, CloseIsLast
  <2> QED
    BY <1>7, <2>1, <2>2 DEF Open, StatusInv
<1>8. CASE Write
  <2>1. CloseIsLast' /\ oport # 0
    BY <1>6, <1>8, PushStatus DEF Write, Kinds
  <2> QED
    BY <1>8, <2>1 DEF Write, StatusInv
<1>9. CASE Flush
  BY <1>1, <1>3, <1>4, <1>9 DEF Flush, StatusInv
<1>10. CASE Close
  <2>1. CASE ostatus = "DROPPED"
    BY <1>1, <1>4, <1>10, <2>1 DEF Close, StatusInv
  <2>2. CASE ostatus \in {"OPEN", "CLOSED_UNSENT"} /\ SendClosePkt(curr_retry, oframe)
    BY <1>1, <1>6, <1>10, <2>2, SendCloseStatus DEF Close, StatusInv
  <2> QED
    BY <1>10, <2>1, <2>2 DEF Close
<1>11. CASE Process
  <2>1. ostatus' \in {ostatus, "DROPPED"} /\ curr_retry' # 0 /\ curr_retry # 0 /\ ostatus # "FREE"
    BY <1>1, <1>6, <1>11 DEF Process, StatusInv
  <2> QED
    BY <1>1, <1>3, <1>4, <1>11, <2>1 DEF Process, StatusInv
<1>12. CASE HandleAck
  <2>1. CASE UNCHANGED <<ovars, written>>
    BY <1>5, <2>1
  <2>2. CASE ostatus \in {"OPEN", "DROPPED"} /\ curr_retry' = 0 /\ oframe' = <<>>
             /\ UNCHANGED <<oport, ostatus, ocounter, written>>
    BY <1>1, <1>3, <1>4, <2>2 DEF StatusInv
  <2>3. CASE ostatus' = "FREE" /\ curr_retry' = 0 /\ oframe' = <<>> /\ UNCHANGED <<oport, written>>
    BY <1>1, <1>3, <1>4, <2>3 DEF StatusInv
  <2>4. CASE ostatus = "CLOSED_UNSENT" /\ SendClosePkt(0, <<>>) /\ UNCHANGED oport
    <3>1. <<>> \in Seq(Packet) /\ 0 \in Nat
      OBVIOUS
    <3> QED
      BY <2>4, <3>1, SendCloseStatus
  <2> QED
    BY <1>12, <2>1, <2>2, <2>3, <2>4 DEF HandleAck
<1>13. CASE IOpen \/ IClose \/ ReceiveFrame \/ ReceivePacket \/ UNCHANGED vars
  BY <1>5, <1>13 DEF IOpen, IClose, ReceiveFrame, ReceivePacket, vars
<1> QED
  BY <1>7, <1>8, <1>9, <1>10, <1>11, <1>12, <1>13 DEF Next

\* The packets written to ports other than the sender's stay as they are.
LEMMA WrittenStep ==
  ASSUME IInv, [Next]_vars
  PROVE  /\ \A p \in Ports : p # oport => written'[p] = written[p]
         /\ oport # 0 =>
              \/ written'[oport] = stream
              \/ \E k \in Kinds : written'[oport] = Append(stream, k)
<1>1. Types
  BY Basic
<1>2. ASSUME NEW frame, NEW k \in Kinds, Push(frame, k)
      PROVE  /\ \A p \in Ports : p # oport => written'[p] = written[p]
             /\ oport # 0 => written'[oport] = Append(stream, k)
  BY <1>1, <1>2 DEF Push, Types, stream
<1>3. \/ UNCHANGED written
      \/ \E k \in Kinds, frame \in {oframe, <<>>} : Push(frame, k)
  BY DEF Next, Open, Write, Flush, Close, SendClosePkt, Process, HandleAck, IOpen, IClose,
         ReceiveFrame, ReceivePacket, vars, Kinds
<1> QED
  BY <1>2, <1>3 DEF stream

\* The handlers are given the packets of the stream in order.
LEMMA DeliveredStep ==
  ASSUME IInv, [Next]_vars, NEW p \in Ports
  PROVE  /\ Len(delivered'[p]) <= Len(written'[p])
         /\ \A j \in 1 .. Len(delivered'[p]) : delivered'[p][j] = <<j, written'[p][j]>>
<1>1. Types /\ oport \in Nat
  BY Basic
<1>2. /\ delivered[p] \in Seq(Nat \X Kinds) /\ written[p] \in Seq(Kinds)
      /\ Len(delivered[p]) \in Nat /\ Len(written[p]) \in Nat
  BY <1>1 DEF Types
<1>3. /\ Len(delivered[p]) <= Len(written[p])
      /\ \A j \in 1 .. Len(delivered[p]) : delivered[p][j] = <<j, written[p][j]>>
  BY DEF IInv, ExactlyOnceInOrder
<1>4. /\ Len(written'[p]) \in Nat /\ Len(written'[p]) >= Len(written[p])
      /\ \A j \in 1 .. Len(written[p]) : written'[p][j] = written[p][j]
  <2>1. CASE written'[p] = written[p]
    BY <1>2, <2>1
  <2>2. CASE p = oport /\ \E k \in Kinds : written'[p] = Append(written[p], k)
    BY <1>2, <2>2, AppendProperties
  <2>3. p = oport => oport # 0
    BY Sizes DEF Ports
  <2>4. \/ written'[p] = written[p]
        \/ p = oport /\ \E k \in Kinds : written'[p] = Append(written[p], k)
    BY <2>3, WrittenStep DEF stream
  <2> QED
    BY <2>1, <2>2, <2>4
<1>5. CASE delivered'[p] = delivered[p]
  BY <1>2, <1>3, <1>4, <1>5
<1>6. CASE delivered'[p] # delivered[p]
  <2> DEFINE pkt == Head(handling.pkts)
  <2>1. ReceivePacket
    BY <1>6 DEF Next, Open, Write, Flush, Close, Process, HandleAck, IOpen, IClose,
                ReceiveFrame, vars
  <2>2. /\ Expected(pkt) /\ handling.pkts # <<>> /\ UNCHANGED written
        /\ delivered' = [delivered EXCEPT ![iport] = Append(@, <<pkt.i, pkt.k>>)]
    BY <1>6, <2>1 DEF ReceivePacket
  <2>3. iport # 0 /\ handling.port = iport /\ handling.port <= oport
    BY <2>2 DEF Expected, IInv, PortInv
  <2>4. oport # 0
    BY <1>1, <2>3, Basic
  <2>5. PICK o \in Nat, s \in Nat, e \in Nat : Session(o, s, e)
    BY <2>4 DEF IInv, SessionInv
  <2>6. /\ iport = oport /\ D < e /\ e <= W
        /\ pkt = [c |-> D % CounterMod, k |-> stream[D + 1], i |-> D + 1]
    BY <2>2, <2>4, <2>5, ExpectedPacket
  <2>7. D \in Nat /\ W \in Nat /\ oport \in Ports
    BY <2>4, Basic
  <2>8. p = oport
    BY <1>6, <2>2, <2>6
  <2>9. pkt.i = D + 1 /\ pkt.k = stream[D + 1]
    BY <2>6
  <2>10. delivered'[p] = Append(delivered[p], <<D + 1, stream[D + 1]>>)
    <3>1. delivered \in [Ports -> Seq(Nat \X Kinds)]
      BY <1>1 DEF Types
    <3> QED
      BY <2>2, <2>6, <2>8, <2>9, <3>1
  <2>11. <<D + 1, stream[D + 1]>> \in Nat \X Kinds
    <3>1. D + 1 \in 1 .. W
      BY <2>5, <2>6, <2>7
    <3>2. stream[D + 1] \in Kinds
      BY <1>2, <2>8, <3>1 DEF stream, W
    <3> QED
      BY <2>7, <3>2
  <2>12. /\ Len(delivered'[p]) = D + 1
         /\ delivered'[p][D + 1] = <<D + 1, stream[D + 1]>>
         /\ \A j \in 1 .. D : delivered'[p][j] = delivered[p][j]
    BY <1>2, <2>8, <2>10, <2>11, AppendProperties DEF D
  <2>13. Len(delivered'[p]) <= Len(written'[p])
    BY <2>2, <2>5, <2>6, <2>7, <2>8, <2>12 DEF W, stream
  <2>14. ASSUME NEW j \in 1 .. D + 1
         PROVE  delivered'[p][j] = <<j, written'[p][j]>>
    <3>1. CASE j \in 1 .. D
      BY <1>3, <2>2, <2>8, <2>12, <3>1 DEF D
    <3>2. CASE j = D + 1
      BY <2>2, <2>8, <2>12, <3>2 DEF stream
    <3> QED
      BY <2>7, <3>1, <3>2
  <2> QED
    BY <2>12, <2>13, <2>14
<1> QED
  BY <1>5, <1>6

\* Every step leaves the ports in order.
LEMMA PortStep == IInv /\ [Next]_vars => PortInv'
<1> SUFFICES ASSUME IInv, [Next]_vars
             PROVE  PortInv'
  OBVIOUS
<1>1. /\ Types /\ oport \in Nat /\ iport \in Nat /\ ports \in Nat /\ handling.port \in Nat
      /\ Ports \subseteq Nat \ {0}
  BY Basic, Sizes DEF Ports
<1>2. /\ iport = 0 \/ oport <= iport
      /\ iport <= ports /\ oport <= ports /\ abandoned \subseteq 1 .. ports
      /\ iport \notin abandoned
      /\ iport # 0 => icounter = Len(delivered[iport]) % CounterMod
      /\ handling.port <= oport
      /\ Below(toReceiver, oport) /\ Below(toSender, oport)
  BY DEF IInv, PortInv
<1>3. \A p \in Ports : p > oport => written[p] = <<>> /\ delivered[p] = <<>>
  BY DEF IInv, PortInv
<1>4. oport' \in Nat /\ oport' >= oport /\ (oport' = oport \/ (Open /\ oport' = iport))
  BY <1>1 DEF Next, Open, Write, Flush, Close, Process, HandleAck, IOpen, IClose, ReceiveFrame,
              ReceivePacket, vars, ovars
<1> DEFINE Untouched == \A p \in Ports : p > oport => written[p] = <<>> /\ delivered[p] = <<>>
           Buses == handling.port <= oport /\ Below(toReceiver, oport) /\ Below(toSender, oport)
           Receiver == /\ iport = 0 \/ oport <= iport
                       /\ iport <= ports /\ oport <= ports /\ abandoned \subseteq 1 .. ports
                       /\ iport \notin abandoned
                       /\ iport # 0 => icounter = Len(delivered[iport]) % CounterMod
<1>5. Untouched'
  <2> SUFFICES ASSUME NEW p \in Ports, p > oport'
               PROVE  written'[p] = <<>> /\ delivered'[p] = <<>>
    OBVIOUS
  <2>1. p # oport /\ written[p] = <<>> /\ delivered[p] = <<>>
    BY <1>1, <1>3, <1>4
  <2>2. written'[p] = <<>>
    BY <2>1, WrittenStep
  <2>3. Len(delivered'[p]) <= 0
    BY <2>2, DeliveredStep
  <2>4. delivered'[p] \in Seq(Nat \X Kinds)
    BY TypeStep DEF Types
  <2> QED
    BY <2>2, <2>3, <2>4
<1>6. Buses'
  <2>1. CASE UNCHANGED <<handling, toReceiver, toSender>>
    <3>1. Below(toReceiver, oport') /\ Below(toSender, oport')
      BY <1>1, <1>2, <1>4, MessagePorts, BelowGrows
    <3> QED
      BY <1>1, <1>2, <1>4, <2>1, <3>1
  <2>2. CASE Process
    <3> DEFINE f == [port |-> oport, pkts |-> oframe]
    <3>1. /\ f \in Frame /\ toReceiver \in Seq(Frame) /\ Len(toReceiver) <= MaxTransit
          /\ f.port <= oport
      BY <1>1 DEF Types, Frame
    <3>2. toReceiver' = toReceiver \/ toReceiver' \in Sent(toReceiver, f)
      BY <2>2 DEF Process
    <3> HIDE DEF f
    <3>3. toReceiver' = toReceiver \/ toReceiver' = Append(toReceiver, f)
      BY <3>1, <3>2, SentType
    <3>4. Below(toReceiver', oport)
      BY <1>1, <1>2, <3>1, <3>3, BelowAppend
    <3> QED
      BY <1>2, <2>2, <3>4 DEF Process, ivars
  <2>3. CASE HandleAck
    <3>1. toSender \in Seq(AckSet) /\ toSender # <<>> /\ toSender' = Tail(toSender)
      BY <1>1, <2>3 DEF Types, HandleAck
    <3>2. Below(toSender', oport)
      BY <1>1, <1>2, <3>1, BelowTail
    <3>3. UNCHANGED <<oport, handling, toReceiver>>
      BY <2>3 DEF HandleAck, ovars, ivars
    <3> QED
      BY <1>2, <3>2, <3>3
  <2>4. CASE ReceiveFrame
    <3> DEFINE f == Head(toReceiver)
    <3>1. /\ toReceiver \in Seq(Frame) /\ toReceiver # <<>> /\ toReceiver' = Tail(toReceiver)
          /\ toSender \in Seq(AckSet) /\ Len(toSender) <= MaxTransit
          /\ toSender' \in Sent(toSender, crc(f)) /\ handling' = f
          /\ UNCHANGED oport
      BY <1>1, <2>4 DEF Types, ReceiveFrame, ovars
    <3>2. f \in Frame /\ f.port <= oport /\ Below(toReceiver', oport)
      BY <1>1, <1>2, <3>1, TailOfQueue, BelowTail
    <3> HIDE DEF f
    <3>3. crc(f) \in AckSet /\ crc(f).port <= oport
      BY <3>2 DEF AckSet, crc
    <3>4. toSender' = toSender \/ toSender' = Append(toSender, crc(f))
      BY <3>1, <3>3, SentType
    <3>5. Below(toSender', oport)
      BY <1>1, <1>2, <3>1, <3>3, <3>4, BelowAppend
    <3> QED
      BY <3>1, <3>2, <3>5
  <2>5. CASE ReceivePacket
    <3>1. handling'.port = handling.port /\ UNCHANGED <<oport, toReceiver, toSender>>
      BY <1>1, <2>5 DEF ReceivePacket, Types, Frame, ovars
    <3> QED
      BY <1>2, <3>1
  <2> QED
    BY <2>1, <2>2, <2>3, <2>4, <2>5
    DEF Next, Open, Write, Flush, Close, IOpen, IClose, vars, ivars
<1>7. Receiver'
  <2>1. CASE Open
    BY <1>1, <1>2, <2>1 DEF Open, ivars
  <2>2. CASE UNCHANGED <<oport, iport, icounter, delivered, ports, abandoned>>
    BY <1>2, <2>2
  <2>3. CASE IOpen
    <3>1. /\ ports' = ports + 1 /\ iport' = ports + 1 /\ icounter' = 0 /\ oport' = oport
          /\ delivered' = delivered
      BY <2>3 DEF IOpen, ovars
    <3>2. abandoned' \subseteq 1 .. ports
      BY <1>1, <1>2, <2>3 DEF IOpen, Freed
    <3>3. ports + 1 \in Ports
      BY <1>1, <2>3, Sizes DEF IOpen, Ports
    <3>4. Len(delivered[ports + 1]) = 0
      <4>1. delivered[ports + 1] = <<>>
        BY <1>1, <1>2, <1>3, <3>3
      <4> QED
        BY <4>1
    <3>5. 0 % CounterMod = 0
      BY Sizes
    <3>6. iport' \notin abandoned' /\ abandoned' \subseteq 1 .. ports'
      BY <1>1, <3>1, <3>2
    <3>7. iport' <= ports' /\ oport' <= ports' /\ oport' <= iport'
      BY <1>1, <1>2, <3>1
    <3> QED
      BY <3>1, <3>4, <3>5, <3>6, <3>7
  <2>4. CASE IClose
    <3>1. iport' = 0 /\ ports' = ports /\ oport' = oport
      BY <2>4 DEF IClose, ovars
    <3>2. abandoned' \subseteq 1 .. ports
      BY <1>1, <1>2, <2>4 DEF IClose, Freed
    <3> QED
      BY <1>1, <1>2, <3>1, <3>2
  <2>5. CASE ReceivePacket
    <3> DEFINE pkt == Head(handling.pkts)
    <3>1. UNCHANGED <<oport, ports, abandoned>>
      BY <2>5 DEF ReceivePacket, ovars
    <3>2. \/ UNCHANGED <<iport, icounter, delivered>>
          \/ iport' = 0
          \/ /\ iport # 0 /\ iport' = iport /\ icounter' = NextCounter(icounter)
             /\ delivered' = [delivered EXCEPT ![iport] = Append(@, <<pkt.i, pkt.k>>)]
      BY <2>5 DEF ReceivePacket, Expected
    <3>3. CASE UNCHANGED <<iport, icounter, delivered>>
      BY <1>2, <3>1, <3>3
    <3>4. CASE iport' = 0
      BY <1>1, <1>2, <3>1, <3>4
    <3>5. CASE /\ iport # 0 /\ iport' = iport /\ icounter' = NextCounter(icounter)
               /\ delivered' = [delivered EXCEPT ![iport] = Append(@, <<pkt.i, pkt.k>>)]
      <4>1. iport \in Ports /\ delivered \in [Ports -> Seq(Nat \X Kinds)]
        BY <1>1, <3>5 DEF Types
      <4>2. delivered[iport] \in Seq(Nat \X Kinds)
        BY <4>1
      <4>3. <<pkt.i, pkt.k>> \in Nat \X Kinds
        <5>1. handling.pkts \in Seq(Packet) /\ handling.pkts # <<>>
          BY <1>1, <2>5 DEF Types, Frame, ReceivePacket
        <5>2. pkt \in Packet
          BY <5>1, TailOfQueue
        <5> QED
          BY <5>2 DEF Packet
      <4>4. delivered'[iport] = Append(delivered[iport], <<pkt.i, pkt.k>>)
        BY <3>5, <4>1
      <4> HIDE DEF pkt
      <4>5. Len(delivered'[iport]) = Len(delivered[iport]) + 1
        BY <4>2, <4>3, <4>4, AppendProperties
      <4>6. icounter' = ((Len(delivered[iport]) % CounterMod) + 1) % CounterMod
        BY <1>2, <3>5 DEF NextCounter
      <4>7. icounter' = (Len(delivered[iport]) + 1) % CounterMod
        <5>1. Len(delivered[iport]) \in Nat
          BY <4>2
        <5> QED
          BY <4>6, <5>1, Sizes, SuccessorOfRemainder
      <4> QED
        BY <1>2, <3>1, <3>5, <4>5, <4>7
    <3> QED
      BY <3>2, <3>3, <3>4, <3>5
  <2>6. Write \/ Flush \/ Close \/ Process \/ HandleAck \/ ReceiveFrame \/ UNCHANGED vars =>
          UNCHANGED <<oport, iport, icounter, delivered, ports, abandoned>>
    BY DEF Write, Flush, Close, Process, HandleAck, ReceiveFrame, vars, ivars, ovars
  <2> QED
    BY <2>1, <2>2, <2>3, <2>4, <2>5, <2>6 DEF Next
<1> QED
  BY <1>5, <1>6, <1>7 DEF PortInv

\* Every step leaves a session.
LEMMA SessionStep == IInv /\ [Next]_vars => SessionInv'
<1> SUFFICES ASSUME IInv, [Next]_vars, oport' # 0
             PROVE  \E o, s, e \in Nat : Session(o, s, e)'
  BY DEF SessionInv
<1>1. CASE Open
  BY <1>1, OpenSession
<1>2. CASE ~ Open
  <2>1. oport' = oport
    BY <1>2 DEF Next, Write, Flush, Close, Process, HandleAck, IOpen, IClose, ReceiveFrame,
                ReceivePacket, vars, ovars
  <2>2. oport # 0
    BY <2>1
  <2>3. PICK o \in Nat, s \in Nat, e \in Nat : Session(o, s, e)
    BY <2>2 DEF IInv, SessionInv
  <2>4. /\ Types /\ stream \in Seq(Kinds) /\ W \in Nat /\ W = Len(stream) /\ oframe \in Seq(Packet)
    BY <2>2, Basic DEF W, Types
  <2>5. curr_retry # 0 => ostatus # "FREE" /\ oframe # <<>>
    BY DEF IInv, StatusInv
  <2>6. CASE Write
    <3>1. /\ ostatus = "OPEN" /\ curr_retry = 0 /\ Len(oframe) < FrameCap /\ Push(oframe, "data")
          /\ UNCHANGED <<oport, ivars, delivered, abandoned, toReceiver, toSender>>
          /\ "data" \in Kinds
      BY <2>6 DEF Write, Kinds
    <3>2. /\ o <= s /\ s <= W /\ s - o <= FrameCap /\ W - s = Len(oframe)
          /\ oframe = Stretch(stream, s, W) /\ ocounter = W % CounterMod
          /\ All(toReceiver', oport, Frames(oport, stream, o, s))
          /\ All(toSender', oport, Acks(oport, stream, o, s))
          /\ oport \notin abandoned => Reaches(s) /\ iport = oport
      BY <2>2, <2>3, <3>1, IdleSession
    <3>3. Session(o, s, s)'
      BY <2>2, <3>1, <3>2, PushSession
    <3> QED
      BY <3>3
  <2>7. CASE Flush
    <3>1. Session(o, s, e)'
      BY <2>2, <2>3, <2>7, QuietSession DEF Flush
    <3> QED
      BY <3>1
  <2>8. CASE Close
    <3>1. CASE ostatus = "DROPPED"
      <4>1. Session(o, s, e)'
        BY <2>2, <2>3, <2>8, <3>1, QuietSession DEF Close
      <4> QED
        BY <4>1
    <3>2. CASE ostatus \in {"OPEN", "CLOSED_UNSENT"} /\ SendClosePkt(curr_retry, oframe)
      <4>1. CASE /\ curr_retry' # 0 /\ oframe' = oframe /\ UNCHANGED <<ocounter, written>>
        <5>1. Session(o, s, e)'
          BY <2>2, <2>3, <2>8, <3>2, <4>1, QuietSession DEF Close
        <5> QED
          BY <5>1
      <4>2. CASE curr_retry = 0 /\ Len(oframe) < FrameCap /\ Push(oframe, "close")
        <5>1. /\ UNCHANGED <<oport, ivars, delivered, abandoned, toReceiver, toSender>>
              /\ "close" \in Kinds
          BY <2>8 DEF Close, Kinds
        <5>2. /\ o <= s /\ s <= W /\ s - o <= FrameCap /\ W - s = Len(oframe)
              /\ oframe = Stretch(stream, s, W) /\ ocounter = W % CounterMod
              /\ All(toReceiver', oport, Frames(oport, stream, o, s))
              /\ All(toSender', oport, Acks(oport, stream, o, s))
              /\ oport \notin abandoned => Reaches(s) /\ iport = oport
          BY <2>2, <2>3, <3>2, <4>2, <5>1, IdleSession
        <5>3. Session(o, s, s)'
          BY <2>2, <4>2, <5>1, <5>2, PushSession
        <5> QED
          BY <5>3
      <4> QED
        BY <3>2, <4>1, <4>2 DEF SendClosePkt
    <3> QED
      BY <2>8, <3>1, <3>2 DEF Close
  <2>9. CASE Process
    <3> DEFINE f == [port |-> oport, pkts |-> oframe]
    <3>1. /\ curr_retry # 0 /\ curr_retry' # 0 /\ ostatus' # "FREE"
          /\ UNCHANGED <<oport, ocounter, oframe, ivars, toSender, written, delivered, abandoned>>
          /\ toReceiver' = toReceiver \/ toReceiver' \in Sent(toReceiver, f)
      <4>1. curr_retry \in Nat
        BY <2>4 DEF Types
      <4> QED
        BY <2>5, <2>9, <4>1 DEF Process
    <3>2. oframe = Stretch(stream, s, W) /\ s <= W /\ oframe # <<>>
      BY <2>3, <2>5, <3>1 DEF Session, Window
    <3>3. s < W
      <4>1. s # W
        BY <2>4, <3>2, StretchEmpty
      <4> QED
        BY <2>4, <3>2, <4>1
    <3>4. toReceiver' = toReceiver \/ toReceiver' = Append(toReceiver, FrameOf(oport, stream, s, W))
      <4>1. f = FrameOf(oport, stream, s, W)
        BY <3>2 DEF FrameOf
      <4>2. toReceiver' = toReceiver \/ toReceiver' = Append(toReceiver, f)
        BY <3>1 DEF Sent
      <4> QED
        BY <4>1, <4>2
    <3>5. Session(o, s, e)'
      BY <2>2, <2>3, <2>5, <3>1, <3>3, <3>4, QuietSession
    <3> QED
      BY <3>5
  <2>10. CASE HandleAck
    <3>1. /\ toSender # <<>> /\ toSender' = Tail(toSender)
          /\ UNCHANGED <<oport, ivars, toReceiver, delivered, abandoned>>
      BY <2>1, <2>10 DEF HandleAck
    <3>2. CASE UNCHANGED <<ovars, written>>
      <4>1. UNCHANGED <<ostatus, oport, ocounter, curr_retry, oframe, written>>
        BY <3>2 DEF ovars
      <4>2. Session(o, s, e)'
        BY <2>2, <2>3, <3>1, <4>1, QuietSession
      <4> QED
        BY <4>2
    <3>3. CASE /\ AckMatches(Head(toSender)) /\ curr_retry' = 0 /\ oframe' = <<>> /\ UNCHANGED written
               /\ ostatus' # "FREE" => ocounter' = ocounter
      <4>1. Session(s, W, W)'
        BY <2>2, <2>3, <3>1, <3>3, NextSession
      <4>2. W' = W
        BY <3>1, <3>3 DEF W, stream
      <4> QED
        BY <2>4, <4>1, <4>2
    <3>4. CASE AckMatches(Head(toSender)) /\ ostatus = "CLOSED_UNSENT" /\ SendClosePkt(0, <<>>)
      <4>1. Push(<<>>, "close") /\ "close" \in Kinds
        BY <3>4 DEF SendClosePkt, Kinds
      <4>2. /\ s < W /\ W - s <= FrameCap /\ ocounter = W % CounterMod
            /\ All(toReceiver', oport, Frames(oport, stream, s, W))
            /\ All(toSender', oport, Acks(oport, stream, s, W))
            /\ oport \notin abandoned => e = W /\ Reaches(W)
        BY <2>2, <2>3, <3>1, <3>4, AckedSession
      <4>3. oport \notin abandoned => iport = oport
        <5>1. W # 0 => stream[W] # "close"
          <6>1. W # 0 => W \in 1 .. Len(written[oport])
            BY <2>4 DEF stream
          <6> QED
            BY <2>2, <3>4, <6>1, Basic DEF IInv, StatusInv, CloseIsLast, stream
        <5> QED
          BY <2>3, <5>1 DEF Session, ReceiverInv
      <4>4. <<>> = Stretch(stream, W, W) /\ s <= W /\ W <= W /\ W - W < FrameCap
        <5>1. W <= Len(stream)
          BY <2>4
        <5> QED
          BY <2>4, <4>2, <5>1, Sizes, StretchEmpty
      <4>5. \E i \in Nat : Session(s, i, i)'
        <5> DEFINE n == W
        <5>1. /\ n \in Nat /\ s <= n /\ n <= W /\ n - s <= FrameCap /\ W - n < FrameCap
              /\ <<>> = Stretch(stream, n, W) /\ ocounter = W % CounterMod
              /\ All(toReceiver', oport, Frames(oport, stream, s, n))
              /\ All(toSender', oport, Acks(oport, stream, s, n))
              /\ oport \notin abandoned => Reaches(n) /\ iport = oport
          BY <2>4, <4>2, <4>3, <4>4
        <5>2. PICK m \in Nat : m = n
          BY <2>4
        <5> HIDE DEF n
        <5>3. Session(s, m, m)'
          BY <2>2, <3>1, <4>1, <5>1, <5>2, PushSession
        <5> QED
          BY <5>3
      <4> QED
        BY <4>5
    <3> QED
      BY <2>10, <3>2, <3>3, <3>4 DEF HandleAck
  <2>11. CASE IOpen \/ IClose
    <3>1. Session(o, s, e)'
      BY <2>2, <2>3, <2>11, LocalSession
    <3> QED
      BY <3>1
  <2>12. CASE ReceiveFrame
    <3>1. Session(o, s, e)' \/ Session(o, s, W)'
      BY <2>2, <2>3, <2>12, FrameSession
    <3>2. W' = W
      BY <2>12 DEF ReceiveFrame, ovars, W, stream
    <3> QED
      BY <2>4, <3>1, <3>2
  <2>13. CASE ReceivePacket
    <3>1. Session(o, s, e)'
      BY <2>2, <2>3, <2>13, PacketSession
    <3> QED
      BY <3>1
  <2>14. CASE UNCHANGED vars
    <3>1. Session(o, s, e)'
      BY <2>2, <2>3, <2>14, QuietSession DEF vars, ovars
    <3> QED
      BY <3>1
  <2> QED
    BY <1>2, <2>6, <2>7, <2>8, <2>9, <2>10, <2>11, <2>12, <2>13, <2>14 DEF Next
<1> QED
  BY <1>1, <1>2

\* The inductive invariant holds at first.
LEMMA InitInv == Init => IInv
<1> SUFFICES ASSUME Init
             PROVE  IInv
  OBVIOUS
<1>1. Types
  BY Sizes DEF Init, Types, NoFrame, Frame, Statuses
<1>2. ExactlyOnceInOrder /\ HistoryType
  <2>1. TypeOK /\ HistoryType
    BY <1>1, TypesAre
  <2>2. \A p \in Ports : delivered[p] = <<>> /\ written[p] = <<>>
    BY DEF Init
  <2> QED
    BY <2>1, <2>2 DEF ExactlyOnceInOrder
<1>3. StatusInv
  <2>1. CloseIsLast
    BY DEF Init, CloseIsLast
  <2> QED
    BY <2>1 DEF Init, StatusInv
<1>4. PortInv
  BY Sizes DEF Init, PortInv, Below, NoFrame
<1>5. SessionInv
  BY DEF Init, SessionInv
<1> QED
  BY <1>2, <1>3, <1>4, <1>5 DEF IInv

\* Every step keeps it.
LEMMA StepInv == IInv /\ [Next]_vars => IInv'
<1> SUFFICES ASSUME IInv, [Next]_vars
             PROVE  IInv'
  OBVIOUS
<1>1. Types'
  BY TypeStep
<1>2. Types' => TypeOK' /\ HistoryType'
  BY DEF Types, TypeOK, HistoryType, AckSet
<1>3. ExactlyOnceInOrder'
  BY <1>1, <1>2, DeliveredStep DEF ExactlyOnceInOrder
<1> QED
  BY <1>1, <1>2, <1>3, StatusStep, PortStep, SessionStep DEF IInv

\* The inductive invariant of the pipe holds in every state.
THEOREM Inductive == Spec => []IInv
  BY InitInv, StepInv, PTL DEF Spec

------------------------------------------------------------------------------
(* What the pipe promises. *)

\* A packet whose position lies in a stretch is carried by it.
LEMMA StretchCarries ==
  ASSUME NEW w \in Seq(Kinds), NEW a \in Nat, NEW b \in Nat, b <= Len(w),
         NEW i \in Nat, a < i, i <= b
  PROVE  Carries(Stretch(w, a, b), i)
<1> DEFINE t == Stretch(w, a, b)
           j == i - a
<1>1. Packets(t, w, a, b)
  <2>1. a <= b
    OBVIOUS
  <2> QED
    BY <2>1, StretchType
<1>2. j \in 1 .. b - a /\ a + j = i
  OBVIOUS
<1> HIDE DEF t, j
<1>3. t[j] = [c |-> (a + j - 1) % CounterMod, k |-> w[a + j], i |-> a + j]
  BY <1>1, <1>2 DEF Packets
<1>4. j \in DOMAIN t
  BY <1>1, <1>2 DEF Packets
<1>5. t[j].i = i
  BY <1>2, <1>3
<1> QED
  BY <1>4, <1>5 DEF Carries, t

\* What the receiver has not handled before the end it will reach, it is handling.
LEMMA ReachesHandles ==
  ASSUME IInv, oport # 0, NEW e \in Nat, Reaches(e), NEW i \in Nat, D < i, i <= e
  PROVE  BeingHandled(oport, i)
<1>1. stream \in Seq(Kinds) /\ W \in Nat /\ W = Len(stream) /\ D \in Nat
  BY Basic DEF W
<1>2. D # e
  BY <1>1
<1>3. PICK a \in 0 .. W, b \in 0 .. W :
        a < b /\ handling.pkts = Stretch(stream, a, b) /\ a = D /\ b = e
  BY <1>2 DEF Reaches
<1>4. handling.port = oport
  BY <1>2 DEF Reaches
<1>5. e <= Len(stream) /\ handling.pkts = Stretch(stream, D, e)
  BY <1>1, <1>3
<1>6. Carries(handling.pkts, i)
  BY <1>1, <1>5, StretchCarries
<1> QED
  BY <1>4, <1>6 DEF BeingHandled

(***************************************************************************)
(* The handlers of jd_ipipe.c get the packets written to the pipe in       *)
(* order, each once, whatever frames and acknowledgements the bus loses.   *)
(***************************************************************************)
THEOREM DeliversExactlyOnce == Spec => []ExactlyOnceInOrder
<1>1. IInv => ExactlyOnceInOrder
  BY DEF IInv
<1> QED
  BY <1>1, Inductive, PTL

\* jd_opipe_handle_packet drops a packet only when the receiver has it.
THEOREM ForgetsNothing == Spec => []NothingForgotten
<1>1. IInv => NothingForgotten
  <2> SUFFICES ASSUME IInv, oport \notin abandoned \cup {0}, ostatus # "FREE",
                      NEW i \in Outstanding(oport)
               PROVE  Carries(oframe, i) \/ BeingHandled(oport, i)
    BY DEF NothingForgotten
  <2>1. oport # 0 /\ stream \in Seq(Kinds) /\ W \in Nat /\ W = Len(stream) /\ D \in Nat
    BY Basic DEF W
  <2>2. i \in Nat /\ D < i /\ i <= W
    BY <2>1 DEF Outstanding, D, W, stream
  <2>3. PICK o \in Nat, s \in Nat, e \in Nat : Session(o, s, e)
    BY <2>1 DEF IInv, SessionInv
  <2>4. oframe = Stretch(stream, s, W) /\ s <= W
    BY <2>3 DEF Session, Window
  <2>5. e \in {s, W} /\ Reaches(e)
    BY <2>3 DEF Session, ReceiverInv
  <2>6. CASE s < i
    <3>1. W <= Len(stream)
      BY <2>1
    <3> QED
      BY <2>1, <2>2, <2>4, <2>6, <3>1, StretchCarries
  <2>7. CASE ~ (s < i)
    <3>1. i <= e
      BY <2>1, <2>2, <2>4, <2>5, <2>7
    <3> QED
      BY <2>1, <2>2, <2>5, <3>1, ReachesHandles
  <2> QED
    BY <2>6, <2>7
<1> QED
  BY <1>1, Inductive, PTL

(***************************************************************************)
(* A pipe closed by jd_opipe_close becomes free, other than by giving up,  *)
(* only when the receiver has, or is going through, the closing packet and *)
(* all before it.                                                          *)
(***************************************************************************)
THEOREM FreedMeansDelivered == Spec => FreeMeansDelivered
<1> DEFINE P == ostatus = "CLOSED_WAITING" /\ ostatus' = "FREE" /\ oport \notin abandoned =>
                  /\ "close" \in Range(written[oport])
                  /\ \A i \in Outstanding(oport) : BeingHandled(oport, i)
<1>1. ASSUME IInv, [Next]_vars
      PROVE  [P]_vars
  <2> SUFFICES ASSUME Next, ostatus = "CLOSED_WAITING", ostatus' = "FREE", oport \notin abandoned
               PROVE  /\ "close" \in Range(written[oport])
                      /\ \A i \in Outstanding(oport) : BeingHandled(oport, i)
    BY <1>1
  <2>1. IInv
    BY <1>1
  <2>2. HandleAck
    BY DEF Next, Open, Write, Flush, Close, Process, IOpen, IClose, ReceiveFrame, ReceivePacket, ovars
  <2>3. toSender # <<>> /\ AckMatches(Head(toSender))
    BY <2>2 DEF HandleAck, ovars
  <2>4. /\ oport # 0 /\ stream \in Seq(Kinds) /\ W \in Nat /\ W = Len(stream) /\ D \in Nat
    <3>1. oport # 0
      BY <2>1 DEF IInv, StatusInv
    <3> QED
      BY <2>1, <3>1, Basic DEF W
  <2>5. W # 0 /\ stream[W] = "close"
    BY <2>1 DEF IInv, StatusInv
  <2>6. "close" \in Range(written[oport])
    <3>1. W \in DOMAIN stream
      BY <2>4, <2>5
    <3> QED
      BY <2>5, <3>1 DEF Range, stream
  <2>7. PICK o \in Nat, s \in Nat, e \in Nat : Session(o, s, e)
    BY <2>1, <2>4 DEF IInv, SessionInv
  <2>8. e = W /\ Reaches(e)
    BY <2>1, <2>3, <2>4, <2>7, AckedSession
  <2>9. ASSUME NEW i \in Outstanding(oport)
        PROVE  BeingHandled(oport, i)
    <3>1. i \in Nat /\ D < i /\ i <= e
      BY <2>4, <2>8 DEF Outstanding, D, W, stream
    <3> QED
      BY <2>1, <2>4, <2>8, <3>1, ReachesHandles
  <2> QED
    BY <2>6, <2>9
<1> HIDE DEF P
<1>3. Spec => [][P]_vars
  BY <1>1, Inductive, PTL DEF Spec
<1> QED
  BY <1>3 DEF P, FreeMeansDelivered

=============================================================================
