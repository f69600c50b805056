--------------------------- MODULE JdQueue_proofs ---------------------------
(***************************************************************************)
(* Proofs about the frame queue, for every queue size, every set of frame  *)
(* sizes and every set of frames that satisfy the assumptions of JdQueue.  *)
(*                                                                         *)
(* None of the properties is inductive: that the reader's next frame       *)
(* starts where front points depends on how the accepted frames lie in     *)
(* the buffer.  Layout says it: the frames are laid out one behind the     *)
(* other from front to back, with at most one jump from curr_size to 0.    *)
(*                                                                         *)
(* The second part is about the byte queue (JdBqueue), for every size of   *)
(* its ring: where the i-th byte lies, before and after a piece is taken   *)
(* or written, on either side of the end of the ring.                      *)
(* The third part is about the allocator (JdAlloc).                        *)
(***************************************************************************)
EXTENDS JdQueue, SequenceFacts

\* The end of a stored frame.
End(e) == e.at + Bytes(e.frame)

\* A stored frame lies before the wrap, or after it.
High(e) == front <= e.at /\ End(e) <= curr_size
Low(e) == front > back /\ End(e) <= back

\* Where the indices can be: a queue that has not wrapped forgets the wrap
\* point; a wrapped one has wasted less than a frame at its end.
IndexInv ==
  /\ front <= back => curr_size = QSize
  /\ front > back => /\ front <= curr_size
                     /\ \E sz \in PayloadSizes : curr_size + FRM_SIZE(sz) > QSize

\* Every accepted frame lies in the occupied part of the buffer.
Placed(e) == IF front <= back THEN front <= e.at /\ End(e) <= back
                              ELSE High(e) \/ Low(e)

\* Two accepted frames do not overlap, and the older one comes first.
Ordered(d, e) == End(d) <= e.at \/ (High(d) /\ Low(e))

\* Consecutive frames touch, or the second is at 0 after the wrap point.
Adjacent(d, e) == \/ e.at = End(d)
                  \/ e.at = 0 /\ End(d) = curr_size /\ front > back

Layout ==
  /\ live = <<>> <=> front = back
  /\ live # <<>> => /\ live[1].at = FrontOffset
                    /\ End(live[Len(live)]) = back
  /\ \A k \in 1 .. Len(live) : Placed(live[k])
  /\ \A j, k \in 1 .. Len(live) : j < k => Ordered(live[j], live[k])
  /\ \A k \in 1 .. Len(live) - 1 : Adjacent(live[k], live[k + 1])

ReaderInv == reader # "idle" => live # <<>>

IInv == /\ TypeOK
        /\ IndexInv
        /\ Layout
        /\ AcceptedIntact
        /\ ReaderInv
        /\ HeldIsOldest
        /\ GrantHolds
        /\ AssertsHold

------------------------------------------------------------------------------
(* Facts about sizes. *)

\* A frame of FRM_SIZE bytes is never empty.
LEMMA FrmSizeType == \A sz \in Nat : FRM_SIZE(sz) \in Nat /\ FRM_SIZE(sz) >= 12
  BY DEF FRM_SIZE

\* The size of every frame that can be pushed is a positive number, and two
\* such frames fit into the queue.
LEMMA BytesType ==
  \A f \in Frame : /\ Bytes(f) \in Nat
                   /\ Bytes(f) >= 12
                   /\ 2 * Bytes(f) <= QSize
                   /\ f.size \in PayloadSizes
                   /\ Bytes(f) = FRM_SIZE(f.size)
  BY FrmSizeType, SizesAssumption, HalfAssumption DEF Frame, Bytes

\* What TypeOK says of the accepted frames.
LEMMA LiveType ==
  ASSUME TypeOK
  PROVE  /\ Len(live) \in Nat
         /\ \A k \in 1 .. Len(live) : /\ live[k] \in [frame : Frame, at : 0 .. QSize]
                                      /\ live[k].frame \in Frame
                                      /\ live[k].at \in 0 .. QSize
                                      /\ Bytes(live[k].frame) \in Nat
                                      /\ Bytes(live[k].frame) >= 12
                                      /\ End(live[k]) \in Nat
<1>1. live \in Seq([frame : Frame, at : 0 .. QSize])
  BY DEF TypeOK
<1>2. Len(live) \in Nat
  BY <1>1, LenProperties
<1>. SUFFICES ASSUME NEW k \in 1 .. Len(live)
              PROVE  /\ live[k] \in [frame : Frame, at : 0 .. QSize]
                     /\ live[k].frame \in Frame
                     /\ live[k].at \in 0 .. QSize
                     /\ Bytes(live[k].frame) \in Nat
                     /\ Bytes(live[k].frame) >= 12
                     /\ End(live[k]) \in Nat
  BY <1>2
<1>3. live[k] \in [frame : Frame, at : 0 .. QSize]
  BY <1>1, ElementOfSeq
<1>4. live[k].frame \in Frame /\ live[k].at \in 0 .. QSize
  BY <1>3
<1>5. Bytes(live[k].frame) \in Nat /\ Bytes(live[k].frame) >= 12
  BY <1>4, BytesType
<1>. QED
  BY <1>3, <1>4, <1>5, QSizeAssumption DEF End

\* The head of the ring is the oldest frame, whole and inside the buffer.
LEMMA HeadFacts ==
  ASSUME IInv, live # <<>>
  PROVE  /\ Len(live) \in Nat /\ Len(live) >= 1
         /\ live[1].at = FrontOffset
         /\ FrontOffset \in 0 .. QSize - 1
         /\ data[FrontOffset].frame = live[1].frame
         /\ FrameAt(FrontOffset) = live[1].frame
         /\ Placed(live[1])
<1>1. Len(live) \in Nat /\ Len(live) >= 1
  BY EmptySeq, LenProperties DEF IInv, TypeOK
<1>2. /\ live[1].at = FrontOffset
      /\ Placed(live[1])
  BY <1>1 DEF IInv, Layout
<1>3. Bytes(live[1].frame) >= 12 /\ live[1].at \in 0 .. QSize /\ Bytes(live[1].frame) \in Nat
  BY <1>1, LiveType DEF IInv
<1>4. FrontOffset \in 0 .. QSize - 1
  BY <1>2, <1>3, QSizeAssumption DEF Placed, High, Low, End, IInv, TypeOK
<1>5. data[FrontOffset] = [frame |-> live[1].frame, pos |-> FrontOffset - live[1].at]
  BY <1>1, <1>2, <1>3, <1>4 DEF IInv, AcceptedIntact, Intact
<1>. QED
  BY <1>1, <1>2, <1>4, <1>5 DEF FrameAt

\* Appending an accepted frame keeps the older ones.
LEMMA AppendLive ==
  ASSUME TypeOK, NEW e \in [frame : Frame, at : 0 .. QSize], live' = Append(live, e)
  PROVE  /\ live' \in Seq([frame : Frame, at : 0 .. QSize])
         /\ Len(live') = Len(live) + 1
         /\ \A k \in 1 .. Len(live) : live'[k] = live[k]
         /\ live'[Len(live) + 1] = e
         /\ live' # <<>>
  BY AppendProperties, EmptySeq DEF TypeOK

\* Releasing the oldest frame moves the others up.
LEMMA TailLive ==
  ASSUME TypeOK, live # <<>>, live' = Tail(live)
  PROVE  /\ live' \in Seq([frame : Frame, at : 0 .. QSize])
         /\ Len(live') = Len(live) - 1
         /\ \A k \in 1 .. Len(live') : live'[k] = live[k + 1]
         /\ live' = <<>> <=> Len(live) = 1
<1>1. live \in Seq([frame : Frame, at : 0 .. QSize])
  BY DEF TypeOK
<1>2. /\ live' \in Seq([frame : Frame, at : 0 .. QSize])
      /\ Len(live') = Len(live) - 1
      /\ \A k \in 1 .. Len(live') : live'[k] = live[k + 1]
  BY <1>1, HeadTailProperties
<1>3. live' = <<>> <=> Len(live') = 0
  BY <1>2, EmptySeq
<1>4. Len(live) \in Nat
  BY <1>1, LenProperties
<1>. QED
  BY <1>2, <1>3, <1>4

------------------------------------------------------------------------------
(* Pushing. *)

\* The bytes a push writes and the ones it leaves.
LEMMA StoreFacts ==
  ASSUME TypeOK, NEW f \in Frame, NEW at \in Nat, at + Bytes(f) <= QSize, Store(f, at)
  PROVE  /\ data' \in [0 .. QSize - 1 -> [frame : Frame \cup {NoFrame}, pos : Nat]]
         /\ \A i \in 0 .. QSize - 1 : i < at \/ i >= at + Bytes(f) => data'[i] = data[i]
         /\ \A i \in at .. at + Bytes(f) - 1 :
              i \in 0 .. QSize - 1 /\ data'[i] = [frame |-> f, pos |-> i - at]
<1>1. Bytes(f) \in Nat
  BY BytesType
<1>2. ASSUME NEW i \in 0 .. QSize - 1, at <= i, i < at + Bytes(f)
      PROVE  [frame |-> f, pos |-> i - at] \in [frame : Frame \cup {NoFrame}, pos : Nat]
  BY <1>2
<1>3. \A i \in 0 .. QSize - 1 : data[i] \in [frame : Frame \cup {NoFrame}, pos : Nat]
  BY DEF TypeOK
<1>. QED
  BY <1>1, <1>2, <1>3, QSizeAssumption DEF Store

\* The parts of the invariant that a push can disturb, when the frame goes
\* behind the last one.
LEMMA PushBehindLayout ==
  ASSUME IInv, NEW f \in Frame, PushBehind(f), front' = front
  PROVE  /\ back' \in 0 .. QSize
         /\ live' \in Seq([frame : Frame, at : 0 .. QSize]) /\ live' # <<>>
         /\ data' \in [0 .. QSize - 1 -> [frame : Frame \cup {NoFrame}, pos : Nat]]
         /\ IndexInv' /\ Layout' /\ AcceptedIntact'
         /\ live # <<>> => live'[1] = live[1]
<1>. DEFINE e == [frame |-> f, at |-> back]
<1>0. PICK n : n = Len(live)
  OBVIOUS
<1>1. /\ TypeOK /\ front \in 0 .. QSize /\ back \in 0 .. QSize /\ curr_size \in 0 .. QSize
      /\ Bytes(f) \in Nat /\ Bytes(f) >= 12 /\ QSize \in Nat
  BY BytesType, QSizeAssumption DEF IInv, TypeOK
<1>2. /\ back' = back + Bytes(f) /\ curr_size' = curr_size /\ live' = Append(live, e)
      /\ Store(f, back)
      /\ back' <= QSize /\ back' > back
      /\ (front <= back) <=> (front' <= back')
      /\ front <= back => front < QSize
      /\ front > back => back' < front
  BY <1>1 DEF PushBehind, PushAt
<1>3. /\ live' \in Seq([frame : Frame, at : 0 .. QSize])
      /\ Len(live') = n + 1
      /\ \A k \in 1 .. n : live'[k] = live[k]
      /\ live'[n + 1] = e
      /\ live' # <<>>
      /\ e.frame = f /\ e.at = back
  BY <1>0, <1>1, <1>2, AppendLive
<1>4. /\ n \in Nat
      /\ \A k \in 1 .. n : /\ live[k].at \in Nat
                           /\ Bytes(live[k].frame) \in Nat
                           /\ Bytes(live[k].frame) >= 12
      /\ n > 0 <=> live # <<>>
  BY <1>0, <1>1, LiveType, EmptySeq DEF TypeOK
<1>5. /\ \A k \in 1 .. n : Placed(live[k])
      /\ \A j, k \in 1 .. n : j < k => Ordered(live[j], live[k])
      /\ \A k \in 1 .. n - 1 : Adjacent(live[k], live[k + 1])
      /\ n > 0 => live[1].at = FrontOffset /\ End(live[n]) = back
      /\ n = 0 => front = back
  BY <1>0, <1>4 DEF IInv, Layout
<1>6. IndexInv'
  BY <1>1, <1>2 DEF IInv, IndexInv
<1>7. \A k \in 1 .. n + 1 : Placed(live[k])'
  <2>1. ASSUME NEW k \in 1 .. n  PROVE Placed(live[k])'
    <3>1. live'[k] = live[k] /\ Placed(live[k]) /\ live[k].at \in Nat /\ Bytes(live[k].frame) \in Nat
      BY <1>3, <1>4, <1>5
    <3>. QED  BY <3>1, <1>1, <1>2 DEF Placed, High, Low, End
  <2>2. Placed(live[n + 1])'
    BY <1>1, <1>2, <1>3 DEF Placed, Low, End
  <2>. QED  BY <2>1, <2>2, <1>4
<1>8. \A j, k \in 1 .. n + 1 : j < k => Ordered(live[j], live[k])'
  <2>1. ASSUME NEW j \in 1 .. n, NEW k \in 1 .. n, j < k
        PROVE  Ordered(live[j], live[k])'
    <3>1. /\ live'[j] = live[j] /\ live[j].at \in Nat /\ Bytes(live[j].frame) \in Nat
          /\ live'[k] = live[k] /\ live[k].at \in Nat /\ Bytes(live[k].frame) \in Nat
          /\ Ordered(live[j], live[k])
      BY <2>1, <1>3, <1>4, <1>5
    <3>. QED  BY SMTT(30), <3>1, <1>1, <1>2 DEF Ordered, High, Low, End
  <2>2. ASSUME NEW j \in 1 .. n
        PROVE  Ordered(live[j], live[n + 1])'
    <3>1. live'[j] = live[j] /\ live[j].at \in Nat /\ Bytes(live[j].frame) \in Nat /\ Placed(live[j])
      BY <1>3, <1>4, <1>5
    <3>. QED  BY <3>1, <1>1, <1>2, <1>3 DEF Ordered, Placed, High, Low, End
  <2>. QED  BY <2>1, <2>2, <1>4
<1>9. \A k \in 1 .. n : Adjacent(live[k], live[k + 1])'
  <2>1. ASSUME NEW k \in 1 .. n - 1  PROVE Adjacent(live[k], live[k + 1])'
    <3>1. /\ live'[k] = live[k] /\ live'[k + 1] = live[k + 1]
          /\ Adjacent(live[k], live[k + 1])
      BY <1>3, <1>4, <1>5
    <3>. QED  BY <3>1, <1>1, <1>2 DEF Adjacent, End
  <2>2. ASSUME n > 0  PROVE Adjacent(live[n], live[n + 1])'
    <3>1. live'[n] = live[n] /\ End(live[n]) = back
      BY <2>2, <1>3, <1>4, <1>5
    <3>. QED  BY <3>1, <1>3 DEF Adjacent, End
  <2>3. \A k \in 1 .. n : (k = n /\ n > 0) \/ k \in 1 .. n - 1
    BY <1>4
  <2>. QED  BY <2>1, <2>2, <2>3
<1>10. live'[1].at = FrontOffset' /\ (live # <<>> => live'[1] = live[1])
  <2>1. CASE n = 0
    BY <2>1, <1>1, <1>2, <1>3, <1>4, <1>5 DEF IInv, IndexInv, FrontOffset
  <2>2. CASE n > 0
    BY <2>2, <1>1, <1>2, <1>3, <1>4, <1>5 DEF FrontOffset
  <2>. QED  BY <2>1, <2>2, <1>4
<1>11. Layout'
  <2>1. End(live[Len(live)])' = back' /\ front' # back'
    BY <1>1, <1>2, <1>3, <1>4 DEF End
  <2>. QED  BY <2>1, <1>3, <1>4, <1>7, <1>8, <1>9, <1>10 DEF Layout
<1>12. AcceptedIntact'
  <2>1. /\ \A i \in 0 .. QSize - 1 : i < back \/ i >= back + Bytes(f) => data'[i] = data[i]
        /\ \A i \in back .. back + Bytes(f) - 1 : data'[i] = [frame |-> f, pos |-> i - back]
    <3>1. back \in Nat /\ back + Bytes(f) <= QSize
      BY <1>1, <1>2
    <3>. QED  BY <3>1, <1>1, <1>2, StoreFacts
  <2>2. ASSUME NEW k \in 1 .. n  PROVE Intact(live[k])'
    <3>. SUFFICES ASSUME NEW i \in live[k].at .. live[k].at + Bytes(live[k].frame) - 1
                  PROVE  data'[i] = [frame |-> live[k].frame, pos |-> i - live[k].at]
      BY <1>3 DEF Intact
    <3>1. data[i] = [frame |-> live[k].frame, pos |-> i - live[k].at]
      BY <1>0 DEF IInv, AcceptedIntact, Intact
    <3>2. live[k].at \in Nat /\ Bytes(live[k].frame) \in Nat /\ Placed(live[k])
      BY <1>4, <1>5
    <3>3. i \in 0 .. QSize - 1 /\ (i < back \/ i >= back')
      <4>1. i \in Int /\ live[k].at <= i /\ i < live[k].at + Bytes(live[k].frame)
        BY <3>2
      <4>. QED  BY SMTT(30), <4>1, <3>2, <1>1, <1>2 DEF Placed, High, Low, End
    <3>. QED  BY <2>1, <3>1, <3>3, <1>2
  <2>3. Intact(live[n + 1])'
    <3>1. live'[n + 1].frame = f /\ live'[n + 1].at = back
      BY <1>3
    <3>. SUFFICES ASSUME NEW i \in back .. back + Bytes(f) - 1
                  PROVE  data'[i] = [frame |-> f, pos |-> i - back]
      BY <3>1 DEF Intact
    <3>. QED  BY <2>1
  <2>. QED  BY <2>2, <2>3, <1>3, <1>4 DEF AcceptedIntact
<1>13. back' \in 0 .. QSize
  BY <1>1, <1>2
<1>14. data' \in [0 .. QSize - 1 -> [frame : Frame \cup {NoFrame}, pos : Nat]]
  <2>1. back \in Nat /\ back + Bytes(f) <= QSize
    BY <1>1, <1>2
  <2>. QED  BY <2>1, <1>1, <1>2, StoreFacts
<1>. QED
  BY <1>3, <1>6, <1>10, <1>11, <1>12, <1>13, <1>14
\* The same when the frame goes to the beginning of the buffer.
LEMMA PushWrappingLayout ==
  ASSUME IInv, NEW f \in Frame, PushWrapping(f), front' = front
  PROVE  /\ back' \in 0 .. QSize
         /\ live' \in Seq([frame : Frame, at : 0 .. QSize]) /\ live' # <<>>
         /\ data' \in [0 .. QSize - 1 -> [frame : Frame \cup {NoFrame}, pos : Nat]]
         /\ IndexInv' /\ Layout' /\ AcceptedIntact'
         /\ live # <<>> => live'[1] = live[1]
<1>. DEFINE e == [frame |-> f, at |-> 0]
<1>0. PICK n : n = Len(live)
  OBVIOUS
<1>1. /\ TypeOK /\ front \in 0 .. QSize /\ back \in 0 .. QSize /\ curr_size \in 0 .. QSize
      /\ Bytes(f) \in Nat /\ Bytes(f) >= 12 /\ QSize \in Nat
  BY BytesType, QSizeAssumption DEF IInv, TypeOK
<1>2. /\ back' = Bytes(f) /\ curr_size' = back /\ live' = Append(live, e)
      /\ Store(f, 0)
      /\ back' <= QSize /\ front <= back /\ front' > back'
      /\ back + Bytes(f) > QSize
  BY <1>1 DEF PushWrapping, PushAt
<1>3. /\ live' \in Seq([frame : Frame, at : 0 .. QSize])
      /\ Len(live') = n + 1
      /\ \A k \in 1 .. n : live'[k] = live[k]
      /\ live'[n + 1] = e
      /\ live' # <<>>
      /\ e.frame = f /\ e.at = 0
  <2>1. e \in [frame : Frame, at : 0 .. QSize] /\ e.frame = f /\ e.at = 0
    BY <1>1
  <2>. HIDE DEF e
  <2>. QED  BY <2>1, <1>0, <1>1, <1>2, AppendLive
<1>4. /\ n \in Nat
      /\ \A k \in 1 .. n : /\ live[k].at \in Nat
                           /\ Bytes(live[k].frame) \in Nat
                           /\ Bytes(live[k].frame) >= 12
      /\ n > 0 <=> live # <<>>
  BY <1>0, <1>1, LiveType, EmptySeq DEF TypeOK
<1>5. /\ \A k \in 1 .. n : Placed(live[k])
      /\ \A j, k \in 1 .. n : j < k => Ordered(live[j], live[k])
      /\ \A k \in 1 .. n - 1 : Adjacent(live[k], live[k + 1])
      /\ n > 0 => live[1].at = FrontOffset /\ End(live[n]) = back
      /\ n = 0 => front = back
  BY <1>0, <1>4 DEF IInv, Layout
<1>6. IndexInv'
  BY <1>1, <1>2, BytesType DEF IndexInv
<1>7. \A k \in 1 .. n + 1 : Placed(live[k])'
  <2>1. ASSUME NEW k \in 1 .. n  PROVE Placed(live[k])'
    <3>1. live'[k] = live[k] /\ Placed(live[k]) /\ live[k].at \in Nat /\ Bytes(live[k].frame) \in Nat
      BY <1>3, <1>4, <1>5
    <3>. QED  BY <3>1, <1>1, <1>2 DEF Placed, High, Low, End
  <2>2. Placed(live[n + 1])'
    BY <1>1, <1>2, <1>3 DEF Placed, Low, End
  <2>. QED  BY <2>1, <2>2, <1>4
<1>8. \A j, k \in 1 .. n + 1 : j < k => Ordered(live[j], live[k])'
  <2>1. ASSUME NEW j \in 1 .. n, NEW k \in 1 .. n, j < k
        PROVE  Ordered(live[j], live[k])'
    <3>1. /\ live'[j] = live[j] /\ live[j].at \in Nat /\ Bytes(live[j].frame) \in Nat
          /\ live'[k] = live[k] /\ live[k].at \in Nat /\ Bytes(live[k].frame) \in Nat
          /\ Ordered(live[j], live[k])
      BY <2>1, <1>3, <1>4, <1>5
    <3>. QED  BY <3>1, <1>1, <1>2 DEF Ordered, High, Low, End
  <2>2. ASSUME NEW j \in 1 .. n
        PROVE  Ordered(live[j], live[n + 1])'
    <3>1. live'[j] = live[j] /\ live[j].at \in Nat /\ Bytes(live[j].frame) \in Nat /\ Placed(live[j])
      BY <1>3, <1>4, <1>5
    <3>. QED  BY <3>1, <1>1, <1>2, <1>3 DEF Ordered, Placed, High, Low, End
  <2>. QED  BY <2>1, <2>2, <1>4
<1>9. \A k \in 1 .. n : Adjacent(live[k], live[k + 1])'
  <2>1. ASSUME NEW k \in 1 .. n - 1  PROVE Adjacent(live[k], live[k + 1])'
    <3>1. /\ live'[k] = live[k] /\ live'[k + 1] = live[k + 1]
          /\ Adjacent(live[k], live[k + 1])
      BY <1>3, <1>4, <1>5
    <3>. QED  BY <3>1, <1>1, <1>2 DEF Adjacent, End
  <2>2. ASSUME n > 0  PROVE Adjacent(live[n], live[n + 1])'
    <3>1. live'[n] = live[n] /\ End(live[n]) = back
      BY <2>2, <1>3, <1>4, <1>5
    <3>. QED  BY <3>1, <1>1, <1>2, <1>3 DEF Adjacent, End
  <2>3. \A k \in 1 .. n : (k = n /\ n > 0) \/ k \in 1 .. n - 1
    BY <1>4
  <2>. QED  BY <2>1, <2>2, <2>3
<1>10. live'[1].at = FrontOffset' /\ (live # <<>> => live'[1] = live[1])
  <2>1. CASE n = 0
    BY <2>1, <1>1, <1>2, <1>3, <1>4, <1>5 DEF IInv, IndexInv, FrontOffset
  <2>2. CASE n > 0
    <3>1. front # back /\ live'[1] = live[1]
      BY <2>2, <1>3, <1>4 DEF IInv, Layout
    <3>. QED  BY <2>2, <3>1, <1>1, <1>2, <1>4, <1>5 DEF IInv, IndexInv, FrontOffset
  <2>. QED  BY <2>1, <2>2, <1>4
<1>11. Layout'
  <2>1. End(live[Len(live)])' = back' /\ front' # back'
    BY <1>1, <1>2, <1>3, <1>4 DEF End
  <2>. QED  BY <2>1, <1>3, <1>4, <1>7, <1>8, <1>9, <1>10 DEF Layout
<1>12. AcceptedIntact'
  <2>1. /\ \A i \in 0 .. QSize - 1 : i >= Bytes(f) => data'[i] = data[i]
        /\ \A i \in 0 .. Bytes(f) - 1 : data'[i] = [frame |-> f, pos |-> i]
    <3>1. 0 \in Nat /\ 0 + Bytes(f) <= QSize /\ 0 + Bytes(f) = Bytes(f)
      BY <1>1, <1>2
    <3>. QED  BY SMTT(30), <3>1, <1>1, <1>2, StoreFacts
  <2>2. ASSUME NEW k \in 1 .. n  PROVE Intact(live[k])'
    <3>. SUFFICES ASSUME NEW i \in live[k].at .. live[k].at + Bytes(live[k].frame) - 1
                  PROVE  data'[i] = [frame |-> live[k].frame, pos |-> i - live[k].at]
      BY <1>3 DEF Intact
    <3>1. data[i] = [frame |-> live[k].frame, pos |-> i - live[k].at]
      BY <1>0 DEF IInv, AcceptedIntact, Intact
    <3>2. live[k].at \in Nat /\ Bytes(live[k].frame) \in Nat /\ Placed(live[k])
      BY <1>4, <1>5
    <3>3. i \in 0 .. QSize - 1 /\ i >= Bytes(f)
      <4>1. i \in Int /\ live[k].at <= i /\ i < live[k].at + Bytes(live[k].frame)
        BY <3>2
      <4>. QED  BY <4>1, <3>2, <1>1, <1>2 DEF Placed, High, Low, End
    <3>. QED  BY <2>1, <3>1, <3>3, <1>2
  <2>3. Intact(live[n + 1])'
    <3>1. live'[n + 1].frame = f /\ live'[n + 1].at = 0
      BY <1>3
    <3>. SUFFICES ASSUME NEW i \in 0 .. 0 + Bytes(f) - 1
                  PROVE  data'[i] = [frame |-> f, pos |-> i - 0]
      BY <3>1 DEF Intact
    <3>. QED  BY <2>1, <1>1
  <2>. QED  BY <2>2, <2>3, <1>3, <1>4 DEF AcceptedIntact
<1>13. back' \in 0 .. QSize
  BY <1>1, <1>2
<1>14. data' \in [0 .. QSize - 1 -> [frame : Frame \cup {NoFrame}, pos : Nat]]
  <2>1. 0 \in Nat /\ 0 + Bytes(f) <= QSize /\ 0 + Bytes(f) = Bytes(f)
    BY <1>1, <1>2
  <2>. QED  BY <2>1, <1>1, <1>2, StoreFacts
<1>. QED
  BY <1>3, <1>6, <1>10, <1>11, <1>12, <1>13, <1>14
\* A push preserves the invariant.
LEMMA PushStep ==
  ASSUME IInv, NEW f \in Frame, jd_queue_push(f)
  PROVE  IInv'
<1>1. CASE PushBehind(f) \/ PushWrapping(f)
  <2>1. /\ back' \in 0 .. QSize
        /\ live' \in Seq([frame : Frame, at : 0 .. QSize]) /\ live' # <<>>
        /\ data' \in [0 .. QSize - 1 -> [frame : Frame \cup {NoFrame}, pos : Nat]]
        /\ IndexInv' /\ Layout' /\ AcceptedIntact'
        /\ live # <<>> => live'[1] = live[1]
    BY <1>1, PushBehindLayout, PushWrappingLayout DEF jd_queue_push
  <2>2. /\ front' = front /\ reader' = reader /\ ptr' = ptr /\ ret' = 0 /\ granted' = 0
        /\ failed' = (failed \/ front > QSize \/ back' > QSize \/ curr_size' > QSize)
        /\ curr_size' \in {curr_size, back}
    BY <1>1 DEF jd_queue_push, PushBehind, PushWrapping, PushAt
  <2>3. /\ front \in 0 .. QSize /\ curr_size' \in 0 .. QSize /\ ~ failed
    BY <2>2 DEF IInv, TypeOK, AssertsHold
  <2>4. failed' = FALSE
    BY <2>1, <2>2, <2>3, QSizeAssumption
  <2>5. TypeOK'
    BY <2>1, <2>2, <2>3, <2>4 DEF IInv, TypeOK
  <2>6. ReaderInv' /\ HeldIsOldest'
    BY <2>1, <2>2 DEF IInv, ReaderInv, HeldIsOldest
  <2>7. GrantHolds' /\ AssertsHold'
    BY <2>2, <2>4 DEF GrantHolds, AssertsHold
  <2>. QED  BY <2>1, <2>5, <2>6, <2>7 DEF IInv
<1>2. CASE PushRejected(f)
  <2>1. /\ UNCHANGED <<front, back, curr_size, data, reader, ptr, live>>
        /\ ret' \in {-1, -2} /\ granted' = 0
        /\ failed' = (failed \/ front > QSize \/ back > QSize \/ curr_size > QSize)
    BY <1>2 DEF jd_queue_push, PushRejected
  <2>2. failed' = FALSE
    BY <2>1, QSizeAssumption DEF IInv, TypeOK, AssertsHold
  <2>3. TypeOK' /\ GrantHolds' /\ AssertsHold'
    BY <2>1, <2>2 DEF IInv, TypeOK, GrantHolds, AssertsHold
  <2>4. IndexInv' /\ AcceptedIntact' /\ ReaderInv' /\ HeldIsOldest'
    BY <2>1 DEF IInv, IndexInv, AcceptedIntact, Intact, ReaderInv, HeldIsOldest
  <2>5. Layout'
    BY <2>1 DEF IInv, Layout, Placed, Ordered, Adjacent, High, Low, End, FrontOffset
  <2>. QED  BY <2>3, <2>4, <2>5 DEF IInv
<1>. QED  BY <1>1, <1>2 DEF jd_queue_push

------------------------------------------------------------------------------
(* Reading and shifting. *)

\* What the indices are after a shift.
LEMMA ShiftIndices ==
  ASSUME IInv, jd_queue_shift
  PROVE  /\ live # <<>>
         /\ front' = End(live[1])
         /\ failed' = FALSE
         /\ \/ front < curr_size /\ curr_size' = curr_size /\ live[1].at = front
            \/ front > back /\ front = curr_size /\ curr_size' = QSize /\ live[1].at = 0
<1>1. live # <<>> /\ failed = FALSE
  BY DEF IInv, HeldIsOldest, AssertsHold, TypeOK, jd_queue_shift
<1>2. /\ FrameAt(FrontOffset) = live[1].frame /\ live[1].at = FrontOffset
  BY <1>1, HeadFacts
<1>3. front # back /\ front \in 0 .. QSize /\ back \in 0 .. QSize /\ curr_size \in 0 .. QSize
  BY <1>1 DEF IInv, Layout, TypeOK
<1>4. Bytes(live[1].frame) \in Nat
  BY <1>1, HeadFacts, LiveType DEF IInv
<1>5. PICK size : size = Bytes(live[1].frame) /\ (ShiftWrapped(size) \/ ShiftAhead(size))
  BY <1>2 DEF jd_queue_shift
<1>6. CASE ShiftWrapped(size)
  <2>1. front > back /\ front = curr_size
    BY <1>6, <1>3, QSizeAssumption DEF ShiftWrapped, IInv, IndexInv
  <2>2. front' = size /\ curr_size' = QSize /\ failed' = (failed \/ front # curr_size)
    BY <1>6 DEF ShiftWrapped
  <2>3. live[1].at = 0
    BY <1>2, <1>3, <2>1 DEF FrontOffset
  <2>4. failed' = FALSE
    BY <1>1, <2>1, <2>2
  <2>5. front' = End(live[1])
    BY <1>4, <1>5, <2>2, <2>3 DEF End
  <2>. QED  BY <1>1, <2>1, <2>2, <2>3, <2>4, <2>5
<1>7. CASE ShiftAhead(size)
  <2>1. front < curr_size /\ front' = front + size /\ curr_size' = curr_size /\ failed' = failed
    BY <1>7 DEF ShiftAhead
  <2>2. live[1].at = front
    BY <1>2, <1>3, <2>1 DEF FrontOffset
  <2>3. front' = End(live[1])
    BY <1>5, <2>1, <2>2 DEF End
  <2>. QED  BY <1>1, <2>1, <2>2, <2>3
<1>. QED  BY <1>5, <1>6, <1>7
\* The parts of the invariant that a shift can disturb.
LEMMA ShiftLayout ==
  ASSUME IInv, jd_queue_shift
  PROVE  /\ front' \in 0 .. QSize /\ curr_size' \in 0 .. QSize
         /\ live' \in Seq([frame : Frame, at : 0 .. QSize])
         /\ IndexInv' /\ Layout' /\ AcceptedIntact' /\ GrantHolds'
<1>0. PICK n : n = Len(live)
  OBVIOUS
<1>1. /\ live # <<>> /\ front' = End(live[1]) /\ back' = back /\ live' = Tail(live)
      /\ granted' = granted /\ data' = data
      /\ \/ front < curr_size /\ curr_size' = curr_size /\ live[1].at = front
         \/ front > back /\ front = curr_size /\ curr_size' = QSize /\ live[1].at = 0
  BY ShiftIndices DEF jd_queue_shift
<1>2. /\ TypeOK /\ front \in 0 .. QSize /\ back \in 0 .. QSize /\ curr_size \in 0 .. QSize
      /\ QSize \in Nat /\ front # back
  BY <1>1, QSizeAssumption DEF IInv, TypeOK, Layout
<1>3. /\ n \in Nat /\ n >= 1
      /\ \A k \in 1 .. n : /\ live[k].at \in Nat
                           /\ Bytes(live[k].frame) \in Nat
                           /\ Bytes(live[k].frame) >= 12
  BY <1>0, <1>1, <1>2, LiveType, HeadFacts
<1>4. /\ \A k \in 1 .. n : Placed(live[k])
      /\ \A k \in 2 .. n : Ordered(live[1], live[k])
      /\ \A j, k \in 1 .. n : j < k => Ordered(live[j], live[k])
      /\ \A k \in 1 .. n - 1 : Adjacent(live[k], live[k + 1])
      /\ End(live[n]) = back
  BY <1>0, <1>1, <1>3 DEF IInv, Layout
<1>5. /\ live' \in Seq([frame : Frame, at : 0 .. QSize])
      /\ Len(live') = n - 1
      /\ \A k \in 1 .. n - 1 : live'[k] = live[k + 1]
      /\ live' = <<>> <=> n = 1
  BY <1>0, <1>1, <1>2, TailLive
<1>6. /\ Placed(live[1])
      /\ live[1].at \in Nat /\ Bytes(live[1].frame) \in Nat /\ Bytes(live[1].frame) >= 12
  BY <1>3, <1>4
\* The shape of the buffer after the shift.
<1>7. \/ front <= back /\ front' <= back /\ curr_size' = curr_size /\ front < front'
      \/ front > back /\ front' > front /\ front' <= curr_size /\ curr_size' = curr_size
      \/ front > back /\ front = curr_size /\ front' <= back /\ curr_size' = QSize
  BY <1>1, <1>2, <1>6 DEF Placed, High, Low, End
<1>8. front' \in 0 .. QSize /\ curr_size' \in 0 .. QSize
  <2>1. front' \in Nat
    BY <1>1, <1>6 DEF End
  <2>. QED  BY <2>1, <1>2, <1>7
<1>9. IndexInv'
  BY <1>1, <1>2, <1>7, <1>8 DEF IInv, IndexInv
<1>10. GrantHolds'
  <2>1. granted \in Nat
    BY DEF IInv, TypeOK
  <2>. QED  BY <2>1, <1>1, <1>2, <1>7, <1>8 DEF IInv, GrantHolds, Fits, IndexInv
<1>11. ASSUME NEW k \in 1 .. n - 1
       PROVE  Placed(live[k])'
  <2>1. /\ k + 1 \in 2 .. n /\ live'[k] = live[k + 1]
    BY <1>3, <1>5
  <2>2. /\ live[k + 1].at \in Nat /\ Bytes(live[k + 1].frame) \in Nat /\ Bytes(live[k + 1].frame) >= 12
        /\ Placed(live[k + 1]) /\ Ordered(live[1], live[k + 1])
    BY <2>1, <1>3, <1>4
  <2>3. /\ End(live[k + 1]) \in Nat /\ End(live[k + 1]) > live[k + 1].at
        /\ End(live[k])' = End(live[k + 1]) /\ live'[k].at = live[k + 1].at
        /\ End(live[1]) = front' /\ back' = back
    BY <2>1, <2>2, <1>1 DEF End
  <2>4. CASE front <= back /\ front' <= back
    <3>1. End(live[1]) <= live[k + 1].at /\ End(live[k + 1]) <= back
      BY <2>2, <2>4, <1>2 DEF Placed, Ordered, Low
    <3>. QED  BY <2>3, <2>4, <3>1 DEF Placed
  <2>5. CASE front > back /\ front' > front /\ curr_size' = curr_size
    <3>1. High(live[k + 1]) \/ Low(live[k + 1])
      BY <2>2, <2>5, <1>2 DEF Placed
    <3>2. Low(live[k + 1]) => Low(live[k])'
      BY <2>3, <2>5, <1>2, <1>8 DEF Low
    <3>3. High(live[k + 1]) /\ ~ Low(live[k + 1]) => High(live[k])'
      BY <2>2, <2>3, <2>5, <1>2, <1>8 DEF High, Ordered
    <3>4. front' > back'
      BY <2>3, <2>5, <1>2, <1>8
    <3>. QED  BY <3>1, <3>2, <3>3, <3>4, <2>3, <1>2, <1>8 DEF Placed
  <2>6. CASE front > back /\ front = curr_size /\ front' <= back
    <3>1. ~ High(live[k + 1])
      BY <2>2, <2>3, <2>6, <1>2 DEF High
    <3>2. ~ High(live[1])
      BY <2>3, <2>6, <1>2, <1>6 DEF High, End
    <3>3. End(live[1]) <= live[k + 1].at /\ End(live[k + 1]) <= back
      BY <2>2, <2>6, <1>2, <3>1, <3>2 DEF Placed, Ordered, Low
    <3>. QED  BY <2>3, <2>6, <3>3 DEF Placed
  <2>. QED  BY <2>4, <2>5, <2>6, <1>7
<1>12. ASSUME NEW j \in 1 .. n - 1, NEW k \in 1 .. n - 1, j < k
       PROVE  Ordered(live[j], live[k])'
  <2>1. /\ j + 1 \in 2 .. n /\ live'[j] = live[j + 1]
        /\ k + 1 \in 2 .. n /\ live'[k] = live[k + 1] /\ j + 1 < k + 1
    BY <1>3, <1>5, <1>12
  <2>2. /\ live[j + 1].at \in Nat /\ Bytes(live[j + 1].frame) \in Nat /\ Bytes(live[j + 1].frame) >= 12
        /\ live[k + 1].at \in Nat /\ Bytes(live[k + 1].frame) \in Nat
        /\ Ordered(live[j + 1], live[k + 1])
        /\ Ordered(live[1], live[j + 1]) /\ Placed(live[j + 1])
    BY <2>1, <1>3, <1>4
  <2>3. CASE End(live[j + 1]) <= live[k + 1].at
    BY <2>1, <2>3 DEF Ordered, End
  <2>4. CASE High(live[j + 1]) /\ Low(live[k + 1])
    <3>1. front' > front /\ front' <= curr_size /\ curr_size' = curr_size /\ front > back
      BY <2>2, <2>4, <1>2, <1>7 DEF High, Low, End
    <3>2. front' <= live[j + 1].at
      BY SMTT(30), <2>2, <2>4, <1>1, <1>2 DEF Ordered, High, Low, End
    <3>. QED  BY <2>1, <2>4, <3>1, <3>2, <1>1, <1>2, <1>8 DEF Ordered, High, Low, End
  <2>. QED  BY <2>2, <2>3, <2>4 DEF Ordered
<1>13. ASSUME NEW k \in 1 .. n - 2
       PROVE  Adjacent(live[k], live[k + 1])'
  <2>1. /\ k + 1 \in 1 .. n - 1 /\ live'[k] = live[k + 1] /\ live'[k + 1] = live[k + 2]
        /\ k + 1 \in 1 .. n /\ k + 2 \in 1 .. n
    BY <1>3, <1>5
  <2>2. /\ Adjacent(live[k + 1], live[k + 2]) /\ Placed(live[k + 1])
        /\ live[k + 1].at \in Nat /\ Bytes(live[k + 1].frame) \in Nat /\ Bytes(live[k + 1].frame) >= 12
    BY <2>1, <1>3, <1>4
  <2>. QED  BY SMTT(30), <2>1, <2>2, <1>1, <1>2, <1>7, <1>8 DEF Adjacent, Placed, High, Low, End
<1>14. /\ n = 1 => front' = back'
       /\ n > 1 => front' # back' /\ live'[1].at = FrontOffset' /\ End(live[n - 1])' = back'
  <2>1. CASE n = 1
    BY <2>1, <1>1, <1>4
  <2>2. CASE n > 1
    <3>1. 1 \in 1 .. n - 1 /\ 2 \in 2 .. n /\ live'[1] = live[2] /\ live'[n - 1] = live[n]
      BY <2>2, <1>3, <1>5
    <3>2. /\ Adjacent(live[1], live[2]) /\ Ordered(live[1], live[2]) /\ Placed(live[2])
          /\ live[2].at \in Nat /\ Bytes(live[2].frame) \in Nat /\ Bytes(live[2].frame) >= 12
      BY <2>2, <3>1, <1>3, <1>4
    <3>3. front' # back' /\ live'[1].at = FrontOffset'
      <4>1. CASE front <= back
        <5>1. front' <= back /\ curr_size' = QSize /\ live[2].at = End(live[1]) /\ End(live[2]) <= back
          BY <4>1, <3>2, <1>2, <1>7 DEF Adjacent, Placed, IInv, IndexInv
        <5>. QED  BY <5>1, <3>1, <3>2, <1>1, <1>2, <1>8 DEF FrontOffset, End
      <4>2. CASE front > back /\ curr_size' = curr_size /\ front' > front /\ front' <= curr_size
        <5>1. End(live[2]) <= curr_size \/ End(live[2]) <= back
          BY <4>2, <3>2, <1>2 DEF Placed, High, Low
        <5>2. \/ live[2].at = front'
              \/ live[2].at = 0 /\ front' = curr_size
          BY <3>2, <1>1 DEF Adjacent
        <5>. QED  BY <4>2, <5>1, <5>2, <3>1, <3>2, <1>1, <1>2, <1>8 DEF FrontOffset, End
      <4>3. CASE front > back /\ front = curr_size /\ front' <= back /\ curr_size' = QSize
        <5>1. End(live[2]) <= back
          BY <4>3, <3>2, <1>2 DEF Placed, High, Low, End
        <5>2. live[2].at = front'
          BY <4>3, <3>2, <1>1, <1>2 DEF Adjacent
        <5>. QED  BY <4>3, <5>1, <5>2, <3>1, <3>2, <1>1, <1>2, <1>8 DEF FrontOffset, End
      <4>. QED  BY <4>1, <4>2, <4>3, <1>7
    <3>4. End(live[n - 1])' = back'
      BY <3>1, <1>1, <1>4 DEF End
    <3>. QED  BY <2>2, <3>3, <3>4
  <2>. QED  BY <2>1, <2>2, <1>3
<1>15. Layout'
  <2>1. Len(live') - 1 = n - 2 /\ (n = 1 \/ n > 1)
    BY <1>3, <1>5
  <2>. QED  BY <2>1, <1>5, <1>11, <1>12, <1>13, <1>14 DEF Layout
<1>16. AcceptedIntact'
  <2>1. ASSUME NEW k \in 1 .. n - 1
        PROVE  Intact(live[k])'
    <3>1. k + 1 \in 1 .. n /\ live'[k] = live[k + 1]
      BY <1>3, <1>5
    <3>2. Intact(live[k + 1])
      BY <3>1, <1>0 DEF IInv, AcceptedIntact
    <3>. QED  BY <3>1, <3>2, <1>1 DEF Intact
  <2>. QED  BY <2>1, <1>5 DEF AcceptedIntact
<1>. QED
  BY <1>5, <1>8, <1>9, <1>10, <1>15, <1>16
\* Releasing a frame preserves the invariant.
LEMMA ShiftStep ==
  ASSUME IInv, jd_queue_shift
  PROVE  IInv'
<1>1. /\ front' \in 0 .. QSize /\ curr_size' \in 0 .. QSize
      /\ live' \in Seq([frame : Frame, at : 0 .. QSize])
      /\ IndexInv' /\ Layout' /\ AcceptedIntact' /\ GrantHolds'
  BY ShiftLayout
<1>2. /\ reader' = "idle" /\ ptr' = 0 /\ UNCHANGED <<back, data, ret, granted>> /\ failed' = FALSE
  BY ShiftIndices DEF jd_queue_shift
<1>3. TypeOK'
  <2>1. 0 \in 0 .. QSize
    BY QSizeAssumption
  <2>2. /\ reader' \in {"idle", "nonempty", "held"} /\ ptr' \in 0 .. QSize
        /\ failed' \in BOOLEAN
    BY <2>1, <1>2
  <2>. QED  BY <1>1, <1>2, <2>2 DEF IInv, TypeOK
<1>4. ReaderInv' /\ HeldIsOldest' /\ AssertsHold'
  BY <1>2 DEF ReaderInv, HeldIsOldest, AssertsHold
<1>. QED  BY <1>1, <1>3, <1>4 DEF IInv

\* Steps that leave the indices, the bytes and the accepted frames alone
\* leave the layout alone.
LEMMA SameLayout ==
  ASSUME IInv, UNCHANGED <<indices, data, live>>
  PROVE  IndexInv' /\ Layout' /\ AcceptedIntact'
<1>1. UNCHANGED <<front, back, curr_size, data, live>>
  BY DEF indices
<1>2. IndexInv' /\ AcceptedIntact'
  BY <1>1 DEF IInv, IndexInv, AcceptedIntact, Intact
<1>3. Layout'
  BY <1>1 DEF IInv, Layout, Placed, Ordered, Adjacent, High, Low, End, FrontOffset
<1>. QED  BY <1>2, <1>3

\* Both steps of jd_queue_front preserve the invariant.
LEMMA FrontStep ==
  ASSUME IInv, FrontTest \/ FrontPick
  PROVE  IInv'
<1>1. UNCHANGED <<front, back, curr_size, data, ret, granted, failed, live>>
  BY DEF FrontTest, FrontPick, indices
<1>2. IndexInv' /\ Layout' /\ AcceptedIntact'
  BY <1>1, SameLayout DEF indices
<1>3. GrantHolds' /\ AssertsHold'
  BY <1>1 DEF IInv, GrantHolds, Fits, AssertsHold
<1>4. CASE FrontTest
  <2>1. reader' = "nonempty" /\ ptr' = ptr /\ live # <<>>
    BY <1>4 DEF FrontTest, IInv, Layout
  <2>2. TypeOK' /\ ReaderInv' /\ HeldIsOldest'
    BY <1>1, <2>1 DEF IInv, TypeOK, ReaderInv, HeldIsOldest
  <2>. QED  BY <1>2, <1>3, <2>2 DEF IInv
<1>5. CASE FrontPick
  <2>1. reader' = "held" /\ ptr' = FrontOffset /\ live # <<>>
    BY <1>5 DEF FrontPick, IInv, ReaderInv
  <2>2. live[1].at = FrontOffset /\ FrontOffset \in 0 .. QSize
    BY <2>1, HeadFacts, QSizeAssumption
  <2>3. TypeOK' /\ ReaderInv' /\ HeldIsOldest'
    BY <1>1, <2>1, <2>2 DEF IInv, TypeOK, ReaderInv, HeldIsOldest
  <2>. QED  BY <1>2, <1>3, <2>3 DEF IInv
<1>. QED  BY <1>4, <1>5

\* jd_queue_will_fit preserves the invariant.
LEMMA WillFitStep ==
  ASSUME IInv, NEW size \in Nat, jd_queue_will_fit(size)
  PROVE  IInv'
<1>1. /\ UNCHANGED <<front, back, curr_size, data, ret, reader, ptr, failed, live>>
      /\ granted' = IF Fits(size) THEN size ELSE 0
  BY DEF jd_queue_will_fit, indices
<1>2. IndexInv' /\ Layout' /\ AcceptedIntact'
  BY <1>1, SameLayout DEF indices
<1>3. TypeOK' /\ ReaderInv' /\ HeldIsOldest' /\ AssertsHold'
  BY <1>1 DEF IInv, TypeOK, ReaderInv, HeldIsOldest, AssertsHold
<1>4. GrantHolds'
  BY <1>1 DEF GrantHolds, Fits
<1>. QED  BY <1>2, <1>3, <1>4 DEF IInv

------------------------------------------------------------------------------
(* The theorems. *)

\* The invariant holds of the queue jd_queue_alloc returns.
LEMMA InitIInv == Init => IInv
<1>. SUFFICES ASSUME Init PROVE IInv
  OBVIOUS
<1>. USE DEF Init, jd_queue_alloc
<1>1. live = <<>> /\ Len(live) = 0
  BY EmptySeq
<1>2. NoByte \in [frame : Frame \cup {NoFrame}, pos : Nat]
  BY DEF NoByte
<1>3. data \in [0 .. QSize - 1 -> [frame : Frame \cup {NoFrame}, pos : Nat]]
  BY <1>2
<1>4. TypeOK
  <2>1. 0 \in 0 .. QSize /\ QSize \in 0 .. QSize
    BY QSizeAssumption
  <2>2. live \in Seq([frame : Frame, at : 0 .. QSize])
    BY <1>1, EmptySeq
  <2>. QED  BY <1>3, <2>1, <2>2 DEF TypeOK
<1>5. Layout /\ AcceptedIntact
  BY <1>1 DEF Layout, AcceptedIntact
<1>6. IndexInv /\ ReaderInv /\ HeldIsOldest /\ GrantHolds /\ AssertsHold
  BY QSizeAssumption DEF IndexInv, ReaderInv, HeldIsOldest, GrantHolds, AssertsHold
<1>. QED  BY <1>4, <1>5, <1>6 DEF IInv

\* Every step preserves the invariant.
LEMMA NextIInv == IInv /\ [Next]_vars => IInv'
<1>. SUFFICES ASSUME IInv, [Next]_vars PROVE IInv'
  OBVIOUS
<1>1. ASSUME NEW f \in Frame, jd_queue_push(f)  PROVE IInv'
  BY <1>1, PushStep
<1>2. ASSUME NEW sz \in PayloadSizes, jd_queue_will_fit(FRM_SIZE(sz))  PROVE IInv'
  BY <1>2, WillFitStep, FrmSizeType, SizesAssumption
<1>3. CASE FrontTest \/ FrontPick
  BY <1>3, FrontStep
<1>4. CASE jd_queue_shift
  BY <1>4, ShiftStep
<1>5. CASE UNCHANGED vars
  <2>1. UNCHANGED <<front, back, curr_size, data, ret, reader, ptr, granted, failed, live>>
    BY <1>5 DEF vars
  <2>2. IndexInv' /\ Layout' /\ AcceptedIntact'
    BY <2>1, SameLayout DEF indices
  <2>3. TypeOK' /\ ReaderInv' /\ HeldIsOldest' /\ GrantHolds' /\ AssertsHold'
    BY <2>1 DEF IInv, TypeOK, ReaderInv, HeldIsOldest, GrantHolds, Fits, AssertsHold
  <2>. QED  BY <2>2, <2>3 DEF IInv
<1>. QED  BY <1>1, <1>2, <1>3, <1>4, <1>5 DEF Next

\* The invariant of the queue holds in every reachable state.
THEOREM Invariance == Spec => []IInv
  BY InitIInv, NextIInv, PTL DEF Spec

\* The indices of jd_queue_push and jd_queue_shift stay inside the buffer.
THEOREM TypeCorrect == Spec => []TypeOK
<1>1. IInv => TypeOK
  BY DEF IInv
<1>. QED  BY <1>1, Invariance, PTL

\* No ASSERT of jd_queue_push or jd_queue_shift fails.
THEOREM NoAssertFails == Spec => []AssertsHold
<1>1. IInv => AssertsHold
  BY DEF IInv
<1>. QED  BY <1>1, Invariance, PTL

\* No push overwrites a byte of a frame that has not been shifted out.
THEOREM NothingOverwritten == Spec => []AcceptedIntact
<1>1. IInv => AcceptedIntact
  BY DEF IInv
<1>. QED  BY <1>1, Invariance, PTL

\* What jd_queue_front returned stays the oldest frame until the shift.
THEOREM ReaderGetsOldest == Spec => []HeldIsOldest
<1>1. IInv => HeldIsOldest
  BY DEF IInv
<1>. QED  BY <1>1, Invariance, PTL

\* The answer of jd_queue_will_fit does not go stale.
THEOREM GrantsKept == Spec => []GrantHolds
<1>1. IInv => GrantHolds
  BY DEF IInv
<1>. QED  BY <1>1, Invariance, PTL

\* An empty queue takes any frame of at most half its size.
THEOREM NeverWedged == Spec => []EmptyAccepts
<1>1. IInv => EmptyAccepts
  <2>. SUFFICES ASSUME IInv, live = <<>>, NEW sz \in PayloadSizes
                PROVE  Fits(FRM_SIZE(sz))
    BY DEF EmptyAccepts
  <2>1. front = back /\ front \in 0 .. QSize /\ QSize \in Nat
    BY QSizeAssumption DEF IInv, Layout, TypeOK
  <2>2. FRM_SIZE(sz) \in Nat /\ 2 * FRM_SIZE(sz) <= QSize
    BY FrmSizeType, SizesAssumption, HalfAssumption
  <2>. QED  BY <2>1, <2>2 DEF Fits
<1>. QED  BY <1>1, Invariance, PTL

\* jd_queue_push refuses a frame only when less than a largest frame is free.
THEOREM RejectionsJustified == Spec => RejectsOnlyNearlyFull
<1>. DEFINE Justified ==
       \A f \in Frame : jd_queue_push(f) /\ ret' # 0 =>
         \E sz \in PayloadSizes : Used + Bytes(f) > QSize - FRM_SIZE(sz)
<1>1. IInv => Justified
  <2>. SUFFICES ASSUME IInv, NEW f \in Frame, jd_queue_push(f), ret' # 0
                PROVE  \E sz \in PayloadSizes : Used + Bytes(f) > QSize - FRM_SIZE(sz)
    OBVIOUS
  <2>1. ~ Fits(Bytes(f))
    BY DEF jd_queue_push, PushBehind, PushWrapping, PushAt, PushRejected
  <2>2. /\ front \in 0 .. QSize /\ back \in 0 .. QSize /\ curr_size \in 0 .. QSize /\ QSize \in Nat
        /\ Bytes(f) \in Nat /\ f.size \in PayloadSizes /\ Bytes(f) = FRM_SIZE(f.size)
        /\ \A sz \in PayloadSizes : FRM_SIZE(sz) \in Nat
    BY QSizeAssumption, BytesType, FrmSizeType, SizesAssumption DEF IInv, TypeOK
  <2>3. CASE front <= back
    BY <2>1, <2>2, <2>3 DEF Fits, Used
  <2>4. CASE front > back
    <3>1. PICK sz \in PayloadSizes : curr_size + FRM_SIZE(sz) > QSize
      BY <2>4 DEF IInv, IndexInv
    <3>. QED  BY <3>1, <2>1, <2>2, <2>4 DEF Fits, Used
  <2>. QED  BY <2>2, <2>3, <2>4
<1>2. RejectsOnlyNearlyFull <=> [][Justified]_vars
  BY DEF RejectsOnlyNearlyFull
<1>. HIDE DEF Justified
<1>. QED  BY <1>1, <1>2, Invariance, PTL
------------------------------------------------------------------------------
(* The queue implements the abstract FIFO. *)

\* The abstract queue, element by element.
FrameSeqIs ==
  /\ FrameSeq \in Seq(Frame)
  /\ Len(FrameSeq) = Len(live)
  /\ \A k \in 1 .. Len(live) : FrameSeq[k] = live[k].frame
  /\ live # <<>> => FrameSeq # <<>> /\ Head(FrameSeq) = live[1].frame

\* What the reader is shown: the oldest frame.
ShownIs == Shown = IF reader = "held" THEN live[1].frame ELSE NoFrame

\* The abstract queue holds the accepted frames.
LEMMA FrameSeqFacts == TypeOK => FrameSeqIs
<1>. SUFFICES ASSUME TypeOK PROVE FrameSeqIs
  OBVIOUS
<1>1. Len(live) \in Nat /\ \A k \in 1 .. Len(live) : live[k].frame \in Frame
  BY LiveType
<1>2. FrameSeq \in [1 .. Len(live) -> Frame]
  BY <1>1 DEF FrameSeq
<1>3. FrameSeq \in Seq(Frame)
  BY <1>1, <1>2, SeqDef
<1>4. Len(FrameSeq) = Len(live)
  BY <1>1, <1>2, <1>3, LenProperties
<1>5. \A k \in 1 .. Len(live) : FrameSeq[k] = live[k].frame
  BY DEF FrameSeq
<1>6. ASSUME live # <<>>
      PROVE  FrameSeq # <<>> /\ Head(FrameSeq) = live[1].frame
  <2>1. Len(live) >= 1
    BY <1>1, <1>6, EmptySeq DEF TypeOK
  <2>. QED  BY <2>1, <1>1, <1>3, <1>4, <1>5, EmptySeq
<1>. QED  BY <1>3, <1>4, <1>5, <1>6 DEF FrameSeqIs

\* The same of the next state.
LEMMA FrameSeqFactsNext == TypeOK' => FrameSeqIs'
  BY FrameSeqFacts, PTL

\* What the reader is shown is the oldest frame.
LEMMA ShownFacts == IInv => ShownIs
<1>. SUFFICES ASSUME IInv PROVE ShownIs
  OBVIOUS
<1>1. ASSUME reader = "held"
      PROVE  FrameAt(ptr) = live[1].frame
  BY <1>1, HeadFacts DEF IInv, HeldIsOldest
<1>. QED  BY <1>1 DEF Shown, ShownIs

\* The same of the next state.
LEMMA ShownFactsNext == IInv' => ShownIs'
  BY ShownFacts, PTL

\* An accepted push is an Accept of the FIFO.
LEMMA PushAccepts ==
  ASSUME IInv, IInv', NEW f \in Frame, jd_queue_push(f)
  PROVE  [Fifo!FifoNext]_(Fifo!fifoVars)
<1>1. TypeOK /\ TypeOK' /\ (reader = "held" => live # <<>>)
  BY DEF IInv, ReaderInv
<1>2. CASE PushRejected(f)
  <2>1. UNCHANGED <<data, live, reader, ptr>>
    BY <1>2 DEF jd_queue_push, PushRejected
  <2>. QED  BY <2>1 DEF FrameSeq, Shown, FrameAt, Fifo!fifoVars
<1>3. CASE PushBehind(f) \/ PushWrapping(f)
  <2>1. PICK at : live' = Append(live, [frame |-> f, at |-> at]) /\ at \in 0 .. QSize
    BY SMTT(30), <1>1, <1>3, QSizeAssumption DEF PushBehind, PushWrapping, PushAt, TypeOK
  <2>2. /\ Len(live') = Len(live) + 1
        /\ \A k \in 1 .. Len(live) : live'[k] = live[k]
        /\ live'[Len(live) + 1] = [frame |-> f, at |-> at]
    BY <1>1, <2>1, AppendLive
  <2>3. FrameSeq' = Append(FrameSeq, f)
    <3>1. /\ FrameSeq' \in Seq(Frame) /\ Append(FrameSeq, f) \in Seq(Frame)
          /\ Len(FrameSeq') = Len(live) + 1 /\ Len(Append(FrameSeq, f)) = Len(live) + 1
          /\ Len(live) \in Nat
      BY <1>1, <2>2, FrameSeqFacts, FrameSeqFactsNext, AppendProperties, LiveType DEF FrameSeqIs
    <3>2. ASSUME NEW k \in 1 .. Len(live) + 1
          PROVE  FrameSeq'[k] = Append(FrameSeq, f)[k]
      <4>1. FrameSeq'[k] = live'[k].frame
        BY <1>1, <2>2, FrameSeqFactsNext DEF FrameSeqIs
      <4>2. Append(FrameSeq, f)[k] = IF k <= Len(live) THEN live[k].frame ELSE f
        BY <1>1, <3>1, FrameSeqFacts, AppendProperties DEF FrameSeqIs
      <4>. QED  BY <4>1, <4>2, <2>2, <3>1
    <3>. QED  BY <3>1, <3>2, SeqEqual
  <2>4. Shown' = Shown
    <3>1. reader' = reader /\ (reader = "held" => live'[1] = live[1])
      <4>1. live # <<>> => 1 \in 1 .. Len(live)
        BY <1>1, EmptySeq DEF TypeOK
      <4>. QED  BY <1>1, <2>2, <4>1 DEF jd_queue_push
    <3>2. Shown' = IF reader' = "held" THEN live'[1].frame ELSE NoFrame
      BY ShownFactsNext DEF ShownIs
    <3>. QED  BY <3>1, <3>2, ShownFacts DEF ShownIs
  <2>. QED  BY <2>3, <2>4 DEF Fifo!FifoNext, Fifo!Accept
<1>. QED  BY <1>2, <1>3 DEF jd_queue_push

\* The end of jd_queue_front is a Show, jd_queue_shift a Release.
LEMMA ReaderSteps ==
  ASSUME IInv, IInv', FrontPick \/ jd_queue_shift
  PROVE  Fifo!FifoNext
<1>1. TypeOK /\ TypeOK' /\ live # <<>>
  BY DEF IInv, ReaderInv, FrontPick, jd_queue_shift
<1>2. FrameSeq # <<>> /\ Head(FrameSeq) = live[1].frame
  BY <1>1, FrameSeqFacts DEF FrameSeqIs
<1>3. Shown' = IF reader' = "held" THEN live'[1].frame ELSE NoFrame
  BY ShownFactsNext DEF ShownIs
<1>4. CASE FrontPick
  <2>1. live' = live /\ reader' = "held"
    BY <1>4 DEF FrontPick
  <2>2. FrameSeq' = FrameSeq
    BY <2>1 DEF FrameSeq
  <2>. QED  BY <1>2, <1>3, <2>1, <2>2 DEF Fifo!FifoNext, Fifo!Show
<1>5. CASE jd_queue_shift
  <2>1. live' = Tail(live) /\ reader' = "idle" /\ reader = "held"
    BY <1>5 DEF jd_queue_shift
  <2>2. /\ Len(live') = Len(live) - 1
        /\ \A k \in 1 .. Len(live') : live'[k] = live[k + 1]
    BY <1>1, <2>1, TailLive
  <2>3. FrameSeq' = Tail(FrameSeq)
    <3>1. /\ FrameSeq' \in Seq(Frame) /\ Tail(FrameSeq) \in Seq(Frame)
          /\ Len(FrameSeq') = Len(live) - 1 /\ Len(Tail(FrameSeq)) = Len(live) - 1
          /\ Len(live) \in Nat
      BY <1>1, <1>2, <2>2, FrameSeqFacts, FrameSeqFactsNext, HeadTailProperties, LiveType DEF FrameSeqIs
    <3>2. ASSUME NEW k \in 1 .. Len(live) - 1
          PROVE  FrameSeq'[k] = Tail(FrameSeq)[k]
      <4>1. FrameSeq'[k] = live'[k].frame
        BY <1>1, <2>2, FrameSeqFactsNext DEF FrameSeqIs
      <4>2. Tail(FrameSeq)[k] = FrameSeq[k + 1]
        BY <1>1, <1>2, <3>1, FrameSeqFacts, HeadTailProperties DEF FrameSeqIs
      <4>3. k + 1 \in 1 .. Len(live)
        BY <3>1
      <4>. QED  BY <1>1, <3>1, <4>1, <4>2, <4>3, <2>2, FrameSeqFacts DEF FrameSeqIs
    <3>. QED  BY <3>1, <3>2, SeqEqual
  <2>4. Shown = live[1].frame /\ Shown' = NoFrame
    BY <1>3, <2>1, ShownFacts DEF ShownIs
  <2>. QED  BY <1>2, <2>3, <2>4 DEF Fifo!FifoNext, Fifo!Release
<1>. QED  BY <1>4, <1>5

\* Frames come out once, whole and in push order: the ring of jd_queue.c
\* implements the abstract FIFO.
THEOREM Refinement == Spec => FifoSpec
<1>1. Init => Fifo!FifoInit
  <2>. SUFFICES ASSUME Init PROVE Fifo!FifoInit
    OBVIOUS
  <2>1. TypeOK /\ live = <<>> /\ reader = "idle"
    BY InitIInv DEF IInv, Init
  <2>2. FrameSeq = <<>>
    BY <2>1, FrameSeqFacts, EmptySeq DEF FrameSeqIs
  <2>. QED  BY <2>1, <2>2 DEF Fifo!FifoInit, Shown
<1>2. IInv /\ IInv' /\ [Next]_vars => [Fifo!FifoNext]_(Fifo!fifoVars)
  <2>. SUFFICES ASSUME IInv, IInv', [Next]_vars
                PROVE  [Fifo!FifoNext]_(Fifo!fifoVars)
    OBVIOUS
  <2>1. ASSUME NEW f \in Frame, jd_queue_push(f)
        PROVE  [Fifo!FifoNext]_(Fifo!fifoVars)
    BY <2>1, PushAccepts
  <2>2. CASE FrontPick \/ jd_queue_shift
    BY <2>2, ReaderSteps
  <2>3. ASSUME NEW sz \in PayloadSizes, jd_queue_will_fit(FRM_SIZE(sz))
        PROVE  UNCHANGED Fifo!fifoVars
    BY <2>3 DEF jd_queue_will_fit, indices, Fifo!fifoVars, FrameSeq, Shown, FrameAt
  <2>4. CASE FrontTest
    BY <2>4 DEF FrontTest, indices, Fifo!fifoVars, FrameSeq, Shown, FrameAt
  <2>5. CASE UNCHANGED vars
    BY <2>5 DEF vars, Fifo!fifoVars, FrameSeq, Shown, FrameAt
  <2>. QED  BY <2>1, <2>2, <2>3, <2>4, <2>5 DEF Next
<1>. QED  BY <1>1, <1>2, Invariance, PTL DEF Spec, FifoSpec, Fifo!FifoSpec

-----------------------------------------------------------------------------
(***************************************************************************)
(* The queue of bytes (JdBqueue), for every size of the ring.              *)
(***************************************************************************)
CONSTANTS Sizes, Values
VARIABLES q, next, text, taken, lent, step, raced, fault

Bq == INSTANCE JdBqueue

BqSizes == Sizes \subseteq Nat \ {0} /\ Values \in Nat \ {0}

Ring(r) ==
  /\ r = [front |-> r.front, back |-> r.back, filled |-> r.filled, size |-> r.size, data |-> r.data]
  /\ r.front \in Nat /\ r.back \in Nat /\ r.filled \in Nat /\ r.size \in Nat \ {0}
  /\ r.data \in [0 .. r.size - 1 -> Int] /\ Bq!Valid(r)

\* Where the i-th byte is.
At(r, i) == IF r.front + i - 1 < r.size THEN r.front + i - 1 ELSE r.front + i - 1 - r.size

\* The ring holds the bytes t.
Holds(r, t) ==
  t \in Seq(Int) /\ Len(t) = r.filled /\ \A i \in 1 .. r.filled : r.data[At(r, i)] = t[i]

\* A ring that may fail validate.
Cells(r) ==
  /\ r = [front |-> r.front, back |-> r.back, filled |-> r.filled, size |-> r.size, data |-> r.data]
  /\ r.front \in Nat /\ r.back \in Nat /\ r.filled \in Nat /\ r.size \in Nat \ {0}
  /\ r.data \in [0 .. r.size - 1 -> Int]
  /\ r.back < r.size /\ r.filled < r.size

\* The ring is right.
Right(r) == Ring(r) /\ Holds(r, text)

\* What is true between two steps: the ring is right, or will be once the steps under
\* way are taken, or fails validate, and then says how it came to that.
BqSteps ==
  /\ step = "idle" => Right(q) /\ lent <= Bq!jd_bqueue_available_cont_data(q)
  /\ step = "front" => lent > 0 /\ Cells(q) /\ Right(Bq!Wrapped(Bq!Counted(q, lent)))
  /\ step = "filled" => Cells(q) /\ Right(Bq!Wrapped(q))
  /\ step = "emptied" =>
       /\ lent = 0 /\ Cells(q) /\ q.front < q.size /\ (~ raced => text = <<>>)
       /\ Right(q) \/ (~ Bq!Valid(q) /\ q.filled = 0 /\ text = <<>>)
  /\ step = "reset" =>
       /\ lent = 0 /\ Cells(q) /\ q.front < q.size /\ (~ raced => text = <<>> /\ q.back = 0)
       /\ Right(q) \/ (~ Bq!Valid(q) /\ q.back = 0 /\ q.filled = Len(text) /\ text \in Seq(Int))

TakenDue == taken = [got |-> taken.got, due |-> taken.due] /\ taken.got = taken.due

BqInv ==
  /\ next \in Nat /\ lent \in Nat /\ TakenDue
  /\ step \in {"idle", "front", "filled", "emptied", "reset"} /\ raced \in BOOLEAN
  /\ fault \in {"none", "panic", "torn"} /\ (fault # "none" => raced)
  /\ fault = "none" => BqSteps

\* A function on 1 .. n is a sequence.
LEMMA FunctionIsSeq ==
  ASSUME NEW S, NEW n \in Nat, NEW f \in [1 .. n -> S]
  PROVE  f \in Seq(S) /\ Len(f) = n
  OBVIOUS

\* Sequences with the same entries are the same.
LEMMA SameSeq ==
  ASSUME NEW S, NEW a \in Seq(S), NEW b \in Seq(S), Len(a) = Len(b),
         \A i \in 1 .. Len(a) : a[i] = b[i]
  PROVE  a = b
  OBVIOUS

\* The first n entries of a sequence, and the others.
LEMMA CutFacts ==
  ASSUME NEW S, NEW t \in Seq(S), NEW n \in 0 .. Len(t)
  PROVE  LET u == SubSeq(t, 1, n)
             w == SubSeq(t, n + 1, Len(t))
         IN  /\ u \in Seq(S) /\ Len(u) = n /\ \A i \in 1 .. n : u[i] = t[i]
             /\ w \in Seq(S) /\ Len(w) = Len(t) - n
             /\ \A i \in 1 .. Len(t) - n : w[i] = t[n + i]
<1>1. Len(t) \in Nat /\ n \in Nat /\ n <= Len(t)
  OBVIOUS
<1>2. \A i \in 1 .. Len(t) : t[i] \in S
  OBVIOUS
<1> DEFINE u == SubSeq(t, 1, n)
           w == SubSeq(t, n + 1, Len(t))
<1>3. u \in Seq(S) /\ Len(u) = n /\ \A i \in 1 .. n : u[i] = t[i]
  BY <1>1, <1>2
<1>4. w \in Seq(S) /\ Len(w) = Len(t) - n /\ \A i \in 1 .. Len(t) - n : w[i] = t[n + i]
  <2>1. \A i \in n + 1 .. Len(t) : t[i] \in S
    BY <1>1, <1>2
  <2>2. /\ w \in Seq(S) /\ Len(w) = IF n + 1 <= Len(t) THEN Len(t) - (n + 1) + 1 ELSE 0
        /\ \A i \in 1 .. Len(t) - (n + 1) + 1 : w[i] = t[(n + 1) + i - 1]
    BY <1>1, <2>1, SubSeqProperties
  <2>3. Len(w) = Len(t) - n
    BY <1>1, <2>2
  <2>4. ASSUME NEW i \in 1 .. Len(t) - n
        PROVE  w[i] = t[n + i]
    <3>1. i \in 1 .. Len(t) - (n + 1) + 1 /\ (n + 1) + i - 1 = n + i
      BY <1>1
    <3> QED
      BY <2>2, <3>1
  <2> QED
    BY <2>2, <2>3, <2>4
<1> QED
  BY <1>3, <1>4

\* Two pieces from the front are one.
LEMMA CutTwice ==
  ASSUME NEW S, NEW t \in Seq(S), NEW a \in Nat, NEW b \in Nat, a + b <= Len(t)
  PROVE  LET w == SubSeq(t, a + 1, Len(t)) IN
         /\ SubSeq(t, 1, a) \o SubSeq(w, 1, b) = SubSeq(t, 1, a + b)
         /\ SubSeq(w, b + 1, Len(w)) = SubSeq(t, a + b + 1, Len(t))
<1> DEFINE w == SubSeq(t, a + 1, Len(t))
           u == SubSeq(t, 1, a)
           v == SubSeq(w, 1, b)
           x == SubSeq(w, b + 1, Len(w))
           y == SubSeq(t, 1, a + b)
           z == SubSeq(t, (a + b) + 1, Len(t))
<1>1. Len(t) \in Nat /\ a \in 0 .. Len(t) /\ a + b \in 0 .. Len(t)
  OBVIOUS
<1>2. /\ u \in Seq(S) /\ Len(u) = a /\ \A i \in 1 .. a : u[i] = t[i]
      /\ w \in Seq(S) /\ Len(w) = Len(t) - a /\ \A i \in 1 .. Len(t) - a : w[i] = t[a + i]
  BY <1>1, CutFacts
<1>3. /\ y \in Seq(S) /\ Len(y) = a + b /\ \A i \in 1 .. a + b : y[i] = t[i]
      /\ z \in Seq(S) /\ Len(z) = Len(t) - (a + b)
      /\ \A i \in 1 .. Len(t) - (a + b) : z[i] = t[(a + b) + i]
  BY <1>1, CutFacts
<1>4. b \in 0 .. Len(w)
  BY <1>1, <1>2
<1> HIDE DEF w
<1>5. /\ v \in Seq(S) /\ Len(v) = b /\ \A i \in 1 .. b : v[i] = w[i]
      /\ x \in Seq(S) /\ Len(x) = Len(w) - b /\ \A i \in 1 .. Len(w) - b : x[i] = w[b + i]
  BY <1>2, <1>4, CutFacts
<1> HIDE DEF u, v, x, y, z
<1>6. u \o v \in Seq(S) /\ Len(u \o v) = a + b
      /\ \A i \in 1 .. a + b : (u \o v)[i] = IF i <= a THEN u[i] ELSE v[i - a]
  <2>1. /\ u \o v \in Seq(S) /\ Len(u \o v) = Len(u) + Len(v)
        /\ \A i \in 1 .. Len(u) + Len(v) : (u \o v)[i] = IF i <= Len(u) THEN u[i] ELSE v[i - Len(u)]
    <3>1. u \in Seq(S) /\ v \in Seq(S)
      BY <1>2, <1>5
    <3> QED
      BY <3>1
  <2> QED
    BY <1>2, <1>5, <2>1
<1>7. \A i \in 1 .. a + b : (u \o v)[i] = y[i]
  <2> SUFFICES ASSUME NEW i \in 1 .. a + b
               PROVE  (u \o v)[i] = y[i]
    OBVIOUS
  <2>1. CASE i <= a
    BY <1>2, <1>3, <1>6, <2>1
  <2>2. CASE ~ i <= a
    <3>1. i - a \in 1 .. b /\ i - a \in 1 .. Len(t) - a /\ a + (i - a) = i
      BY <1>1, <2>2
    <3>2. (u \o v)[i] = v[i - a] /\ v[i - a] = w[i - a] /\ w[i - a] = t[a + (i - a)]
      BY <1>2, <1>5, <1>6, <2>2, <3>1
    <3> QED
      BY <1>3, <3>1, <3>2
  <2> QED
    BY <2>1, <2>2
<1>8. \A i \in 1 .. Len(x) : x[i] = z[i]
  <2> SUFFICES ASSUME NEW i \in 1 .. Len(x)
               PROVE  x[i] = z[i]
    OBVIOUS
  <2>1. i \in 1 .. Len(w) - b /\ b + i \in 1 .. Len(t) - a /\ i \in 1 .. Len(t) - (a + b)
        /\ a + (b + i) = (a + b) + i
    BY <1>1, <1>2, <1>4, <1>5
  <2>2. x[i] = w[b + i]
    BY <1>5, <2>1
  <2>3. w[b + i] = t[a + (b + i)]
    BY <1>2, <2>1
  <2>4. z[i] = t[(a + b) + i]
    BY <1>3, <2>1
  <2> QED
    BY <2>1, <2>2, <2>3, <2>4
<1>9. u \o v = y
  BY <1>3, <1>6, <1>7, SameSeq
<1>10. x = z
  <2>1. Len(x) = Len(z)
    BY <1>1, <1>2, <1>3, <1>5
  <2> QED
    BY <1>3, <1>5, <1>8, <2>1, SameSeq
<1> QED
  BY <1>9, <1>10 DEF u, v, w, x, y, z

\* The places of the bytes differ, and tell where the filled part is.
LEMMA Places ==
  ASSUME NEW r, Ring(r), NEW i \in 1 .. r.size
  PROVE  At(r, i) \in 0 .. r.size - 1
  BY DEF Ring, At, Bq!Valid

LEMMA PlaceModulo ==
  ASSUME NEW m \in Nat \ {0}, NEW x \in Nat, x < 2 * m
  PROVE  x % m = IF x < m THEN x ELSE x - m
<1> DEFINE r == x % m
           d == x \div m
<1>1. r \in 0 .. m - 1 /\ d \in Int /\ x = m * d + r
  BY Division
<1> HIDE DEF r, d
<1>2. CASE x < m
  <2>1. x \in 0 .. m - 1 /\ m * d + r = m * 0 + x
    BY <1>1, <1>2
  <2> QED
    BY <1>1, <1>2, <2>1, RemainderUnique DEF r
<1>3. CASE ~ x < m
  <2>1. x - m \in 0 .. m - 1 /\ m * d + r = m * 1 + (x - m)
    BY <1>1, <1>3
  <2> QED
    BY <1>1, <1>3, <2>1, RemainderUnique DEF r
<1> QED
  BY <1>2, <1>3

\* Where the front gets to, and where bytes are from there.
LEMMA AdvanceNumbers ==
  ASSUME NEW x \in Nat, NEW b \in Nat, NEW z \in Nat, NEW n \in Nat, NEW y, NEW filled0,
         x < z, b < z, filled0 = IF b >= x THEN b - x ELSE b + z - x,
         n <= IF x <= b THEN b - x ELSE z - x,
         y = IF x + n = z THEN 0 ELSE x + n
  PROVE  /\ y \in Nat /\ y < z /\ filled0 \in Nat /\ filled0 - n \in Nat
         /\ filled0 - n = IF b >= y THEN b - y ELSE b + z - y
         /\ n = (IF x <= b THEN b - x ELSE z - x) => (IF y <= b THEN b - y ELSE z - y) = filled0 - n
         /\ \A i \in 1 .. filled0 - n :
              (IF y + i - 1 < z THEN y + i - 1 ELSE y + i - 1 - z) =
                IF x + (n + i) - 1 < z THEN x + (n + i) - 1 ELSE x + (n + i) - 1 - z
<1>1. CASE x + n = z
  BY <1>1
<1>2. CASE x + n # z
  BY <1>2
<1> QED
  BY <1>1, <1>2

\* The bytes of the first piece lie one behind the other.
LEMMA PieceNumbers ==
  ASSUME NEW x \in Nat, NEW b \in Nat, NEW z \in Nat, NEW l \in Nat, NEW n \in Nat, NEW i \in 1 .. n,
         x < z, b < z, n <= l, n <= IF x <= b THEN b - x ELSE z - x
  PROVE  /\ x + i - 1 \in 0 .. z - 1 /\ i \in 1 .. l
         /\ x + i - 1 = IF x + i - 1 < z THEN x + i - 1 ELSE x + i - 1 - z
<1>1. n <= z - x
  <2>1. CASE x <= b
    BY <2>1
  <2>2. CASE ~ x <= b
    BY <2>2
  <2> QED
    BY <2>1, <2>2
<1>2. i \in Nat /\ 1 <= i /\ i <= n
  OBVIOUS
<1> QED
  BY ONLY <1>1, <1>2, x \in Nat, z \in Nat, l \in Nat, n \in Nat, n <= l

\* A piece that lies in one stretch: what is read are the oldest bytes, and taking
\* them leaves the others.
LEMMA Advances ==
  ASSUME NEW r, Ring(r), NEW t, Holds(r, t),
         NEW n \in Nat, n <= Bq!jd_bqueue_available_cont_data(r)
  PROVE  LET r1 == Bq!jd_bqueue_cont_data_advance(r, n) IN
         /\ n <= r.filled /\ Bq!Contiguous(r, n) = SubSeq(t, 1, n)
         /\ Ring(r1) /\ Holds(r1, SubSeq(t, n + 1, Len(t))) /\ r1.filled = r.filled - n
         /\ n = Bq!jd_bqueue_available_cont_data(r) => Bq!jd_bqueue_available_cont_data(r1) = r1.filled
<1> DEFINE r1 == Bq!jd_bqueue_cont_data_advance(r, n)
           f == IF r.front + n = r.size THEN 0 ELSE r.front + n
           u == SubSeq(t, 1, n)
           w == SubSeq(t, n + 1, Len(t))
           c == Bq!Contiguous(r, n)
<1>1. /\ r.front \in Nat /\ r.back \in Nat /\ r.filled \in Nat /\ r.size \in Nat \ {0}
      /\ r.front < r.size /\ r.back < r.size /\ r.filled < r.size
      /\ r.filled = IF r.back >= r.front THEN r.back - r.front ELSE r.back + r.size - r.front
      /\ r.data \in [0 .. r.size - 1 -> Int]
  BY DEF Ring, Bq!Valid
<1>2. n <= r.filled /\ n <= IF r.front <= r.back THEN r.back - r.front ELSE r.size - r.front
  BY <1>1 DEF Bq!jd_bqueue_available_cont_data
<1>3. /\ r1.front = f /\ r1.back = r.back /\ r1.filled = r.filled - n /\ r1.size = r.size
      /\ r1.data = r.data
      /\ r1 = [front |-> r1.front, back |-> r1.back, filled |-> r1.filled, size |-> r1.size, data |-> r1.data]
  <2> DEFINE g == r.filled - n
  <2>2. r = [front |-> r.front, back |-> r.back, filled |-> r.filled, size |-> r.size, data |-> r.data]
    BY DEF Ring
  <2>3. r1 = [front |-> f, back |-> r.back, filled |-> g, size |-> r.size, data |-> r.data]
    <3> DEFINE x == r.front + n
               p == Bq!FrontMoved(r, n)
               c2 == Bq!Counted(p, n)
    <3>1. p = [front |-> x, back |-> r.back, filled |-> r.filled, size |-> r.size, data |-> r.data]
      BY <2>2 DEF Bq!FrontMoved
    <3>2. c2 = [front |-> x, back |-> r.back, filled |-> g, size |-> r.size, data |-> r.data]
      <4> HIDE DEF p, x
      <4> QED
        BY <3>1 DEF Bq!Counted
    <3>3. r1 = Bq!Wrapped(c2)
      BY DEF Bq!jd_bqueue_cont_data_advance
    <3> HIDE DEF p, c2, r1, g
    <3>4. r1 = [front |-> IF x = r.size THEN 0 ELSE x, back |-> r.back, filled |-> g, size |-> r.size, data |-> r.data]
      <4> HIDE DEF x
      <4> QED
        BY <3>2, <3>3 DEF Bq!Wrapped
    <3> QED
      BY ONLY <3>4
  <2> HIDE DEF r1, f, g
  <2> QED
    BY <2>3 DEF g
<1> HIDE DEF r1
<1>4. /\ f \in Nat /\ f < r.size /\ r.filled - n \in Nat
      /\ r.filled - n = IF r.back >= f THEN r.back - f ELSE r.back + r.size - f
      /\ n = (IF r.front <= r.back THEN r.back - r.front ELSE r.size - r.front) =>
           (IF f <= r.back THEN r.back - f ELSE r.size - f) = r.filled - n
      /\ \A i \in 1 .. r.filled - n :
           (IF f + i - 1 < r.size THEN f + i - 1 ELSE f + i - 1 - r.size) =
             IF r.front + (n + i) - 1 < r.size THEN r.front + (n + i) - 1 ELSE r.front + (n + i) - 1 - r.size
  <2> DEFINE x == r.front
             b == r.back
             z == r.size
             l == r.filled
  <2>1. /\ x \in Nat /\ b \in Nat /\ z \in Nat /\ x < z /\ b < z
        /\ l = (IF b >= x THEN b - x ELSE b + z - x)
        /\ n <= (IF x <= b THEN b - x ELSE z - x)
        /\ f = IF x + n = z THEN 0 ELSE x + n
    BY <1>1, <1>2
  <2> HIDE DEF x, b, z, l, f
  <2>2. /\ f \in Nat /\ f < z /\ l - n \in Nat
        /\ l - n = IF b >= f THEN b - f ELSE b + z - f
        /\ n = (IF x <= b THEN b - x ELSE z - x) => (IF f <= b THEN b - f ELSE z - f) = l - n
        /\ \A i \in 1 .. l - n :
             (IF f + i - 1 < z THEN f + i - 1 ELSE f + i - 1 - z) =
               IF x + (n + i) - 1 < z THEN x + (n + i) - 1 ELSE x + (n + i) - 1 - z
    BY <2>1, AdvanceNumbers
  <2> QED
    BY <2>2 DEF x, b, z, l
<1> HIDE DEF f
<1>5. Ring(r1)
  BY <1>1, <1>3, <1>4 DEF Ring, Bq!Valid
<1>6. /\ u \in Seq(Int) /\ Len(u) = n /\ \A i \in 1 .. n : u[i] = t[i]
      /\ w \in Seq(Int) /\ Len(w) = r.filled - n /\ \A i \in 1 .. r.filled - n : w[i] = t[n + i]
  <2>1. t \in Seq(Int) /\ Len(t) = r.filled /\ n \in 0 .. Len(t)
    BY <1>1, <1>2 DEF Holds
  <2>2. /\ u \in Seq(Int) /\ Len(u) = n /\ \A i \in 1 .. n : u[i] = t[i]
        /\ w \in Seq(Int) /\ Len(w) = Len(t) - n /\ \A i \in 1 .. Len(t) - n : w[i] = t[n + i]
    BY <2>1, CutFacts
  <2> QED
    BY <2>1, <2>2
<1> HIDE DEF u, w
<1>7. Holds(r1, w)
  <2>1. ASSUME NEW i \in 1 .. r1.filled
        PROVE  r1.data[At(r1, i)] = w[i]
    <3>1. i \in 1 .. r.filled - n /\ n + i \in 1 .. r.filled
      BY <1>1, <1>2, <1>3
    <3>2. At(r1, i) = At(r, n + i)
      BY <1>3, <1>4, <3>1 DEF At
    <3> QED
      BY <1>3, <1>6, <3>1, <3>2 DEF Holds
  <2> QED
    BY <1>3, <1>6, <2>1 DEF Holds
<1>8. c = u
  <2>1. \A i \in 1 .. n : r.front + i - 1 \in 0 .. r.size - 1 /\ r.front + i - 1 = At(r, i) /\ i \in 1 .. r.filled
    <3> DEFINE x == r.front
               b == r.back
               z == r.size
               l == r.filled
    <3>1. /\ x \in Nat /\ b \in Nat /\ z \in Nat /\ l \in Nat /\ x < z /\ b < z
          /\ n <= l /\ n <= IF x <= b THEN b - x ELSE z - x
      BY <1>1, <1>2
    <3> HIDE DEF x, b, z, l
    <3>2. \A i \in 1 .. n : /\ x + i - 1 \in 0 .. z - 1 /\ i \in 1 .. l
                           /\ x + i - 1 = IF x + i - 1 < z THEN x + i - 1 ELSE x + i - 1 - z
      BY <3>1, PieceNumbers
    <3> QED
      BY <3>2 DEF At, x, z, l
  <2>2. c = [i \in 1 .. n |-> r.data[r.front + i - 1]]
    BY DEF Bq!Contiguous
  <2>3. c \in [1 .. n -> Int]
    BY <1>1, <2>1, <2>2
  <2>4. ASSUME NEW i \in 1 .. n
        PROVE  c[i] = u[i]
    <3>1. c[i] = r.data[At(r, i)] /\ i \in 1 .. r.filled
      BY <2>1, <2>2
    <3>2. r.data[At(r, i)] = t[i]
      BY <3>1 DEF Holds
    <3> QED
      BY <1>6, <3>1, <3>2
  <2> HIDE DEF c
  <2>5. c \in Seq(Int) /\ Len(c) = n
    BY <2>3, FunctionIsSeq
  <2> QED
    BY <1>6, <2>4, <2>5, SameSeq
<1>9. n = Bq!jd_bqueue_available_cont_data(r) => Bq!jd_bqueue_available_cont_data(r1) = r1.filled
  BY <1>3, <1>4 DEF Bq!jd_bqueue_available_cont_data
<1> QED
  BY <1>2, <1>3, <1>5, <1>7, <1>8, <1>9 DEF r1, u, w, c

\* Taking bytes in one piece or two.
LEMMA PopsOldest ==
  ASSUME NEW r, Ring(r), NEW t, Holds(r, t), NEW n \in Nat
  PROVE  LET k == Bq!Smaller(n, r.filled) IN
         /\ k \in Nat /\ k <= n /\ k <= Len(t) /\ Bq!Popped(r, n).bytes = SubSeq(t, 1, k)
         /\ Ring(Bq!Popped(r, n).q) /\ Holds(Bq!Popped(r, n).q, SubSeq(t, k + 1, Len(t)))
<1> DEFINE av == Bq!jd_bqueue_available_cont_data(r)
           a == Bq!Smaller(av, n)
           r1 == Bq!jd_bqueue_cont_data_advance(r, a)
           av1 == Bq!jd_bqueue_available_cont_data(r1)
           b == IF n > a THEN Bq!Smaller(av1, n - a) ELSE 0
           r2 == Bq!jd_bqueue_cont_data_advance(r1, b)
           w == SubSeq(t, a + 1, Len(t))
           k == Bq!Smaller(n, r.filled)
<1>1. Bq!Popped(r, n).bytes = Bq!Contiguous(r, a) \o Bq!Contiguous(r1, b) /\ Bq!Popped(r, n).q = r2
  BY DEF Bq!Popped
<1>2. av \in Nat /\ av <= r.filled /\ r.filled \in Nat
  BY DEF Ring, Bq!Valid, Bq!jd_bqueue_available_cont_data
<1> HIDE DEF av
<1>3. a \in Nat /\ a <= av /\ a <= n /\ (a < n => a = av)
  BY <1>2 DEF Bq!Smaller
<1> HIDE DEF a
<1>4. /\ a <= r.filled /\ Bq!Contiguous(r, a) = SubSeq(t, 1, a)
      /\ Ring(r1) /\ Holds(r1, w) /\ r1.filled = r.filled - a
      /\ a = av => av1 = r1.filled
  <2>1. a <= Bq!jd_bqueue_available_cont_data(r)
    BY <1>3 DEF av
  <2> QED
    BY <1>3, <2>1, Advances DEF av
<1> HIDE DEF r1, w
<1>5. av1 \in Nat
  BY <1>4 DEF Ring, Bq!Valid, Bq!jd_bqueue_available_cont_data
<1>6. b \in Nat /\ b <= av1 /\ a + b = k /\ k \in Nat /\ k <= n /\ k <= r.filled
  <2> HIDE DEF av1
  <2>1. CASE n > a
    BY <1>2, <1>3, <1>4, <1>5, <2>1 DEF Bq!Smaller
  <2>2. CASE ~ n > a
    BY <1>2, <1>3, <1>4, <1>5, <2>2 DEF Bq!Smaller
  <2> QED
    BY <2>1, <2>2
<1> HIDE DEF b, k
<1>7. /\ Bq!Contiguous(r1, b) = SubSeq(w, 1, b) /\ Ring(r2) /\ Holds(r2, SubSeq(w, b + 1, Len(w)))
  BY <1>4, <1>6, Advances
<1>8. t \in Seq(Int) /\ Len(t) = r.filled
  BY DEF Holds
<1>9. a + b <= Len(t)
  BY <1>6, <1>8
<1>10. /\ SubSeq(t, 1, a) \o SubSeq(w, 1, b) = SubSeq(t, 1, a + b)
       /\ SubSeq(w, b + 1, Len(w)) = SubSeq(t, a + b + 1, Len(t))
  BY <1>3, <1>6, <1>8, <1>9, CutTwice DEF w
<1> HIDE DEF r2
<1>11. Bq!Popped(r, n).bytes = SubSeq(t, 1, k) /\ Ring(Bq!Popped(r, n).q)
       /\ Holds(Bq!Popped(r, n).q, SubSeq(t, k + 1, Len(t)))
  BY <1>1, <1>4, <1>6, <1>7, <1>10
<1> QED
  BY <1>6, <1>8, <1>11 DEF k

\* Where the back gets to, and where old and new bytes are.
LEMMA PushNumbers ==
  ASSUME NEW x \in Nat, NEW b \in Nat, NEW z \in Nat, NEW l \in Nat, NEW len \in Nat \ {0},
         NEW n, NEW y, x < z, b < z, l = IF b >= x THEN b - x ELSE b + z - x,
         len <= z - l - 1, n = IF z - b < len THEN z - b ELSE len,
         y = IF len > n THEN len - n ELSE IF b + n = z THEN 0 ELSE b + n
  PROVE  /\ n \in Nat /\ n <= len /\ y \in Nat /\ y < z /\ l + len < z
         /\ l + len = IF y >= x THEN y - x ELSE y + z - x
         /\ (IF x <= b THEN b - x ELSE z - x) <= IF x <= y THEN y - x ELSE z - x
         /\ \A i \in 1 .. l :
              LET p == IF x + i - 1 < z THEN x + i - 1 ELSE x + i - 1 - z IN
              p \in 0 .. z - 1 /\ ~ p \in b .. b + n - 1 /\ ~ p < len - n
         /\ \A j \in 1 .. len :
              LET p == IF x + (l + j) - 1 < z THEN x + (l + j) - 1 ELSE x + (l + j) - 1 - z IN
              /\ p \in 0 .. z - 1
              /\ j <= n => p \in b .. b + n - 1 /\ p - b = j - 1 /\ ~ p < len - n
              /\ ~ j <= n => p < len - n /\ n + p = j - 1
<1>1. CASE z - b < len
  <2>1. n = z - b /\ y = b + len - z /\ len > n
    BY <1>1
  <2>2. CASE b >= x
    BY <2>1, <2>2
  <2>3. CASE ~ b >= x
    BY <2>1, <2>3
  <2> QED
    BY <2>2, <2>3
<1>2. CASE ~ z - b < len
  <2>1. n = len /\ y = (IF b + len = z THEN 0 ELSE b + len) /\ len <= z - b
    BY <1>2
  <2>2. CASE b >= x
    BY <2>1, <2>2
  <2>3. CASE ~ b >= x
    BY <2>1, <2>3
  <2> QED
    BY <2>2, <2>3
<1> QED
  BY <1>1, <1>2

\* What jd_bqueue_push writes: n bytes up to the end of the ring, the others from its start.
Pieces(r, len, bytes, n, first, both, y, more, r1) ==
  /\ n = Bq!Smaller(r.size - r.back, len)
  /\ first = [i \in 0 .. r.size - 1 |->
       IF i \in r.back .. r.back + n - 1 THEN bytes[i - r.back] ELSE r.data[i]]
  /\ both = [i \in 0 .. r.size - 1 |-> IF i < len - n THEN bytes[n + i] ELSE first[i]]
  /\ y = IF len > n THEN len - n ELSE IF r.back + n = r.size THEN 0 ELSE r.back + n
  /\ more = [i \in 1 .. len |-> bytes[i - 1]]
  /\ r1 = [front |-> r.front, back |-> y, filled |-> r.filled + len, size |-> r.size, data |-> both]

\* Pushing appends: old bytes are not touched, and new ones follow them.
LEMMA PushAppends ==
  ASSUME NEW r, Ring(r), NEW t, Holds(r, t), NEW len \in Nat \ {0}, len <= r.size - r.filled - 1,
         NEW bytes \in [0 .. len - 1 -> Int], NEW n, NEW first, NEW both, NEW y, NEW more, NEW r1,
         Pieces(r, len, bytes, n, first, both, y, more, r1)
  PROVE  /\ Ring(r1) /\ Holds(r1, t \o more)
         /\ Bq!jd_bqueue_available_cont_data(r) <= Bq!jd_bqueue_available_cont_data(r1)
<1> USE DEF Pieces
<1>0. len \in Nat \ {0}
  OBVIOUS
<1>1. /\ r.front \in Nat /\ r.back \in Nat /\ r.filled \in Nat /\ r.size \in Nat
      /\ r.front < r.size /\ r.back < r.size
      /\ r.filled = IF r.back >= r.front THEN r.back - r.front ELSE r.back + r.size - r.front
      /\ r.data \in [0 .. r.size - 1 -> Int]
  BY DEF Ring, Bq!Valid
<1> DEFINE x == r.front
           b == r.back
           z == r.size
           l == r.filled
<1>2. /\ x \in Nat /\ b \in Nat /\ z \in Nat /\ l \in Nat /\ x < z /\ b < z
      /\ l = (IF b >= x THEN b - x ELSE b + z - x) /\ len <= z - l - 1
      /\ n = (IF z - b < len THEN z - b ELSE len)
      /\ y = IF len > n THEN len - n ELSE IF b + n = z THEN 0 ELSE b + n
  BY <1>1 DEF Bq!Smaller
<1>3. /\ r1.front = x /\ r1.back = y /\ r1.filled = l + len /\ r1.size = z /\ r1.data = both
      /\ r1 = [front |-> r1.front, back |-> r1.back, filled |-> r1.filled, size |-> r1.size, data |-> r1.data]
      /\ r.data \in [0 .. z - 1 -> Int]
      /\ first = [i \in 0 .. z - 1 |-> IF i \in b .. b + n - 1 THEN bytes[i - b] ELSE r.data[i]]
      /\ both = [i \in 0 .. z - 1 |-> IF i < len - n THEN bytes[n + i] ELSE first[i]]
  BY <1>1
<1>4. /\ t \in Seq(Int) /\ Len(t) = l
      /\ \A i \in 1 .. l : r.data[IF x + i - 1 < z THEN x + i - 1 ELSE x + i - 1 - z] = t[i]
  BY DEF Holds, At
<1>5. Bq!jd_bqueue_available_cont_data(r) = IF x <= b THEN b - x ELSE z - x
  BY DEF Bq!jd_bqueue_available_cont_data
<1> HIDE DEF x, b, z, l
<1>6. /\ n \in Nat /\ n <= len /\ y \in Nat /\ y < z /\ l + len < z
      /\ l + len = IF y >= x THEN y - x ELSE y + z - x
      /\ (IF x <= b THEN b - x ELSE z - x) <= IF x <= y THEN y - x ELSE z - x
  BY ONLY <1>2, <1>0, PushNumbers
<1>7. \A i \in 1 .. l :
        LET p == IF x + i - 1 < z THEN x + i - 1 ELSE x + i - 1 - z IN
        p \in 0 .. z - 1 /\ ~ p \in b .. b + n - 1 /\ ~ p < len - n
  BY ONLY <1>2, <1>0, PushNumbers
<1>8. \A j \in 1 .. len :
        LET p == IF x + (l + j) - 1 < z THEN x + (l + j) - 1 ELSE x + (l + j) - 1 - z IN
        /\ p \in 0 .. z - 1
        /\ j <= n => p \in b .. b + n - 1 /\ p - b = j - 1 /\ ~ p < len - n
        /\ ~ j <= n => p < len - n /\ n + p = j - 1
  BY ONLY <1>2, <1>0, PushNumbers
<1>9. both \in [0 .. z - 1 -> Int]
  <2>1. \A i \in 0 .. z - 1 : first[i] \in Int
    <3> SUFFICES ASSUME NEW i \in 0 .. z - 1
                 PROVE  first[i] \in Int
      OBVIOUS
    <3>1. CASE i \in b .. b + n - 1
      <4>1. i - b \in 0 .. len - 1
        BY ONLY <1>2, <1>6, <1>0, <3>1, i \in 0 .. z - 1
      <4>2. first[i] = bytes[i - b]
        BY <1>3, <3>1
      <4> QED
        BY <4>1, <4>2
    <3>2. CASE ~ i \in b .. b + n - 1
      BY <1>3, <3>2
    <3> QED
      BY <3>1, <3>2
  <2>2. \A i \in 0 .. z - 1 : both[i] \in Int
    <3> SUFFICES ASSUME NEW i \in 0 .. z - 1
                 PROVE  both[i] \in Int
      OBVIOUS
    <3>1. CASE i < len - n
      <4>1. n + i \in 0 .. len - 1
        BY ONLY <1>2, <1>6, <1>0, <3>1, i \in 0 .. z - 1
      <4>2. both[i] = bytes[n + i]
        BY <1>3, <3>1
      <4> QED
        BY <4>1, <4>2
    <3>2. CASE ~ i < len - n
      BY <1>3, <2>1, <3>2
    <3> QED
      BY <3>1, <3>2
  <2> QED
    BY <1>3, <2>2
<1>10. Ring(r1)
  <2>1. z \in Nat \ {0} /\ l + len \in Nat
    BY ONLY <1>0, <1>2
  <2> QED
    BY <1>2, <1>3, <1>6, <1>9, <2>1 DEF Ring, Bq!Valid
<1>11. more \in Seq(Int) /\ Len(more) = len /\ \A i \in 1 .. len : more[i] = bytes[i - 1]
  <2>1. \A i \in 1 .. len : i - 1 \in 0 .. len - 1
    OBVIOUS
  <2>2. more \in [1 .. len -> Int]
    BY <2>1
  <2> QED
    BY <2>2, FunctionIsSeq
<1>12. /\ t \o more \in Seq(Int) /\ Len(t \o more) = l + len
       /\ \A i \in 1 .. l + len : (t \o more)[i] = IF i <= l THEN t[i] ELSE more[i - l]
  <2>1. /\ t \o more \in Seq(Int) /\ Len(t \o more) = Len(t) + Len(more)
        /\ \A i \in 1 .. Len(t) + Len(more) : (t \o more)[i] = IF i <= Len(t) THEN t[i] ELSE more[i - Len(t)]
    <3>1. t \in Seq(Int) /\ more \in Seq(Int)
      BY <1>4, <1>11
    <3> HIDE <1>4, <1>11
    <3> QED
      BY ONLY <3>1
  <2> QED
    BY <1>4, <1>11, <2>1
<1>13. ASSUME NEW i \in 1 .. l + len
       PROVE  both[IF x + i - 1 < z THEN x + i - 1 ELSE x + i - 1 - z] = (t \o more)[i]
  <2> DEFINE p == IF x + i - 1 < z THEN x + i - 1 ELSE x + i - 1 - z
  <2>1. CASE i <= l
    <3>1. i \in 1 .. l
      BY <1>2, <2>1
    <3>2. p \in 0 .. z - 1 /\ ~ p \in b .. b + n - 1 /\ ~ p < len - n /\ r.data[p] = t[i]
      BY <1>4, <1>7, <3>1
    <3> HIDE DEF p
    <3>3. both[p] = first[p] /\ first[p] = r.data[p]
      BY <1>3, <3>2
    <3> QED
      BY <1>12, <2>1, <3>2, <3>3 DEF p
  <2>2. CASE ~ i <= l
    <3> DEFINE j == i - l
    <3>1. j \in 1 .. len /\ l + j = i
      BY <1>2, <2>2
    <3>2. (t \o more)[i] = bytes[j - 1]
      BY <1>11, <1>12, <2>2, <3>1
    <3> HIDE DEF j
    <3>3. /\ p \in 0 .. z - 1
          /\ j <= n => p \in b .. b + n - 1 /\ p - b = j - 1 /\ ~ p < len - n
          /\ ~ j <= n => p < len - n /\ n + p = j - 1
      BY <1>8, <3>1
    <3> HIDE DEF p
    <3>4. both[p] = bytes[j - 1]
      <4>1. CASE j <= n
        <5>1. both[p] = first[p] /\ first[p] = bytes[p - b]
          BY <1>3, <3>3, <4>1
        <5> QED
          BY <3>3, <4>1, <5>1
      <4>2. CASE ~ j <= n
        BY <1>3, <3>3, <4>2
      <4> QED
        BY <4>1, <4>2
    <3> QED
      BY <3>2, <3>4 DEF p
  <2> QED
    BY <2>1, <2>2
<1>14. Holds(r1, t \o more)
  <2> DEFINE v == t \o more
  <2>1. v \in Seq(Int) /\ Len(v) = r1.filled
    BY <1>3, <1>12
  <2>2. \A i \in 1 .. l + len : both[IF x + i - 1 < z THEN x + i - 1 ELSE x + i - 1 - z] = v[i]
    BY <1>13
  <2> HIDE DEF v
  <2>3. ASSUME NEW i \in 1 .. r1.filled
        PROVE  r1.data[At(r1, i)] = v[i]
    <3>1. r1.front = x /\ r1.size = z /\ r1.data = both /\ i \in 1 .. l + len
      BY <1>3
    <3>2. At(r1, i) = IF x + i - 1 < z THEN x + i - 1 ELSE x + i - 1 - z
      BY ONLY <3>1 DEF At
    <3> QED
      BY ONLY <2>2, <3>1, <3>2
  <2> QED
    BY <2>1, <2>3 DEF Holds, v
<1>15. Bq!jd_bqueue_available_cont_data(r) <= Bq!jd_bqueue_available_cont_data(r1)
  BY <1>3, <1>5, <1>6 DEF Bq!jd_bqueue_available_cont_data
<1> QED
  BY <1>10, <1>14, <1>15

\* The invariant tells all that BytesInOrder does.
LEMMA BqInvImplies == BqInv => Bq!BytesInOrder
<1> SUFFICES ASSUME BqInv, step = "idle", fault = "none"
             PROVE  /\ Bq!Valid(q) /\ Bq!jd_bqueue_available_cont_data(q) <= q.filled
                    /\ Bq!jd_bqueue_print(q) = text
                    /\ Bq!Contiguous(q, lent) = SubSeq(text, 1, lent)
  BY DEF BqInv, TakenDue, Bq!BytesInOrder
<1>1. Ring(q) /\ Holds(q, text) /\ lent \in Nat /\ lent <= Bq!jd_bqueue_available_cont_data(q)
  BY DEF BqInv, BqSteps, Right
<1>2. /\ q.front \in Nat /\ q.back \in Nat /\ q.filled \in Nat /\ q.size \in Nat \ {0}
      /\ q.front < q.size /\ q.back < q.size /\ q.filled < q.size /\ Bq!Valid(q)
      /\ q.data \in [0 .. q.size - 1 -> Int]
      /\ Bq!jd_bqueue_available_cont_data(q) <= q.filled
  BY <1>1 DEF Ring, Bq!Valid, Bq!jd_bqueue_available_cont_data
<1>3. Bq!Contiguous(q, lent) = SubSeq(text, 1, lent)
  BY <1>1, Advances
<1>4. Bq!jd_bqueue_print(q) = text
  <2> DEFINE p == Bq!jd_bqueue_print(q)
  <2>1. ASSUME NEW i \in 1 .. q.filled
        PROVE  (q.front + i - 1) % q.size = At(q, i) /\ At(q, i) \in 0 .. q.size - 1
    <3> DEFINE x == q.front + i - 1
    <3>1. x \in Nat /\ x < 2 * q.size
      BY <1>2
    <3>2. x % q.size = IF x < q.size THEN x ELSE x - q.size
      <4> HIDE DEF x
      <4> QED
        BY <1>2, <3>1, PlaceModulo
    <3>3. At(q, i) \in 0 .. q.size - 1
      BY <1>2 DEF At
    <3>4. At(q, i) = IF x < q.size THEN x ELSE x - q.size
      BY <1>2 DEF At
    <3> HIDE DEF x
    <3>5. x % q.size = At(q, i)
      BY <3>2, <3>4
    <3> QED
      BY <3>3, <3>5, Zenon DEF x
  <2>2. p = [i \in 1 .. q.filled |-> q.data[At(q, i)]]
    BY <2>1 DEF Bq!jd_bqueue_print
  <2> HIDE DEF p
  <2>3. p \in [1 .. q.filled -> Int]
    BY <1>2, <2>1, <2>2
  <2>4. p \in Seq(Int) /\ Len(p) = q.filled
    BY <1>2, <2>3, FunctionIsSeq
  <2>5. text \in Seq(Int) /\ Len(text) = q.filled /\ \A i \in 1 .. q.filled : p[i] = text[i]
    BY <1>1, <2>2 DEF Holds
  <2>6. p = text
    BY <2>4, <2>5, SameSeq
  <2> QED
    BY <2>6 DEF p
<1> QED
  BY <1>2, <1>3, <1>4

LEMMA BqInit == ASSUME BqSizes, Bq!Init PROVE BqInv
<1>1. PICK n \in Sizes :
        q = [front |-> 0, back |-> 0, filled |-> 0, size |-> n, data |-> [i \in 0 .. n - 1 |-> 0]]
  BY DEF Bq!Init
<1>2. /\ n \in Nat \ {0} /\ next = 0 /\ text = <<>> /\ lent = 0 /\ taken = [got |-> <<>>, due |-> <<>>]
      /\ step = "idle" /\ raced = FALSE /\ fault = "none"
  BY DEF BqSizes, Bq!Init
<1>3. Ring(q)
  BY <1>1, <1>2 DEF Ring, Bq!Valid
<1>4. Holds(q, text)
  BY <1>1, <1>2 DEF Holds
<1>5. lent <= Bq!jd_bqueue_available_cont_data(q)
  BY <1>1, <1>2 DEF Bq!jd_bqueue_available_cont_data
<1>6. TakenDue
  BY <1>2 DEF TakenDue
<1>7. BqSteps
  BY <1>2, <1>3, <1>4, <1>5 DEF BqSteps, Right
<1> QED
  BY <1>2, <1>6, <1>7 DEF BqInv

\* What is handed out is what is due.
LEMMA HandsDue ==
  ASSUME NEW n, NEW got, got = SubSeq(text, 1, n), Bq!Hand(got, n)
  PROVE  TakenDue' /\ text' = SubSeq(text, n + 1, Len(text))
  BY DEF Bq!Hand, TakenDue

LEMMA StaysQuiet ==
  ASSUME Bq!Quiet
  PROVE  TakenDue'
  BY DEF Bq!Quiet, TakenDue

\* Nothing is lent of what is there.
LEMMA NothingLent ==
  ASSUME NEW r, Ring(r)
  PROVE  Bq!jd_bqueue_available_cont_data(r) \in Nat /\ 0 <= Bq!jd_bqueue_available_cont_data(r)
  BY DEF Ring, Bq!Valid, Bq!jd_bqueue_available_cont_data

\* A ring is a record with its fields in range.
LEMMA RingCells ==
  ASSUME NEW r, Ring(r)
  PROVE  Cells(r) /\ r.front < r.size
  BY DEF Ring, Cells, Bq!Valid

LEMMA WrappedSame ==
  ASSUME NEW r, Cells(r), r.front < r.size
  PROVE  Bq!Wrapped(r) = r
<1>1. r = [front |-> r.front, back |-> r.back, filled |-> r.filled, size |-> r.size, data |-> r.data]
      /\ r.front # r.size
  BY DEF Cells
<1> QED
  BY <1>1 DEF Bq!Wrapped

\* In the middle of an advance, or of a clear, what passes validate is right.
LEMMA ValidIsRight ==
  ASSUME BqInv, fault = "none", Bq!Valid(q)
  PROVE  Right(q) /\ step # "front"
<1>1. BqSteps /\ lent \in Nat /\ step \in {"idle", "front", "filled", "emptied", "reset"}
  BY DEF BqInv
<1>2. CASE step = "front"
  <2> DEFINE c == Bq!Counted(q, lent)
             w == Bq!Wrapped(c)
             l == q.filled - lent
  <2>1. lent > 0 /\ Ring(w) /\ Cells(q)
    BY <1>1, <1>2 DEF BqSteps, Right
  <2>2. q = [front |-> q.front, back |-> q.back, filled |-> q.filled, size |-> q.size, data |-> q.data]
    BY <2>1 DEF Cells
  <2>3. q.front \in Nat /\ q.back \in Nat /\ q.filled \in Nat /\ q.size \in Nat
    BY <2>1 DEF Cells
  <2>4. /\ q.front < q.size
        /\ q.filled = IF q.back >= q.front THEN q.back - q.front ELSE q.back + q.size - q.front
    BY DEF Bq!Valid
  <2>5. c = [front |-> q.front, back |-> q.back, filled |-> l, size |-> q.size, data |-> q.data]
    BY <2>2 DEF Bq!Counted
  <2>6. w.front = q.front /\ w.back = q.back /\ w.size = q.size /\ w.filled = q.filled - lent
    <3> HIDE DEF c
    <3> QED
      BY <2>3, <2>4, <2>5 DEF Bq!Wrapped
  <2>7. w.filled = IF w.back >= w.front THEN w.back - w.front ELSE w.back + w.size - w.front
    BY <2>1 DEF Ring, Bq!Valid
  <2> QED
    BY <1>1, <2>1, <2>3, <2>4, <2>6, <2>7
<1>3. CASE step = "filled"
  <2>1. Right(Bq!Wrapped(q)) /\ Cells(q)
    BY <1>1, <1>3 DEF BqSteps
  <2>2. q.front < q.size
    BY DEF Bq!Valid
  <2>3. Bq!Wrapped(q) = q
    BY <2>1, <2>2, WrappedSame
  <2> QED
    BY <1>3, <2>1, <2>3
<1>4. CASE step \in {"idle", "emptied", "reset"}
  BY <1>1, <1>4 DEF BqSteps
<1> QED
  BY <1>1, <1>2, <1>3, <1>4

\* A push onto a ring that is right.
LEMMA PushKeeps ==
  ASSUME BqSizes, Right(q), next \in Nat, Bq!Pushed
  PROVE  /\ Right(q)' /\ next' \in Nat /\ lent' = lent /\ TakenDue'
         /\ Bq!jd_bqueue_available_cont_data(q) <= Bq!jd_bqueue_available_cont_data(q)'
<1>1. Ring(q) /\ Holds(q, text) /\ next \in Nat /\ Values \in Nat \ {0}
  BY DEF Right, BqSizes
<1>2. q.size \in Nat /\ q.filled \in Nat
  BY <1>1 DEF Ring
<1>3. PICK len \in 1 .. q.size :
        LET bytes == [i \in 0..len - 1 |-> (next + i) % Values]
            n == Bq!Smaller(q.size - q.back, len)
            first == [i \in 0..q.size - 1 |-> IF i \in q.back..q.back + n - 1 THEN bytes[i - q.back] ELSE q.data[i]]
            both == [i \in 0..q.size - 1 |-> IF i < len - n THEN bytes[n + i] ELSE first[i]]
            ok == len <= Bq!jd_bqueue_free_bytes
        IN  /\ q' = IF ~ok THEN q
                    ELSE [q EXCEPT !.data = both, !.filled = @ + len,
                                   !.back = IF len > n THEN len - n
                                            ELSE IF @ + n = q.size THEN 0 ELSE @ + n]
            /\ text' = IF ok THEN text \o [i \in 1..len |-> bytes[i - 1]] ELSE text
            /\ next' = IF ok THEN (next + len) % Values ELSE next
            /\ Bq!Quiet
            /\ UNCHANGED lent
  BY DEF Bq!Pushed
<1> DEFINE bytes == [i \in 0..len - 1 |-> (next + i) % Values]
           n == Bq!Smaller(q.size - q.back, len)
           first == [i \in 0..q.size - 1 |-> IF i \in q.back..q.back + n - 1 THEN bytes[i - q.back] ELSE q.data[i]]
           both == [i \in 0..q.size - 1 |-> IF i < len - n THEN bytes[n + i] ELSE first[i]]
           y == IF len > n THEN len - n ELSE IF q.back + n = q.size THEN 0 ELSE q.back + n
           l == q.filled + len
           more == [i \in 1..len |-> bytes[i - 1]]
           r1 == [front |-> q.front, back |-> y, filled |-> l, size |-> q.size, data |-> both]
           ok == len <= Bq!jd_bqueue_free_bytes
<1>4. /\ q' = (IF ~ok THEN q ELSE [q EXCEPT !.data = both, !.filled = l, !.back = y])
      /\ text' = (IF ok THEN text \o more ELSE text)
      /\ next' = (IF ok THEN (next + len) % Values ELSE next)
  BY <1>3
<1>5. Bq!Quiet /\ lent' = lent
  BY <1>3
<1>6. TakenDue'
  BY <1>5, StaysQuiet
<1>7. len \in Nat \ {0}
  BY <1>2
<1>8. bytes \in [0 .. len - 1 -> Int] /\ (next + len) % Values \in Nat
  <2>1. ASSUME NEW m \in Nat
        PROVE  (next + m) % Values \in Nat
    <3>1. next + m \in Nat
      BY <1>1
    <3> QED
      BY <1>1, <3>1, Division
  <2>2. \A i \in 0 .. len - 1 : i \in Nat
    OBVIOUS
  <2>3. \A i \in 0 .. len - 1 : (next + i) % Values \in Int
    BY <2>1, <2>2
  <2> QED
    BY <1>7, <2>1, <2>3
<1>9. CASE ~ok
  <2>1. q' = q /\ text' = text /\ next' = next
    BY <1>4, <1>9
  <2>2. Bq!jd_bqueue_available_cont_data(q) \in Nat
        /\ Bq!jd_bqueue_available_cont_data(q)' = Bq!jd_bqueue_available_cont_data(q)
    BY <1>1, <2>1, NothingLent
  <2> QED
    BY <1>1, <1>5, <1>6, <2>1, <2>2 DEF Right
<1>10. CASE ok
  <2>1. len <= q.size - q.filled - 1
    BY <1>10 DEF Bq!jd_bqueue_free_bytes
  <2>2. q = [front |-> q.front, back |-> q.back, filled |-> q.filled, size |-> q.size, data |-> q.data]
    BY <1>1 DEF Ring
  <2>3. q' = [q EXCEPT !.data = both, !.filled = l, !.back = y] /\ text' = text \o more /\ next' \in Nat
    BY <1>4, <1>8, <1>10
  <2>4. q' = r1
    <3> HIDE DEF both, l, y
    <3> QED
      BY <2>2, <2>3
  <2>5. Pieces(q, len, bytes, n, first, both, y, more, r1)
    BY DEF Pieces
  <2> HIDE DEF bytes, n, first, both, y, l, more, r1, ok
  <2>6. /\ Ring(r1) /\ Holds(r1, text \o more)
        /\ Bq!jd_bqueue_available_cont_data(q) <= Bq!jd_bqueue_available_cont_data(r1)
    BY <1>1, <1>7, <1>8, <2>1, <2>5, PushAppends
  <2>7. Right(q)' /\ Bq!jd_bqueue_available_cont_data(q)' = Bq!jd_bqueue_available_cont_data(r1)
    BY <2>3, <2>4, <2>6 DEF Right
  <2> QED
    BY <1>5, <1>6, <2>3, <2>6, <2>7
<1> QED
  BY <1>9, <1>10

\* A push, wherever it comes: only in the middle of something can it fail.
LEMMA BqPush == ASSUME BqSizes, BqInv, fault = "none", Bq!jd_bqueue_push PROVE BqInv'
<1>1. /\ next \in Nat /\ lent \in Nat /\ TakenDue /\ BqSteps /\ raced \in BOOLEAN
      /\ step \in {"idle", "front", "filled", "emptied", "reset"}
  BY DEF BqInv
<1>2. step' = step /\ raced' = (raced \/ step # "idle")
  BY DEF Bq!jd_bqueue_push
<1>3. CASE Bq!Valid(q) /\ Bq!Pushed /\ UNCHANGED fault
  <2>1. Right(q) /\ step # "front"
    BY <1>3, ValidIsRight
  <2>2. /\ Right(q)' /\ next' \in Nat /\ lent' = lent /\ TakenDue'
        /\ Bq!jd_bqueue_available_cont_data(q) <= Bq!jd_bqueue_available_cont_data(q)'
    BY <1>1, <1>3, <2>1, PushKeeps
  <2>3. Cells(q)' /\ Ring(q)' /\ (q.front < q.size)'
    <3>1. Ring(q)'
      BY <2>2 DEF Right
    <3> QED
      BY <3>1, RingCells
  <2>4. BqSteps'
    <3>1. CASE step = "idle"
      <4>1. Bq!jd_bqueue_available_cont_data(q) \in Nat /\ Bq!jd_bqueue_available_cont_data(q)' \in Nat
        BY <2>1, <2>3, NothingLent DEF Right
      <4>2. lent <= Bq!jd_bqueue_available_cont_data(q)
        BY <1>1, <3>1 DEF BqSteps
      <4>3. lent' <= Bq!jd_bqueue_available_cont_data(q)'
        BY <1>1, <2>2, <4>1, <4>2
      <4> QED
        BY <1>2, <2>2, <3>1, <4>3 DEF BqSteps
    <3>2. CASE step = "filled"
      <4>2. Bq!Wrapped(q)' = q'
        BY <2>3, WrappedSame DEF Bq!Wrapped
      <4>3. Right(Bq!Wrapped(q))'
        BY <2>2, <4>2 DEF Right
      <4> QED
        BY <1>2, <2>3, <3>2, <4>3 DEF BqSteps
    <3>3. CASE step \in {"emptied", "reset"}
      <4>1. lent = 0
        BY <1>1, <3>3 DEF BqSteps
      <4> QED
        BY <1>2, <2>2, <2>3, <3>3, <4>1 DEF BqSteps
    <3> QED
      BY <1>1, <2>1, <3>1, <3>2, <3>3
  <2> QED
    BY <1>1, <1>2, <1>3, <2>2, <2>4 DEF BqInv
<1>4. CASE ~ Bq!Valid(q) /\ fault' = "panic" /\ UNCHANGED <<q, next, text, taken, lent>>
  <2>1. step # "idle"
    BY <1>1, <1>4 DEF BqSteps, Right, Ring
  <2> QED
    BY <1>1, <1>2, <1>4, <2>1 DEF BqInv, TakenDue
<1> QED
  BY <1>3, <1>4 DEF Bq!jd_bqueue_push

\* Nothing is under way, and nothing is lent, before and after.
LEMMA BqIdle ==
  ASSUME BqInv, fault = "none", step = "idle", UNCHANGED Bq!calls, next' = next, lent' = 0,
         TakenDue', Right(q)'
  PROVE  BqInv'
<1>1. step' = "idle" /\ fault' = "none" /\ raced' = raced
  BY DEF Bq!calls
<1>2. Bq!jd_bqueue_available_cont_data(q)' \in Nat
  BY NothingLent DEF Right
<1>3. BqSteps'
  BY <1>1, <1>2 DEF BqSteps
<1> QED
  BY <1>1, <1>3 DEF BqInv

\* What a pop leaves.
LEMMA BqPopped ==
  ASSUME BqInv, fault = "none", step = "idle", UNCHANGED Bq!calls, NEW n \in Nat,
         q' = Bq!Popped(q, n).q, Bq!Hand(Bq!Popped(q, n).bytes, Bq!Smaller(n, q.filled)),
         lent' = 0, next' = next
  PROVE  BqInv'
<1> DEFINE k == Bq!Smaller(n, q.filled)
           r == Bq!Popped(q, n).q
           c == Bq!Popped(q, n).bytes
<1>1. Ring(q) /\ Holds(q, text)
  BY DEF BqInv, BqSteps, Right
<1>2. c = SubSeq(text, 1, k) /\ Ring(r) /\ Holds(r, SubSeq(text, k + 1, Len(text)))
  BY <1>1, PopsOldest
<1>3. q' = r /\ Bq!Hand(c, k)
  OBVIOUS
<1> HIDE DEF k, r, c
<1>4. TakenDue' /\ text' = SubSeq(text, k + 1, Len(text))
  BY <1>2, <1>3, HandsDue
<1>5. Right(q)'
  BY <1>2, <1>3, <1>4 DEF Right
<1> QED
  BY <1>4, <1>5, BqIdle

\* What taking one piece leaves, with interrupts masked.
LEMMA BqAdvanced ==
  ASSUME BqInv, fault = "none", step = "idle", UNCHANGED Bq!calls, NEW n \in Nat,
         n <= Bq!jd_bqueue_available_cont_data(q),
         q' = Bq!jd_bqueue_cont_data_advance(q, n), Bq!Hand(Bq!Contiguous(q, n), n),
         lent' = 0, next' = next
  PROVE  BqInv'
<1> DEFINE r == Bq!jd_bqueue_cont_data_advance(q, n)
           c == Bq!Contiguous(q, n)
<1>1. Ring(q) /\ Holds(q, text)
  BY DEF BqInv, BqSteps, Right
<1>2. c = SubSeq(text, 1, n) /\ Ring(r) /\ Holds(r, SubSeq(text, n + 1, Len(text)))
  BY <1>1, Advances
<1>3. q' = r /\ Bq!Hand(c, n)
  OBVIOUS
<1> HIDE DEF r, c
<1>4. TakenDue' /\ text' = SubSeq(text, n + 1, Len(text))
  BY <1>2, <1>3, HandsDue
<1>5. Right(q)'
  BY <1>2, <1>3, <1>4 DEF Right
<1> QED
  BY <1>4, <1>5, BqIdle

\* The three steps of an advance: what is handed out is due, and once they are taken
\* the ring is right.
LEMMA BqConsume == ASSUME BqInv, fault = "none", Bq!ConsumeInPlace PROVE BqInv'
<1> DEFINE r == Bq!jd_bqueue_cont_data_advance(q, lent)
           c == Bq!Contiguous(q, lent)
<1>1. /\ step = "idle" /\ lent > 0 /\ q' = Bq!FrontMoved(q, lent) /\ Bq!Hand(c, lent)
      /\ step' = "front" /\ next' = next /\ lent' = lent /\ raced' = raced /\ fault' = fault
  BY DEF Bq!ConsumeInPlace
<1>2. /\ Ring(q) /\ Holds(q, text) /\ next \in Nat /\ lent \in Nat /\ raced \in BOOLEAN
      /\ lent <= Bq!jd_bqueue_available_cont_data(q)
  BY <1>1 DEF BqInv, BqSteps, Right
<1>3. c = SubSeq(text, 1, lent) /\ Ring(r) /\ Holds(r, SubSeq(text, lent + 1, Len(text)))
  BY <1>2, Advances
<1>4. r = Bq!Wrapped(Bq!Counted(q, lent))'
  BY <1>1 DEF Bq!jd_bqueue_cont_data_advance, Bq!Wrapped, Bq!Counted
<1> HIDE DEF r, c
<1>5. TakenDue' /\ text' = SubSeq(text, lent + 1, Len(text))
  BY <1>1, <1>3, HandsDue
<1>6. Right(Bq!Wrapped(Bq!Counted(q, lent)))'
  BY <1>3, <1>4, <1>5 DEF Right
<1>7. Cells(q)'
  <2>1. Cells(q)
    BY <1>2, RingCells
  <2>2. q' = [front |-> q.front + lent, back |-> q.back, filled |-> q.filled, size |-> q.size, data |-> q.data]
    BY <1>1, <2>1 DEF Cells, Bq!FrontMoved
  <2> QED
    BY <1>2, <2>1, <2>2 DEF Cells
<1>8. BqSteps'
  BY <1>1, <1>6, <1>7 DEF BqSteps
<1> QED
  BY <1>1, <1>2, <1>5, <1>8 DEF BqInv

LEMMA BqCounted == ASSUME BqInv, fault = "none", Bq!AdvanceFilled PROVE BqInv'
<1>1. /\ step = "front" /\ q' = Bq!Counted(q, lent) /\ step' = "filled"
      /\ UNCHANGED <<next, text, taken, lent, raced, fault>>
  BY DEF Bq!AdvanceFilled
<1>2. Right(Bq!Wrapped(Bq!Counted(q, lent))) /\ Cells(q)
  BY <1>1 DEF BqInv, BqSteps
<1>3. Right(Bq!Wrapped(q))'
  BY <1>1, <1>2 DEF Right, Bq!Wrapped
<1>4. Cells(q)'
  <2> DEFINE w == Bq!Wrapped(q)'
             l == q.filled - lent
  <2>1. Cells(w)
    BY <1>3, RingCells DEF Right
  <2>2. q = [front |-> q.front, back |-> q.back, filled |-> q.filled, size |-> q.size, data |-> q.data]
        /\ q.front \in Nat
    BY <1>2 DEF Cells
  <2>3. q' = [front |-> q.front, back |-> q.back, filled |-> l, size |-> q.size, data |-> q.data]
    BY <1>1, <2>2 DEF Bq!Counted
  <2>4. w.back = q.back /\ w.filled = l /\ w.size = q.size /\ w.data = q.data
    <3> HIDE DEF l
    <3> QED
      BY <2>3 DEF Bq!Wrapped
  <2> HIDE DEF l, w
  <2> QED
    BY <2>1, <2>2, <2>3, <2>4 DEF Cells
<1>5. BqSteps'
  BY <1>1, <1>3, <1>4 DEF BqSteps
<1> QED
  BY <1>1, <1>5 DEF BqInv, TakenDue

LEMMA BqWrapped == ASSUME BqInv, fault = "none", Bq!AdvanceEnds PROVE BqInv'
<1>1. /\ step = "filled" /\ q' = Bq!Wrapped(q) /\ step' = "idle" /\ lent' = 0
      /\ fault' = (IF Bq!Valid(q') THEN fault ELSE "panic")
      /\ UNCHANGED <<next, text, taken, raced>>
  BY DEF Bq!AdvanceEnds
<1>2. Right(Bq!Wrapped(q))
  BY <1>1 DEF BqInv, BqSteps
<1>3. Right(q)' /\ fault' = "none"
  BY <1>1, <1>2 DEF Right, Ring
<1>4. Bq!jd_bqueue_available_cont_data(q)' \in Nat
  BY <1>3, NothingLent DEF Right
<1>5. BqSteps'
  BY <1>1, <1>3, <1>4 DEF BqSteps
<1> QED
  BY <1>1, <1>3, <1>5 DEF BqInv, TakenDue

\* The three steps of a clear: only a push among them leaves a ring that is not right,
\* and that ring fails validate.
LEMMA BqEmptied == ASSUME BqInv, fault = "none", Bq!jd_bqueue_clear PROVE BqInv'
<1>1. /\ step = "idle" /\ lent = 0 /\ q' = [q EXCEPT !.filled = 0] /\ text' = <<>>
      /\ step' = "emptied" /\ Bq!Quiet /\ UNCHANGED <<next, lent, raced, fault>>
  BY DEF Bq!jd_bqueue_clear
<1>2. Ring(q) /\ Cells(q) /\ q.front < q.size
  BY <1>1, RingCells DEF BqInv, BqSteps, Right
<1>3. q' = [front |-> q.front, back |-> q.back, filled |-> 0, size |-> q.size, data |-> q.data]
  BY <1>1, <1>2 DEF Cells
<1>4. Cells(q)' /\ q'.filled = 0 /\ q'.front < q'.size
  BY <1>2, <1>3 DEF Cells
<1>5. Bq!Valid(q)' => Right(q)'
  BY <1>1, <1>4 DEF Right, Ring, Holds, Cells
<1>6. BqSteps'
  BY <1>1, <1>4, <1>5 DEF BqSteps
<1>7. TakenDue'
  BY <1>1, StaysQuiet
<1> QED
  BY <1>1, <1>6, <1>7 DEF BqInv

LEMMA BqReset == ASSUME BqInv, fault = "none", Bq!ClearBack PROVE BqInv'
<1>1. /\ step = "emptied" /\ q' = [q EXCEPT !.back = 0] /\ step' = "reset"
      /\ UNCHANGED <<next, text, taken, lent, raced, fault>>
  BY DEF Bq!ClearBack
<1>2. /\ lent = 0 /\ Cells(q) /\ q.front < q.size /\ (~ raced => text = <<>>)
      /\ Right(q) \/ (~ Bq!Valid(q) /\ q.filled = 0 /\ text = <<>>)
  BY <1>1 DEF BqInv, BqSteps
<1>3. q' = [front |-> q.front, back |-> 0, filled |-> q.filled, size |-> q.size, data |-> q.data]
  BY <1>1, <1>2 DEF Cells
<1>4. Cells(q)' /\ q'.back = 0 /\ q'.front = q.front /\ q'.filled = q.filled /\ q'.size = q.size
  BY <1>2, <1>3 DEF Cells
<1>5. text \in Seq(Int) /\ q.filled = Len(text) /\ (text # <<>> => q.filled # 0)
  <2>1. text \in Seq(Int) /\ q.filled = Len(text)
    <3>1. CASE Right(q)
      BY <3>1 DEF Right, Holds
    <3>2. CASE q.filled = 0 /\ text = <<>>
      BY <3>2
    <3>3. CASE q.filled = Len(text) /\ text \in Seq(Int)
      BY <3>3
    <3> QED
      BY <1>2, <3>1, <3>2, <3>3
  <2> QED
    BY <2>1
<1>6. ASSUME Bq!Valid(q)'
      PROVE  Right(q)'
  <2>1. q.filled = IF 0 >= q.front THEN 0 - q.front ELSE q.size - q.front
    BY <1>2, <1>4, <1>6 DEF Bq!Valid, Cells
  <2>2. CASE text = <<>>
    BY <1>1, <1>4, <1>5, <1>6, <2>2 DEF Right, Ring, Holds, Cells
  <2>3. CASE text # <<>>
    <3>1. Right(q) /\ q.filled # 0
      BY <1>2, <1>5, <2>3
    <3>2. q.filled = IF q.back >= q.front THEN q.back - q.front ELSE q.back + q.size - q.front
      BY <3>1 DEF Right, Ring, Bq!Valid
    <3>3. q.back = 0
      BY <1>2, <2>1, <3>1, <3>2 DEF Cells
    <3>4. q' = q
      BY <1>2, <1>3, <3>3 DEF Cells
    <3> QED
      BY <1>1, <3>1, <3>4 DEF Right
  <2> QED
    BY <2>2, <2>3
<1>7. BqSteps'
  BY <1>1, <1>2, <1>4, <1>5, <1>6 DEF BqSteps
<1> QED
  BY <1>1, <1>7 DEF BqInv, TakenDue

LEMMA BqCleared == ASSUME BqInv, fault = "none", Bq!ClearFront PROVE BqInv'
<1>1. /\ step = "reset" /\ q' = [q EXCEPT !.front = 0] /\ step' = "idle"
      /\ fault' = (IF Bq!Valid(q') THEN fault ELSE "torn")
      /\ UNCHANGED <<next, text, taken, lent, raced>>
  BY DEF Bq!ClearFront
<1>2. /\ lent = 0 /\ Cells(q) /\ q.front < q.size /\ (~ raced => text = <<>> /\ q.back = 0) /\ raced \in BOOLEAN
      /\ Right(q) \/ (~ Bq!Valid(q) /\ q.back = 0 /\ q.filled = Len(text) /\ text \in Seq(Int))
  BY <1>1 DEF BqInv, BqSteps
<1>3. q' = [front |-> 0, back |-> q.back, filled |-> q.filled, size |-> q.size, data |-> q.data]
  BY <1>1, <1>2 DEF Cells
<1>4. Cells(q)' /\ q'.front = 0 /\ q'.back = q.back /\ q'.filled = q.filled /\ q'.size = q.size
  BY <1>2, <1>3 DEF Cells
<1>5. text \in Seq(Int) /\ q.filled = Len(text) /\ (text # <<>> => q.filled # 0)
  <2>1. text \in Seq(Int) /\ q.filled = Len(text)
    <3>1. CASE Right(q)
      BY <3>1 DEF Right, Holds
    <3>2. CASE q.filled = 0 /\ text = <<>>
      BY <3>2
    <3>3. CASE q.filled = Len(text) /\ text \in Seq(Int)
      BY <3>3
    <3> QED
      BY <1>2, <3>1, <3>2, <3>3
  <2> QED
    BY <2>1
<1>6. ASSUME Bq!Valid(q)'
      PROVE  Right(q)'
  <2>1. q.filled = q.back
    BY <1>2, <1>4, <1>6 DEF Bq!Valid, Cells
  <2>2. CASE text = <<>>
    BY <1>1, <1>4, <1>5, <1>6, <2>2 DEF Right, Ring, Holds, Cells
  <2>3. CASE text # <<>>
    <3>1. q.back # 0
      BY <1>5, <2>1, <2>3, Zenon
    <3>2. Right(q)
      BY <1>2, <3>1
    <3>3. q.filled = IF q.back >= q.front THEN q.back - q.front ELSE q.back + q.size - q.front
      BY <3>2 DEF Right, Ring, Bq!Valid
    <3>4. q.front = 0
      BY <1>2, <2>1, <3>3 DEF Cells
    <3>5. q' = q
      BY <1>2, <1>3, <3>4 DEF Cells
    <3> QED
      BY <1>1, <3>2, <3>5 DEF Right
  <2> QED
    BY <2>2, <2>3
<1>7. ~ raced => Bq!Valid(q)'
  BY <1>2, <1>4, <1>5 DEF Bq!Valid, Cells
<1>8. CASE Bq!Valid(q)'
  <2>1. Right(q)' /\ fault' = "none" /\ lent' = 0
    BY <1>1, <1>2, <1>6, <1>8
  <2>2. Bq!jd_bqueue_available_cont_data(q)' \in Nat
    BY <2>1, NothingLent DEF Right
  <2>3. BqSteps'
    BY <1>1, <2>1, <2>2 DEF BqSteps
  <2> QED
    BY <1>1, <2>1, <2>3 DEF BqInv, TakenDue
<1>9. CASE ~ Bq!Valid(q)'
  BY <1>1, <1>2, <1>7, <1>9 DEF BqInv, TakenDue
<1> QED
  BY <1>8, <1>9

LEMMA BqNext == ASSUME BqSizes, BqInv, [Bq!Next]_(Bq!vars) PROVE BqInv'
<1>1. ASSUME fault = "none", step = "idle"
      PROVE  /\ Ring(q) /\ Holds(q, text) /\ q.size \in Nat \ {0} /\ q.filled \in Nat
             /\ Len(text) = q.filled /\ Bq!jd_bqueue_available_cont_data(q) \in Nat
  <2>1. Ring(q) /\ Holds(q, text)
    BY <1>1 DEF BqInv, BqSteps, Right
  <2> QED
    BY <2>1, NothingLent DEF Ring, Holds
<1>2. ASSUME fault = "none", step = "idle", UNCHANGED Bq!calls, q' = q, text' = text,
             next' = next, lent' = 0, Bq!Quiet
      PROVE  BqInv'
  <2>1. TakenDue'
    BY <1>2, StaysQuiet
  <2>2. Right(q)'
    BY <1>1, <1>2 DEF Right
  <2> QED
    BY <1>2, <2>1, <2>2, BqIdle
<1>3. ASSUME fault = "none", Bq!jd_bqueue_pop_at_most PROVE BqInv'
  <2>1. PICK n \in 0 .. q.size :
          /\ step = "idle" /\ lent = 0 /\ q' = Bq!Popped(q, n).q
          /\ Bq!Hand(Bq!Popped(q, n).bytes, Bq!Smaller(n, Len(text)))
          /\ UNCHANGED <<next, lent, Bq!calls>>
    BY <1>3 DEF Bq!jd_bqueue_pop_at_most
  <2>2. n \in Nat /\ Bq!Hand(Bq!Popped(q, n).bytes, Bq!Smaller(n, q.filled))
    BY <1>1, <1>3, <2>1
  <2> QED
    BY <1>3, <2>1, <2>2, BqPopped
<1>4. ASSUME fault = "none", Bq!jd_bqueue_pop_atomic PROVE BqInv'
  <2>1. PICK n \in 1 .. q.size :
          /\ step = "idle" /\ lent = 0
          /\ IF q.filled >= n
             THEN q' = Bq!Popped(q, n).q /\ Bq!Hand(Bq!Popped(q, n).bytes, n)
             ELSE Bq!Quiet /\ UNCHANGED <<q, text>>
          /\ UNCHANGED <<next, lent, Bq!calls>>
    BY <1>4 DEF Bq!jd_bqueue_pop_atomic
  <2>2. CASE q.filled >= n
    <3>1. n \in Nat /\ Bq!Smaller(n, q.filled) = n
      BY <1>1, <1>4, <2>1, <2>2 DEF Bq!Smaller
    <3>2. q' = Bq!Popped(q, n).q /\ Bq!Hand(Bq!Popped(q, n).bytes, Bq!Smaller(n, q.filled))
      BY <2>1, <2>2, <3>1
    <3> QED
      BY <1>4, <2>1, <3>1, <3>2, BqPopped
  <2>3. CASE ~ q.filled >= n
    BY <1>2, <1>4, <2>1, <2>3
  <2> QED
    BY <2>2, <2>3
<1>5. ASSUME fault = "none", Bq!jd_bqueue_pop_byte PROVE BqInv'
  <2>1. /\ step = "idle" /\ lent = 0
        /\ IF q.filled > 0
           THEN q' = Bq!jd_bqueue_cont_data_advance(q, 1) /\ Bq!Hand(Bq!Contiguous(q, 1), 1)
           ELSE Bq!Quiet /\ UNCHANGED <<q, text>>
        /\ UNCHANGED <<next, lent, Bq!calls>>
    BY <1>5 DEF Bq!jd_bqueue_pop_byte
  <2>2. CASE q.filled > 0
    <3>1. 1 <= Bq!jd_bqueue_available_cont_data(q)
      BY <1>1, <1>5, <2>1, <2>2 DEF Ring, Bq!Valid, Bq!jd_bqueue_available_cont_data
    <3>2. lent' = 0 /\ next' = next /\ UNCHANGED Bq!calls /\ 1 \in Nat
      BY <2>1
    <3> QED
      BY <1>5, <2>1, <2>2, <3>1, <3>2, BqAdvanced
  <2>3. CASE ~ q.filled > 0
    BY <1>2, <1>5, <2>1, <2>3
  <2> QED
    BY <2>2, <2>3
<1>6. ASSUME fault = "none", Bq!jd_bqueue_cont_data_ptr PROVE BqInv'
  <2>1. /\ step = "idle" /\ lent' \in 1 .. Bq!jd_bqueue_available_cont_data(q) /\ Bq!Quiet
        /\ q' = q /\ next' = next /\ text' = text /\ UNCHANGED Bq!calls
    BY <1>6 DEF Bq!jd_bqueue_cont_data_ptr
  <2>2. TakenDue'
    BY <2>1, StaysQuiet
  <2>3. lent' \in Nat /\ (lent <= Bq!jd_bqueue_available_cont_data(q))'
    <3>1. Bq!jd_bqueue_available_cont_data(q) \in Nat
      BY <1>1, <1>6, <2>1
    <3>2. Bq!jd_bqueue_available_cont_data(q)' = Bq!jd_bqueue_available_cont_data(q)
      BY <2>1
    <3> QED
      BY <2>1, <3>1, <3>2
  <2>4. step' = "idle" /\ fault' = "none" /\ raced' = raced
    BY <1>6, <2>1 DEF Bq!calls
  <2>5. Right(q)'
    BY <1>1, <1>6, <2>1 DEF Right
  <2>6. BqSteps'
    BY <2>3, <2>4, <2>5 DEF BqSteps
  <2> QED
    BY <2>1, <2>2, <2>3, <2>4, <2>6 DEF BqInv
<1>7. CASE UNCHANGED Bq!vars
  BY <1>7 DEF BqInv, BqSteps, TakenDue, Right, Bq!vars, Bq!calls, Bq!Wrapped, Bq!Counted
<1> QED
  BY <1>3, <1>4, <1>5, <1>6, <1>7, BqPush, BqConsume, BqCounted, BqWrapped, BqEmptied, BqReset,
     BqCleared DEF Bq!Next

\* For every size of the ring the byte queue of jd_bqueue.c is a queue: it holds what
\* was pushed and not taken, in order, whatever the pieces and wraps; each
\* operation hands out the oldest bytes; a push does not touch what a reader
\* was lent; and the assertions of validate hold.  An interrupt may push between any
\* two assignments of cont_data_advance and clear, which are not masked: then an
\* assertion may fail, but a ring that passes validate is still right.
THEOREM BytesStayInOrder == BqSizes => (Bq!Spec => []Bq!BytesInOrder)
<1> SUFFICES ASSUME BqSizes
             PROVE  Bq!Spec => []Bq!BytesInOrder
  OBVIOUS
<1>1. Bq!Init => BqInv
  BY BqInit
<1>2. BqInv /\ [Bq!Next]_(Bq!vars) => BqInv'
  BY BqNext
<1>3. BqInv => Bq!BytesInOrder
  BY BqInvImplies
<1> QED
  BY <1>1, <1>2, <1>3, PTL DEF Bq!Spec

-----------------------------------------------------------------------------
(***************************************************************************)
(* The allocator (JdAlloc), for every size of the heap and of the stack.   *)
(***************************************************************************)
CONSTANTS HEAP, STACK, BlockSizes
VARIABLES aptr, ram, maxStack, deepest, blocks, panic

Alc == INSTANCE JdAlloc WITH WORD <- 4, Sizes <- BlockSizes

AlcSizes == HEAP \in Nat /\ STACK \in Nat /\ BlockSizes \subseteq Nat

Block == [at : Nat, bytes : Nat]
BlockEnd(b) == b.at + Alc!Words(b.bytes)

\* Blocks lie below aptr, and apart.
BlocksInv ==
  /\ aptr \in Nat /\ blocks \subseteq Block /\ panic \in BOOLEAN /\ (~ panic => aptr <= HEAP)
  /\ \A b \in blocks : BlockEnd(b) <= aptr /\ BlockEnd(b) <= HEAP
  /\ \A b, c \in blocks : b # c => BlockEnd(b) <= c.at \/ BlockEnd(c) <= b.at

\* The pattern is where neither a block nor the stack has been.
Memory(r) == r = [a \in 0 .. HEAP + STACK - 1 |-> r[a]]

FillInv ==
  /\ Memory(ram) /\ deepest \in 1 .. STACK
  /\ ~ panic => \A a \in aptr .. HEAP - 1 : ram[a] = "fill"
  /\ \A a \in HEAP .. HEAP + STACK - 1 : ram[a] = "fill" <=> a < HEAP + STACK - deepest
  /\ maxStack \in Nat /\ maxStack <= deepest

AlcInv == BlocksInv /\ FillInv

\* How many words a block has, and which.
LEMMA WordNumbers ==
  ASSUME NEW n \in Nat
  PROVE  Alc!Words(n) \in Nat /\ \A i \in 0 .. n - 1 : i \div 4 \in 0 .. Alc!Words(n) - 1
<1> DEFINE x == n + 3
           d == x \div 4
           r == x % 4
<1>1. x \in Nat /\ 4 \in Nat \ {0} /\ Alc!Words(n) = d
  BY DEF Alc!Words
<1>2. x = n + 3
  OBVIOUS
<1> HIDE DEF x
<1>3. r \in 0 .. 4 - 1 /\ d \in Int /\ x = 4 * d + r
  BY <1>1, Division
<1> HIDE DEF d, r
<1>4. d \in Nat
  BY <1>1, <1>3
<1>5. ASSUME NEW i \in 0 .. n - 1
      PROVE  i \div 4 \in 0 .. d - 1
  <2> DEFINE e == i \div 4
             s == i % 4
  <2>1. i \in Nat
    OBVIOUS
  <2>2. s \in 0 .. 4 - 1 /\ e \in Int /\ i = 4 * e + s
    BY <1>1, <2>1, Division
  <2> HIDE DEF e, s
  <2>3. e \in 0 .. d - 1
    BY <1>2, <1>3, <1>4, <2>1, <2>2
  <2> QED
    BY <2>3 DEF e
<1> QED
  BY <1>1, <1>4, <1>5

LEMMA BlockPlace ==
  ASSUME NEW b \in Block
  PROVE  b.at \in Nat /\ BlockEnd(b) \in Nat /\ b.at <= BlockEnd(b)
         /\ \A a \in Alc!BlockWords(b) : a \in Nat /\ b.at <= a /\ a < BlockEnd(b)
<1>1. b.at \in Nat /\ b.bytes \in Nat
  BY DEF Block
<1> DEFINE n == b.bytes
           w == Alc!Words(n)
<1>2. w \in Nat /\ \A i \in 0 .. n - 1 : i \div 4 \in 0 .. w - 1
  BY <1>1, WordNumbers
<1>3. BlockEnd(b) = b.at + w
  BY DEF BlockEnd
<1>4. ASSUME NEW a \in Alc!BlockWords(b)
      PROVE  a \in Nat /\ b.at <= a /\ a < BlockEnd(b)
  <2>1. PICK i \in 0 .. n - 1 : a = b.at + (i \div 4)
    BY <1>4 DEF Alc!BlockWords
  <2> DEFINE e == i \div 4
  <2>2. e \in 0 .. w - 1 /\ a = b.at + e
    BY <1>2, <2>1
  <2> HIDE DEF e, w
  <2> QED
    BY <1>1, <1>2, <1>3, <2>2
<1> HIDE DEF w
<1> QED
  BY <1>1, <1>2, <1>3, <1>4

\* What the scan finds.
LEMMA StackFound ==
  ASSUME AlcSizes, FillInv
  PROVE  Alc!StackUsed(ram) = deepest
<1> DEFINE base == HEAP + STACK
           other == {a \in HEAP .. base - 1 : ram[a] # "fill"}
           m == base - deepest
<1>1. HEAP \in Nat /\ STACK \in Nat /\ deepest \in 1 .. STACK
      /\ \A a \in HEAP .. base - 1 : ram[a] = "fill" <=> a < base - deepest
  <2>1. HEAP \in Nat /\ STACK \in Nat
    BY DEF AlcSizes
  <2> QED
    BY <2>1 DEF FillInv
<1>2. Alc!StackUsed(ram) = IF other = {} THEN 0 ELSE base - (CHOOSE a \in other : \A b \in other : a <= b)
  BY DEF Alc!StackUsed, Alc!STACK_BASE, Alc!HEAP_END
<1>3. m \in other /\ \A b \in other : m <= b
  BY <1>1
<1>4. other \subseteq Nat
  BY <1>1
<1> HIDE DEF other
<1>5. (CHOOSE a \in other : \A b \in other : a <= b) = m
  <2> DEFINE c == CHOOSE a \in other : \A b \in other : a <= b
  <2>1. c \in other /\ \A b \in other : c <= b
    BY <1>3
  <2> HIDE DEF c
  <2>2. c <= m /\ m <= c /\ c \in Nat /\ m \in Nat
    BY <1>3, <1>4, <2>1
  <2>3. c = m
    BY <2>2
  <2> QED
    BY <2>3 DEF c
<1>6. other # {}
  BY <1>3
<1>7. base - m = deepest
  BY <1>1
<1> QED
  BY <1>2, <1>5, <1>6, <1>7

LEMMA AlcInit == ASSUME AlcSizes, Alc!Init PROVE AlcInv
<1>1. PICK depth \in 1 .. STACK :
        /\ ram = [a \in 0..Alc!STACK_BASE - 1 |-> IF a < Alc!STACK_BASE - depth THEN "fill" ELSE "data"]
        /\ aptr = 0 /\ maxStack = depth /\ deepest = depth /\ blocks = {} /\ panic = FALSE
  BY DEF Alc!Init
<1>2. HEAP \in Nat /\ STACK \in Nat
  BY DEF AlcSizes
<1>3. ram = [a \in 0 .. HEAP + STACK - 1 |-> IF a < HEAP + STACK - depth THEN "fill" ELSE "data"]
  <2> DEFINE F(x, y) == [a \in 0 .. x |-> IF a < y THEN "fill" ELSE "data"]
  <2>1. ram = F(Alc!STACK_BASE - 1, Alc!STACK_BASE - depth)
    BY <1>1
  <2> HIDE DEF F
  <2>2. Alc!STACK_BASE - 1 = HEAP + STACK - 1 /\ Alc!STACK_BASE - depth = HEAP + STACK - depth
    BY <1>2 DEF Alc!STACK_BASE
  <2>3. ram = F(HEAP + STACK - 1, HEAP + STACK - depth)
    BY <2>1, <2>2
  <2> QED
    BY <2>3 DEF F
<1>4. BlocksInv
  <2>1. aptr = 0 /\ blocks = {} /\ panic = FALSE
    BY <1>1
  <2>2. panic \in BOOLEAN
    BY <2>1
  <2>3. aptr \in Nat /\ aptr <= HEAP
    BY <1>2, <2>1
  <2> QED
    BY <2>1, <2>2, <2>3 DEF BlocksInv
<1>5. FillInv
  <2>0. aptr = 0 /\ maxStack = depth /\ deepest = depth /\ depth \in Nat /\ depth <= STACK
    BY <1>1, <1>2
  <2>1. \A a \in HEAP .. HEAP + STACK - 1 : ram[a] = "fill" <=> a < HEAP + STACK - deepest
    <3> SUFFICES ASSUME NEW a \in HEAP .. HEAP + STACK - 1
                 PROVE  ram[a] = "fill" <=> a < HEAP + STACK - depth
      BY <2>0
    <3>1. a \in 0 .. HEAP + STACK - 1
      BY <1>2
    <3> QED
      BY <1>3, <3>1
  <2>2. \A a \in aptr .. HEAP - 1 : ram[a] = "fill"
    <3> SUFFICES ASSUME NEW a \in 0 .. HEAP - 1
                 PROVE  ram[a] = "fill"
      BY <2>0
    <3>1. a \in 0 .. HEAP + STACK - 1 /\ a < HEAP + STACK - depth
      BY <1>2, <2>0
    <3> QED
      BY <1>3, <3>1
  <2>3. Memory(ram)
    BY <1>3 DEF Memory
  <2>4. deepest \in 1 .. STACK /\ maxStack \in Nat /\ maxStack <= deepest
    BY <2>0
  <2> QED
    BY <2>1, <2>2, <2>3, <2>4 DEF FillInv
<1> QED
  BY <1>4, <1>5 DEF AlcInv

LEMMA AlcAlloc ==
  ASSUME AlcSizes, AlcInv, NEW size \in BlockSizes, Alc!jd_alloc(size)
  PROVE  AlcInv'
<1> DEFINE top == aptr + Alc!Words(size)
           new == [at |-> aptr, bytes |-> size]
<1>1. /\ ~ panic /\ aptr' = top /\ deepest' = deepest
      /\ maxStack' = IF Alc!StackUsed(ram) > maxStack THEN Alc!StackUsed(ram) ELSE maxStack
      /\ IF top > HEAP THEN panic' = TRUE /\ ram' = ram /\ blocks' = blocks
         ELSE /\ ram' = [a \in DOMAIN ram |-> IF a \in aptr..top - 1 THEN "zero" ELSE ram[a]]
              /\ blocks' = blocks \cup {new} /\ panic' = panic
  BY DEF Alc!jd_alloc, Alc!jd_alloc_stack_check, Alc!HEAP_END
<1>2. HEAP \in Nat /\ STACK \in Nat /\ size \in Nat /\ aptr \in Nat /\ aptr <= HEAP /\ panic \in BOOLEAN
  BY <1>1 DEF AlcSizes, AlcInv, BlocksInv
<1>3. Alc!Words(size) \in Nat
  BY <1>2, WordNumbers
<1>4. top \in Nat /\ aptr <= top /\ new \in Block /\ BlockEnd(new) = top /\ new.at = aptr
  BY <1>2, <1>3 DEF Block, BlockEnd
<1>5. Alc!StackUsed(ram) = deepest
  BY StackFound DEF AlcInv
<1>6. maxStack' \in Nat /\ maxStack' <= deepest' /\ deepest' \in 1 .. STACK
  BY <1>1, <1>5 DEF AlcInv, FillInv
<1>7. /\ blocks \subseteq Block /\ \A b \in blocks : BlockEnd(b) <= aptr /\ BlockEnd(b) <= HEAP
      /\ \A b, c \in blocks : b # c => BlockEnd(b) <= c.at \/ BlockEnd(c) <= b.at
  BY DEF AlcInv, BlocksInv
<1>8. DOMAIN ram = 0 .. HEAP + STACK - 1 /\ Memory(ram)
      /\ (\A a \in aptr .. HEAP - 1 : ram[a] = "fill")
      /\ (\A a \in HEAP .. HEAP + STACK - 1 : ram[a] = "fill" <=> a < HEAP + STACK - deepest)
      /\ deepest \in 1 .. STACK
  <2>1. Memory(ram)
    BY DEF AlcInv, FillInv
  <2>2. DOMAIN ram = 0 .. HEAP + STACK - 1
    BY <2>1 DEF Memory
  <2> QED
    BY <1>1, <2>1, <2>2 DEF AlcInv, FillInv
<1> HIDE DEF top, new
<1>9. \A b \in blocks : BlockEnd(b) \in Nat /\ BlockEnd(b) <= top
  BY <1>2, <1>4, <1>7, BlockPlace
<1>10. CASE top > HEAP
  <2>1. panic' = TRUE /\ ram' = ram /\ blocks' = blocks
    BY <1>1, <1>10
  <2>2. BlocksInv'
    BY <1>1, <1>4, <1>7, <1>9, <2>1 DEF BlocksInv
  <2>3. FillInv'
    BY <1>1, <1>6, <1>8, <2>1 DEF FillInv
  <2> QED
    BY <2>2, <2>3 DEF AlcInv
<1>11. CASE ~ top > HEAP
  <2>1. /\ ram' = [a \in 0 .. HEAP + STACK - 1 |-> IF a \in aptr..top - 1 THEN "zero" ELSE ram[a]]
        /\ blocks' = blocks \cup {new} /\ panic' = panic
    BY <1>1, <1>8, <1>11
  <2>2. top <= HEAP
    BY <1>2, <1>4, <1>11
  <2>3. BlocksInv'
    <3>1. \A b \in blocks' : b \in Block /\ BlockEnd(b) <= top /\ BlockEnd(b) <= HEAP
      BY <1>4, <1>7, <1>9, <2>1, <2>2
    <3>2. ASSUME NEW b \in blocks', NEW c \in blocks', b # c
          PROVE  BlockEnd(b) <= c.at \/ BlockEnd(c) <= b.at
      <4>1. CASE b \in blocks /\ c \in blocks
        BY <1>7, <3>2, <4>1
      <4>2. CASE c = new
        <5>1. b \in blocks
          BY <2>1, <3>2, <4>2
        <5> QED
          BY <1>4, <1>7, <4>2, <5>1
      <4>3. CASE b = new
        <5>1. c \in blocks
          BY <2>1, <3>2, <4>3
        <5> QED
          BY <1>4, <1>7, <4>3, <5>1
      <4> QED
        BY <2>1, <4>1, <4>2, <4>3
    <3> QED
      BY <1>1, <1>2, <1>4, <2>1, <2>2, <3>1, <3>2 DEF BlocksInv
  <2>4. FillInv'
    <3>1. \A a \in top .. HEAP - 1 : ram'[a] = "fill"
      <4> SUFFICES ASSUME NEW a \in top .. HEAP - 1
                   PROVE  ram'[a] = "fill"
        OBVIOUS
      <4>1. a \in aptr .. HEAP - 1 /\ a \in 0 .. HEAP + STACK - 1 /\ a \notin aptr .. top - 1
        BY <1>2, <1>4
      <4> QED
        BY <1>8, <2>1, <4>1
    <3>2. \A a \in HEAP .. HEAP + STACK - 1 : ram'[a] = ram[a]
      BY <1>2, <1>4, <2>1, <2>2
    <3>3. Memory(ram)'
      BY <2>1 DEF Memory
    <3>4. \A a \in HEAP .. HEAP + STACK - 1 : ram'[a] = "fill" <=> a < HEAP + STACK - deepest'
      BY <1>1, <1>8, <3>2
    <3> QED
      BY <1>1, <1>6, <3>1, <3>3, <3>4 DEF FillInv
  <2> QED
    BY <2>3, <2>4 DEF AlcInv
<1> QED
  BY <1>10, <1>11

LEMMA AlcNext == ASSUME AlcSizes, AlcInv, [Alc!Next]_(Alc!vars) PROVE AlcInv'
<1>1. ASSUME NEW size \in BlockSizes, Alc!jd_alloc(size)
      PROVE  AlcInv'
  BY <1>1, AlcAlloc
<1>2. HEAP \in Nat /\ STACK \in Nat
  BY DEF AlcSizes
<1>3. /\ Memory(ram) /\ DOMAIN ram = 0 .. HEAP + STACK - 1
      /\ deepest \in 1 .. STACK /\ maxStack \in Nat /\ maxStack <= deepest
      /\ (~ panic => \A a \in aptr .. HEAP - 1 : ram[a] = "fill")
      /\ (\A a \in HEAP .. HEAP + STACK - 1 : ram[a] = "fill" <=> a < HEAP + STACK - deepest)
  <2>1. Memory(ram)
    BY DEF AlcInv, FillInv
  <2>2. DOMAIN ram = 0 .. HEAP + STACK - 1
    BY <2>1 DEF Memory
  <2> QED
    BY <2>1, <2>2 DEF AlcInv, FillInv
<1>4. CASE Alc!UseBlock
  <2>1. PICK b \in blocks : ram' = [a \in DOMAIN ram |-> IF a \in Alc!BlockWords(b) THEN "data" ELSE ram[a]]
    BY <1>4 DEF Alc!UseBlock
  <2>2. /\ aptr' = aptr /\ maxStack' = maxStack /\ deepest' = deepest /\ blocks' = blocks /\ panic' = panic
    BY <1>4 DEF Alc!UseBlock
  <2>3. b \in Block /\ BlockEnd(b) <= aptr /\ BlockEnd(b) <= HEAP /\ aptr \in Nat
    BY <2>1 DEF AlcInv, BlocksInv
  <2>4. \A a \in Alc!BlockWords(b) : a < aptr /\ a < HEAP
    <3>1. BlockEnd(b) \in Nat /\ \A a \in Alc!BlockWords(b) : a \in Nat /\ a < BlockEnd(b)
      BY <2>3, BlockPlace
    <3> QED
      BY <1>2, <2>3, <3>1
  <2>5. BlocksInv'
    BY <2>2 DEF AlcInv, BlocksInv
  <2>6. /\ \A a \in aptr .. HEAP - 1 : a \notin Alc!BlockWords(b) /\ a \in 0 .. HEAP + STACK - 1
        /\ \A a \in HEAP .. HEAP + STACK - 1 : a \notin Alc!BlockWords(b) /\ a \in 0 .. HEAP + STACK - 1
    BY <1>2, <2>3, <2>4
  <2>7. /\ \A a \in aptr .. HEAP - 1 : ram'[a] = ram[a]
        /\ \A a \in HEAP .. HEAP + STACK - 1 : ram'[a] = ram[a]
        /\ Memory(ram)'
    BY <1>3, <2>1, <2>6 DEF Memory
  <2>8. FillInv'
    BY <1>3, <2>2, <2>7 DEF FillInv
  <2> QED
    BY <2>5, <2>8 DEF AlcInv
<1>5. ASSUME NEW depth \in 1 .. STACK, Alc!StackGrows(depth)
      PROVE  AlcInv'
  <2>1. /\ depth > deepest /\ deepest' = depth
        /\ ram' = [a \in 0 .. HEAP + STACK - 1 |-> IF a >= HEAP + STACK - depth THEN "data" ELSE ram[a]]
        /\ aptr' = aptr /\ maxStack' = maxStack /\ blocks' = blocks /\ panic' = panic
    <3>1. DOMAIN ram = 0 .. HEAP + STACK - 1
      BY <1>3
    <3>2. ram' = [a \in DOMAIN ram |-> IF a >= HEAP + STACK - depth THEN "data" ELSE ram[a]]
      <4> DEFINE F(x) == [a \in DOMAIN ram |-> IF a >= x THEN "data" ELSE ram[a]]
      <4>1. ram' = F(Alc!STACK_BASE - depth)
        BY <1>5 DEF Alc!StackGrows
      <4> HIDE DEF F
      <4>2. Alc!STACK_BASE - depth = HEAP + STACK - depth
        BY <1>2 DEF Alc!STACK_BASE
      <4>3. ram' = F(HEAP + STACK - depth)
        BY <4>1, <4>2
      <4> QED
        BY <4>3 DEF F
    <3>3. depth > deepest /\ deepest' = depth
          /\ aptr' = aptr /\ maxStack' = maxStack /\ blocks' = blocks /\ panic' = panic
      BY <1>5 DEF Alc!StackGrows
    <3> QED
      BY ONLY <3>1, <3>2, <3>3
  <2>2. aptr \in Nat
    BY DEF AlcInv, BlocksInv
  <2>3. BlocksInv'
    BY <2>1 DEF AlcInv, BlocksInv
  <2>4. \A a \in aptr .. HEAP - 1 : ram'[a] = ram[a]
    BY <1>2, <2>1, <2>2
  <2>5. ASSUME NEW a \in HEAP .. HEAP + STACK - 1
        PROVE  ram'[a] = "fill" <=> a < HEAP + STACK - deepest'
    <3>1. a \in 0 .. HEAP + STACK - 1 /\ a \in Nat
      BY <1>2
    <3>2. CASE a >= HEAP + STACK - depth
      <4>1. ram'[a] = "data" /\ ~ a < HEAP + STACK - deepest'
        BY <1>2, <2>1, <3>1, <3>2
      <4> QED
        BY <4>1
    <3>3. CASE ~ a >= HEAP + STACK - depth
      <4>1. ram'[a] = ram[a] /\ a < HEAP + STACK - deepest' /\ a < HEAP + STACK - deepest
        BY <1>2, <1>3, <2>1, <3>1, <3>3
      <4> QED
        BY <1>3, <4>1
    <3> QED
      BY <3>2, <3>3
  <2>6. Memory(ram)'
    BY <2>1 DEF Memory
  <2>7. deepest' \in 1 .. STACK /\ maxStack' \in Nat /\ maxStack' <= deepest'
    BY <1>2, <1>3, <2>1
  <2>8. FillInv'
    BY <1>3, <2>1, <2>4, <2>5, <2>6, <2>7 DEF FillInv
  <2> QED
    BY <2>3, <2>8 DEF AlcInv
<1>6. CASE UNCHANGED Alc!vars
  BY <1>6 DEF Alc!vars, AlcInv, BlocksInv, FillInv
<1> QED
  BY <1>1, <1>4, <1>5, <1>6 DEF Alc!Next

\* As long as the stack keeps to its space, the blocks of simple_alloc.c never
\* share a word, are as large as was asked for and stay below the stack, and
\* what jd_alloc finds of the stack is what the stack has used.
THEOREM BlocksStayApart == AlcSizes => (Alc!Spec => []Alc!BlocksApart)
<1> SUFFICES ASSUME AlcSizes
             PROVE  Alc!Spec => []Alc!BlocksApart
  OBVIOUS
<1>1. Alc!Init => AlcInv
  BY AlcInit
<1>2. AlcInv /\ [Alc!Next]_(Alc!vars) => AlcInv'
  BY AlcNext
<1>3. AlcInv => Alc!BlocksApart
  <2> SUFFICES ASSUME AlcInv
               PROVE  Alc!BlocksApart
    OBVIOUS
  <2>1. /\ aptr \in Nat /\ HEAP \in Nat /\ blocks \subseteq Block /\ (~ panic => aptr <= HEAP)
        /\ \A b \in blocks : BlockEnd(b) <= aptr /\ BlockEnd(b) <= HEAP
        /\ \A b, c \in blocks : b # c => BlockEnd(b) <= c.at \/ BlockEnd(c) <= b.at
    BY DEF AlcInv, BlocksInv, AlcSizes
  <2>2. ASSUME NEW b \in blocks, NEW c \in blocks, b # c
        PROVE  Alc!BlockWords(b) \cap Alc!BlockWords(c) = {}
    <3>1. /\ b.at \in Nat /\ BlockEnd(b) \in Nat
          /\ \A a \in Alc!BlockWords(b) : a \in Nat /\ b.at <= a /\ a < BlockEnd(b)
      BY <2>1, BlockPlace
    <3>2. /\ c.at \in Nat /\ BlockEnd(c) \in Nat
          /\ \A a \in Alc!BlockWords(c) : a \in Nat /\ c.at <= a /\ a < BlockEnd(c)
      BY <2>1, BlockPlace
    <3> QED
      BY <2>1, <2>2, <3>1, <3>2
  <2>3. ASSUME NEW b \in blocks, NEW a \in Alc!BlockWords(b)
        PROVE  a < aptr /\ a < HEAP
    <3>1. BlockEnd(b) \in Nat /\ a \in Nat /\ a < BlockEnd(b)
      BY <2>1, BlockPlace
    <3> QED
      BY <2>1, <3>1
  <2>4. ~ panic => HEAP - aptr >= 0 /\ \A a \in aptr .. HEAP - 1 : ram[a] = "fill"
    <3>1. ~ panic => HEAP - aptr >= 0
      BY <2>1
    <3>2. ~ panic => \A a \in aptr .. HEAP - 1 : ram[a] = "fill"
      BY DEF AlcInv, FillInv
    <3> QED
      BY <3>1, <3>2
  <2>5. maxStack <= deepest /\ Alc!StackUsed(ram) = deepest
    BY StackFound DEF AlcInv, FillInv
  <2> QED
    BY <2>2, <2>3, <2>4, <2>5 DEF Alc!BlocksApart, Alc!HEAP_END, Alc!jd_available_memory
<1> QED
  BY <1>1, <1>2, <1>3, PTL DEF Alc!Spec
=============================================================================
