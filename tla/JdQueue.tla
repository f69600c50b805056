------------------------------ MODULE JdQueue ------------------------------
(***************************************************************************)
(* source/jd_queue.c: the ring of variable-sized frames behind the receive *)
(* queue, the send queue and the USB queue.                                *)
(*                                                                         *)
(* Frames are stored contiguously in data[]: a frame that does not fit     *)
(* before the end of the buffer is placed at offset 0 and curr_size        *)
(* remembers where the readable bytes before the wrap end.  Producer and   *)
(* consumer run in different contexts (an interrupt handler and the main   *)
(* loop).  jd_queue_push, jd_queue_shift and jd_queue_will_fit mask        *)
(* interrupts and are one step each; jd_queue_front does not, so its two   *)
(* tests are two steps and a push can land between them.                   *)
(*                                                                         *)
(* Memory is modelled byte by byte: data[i] is the frame that wrote the    *)
(* byte and which of its bytes it is, so an overwritten or misread frame   *)
(* is visible.                                                             *)
(***************************************************************************)
EXTENDS Integers, Sequences

CONSTANTS QSize,      \* q->size: bytes of data[]
          Ids,        \* what tells frames of one size apart
          PayloadSizes \* the values of frame->size that are pushed

FRM_SIZE(sz) == ((sz + 12 + 3) \div 4) * 4

Frame == [id : Ids, size : PayloadSizes]
NoFrame == [id |-> 0, size |-> 0]
NoByte == [frame |-> NoFrame, pos |-> 0]
Bytes(f) == FRM_SIZE(f.size)

ASSUME QSizeAssumption == QSize \in Nat /\ QSize > 0
ASSUME SizesAssumption == PayloadSizes \subseteq Nat \ {0}
\* Every frame is at most half of the queue: a frame has at most
\* 12 + 240 bytes, and every queue of jd_config.h has at least 512.
ASSUME HalfAssumption == \A sz \in PayloadSizes : 2 * FRM_SIZE(sz) <= QSize

VARIABLES
  front, back, curr_size,  \* the indices of struct jd_queue
  data,                    \* its bytes
  ret,                     \* what the last jd_queue_push returned
  reader,                  \* the consumer: "idle", "nonempty" (inside
                           \* jd_queue_front, after its first test) or "held"
  ptr,                     \* the offset jd_queue_front returned
  granted,                 \* a size jd_queue_will_fit said would fit, or 0
  failed,                  \* a JD_ASSERT has failed
  live                     \* history: the accepted frames and their offsets

indices == <<front, back, curr_size>>
vars == <<front, back, curr_size, data, ret, reader, ptr, granted, failed, live>>

jd_queue_alloc ==
  /\ front = 0 /\ back = 0 /\ curr_size = QSize
  /\ data = [i \in 0 .. QSize - 1 |-> NoByte]

Init == /\ jd_queue_alloc
        /\ ret = 0
        /\ reader = "idle" /\ ptr = 0
        /\ granted = 0
        /\ failed = FALSE
        /\ live = <<>>

------------------------------------------------------------------------------
(* The producer. *)

\* Mutant: the beginning of the buffer is never considered.
FitsNoWrap(size) ==
  IF front <= back THEN back + size <= QSize
                   ELSE back + size < front

\* The condition both jd_queue_will_fit and jd_queue_push evaluate.
Fits(size) ==
  IF front <= back THEN back + size <= QSize \/ front > size
                   ELSE back + size < front

\* Mutant: the free bytes are counted whether or not they are contiguous.
WillFitTotal(size) ==
  /\ granted' = IF front <= back
                THEN IF QSize - back + front >= size THEN size ELSE 0
                ELSE IF front - back >= size THEN size ELSE 0
  /\ UNCHANGED <<indices, data, ret, reader, ptr, failed, live>>

jd_queue_will_fit(size) ==
  /\ granted' = IF Fits(size) THEN size ELSE 0
  /\ UNCHANGED <<indices, data, ret, reader, ptr, failed, live>>

\* memcpy of frame f to the offset at.
Store(f, at) ==
  data' = [i \in 0 .. QSize - 1 |->
             IF at <= i /\ i < at + Bytes(f)
             THEN [frame |-> f, pos |-> i - at]
             ELSE data[i]]

PushAt(f, at) ==
  /\ back' = at + Bytes(f)
  /\ Store(f, at)
  /\ ret' = 0
  /\ live' = Append(live, [frame |-> f, at |-> at])

\* Mutant: the end of the buffer is not checked.
PushBehindUnchecked(f) ==
  /\ front > back => back + Bytes(f) < front
  /\ PushAt(f, back)
  /\ UNCHANGED curr_size

\* Mutant: a wrapped queue may be filled up to the last byte.
PushBehindOffByOne(f) ==
  /\ IF front <= back THEN back + Bytes(f) <= QSize
                      ELSE back + Bytes(f) <= front
  /\ PushAt(f, back)
  /\ UNCHANGED curr_size

\* The frame goes after the last one.
PushBehind(f) ==
  /\ IF front <= back THEN back + Bytes(f) <= QSize
                      ELSE back + Bytes(f) < front
  /\ PushAt(f, back)
  /\ UNCHANGED curr_size

\* The frame goes to the beginning of data[].
PushWrapping(f) ==
  /\ front <= back
  /\ back + Bytes(f) > QSize
  /\ front > Bytes(f)
  /\ curr_size' = back
  /\ PushAt(f, 0)

PushRejected(f) ==
  /\ ~ Fits(Bytes(f))
  /\ ret' = IF front <= back THEN -1 ELSE -2
  /\ UNCHANGED <<back, curr_size, data, live>>

jd_queue_push(f) ==
  /\ PushBehind(f) \/ PushWrapping(f) \/ PushRejected(f)
  /\ granted' = 0
  /\ failed' = (failed \/ front > QSize \/ back' > QSize \/ curr_size' > QSize)
  /\ UNCHANGED <<front, reader, ptr>>

------------------------------------------------------------------------------
(* The consumer. *)

\* The frame whose first byte is at offset at (what the header there says).
FrameAt(at) == data[at].frame

\* Mutant: the wrap point itself is read as a frame.
FrontOffsetOffByOne == IF front > curr_size \/ front = QSize THEN 0 ELSE front

\* Where jd_queue_front says the oldest frame is.
FrontOffset == IF front >= curr_size THEN 0 ELSE front

\* jd_queue_front: front # back was read ...
FrontTest == /\ reader = "idle"
             /\ front # back
             /\ reader' = "nonempty"
             /\ UNCHANGED <<indices, data, ret, ptr, granted, failed, live>>

\* ... and later front is compared with curr_size.
FrontPick == /\ reader = "nonempty"
             /\ reader' = "held"
             /\ ptr' = FrontOffset
             /\ UNCHANGED <<indices, data, ret, granted, failed, live>>

\* Shifting past the end of the bytes before the wrap.
ShiftWrapped(size) ==
  /\ front >= curr_size
  /\ failed' = (failed \/ front # curr_size)
  /\ front' = size
  /\ curr_size' = QSize

ShiftAhead(size) ==
  /\ front < curr_size
  /\ front' = front + size
  /\ UNCHANGED <<curr_size, failed>>

\* Mutant: the size is not rounded up to whole words.
ShiftUnrounded ==
  /\ reader = "held"
  /\ LET size == FrameAt(FrontOffset).size + 12
     IN ShiftWrapped(size) \/ ShiftAhead(size)
  /\ live' = Tail(live)
  /\ reader' = "idle"
  /\ ptr' = 0
  /\ UNCHANGED <<back, data, ret, granted>>

\* The consumer is done with the frame it was given.
jd_queue_shift ==
  /\ reader = "held"
  /\ LET size == Bytes(FrameAt(FrontOffset))
     IN ShiftWrapped(size) \/ ShiftAhead(size)
  /\ live' = Tail(live)
  /\ reader' = "idle"
  /\ ptr' = 0
  /\ UNCHANGED <<back, data, ret, granted>>

Next == \/ \E f \in Frame : jd_queue_push(f)
        \/ \E sz \in PayloadSizes : jd_queue_will_fit(FRM_SIZE(sz))
        \/ FrontTest
        \/ FrontPick
        \/ jd_queue_shift

Spec == Init /\ [][Next]_vars

------------------------------------------------------------------------------
(* Properties. *)

\* The indices stay inside the buffer and every variable has its type.
TypeOK ==
  /\ front \in 0 .. QSize /\ back \in 0 .. QSize /\ curr_size \in 0 .. QSize
  /\ data \in [0 .. QSize - 1 -> [frame : Frame \cup {NoFrame}, pos : Nat]]
  /\ ret \in {0, -1, -2}
  /\ reader \in {"idle", "nonempty", "held"}
  /\ ptr \in 0 .. QSize
  /\ granted \in Nat
  /\ failed \in BOOLEAN
  /\ live \in Seq([frame : Frame, at : 0 .. QSize])

\* None of the ASSERTs of jd_queue_push and jd_queue_shift ever fails, in
\* particular the one that front meets the wrap point exactly.
AssertsHold == ~ failed

\* A frame stays byte for byte as it was pushed from the moment it is
\* accepted until it is shifted out, whatever is pushed meanwhile.
Intact(e) == \A i \in e.at .. e.at + Bytes(e.frame) - 1 :
               data[i] = [frame |-> e.frame, pos |-> i - e.at]
AcceptedIntact == \A k \in 1 .. Len(live) : Intact(live[k])

\* The offset jd_queue_front returned is that of the oldest accepted frame
\* until the reader shifts it, also when pushes land between the reader's
\* two tests of the indices and while the reader uses the frame.
HeldIsOldest == reader = "held" => live # <<>> /\ ptr = live[1].at

\* A size that jd_queue_will_fit granted to the only producer still fits
\* when the producer gets to push, however many frames left meanwhile.
GrantHolds == granted # 0 => Fits(granted)

\* An empty queue accepts any frame: no sequence of pushes and shifts
\* leaves the indices where a frame can never be accepted again.
EmptyAccepts == live = <<>> => \A sz \in PayloadSizes : Fits(FRM_SIZE(sz))

\* The bytes the accepted frames take.
Used == IF front <= back THEN back - front ELSE curr_size - front + back

\* A push is refused only when the queue is within one largest frame of
\* being full (the bound jd_queue_test asserts, there 255 bytes).
RejectsOnlyNearlyFull ==
  [][\A f \in Frame : jd_queue_push(f) /\ ret' # 0 =>
       \E sz \in PayloadSizes : Used + Bytes(f) > QSize - FRM_SIZE(sz)]_vars

\* The abstract queue and what its reader is shown.
FrameSeq == [k \in 1 .. Len(live) |-> live[k].frame]
Shown == IF reader = "held" THEN FrameAt(ptr) ELSE NoFrame

Fifo == INSTANCE FrameFifo WITH queue <- FrameSeq, shown <- Shown

\* The queue implements the abstract FIFO: jd_queue_push accepts, the end
\* of jd_queue_front shows, jd_queue_shift releases.
FifoSpec == Fifo!FifoSpec
=============================================================================
