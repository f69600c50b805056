----------------------------- MODULE FrameFifo -----------------------------
(***************************************************************************)
(* What a frame queue promises its users (simple_rx.c, tx_queue.c,         *)
(* jd_usb.c): frames leave in the order in which they were accepted, each  *)
(* one once and with the bytes it was pushed with, and the reader is only  *)
(* ever shown the oldest accepted frame.                                   *)
(***************************************************************************)
EXTENDS Sequences

CONSTANTS Frame,     \* the frames that can be pushed
          NoFrame    \* what the reader holds when it holds nothing

VARIABLES queue,     \* the accepted frames, oldest first
          shown      \* the frame the reader was handed and has not released

fifoVars == <<queue, shown>>

FifoInit == /\ queue = <<>>
            /\ shown = NoFrame

\* A producer's frame is accepted.  (A rejected frame leaves the queue alone.)
Accept(f) == /\ queue' = Append(queue, f)
             /\ UNCHANGED shown

\* The reader asks for the oldest frame.
Show == /\ queue # <<>>
        /\ shown' = Head(queue)
        /\ UNCHANGED queue

\* The reader releases the frame it was shown.
Release == /\ queue # <<>>
           /\ shown = Head(queue)
           /\ queue' = Tail(queue)
           /\ shown' = NoFrame

FifoNext == \/ \E f \in Frame : Accept(f)
            \/ Show
            \/ Release

FifoSpec == FifoInit /\ [][FifoNext]_fifoVars
=============================================================================
