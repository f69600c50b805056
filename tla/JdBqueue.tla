------------------------------- MODULE JdBqueue -------------------------------
(***************************************************************************)
(* The byte queue (source/jd_bqueue.c): a ring of size bytes that holds at *)
(* most size - 1, written and read in pieces that may wrap around its end. *)
(* One consumer takes bytes by copying them out; another reads them in     *)
(* place, between cont_data_ptr and cont_data_advance, while pushes go on. *)
(*                                                                         *)
(* push and the pops run with interrupts masked and are one step each.     *)
(* cont_data_advance and clear are not masked ("low-level, not thread-safe *)
(* interface", jd_util.h): an interrupt may push between two of their      *)
(* assignments, and then the assertions of validate are all there is.      *)
(***************************************************************************)
EXTENDS Integers, Sequences

CONSTANTS Sizes,   \* sizes of the ring
          Values   \* bytes are numbered modulo this, as jd_bqueue_test does

VARIABLES q,       \* the ring: front, back, filled, size, data (from 0)
          next,    \* the next byte to be pushed
          text,    \* what the queue should hold
          taken,   \* what the last operation handed out, and what it should have
          lent,    \* how many bytes the consumer reads in place
          step,    \* how far cont_data_advance or clear has got
          raced,   \* a push came in the middle of one of them
          fault    \* "panic": an assertion failed; "torn": clear left a ring that
                   \* fails the next validate.  Neither is followed any further.

calls == <<step, raced, fault>>
vars == <<q, next, text, taken, lent, calls>>

-----------------------------------------------------------------------------
jd_bqueue_free_bytes == q.size - q.filled - 1

\* The assertions of validate.
Valid(r) ==
  /\ r.filled = IF r.back >= r.front THEN r.back - r.front ELSE r.back + r.size - r.front
  /\ r.front < r.size /\ r.back < r.size /\ r.filled < r.size

jd_bqueue_available_cont_data(r) == IF r.front <= r.back THEN r.back - r.front ELSE r.size - r.front

\* n bytes where cont_data_ptr points.
Contiguous(r, n) == [i \in 1..n |-> r.data[r.front + i - 1]]

\* The three assignments of jd_bqueue_cont_data_advance.
FrontMoved(r, n) == [r EXCEPT !.front = @ + n]
Counted(r, n) == [r EXCEPT !.filled = @ - n]
Wrapped(r) == [r EXCEPT !.front = IF @ = r.size THEN 0 ELSE @]

jd_bqueue_cont_data_advance(r, n) == Wrapped(Counted(FrontMoved(r, n), n))

\* What jd_bqueue_print prints.
jd_bqueue_print(r) == [i \in 1..r.filled |-> r.data[(r.front + i - 1) % r.size]]

Smaller(x, y) == IF x < y THEN x ELSE y

\* Mutant: the second piece is not tried.
PoppedOnce(r, n) ==
  LET a == Smaller(jd_bqueue_available_cont_data(r), n) IN
  [bytes |-> Contiguous(r, a), q |-> jd_bqueue_cont_data_advance(r, a)]

\* jd_bqueue_pop_at_most: one piece, and if that was not enough the one after the wrap.
Popped(r, n) ==
  LET a == Smaller(jd_bqueue_available_cont_data(r), n)
      r1 == jd_bqueue_cont_data_advance(r, a)
      b == IF n > a THEN Smaller(jd_bqueue_available_cont_data(r1), n - a) ELSE 0
  IN  [bytes |-> Contiguous(r, a) \o Contiguous(r1, b), q |-> jd_bqueue_cont_data_advance(r1, b)]

-----------------------------------------------------------------------------
Hand(got, n) ==
  /\ taken' = [got |-> got, due |-> SubSeq(text, 1, n)]
  /\ text' = SubSeq(text, n + 1, Len(text))

Quiet == taken' = [got |-> <<>>, due |-> <<>>]

\* jd_bqueue_alloc.
Init ==
  /\ \E n \in Sizes :
       q = [front |-> 0, back |-> 0, filled |-> 0, size |-> n, data |-> [i \in 0..n - 1 |-> 0]]
  /\ next = 0 /\ text = <<>> /\ lent = 0
  /\ taken = [got |-> <<>>, due |-> <<>>]
  /\ step = "idle" /\ raced = FALSE /\ fault = "none"

\* The whole of data or, if there is no room for it, nothing.
Pushed ==
  \E len \in 1..q.size :
    LET bytes == [i \in 0..len - 1 |-> (next + i) % Values]
        n == Smaller(q.size - q.back, len)
        first == [i \in 0..q.size - 1 |-> IF i \in q.back..q.back + n - 1 THEN bytes[i - q.back] ELSE q.data[i]]
        both == [i \in 0..q.size - 1 |-> IF i < len - n THEN bytes[n + i] ELSE first[i]]
        ok == len <= jd_bqueue_free_bytes
    IN  /\ q' = IF ~ok THEN q
                ELSE [q EXCEPT !.data = both, !.filled = @ + len,
                               !.back = IF len > n THEN len - n
                                        ELSE IF @ + n = q.size THEN 0 ELSE @ + n]
        /\ text' = IF ok THEN text \o [i \in 1..len |-> bytes[i - 1]] ELSE text
        /\ next' = IF ok THEN (next + len) % Values ELSE next
        /\ Quiet
        /\ UNCHANGED lent

\* At any time, also between two assignments of the other side.
jd_bqueue_push ==
  /\ raced' = (raced \/ step # "idle")
  /\ \/ Valid(q) /\ Pushed /\ UNCHANGED fault
     \/ ~Valid(q) /\ fault' = "panic" /\ UNCHANGED <<q, next, text, taken, lent>>
  /\ UNCHANGED step

jd_bqueue_pop_at_most ==
  \E n \in 0..q.size :
    /\ step = "idle" /\ lent = 0
    /\ q' = Popped(q, n).q
    /\ Hand(Popped(q, n).bytes, Smaller(n, Len(text)))
    /\ UNCHANGED <<next, lent, calls>>

jd_bqueue_pop_atomic ==
  \E n \in 1..q.size :
    /\ step = "idle" /\ lent = 0
    /\ IF q.filled >= n
       THEN q' = Popped(q, n).q /\ Hand(Popped(q, n).bytes, n)
       ELSE Quiet /\ UNCHANGED <<q, text>>
    /\ UNCHANGED <<next, lent, calls>>

jd_bqueue_pop_byte ==
  /\ step = "idle" /\ lent = 0
  /\ IF q.filled > 0
     THEN q' = jd_bqueue_cont_data_advance(q, 1) /\ Hand(Contiguous(q, 1), 1)
     ELSE Quiet /\ UNCHANGED <<q, text>>
  /\ UNCHANGED <<next, lent, calls>>

\* The consumer starts to read in place.
jd_bqueue_cont_data_ptr ==
  /\ step = "idle" /\ lent = 0
  /\ lent' \in 1..jd_bqueue_available_cont_data(q)
  /\ Quiet
  /\ UNCHANGED <<q, next, text, calls>>

\* It has read, and gives the bytes back in three steps: front moves, ...
ConsumeInPlace ==
  /\ step = "idle" /\ lent > 0
  /\ q' = FrontMoved(q, lent)
  /\ Hand(Contiguous(q, lent), lent)
  /\ step' = "front"
  /\ UNCHANGED <<next, lent, raced, fault>>

\* ... filled counts, ...
AdvanceFilled ==
  /\ step = "front"
  /\ q' = Counted(q, lent)
  /\ step' = "filled"
  /\ UNCHANGED <<next, text, taken, lent, raced, fault>>

\* ... and front wraps around, before the assertions.
AdvanceEnds ==
  /\ step = "filled"
  /\ q' = Wrapped(q)
  /\ lent' = 0
  /\ fault' = IF Valid(q') THEN fault ELSE "panic"
  /\ step' = "idle"
  /\ UNCHANGED <<next, text, taken, raced>>

\* filled = 0, then back = 0, then front = 0, and no assertion.
jd_bqueue_clear ==
  /\ step = "idle" /\ lent = 0
  /\ q' = [q EXCEPT !.filled = 0]
  /\ text' = <<>>
  /\ Quiet
  /\ step' = "emptied"
  /\ UNCHANGED <<next, lent, raced, fault>>

ClearBack ==
  /\ step = "emptied"
  /\ q' = [q EXCEPT !.back = 0]
  /\ step' = "reset"
  /\ UNCHANGED <<next, text, taken, lent, raced, fault>>

ClearFront ==
  /\ step = "reset"
  /\ q' = [q EXCEPT !.front = 0]
  /\ fault' = IF Valid(q') THEN fault ELSE "torn"
  /\ step' = "idle"
  /\ UNCHANGED <<next, text, taken, lent, raced>>

Next ==
  /\ fault = "none"
  /\ \/ jd_bqueue_push
     \/ jd_bqueue_pop_at_most
     \/ jd_bqueue_pop_atomic
     \/ jd_bqueue_pop_byte
     \/ jd_bqueue_cont_data_ptr
     \/ ConsumeInPlace \/ AdvanceFilled \/ AdvanceEnds
     \/ jd_bqueue_clear \/ ClearBack \/ ClearFront

Spec == Init /\ [][Next]_vars

-----------------------------------------------------------------------------
\* The ring is a queue of bytes: it holds what was pushed and not yet taken, in
\* order, whatever the pieces and the wraps; every operation hands out the oldest
\* bytes, as many as it promises; a lent piece is not overwritten; the
\* assertions of validate and available_cont_data hold.  A push in the middle of an
\* operation that is not masked may fail validate, but what passes validate is right.
BytesInOrder ==
  /\ taken.got = taken.due
  /\ fault # "none" => raced
  /\ step = "idle" /\ fault = "none" =>
       /\ Valid(q)
       /\ jd_bqueue_available_cont_data(q) <= q.filled
       /\ jd_bqueue_print(q) = text
       /\ lent > 0 => Contiguous(q, lent) = SubSeq(text, 1, lent)
=============================================================================
