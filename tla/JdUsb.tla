------------------------------- MODULE JdUsb -------------------------------
(***************************************************************************)
(* The USB bridge of source/jd_usb.c: frames are queued by interrupt       *)
(* handlers and the main loop, pulled by the USB driver in chunks together *)
(* with the text of the console buffer (source/jd_dmesg.c), and taken      *)
(* apart by jd_usb_push on the other side.  A chunk may be lost.           *)
(*                                                                         *)
(* A frame is a sequence of bytes, its first and its last telling which    *)
(* one it is; the check sum accepts the frames of Frames and nothing else. *)
(* The queue is an ideal bounded one (see JdQueue).                        *)
(***************************************************************************)
EXTENDS Naturals, Sequences, FiniteSets, SequencesExt

CONSTANTS
  Frames,       \* a set of sequences of bytes
  Text,         \* what is printed on the console, a sequence of bytes
  CHUNK,        \* 64: bytes of a USB packet, the space of jd_usb_pull
  SERIAL,       \* 64: sizeof(serial_buf)
  QUEUE,        \* frames the queue can hold
  RXMAX,        \* sizeof(usb_rx_buf)
  LOG,          \* JD_DMESG_BUFFER_SIZE
  MaxFrames, MaxLost

\* JD_USB_BRIDGE_QBYTE_*
M == "M"
START == "S"
END == "E"
LITERAL == "L"
GAP == "G"

VARIABLES
  usb_queue, usb_frame_ptr, usb_frame_gap, usb_panic_mode, usb_fwd_en,
  serial_buf,      \* the bytes from serial_buf_ptr on
  dst, pulling,    \* the chunk being filled; is jd_usb_pull running, and where?
  usb_rx_buf, usb_rx_state, usb_rx_was_magic,
  log, log_ptr,    \* codalLogStore
  dmesg_ptr,       \* how far the bridge has read it
  line,            \* the chunk on its way
  accepted, dropped, printed, lost, hit,   \* history: frames queued, frames refused, ...
  gaps, got, serial                        \* history: what the other side has received

vars == <<usb_queue, usb_frame_ptr, usb_frame_gap, usb_panic_mode, usb_fwd_en, serial_buf, dst,
          pulling, usb_rx_buf, usb_rx_state, usb_rx_was_magic, log, log_ptr, dmesg_ptr, line,
          accepted, dropped, printed, lost, hit, gaps, got, serial>>
rx == <<usb_rx_buf, usb_rx_state, usb_rx_was_magic, got, serial, gaps>>
tx == <<usb_queue, usb_frame_ptr, usb_frame_gap, serial_buf, dst, pulling, dmesg_ptr>>
console == <<log, log_ptr, printed>>
history == <<accepted, dropped, lost, hit>>

Init ==
  /\ usb_queue = <<>> /\ usb_frame_ptr = 0 /\ usb_frame_gap = 0
  /\ usb_panic_mode = 0 /\ usb_fwd_en = TRUE
  /\ serial_buf = <<>> /\ dst = <<>> /\ pulling = "no"
  /\ usb_rx_buf = <<>> /\ usb_rx_state = FALSE /\ usb_rx_was_magic = FALSE
  /\ log = [i \in 0 .. LOG - 1 |-> "0"] /\ log_ptr = 0 /\ dmesg_ptr = 0
  /\ line = <<>> /\ accepted = <<>> /\ dropped = 0 /\ printed = 0
  /\ lost = 0 /\ hit = {} /\ gaps = 0 /\ got = <<>> /\ serial = <<>>

-----------------------------------------------------------------------------
(* Sending *)

\* jd_usb_send_frame, also from an interrupt while jd_usb_pull runs.
jd_usb_send_frame ==
  /\ usb_fwd_en /\ Len(accepted) + dropped < MaxFrames
  /\ IF Len(usb_queue) < QUEUE
     THEN /\ \E f \in Frames \ ToSet(accepted) :
               usb_queue' = Append(usb_queue, f) /\ accepted' = Append(accepted, f)
          /\ usb_frame_gap' = IF usb_frame_gap = 2 THEN 0 ELSE usb_frame_gap
          /\ dropped' = dropped
     ELSE /\ usb_frame_gap' = IF usb_frame_gap = 0 THEN 1 ELSE usb_frame_gap
          /\ dropped' = dropped + 1
          /\ UNCHANGED <<usb_queue, accepted>>
  /\ UNCHANGED <<usb_frame_ptr, usb_panic_mode, usb_fwd_en, serial_buf, dst, pulling, dmesg_ptr,
                 line, rx, console, lost, hit>>

SPACE == CHUNK - Len(dst)
Put(bytes) == dst' = dst \o bytes
Escaped(b) == IF b = M THEN <<M, LITERAL>> ELSE <<b>>
quiet == <<usb_panic_mode, usb_fwd_en, line, rx, console, history>>

\* jd_usb_pull begins; in panic mode it returns the text of the panic.
jd_usb_pull ==
  /\ pulling = "no" /\ line = <<>>
  /\ IF usb_panic_mode = 0
     THEN pulling' = "gap" /\ dst' = <<>> /\ UNCHANGED <<serial_buf, line>>
     ELSE /\ usb_panic_mode = 1 /\ serial_buf # <<>>
          /\ line' = serial_buf /\ serial_buf' = <<>> /\ UNCHANGED <<dst, pulling>>
  /\ UNCHANGED <<usb_queue, usb_frame_ptr, usb_frame_gap, usb_panic_mode, usb_fwd_en, dmesg_ptr,
                 rx, console, history>>

PullGap ==
  /\ pulling = "gap"
  /\ IF usb_frame_gap = 1 /\ usb_frame_ptr = 0 /\ SPACE >= 2
     THEN usb_frame_gap' = 2 /\ Put(<<M, GAP>>)
     ELSE UNCHANGED <<usb_frame_gap, dst>>
  /\ pulling' = "front"
  /\ UNCHANGED <<usb_queue, usb_frame_ptr, serial_buf, dmesg_ptr, quiet>>

PullFront ==
  /\ pulling = "front"
  /\ LET stop == usb_queue = <<>> \/ (usb_frame_ptr = 0 /\ SPACE < 4)
     IN  /\ pulling' = IF stop THEN "text" ELSE "frame"
         /\ IF ~ stop /\ usb_frame_ptr = 0 THEN Put(<<M, START>>) ELSE UNCHANGED dst
  /\ UNCHANGED <<usb_queue, usb_frame_ptr, usb_frame_gap, serial_buf, dmesg_ptr, quiet>>

\* A byte of the frame, or the chunk is full: too full for the text as well.
PullByte ==
  LET f == Head(usb_queue) IN
  /\ pulling = "frame" /\ usb_frame_ptr < Len(f)
  /\ LET b == Escaped(f[usb_frame_ptr + 1]) IN
     IF SPACE >= Len(b)
     THEN Put(b) /\ usb_frame_ptr' = usb_frame_ptr + 1 /\ UNCHANGED pulling
     ELSE /\ pulling' = IF SPACE < 1 THEN "return" ELSE "text"
          /\ UNCHANGED <<dst, usb_frame_ptr>>
  /\ UNCHANGED <<usb_queue, usb_frame_gap, serial_buf, dmesg_ptr, quiet>>

PullEnd ==
  /\ pulling = "frame" /\ usb_frame_ptr = Len(Head(usb_queue))
  /\ IF SPACE >= 2
     THEN /\ Put(<<M, END>>) /\ usb_frame_ptr' = 0
          /\ usb_queue' = Tail(usb_queue) /\ pulling' = "gap"
     ELSE pulling' = "text" /\ UNCHANGED <<dst, usb_frame_ptr, usb_queue>>
  /\ UNCHANGED <<usb_frame_gap, serial_buf, dmesg_ptr, quiet>>

jd_dmesg_read(space, ptr) ==
  LET from == IF ptr >= LOG THEN 0 ELSE ptr
      avail == (IF log_ptr < from THEN LOG ELSE log_ptr) - from
      n == IF avail > space THEN space ELSE avail
  IN  [bytes |-> [i \in 1 .. n |-> log[from + i - 1]], state |-> from + n]

PullText ==
  /\ pulling = "text"
  /\ IF SPACE >= 2 /\ usb_panic_mode = 0
     THEN LET r == IF serial_buf = <<>> THEN jd_dmesg_read(SERIAL, dmesg_ptr)
                   ELSE [bytes |-> serial_buf, state |-> dmesg_ptr]
          IN  /\ dmesg_ptr' = r.state
              /\ IF r.bytes = <<>>
                 THEN pulling' = "return" /\ UNCHANGED <<serial_buf, dst>>
                 ELSE /\ Put(Escaped(Head(r.bytes))) /\ serial_buf' = Tail(r.bytes)
                      /\ UNCHANGED pulling
     ELSE pulling' = "return" /\ UNCHANGED <<serial_buf, dst, dmesg_ptr>>
  /\ UNCHANGED <<usb_queue, usb_frame_ptr, usb_frame_gap, quiet>>

PullReturn ==
  /\ pulling = "return"
  /\ line' = dst /\ dst' = <<>> /\ pulling' = "no"
  /\ UNCHANGED <<usb_queue, usb_frame_ptr, usb_frame_gap, usb_panic_mode, usb_fwd_en, serial_buf,
                 dmesg_ptr, rx, console, history>>

\* The chunk is lost on the way: every frame it held a part of is hit.
Lose ==
  /\ pulling = "return" /\ lost < MaxLost /\ lost' = lost + 1
  /\ LET ended == Len(accepted) - Len(usb_queue)
         ends == {i \in 1 .. Len(dst) - 1 : dst[i] = M /\ dst[i + 1] = END}
     IN  hit' = hit \cup (ended - Cardinality(ends) + 1 .. ended + (IF usb_frame_ptr > 0 THEN 1 ELSE 0))
  /\ dst' = <<>> /\ pulling' = "no"
  /\ UNCHANGED <<usb_queue, usb_frame_ptr, usb_frame_gap, usb_panic_mode, usb_fwd_en, serial_buf,
                 dmesg_ptr, line, rx, console, accepted, dropped>>

(***************************************************************************)
(* jd_dmesg_write: the text goes round in the buffer and ends with a NUL.  *)
(* Here it is written only when the bridge has read enough of it: a reader *)
(* that is overrun misses text and is not told.                            *)
(***************************************************************************)
Unread == printed - Len(serial)
jd_dmesg_write(len) ==
  /\ printed + len <= Len(Text) /\ Unread + len < LOG
  /\ LET space == LOG - log_ptr
         wrap == space < len + 1
         at == IF wrap THEN len - space ELSE log_ptr + len
         written == [i \in 0 .. LOG - 1 |->
                       LET k == IF wrap /\ i < log_ptr THEN i + LOG - log_ptr ELSE i - log_ptr
                       IN  IF k \in 0 .. len - 1 /\ (i >= log_ptr \/ wrap) THEN Text[printed + k + 1]
                           ELSE log[i]]
     IN  log' = [written EXCEPT ![at] = "0"] /\ log_ptr' = at
  /\ printed' = printed + len
  /\ UNCHANGED <<tx, usb_panic_mode, usb_fwd_en, line, rx, history>>

(***************************************************************************)
(* jd_usb_panic_print_char up to the end of the line: a panic may come at  *)
(* any time; the end marker closes the frame that may be under way.  The   *)
(* panic handler gives up when nobody pulls.                               *)
(***************************************************************************)
jd_usb_panic ==
  /\ usb_panic_mode = 0
  /\ usb_panic_mode' = 1 /\ usb_fwd_en' = FALSE
  /\ serial_buf' = <<M, END, "p">>
  /\ pulling' = "no" /\ dst' = <<>>       \* the main loop and its interrupts have stopped
  /\ UNCHANGED <<usb_queue, usb_frame_ptr, usb_frame_gap, dmesg_ptr, line, rx, console, history>>

PanicGivesUp ==
  /\ usb_panic_mode = 1 /\ serial_buf # <<>>
  /\ usb_panic_mode' = 2 /\ serial_buf' = <<>>
  /\ UNCHANGED <<usb_queue, usb_frame_ptr, usb_frame_gap, usb_fwd_en, dst, pulling, dmesg_ptr,
                 line, rx, console, history>>

-----------------------------------------------------------------------------
(* Receiving *)

frame_error == usb_rx_state' = FALSE /\ serial' = serial \o usb_rx_buf /\ usb_rx_buf' = <<>>

\* jd_usb_handle_frame: the size and the check sum are right only for a whole frame.
jd_usb_handle_frame ==
  got' = IF usb_rx_buf \in Frames THEN Append(got, usb_rx_buf) ELSE got

Deliver(c) ==
  IF usb_rx_state
  THEN IF Len(usb_rx_buf) >= RXMAX THEN frame_error
       ELSE usb_rx_buf' = Append(usb_rx_buf, c) /\ UNCHANGED <<usb_rx_state, serial>>
  ELSE serial' = Append(serial, c) /\ UNCHANGED <<usb_rx_buf, usb_rx_state>>

\* Mutant: a start marker in the middle of a frame does not end it.
QuotedNested(c) ==
  /\ usb_rx_was_magic' = FALSE
  /\ CASE c = LITERAL -> Deliver(M) /\ UNCHANGED <<got, gaps>>
       [] c = START -> usb_rx_state' = TRUE /\ UNCHANGED <<usb_rx_buf, serial, got, gaps>>
       [] c = END -> /\ IF usb_rx_state
                        THEN jd_usb_handle_frame /\ usb_rx_state' = FALSE /\ usb_rx_buf' = <<>>
                        ELSE UNCHANGED <<got, usb_rx_state, usb_rx_buf>>
                     /\ UNCHANGED <<serial, gaps>>
       [] c = GAP -> gaps' = gaps + 1 /\ UNCHANGED <<usb_rx_buf, usb_rx_state, serial, got>>
       [] OTHER -> Deliver(c) /\ UNCHANGED <<got, gaps>>

\* A byte after the magic one.
Quoted(c) ==
  /\ usb_rx_was_magic' = FALSE
  /\ CASE c = LITERAL -> Deliver(M) /\ UNCHANGED <<got, gaps>>
       [] c = START -> /\ serial' = serial \o usb_rx_buf /\ usb_rx_buf' = <<>>
                       /\ usb_rx_state' = TRUE /\ UNCHANGED <<got, gaps>>
       [] c = END -> /\ IF usb_rx_state
                        THEN jd_usb_handle_frame /\ usb_rx_state' = FALSE /\ usb_rx_buf' = <<>>
                        ELSE UNCHANGED <<got, usb_rx_state, usb_rx_buf>>
                     /\ UNCHANGED <<serial, gaps>>
       [] c = GAP -> gaps' = gaps + 1 /\ UNCHANGED <<usb_rx_buf, usb_rx_state, serial, got>>
       [] OTHER -> /\ serial' = (IF usb_rx_state THEN serial \o usb_rx_buf ELSE serial) \o <<M, c>>
                   /\ usb_rx_state' = FALSE
                   /\ usb_rx_buf' = (IF usb_rx_state THEN <<>> ELSE usb_rx_buf)
                   /\ UNCHANGED <<got, gaps>>

\* jd_usb_push, one byte
jd_usb_push ==
  /\ line # <<>>
  /\ line' = Tail(line)
  /\ LET c == Head(line) IN
     IF usb_rx_was_magic
     THEN IF c = M
          THEN /\ IF usb_rx_state THEN frame_error
                  ELSE serial' = Append(serial, c) /\ UNCHANGED <<usb_rx_buf, usb_rx_state>>
               /\ UNCHANGED <<usb_rx_was_magic, got, gaps>>
          ELSE Quoted(c)
     ELSE IF c = M
          THEN usb_rx_was_magic' = TRUE /\ UNCHANGED <<usb_rx_buf, usb_rx_state, got, serial, gaps>>
          ELSE Deliver(c) /\ UNCHANGED <<usb_rx_was_magic, got, gaps>>
  /\ UNCHANGED <<tx, usb_panic_mode, usb_fwd_en, console, history>>

Next ==
  \/ jd_usb_send_frame \/ jd_usb_pull \/ PullGap \/ PullFront \/ PullByte \/ PullEnd \/ PullText
  \/ PullReturn \/ Lose \/ \E n \in 1 .. 2 : jd_dmesg_write(n)
  \/ jd_usb_panic \/ PanicGivesUp \/ jd_usb_push

Spec == Init /\ [][Next]_vars

-----------------------------------------------------------------------------
(* Properties *)

Idle == usb_queue = <<>> /\ line = <<>> /\ pulling = "no"

\* Frame i that came is the one accepted as at[i]; one that did not come was hit, or is
\* still to come.
FramesIntact ==
  \E at \in [1 .. Len(got) -> 1 .. Len(accepted)] :
    /\ \A i \in DOMAIN at : got[i] = accepted[at[i]] /\ \A j \in 1 .. i - 1 : at[j] < at[i]
    /\ \A k \in (1 .. Len(accepted)) \ {at[i] : i \in DOMAIN at} :
         k \in hit \/ (~ (Idle /\ usb_panic_mode = 0) /\ \A i \in DOMAIN at : at[i] < k)

TextIntact ==
  lost = 0 /\ usb_panic_mode = 0 => IsPrefix(serial, SubSeq(Text, 1, printed))

GapMarked ==
  dropped > 0 /\ usb_frame_gap = 0 /\ lost = 0 /\ Idle /\ usb_panic_mode = 0 => gaps > 0

(***************************************************************************)
(* The other side gets the frames whole and in order, however they are cut *)
(* into chunks and mixed with text, and after the loss of a chunk it finds *)
(* its way back: only frames the chunk held a part of are missing.  Text   *)
(* comes out as it was printed, and a refused frame is marked by a gap.    *)
(***************************************************************************)
BridgeDelivers == FramesIntact /\ TextIntact /\ GapMarked

=============================================================================
