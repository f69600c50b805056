------------------------------- MODULE JdFrame -------------------------------
(***************************************************************************)
(* Packets in a frame: jd_send (source/interfaces/tx_queue.c) and          *)
(* jd_push_in_frame (source/jd_util.c) put them together in tx_acc_buffer, *)
(* which is used again for the next frame; the receiver handles the first  *)
(* one and moves the others to the front with jd_shift_frame.              *)
(*                                                                         *)
(* A packet is four bytes of header, of which the first is the number of   *)
(* bytes of data, the data, and padding to a multiple of four.             *)
(***************************************************************************)
EXTENDS Integers, Sequences

CONSTANTS
  PAYLOAD,     \* JD_SERIAL_PAYLOAD_SIZE
  Sizes,       \* sizes of the data of a packet
  Bytes,       \* values of a byte of data
  MaxSent      \* packets sent in a behaviour

VARIABLES
  data, size,  \* of tx_acc_buffer
  pushed,      \* history: the packets in it
  sent,        \* packets sent so far
  rx,          \* the frame at the receiver: [data, size, packets], or NoRx
  handled      \* packets the receiver has handled

vars == <<data, size, pushed, sent, rx, handled>>

NoRx == [data |-> <<>>, size |-> 0, packets |-> <<>>]
MARK == 255
ALIGN(n) == ((n + 3) \div 4) * 4

Init ==
  /\ data = [i \in 0 .. PAYLOAD + 3 |-> 0] /\ size = 0 /\ pushed = <<>> /\ sent = 0
  /\ rx = NoRx /\ handled = <<>>

\* jd_push_in_frame and the copy of the data by jd_send; b is each byte of the data.
jd_push_in_frame(d, at, n, b) ==
  [i \in DOMAIN d |->
     CASE i = at -> n
       [] i \in at + 1 .. at + 3 -> 1
       [] i \in at + 4 .. at + 3 + n -> b
       [] OTHER -> d[i]]

jd_send(n, b) ==
  /\ rx = NoRx /\ sent < MaxSent
  /\ n + 4 <= PAYLOAD - size       \* otherwise SendFrame comes first
  /\ data' = jd_push_in_frame(data, size, n, b)
  /\ size' = size + ALIGN(n + 4)
  /\ pushed' = Append(pushed, [size |-> n, byte |-> b])
  /\ sent' = sent + 1
  /\ UNCHANGED <<rx, handled>>

PacketAt(d) == [size |-> d[0], byte |-> IF d[0] = 0 THEN 0 ELSE d[4]]

\* The frame is sent and received, and jd_reset_frame makes room for the next one.
SendFrame ==
  /\ rx = NoRx /\ size > 0
  /\ rx' = [data |-> data, size |-> size, packets |-> pushed]
  /\ handled' = <<PacketAt(data)>>
  /\ size' = 0 /\ pushed' = <<>>
  /\ UNCHANGED <<data, sent>>

\* Where the next packet is: after the first one or where the mark says; -1 if there is none.
NextPacket ==
  LET oldsz == rx.data[0] + 4
      marked == rx.data[oldsz] = MARK
      ptr == IF marked THEN rx.data[oldsz + 1] ELSE ALIGN(oldsz)
  IN  IF \/ ALIGN(oldsz) >= rx.size
         \/ marked /\ (ptr >= rx.size \/ ptr <= oldsz)
         \/ ptr + rx.data[ptr] + 4 > rx.size
      THEN -1 ELSE ptr

\* Mutant: the place of the packet after the next one is not rounded up.
ShiftedUnaligned(ptr) ==
  LET newsz == rx.data[ptr] + 4
      moved == [i \in DOMAIN rx.data |-> IF i < ((newsz + 3) \div 4) * 4 THEN rx.data[ptr + i] ELSE rx.data[i]]
  IN  [moved EXCEPT ![newsz] = MARK, ![newsz + 1] = ptr + newsz]

Shifted(ptr) ==
  LET newsz == rx.data[ptr] + 4
      moved == [i \in DOMAIN rx.data |->
                  IF i < ((newsz + 3) \div 4) * 4 THEN rx.data[ptr + i] ELSE rx.data[i]]
  IN  [moved EXCEPT ![newsz] = MARK, ![newsz + 1] = ptr + ALIGN(newsz)]

jd_shift_frame ==
  /\ rx # NoRx /\ NextPacket # -1
  /\ rx' = [rx EXCEPT !.data = Shifted(NextPacket)]
  /\ handled' = Append(handled, PacketAt(Shifted(NextPacket)))
  /\ UNCHANGED <<data, size, pushed, sent>>

\* jd_shift_frame returns 0, the receiver is done with the frame.
Done ==
  /\ rx # NoRx /\ NextPacket = -1
  /\ rx' = NoRx /\ handled' = <<>>
  /\ UNCHANGED <<data, size, pushed, sent>>

Next ==
  \/ \E n \in Sizes : \E b \in (IF n = 0 THEN {0} ELSE Bytes) : jd_send(n, b)
  \/ SendFrame \/ jd_shift_frame \/ Done

Spec == Init /\ [][Next]_vars

-----------------------------------------------------------------------------
(* Properties *)

(***************************************************************************)
(* The receiver takes a frame apart into the packets it was made of: when  *)
(* jd_shift_frame finds no more packets, all of them have been handled.    *)
(***************************************************************************)
EveryPacketHandled ==
  rx # NoRx =>
    /\ Len(handled) <= Len(rx.packets)
    /\ \A i \in 1 .. Len(handled) : handled[i] = rx.packets[i]
    /\ NextPacket = -1 => Len(handled) = Len(rx.packets)

=============================================================================
