------------------------------- MODULE JdPipe -------------------------------
(***************************************************************************)
(* A pipe: a stream of packets from one device (source/jd_opipe.c) to a    *)
(* port of another (source/jd_ipipe.c) over a bus that loses frames.       *)
(*                                                                         *)
(* The sender packs packets in a frame, sends it until the receiver's      *)
(* acknowledgement (its CRC, sent back by jd_services_process_frame)       *)
(* arrives, and gives up after JD_OPIPE_MAX_RETRIES copies and a grace     *)
(* period.  The receiver accepts the packet whose counter it expects.      *)
(*                                                                         *)
(* The CRC of a frame is its contents: the port, the counters and the      *)
(* kinds, all data being the same, so that only counters tell packets      *)
(* apart (collisions of the 16-bit CRC are left out).  A write and a write *)
(* of metadata differ in the handler they reach only.  retry_time may be   *)
(* past at any moment.  The bus and the queues at its ends keep the order  *)
(* of frames and may lose any of them.  A new port is never one that was   *)
(* in use before: jd_random picks one of 511.                              *)
(***************************************************************************)
EXTENDS Integers, Sequences, SequencesExt

CONSTANTS
  MAX_RETRIES, \* JD_OPIPE_MAX_RETRIES
  CounterMod,  \* JD_PIPE_COUNTER_MASK + 1
  FrameCap,    \* packets that fit in a frame
  MaxPorts,    \* bound: times jd_ipipe_open is called
  MaxPackets,  \* bound: packets written to a pipe, the closing one not counted
  MaxTransit   \* bound: frames on their way in one direction

(***************************************************************************)
(* jd_opipe_write accepts packets with no data, 59 of which fit in a       *)
(* frame; the counter has 32 values.  A pipe delivers exactly once only if *)
(* its user keeps the packets of a frame below that number.                *)
(***************************************************************************)
ASSUME ConstantsAssumption ==
  /\ {MAX_RETRIES, CounterMod, FrameCap, MaxPorts, MaxPackets, MaxTransit} \subseteq Nat \ {0}
  /\ FrameCap < CounterMod

VARIABLES
  (* jd_opipe_desc_t of the sender *)
  ostatus, oport, ocounter, curr_retry, oframe,
  (* jd_ipipe_desc_t of the receiver; port 0: the pipe is free *)
  iport, icounter,
  handling,   \* the rest of the frame jd_services_process_frame is going through
  (* the bus *)
  toReceiver, \* frames
  toSender,   \* acknowledgements
  (* history *)
  ports,      \* ports opened so far
  written,    \* written[p]: kinds of the packets written to port p
  delivered,  \* delivered[p]: what the handlers of port p were given
  abandoned   \* ports the receiver freed by itself

ovars == <<ostatus, oport, ocounter, curr_retry, oframe>>
ivars == <<iport, icounter, handling>>
vars == <<ovars, ivars, toReceiver, toSender, ports, written, delivered, abandoned>>

Ports == 1 .. MaxPorts
Kinds == {"data", "close"}
Statuses == {"FREE", "OPEN", "CLOSED_UNSENT", "CLOSED_WAITING", "DROPPED"}

\* A packet: its counter, its kind and, for the history, its place in the stream.
Packet == [c : 0 .. CounterMod - 1, k : Kinds, i : Nat]
Frame == [port : Ports \cup {0}, pkts : Seq(Packet)]

NoFrame == [port |-> 0, pkts |-> <<>>]

crc(f) == [port |-> f.port, pkts |-> [j \in DOMAIN f.pkts |-> <<f.pkts[j].c, f.pkts[j].k>>]]

NextCounter(c) == (c + 1) % CounterMod

Init ==
  /\ ostatus = "FREE" /\ oport = 0 /\ ocounter = 0 /\ curr_retry = 0 /\ oframe = <<>>
  /\ iport = 0 /\ icounter = 0 /\ handling = NoFrame
  /\ toReceiver = <<>> /\ toSender = <<>>
  /\ ports = 0
  /\ written = [p \in Ports |-> <<>>]
  /\ delivered = [p \in Ports |-> <<>>]
  /\ abandoned = {}

\* The bus takes a message, or loses it; it holds at most MaxTransit.
Sent(chan, m) == {chan} \cup (IF Len(chan) < MaxTransit THEN {Append(chan, m)} ELSE {})

-----------------------------------------------------------------------------
(* The sender. *)

\* jd_opipe_open with the port the receiver has announced; a pipe in use is unlinked first.
Open ==
  /\ iport > oport
  /\ ostatus' = "OPEN" /\ oport' = iport /\ ocounter' = 0 /\ curr_retry' = 0 /\ oframe' = <<>>
  /\ UNCHANGED <<ivars, toReceiver, toSender, ports, written, delivered, abandoned>>

\* jd_push_in_frame and the new counter, of jd_opipe_write_ex.
Push(frame, k) ==
  /\ oframe' = Append(frame, [c |-> ocounter, k |-> k, i |-> Len(written[oport]) + 1])
  /\ ocounter' = NextCounter(ocounter)
  /\ written' = [written EXCEPT ![oport] = Append(@, k)]

\* jd_opipe_write and jd_opipe_write_meta, when jd_opipe_check_space says OK.
Write ==
  /\ ostatus = "OPEN" /\ curr_retry = 0 /\ Len(oframe) < FrameCap
  /\ Len(written[oport]) < MaxPackets
  /\ Push(oframe, "data")
  /\ UNCHANGED <<ostatus, oport, curr_retry, ivars, toReceiver, toSender, ports, delivered, abandoned>>

\* jd_opipe_flush, or a write too long for the rest of the frame: do_flush.
Flush ==
  /\ ostatus = "OPEN" /\ curr_retry = 0 /\ oframe # <<>>
  /\ curr_retry' = 1
  /\ UNCHANGED <<ostatus, oport, ocounter, oframe, ivars, toReceiver, toSender, ports,
                 written, delivered, abandoned>>

(***************************************************************************)
(* jd_opipe_send_close_pkt, with curr_retry and the frame as given: a      *)
(* frame is on its way, the closing packet fits and is sent, or it does    *)
(* not and the frame is flushed first.                                     *)
(***************************************************************************)
SendClosePkt(retry, frame) ==
  \/ /\ retry # 0
     /\ ostatus' = "CLOSED_UNSENT" /\ curr_retry' = retry /\ oframe' = frame
     /\ UNCHANGED <<ocounter, written>>
  \/ /\ retry = 0 /\ Len(frame) < FrameCap
     /\ Push(frame, "close")
     /\ ostatus' = "CLOSED_WAITING" /\ curr_retry' = 1
  \/ /\ retry = 0 /\ frame # <<>>
     /\ ostatus' = "CLOSED_UNSENT" /\ curr_retry' = 1 /\ oframe' = frame
     /\ UNCHANGED <<ocounter, written>>

\* jd_opipe_close
Close ==
  /\ \/ /\ ostatus = "DROPPED"
        /\ ostatus' = "FREE" /\ ocounter' = 0 /\ curr_retry' = 0 /\ oframe' = <<>>
        /\ UNCHANGED written
     \/ ostatus \in {"OPEN", "CLOSED_UNSENT"} /\ SendClosePkt(curr_retry, oframe)
  /\ UNCHANGED <<oport, ivars, toReceiver, toSender, ports, delivered, abandoned>>

\* Mutant: the grace period is started again and again.
ProcessGraceForever ==
  /\ curr_retry # 0 /\ curr_retry <= MAX_RETRIES
  /\ curr_retry' = curr_retry + 1
  /\ toReceiver' \in Sent(toReceiver, [port |-> oport, pkts |-> oframe])
  /\ UNCHANGED <<ostatus, oport, ocounter, oframe, ivars, toSender, ports, written, delivered,
                 abandoned>>

\* jd_opipe_process, once retry_time is past; a frame jd_send_frame refuses is tried again.
Process ==
  /\ curr_retry # 0 /\ ostatus # "DROPPED"
  /\ IF curr_retry <= MAX_RETRIES + 1
     THEN curr_retry' = curr_retry + 1 /\ UNCHANGED ostatus
     ELSE ostatus' = "DROPPED" /\ UNCHANGED curr_retry
  /\ toReceiver' \in IF curr_retry <= MAX_RETRIES
                     THEN Sent(toReceiver, [port |-> oport, pkts |-> oframe])
                     ELSE {toReceiver}
  /\ UNCHANGED <<oport, ocounter, oframe, ivars, toSender, ports, written, delivered, abandoned>>

\* Mutant: any acknowledgement of the receiver is taken for the current frame's.
AckMatchesAny(a) == curr_retry # 0

\* Is the acknowledgement for the frame on its way?
AckMatches(a) == curr_retry # 0 /\ a = crc([port |-> oport, pkts |-> oframe])

\* jd_opipe_handle_packet
HandleAck ==
  /\ toSender # <<>>
  /\ toSender' = Tail(toSender)
  /\ \/ ~ AckMatches(Head(toSender)) /\ UNCHANGED <<ovars, written>>
     \/ /\ AckMatches(Head(toSender))
        /\ \/ /\ ostatus \in {"OPEN", "DROPPED"}
              /\ curr_retry' = 0 /\ oframe' = <<>>
              /\ UNCHANGED <<ostatus, ocounter, written>>
           \/ /\ ostatus = "CLOSED_WAITING"
              /\ ostatus' = "FREE" /\ ocounter' = 0 /\ curr_retry' = 0 /\ oframe' = <<>>
              /\ UNCHANGED written
           \/ ostatus = "CLOSED_UNSENT" /\ SendClosePkt(0, <<>>)
        /\ UNCHANGED oport
  /\ UNCHANGED <<ivars, toReceiver, ports, delivered, abandoned>>

-----------------------------------------------------------------------------
(* The receiver. *)

\* jd_ipipe_free of a pipe in use
Freed == IF iport = 0 THEN abandoned ELSE abandoned \cup {iport}

\* jd_ipipe_open
IOpen ==
  /\ ports < MaxPorts
  /\ ports' = ports + 1 /\ iport' = ports + 1 /\ icounter' = 0
  /\ abandoned' = Freed
  /\ UNCHANGED <<ovars, handling, toReceiver, toSender, written, delivered>>

\* jd_ipipe_close, or a restart of the device
IClose ==
  /\ iport # 0
  /\ iport' = 0 /\ icounter' = 0
  /\ abandoned' = Freed
  /\ UNCHANGED <<ovars, handling, toReceiver, toSender, ports, written, delivered>>

\* jd_services_process_frame acknowledges the frame before it looks at the packets.
ReceiveFrame ==
  /\ toReceiver # <<>> /\ handling.pkts = <<>>
  /\ toReceiver' = Tail(toReceiver)
  /\ toSender' \in Sent(toSender, crc(Head(toReceiver)))
  /\ handling' = Head(toReceiver)
  /\ UNCHANGED <<ovars, iport, icounter, ports, written, delivered, abandoned>>

\* Mutant: the counter is not looked at.
ExpectedAny(pkt) == iport # 0 /\ iport = handling.port

\* Is this the packet the pipe expects?
Expected(pkt) == iport # 0 /\ iport = handling.port /\ icounter = pkt.c

\* jd_ipipe_handle_packet on one packet of the frame; a closing packet frees the pipe.
ReceivePacket ==
  /\ handling.pkts # <<>>
  /\ LET pkt == Head(handling.pkts) IN
     \/ ~ Expected(pkt) /\ UNCHANGED <<iport, icounter, delivered>>
     \/ /\ Expected(pkt)
        /\ delivered' = [delivered EXCEPT ![iport] = Append(@, <<pkt.i, pkt.k>>)]
        /\ IF pkt.k = "close"
           THEN iport' = 0 /\ icounter' = 0
           ELSE iport' = iport /\ icounter' = NextCounter(icounter)
  /\ handling' = [handling EXCEPT !.pkts = Tail(@)]
  /\ UNCHANGED <<ovars, toReceiver, toSender, ports, written, abandoned>>

-----------------------------------------------------------------------------
Next ==
  \/ Open
  \/ Write
  \/ Flush
  \/ Close
  \/ Process
  \/ HandleAck
  \/ IOpen
  \/ IClose
  \/ ReceiveFrame
  \/ ReceivePacket

\* The main loop calls jd_opipe_process over and over, whatever else happens.
Spec == Init /\ [][Next]_vars /\ WF_vars(Process)

-----------------------------------------------------------------------------
(* Properties *)

\* Types of the two descriptors, the bus and the history.
TypeOK ==
  /\ ostatus \in Statuses /\ oport \in Ports \cup {0} /\ ocounter \in 0 .. CounterMod - 1
  /\ curr_retry \in 0 .. MAX_RETRIES + 2
  /\ oframe \in Seq(Packet) /\ Len(oframe) <= FrameCap
  /\ iport \in Ports \cup {0} /\ icounter \in 0 .. CounterMod - 1 /\ handling \in Frame
  /\ toReceiver \in Seq(Frame) /\ Len(toReceiver) <= MaxTransit /\ Len(toSender) <= MaxTransit
  /\ ports \in 0 .. MaxPorts
  /\ \A p \in Ports : written[p] \in Seq(Kinds) /\ delivered[p] \in Seq(Nat \X Kinds)
  /\ abandoned \subseteq Ports

(***************************************************************************)
(* Whatever is lost, sent twice or acknowledged late, the handlers of      *)
(* jd_ipipe.c are given the packets written to the pipe in order, each     *)
(* once and none skipped, and no counter or buffer leaves its range.       *)
(***************************************************************************)
ExactlyOnceInOrder ==
  /\ TypeOK
  /\ \A p \in Ports :
       /\ Len(delivered[p]) <= Len(written[p])
       /\ \A j \in 1 .. Len(delivered[p]) : delivered[p][j] = <<j, written[p][j]>>

\* The packets written to a port and not yet given to its handlers.
Outstanding(p) == Len(delivered[p]) + 1 .. Len(written[p])
Carries(pkts, i) == \E j \in DOMAIN pkts : pkts[j].i = i
BeingHandled(p, i) == handling.port = p /\ Carries(handling.pkts, i)

(***************************************************************************)
(* jd_opipe_handle_packet empties the frame only when the receiver has the *)
(* packets: what is written and not handled is in the frame the sender     *)
(* still holds, or in the one the receiver is going through, unless the    *)
(* receiver has freed the pipe.                                            *)
(***************************************************************************)
NothingForgotten ==
  oport \notin abandoned \cup {0} /\ ostatus # "FREE" =>
    \A i \in Outstanding(oport) : Carries(oframe, i) \/ BeingHandled(oport, i)

(***************************************************************************)
(* A pipe jd_opipe_close has closed becomes free, other than by giving up, *)
(* only when the receiver has handled, or is going through, every packet   *)
(* up to and with the closing one.                                         *)
(***************************************************************************)
FreeMeansDelivered ==
  [][ostatus = "CLOSED_WAITING" /\ ostatus' = "FREE" /\ oport \notin abandoned =>
       /\ "close" \in Range(written[oport])
       /\ \A i \in Outstanding(oport) : BeingHandled(oport, i)]_vars

(***************************************************************************)
(* One call of jd_opipe_close is enough: the closing packet is sent when   *)
(* its turn comes and the pipe is freed or dropped, whatever the bus does. *)
(***************************************************************************)
Closing == ostatus \in {"CLOSED_UNSENT", "CLOSED_WAITING"}
CloseEnds == Closing ~> ~ Closing

\* A close (jd_opipe_close) ends, and ends with everything delivered unless the
\* sender gave up.
CloseDelivers == FreeMeansDelivered /\ CloseEnds

=============================================================================
