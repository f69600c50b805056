------------------------------ MODULE JdDispatch ------------------------------
(***************************************************************************)
(* The services of a device (source/jd_services.c): how the table of them  *)
(* is made, how it is announced, and how the packets of a frame get to the *)
(* services they are meant for, past the filter that the interrupt handler *)
(* applies (source/interfaces/simple_rx.c); and whether a brain, which is  *)
(* a client, is there.                                                     *)
(*                                                                         *)
(* A frame is [cmd, to, pkts]; it goes to a device or, as a broadcast, to  *)
(* a class of services.  A packet is [idx, what]: the announcement of a    *)
(* client, a query for the name or the variant of a service, or something  *)
(* else.  The clock has W values.                                          *)
(***************************************************************************)
EXTENDS Integers, Sequences, SequencesExt

CONSTANTS Classes,    \* classes of services; "control" is the first service's
          MAX,        \* JD_MAX_SERVICES
          Frames,     \* the frames that come
          W,
          TIMEOUT,    \* how long a brain may be silent: 2 << 20
          STEADY,     \* JD_CONTROL_ANNOUNCE_FLAGS_RESTART_COUNTER_STEADY
          COUNTER,    \* values of packets_sent
          SLACK,      \* the longest time between two turns of the main loop
          MaxTime,    \* bound: how long a behaviour is
          MaxSent     \* bound: how many packets are sent

VARIABLES build,      \* [all]: JD_CLIENT or JD_PIPES is set; [variant]: services that have one
          services,   \* classes, service 0 first
          phase,      \* "init", "run" or "panic"
          rx,         \* frames kept for the main loop, at most one
          counters,   \* reset_counter and packets_sent
          brain,      \* lastMax, 0 for none; glow: what was last shown of it
          time,       \* the time that has passed; now is time % W
          seen        \* history: packets queued, announced; when the brain was heard; the
                      \* time of the last turn

vars == <<build, services, phase, rx, counters, brain, time, seen>>

now == time % W
is_before(a, b) == (b - a) % W < W \div 2
in_past(moment) == is_before(moment, now)

-----------------------------------------------------------------------------
(* Setting up.                                                             *)

Init ==
  /\ build \in [all : BOOLEAN, variant : SUBSET {1}]
  /\ services = <<"control">> /\ phase = "init" /\ rx = <<>>
  /\ counters = [reset |-> 0, sent |-> 0]
  /\ brain = [lastMax |-> 0, glow |-> "none"]
  /\ time = W - 3
  /\ seen = [queued |-> 0, announced |-> 0, heard |-> time, turn |-> time]

jd_allocate_service(c) ==
  /\ phase = "init"
  /\ IF Len(services) >= MAX THEN phase' = "panic" /\ UNCHANGED services
     ELSE services' = Append(services, c) /\ UNCHANGED phase
  /\ UNCHANGED <<build, rx, counters, brain, time, seen>>

\* The end of it; a brain is taken to be there.
jd_services_init ==
  /\ phase = "init"
  /\ phase' = "run"
  /\ brain' = [brain EXCEPT !.lastMax = now]
  /\ UNCHANGED <<build, services, rx, counters, time, seen>>

-----------------------------------------------------------------------------
(* Frames.                                                                 *)

is_client_announce(p) == p.idx = 0 /\ p.what = "announce"
Broadcast(f) == f.to \in Classes \cup {"control"}

\* In the interrupt handler, from the first packet.
jd_services_needs_frame(f) ==
  IF f.cmd THEN Broadcast(f) \/ f.to = "self" ELSE build.all \/ is_client_announce(f.pkts[1])

jd_rx_frame_received(f) ==
  /\ phase # "panic" /\ rx = <<>>
  /\ jd_services_needs_frame(f)
  /\ rx' = <<f>>
  /\ UNCHANGED <<build, services, phase, counters, brain, time, seen>>

\* One packet, the k-th of its frame.  st is [brain, handled, replies, heard].
handle_ctrl_tick(st, p) ==
  IF ~ is_client_announce(p) THEN st
  ELSE [st EXCEPT !.brain = [lastMax |-> now, glow |-> "connected"], !.heard = time]

jd_services_handle_packet(f, st, k) ==
  LET p == f.pkts[k]
      ofClass == SelectSeq([i \in DOMAIN services |-> i - 1], LAMBDA i : services[i + 1] = f.to)
  IN  CASE ~ f.cmd -> handle_ctrl_tick(st, p)
        [] f.cmd /\ f.to = "self" /\ p.idx < Len(services) ->
             IF p.what = "name" \/ (p.what = "variant" /\ p.idx \in build.variant)
             THEN [st EXCEPT !.replies = @ + 1]
             ELSE [st EXCEPT !.handled = Append(@, <<p.idx, k>>)]
        [] f.cmd /\ Broadcast(f) ->
             [st EXCEPT !.handled = @ \o [j \in DOMAIN ofClass |-> <<ofClass[j], k>>]]
        [] OTHER -> st

jd_services_process_frame(f, st) ==
  FoldLeft(LAMBDA s, k : jd_services_handle_packet(f, s, k), st, [k \in DOMAIN f.pkts |-> k])

-----------------------------------------------------------------------------
(* The main loop.                                                          *)

\* jd_send may find no room; then the packets sent are told the next time.
jd_services_announce(due, fits) ==
  [reset |-> IF due /\ counters.reset < STEADY THEN counters.reset + 1 ELSE counters.reset,
   sent |-> IF due /\ fits THEN 0 ELSE counters.sent,
   told |-> IF due /\ fits THEN <<counters.sent + 1>> ELSE <<>>]

\* The glow after a turn.
Glow(b) ==
  IF b.lastMax = 0 \/ in_past(b.lastMax + TIMEOUT) THEN [lastMax |-> 0, glow |-> "disconnected"] ELSE b

\* A turn of jd_process_everything_core: a frame, then the tick.
Turn(due, fits) ==
  LET st == [brain |-> brain, handled |-> <<>>, replies |-> 0, heard |-> seen.heard]
      end == IF rx = <<>> THEN st ELSE jd_services_process_frame(rx[1], st)
      ann == jd_services_announce(due, fits)
  IN  /\ phase = "run" /\ (due => seen.queued < MaxSent)
      /\ rx' = <<>> /\ brain' = Glow(end.brain)
      /\ counters' = [reset |-> ann.reset, sent |-> ann.sent]
      /\ seen' = [seen EXCEPT !.heard = end.heard, !.turn = time,
                              !.queued = @ + Len(ann.told),
                              !.announced = IF ann.told = <<>> THEN @ ELSE @ + ann.told[1]]
      /\ UNCHANGED <<build, services, phase, time>>

\* A service has queued a packet.
jd_services_packet_queued ==
  /\ phase = "run" /\ seen.queued < MaxSent
  /\ counters' = [counters EXCEPT !.sent = (@ + 1) % COUNTER]
  /\ seen' = [seen EXCEPT !.queued = @ + 1]
  /\ UNCHANGED <<build, services, phase, rx, brain, time>>

Tick ==
  /\ phase = "run" /\ time < MaxTime /\ time - seen.turn < SLACK
  /\ time' = time + 1
  /\ UNCHANGED <<build, services, phase, rx, counters, brain, seen>>

Next ==
  \/ \E c \in Classes : jd_allocate_service(c)
  \/ jd_services_init
  \/ \E f \in Frames : jd_rx_frame_received(f)
  \/ \E due, fits \in BOOLEAN : Turn(due, fits)
  \/ jd_services_packet_queued
  \/ Tick

Spec == Init /\ [][Next]_vars

-----------------------------------------------------------------------------
\* The service is to get packet k of a frame.
Meant(f, k, i) ==
  /\ f.cmd
  /\ \/ f.to = services[i + 1]
     \/ /\ f.to = "self" /\ f.pkts[k].idx = i
        /\ f.pkts[k].what # "name" /\ (f.pkts[k].what = "variant" => i \notin build.variant)

\* Whatever services there are, a command reaches every one it is meant for, once and
\* in the order of the frame, and no other; what the filter drops is meant for none,
\* and has no announcement of a client as its first packet.
Dispatched ==
  \A f \in Frames :
    LET start == [brain |-> brain, handled |-> <<>>, replies |-> 0, heard |-> 0]
        got == jd_services_process_frame(f, start).handled
        meant == {p \in (0..(Len(services) - 1)) \X DOMAIN f.pkts : Meant(f, p[2], p[1])}
        before(h, g) == h[2] < g[2] \/ (h[2] = g[2] /\ h[1] < g[1])
    IN  IF jd_services_needs_frame(f)
        THEN /\ {got[a] : a \in DOMAIN got} = meant
             /\ \A a, b \in DOMAIN got : a < b => before(got[a], got[b])
        ELSE meant = {} /\ (~ f.cmd => ~ is_client_announce(f.pkts[1]))

\* The announcements tell of every packet, up to a multiple of what the counter
\* counts, although an announcement may find no room.
PacketsTold == (seen.announced + counters.sent) % COUNTER = seen.queued % COUNTER

\* After a turn the device shows that the brain is gone when it has not heard of it
\* for too long, and only then, whether the clock wraps or not; one moment, in which
\* the clock is 0, is taken for never.
BrainShown ==
  phase = "run" /\ seen.turn = time =>
    (brain.glow = "disconnected") = (time - seen.heard >= TIMEOUT \/ seen.heard % W = 0)
=============================================================================
