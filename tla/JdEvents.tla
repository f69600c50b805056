------------------------------ MODULE JdEvents ------------------------------
(***************************************************************************)
(* Events from a device to a client over a bus that loses packets:         *)
(* source/interfaces/event_queue.c sends each event three times, and       *)
(* jd_client_handle_packet of client/routing.c, by the 7-bit counter in    *)
(* the event's command, handles it once.                                   *)
(*                                                                         *)
(* Events are numbered as they are sent; the counter of event e is         *)
(* (Base + e) % 128.  Each packet is received at once, or lost.            *)
(***************************************************************************)
EXTENDS Integers, Sequences, SequencesExt

CONSTANTS
  Bases,        \* values of info.counter at start
  QueueCap,     \* events that fit in the retransmission queue
  FIRST_DELAY, SECOND_DELAY,
  MaxEvents, MaxTime, MaxExpiries \* bounds

COUNTER_MASK == 127
\* The client's window: older than BEHIND is new again, further ahead than AHEAD is a gap.
BEHIND == 60
AHEAD == 5

VARIABLES
  base,
  now,
  sent,           \* events sent so far
  queue,          \* info.buffer: [ev, ts, stage]; stage: copies sent again, 2 marks a hole
  device,         \* does the client know the device?
  _event_counter, \* dev->_event_counter, 255 while no event was seen
  (* history *)
  delivered,      \* events handled since the client knows the device
  lastArrived,    \* events whose last copy arrived since then
  burst,          \* were more than AHEAD events waiting to be sent again at some time since then?
  expiries

vars == <<base, now, sent, queue, device, _event_counter, delivered, lastArrived, burst, expiries>>

\* info.counter in the command of event e
counter(e) == (base + e) % (COUNTER_MASK + 1)

\* Mutant: no distinction is made by the counter.
IgnoredNever(pec, ec) == FALSE

\* The client.  With ec the counter expected next, is this event ignored as repeated or early?
Ignored(pec, ec) ==
  LET ahead == (pec - ec) % (COUNTER_MASK + 1)
      behind == (ec - pec) % (COUNTER_MASK + 1)
  IN  ahead > 0 /\ (behind < BEHIND \/ ahead < AHEAD)

\* The client's state: the counter it keeps and, as history, the events it has handled
\* and those whose last copy arrived.
Client == [c |-> _event_counter, d |-> delivered, a |-> lastArrived]

\* jd_client_handle_packet on an event; last: is this its last copy?
Handle(cl, e, last) ==
  LET pec == counter(e)
      ec == (IF cl.c = 255 THEN pec - 1 ELSE cl.c) + 1
      arrived == IF last THEN cl.a \cup {e} ELSE cl.a
  IN  IF Ignored(pec, ec) THEN [c |-> cl.c, d |-> cl.d, a |-> arrived]
      ELSE [c |-> pec, d |-> Append(cl.d, e), a |-> arrived]

\* The client gets a packet that is not lost, if it knows the device.
Receive(cl, e, last, got) == IF device /\ e \in got THEN Handle(cl, e, last) ELSE cl

ClientIs(cl) == _event_counter' = cl.c /\ delivered' = cl.d /\ lastArrived' = cl.a

Init ==
  /\ base \in Bases /\ now = 0 /\ sent = 0 /\ queue = <<>>
  /\ device = TRUE /\ _event_counter = 255
  /\ delivered = <<>> /\ lastArrived = {} /\ burst = FALSE /\ expiries = 0

-----------------------------------------------------------------------------
\* jd_send_event_ext: sent at once, and queued for two more copies; the oldest makes room.
SendEvent ==
  /\ sent < MaxEvents
  /\ sent' = sent + 1
  /\ queue' = Append(IF Len(queue) = QueueCap THEN Tail(queue) ELSE queue,
                     [ev |-> sent + 1, ts |-> now + FIRST_DELAY, stage |-> 0])
  /\ burst' = (burst \/ Len(queue') > AHEAD)
  /\ \E got \in SUBSET {sent + 1} : ClientIs(Receive(Client, sent + 1, FALSE, got))
  /\ UNCHANGED <<base, now, device, expiries>>

(***************************************************************************)
(* do_process_event_queue, as far as the event jd_send refuses, if any.    *)
(* acc.q is the queue as it is left, acc.cl the client after the packets.  *)
(***************************************************************************)
Visit(acc, e, refuse, got) ==
  LET due == now >= e.ts
      kept(x) == Append(acc.q, x)
      done(x) == IF acc.q = <<>> THEN acc.q ELSE kept(x)
      heard == Receive(acc.cl, e.ev, e.stage = 1, got)
  IN  CASE acc.stop -> [acc EXCEPT !.q = kept(e)]
        [] ~ acc.stop /\ e.stage = 2 -> [acc EXCEPT !.q = done(e)]
        [] ~ acc.stop /\ e.stage # 2 /\ ~ due -> [acc EXCEPT !.q = kept(e)]
        [] ~ acc.stop /\ e.stage # 2 /\ due /\ refuse -> [q |-> kept(e), cl |-> acc.cl, stop |-> TRUE]
        [] ~ acc.stop /\ e.stage = 0 /\ due /\ ~ refuse ->
             [q |-> kept([ev |-> e.ev, ts |-> e.ts + SECOND_DELAY, stage |-> 1]), cl |-> heard,
              stop |-> FALSE]
        [] ~ acc.stop /\ e.stage = 1 /\ due /\ ~ refuse ->
             [q |-> done([e EXCEPT !.stage = 2]), cl |-> heard, stop |-> FALSE]

Pass(stop, got) ==
  LET after[i \in 0 .. Len(queue)] ==
        IF i = 0 THEN [q |-> <<>>, cl |-> Client, stop |-> FALSE]
        ELSE Visit(after[i - 1], queue[i], i = stop, got)
  IN  after[Len(queue)]

ProcessQueue ==
  /\ \E stop \in 1 .. Len(queue) + 1, got \in SUBSET {queue[i].ev : i \in DOMAIN queue} :
       /\ Pass(stop, got).q # queue
       /\ queue' = Pass(stop, got).q
       /\ ClientIs(Pass(stop, got).cl)
  /\ UNCHANGED <<base, now, sent, device, burst, expiries>>

-----------------------------------------------------------------------------
Tick ==
  /\ now < MaxTime
  /\ now' = now + 1
  /\ UNCHANGED <<base, sent, queue, device, _event_counter, delivered, lastArrived, burst, expiries>>

\* jd_device_gc: no announcement has been heard for two seconds.
Expire ==
  /\ device /\ expiries < MaxExpiries
  /\ device' = FALSE /\ expiries' = expiries + 1
  /\ UNCHANGED <<base, now, sent, queue, _event_counter, delivered, lastArrived, burst>>

\* jd_device_alloc, on the next announcement
Announce ==
  /\ ~ device
  /\ device' = TRUE /\ _event_counter' = 255
  /\ delivered' = <<>> /\ lastArrived' = {} /\ burst' = (Len(queue) > AHEAD)
  /\ UNCHANGED <<base, now, sent, queue, expiries>>

Next == SendEvent \/ ProcessQueue \/ Tick \/ Expire \/ Announce

Spec == Init /\ [][Next]_vars

-----------------------------------------------------------------------------
(* Properties *)

\* Types; the queue never holds more than fits.
TypeOK ==
  /\ base \in Bases /\ now \in 0 .. MaxTime /\ sent \in 0 .. MaxEvents
  /\ queue \in Seq([ev : 1 .. MaxEvents, ts : Nat, stage : 0 .. 2]) /\ Len(queue) <= QueueCap
  /\ device \in BOOLEAN /\ _event_counter \in 0 .. COUNTER_MASK \cup {255}
  /\ delivered \in Seq(1 .. MaxEvents) /\ burst \in BOOLEAN

(***************************************************************************)
(* A client handles an event at most once, and events in the order they    *)
(* were sent, although each is sent three times and the copies of several  *)
(* events interleave.                                                      *)
(***************************************************************************)
OnceInOrder == \A i, j \in DOMAIN delivered : i < j => delivered[i] < delivered[j]

(***************************************************************************)
(* No event is ever marked as a hole in the queue: events finish in order, *)
(* even when jd_send refuses some (the code says of the mark: "not sure    *)
(* this can happen").                                                      *)
(***************************************************************************)
NoHoles == \A i \in DOMAIN queue : queue[i].stage # 2

(***************************************************************************)
(* If the last copies of the events since the first one handled arrive,    *)
(* all of them are handled: what is missed earlier is made up for.  That   *)
(* is so until more than AHEAD events wait in the queue, which has room    *)
(* for more: then one of them may come first so far ahead of the one the   *)
(* client expects that the gap is taken for a restart of the counter, and  *)
(* the events between, still to be sent again, are lost.                   *)
(***************************************************************************)
LastCopiesSuffice ==
  ~ burst /\ delivered # <<>> =>
    \A e \in delivered[1] .. MaxEvents :
      delivered[1] + 1 .. e \subseteq lastArrived => Contains(delivered, e)

\* Events are handled at most once and in order, all of them if their last copies
\* arrive and no burst was too long, and the queue has no holes.
EventsDelivered == TypeOK /\ OnceInOrder /\ NoHoles /\ LastCopiesSuffice
=============================================================================
