------------------------------- MODULE JdControl ------------------------------
(***************************************************************************)
(* What every device has: registers that are read from and written to the  *)
(* state of a service by walking over a table of their types               *)
(* (service_handle_register in source/jd_services.c), and the control      *)
(* service (source/jd_control.c) with its watchdog and its flood of pings. *)
(*                                                                         *)
(* A behaviour is about one of them.  The clock has W values; a byte with  *)
(* its top bit set stands for a negative one.                              *)
(***************************************************************************)
EXTENDS Integers, Sequences, SequencesExt

CONSTANTS Layouts,   \* sequences of [tp, size, code]: register tables
          Data,      \* sequences of bytes that are written
          PTRSIZE,
          SIZE,      \* bytes of a service's state
          W,
          Deltas,    \* values of RESET_IN
          Floods,    \* values of num_responses
          SLACK,     \* the longest time between two turns of the main loop
          MaxTime,   \* bound: how long a behaviour of the control service is
          MaxSets    \* bound: how often registers are written

VARIABLES desc,    \* the register table; <<>> when it is about the control service
          mem,     \* the service's state, byte by byte
          vals,    \* what each register should hold
          ctl,     \* watchdog, flood_remaining, flood_counter; awake: sleep is not allowed
          time,    \* the time that has really passed; now is time % W
          seen     \* deadline and reset; pings asked for and sent; registers written;
                   \* the time since the last turn of the loop

vars == <<desc, mem, vals, ctl, time, seen>>

now == time % W
is_before(a, b) == (b - a) % W < W \div 2
in_past(moment) == is_before(moment, now)

-----------------------------------------------------------------------------
(* Registers.  Places are [offset, bit].                                   *)

Aligned(offset, size) ==
  LET a == IF size < PTRSIZE THEN size ELSE PTRSIZE IN ((offset + a - 1) \div a) * a

\* Mutant: bits are not left behind before the next register.
PlaceOverlaps(tp, size, at) ==
  IF tp \in {"bit", "bytes"} THEN at ELSE [offset |-> Aligned(at.offset, size), bit |-> 0]

\* Where a register starts when the one before has ended at at.
Place(tp, size, at) ==
  IF tp \in {"bit", "bytes"} THEN at
  ELSE [offset |-> Aligned(IF at.bit > 0 THEN at.offset + 1 ELSE at.offset, size), bit |-> 0]

Behind(tp, size, p) ==
  IF tp # "bit" THEN [p EXCEPT !.offset = @ + size]
  ELSE IF p.bit = 7 THEN [offset |-> p.offset + 1, bit |-> 0] ELSE [p EXCEPT !.bit = @ + 1]

\* The walk: where register i of the table is.
Where(i) ==
  LET step(at, r) == Behind(r.tp, r.size, Place(r.tp, r.size, at))
  IN  Place(desc[i].tp, desc[i].size, FoldLeft(step, [offset |-> 0, bit |-> 0], SubSeq(desc, 1, i - 1)))

BitOf(byte, k) == (byte \div 2^k) % 2

\* The answer to a read; <<>> for none (an optional register that is zero).
Get(i) ==
  LET p == Where(i)
      raw == [k \in 1..desc[i].size |-> mem[p.offset + k - 1]]
  IN  CASE desc[i].tp = "bit" -> <<BitOf(mem[p.offset], p.bit)>>
        [] desc[i].tp = "opt" -> IF \A k \in DOMAIN raw : raw[k] = 0 THEN <<>> ELSE raw
        [] OTHER -> raw

\* Data that is too short is extended, with the sign if the register has one.
Extended(r, data) ==
  LET fill == IF r.tp = "int" /\ data[Len(data)] >= 128 THEN 255 ELSE 0
  IN  [k \in 1..r.size |-> IF k <= Len(data) THEN data[k] ELSE fill]

\* service_handle_register for a write; reserved and read-only codes are refused.
service_handle_register ==
  \E i \in DOMAIN desc, data \in Data :
    LET r == desc[i]
        p == Where(i)
        bytes == Extended(r, data)
        bit == BitOf(mem[p.offset], p.bit)
        to == IF data[1] # 0 THEN 1 ELSE 0
    IN  /\ seen.sets < MaxSets
        /\ seen' = [seen EXCEPT !.sets = @ + 1]
        /\ IF r.code \in {"ro", "padding"} THEN UNCHANGED <<mem, vals>>
           ELSE IF r.tp = "bit"
           THEN /\ mem' = [mem EXCEPT ![p.offset] = @ + (to - bit) * 2^p.bit]
                /\ vals' = [vals EXCEPT ![i] = <<to>>]
           ELSE /\ mem' = [k \in 0..SIZE - 1 |-> IF k \in p.offset..p.offset + r.size - 1
                                                 THEN bytes[k - p.offset + 1] ELSE mem[k]]
                /\ vals' = [vals EXCEPT ![i] = bytes]
        /\ UNCHANGED <<desc, ctl, time>>

-----------------------------------------------------------------------------
(* The control service.                                                    *)

Control == desc = <<>>

\* A deadline on which the clock shows 0 is stored as what stands for none.
SetResetIn ==
  \E delta \in Deltas :
    /\ Control /\ ~seen.reset
    /\ ctl' = [ctl EXCEPT !.watchdog = IF delta = 0 THEN 0 ELSE (now + delta) % W]
    /\ seen' = [seen EXCEPT !.deadline = IF delta = 0 THEN -1 ELSE time + delta]
    /\ UNCHANGED <<desc, mem, vals, time>>

\* The answer to a read of RESET_IN.
ResetIn == IF ctl.watchdog = 0 THEN 0 ELSE (ctl.watchdog - now) % W

\* pwr_enter_no_sleep is called at the start of a flood and at its end.
set_flood(c, num) ==
  [c EXCEPT !.flood_remaining = num, !.awake = @ \/ ((c.flood_remaining = 0) # (num = 0))]

process_flood(c, idle) ==
  IF c.flood_remaining > 0 /\ idle
  THEN set_flood([c EXCEPT !.flood_counter = (@ + 1) % W], c.flood_remaining - 1)
  ELSE c

\* A new flood takes the place of one that is going on.
HandleFloodPing ==
  \E n \in Floods, start \in {0, W - 1} :
    /\ Control /\ ~seen.reset
    /\ ctl' = set_flood([ctl EXCEPT !.flood_counter = start], n)
    /\ seen' = [seen EXCEPT !.from = start, !.asked = n, !.pings = <<>>]
    /\ UNCHANGED <<desc, mem, vals, time>>

WatchdogDue == ctl.watchdog # 0 /\ in_past(ctl.watchdog)

(***************************************************************************)
(* When the watchdog has to bite: at the deadline that was asked for, and  *)
(* behind it.  Two deadlines are not what they seem.  One on which the     *)
(* clock shows 0 is none at all, and one that is more than half the clock  *)
(* away looks as if it were over.                                          *)
(***************************************************************************)
Over ==
  /\ seen.deadline >= 0 /\ seen.deadline % W # 0
  /\ time >= seen.deadline \/ seen.deadline - time > W \div 2

\* A ping when the bus is idle, then the watchdog.
jd_ctrl_process ==
  /\ Control /\ ~seen.reset
  /\ \E idle \in BOOLEAN :
       /\ ctl' = process_flood(ctl, idle)
       /\ seen' = [seen EXCEPT !.pings = IF ctl' # ctl THEN Append(@, ctl.flood_counter) ELSE @,
                               !.reset = WatchdogDue, !.since = 0,
                               !.late = Over /\ ~WatchdogDue]
  /\ UNCHANGED <<desc, mem, vals, time>>

Tick ==
  /\ Control /\ ~seen.reset /\ time < MaxTime /\ seen.since < SLACK
  /\ time' = time + 1
  /\ seen' = [seen EXCEPT !.since = @ + 1]
  /\ UNCHANGED <<desc, mem, vals, ctl>>

-----------------------------------------------------------------------------
Init ==
  /\ desc \in Layouts \cup {<<>>}
  /\ mem = [k \in 0..SIZE - 1 |-> 0]
  /\ vals = [i \in DOMAIN desc |-> IF desc[i].tp = "bit" THEN <<0>> ELSE [k \in 1..desc[i].size |-> 0]]
  /\ ctl = [watchdog |-> 0, flood_remaining |-> 0, flood_counter |-> 0, awake |-> FALSE]
  /\ time = 1
  /\ seen = [deadline |-> -1, reset |-> FALSE, late |-> FALSE, from |-> 0, asked |-> 0, pings |-> <<>>, sets |-> 0,
             since |-> 0]

Next ==
  \/ service_handle_register
  \/ SetResetIn
  \/ HandleFloodPing
  \/ jd_ctrl_process
  \/ Tick

Spec == Init /\ [][Next]_vars

-----------------------------------------------------------------------------
\* Do two registers lie in the same place?
Bytes(i) == LET p == Where(i) IN p.offset..p.offset + (IF desc[i].tp = "bit" THEN 0 ELSE desc[i].size - 1)
Meet(i, j) ==
  IF desc[i].tp = "bit" /\ desc[j].tp = "bit" THEN Where(i) = Where(j)
  ELSE Bytes(i) \cap Bytes(j) # {}

(***************************************************************************)
(* Every register reads as what was last written to it, extended to its    *)
(* size, and each lies at an address its type may have: writing one leaves *)
(* the others alone, bits that share a byte included.  One kind of table   *)
(* is an exception: a register of bytes right behind bits begins in the    *)
(* byte of the bits, since only other types leave it behind.               *)
(***************************************************************************)
RegistersKept ==
  /\ \A i \in DOMAIN desc :
       LET zero == \A k \in DOMAIN vals[i] : vals[i][k] = 0 IN
       /\ (\A j \in DOMAIN desc \ {i} : ~Meet(i, j)) =>
            Get(i) = IF desc[i].tp = "opt" /\ zero THEN <<>> ELSE vals[i]
       /\ desc[i].tp \notin {"bit", "bytes"} => Where(i).offset % desc[i].size = 0
  /\ \A i, j \in DOMAIN desc :
       i < j /\ Meet(i, j) => desc[j].tp = "bytes" /\ \A k \in i..j - 1 : desc[k].tp = "bit"

(***************************************************************************)
(* The device is reset by the watchdog when its time is over, at the first *)
(* turn of the loop from then on and never before, across a wrap of the    *)
(* clock, and RESET_IN tells the time that is left.  A deadline on which   *)
(* the clock shows 0 is forgotten, and one that is more than half the      *)
(* clock away is over at once (see Over).  A flood is as many pings as     *)
(* were asked for, numbered one after the other.                           *)
(***************************************************************************)
ControlKeepsCount ==
  /\ (Control /\ time <= seen.deadline) =>
       ResetIn = IF seen.deadline % W = 0 THEN 0 ELSE seen.deadline - time
  /\ (Control /\ seen.deadline < 0) => ResetIn = 0
  /\ seen.reset => Over
  /\ ~seen.late
  /\ Len(seen.pings) + ctl.flood_remaining = seen.asked
  /\ \A k \in DOMAIN seen.pings : seen.pings[k] = (seen.from + k - 1) % W
=============================================================================
