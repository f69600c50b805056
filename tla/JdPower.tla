------------------------------ MODULE JdPower ------------------------------
(***************************************************************************)
(* Several devices with the power service (services/power.c) on one bus.   *)
(* Each may power the bus through its limiter; one that does, or that has  *)
(* just shut it down because of an overload, sends shutdown frames, which  *)
(* make the others give way.                                               *)
(*                                                                         *)
(* Timers count down in ticks of about 256 ms, 0 is the past.  Within a    *)
(* tick every device runs power_process until it comes to its end, and     *)
(* every frame is sent and handled; in which order is open.  A ramp (16    *)
(* ms) is shorter than a tick.  The keep-on pulses and the leds are left   *)
(* out.                                                                    *)
(***************************************************************************)
EXTENDS Naturals

CONSTANTS
  Providers,
  Watchdog,      \* those with cfg->en_active_high = 3, HW_WATCHDOG()
  ShutdownIn,    \* ticks to the next shutdown frame, around 512 ms
  ReEnableIn,    \* ticks after the last shutdown frame, around 1280 ms
  SwitchIn,      \* ticks until an over-provisioned device takes its turn, around 8 s
  OverloadIn,    \* ticks off after an overload, around 2 s
  MaxEvents      \* changes of the environment in a behaviour

VARIABLES
  allowed, power_status, prev_power_status,
  power_on_complete,  \* "no" for 0, "future", "past"
  next_shutdown, power_switch_time, re_enable,
  rawFrame,     \* is a shutdown frame to be sent, or being sent?
  en,           \* the limiter: does the device put power on the bus?
  det,          \* the pin that tells if the device itself has power
  received,     \* a shutdown frame waits to be handled
  processed,    \* has power_process come to its end in this tick?
  shorted,      \* is there too much load on the bus?
  events,
  revoked,      \* history: power was disallowed, or lost, before it had ramped up
  dark,         \* history: ticks without power on the bus although somebody could power it
  both          \* history: ticks with two or more that power it

FAR == 1000    \* re_enable in the "very distant future", which does not come

timers == <<next_shutdown, power_switch_time, re_enable>>
wire == <<rawFrame, received>>
outside == <<det, shorted, events, dark, both>>
vars == <<allowed, power_status, prev_power_status, power_on_complete, timers, wire, en,
          processed, outside, revoked>>

Init ==
  /\ allowed = [p \in Providers |-> TRUE]
  /\ power_status = [p \in Providers |-> "POWERING"]
  /\ prev_power_status = [p \in Providers |-> "DISALLOWED"]
  /\ power_on_complete = [p \in Providers |-> "no"]
  /\ next_shutdown = [p \in Providers |-> 1]
  /\ power_switch_time = [p \in Providers |-> 0] /\ re_enable = power_switch_time
  /\ en = [p \in Providers |-> p \notin Watchdog]
  /\ rawFrame = [p \in Providers |-> FALSE]
  /\ received = rawFrame /\ processed = rawFrame /\ revoked = rawFrame
  /\ det = allowed
  /\ shorted = FALSE /\ events = 0 /\ dark = 0 /\ both = 0

\* set_limiter; in watchdog mode the pin is pulsed by power_process instead, see Pulsed.
set_limiter(p, status) ==
  IF p \in Watchdog THEN status \in {"OVERLOAD", "POWERING"} ELSE status = "POWERING"

pin_fault(p) == ~ (shorted /\ en[p])    \* the pin is low when there is a fault

\* The first part of power_process: the supply is checked, and the watchdog's fault.
StatusAtFirst(p) ==
  LET st == power_status[p]
      supplied ==
        IF ~ det[p] /\ st = "POWERING" THEN "DISALLOWED"
        ELSE IF det[p] /\ allowed[p] /\ st = "DISALLOWED" THEN "POWERING" ELSE st
  IN  IF p \in Watchdog /\ supplied = "OVERLOAD" /\ pin_fault(p) THEN "POWERING" ELSE supplied

\* The watchdog's pin is pulsed for as long as the device may power the bus.
Pulsed(p, st) == IF p \in Watchdog THEN set_limiter(p, st) ELSE en[p]

(***************************************************************************)
(* power_process, one action for each way through it.  Powering up: the    *)
(* limiter is switched on and given time to ramp up.                       *)
(***************************************************************************)
RampUp(p) ==
  LET st == StatusAtFirst(p) IN
  /\ st = "POWERING" /\ prev_power_status[p] # "POWERING"
  /\ \/ /\ power_on_complete[p] = "no"
        /\ en' = [en EXCEPT ![p] = set_limiter(p, st)]
        /\ power_on_complete' = [power_on_complete EXCEPT ![p] = "future"]
     \/ /\ power_on_complete[p] = "future"
        /\ UNCHANGED <<en, power_on_complete>>
  /\ power_status' = [power_status EXCEPT ![p] = st]
  /\ processed' = [processed EXCEPT ![p] = TRUE] /\ dark' = 0
  /\ UNCHANGED <<allowed, prev_power_status, timers, wire, det, shorted, events, both, revoked>>

\* The rest of power_process after the status was settled as st.
power_status_changed(p, st) == prev_power_status' = [prev_power_status EXCEPT ![p] = st]

Rest(p, st, reenable, ontime) ==
  /\ power_on_complete' = [power_on_complete EXCEPT ![p] = "no"]
  /\ power_status_changed(p, st)
  /\ IF next_shutdown[p] = 0
     THEN /\ \E n \in ShutdownIn : next_shutdown' = [next_shutdown EXCEPT ![p] = n]
          /\ rawFrame' = [rawFrame EXCEPT ![p] = @ \/ st \in {"OVERLOAD", "POWERING"}]
          /\ power_status' = [power_status EXCEPT ![p] = st]
          /\ re_enable' = [re_enable EXCEPT ![p] = reenable]
          /\ processed' = [processed EXCEPT ![p] = FALSE]
     ELSE LET again == /\ allowed[p] /\ st # "POWERING"
                       /\ reenable = 0 \/ (st = "OVERPROVISION" /\ ontime)
          IN  /\ power_status' = [power_status EXCEPT ![p] = IF again THEN "POWERING" ELSE st]
              /\ re_enable' = [re_enable EXCEPT ![p] = IF again THEN FAR ELSE reenable]
              /\ next_shutdown' = [next_shutdown EXCEPT ![p] = IF again THEN 0 ELSE @]
              /\ rawFrame' = rawFrame
              /\ processed' = [processed EXCEPT ![p] = ~ again]
  /\ UNCHANGED <<allowed, power_switch_time, received, outside>>

\* In the steady state, or at the end of the ramp.
Powering(p) ==
  LET st == StatusAtFirst(p) IN
  /\ st = "POWERING"
  /\ prev_power_status[p] = "POWERING" \/ power_on_complete[p] = "past"
  /\ revoked' = [revoked EXCEPT ![p] = FALSE]
  /\ IF prev_power_status[p] = "POWERING" /\ ~ pin_fault(p)
     THEN /\ en' = [en EXCEPT ![p] = set_limiter(p, "OVERLOAD")]
          /\ \E n \in OverloadIn : Rest(p, "OVERLOAD", n, FALSE)
     ELSE /\ en' = [en EXCEPT ![p] = Pulsed(p, st)]
          /\ Rest(p, st, re_enable[p], FALSE)

\* The limiter is set only if the status is not the one of the last time here.
NotPowering(p) ==
  LET st == StatusAtFirst(p) IN
  /\ st # "POWERING"
  /\ en' = [en EXCEPT ![p] = IF prev_power_status[p] # st THEN set_limiter(p, st) ELSE Pulsed(p, st)]
  /\ revoked' = [revoked EXCEPT ![p] =
                   @ \/ (power_status[p] = "POWERING" /\ prev_power_status[p] # "POWERING")]
  /\ Rest(p, st, re_enable[p], power_switch_time[p] = 0)

\* Mutant: the time to power the bus again is not set when the frame comes.
power_handle_shutdownLate(p) ==
  LET gives_way == /\ power_status[p] \in {"POWERING", "OVERLOAD"}
                   /\ ~ rawFrame[p] /\ power_on_complete[p] = "no"
      st == IF gives_way THEN "OVERPROVISION" ELSE power_status[p]
  IN  /\ received[p]
      /\ received' = [received EXCEPT ![p] = FALSE]
      /\ power_status' = [power_status EXCEPT ![p] = st]
      /\ \E n \in SwitchIn :
           power_switch_time' = [power_switch_time EXCEPT ![p] = IF gives_way THEN n ELSE @]
      /\ re_enable' = [re_enable EXCEPT ![p] = FAR]
      /\ processed' = [processed EXCEPT ![p] = @ /\ ~ gives_way]
      /\ UNCHANGED <<allowed, prev_power_status, power_on_complete, next_shutdown, rawFrame, en,
                     outside, revoked>>

\* power_handle_packet on JD_POWER_CMD_SHUTDOWN
power_handle_shutdown(p) ==
  LET gives_way == /\ power_status[p] \in {"POWERING", "OVERLOAD"}
                   /\ ~ rawFrame[p] /\ power_on_complete[p] = "no"
      st == IF gives_way THEN "OVERPROVISION" ELSE power_status[p]
  IN  /\ received[p]
      /\ received' = [received EXCEPT ![p] = FALSE]
      /\ power_status' = [power_status EXCEPT ![p] = st]
      /\ \E n \in SwitchIn :
           power_switch_time' = [power_switch_time EXCEPT ![p] = IF gives_way THEN n ELSE @]
      /\ \E n \in ReEnableIn : re_enable' = [re_enable EXCEPT ![p] = n]
      /\ processed' = [processed EXCEPT ![p] = @ /\ ~ gives_way]
      /\ UNCHANGED <<allowed, prev_power_status, power_on_complete, next_shutdown, rawFrame, en,
                     outside, revoked>>

\* power_handle_packet on a write of the register: a client allows or disallows power.
\* The same value written again restarts a device that gave way or shut down.
SetAllowed(p, allow) ==
  /\ events < MaxEvents /\ events' = events + 1 /\ dark' = 0 /\ both' = 0
  /\ allowed' = [allowed EXCEPT ![p] = allow]
  /\ power_status' = [power_status EXCEPT ![p] = IF allow THEN "POWERING" ELSE "DISALLOWED"]
  /\ processed' = [processed EXCEPT ![p] = FALSE]
  /\ revoked' = [revoked EXCEPT ![p] =
                   @ \/ (~ allow /\ en[p] /\ prev_power_status[p] # "POWERING")]
  /\ UNCHANGED <<prev_power_status, power_on_complete, timers, wire, en, det,
                 shorted>>

\* The shutdown frame has been sent: the others receive it.
Sent(p) ==
  /\ rawFrame[p]
  /\ rawFrame' = [rawFrame EXCEPT ![p] = FALSE]
  /\ received' = [q \in Providers |-> received[q] \/ q # p]
  /\ UNCHANGED <<allowed, power_status, prev_power_status, power_on_complete, timers, en,
                 processed, outside, revoked>>

\* The load changes, or a device loses its own power or gets it back.
Environment ==
  /\ events < MaxEvents /\ events' = events + 1 /\ dark' = 0 /\ both' = 0
  /\ \/ shorted' = ~ shorted /\ det' = det
     \/ shorted' = shorted /\ \E p \in Providers : det' = [det EXCEPT ![p] = ~ @]
  /\ UNCHANGED <<allowed, power_status, prev_power_status, power_on_complete, timers, wire, en,
                 processed, revoked>>

\* The 16 ms of a ramp are over.
RampedUp(p) ==
  /\ power_on_complete[p] = "future"
  /\ power_on_complete' = [power_on_complete EXCEPT ![p] = "past"]
  /\ processed' = [processed EXCEPT ![p] = FALSE]
  /\ UNCHANGED <<allowed, power_status, prev_power_status, timers, wire, en, outside, revoked>>

Powered == {p \in Providers : en[p] /\ det[p] /\ ~ revoked[p]}
Willing(p) == allowed[p] /\ det[p]
Overloaded == shorted \/ \E p \in Providers : power_status[p] = "OVERLOAD"

Tick ==
  /\ \A p \in Providers :
       processed[p] /\ ~ rawFrame[p] /\ ~ received[p] /\ power_on_complete[p] # "future"
  /\ processed' = [p \in Providers |-> FALSE]
  /\ next_shutdown' = [p \in Providers |-> IF next_shutdown[p] = 0 THEN 0 ELSE next_shutdown[p] - 1]
  /\ re_enable' = [p \in Providers |-> IF re_enable[p] \in {0, FAR} THEN re_enable[p] ELSE re_enable[p] - 1]
  /\ power_switch_time' = [p \in Providers |->
       IF power_status[p] # "OVERPROVISION" \/ power_switch_time[p] = 0 THEN 0
       ELSE power_switch_time[p] - 1]
  /\ dark' = IF Powered = {} /\ ~ Overloaded /\ \E p \in Providers : Willing(p)
             THEN dark + 1 ELSE 0
  /\ both' = IF \E p, q \in Powered : p # q THEN both + 1 ELSE 0
  /\ UNCHANGED <<allowed, power_status, prev_power_status, power_on_complete, wire, en, det,
                 shorted, events, revoked>>

Next ==
  \/ Tick \/ Environment
  \/ \E p \in Providers :
       \/ RampUp(p) \/ RampedUp(p) \/ Powering(p) \/ NotPowering(p)
       \/ power_handle_shutdown(p) \/ Sent(p)
       \/ \E allow \in BOOLEAN : SetAllowed(p, allow)

Spec == Init /\ [][Next]_vars

-----------------------------------------------------------------------------
(* Properties *)

(***************************************************************************)
(* Once the overload is over, the bus is without power, although a device  *)
(* could power it, for no longer than it takes the one that gave way last  *)
(* to notice that the shutdown frames have stopped - also when two devices *)
(* made each other give way.                                               *)
(***************************************************************************)
AlwaysPowered == \E d \in ReEnableIn : dark <= d

(***************************************************************************)
(* Two devices power the bus together for no longer than the time between  *)
(* two shutdown frames, and the one in which a frame met a ramp.           *)
(***************************************************************************)
NoFighting == \E d \in ShutdownIn : both <= d + 1

(***************************************************************************)
(* A device that is not powering the bus has its limiter off as soon as    *)
(* power_process has run.  The exception is real: when power is disallowed *)
(* again before it has ramped up - also by a device that gave way before   *)
(* its first ramp - the status is back at the previous one and set_limiter *)
(* is not called.                                                          *)
(***************************************************************************)
LimiterFollows ==
  \A p \in Providers :
    en[p] /\ processed[p] /\ prev_power_status[p] = power_status[p]
      => \/ power_status[p] = "POWERING" \/ revoked[p]
         \/ p \in Watchdog /\ power_status[p] = "OVERLOAD"

\* The bus has power, from one device most of the time, and the limiters follow.
PowerSound == AlwaysPowered /\ NoFighting /\ LimiterFollows
=============================================================================
